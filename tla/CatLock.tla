------------------------------- MODULE CatLock -------------------------------
(***************************************************************************)
(* The cats and mice of catlock.c.  catmouselock forks the cat and mouse   *)
(* threads; each runs catlock/mouselock: NCATEATS times it takes           *)
(* lockDishSelect, waits on isDishFree while no dish is free or the other  *)
(* species is eating, takes a free dish lock, updates the counters,        *)
(* releases lockDishSelect, broadcasts, eats, updates the counters again   *)
(* without lockDishSelect, releases the dish and broadcasts.  Finally it   *)
(* decrements numThreadsRunning under countLock; catmouselock spins until  *)
(* that reaches 0.                                                         *)
(*                                                                         *)
(* The counters are volatile ints updated with ++/--: a load, an add and a *)
(* store, between which the timer may switch threads.  Every update is a  *)
(* load step and a store step.                                             *)
(*                                                                         *)
(* Locks and condition variables follow OS161's synch.c (not in this       *)
(* repository): lock_acquire sleeps while the lock is held; cv_wait        *)
(* releases the lock and sleeps in one step with interrupts off, and       *)
(* reacquires the lock when woken; cv_broadcast wakes every sleeper.        *)
(***************************************************************************)
EXTENDS Integers, FiniteSets, Sequences

CONSTANTS Cats, Mice,      \* the cat and mouse threads
          NEATS,           \* NCATEATS = NMOUSEEATS: iterations per thread
          None             \* no holder of a lock

Counters == {"numDishesAvailable", "numCatsEating", "numMiceEating"}

ASSUME Cats \cap Mice = {} /\ NEATS \in Nat \ {0}

Threads == Cats \cup Mice

Locks == {"lockDishSelect", "lockDish1", "lockDish2"}

VARIABLES pc,        \* the statement each thread is at
          iter,      \* the loop index i of each thread
          dish,      \* the dish (1 or 2) each thread took in this iteration
          reg,       \* the value a thread loaded for a ++/-- in progress
          holder,    \* holder of each lock
          sleepers,  \* threads asleep on isDishFree
          count,     \* the three shared counters
          numThreadsRunning

vars == <<pc, iter, dish, reg, holder, sleepers, count, numThreadsRunning>>

\* The counter a thread's species increments while eating, and the one it avoids.
Own(t) == IF t \in Cats THEN "numCatsEating" ELSE "numMiceEating"
Other(t) == IF t \in Cats THEN "numMiceEating" ELSE "numCatsEating"

\* Variant of DishLock that releases lockDish1 whichever dish was taken, as a
\* copy of the dish-1 branch into the dish-2 branch would.
DishLockCopied(t) == "lockDish1"

DishLock(t) == IF dish[t] = 1 THEN "lockDish1" ELSE "lockDish2"

(***************************************************************************)
(* The four counter updates of an iteration: where each starts, the        *)
(* counter, the delta and the statement that follows it.                   *)
(***************************************************************************)
Updates ==
    [dec_avail |-> [c |-> "avail", d |-> -1, next |-> "inc_own"],
     inc_own   |-> [c |-> "own",   d |-> 1,  next |-> "rel_select"],
     inc_avail |-> [c |-> "avail", d |-> 1,  next |-> "dec_own"],
     dec_own   |-> [c |-> "own",   d |-> -1, next |-> "rel_dish"]]

CounterOf(t, u) ==
    IF Updates[u].c = "avail" THEN "numDishesAvailable" ELSE Own(t)

\* pc values: the update steps carry a suffix "_st" once the load is done.
Labels ==
    {"select", "check", "wait", "asleep", "reacquire", "pick", "eat",
     "rel_select", "bcast_got", "rel_dish", "bcast_end", "count", "done"}
    \cup DOMAIN Updates \cup {u \o "_st" : u \in DOMAIN Updates}

-----------------------------------------------------------------------------
\* catmouselock: the counters' initial values, then the threads are forked.
Init ==
    /\ pc = [t \in Threads |-> "select"]
    /\ iter = [t \in Threads |-> 0]
    /\ dish = [t \in Threads |-> 1]
    /\ reg = [t \in Threads |-> 0]
    /\ holder = [l \in Locks |-> None]
    /\ sleepers = {}
    /\ count = [c \in Counters |-> IF c = "numDishesAvailable" THEN 2 ELSE 0]
    /\ numThreadsRunning = Cardinality(Threads)

Goto(t, l) == pc' = [pc EXCEPT ![t] = l]

\* lock_acquire(lockDishSelect) at the top of the loop, and inside cv_wait.
AcquireSelect(t) ==
    /\ pc[t] \in {"select", "reacquire"}
    /\ holder["lockDishSelect"] = None
    /\ holder' = [holder EXCEPT !["lockDishSelect"] = t]
    /\ Goto(t, "check")
    /\ UNCHANGED <<iter, dish, reg, sleepers, count, numThreadsRunning>>

\* while (numDishesAvailable <= 0 || numOtherEating > 0)
Check(t) ==
    /\ pc[t] = "check"
    /\ Goto(t, IF count["numDishesAvailable"] <= 0 \/ count[Other(t)] > 0
               THEN "wait" ELSE "pick")
    /\ UNCHANGED <<iter, dish, reg, holder, sleepers, count, numThreadsRunning>>

\* cv_wait(isDishFree, lockDishSelect): release the lock and sleep.
Wait(t) ==
    /\ pc[t] = "wait"
    /\ holder' = [holder EXCEPT !["lockDishSelect"] = None]
    /\ sleepers' = sleepers \cup {t}
    /\ Goto(t, "asleep")
    /\ UNCHANGED <<iter, dish, reg, count, numThreadsRunning>>

(***************************************************************************)
(* if (lockDish1->isLocked == 0) lock_acquire(lockDish1) else if dish 2 is *)
(* free take it, else fall through to the broadcast at the loop's end.     *)
(* Only holders of lockDishSelect take a dish lock, so the test and the    *)
(* acquire are one step.                                                   *)
(***************************************************************************)
Pick(t) ==
    /\ pc[t] = "pick"
    /\ \/ /\ holder["lockDish1"] = None
          /\ holder' = [holder EXCEPT !["lockDish1"] = t]
          /\ dish' = [dish EXCEPT ![t] = 1]
          /\ Goto(t, "dec_avail")
       \/ /\ holder["lockDish1"] # None /\ holder["lockDish2"] = None
          /\ holder' = [holder EXCEPT !["lockDish2"] = t]
          /\ dish' = [dish EXCEPT ![t] = 2]
          /\ Goto(t, "dec_avail")
       \/ /\ holder["lockDish1"] # None /\ holder["lockDish2"] # None
          /\ Goto(t, "bcast_end")
          /\ UNCHANGED <<holder, dish>>
    /\ UNCHANGED <<iter, reg, sleepers, count, numThreadsRunning>>

(***************************************************************************)
(* A ++ or -- of a counter: the load, then the store of the loaded value   *)
(* plus the delta.                                                         *)
(***************************************************************************)
Load(t) ==
    /\ pc[t] \in DOMAIN Updates
    /\ reg' = [reg EXCEPT ![t] = count[CounterOf(t, pc[t])]]
    /\ Goto(t, pc[t] \o "_st")
    /\ UNCHANGED <<iter, dish, holder, sleepers, count, numThreadsRunning>>

Store(t) ==
    \E u \in DOMAIN Updates :
        /\ pc[t] = u \o "_st"
        /\ count' = [count EXCEPT ![CounterOf(t, u)] = reg[t] + Updates[u].d]
        /\ Goto(t, Updates[u].next)
        /\ UNCHANGED <<iter, dish, reg, holder, sleepers, numThreadsRunning>>

\* lock_release(lockDishSelect) once the dish is taken.
ReleaseSelect(t) ==
    /\ pc[t] = "rel_select"
    /\ holder' = [holder EXCEPT !["lockDishSelect"] = None]
    /\ Goto(t, "bcast_got")
    /\ UNCHANGED <<iter, dish, reg, sleepers, count, numThreadsRunning>>

\* cv_broadcast(isDishFree, ..): every sleeper goes on to reacquire the lock;
\* the broadcasting thread goes on to statement l.
Broadcast(t, l) ==
    /\ pc' = [u \in Threads |-> IF u \in sleepers THEN "reacquire"
                               ELSE IF u = t THEN l ELSE pc[u]]
    /\ sleepers' = {}

\* The broadcast right after taking a dish, lockDishSelect already released.
BroadcastGot(t) ==
    /\ pc[t] = "bcast_got"
    /\ Broadcast(t, "eat")
    /\ UNCHANGED <<iter, dish, reg, holder, count, numThreadsRunning>>

\* lock_eat: the thread eats at its dish.
Eat(t) ==
    /\ pc[t] = "eat"
    /\ Goto(t, "inc_avail")
    /\ UNCHANGED <<iter, dish, reg, holder, sleepers, count, numThreadsRunning>>

\* lock_release of the dish lock, after the unlocked counter updates.
ReleaseDish(t) ==
    /\ pc[t] = "rel_dish"
    /\ holder' = [holder EXCEPT ![DishLock(t)] = None]
    /\ Goto(t, "bcast_end")
    /\ UNCHANGED <<iter, dish, reg, sleepers, count, numThreadsRunning>>

\* Variant of BroadcastEnd with the loop test i <= NCATEATS.
BroadcastEndOffByOne(t) ==
    /\ pc[t] = "bcast_end"
    /\ Broadcast(t, IF iter[t] + 1 <= NEATS THEN "select" ELSE "count")
    /\ iter' = [iter EXCEPT ![t] = @ + 1]
    /\ UNCHANGED <<dish, reg, holder, count, numThreadsRunning>>

\* The broadcast at the end of the loop body, then i++ and the loop test.
BroadcastEnd(t) ==
    /\ pc[t] = "bcast_end"
    /\ Broadcast(t, IF iter[t] + 1 < NEATS THEN "select" ELSE "count")
    /\ iter' = [iter EXCEPT ![t] = @ + 1]
    /\ UNCHANGED <<dish, reg, holder, count, numThreadsRunning>>

\* lock_acquire(countLock); numThreadsRunning--; lock_release(countLock).
CountDown(t) ==
    /\ pc[t] = "count"
    /\ numThreadsRunning' = numThreadsRunning - 1
    /\ Goto(t, "done")
    /\ UNCHANGED <<iter, dish, reg, holder, sleepers, count>>

Step(t) ==
    \/ AcquireSelect(t) \/ Check(t) \/ Wait(t) \/ Pick(t)
    \/ Load(t) \/ Store(t)
    \/ ReleaseSelect(t) \/ BroadcastGot(t) \/ Eat(t)
    \/ ReleaseDish(t) \/ BroadcastEnd(t) \/ CountDown(t)

\* Every thread has finished: catmouselock's spin ends and it returns.
Finished ==
    /\ \A t \in Threads : pc[t] = "done"
    /\ UNCHANGED vars

Next == (\E t \in Threads : Step(t)) \/ Finished

\* Preemptive round-robin scheduling: a runnable thread is eventually run.
Spec == Init /\ [][Next]_vars /\ \A t \in Threads : WF_vars(Step(t))

-----------------------------------------------------------------------------
\* Each update moves a counter by one from a value it loaded: no counter
\* leaves 2 +/- the number of updates the threads make.
CountBound == 2 + Cardinality(Threads) * NEATS

TypeOK ==
    /\ pc \in [Threads -> Labels]
    /\ iter \in [Threads -> 0 .. NEATS]
    /\ dish \in [Threads -> {1, 2}]
    /\ holder \in [Locks -> Threads \cup {None}]
    /\ sleepers \subseteq Threads
    /\ count \in [Counters -> -CountBound .. CountBound]
    /\ numThreadsRunning \in 0 .. Cardinality(Threads)

Eating(t) == pc[t] = "eat"

(***************************************************************************)
(* A cat and a mouse never eat at the same time: a cat starts only when it *)
(* sees numMiceEating = 0 under lockDishSelect, and a mouse only when it   *)
(* sees numCatsEating = 0; the counters are meant to count the eaters.     *)
(***************************************************************************)
CatsMiceExclusive ==
    ~(\E c \in Cats, m \in Mice : Eating(c) /\ Eating(m))

(***************************************************************************)
(* Every thread eventually finishes its NCATEATS/NMOUSEEATS iterations and *)
(* counts itself out, so catmouselock's spin on numThreadsRunning ends.    *)
(* Two behaviours of catlock break it: a thread that passes the wait loop  *)
(* while both dish locks are held keeps lockDishSelect (no release on that *)
(* path), and cv_broadcast(isDishFree) is called without lockDishSelect,   *)
(* so it can fall between a waiter's loop test and its cv_wait.            *)
(***************************************************************************)
AllThreadsFinish == <>(numThreadsRunning = 0)

(***************************************************************************)
(* No two threads eat at the same dish at once.  numDishesAvailable is     *)
(* updated by unlocked loads and stores (the ++ after lock_eat) racing the *)
(* -- under lockDishSelect, so it can admit more threads past the wait     *)
(* loop than there are free dishes; what keeps the dishes apart is the     *)
(* isLocked test of each dish lock under lockDishSelect, and each thread   *)
(* releasing the dish lock it took.                                        *)
(***************************************************************************)
AtDish(t) == pc[t] \in {"eat", "inc_avail", "inc_avail_st", "dec_own", "dec_own_st"}

DishExclusive ==
    \A t, u \in Threads : t # u /\ AtDish(t) /\ AtDish(u) => dish[t] # dish[u]

=============================================================================
