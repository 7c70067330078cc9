------------------------------ MODULE Stoplight ------------------------------
(***************************************************************************)
(* The intersection of stoplight.c.  Each car is a thread running          *)
(* approachintersection: it picks a direction and a turn with random(),    *)
(* P(intersectionSem), crosses one, two or three quadrants taking the      *)
(* semaphore of the next quadrant before releasing the one it is in,       *)
(* V(intersectionSem), and decrements numThreadsRunningTraffic under       *)
(* countThreads.  createcars spins until that counter is 0.                *)
(*                                                                         *)
(* A car's program is the sequence of semaphore operations it performs;   *)
(* P and V are atomic (they run with interrupts off), and a P on a zero    *)
(* semaphore sleeps until a V, i.e. it is enabled only when the count is   *)
(* positive.  The messages printed between operations are left out.        *)
(***************************************************************************)
EXTENDS Integers, Sequences, FiniteSets, SequencesExt

CONSTANT Cars        \* the car threads forked by createcars (NCARS of them)

VARIABLES sem,       \* count of each semaphore
          prog,      \* the operations each car performs, once it has chosen
          pc,        \* index of each car's next operation; 0 before choosing
          numThreadsRunningTraffic

vars == <<sem, prog, pc, numThreadsRunningTraffic>>

Sems == {"intersectionSem", "NWSem", "NESem", "SWSem", "SESem", "countThreads"}

\* cardirection: 0 = N, 1 = E, 2 = S, 3 = W; turnDirection: 0 straight, 1 left, 2 right.
Directions == 0 .. 3
Turns == 0 .. 2

(***************************************************************************)
(* The quadrants, in the order every turn visits them: a car entering from *)
(* the north is in NW, going on it reaches SW, then SE (gostraight,        *)
(* turnleft and turnright all follow this cycle from their entry quadrant) *)
(***************************************************************************)
Cycle == <<"NWSem", "SWSem", "SESem", "NESem">>

\* The position in Cycle of the quadrant a car from each direction enters.
EntryPos == <<1, 4, 3, 2>>

\* Quadrants crossed: gostraight 2, turnleft 3, turnright 1.
PathLen == <<2, 3, 1>>

Route(d, t) ==
    [i \in 1 .. PathLen[t + 1] |-> Cycle[((EntryPos[d + 1] + i - 2) % 4) + 1]]

P(s) == [op |-> "P", s |-> s]
V(s) == [op |-> "V", s |-> s]

\* Variant of Crossing whose last V names the first quadrant (a copy-paste slip).
CrossingReleasesFirst(r) ==
    <<P(r[1])>>
    \o FlattenSeq([i \in 1 .. Len(r) - 1 |-> <<P(r[i + 1]), V(r[i])>>])
    \o <<V(r[1])>>

(***************************************************************************)
(* The quadrant operations of gostraight/turnleft/turnright: P the first   *)
(* quadrant; for each later one, P it and then V the one before; finally V *)
(* the last.                                                               *)
(***************************************************************************)
Crossing(r) ==
    <<P(r[1])>>
    \o FlattenSeq([i \in 1 .. Len(r) - 1 |-> <<P(r[i + 1]), V(r[i])>>])
    \o <<V(r[Len(r)])>>

\* Variant of Program that signals intersectionSem twice on the way out.
ProgramDoubleV(d, t) ==
    Crossing(Route(d, t))
    \o <<V("intersectionSem"), V("intersectionSem"), [op |-> "Dec", s |-> "countThreads"]>>

(***************************************************************************)
(* approachintersection after P(intersectionSem): the crossing, then       *)
(* V(intersectionSem), then the decrement of the counter.  countThreads    *)
(* guards nothing but that one decrement, so P(countThreads), the          *)
(* decrement and V(countThreads) are one step here.                        *)
(***************************************************************************)
Program(d, t) ==
    Crossing(Route(d, t)) \o <<V("intersectionSem"), [op |-> "Dec", s |-> "countThreads"]>>

\* pc: 0 while approaching, -1 once the car has left; otherwise the next operation.
Done(c) == pc[c] = -1

InIntersection(c) == pc[c] > 0

-----------------------------------------------------------------------------
\* Variant of Init with sem_create("intersectionSem", 4).
InitFourAdmitted ==
    /\ sem = [s \in Sems |-> IF s = "intersectionSem" THEN 4 ELSE 1]
    /\ prog = [c \in Cars |-> <<>>]
    /\ pc = [c \in Cars |-> 0]
    /\ numThreadsRunningTraffic = Cardinality(Cars)

\* createcars: the semaphores with their initial counts, then NCARS threads.
Init ==
    /\ sem = [s \in Sems |-> IF s = "intersectionSem" THEN 3 ELSE 1]
    /\ prog = [c \in Cars |-> <<>>]
    /\ pc = [c \in Cars |-> 0]
    /\ numThreadsRunningTraffic = Cardinality(Cars)

(***************************************************************************)
(* cardirection = random() % 4; turnDirection = random() % 3;              *)
(* P(intersectionSem).  The choice is private to the car until it enters,  *)
(* so it is made in the step that enters.                                  *)
(***************************************************************************)
Enter(c) ==
    /\ pc[c] = 0
    /\ sem["intersectionSem"] > 0
    /\ sem' = [sem EXCEPT !["intersectionSem"] = @ - 1]
    /\ \E d \in Directions, t \in Turns : prog' = [prog EXCEPT ![c] = Program(d, t)]
    /\ pc' = [pc EXCEPT ![c] = 1]
    /\ UNCHANGED numThreadsRunningTraffic

\* The car's next operation.
Op(c) == prog[c][pc[c]]

\* P: sleeps while the count is 0, then decrements it.
StepP(c) ==
    /\ InIntersection(c)
    /\ Op(c).op = "P"
    /\ sem[Op(c).s] > 0
    /\ sem' = [sem EXCEPT ![Op(c).s] = @ - 1]
    /\ pc' = [pc EXCEPT ![c] = @ + 1]
    /\ UNCHANGED <<prog, numThreadsRunningTraffic>>

\* V: increments the count and wakes the sleepers.
StepV(c) ==
    /\ InIntersection(c)
    /\ Op(c).op = "V"
    /\ sem' = [sem EXCEPT ![Op(c).s] = @ + 1]
    /\ pc' = [pc EXCEPT ![c] = @ + 1]
    /\ UNCHANGED <<prog, numThreadsRunningTraffic>>

\* P(countThreads); numThreadsRunningTraffic--; V(countThreads); the thread exits.
Dec(c) ==
    /\ InIntersection(c)
    /\ Op(c).op = "Dec"
    /\ numThreadsRunningTraffic' = numThreadsRunningTraffic - 1
    /\ pc' = [pc EXCEPT ![c] = -1]
    /\ prog' = [prog EXCEPT ![c] = <<>>]
    /\ UNCHANGED sem

CarStep(c) == Enter(c) \/ StepP(c) \/ StepV(c) \/ Dec(c)

\* Every car has left: createcars' spin loop ends and it returns.
Finished ==
    /\ \A c \in Cars : Done(c)
    /\ UNCHANGED vars

Next == (\E c \in Cars : CarStep(c)) \/ Finished

(***************************************************************************)
(* The OS161 scheduler is preemptive round robin: a runnable thread is     *)
(* eventually run.  A car whose P is enabled stays enabled until it runs   *)
(* or another car takes the unit; weak fairness per car is what the        *)
(* scheduler gives.                                                        *)
(***************************************************************************)
Spec == Init /\ [][Next]_vars /\ \A c \in Cars : WF_vars(CarStep(c))

-----------------------------------------------------------------------------
TypeOK ==
    /\ sem \in [Sems -> 0 .. 4]
    /\ pc \in [Cars -> -1 .. 8]
    /\ numThreadsRunningTraffic \in 0 .. Cardinality(Cars)

\* The quadrants car c is in: those it has P'd and not yet V'd (a route
\* visits each quadrant at most once).
Holds(c) ==
    LET done(op) == {prog[c][i].s : i \in {j \in 1 .. pc[c] - 1 : prog[c][j].op = op}}
    IN  done("P") \ ({"intersectionSem"} \cup done("V"))

(***************************************************************************)
(* No deadlock among the cars: while some car has not left, some car can   *)
(* take a step.  Left turns hold a quadrant while waiting for the next one *)
(* around the cycle NW -> SW -> SE -> NE -> NW; four cars doing so would   *)
(* wait on each other forever, and it is intersectionSem, admitting three, *)
(* that is meant to prevent it.                                            *)
(***************************************************************************)
NoDeadlock ==
    (\E c \in Cars : ~Done(c)) => \E c \in Cars : ENABLED CarStep(c)

(***************************************************************************)
(* No two cars are ever in the same quadrant, although each car holds two *)
(* at once while moving from one to the next.                              *)
(***************************************************************************)
QuadrantExclusive ==
    \A c, d \in Cars : c # d => Holds(c) \cap Holds(d) = {}

=============================================================================
