---------------------------- MODULE AbstractMemory ----------------------------
(***************************************************************************)
(* What the virtual-memory manager promises about physical frames, after  *)
(* spec.md: every frame is free or belongs to exactly one address space   *)
(* (one owner, no aliasing); a system call of a process takes free frames *)
(* for that process or gives its own frames back, and touches no other    *)
(* space's frames; a space is born only from the first program or as the *)
(* fork-time copy, which gives the new space exactly as many fresh frames *)
(* as the source maps, or fails having taken nothing.                     *)
(***************************************************************************)
EXTENDS FiniteSets

CONSTANTS Owners,   \* the address spaces, one per process slot
          Frames,   \* the physical frames
          Free      \* owner of a frame no space holds

ASSUME Free \notin Owners

VARIABLES owner,    \* the owner of each frame
          live      \* the address spaces that exist

vars == <<owner, live>>

Owned(a) == {f \in Frames : owner[f] = a}

Init == owner = [f \in Frames |-> Free] /\ live = {}

\* Frames change hands only between space a and the free pool.
OnlyBetween(a) ==
    /\ owner' \in [Frames -> Owners \cup {Free}]
    /\ \A f \in Frames : owner'[f] # owner[f] => {owner[f], owner'[f]} \subseteq {a, Free}

\* The first program is started when no space exists, and takes free frames.
Load(a) ==
    /\ live = {}
    /\ live' = {a}
    /\ OnlyBetween(a)

\* A step of the process of space a: it takes free frames or gives its own
\* back; when its space is destroyed it keeps no frame.
Call(a) ==
    /\ a \in live
    /\ OnlyBetween(a)
    /\ live' \in {live, live \ {a}}
    /\ a \notin live' => \A f \in Frames : owner'[f] # a

\* The copy of a's space into a new space b: |Owned(a)| free frames go to
\* b, and nothing else changes.
Copy(a, b) ==
    /\ a \in live
    /\ b \notin live
    /\ live' = live \cup {b}
    /\ owner' \in [Frames -> Owners \cup {Free}]
    /\ \A f \in Frames : owner'[f] # owner[f] => owner[f] = Free /\ owner'[f] = b
    /\ Cardinality({f \in Frames : owner'[f] = b}) = Cardinality(Owned(a))

Next == \E a \in Owners : Load(a) \/ Call(a) \/ \E b \in Owners : Copy(a, b)

Spec == Init /\ [][Next]_vars

=============================================================================
