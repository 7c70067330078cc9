------------------------------- MODULE Coremap -------------------------------
(***************************************************************************)
(* The physical-frame table ("coremap") shared by every address space.     *)
(*                                                                         *)
(* A coremap value is a function from frame index to its "valid" bit       *)
(* (coremap[i].valid in vm.h: 1 = frame in use).  The other fields of a    *)
(* coremap_entry (v_page, starting_page, num_page_frames) only describe    *)
(* multi-frame kernel runs; user pages are always single-frame runs, and   *)
(* no code under src/ reads those fields, so they are abstracted away.     *)
(*                                                                         *)
(* getppages() lives in vm.c, which is not part of src/: its contract is   *)
(* taken from the specification (first-fit single-frame allocation,        *)
(* returning 0, here NoFrame, on failure).                                 *)
(***************************************************************************)
EXTENDS Integers, FiniteSets, FiniteSetsExt

CONSTANT NF          \* num_page_frames: number of user-allocatable frames

ASSUME NF \in Nat \ {0}

\* page_frame_num values: frames are indexed from 0 (first_pageframe_addr).
Frames == 0 .. NF - 1

\* The sentinel page_frame_num = -1 that as_create writes into every entry.
NoFrame == -1

FreeFrames(cm) == {f \in Frames : ~cm[f]}

InUse(cm) == {f \in Frames : cm[f]}

(***************************************************************************)
(* getppages(1): scan the frame table first-fit for a free frame, mark it  *)
(* valid and return it; NoFrame (paddr 0) when every frame is in use.      *)
(***************************************************************************)
getppages(cm) ==
    IF FreeFrames(cm) = {}
    THEN [frame |-> NoFrame, cm |-> cm]
    ELSE LET f == Min(FreeFrames(cm))
         IN  [frame |-> f, cm |-> [cm EXCEPT ![f] = TRUE]]

(***************************************************************************)
(* The four stores that free one coremap entry (v_page = NULL,             *)
(* starting_page = 0, num_page_frames = 1, valid = 0), written out inline  *)
(* in as_destroy and in sys_sbrk.  The index is not range-checked there:   *)
(* an index outside Frames (page_frame_num = -1) is a store outside the    *)
(* coremap array, reported by the caller; the table itself is unchanged.   *)
(***************************************************************************)
FreeEntry(cm, f) ==
    IF f \in Frames THEN [cm EXCEPT ![f] = FALSE] ELSE cm

FreeEntries(cm, S) == [f \in Frames |-> cm[f] /\ f \notin S]

=============================================================================
