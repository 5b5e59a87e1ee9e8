------------------------------ MODULE ChangeFeed ------------------------------
(***************************************************************************)
(* What getchanges() of a Notify class promises (src/NotifyBase.hh),       *)
(* without threads, vectors and pipes: an observer looks at one directory  *)
(* after the other, and a call hands over all that it has found, so that   *)
(* the caller knows what the observer knows.                               *)
(***************************************************************************)
CONSTANTS Dirs, Files

VARIABLES
    known,   \* [Dirs -> SUBSET Files]: as the observer saw them
    told     \* [Dirs -> SUBSET Files]: as the caller has been told

Init == told = known

Look(d) ==
    /\ \E found \in SUBSET Files : known' = [known EXCEPT ![d] = found]
    /\ UNCHANGED told

Handover == told' = known /\ UNCHANGED known

Next == Handover \/ \E d \in Dirs : Look(d)

Spec == Init /\ [][Next]_<<known, told>>

=============================================================================
