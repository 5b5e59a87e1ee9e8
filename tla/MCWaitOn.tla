------------------------------- MODULE MCWaitOn -------------------------------
(* Model checking of WaitOn: what the writers write. *)
EXTENDS WaitOn

CONSTANTS w1, w2, w3

MenusOnly == [w \in Writers |-> "other"]
ThirdQuits == [w \in Writers |-> IF w = w3 THEN "q" ELSE "other"]
=============================================================================
