----------------------------- MODULE MCAppManager -----------------------------
(* Model checking of AppManager: IDs and Names are interchangeable. *)
EXTENDS AppManager, TLC

Symmetry == Permutations(IDs) \cup Permutations(Names)
=============================================================================
