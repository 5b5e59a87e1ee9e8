-------------------------------- MODULE MCMenu --------------------------------
(* Model checking of Menu with HistoryManager: three names, how they are cut and
   compared, and the v0 lookup table. *)
EXTENDS Menu

CONSTANTS n1, n2, n3, id1, id2, id3

MCSorted == <<n1, n2, n3>>

CaseSensitive == (n1 :> n1) @@ (n2 :> n2) @@ (n3 :> n3)

\* n2 begins with n1, so that n1 may be what is left of n2.
MCCut == (n1 :> {}) @@ (n2 :> {n1}) @@ (n3 :> {n1})

\* n3 is n1, a newline and more text.
MCFirstLine == (n1 :> n1) @@ (n2 :> n2) @@ (n3 :> n1)

\* id1 and id2 share a name, id2 repeats its own, id3 is not installed.
MCLookup ==
    (id1 :> [name |-> n1, generic_name |-> n2]) @@
    (id2 :> [name |-> n2, generic_name |-> n2]) @@
    (id3 :> null)
=============================================================================
