----------------------------- MODULE MCLiveReload -----------------------------
(* Model checking of LiveReload: what the desktop files may contain. *)
EXTENDS LiveReload

CONSTANTS x, y

Named(n, g) == [name |-> n, generic_name |-> g, exec_valid |-> TRUE]

\* Two applications, one of which shares a name with the other.
ValidContents == {Named(x, null), Named(y, x), disabled_error}
AllContents == ValidContents \cup {invalid_error}
=============================================================================
