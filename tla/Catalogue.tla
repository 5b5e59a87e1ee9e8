------------------------------ MODULE Catalogue ------------------------------
(***************************************************************************)
(* What AppManager promises to the menu: a set of applications with ranks  *)
(* and names, and one owner for every name in use.  AppManager implements  *)
(* it with string_views, pointers and step by step changes of its mapping. *)
(***************************************************************************)
EXTENDS Naturals

CONSTANTS IDs, Names, null

VARIABLES
    apps,    \* [IDs -> [names, rank] or null]
    owner    \* [Names -> IDs or null]

Claimants(a, n) == {id \in IDs : a[id] # null /\ n \in a[id].names}

\* The owner of a name has the lowest rank of all that have it.
Owns(a, id, n) ==
    IF id = null THEN Claimants(a, n) = {}
    ELSE id \in Claimants(a, n) /\ \A i \in Claimants(a, n) : a[id].rank <= a[i].rank

Init ==
    /\ apps = [id \in IDs |-> null]
    /\ owner = [n \in Names |-> null]

\* One application comes, goes or is replaced.  It takes a name from another one
\* only if its rank is lower: at run time an addition of equal rank leaves the names
\* the user sees where they are (doc/AppManager.md, collisions 2.2).
Change(id) ==
    /\ \A i \in IDs \ {id} : apps'[i] = apps[i]
    /\ \A n \in Names :
          /\ Owns(apps', owner'[n], n)
          /\ owner[n] \notin {null, id, owner'[n]} =>
                owner'[n] = id /\ apps'[id].rank < apps[owner[n]].rank

Next == \E id \in IDs : Change(id)

Spec == Init /\ [][Next]_<<apps, owner>>

=============================================================================
