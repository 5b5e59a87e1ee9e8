------------------------------ MODULE AppManager ------------------------------
(***************************************************************************)
(* The container of desktop files: src/AppManager.{hh,cc}.                 *)
(*                                                                         *)
(* applications maps a desktop file ID to the Application loaded for it    *)
(* and to its rank, the index of the $XDG_DATA_DIRS directory the file is  *)
(* in (a lower rank has precedence).  name_app_mapping maps every Name and *)
(* GenericName on display to the Application that is started for it.  The  *)
(* constructor fills both from the files found at startup; add and remove  *)
(* keep them up to date when a file changes while the program runs.        *)
(***************************************************************************)
EXTENDS Naturals

CONSTANTS
    IDs,                      \* desktop file IDs: file names with '/' made '-'
    Names,                    \* the non-empty strings of Name and GenericName
    MaxRank,                  \* the last index of the search path
    wine_compatibility_mode,  \* FALSE: apps with a malformed Exec are skipped
    null,                     \* an absent element, an empty std::optional or ""
    disabled_error,           \* the Application constructor throws one of
    invalid_error             \* these (std::system_error is treated the same)

Ranks == 0 .. MaxRank

\* exec_valid: validate_exec_key() accepts the Exec key.
Application ==
    [name: Names, generic_name: Names \cup {null}, exec_valid: BOOLEAN]

\* What constructing an Application from a desktop file gives.
DesktopFile == Application \cup {disabled_error, invalid_error}

\* app = null: a disabled desktop file, which only occupies its ID and rank.
Managed_application == [app: Application \cup {null}, rank: Ranks]

(***************************************************************************)
(* The pointer to an Application is the ID of the element it lies in.  The *)
(* key of the entry is a string_view into that Application; live = FALSE   *)
(* once the Application has been destroyed or overwritten: key and pointer *)
(* of the entry then dangle.                                               *)
(***************************************************************************)
Resolved_application == [app: IDs, is_generic: BOOLEAN, live: BOOLEAN]

ASSUME ConstantsAssumption ==
    /\ MaxRank \in Nat
    /\ wine_compatibility_mode \in BOOLEAN

ASSUME NullAssumption ==
    /\ null \notin IDs
    /\ null \notin Names
    /\ null \notin [names: SUBSET Names, rank: Ranks]
    /\ null \notin Application
    /\ null \notin Managed_application
    /\ null \notin Resolved_application

ASSUME ErrorsAssumption ==
    /\ disabled_error # invalid_error
    /\ null \notin {disabled_error, invalid_error}
    /\ {disabled_error, invalid_error} \cap Application = {}

VARIABLES
    applications,      \* [IDs -> Managed_application or null]
    name_app_mapping,  \* [Names -> Resolved_application or null]
    loading,           \* the rank the constructor reads; MaxRank + 1: it is done
    aborted            \* abort() has been called

vars == <<applications, name_app_mapping, loading, aborted>>

TypeOK ==
    /\ applications \in [IDs -> Managed_application \cup {null}]
    /\ name_app_mapping \in [Names -> Resolved_application \cup {null}]
    /\ loading \in 0 .. MaxRank + 1
    /\ aborted \in BOOLEAN

-----------------------------------------------------------------------------
Populated(apps, id) == apps[id] # null /\ apps[id].app # null

\* Element id of apps is an application with the Name or GenericName n.
HasName(apps, id, n) ==
    Populated(apps, id) /\ n \in {apps[id].app.name, apps[id].app.generic_name}

\* std::unordered_map::try_emplace on name_app_mapping.
try_emplace(m, n, id, is_generic) ==
    IF m[n] # null THEN m
    ELSE [m EXCEPT ![n] = [app |-> id, is_generic |-> is_generic, live |-> TRUE]]

(***************************************************************************)
(* remove_name_mapping and replace_name_mapping give the set of mappings   *)
(* they may leave behind; the empty set is a call of abort().              *)
(***************************************************************************)
Replacements(apps, id, n) == {i \in IDs \ {id} : HasName(apps, i, n)}

\* Mutant: the first match is taken, whatever its rank.
FirstMatches(apps, id, n) == Replacements(apps, id, n)

\* Equal ranks: the order of the unordered_map decides.
BestMatches(apps, id, n) ==
    {i \in Replacements(apps, id, n) :
        \A j \in Replacements(apps, id, n) : apps[i].rank <= apps[j].rank}

\* Mutant: the application is expected to own every name it has.
remove_name_mapping_unowned(apps, m, id, n) ==
    LET erased == [m EXCEPT ![n] = null]
        best   == BestMatches(apps, id, n)
    IN  IF m[n] = null \/ m[n].app # id THEN {}
        ELSE IF best = {} THEN {erased}
        ELSE {try_emplace(erased, n, i, apps[i].app.name # n) : i \in best}

remove_name_mapping(apps, m, id, n) ==
    LET erased == [m EXCEPT ![n] = null]
        best   == BestMatches(apps, id, n)
    IN  IF m[n] = null THEN {}
        ELSE IF m[n].app # id THEN {m}
        ELSE IF best = {} THEN {erased}
        ELSE {try_emplace(erased, n, i, apps[i].app.name # n) : i \in best}

\* Mutant: the newer application wins when the ranks are equal.
replace_name_mapping_equal(apps, m, id, n, is_generic) ==
    LET erased == [m EXCEPT ![n] = null]
    IN  IF m[n] = null THEN {try_emplace(m, n, id, is_generic)}
        ELSE IF ~Populated(apps, m[n].app) THEN {}
        ELSE IF apps[id].rank <= apps[m[n].app].rank
             THEN {try_emplace(erased, n, id, is_generic)}
             ELSE {m}

replace_name_mapping(apps, m, id, n, is_generic) ==
    LET erased == [m EXCEPT ![n] = null]
    IN  IF m[n] = null THEN {try_emplace(m, n, id, is_generic)}
        ELSE IF ~Populated(apps, m[n].app) THEN {}
        ELSE IF apps[id].rank < apps[m[n].app].rank
             THEN {try_emplace(erased, n, id, is_generic)}
             ELSE {m}

\* Both names of the application of element id are taken out of the mapping.
RemoveNames(apps, m, id) ==
    IF ~Populated(apps, id) THEN {m}
    ELSE LET app == apps[id].app
             unnamed == remove_name_mapping(apps, m, id, app.name)
         IN  IF app.generic_name = null THEN unnamed
             ELSE UNION {remove_name_mapping(apps, m1, id, app.generic_name) :
                            m1 \in unnamed}

\* Both names of the application of element id are put into the mapping.
ReplaceNames(apps, m, id) ==
    IF ~Populated(apps, id) THEN {m}
    ELSE LET app == apps[id].app
             named == replace_name_mapping(apps, m, id, app.name, FALSE)
         IN  IF app.generic_name = null THEN named
             ELSE UNION {replace_name_mapping(apps, m1, id, app.generic_name, TRUE) :
                            m1 \in named}

\* The Application of element id is destroyed or overwritten.
Expire(m, id) ==
    [n \in Names |-> IF m[n] # null /\ m[n].app = id
                     THEN [m[n] EXCEPT !.live = FALSE]
                     ELSE m[n]]

\* The program goes on with one of the outcomes, or it has called abort().
Commit(apps, outcomes) ==
    \/ /\ outcomes = {}
       /\ aborted' = TRUE
       /\ UNCHANGED <<applications, name_app_mapping>>
    \/ /\ name_app_mapping' \in outcomes
       /\ applications' = apps
       /\ UNCHANGED aborted

-----------------------------------------------------------------------------
Init ==
    /\ applications = [id \in IDs |-> null]
    /\ name_app_mapping = [n \in Names |-> null]
    /\ loading = 0
    /\ aborted = FALSE

\* The constructor leaves these files out (an ID collision is looked at first).
Skipped(id, file) ==
    \/ applications[id] # null
    \/ file = invalid_error
    \/ file \in Application /\ ~wine_compatibility_mode /\ ~file.exec_valid

\* An iteration of the constructor's inner loop, for a file of the current rank.
ctor_load(id, file) ==
    /\ loading \in Ranks
    /\ UNCHANGED <<loading, aborted>>
    /\ \/ /\ Skipped(id, file)
          /\ UNCHANGED <<applications, name_app_mapping>>
       \/ /\ ~Skipped(id, file)
          /\ file = disabled_error
          /\ applications' = [applications EXCEPT ![id] = [app |-> null, rank |-> loading]]
          /\ UNCHANGED name_app_mapping
       \/ /\ ~Skipped(id, file)
          /\ file \in Application
          /\ applications' = [applications EXCEPT ![id] = [app |-> file, rank |-> loading]]
          /\ LET named == try_emplace(name_app_mapping, file.name, id, FALSE)
             IN  name_app_mapping' =
                    IF file.generic_name = null THEN named
                    ELSE try_emplace(named, file.generic_name, id, TRUE)

\* Mutant: one rank too many is read.
ctor_next_rank_beyond ==
    /\ loading \in 0 .. MaxRank + 1
    /\ loading' = loading + 1
    /\ UNCHANGED <<applications, name_app_mapping, aborted>>

\* The constructor's outer loop: from the lowest rank to the highest.
ctor_next_rank ==
    /\ loading \in Ranks
    /\ loading' = loading + 1
    /\ UNCHANGED <<applications, name_app_mapping, aborted>>

Running == loading = MaxRank + 1 /\ ~aborted

\* A file of the given rank has been deleted; only its ID is looked at.
remove(id) ==
    /\ Running
    /\ UNCHANGED loading
    /\ IF applications[id] = null
       THEN UNCHANGED <<applications, name_app_mapping, aborted>>
       ELSE Commit([applications EXCEPT ![id] = null],
                   {Expire(m, id) : m \in RemoveNames(applications, name_app_mapping, id)})

\* The mappings add may leave when it puts new into element id.
Overwritten(id, new) ==
    LET apps == [applications EXCEPT ![id] = new]
    IN  UNION {ReplaceNames(apps, Expire(m, id), id) :
                  m \in RemoveNames(applications, name_app_mapping, id)}

\* A file has been created or modified; file is what parsing it gives.
add(id, rank, file) ==
    /\ Running
    /\ UNCHANGED loading
    /\ LET new == [app |-> IF file = disabled_error THEN null ELSE file, rank |-> rank]
       IN  IF \/ applications[id] # null /\ applications[id].rank < rank
              \/ file = invalid_error
           THEN UNCHANGED <<applications, name_app_mapping, aborted>>
           ELSE Commit([applications EXCEPT ![id] = new], Overwritten(id, new))

Next ==
    \/ ctor_next_rank
    \/ \E id \in IDs, file \in DesktopFile : ctor_load(id, file)
    \/ \E id \in IDs : remove(id)
    \/ \E id \in IDs, rank \in Ranks, file \in DesktopFile : add(id, rank, file)

Spec == Init /\ [][Next]_vars

-----------------------------------------------------------------------------
(***************************************************************************)
(* Entry n of the mapping m fits the applications apps.                    *)
(***************************************************************************)
EntryFits(apps, m, n) ==
    /\ m[n] = null => \A id \in IDs : ~HasName(apps, id, n)
    /\ m[n] # null =>
         /\ m[n].live
         /\ HasName(apps, m[n].app, n)
         /\ m[n].is_generic <=> apps[m[n].app].app.name # n
         /\ \A id \in IDs : HasName(apps, id, n) => apps[m[n].app].rank <= apps[id].rank

\* After any sequence of calls the mapping is what the menu needs: no entry
\* dangles (what check_inner_state() looks for), every name of a loaded
\* application is in it, is_generic tells which of the two names the entry is,
\* and a name that several applications share belongs to one of lowest rank.
MappingFits == \A n \in Names : EntryFits(applications, name_app_mapping, n)

\* remove_name_mapping() and replace_name_mapping() call abort() when the
\* container is inconsistent.  They do so in one case only: an application whose
\* Name is also its GenericName, and which alone has that name, is taken out.
AbortOnlyOnRepeatedName ==
    aborted =>
        \E id \in IDs :
            /\ Populated(applications, id)
            /\ applications[id].app.name = applications[id].app.generic_name
            /\ Replacements(applications, id, applications[id].app.name) = {}

\* The applications on offer and the owners of their names.
Offered_applications ==
    [id \in IDs |-> IF Populated(applications, id)
                    THEN [names |-> {applications[id].app.name, applications[id].app.generic_name} \ {null},
                          rank |-> applications[id].rank]
                    ELSE null]

Owners ==
    [n \in Names |-> IF name_app_mapping[n] = null THEN null ELSE name_app_mapping[n].app]

Catalogue == INSTANCE Catalogue WITH apps <- Offered_applications, owner <- Owners

\* Every call is one step of the catalogue: of all the applications it changes one,
\* and no other application loses a name but to one of lower rank, though the mapping
\* is taken apart and put together name by name.
ImplementsCatalogue == Catalogue!Spec

\* The claim of AppManager.hh:123, "Cleanly remove a name mapping from
\* name_lookup.  Collisions are handled properly.": abort() is never called.
NeverAborts == ~aborted

=============================================================================
