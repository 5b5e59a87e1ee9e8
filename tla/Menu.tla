--------------------------------- MODULE Menu ---------------------------------
(***************************************************************************)
(* From the names of AppManager to the menu and back, in src/main.cc:      *)
(* NameToAppMapping, FormattedHistoryManager, do_dmenu() and               *)
(* CommandRetrievalLoop, on top of HistoryManager: every launch and every  *)
(* pruned entry is a save, in which the program may be killed.  What       *)
(* AppManager promises is all that is used of it: names are unique and     *)
(* is_generic tells the GenericNames (MappingFits of module AppManager),   *)
(* so an application is known by the name it was chosen by.                *)
(***************************************************************************)
EXTENDS HistoryManager

CONSTANTS
    Sorted,           \* every name, as a sequence in the order of DynamicCompare
    Folded,           \* [name -> what DynamicCompare makes of it]
    exclude_generic,  \* --no-generic
    prune,            \* --prune-bad-usage-log-entries
    no_exec,          \* --no-exec: a choice is printed and not counted
    wait_on           \* --wait-on: a new menu after each choice

Kinds == {"absent", "name", "generic"}

ASSUME MenuAssumption ==
    /\ Sorted \in Seq(Names) /\ IsInjective(Sorted) /\ ToSet(Sorted) = Names
    /\ Folded \in [Names -> Names]
    /\ {exclude_generic, prune, no_exec, wait_on} \subseteq BOOLEAN

VARIABLES
    raw_mapping,        \* [Names -> Kinds]: AppManager's mapping, copied by load()
    mapping,            \* the names NameToAppMapping offers
    iter,               \* where reload() is in the history
    formatted_history,  \* the names FormattedHistoryManager puts first
    screen,             \* the names written to dmenu
    phase,              \* "off", "ctor", "reload", "idle", "open", "exit" or "abort"
    reason              \* which check called abort()

menu_vars == <<raw_mapping, mapping, iter, formatted_history, screen, phase, reason>>
all_vars == <<vars, menu_vars>>

Nothing == [n \in Names |-> "absent"]

MenuTypeOK ==
    /\ TypeOK
    /\ raw_mapping \in [Names -> Kinds]
    /\ mapping \subseteq Names
    /\ iter \in 1 .. Len(history) + 2
    /\ formatted_history \in Seq(Names)
    /\ screen \in Seq(Names)
    /\ phase \in {"off", "ctor", "reload", "idle", "open", "exit", "abort"}
    /\ reason \in {"none", "collision", "history"}

MenuInit ==
    /\ Init
    /\ raw_mapping = Nothing /\ mapping = {}
    /\ iter = 1 /\ formatted_history = <<>>
    /\ screen = <<>>
    /\ phase = "off" /\ reason = "none"

-----------------------------------------------------------------------------
(* SetupPhase *)

\* NameToAppMapping::load() leaves the other names out.
Offered(raw) ==
    {n \in Names : raw[n] # "absent" /\ ~(exclude_generic /\ raw[n] = "generic")}

\* The formatter or the comparison identifies two names.
Collision(offered) == \E m, n \in offered : m # n /\ Folded[m] = Folded[n]

\* NameToAppMapping::load()
load(raw, next) ==
    /\ raw_mapping' = raw
    /\ IF Collision(Offered(raw))
       THEN phase' = "abort" /\ reason' = "collision" /\ UNCHANGED mapping
       ELSE phase' = next /\ mapping' = Offered(raw) /\ UNCHANGED reason

\* A log with desktop file IDs is converted by the AppManager the names are from.
Installed(raw) ==
    file.form = "v0" /\ file.lines # <<>> =>
        \A id \in IDs : lookup_by_ID[id] # null =>
            /\ raw[lookup_by_ID[id].name] # "absent"
            /\ lookup_by_ID[id].generic_name # null => raw[lookup_by_ID[id].generic_name] # "absent"

\* main() up to the history
start(raw) ==
    /\ phase = "off" /\ Installed(raw)
    /\ load(raw, "ctor")
    /\ UNCHANGED <<vars, iter, formatted_history, screen>>

\* FormattedHistoryManager::reload() begins.
Rewind == iter' = 1 /\ formatted_history' = <<>>

\* HistoryManager's constructor or the conversion; a broken line ends the program.
history_ctor ==
    /\ phase = "ctor" /\ state = "off"
    /\ ctor_new \/ ctor_read \/ convert_history_from_v0
    /\ phase' = "reload"
    /\ Rewind
    /\ UNCHANGED <<raw_mapping, mapping, screen, reason>>

\* Mutant: the entry behind the one that is to go is erased.
reload_entry_next ==
    /\ phase = "reload" /\ state = "run" /\ iter <= Len(history)
    /\ LET name == history[iter].name
       IN  /\ IF raw_mapping[name] = "absent" /\ prune
              THEN remove_obsolete_entry(IF iter < Len(history) THEN iter + 1 ELSE iter)
              ELSE UNCHANGED vars
           /\ formatted_history' = IF name \in mapping THEN Append(formatted_history, name)
                                   ELSE formatted_history
    /\ iter' = iter + 1
    /\ UNCHANGED <<raw_mapping, mapping, screen, phase, reason>>

\* An iteration of reload(): an entry that is erased is saved at once, and ++iter
\* starts from the one behind it.
reload_entry ==
    /\ phase = "reload" /\ state = "run" /\ iter <= Len(history)
    /\ LET name == history[iter].name
       IN  /\ IF raw_mapping[name] = "absent" /\ prune THEN remove_obsolete_entry(iter)
              ELSE UNCHANGED vars
           /\ formatted_history' = IF name \in Offered(raw_mapping) THEN Append(formatted_history, name)
                                   ELSE formatted_history
    /\ iter' = iter + 1
    /\ UNCHANGED <<raw_mapping, mapping, screen, phase, reason>>

reload_done ==
    /\ phase = "reload" /\ state = "run" /\ iter > Len(history)
    /\ phase' = "idle"
    /\ UNCHANGED <<vars, raw_mapping, mapping, iter, formatted_history, screen, reason>>

-----------------------------------------------------------------------------
(* RunPhase::CommandRetrievalLoop *)

\* Mutant: the history is not formatted anew when the mapping changes.
update_mapping_names(raw) ==
    /\ wait_on /\ phase = "idle" /\ state = "run" /\ raw # raw_mapping
    /\ load(raw, "idle")
    /\ UNCHANGED <<vars, iter, formatted_history, screen>>

\* A desktop file has changed.
update_mapping(raw) ==
    /\ wait_on /\ phase = "idle" /\ state = "run" /\ raw # raw_mapping
    /\ load(raw, "reload")
    /\ Rewind
    /\ UNCHANGED <<vars, screen>>

\* An iteration over a container of the names of offered that is ordered by
\* DynamicCompare
InOrder(offered) ==
    LET upto[k \in 0 .. Len(Sorted)] ==
            IF k = 0 THEN <<>>
            ELSE IF Sorted[k] \in offered THEN Append(upto[k - 1], Sorted[k])
            ELSE upto[k - 1]
    IN  upto[Len(Sorted)]

\* Mutant: the names of the history are not taken out of desktop_file_names.
do_dmenu_twice ==
    /\ phase = "idle" /\ state = "run"
    /\ screen' = formatted_history \o InOrder(mapping)
    /\ phase' = "open"
    /\ UNCHANGED <<vars, raw_mapping, mapping, iter, formatted_history, reason>>

\* The names are taken out of desktop_file_names as the history is written; it is
\* an error if one is not there (any more).
do_dmenu ==
    /\ phase = "idle" /\ state = "run"
    /\ IF ToSet(formatted_history) \subseteq mapping /\ IsInjective(formatted_history)
       THEN /\ screen' = formatted_history \o InOrder(mapping \ ToSet(formatted_history))
            /\ phase' = "open" /\ UNCHANGED reason
       ELSE phase' = "abort" /\ reason' = "history" /\ UNCHANGED screen
    /\ UNCHANGED <<vars, raw_mapping, mapping, iter, formatted_history>>

CloseMenu == screen' = <<>> /\ phase' = IF wait_on THEN "idle" ELSE "exit"

\* The choice is a name of the menu: lookup_name() finds it and it is counted. (dmenu
\* prints several lines when they are chosen with Control, and read_choice() takes all.)
choose(n) ==
    /\ phase = "open" /\ n \in ToSet(screen)
    /\ IF no_exec THEN UNCHANGED vars ELSE increment(n)
    /\ CloseMenu
    /\ UNCHANGED <<raw_mapping, mapping, iter, formatted_history, reason>>

\* Escape, or a command that is not the name of an application.
choose_other ==
    /\ phase = "open"
    /\ CloseMenu
    /\ UNCHANGED <<vars, raw_mapping, mapping, iter, formatted_history, reason>>

\* The second half of a save; the loop goes on when it is complete.
save == (write_buffer \/ write_rest) /\ UNCHANGED menu_vars

\* The program ends or is killed, and only the file is left.
quit ==
    /\ phase \notin {"off", "abort"}
    /\ stop
    /\ raw_mapping' = Nothing /\ mapping' = {}
    /\ Rewind
    /\ screen' = <<>> /\ phase' = "off"
    /\ UNCHANGED reason

MenuNext ==
    \/ \E raw \in [Names -> Kinds] : start(raw) \/ update_mapping(raw)
    \/ history_ctor \/ reload_entry \/ reload_done
    \/ do_dmenu
    \/ \E n \in Names : choose(n)
    \/ choose_other
    \/ save \/ quit

MenuSpec == MenuInit /\ [][MenuNext]_all_vars

-----------------------------------------------------------------------------
\* The menu has every name on offer, each of them once, however the history and
\* the desktop files have changed since it was last put together.
MenuComplete ==
    phase = "open" => ToSet(screen) = mapping /\ Len(screen) = Cardinality(mapping)

\* The claim of main.cc:471, "This shouldn't happen thanks to
\* FormattedHistoryManager": no name of the history is missing in the menu or in
\* it twice, after any number of kills and restarts, unless a log was left with a name
\* cut short: by a kill, in a log larger than the stdio buffer, or at a newline in it.
HistoryInMenu == torn \/ reason # "history"

\* Pruning is for names no desktop file has: a count is never lost while the
\* name is in use, whatever is erased while the history is walked through.
UsedNamesKept ==
    [][phase # "off" /\ phase' # "off" /\ ~torn =>
          \A n \in NamesIn(history) : raw_mapping'[n] # "absent" =>
             CountOf(history', n) >= CountOf(history, n)]_all_vars

\* "Remove names marked in usage log for which j4-dmenu-desktop was unable to find a
\* desktop file" (j4-dmenu-desktop.1:53).
PruneRemovesAll ==
    prune /\ phase = "idle" => \A n \in NamesIn(history) : raw_mapping[n] # "absent"

=============================================================================
