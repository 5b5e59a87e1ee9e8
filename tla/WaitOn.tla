-------------------------------- MODULE WaitOn --------------------------------
(***************************************************************************)
(* The daemon mode: do_wait_on() and the SIGCHLD handler of src/main.cc,   *)
(* with Dmenu::run() and Dmenu::read_choice() of src/Dmenu.cc.  A request  *)
(* is a byte written to the FIFO by a process such as a shell's echo; the  *)
(* daemon shows a menu for it and forks the chosen application.  The       *)
(* changes of desktop files handled in the same loop are the subject of    *)
(* module LiveReload.                                                      *)
(***************************************************************************)
EXTENDS Naturals, Sequences, SequencesExt

CONSTANTS
    Writers,   \* the processes that write to the FIFO, one byte each
    Byte,      \* [Writers -> {"q", "other"}]
    is_i3      \* applications are started by i3: no fork, no SIGCHLD handler

ASSUME WaitOnAssumption ==
    /\ IsFiniteSet(Writers)
    /\ Byte \in [Writers -> {"q", "other"}]
    /\ is_i3 \in BOOLEAN

\* The n-th menu, and the application started from it.  Every menu uses up a byte.
Menus == 1 .. Cardinality(Writers)

VARIABLES
    pc,         \* where the daemon is, see Labels
    revents,    \* what poll() said: a subset of {"in", "hup", "chld"}
    data,       \* the last byte read from the FIFO
    reader,     \* the daemon has the FIFO open
    had_writer, \* a writer has had it open since the daemon opened it
    writer,     \* [Writers -> "idle", "open", "written", "closed" or "failed"]
    buf,        \* the bytes in the FIFO, by their writers
    taken,      \* the writers whose byte the daemon has read
    menus,      \* menus shown so far
    dmenu,      \* [Menus -> process state of the dmenu]
    picked,     \* the exit status and output of the current dmenu is a choice
    app,        \* [Menus -> process state of the application]
    processes_to_wait_for,  \* the applications do_wait_on() remembers
    sigchld_pipe            \* there is a byte in the pipe of the handler

fifo_vars == <<reader, had_writer, writer, buf>>
child_vars == <<menus, dmenu, picked, app, processes_to_wait_for, sigchld_pipe>>
vars == <<pc, revents, data, taken, fifo_vars, child_vars>>

Labels == {"poll", "read", "eof_close", "eof_open", "event", "run_dmenu", "write", "waitpid",
           "read_choice", "execute", "hup_close", "hup_open", "sigchld", "reap", "exit"}
ProcessStates == {"none", "running", "zombie", "reaped"}

TypeOK ==
    /\ pc \in Labels
    /\ revents \subseteq {"in", "hup", "chld"}
    /\ data \in {"none", "q", "other"}
    /\ reader \in BOOLEAN /\ had_writer \in BOOLEAN
    /\ picked \in BOOLEAN /\ sigchld_pipe \in BOOLEAN
    /\ writer \in [Writers -> {"idle", "open", "written", "closed", "failed"}]
    /\ buf \in Seq(Writers) /\ taken \subseteq Writers
    /\ menus \in 0 .. Cardinality(Writers)
    /\ dmenu \in [Menus -> ProcessStates] /\ app \in [Menus -> ProcessStates]
    /\ processes_to_wait_for \subseteq Menus

Init ==
    /\ pc = "poll" /\ revents = {} /\ data = "none"
    /\ reader = TRUE /\ had_writer = FALSE
    /\ writer = [w \in Writers |-> "idle"]
    /\ buf = <<>> /\ taken = {}
    /\ menus = 0 /\ picked = FALSE
    /\ dmenu = [m \in Menus |-> "none"] /\ app = [m \in Menus |-> "none"]
    /\ processes_to_wait_for = {}
    /\ sigchld_pipe = FALSE

-----------------------------------------------------------------------------
(* The FIFO.  Its contents are gone when nobody has it open any more. *)

Attached == {w \in Writers : writer[w] \in {"open", "written"}}

\* open() for writing waits for a reader.
WriterOpen(w) ==
    /\ writer[w] = "idle" /\ reader
    /\ writer' = [writer EXCEPT ![w] = "open"]
    /\ had_writer' = TRUE
    /\ UNCHANGED <<pc, revents, data, taken, reader, buf, child_vars>>

\* Without a reader the writer gets SIGPIPE.
WriterWrite(w) ==
    /\ writer[w] = "open"
    /\ \/ reader /\ writer' = [writer EXCEPT ![w] = "written"] /\ buf' = Append(buf, w)
       \/ ~reader /\ writer' = [writer EXCEPT ![w] = "failed"]
                  /\ buf' = IF Attached = {w} THEN <<>> ELSE buf
    /\ UNCHANGED <<pc, revents, data, taken, reader, had_writer, child_vars>>

WriterClose(w) ==
    /\ writer[w] = "written"
    /\ writer' = [writer EXCEPT ![w] = "closed"]
    /\ buf' = IF ~reader /\ Attached = {w} THEN <<>> ELSE buf
    /\ UNCHANGED <<pc, revents, data, taken, reader, had_writer, child_vars>>

CloseFifo ==
    /\ reader' = FALSE
    /\ buf' = IF Attached = {} THEN <<>> ELSE buf
    /\ UNCHANGED <<had_writer, writer>>

\* Mutant: the FIFO is opened without O_NONBLOCK, which waits for a writer.
OpenFifoBlocking ==
    /\ Attached # {}
    /\ reader' = TRUE /\ had_writer' = TRUE
    /\ UNCHANGED <<writer, buf>>

OpenFifo ==
    /\ reader' = TRUE
    /\ had_writer' = (Attached # {})
    /\ UNCHANGED <<writer, buf>>

-----------------------------------------------------------------------------
(* Child processes.  The handler writes a byte on SIGCHLD. *)

Signalled == sigchld_pipe' = (sigchld_pipe \/ ~is_i3)

\* The signal interrupts a waitpid() or read() of Dmenu::read_choice() that blocks,
\* neither of which is retried: after waitpid() the status is uninitialized and
\* says that dmenu was killed (the daemon exits), that nothing was chosen, or that
\* there is a choice to read.
Interrupted ==
    \/ UNCHANGED pc
    \/ ~is_i3 /\ pc = "waitpid" /\ pc' \in {"exit", "hup_close", "read_choice"}
    \/ ~is_i3 /\ pc = "read_choice" /\ pc' = "hup_close"

\* The user picks a line or presses Escape; dmenu exits.  A menu that is no longer
\* waited for may still be open.
DmenuExit(m) ==
    /\ dmenu[m] = "running"
    /\ dmenu' = [dmenu EXCEPT ![m] = "zombie"]
    /\ IF m = menus THEN picked' \in BOOLEAN /\ UNCHANGED pc
                    ELSE Interrupted /\ UNCHANGED picked
    /\ Signalled
    /\ UNCHANGED <<revents, data, taken, fifo_vars, menus, app, processes_to_wait_for>>

\* An application ends.
AppExit(m) ==
    /\ app[m] = "running"
    /\ app' = [app EXCEPT ![m] = "zombie"]
    /\ Signalled
    /\ Interrupted
    /\ UNCHANGED <<revents, data, taken, fifo_vars, menus, dmenu, picked, processes_to_wait_for>>

-----------------------------------------------------------------------------
(* do_wait_on() *)

Ready ==
    (IF buf # <<>> THEN {"in"} ELSE {}) \cup
    (IF Attached = {} /\ had_writer THEN {"hup"} ELSE {}) \cup
    (IF sigchld_pipe THEN {"chld"} ELSE {})

\* Mutant: a writer that only closes the FIFO gets a menu too.
poll_hangup ==
    /\ pc = "poll" /\ Ready # {}
    /\ revents' = Ready
    /\ pc' = IF "in" \in Ready THEN "read"
             ELSE IF "hup" \in Ready THEN "event" ELSE "hup_close"
    /\ UNCHANGED <<data, taken, fifo_vars, child_vars>>

poll ==
    /\ pc = "poll" /\ Ready # {}
    /\ revents' = Ready
    /\ pc' = IF "in" \in Ready THEN "read" ELSE "hup_close"
    /\ UNCHANGED <<data, taken, fifo_vars, child_vars>>

\* The loop of read()s up to EOF (no writer has the FIFO open) or EAGAIN.
read_fifo ==
    /\ pc = "read"
    /\ data' = Byte[Last(buf)]
    /\ taken' = taken \cup ToSet(buf)
    /\ buf' = <<>>
    /\ pc' = IF Attached = {} THEN "eof_close" ELSE "event"
    /\ UNCHANGED <<revents, reader, had_writer, writer, child_vars>>

eof_close ==
    /\ pc = "eof_close"
    /\ CloseFifo
    /\ pc' = "eof_open"
    /\ UNCHANGED <<revents, data, taken, child_vars>>

eof_open ==
    /\ pc = "eof_open"
    /\ OpenFifo
    /\ revents' = revents \ {"in", "hup"}
    /\ pc' = "event"
    /\ UNCHANGED <<data, taken, child_vars>>

\* Only the last byte counts.
event ==
    /\ pc = "event"
    /\ pc' = IF data = "q" THEN "exit" ELSE "run_dmenu"
    /\ UNCHANGED <<revents, data, taken, fifo_vars, child_vars>>

\* Dmenu::run()
run_dmenu ==
    /\ pc = "run_dmenu"
    /\ pc' = "write"
    /\ menus' = menus + 1
    /\ dmenu' = [dmenu EXCEPT ![menus + 1] = "running"]
    /\ picked' = FALSE
    /\ UNCHANGED <<revents, data, taken, fifo_vars, app, processes_to_wait_for, sigchld_pipe>>

\* pipe() or fork() fails: a std::runtime_error, or exit() for an application.
fork_fails ==
    /\ pc = "run_dmenu" \/ (pc = "execute" /\ ~is_i3)
    /\ pc' = "exit"
    /\ UNCHANGED <<revents, data, taken, fifo_vars, child_vars>>

\* do_dmenu() writes the menu; writen() goes on after a signal.  When dmenu has exited
\* before it is written, the handler of SIGPIPE ends the daemon.
write_menu ==
    /\ pc = "write"
    /\ pc' = IF dmenu[menus] = "running" THEN "waitpid" ELSE "exit"
    /\ UNCHANGED <<revents, data, taken, fifo_vars, child_vars>>

\* Dmenu::read_choice(): the status of dmenu, then what it has written.
wait_dmenu ==
    /\ pc = "waitpid" /\ dmenu[menus] = "zombie"
    /\ dmenu' = [dmenu EXCEPT ![menus] = "reaped"]
    /\ pc' = IF picked THEN "execute" ELSE "hup_close"
    /\ UNCHANGED <<revents, data, taken, fifo_vars, menus, picked, app,
                   processes_to_wait_for, sigchld_pipe>>

\* The same after an interrupted waitpid(): EOF comes when dmenu exits.
read_choice ==
    /\ pc = "read_choice" /\ dmenu[menus] = "zombie"
    /\ pc' = IF picked THEN "execute" ELSE "hup_close"
    /\ UNCHANGED <<revents, data, taken, fifo_vars, child_vars>>

execute ==
    /\ pc = "execute"
    /\ IF is_i3 THEN UNCHANGED <<app, processes_to_wait_for>>
       ELSE /\ app' = [app EXCEPT ![menus] = "running"]
            /\ processes_to_wait_for' = processes_to_wait_for \cup {menus}
    /\ pc' = "hup_close"
    /\ UNCHANGED <<revents, data, taken, fifo_vars, menus, dmenu, picked, sigchld_pipe>>

\* Mutant: a hang-up is left to the next writer.
hup_ignored ==
    /\ pc = "hup_close"
    /\ pc' = "sigchld"
    /\ UNCHANGED <<revents, data, taken, fifo_vars, child_vars>>

\* revents still says what poll() said, however long the menu was open.
hup_close ==
    /\ pc = "hup_close"
    /\ IF "hup" \in revents THEN CloseFifo /\ pc' = "hup_open"
                            ELSE UNCHANGED fifo_vars /\ pc' = "sigchld"
    /\ UNCHANGED <<revents, data, taken, child_vars>>

hup_open ==
    /\ pc = "hup_open"
    /\ OpenFifo
    /\ pc' = "sigchld"
    /\ UNCHANGED <<revents, data, taken, child_vars>>

empty_pipe ==
    /\ pc = "sigchld"
    /\ IF "chld" \in revents THEN sigchld_pipe' = FALSE /\ pc' = "reap"
                             ELSE UNCHANGED sigchld_pipe /\ pc' = "poll"
    /\ revents' = {}
    /\ UNCHANGED <<data, taken, fifo_vars, menus, dmenu, picked, app, processes_to_wait_for>>

\* Mutant: a signal is taken for the end of one process.
reap_one ==
    /\ pc = "reap"
    /\ LET dead == {m \in processes_to_wait_for : app[m] = "zombie"}
           one  == IF dead = {} THEN {} ELSE {CHOOSE m \in dead : TRUE}
       IN  /\ app' = [m \in Menus |-> IF m \in one THEN "reaped" ELSE app[m]]
           /\ processes_to_wait_for' = processes_to_wait_for \ one
    /\ pc' = "poll"
    /\ UNCHANGED <<revents, data, taken, fifo_vars, menus, dmenu, picked, sigchld_pipe>>

\* Mutant: what has been waited for is not forgotten.
reap_kept ==
    /\ pc = "reap"
    /\ LET dead == {m \in processes_to_wait_for : app[m] = "zombie"}
       IN  app' = [m \in Menus |-> IF m \in dead THEN "reaped" ELSE app[m]]
    /\ pc' = IF \E m \in processes_to_wait_for : app[m] \in {"none", "reaped"}
             THEN "exit" ELSE "poll"
    /\ UNCHANGED <<revents, data, taken, fifo_vars, menus, dmenu, picked,
                   processes_to_wait_for, sigchld_pipe>>

\* waitpid(WNOHANG) on every process; PFATALE if one cannot be waited for.
reap ==
    /\ pc = "reap"
    /\ LET dead == {m \in processes_to_wait_for : app[m] = "zombie"}
       IN  /\ app' = [m \in Menus |-> IF m \in dead THEN "reaped" ELSE app[m]]
           /\ processes_to_wait_for' = processes_to_wait_for \ dead
    /\ pc' = IF \E m \in processes_to_wait_for : app[m] \in {"none", "reaped"}
             THEN "exit" ELSE "poll"
    /\ UNCHANGED <<revents, data, taken, fifo_vars, menus, dmenu, picked, sigchld_pipe>>

Daemon ==
    \/ poll \/ read_fifo \/ eof_close \/ eof_open \/ event
    \/ run_dmenu \/ fork_fails \/ write_menu \/ wait_dmenu \/ read_choice \/ execute
    \/ hup_close \/ hup_open \/ empty_pipe \/ reap

Writing == \E w \in Writers : WriterOpen(w) \/ WriterWrite(w) \/ WriterClose(w)

Next ==
    \/ Daemon
    \/ Writing
    \/ \E m \in Menus : DmenuExit(m) \/ AppExit(m)

\* The daemon and the writers run on, and the user closes every menu at some
\* time; an application may run for ever, and a writer need not start.
Spec ==
    /\ Init /\ [][Next]_vars
    /\ WF_vars(Daemon)
    /\ \A w \in Writers : WF_vars(WriterWrite(w) \/ WriterClose(w))
    /\ \A m \in Menus : WF_vars(DmenuExit(m))

-----------------------------------------------------------------------------
Stopped == pc = "exit"

\* What has become of an application is found out, whenever it ends: during a
\* menu, before it is remembered, or while others are being waited for.
AppsReaped == \A m \in Menus : app[m] = "zombie" ~> app[m] = "reaped" \/ Stopped

\* do_wait_on() never waits for a process a second time, which PFATALE would end
\* the daemon for: what it remembers are exactly the children not yet reaped.
WaitsForChildren ==
    processes_to_wait_for = {m \in Menus : app[m] \in {"running", "zombie"}}

\* A hang-up of the FIFO is cleared, and the daemon does not spin on it.
HangupCleared == pc = "poll" /\ "hup" \in Ready ~> ("hup" \notin Ready \/ Stopped)

\* The daemon always returns to poll(): it never waits for a menu, an application
\* or a writer that will not come.
AlwaysPolls == []<>(pc = "poll" \/ Stopped)

\* "Every time this happens a menu will be shown" (j4-dmenu-desktop.1:72): a request that
\* is in the FIFO while the menu of an earlier one is open is read after that menu.
RequestServed ==
    \A w \in Writers :
        pc \in {"waitpid", "read_choice"} /\ w \in ToSet(buf) ~> w \in taken \/ Stopped

=============================================================================
