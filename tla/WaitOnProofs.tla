----------------------------- MODULE WaitOnProofs -----------------------------
(***************************************************************************)
(* Proofs about the daemon mode, for any number of writers and requests.   *)
(* That do_wait_on() knows its children exactly rests on every menu having *)
(* its own request: menus never outnumber the bytes read, so each menu     *)
(* starts an application once at most.                                     *)
(***************************************************************************)
EXTENDS WaitOn, FiniteSetTheorems, SequenceTheorems, TLAPS

\* A byte is in the FIFO or has been read; only then its writer has written.
BytesOnce ==
    /\ \A i \in 1 .. Len(buf) : writer[buf[i]] \in {"written", "closed"} /\ buf[i] \notin taken
    /\ \A w \in taken : writer[w] \in {"written", "closed"}

\* The daemon is without the FIFO only while it reopens it, and what poll() said
\* is in it is still there when it is read.
FifoReady ==
    /\ ~reader => pc \in {"eof_open", "hup_open"}
    /\ pc = "read" => buf # <<>>

\* Every menu uses up at least one byte.
MenuPerByte ==
    /\ menus <= Cardinality(taken)
    /\ pc \in {"eof_close", "eof_open", "event", "run_dmenu"} => menus < Cardinality(taken)

\* An application is started from the current menu, once at most.
AppPerMenu ==
    /\ \A m \in Menus : m > menus => app[m] = "none"
    /\ pc \in {"write", "waitpid", "read_choice", "execute"} =>
          menus \in Menus /\ app[menus] = "none"

DaemonInv ==
    /\ TypeOK /\ BytesOnce /\ FifoReady /\ MenuPerByte /\ AppPerMenu
    /\ WaitsForChildren

-----------------------------------------------------------------------------
\* There are as many menus as bytes, and the bytes read are finitely many.
LEMMA CountFacts ==
    ASSUME TypeOK
    PROVE  /\ Cardinality(Writers) \in Nat
           /\ IsFiniteSet(taken) /\ Cardinality(taken) \in Nat
           /\ Cardinality(taken) <= Cardinality(Writers)
<1>1. IsFiniteSet(Writers) /\ taken \in SUBSET Writers
  BY WaitOnAssumption DEF TypeOK
<1>2. IsFiniteSet(taken) /\ Cardinality(taken) <= Cardinality(Writers)
  BY <1>1, FS_Subset
<1> QED
  BY <1>1, <1>2, FS_CardinalityType

\* The containers are empty when the daemon starts.
LEMMA InitInv == Init => DaemonInv
<1> SUFFICES ASSUME Init PROVE DaemonInv
  OBVIOUS
<1>1. Cardinality(Writers) \in Nat /\ Cardinality({}) = 0
  BY WaitOnAssumption, FS_CardinalityType, FS_EmptySet
<1>2. TypeOK
  <2>1. /\ pc \in Labels /\ revents \subseteq {"in", "hup", "chld"}
        /\ data \in {"none", "q", "other"}
        /\ buf \in Seq(Writers) /\ taken \subseteq Writers
        /\ menus \in 0 .. Cardinality(Writers)
    BY <1>1 DEF Init, Labels
  <2>2. /\ writer \in [Writers -> {"idle", "open", "written", "closed", "failed"}]
        /\ dmenu \in [Menus -> ProcessStates] /\ app \in [Menus -> ProcessStates]
        /\ processes_to_wait_for \subseteq Menus
    BY DEF Init, ProcessStates
  <2>3. /\ reader \in BOOLEAN /\ had_writer \in BOOLEAN
        /\ picked \in BOOLEAN /\ sigchld_pipe \in BOOLEAN
    BY DEF Init
  <2> QED BY <2>1, <2>2, <2>3 DEF TypeOK
<1>3. BytesOnce /\ FifoReady /\ MenuPerByte
  BY <1>1 DEF Init, BytesOnce, FifoReady, MenuPerByte
<1>4. AppPerMenu /\ WaitsForChildren
  BY <1>1 DEF Init, AppPerMenu, WaitsForChildren, Menus
<1> QED
  BY <1>2, <1>3, <1>4 DEF DaemonInv

-----------------------------------------------------------------------------
\* The flags have their type after every step.
LEMMA FlagsType ==
    ASSUME TypeOK, [Next]_vars
    PROVE  /\ reader' \in BOOLEAN /\ had_writer' \in BOOLEAN
           /\ picked' \in BOOLEAN /\ sigchld_pipe' \in BOOLEAN
<1> USE DEF TypeOK, vars, fifo_vars, child_vars
<1>1. CASE Daemon
  BY <1>1, Zenon DEF Daemon, poll, read_fifo, eof_close, eof_open, event, run_dmenu, fork_fails,
     write_menu, wait_dmenu, read_choice, execute, hup_close, hup_open, empty_pipe, reap,
     CloseFifo, OpenFifo
<1>2. CASE Writing
  BY <1>2, Zenon DEF Writing, WriterOpen, WriterWrite, WriterClose
<1>3. CASE \E m \in Menus : DmenuExit(m) \/ AppExit(m)
  BY <1>3, WaitOnAssumption, Zenon DEF DmenuExit, AppExit, Signalled
<1> QED
  BY <1>1, <1>2, <1>3 DEF Next

\* Where the daemon is, and what poll() said.
LEMMA PcType ==
    ASSUME TypeOK, [Next]_vars
    PROVE  /\ pc' \in Labels /\ revents' \subseteq {"in", "hup", "chld"}
           /\ \/ UNCHANGED pc
              \/ Daemon
              \/ pc \in {"waitpid", "read_choice"} /\
                 pc' \in {"waitpid", "exit", "hup_close", "read_choice"}
<1> USE DEF TypeOK, vars, fifo_vars, child_vars
<1>1. CASE Daemon
  BY <1>1 DEF Daemon, poll, read_fifo, eof_close, eof_open, event, run_dmenu, fork_fails,
     write_menu, wait_dmenu, read_choice, execute, hup_close, hup_open, empty_pipe, reap,
     Labels, Ready
<1>2. CASE Writing
  BY <1>2 DEF Writing, WriterOpen, WriterWrite, WriterClose
<1>3. CASE \E m \in Menus : DmenuExit(m) \/ AppExit(m)
  BY <1>3 DEF DmenuExit, AppExit, Interrupted, Labels
<1> QED
  BY <1>1, <1>2, <1>3 DEF Next

\* The FIFO and its writers.
LEMMA FifoType ==
    ASSUME TypeOK, FifoReady, [Next]_vars
    PROVE  /\ writer' \in [Writers -> {"idle", "open", "written", "closed", "failed"}]
           /\ buf' \in Seq(Writers) /\ taken' \subseteq Writers
           /\ data' \in {"none", "q", "other"}
<1> USE DEF TypeOK, vars, fifo_vars
<1>1. CASE read_fifo
  <2>1. buf \in Seq(Writers) /\ buf # <<>> /\ Len(buf) \in 1 .. Len(buf)
    BY <1>1, EmptySeq, LenProperties DEF read_fifo, FifoReady
  <2>2. Last(buf) \in Writers /\ ToSet(buf) \subseteq Writers
    BY <2>1 DEF Last, ToSet
  <2>3. <<>> \in Seq(Writers)
    OBVIOUS
  <2> QED BY <1>1, <2>2, <2>3, WaitOnAssumption DEF read_fifo
<1>2. CASE Daemon /\ ~read_fifo
  <2>1. UNCHANGED <<writer, taken, data>>
    BY <1>2 DEF Daemon, poll, eof_close, eof_open, event, run_dmenu, fork_fails,
       write_menu, wait_dmenu, read_choice, execute, hup_close, hup_open, empty_pipe, reap,
       CloseFifo, OpenFifo
  <2>2. buf' \in {buf, <<>>}
    BY <1>2 DEF Daemon, poll, eof_close, eof_open, event, run_dmenu, fork_fails,
       write_menu, wait_dmenu, read_choice, execute, hup_close, hup_open, empty_pipe, reap,
       CloseFifo, OpenFifo
  <2>3. buf' \in Seq(Writers)
    <3>1. <<>> \in Seq(Writers)
      OBVIOUS
    <3> QED BY <2>2, <3>1
  <2> QED BY <2>1, <2>3
<1>3. CASE Writing
  <2>1. PICK w \in Writers : WriterOpen(w) \/ WriterWrite(w) \/ WriterClose(w)
    BY <1>3 DEF Writing
  <2>2. /\ writer' \in [Writers -> {"idle", "open", "written", "closed", "failed"}]
        /\ UNCHANGED <<taken, data>>
    BY <2>1 DEF WriterOpen, WriterWrite, WriterClose
  <2>3. buf' \in {buf, <<>>, Append(buf, w)}
    BY <2>1 DEF WriterOpen, WriterWrite, WriterClose
  <2>4. buf' \in Seq(Writers)
    <3>1. <<>> \in Seq(Writers) /\ Append(buf, w) \in Seq(Writers)
      BY AppendProperties
    <3> QED BY <2>3, <3>1
  <2> QED BY <2>2, <2>4
<1>4. CASE UNCHANGED <<writer, buf, taken, data>>
  BY <1>4
<1> QED
  BY <1>1, <1>2, <1>3, <1>4 DEF Next, DmenuExit, AppExit

\* The children.
LEMMA ChildType ==
    ASSUME TypeOK, MenuPerByte, AppPerMenu, [Next]_vars
    PROVE  /\ menus' \in 0 .. Cardinality(Writers)
           /\ dmenu' \in [Menus -> ProcessStates] /\ app' \in [Menus -> ProcessStates]
           /\ processes_to_wait_for' \subseteq Menus
<1> USE DEF TypeOK, vars, child_vars
<1>1. CASE run_dmenu
  <2>1. menus + 1 \in 0 .. Cardinality(Writers)
    BY <1>1, CountFacts DEF run_dmenu, MenuPerByte
  <2> QED BY <1>1, <2>1 DEF run_dmenu, ProcessStates
<1>2. CASE wait_dmenu
  BY <1>2 DEF wait_dmenu, ProcessStates
<1>3. CASE execute
  <2>1. menus \in Menus
    BY <1>3 DEF execute, AppPerMenu
  <2> QED BY <1>3, <2>1 DEF execute, ProcessStates
<1>4. CASE reap
  BY <1>4 DEF reap, ProcessStates
<1>5. ASSUME NEW m \in Menus, DmenuExit(m) \/ AppExit(m)
      PROVE  /\ menus' \in 0 .. Cardinality(Writers)
             /\ dmenu' \in [Menus -> ProcessStates] /\ app' \in [Menus -> ProcessStates]
             /\ processes_to_wait_for' \subseteq Menus
  BY <1>5 DEF DmenuExit, AppExit, ProcessStates
<1>6. CASE UNCHANGED <<menus, dmenu, app, processes_to_wait_for>>
  BY <1>6
<1> QED
  BY <1>1, <1>2, <1>3, <1>4, <1>5, <1>6
  DEF Next, Daemon, Writing, poll, read_fifo, eof_close, eof_open, event, fork_fails,
      write_menu, read_choice, hup_close, hup_open, empty_pipe,
      WriterOpen, WriterWrite, WriterClose

-----------------------------------------------------------------------------
\* A byte is read once, and never before it is written.
LEMMA BytesNext ==
    ASSUME DaemonInv, [Next]_vars
    PROVE  BytesOnce'
<1> USE DEF TypeOK, vars, fifo_vars
<1>0. TypeOK /\ BytesOnce /\ buf \in Seq(Writers) /\ Len(buf) \in Nat
  BY DEF DaemonInv
<1>1. CASE read_fifo
  <2>1. /\ writer' = writer /\ taken' = taken \cup {buf[i] : i \in 1 .. Len(buf)}
        /\ buf' = <<>> /\ Len(buf') = 0
    BY <1>0, <1>1, LenProperties DEF read_fifo, ToSet
  <2> QED BY <1>0, <2>1 DEF BytesOnce
<1>2. ASSUME buf' \in {buf, <<>>}, taken' = taken,
             \A w \in Writers : writer[w] \in {"written", "closed"} =>
                                   writer'[w] \in {"written", "closed"}
      PROVE  BytesOnce'
  <2>1. \A i \in 1 .. Len(buf) : buf[i] \in Writers
    BY <1>0
  <2>2. CASE buf' = <<>>
    <3>1. Len(buf') = 0
      BY <2>2
    <3> QED BY <1>0, <1>2, <3>1 DEF BytesOnce
  <2>3. CASE buf' = buf
    BY <1>0, <1>2, <2>1, <2>3 DEF BytesOnce
  <2> QED BY <1>2, <2>2, <2>3
<1>3. ASSUME NEW w \in Writers, WriterOpen(w) \/ WriterWrite(w) \/ WriterClose(w)
      PROVE  BytesOnce'
  <2>1. CASE buf' = Append(buf, w) /\ writer[w] = "open"
             /\ writer' = [writer EXCEPT ![w] = "written"] /\ taken' = taken
    <3>1. /\ Len(buf') = Len(buf) + 1
          /\ \A i \in 1 .. Len(buf) : buf'[i] = buf[i]
          /\ buf'[Len(buf) + 1] = w
      BY <1>0, <2>1, AppendProperties
    <3>2. \A i \in 1 .. Len(buf') : i \in 1 .. Len(buf) \/ i = Len(buf) + 1
      BY <1>0, <3>1
    <3>3. \A i \in 1 .. Len(buf) : buf[i] \in Writers
      BY <1>0
    <3> QED BY <1>0, <2>1, <3>1, <3>2, <3>3 DEF BytesOnce
  <2>2. CASE /\ buf' \in {buf, <<>>} /\ taken' = taken
             /\ \A v \in Writers : writer[v] \in {"written", "closed"} =>
                                      writer'[v] \in {"written", "closed"}
    BY <1>2, <2>2
  <2> QED
    BY <1>0, <1>3, <2>1, <2>2 DEF WriterOpen, WriterWrite, WriterClose
<1>4. CASE Daemon /\ ~read_fifo
  <2>1. buf' \in {buf, <<>>} /\ UNCHANGED <<taken, writer>>
    BY <1>4 DEF Daemon, poll, eof_close, eof_open, event, run_dmenu, fork_fails,
       write_menu, wait_dmenu, read_choice, execute, hup_close, hup_open, empty_pipe, reap,
       CloseFifo, OpenFifo
  <2> QED BY <1>2, <2>1
<1>5. CASE UNCHANGED <<writer, buf, taken>>
  BY <1>2, <1>5
<1> QED
  BY <1>1, <1>3, <1>4, <1>5 DEF Next, Writing, DmenuExit, AppExit

\* The FIFO is closed only to be opened again, and nothing empties it before the
\* daemon reads it.
LEMMA FifoNext ==
    ASSUME DaemonInv, [Next]_vars
    PROVE  FifoReady'
<1> USE DEF TypeOK, vars, fifo_vars
<1>0. TypeOK /\ FifoReady /\ buf \in Seq(Writers)
  BY DEF DaemonInv
<1>1. CASE Daemon
  BY <1>0, <1>1, Zenon DEF FifoReady, Daemon, poll, read_fifo, eof_close, eof_open, event, run_dmenu,
     fork_fails, write_menu, wait_dmenu, read_choice, execute, hup_close, hup_open,
     empty_pipe, reap, CloseFifo, OpenFifo, Ready
<1>2. CASE Writing
  <2>1. PICK w \in Writers : WriterOpen(w) \/ WriterWrite(w) \/ WriterClose(w)
    BY <1>2 DEF Writing
  <2>2. UNCHANGED <<pc, reader>> /\ (reader => buf' \in {buf, Append(buf, w)})
    BY <2>1 DEF WriterOpen, WriterWrite, WriterClose
  <2>3. Append(buf, w) # <<>>
    BY <1>0, AppendProperties
  <2> QED BY <1>0, <2>2, <2>3 DEF FifoReady
<1>3. CASE \E m \in Menus : DmenuExit(m) \/ AppExit(m)
  BY <1>0, <1>3 DEF DmenuExit, AppExit, Interrupted, FifoReady
<1>4. CASE UNCHANGED vars
  BY <1>0, <1>4 DEF FifoReady
<1> QED
  BY <1>1, <1>2, <1>3, <1>4 DEF Next

\* A menu is shown only after a byte has been read that no menu was shown for.
LEMMA MenuNext ==
    ASSUME DaemonInv, TypeOK', [Next]_vars
    PROVE  MenuPerByte'
<1> USE DEF TypeOK, vars, fifo_vars, child_vars
<1>0. /\ TypeOK /\ FifoReady /\ MenuPerByte /\ BytesOnce /\ menus \in Nat
      /\ IsFiniteSet(taken) /\ Cardinality(taken) \in Nat
  BY CountFacts DEF DaemonInv
<1>1. CASE read_fifo
  <2>1. buf \in Seq(Writers) /\ buf # <<>> /\ Len(buf) \in 1 .. Len(buf) /\ menus' = menus
    BY <1>0, <1>1, EmptySeq, LenProperties DEF read_fifo, FifoReady
  <2>2. taken \subseteq taken' /\ buf[Len(buf)] \in taken' /\ buf[Len(buf)] \notin taken
    BY <1>0, <1>1, <2>1 DEF read_fifo, ToSet, BytesOnce
  <2>3. IsFiniteSet(taken') /\ Cardinality(taken') \in Nat
    BY WaitOnAssumption, FS_Subset, FS_CardinalityType
  <2>4. Cardinality(taken) < Cardinality(taken')
    <3>1. Cardinality(taken) <= Cardinality(taken') /\ Cardinality(taken') # Cardinality(taken)
      BY <2>2, <2>3, FS_Subset
    <3> QED BY <1>0, <2>3, <3>1
  <2> QED BY <1>0, <2>1, <2>3, <2>4 DEF MenuPerByte
<1>2. CASE run_dmenu
  BY <1>0, <1>2 DEF run_dmenu, MenuPerByte
<1>3. CASE /\ UNCHANGED <<taken, menus>>
           /\ pc' \in {"eof_close", "eof_open", "event", "run_dmenu"} =>
                pc \in {"eof_close", "eof_open", "event", "run_dmenu"}
  BY <1>0, <1>3 DEF MenuPerByte
<1>4. CASE Daemon /\ ~read_fifo /\ ~run_dmenu
  BY <1>3, <1>4 DEF Daemon, poll, eof_close, eof_open, event, fork_fails,
     write_menu, wait_dmenu, read_choice, execute, hup_close, hup_open, empty_pipe, reap
<1>5. CASE Writing
  BY <1>3, <1>5 DEF Writing, WriterOpen, WriterWrite, WriterClose
<1>6. CASE \E m \in Menus : DmenuExit(m) \/ AppExit(m)
  BY <1>3, <1>6 DEF DmenuExit, AppExit, Interrupted
<1> QED
  BY <1>1, <1>2, <1>3, <1>4, <1>5, <1>6 DEF Next

\* A menu starts an application once at most, however its waitpid() or read() was
\* interrupted, and do_wait_on() remembers it from then until it is reaped.
LEMMA AppNext ==
    ASSUME DaemonInv, TypeOK', [Next]_vars
    PROVE  AppPerMenu' /\ WaitsForChildren'
<1> USE DEF TypeOK, vars, child_vars
<1> DEFINE Choosing == {"write", "waitpid", "read_choice", "execute"}
<1>0. /\ TypeOK /\ AppPerMenu /\ WaitsForChildren /\ MenuPerByte
      /\ menus \in Nat /\ \A m \in Menus : m \in Nat
  BY DEF DaemonInv, Menus
<1>1. CASE run_dmenu
  <2>1. menus' = menus + 1 /\ menus + 1 \in Menus
    BY <1>0, <1>1 DEF run_dmenu, Menus
  <2>2. AppPerMenu'
    BY <1>0, <1>1, <2>1 DEF run_dmenu, AppPerMenu
  <2> QED BY <1>0, <1>1, <2>2 DEF run_dmenu, WaitsForChildren
<1>2. CASE execute
  <2>1. menus \in Menus /\ pc' = "hup_close" /\ menus' = menus
    BY <1>0, <1>2 DEF execute, AppPerMenu
  <2>2. CASE is_i3
    BY <1>0, <1>2, <2>1, <2>2 DEF execute, AppPerMenu, WaitsForChildren
  <2>3. CASE ~is_i3
    <3>1. /\ app' = [app EXCEPT ![menus] = "running"]
          /\ processes_to_wait_for' = processes_to_wait_for \cup {menus}
      BY <1>2, <2>3 DEF execute
    <3>2. \A m \in Menus : m # menus => app'[m] = app[m]
      BY <1>0, <3>1
    <3>3. app'[menus] = "running"
      BY <1>0, <2>1, <3>1
    <3>4. AppPerMenu'
      BY <1>0, <2>1, <3>2 DEF AppPerMenu
    <3>5. WaitsForChildren'
      BY <1>0, <2>1, <3>1, <3>2, <3>3 DEF WaitsForChildren
    <3> QED BY <3>4, <3>5
  <2> QED BY <2>2, <2>3
<1>3. CASE reap
  <2> DEFINE dead == {m \in processes_to_wait_for : app[m] = "zombie"}
  <2>1. /\ app' = [m \in Menus |-> IF m \in dead THEN "reaped" ELSE app[m]]
        /\ processes_to_wait_for' = processes_to_wait_for \ dead
        /\ menus' = menus /\ pc' \notin Choosing
    BY <1>3 DEF reap
  <2>2. AppPerMenu'
    BY <1>0, <2>1 DEF AppPerMenu
  <2>3. WaitsForChildren'
    BY <1>0, <2>1 DEF WaitsForChildren
  <2> QED BY <2>2, <2>3
<1>4. ASSUME NEW m \in Menus, AppExit(m)
      PROVE  AppPerMenu' /\ WaitsForChildren'
  <2>1. /\ app[m] = "running" /\ app' = [app EXCEPT ![m] = "zombie"] /\ menus' = menus
        /\ processes_to_wait_for' = processes_to_wait_for
        /\ pc' \in Choosing => pc \in Choosing
    BY <1>4 DEF AppExit, Interrupted
  <2>2. AppPerMenu'
    BY <1>0, <2>1 DEF AppPerMenu
  <2>3. WaitsForChildren'
    BY <1>0, <2>1 DEF WaitsForChildren
  <2> QED BY <2>2, <2>3
<1>5. CASE /\ UNCHANGED <<menus, app, processes_to_wait_for>>
           /\ pc' \in Choosing => pc \in Choosing
  BY <1>0, <1>5 DEF AppPerMenu, WaitsForChildren
<1>6. CASE Daemon /\ ~run_dmenu /\ ~execute /\ ~reap
  BY <1>5, <1>6 DEF Daemon, poll, read_fifo, eof_close, eof_open, event, fork_fails,
     write_menu, wait_dmenu, read_choice, hup_close, hup_open, empty_pipe
<1>7. CASE Writing
  BY <1>5, <1>7 DEF Writing, WriterOpen, WriterWrite, WriterClose
<1>8. CASE \E m \in Menus : DmenuExit(m)
  BY <1>5, <1>8 DEF DmenuExit, Interrupted
<1> QED
  BY <1>1, <1>2, <1>3, <1>4, <1>5, <1>6, <1>7, <1>8 DEF Next

\* Every step of the daemon, a writer, a dmenu or an application keeps the invariant.
LEMMA NextInv == DaemonInv /\ [Next]_vars => DaemonInv'
<1> SUFFICES ASSUME DaemonInv, [Next]_vars PROVE DaemonInv'
  OBVIOUS
<1>1. TypeOK'
  BY FlagsType, PcType, FifoType, ChildType DEF DaemonInv, TypeOK
<1> QED
  BY <1>1, BytesNext, FifoNext, MenuNext, AppNext DEF DaemonInv

\* The invariant holds in every state of the daemon.
LEMMA AlwaysDaemonInv == Spec => []DaemonInv
<1> QED
  BY InitInv, NextInv, PTL DEF Spec

-----------------------------------------------------------------------------
\* Type correctness; in particular there is a request for every menu, so that
\* the daemon never shows more menus than bytes were written to the FIFO.
THEOREM WaitOnTypeCorrect == Spec => []TypeOK
<1>1. DaemonInv => TypeOK
  BY DEF DaemonInv
<1> QED
  BY <1>1, AlwaysDaemonInv, PTL

\* processes_to_wait_for holds exactly the children that are not reaped yet, for
\* any number of requests and whenever SIGCHLD comes: waitpid() in do_wait_on()
\* never fails, and no child is forgotten.
THEOREM AlwaysWaitsForChildren == Spec => []WaitsForChildren
<1>1. DaemonInv => WaitsForChildren
  BY DEF DaemonInv
<1> QED
  BY <1>1, AlwaysDaemonInv, PTL

\* The daemon never shows more menus than it has read bytes from the FIFO, though
\* it reads, closes and reopens the FIFO while others write to it.
THEOREM NoMenuWithoutByte == Spec => [](menus <= Cardinality(taken))
<1>1. DaemonInv => menus <= Cardinality(taken)
  BY DEF DaemonInv, MenuPerByte
<1> QED
  BY <1>1, AlwaysDaemonInv, PTL

\* The PFATALE after waitpid() in do_wait_on() is never reached: waiting for the
\* applications that have ended does not end the daemon.
THEOREM ReapNeverFails == Spec => [][reap => pc' = "poll"]_vars
<1>1. DaemonInv /\ [Next]_vars => [reap => pc' = "poll"]_vars
  BY DEF DaemonInv, WaitsForChildren, reap
<1> QED
  BY <1>1, AlwaysDaemonInv, PTL DEF Spec

=============================================================================
