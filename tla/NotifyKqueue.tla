----------------------------- MODULE NotifyKqueue -----------------------------
(***************************************************************************)
(* src/NotifyKqueue.cc: a detached thread looks at the directories of the  *)
(* search path once a minute, compares their contents with what it knew,   *)
(* and hands the differences to the main thread through a vector guarded   *)
(* by a mutex and a byte in a pipe, the descriptor do_wait_on() polls.     *)
(* kevent() on a directory reports that entries came or went; a file that  *)
(* is only rewritten in place is not reported.                             *)
(***************************************************************************)
EXTENDS Naturals, Sequences, SequencesExt

CONSTANTS
    NDirs,   \* directories, in the order the thread looks at them
    Files,   \* file names
    MaxFs    \* bound: file system operations in a behaviour

Dirs == 1 .. NDirs

ASSUME KqueueAssumption == NDirs \in Nat \ {0} /\ IsFiniteSet(Files) /\ MaxFs \in Nat

VARIABLES
    present,   \* [Dirs -> SUBSET Files]: the files on disk
    knote,     \* [Dirs -> BOOLEAN]: an event is pending in the kernel (EV_CLEAR)
    known,     \* [Dirs -> SUBSET Files]: directory_entry::files of the thread
    thread,    \* "kevent", "readdir", "lock", "write" or "sleep"
    cur,       \* the directory the thread is at
    unread,    \* names readdir() has not come to yet
    files,     \* what it found
    changes,   \* NotifyKqueue::changes, guarded by changes_mutex
    pipe,      \* bytes in the pipe
    main,      \* "poll", "drain" or "apply"
    result,    \* what getchanges() returns
    seen,      \* [Dirs -> SUBSET Files]: the files the main thread was told of
    fs         \* file system operations so far

thread_vars == <<known, thread, cur, unread, files>>
main_vars == <<main, result, seen>>
vars == <<present, knote, thread_vars, changes, pipe, main_vars, fs>>

FileChange == [dir: Dirs, name: Files, status: {"modified", "deleted"}]

TypeOK ==
    /\ present \in [Dirs -> SUBSET Files]
    /\ known \in [Dirs -> SUBSET Files] /\ seen \in [Dirs -> SUBSET Files]
    /\ knote \in [Dirs -> BOOLEAN]
    /\ thread \in {"kevent", "readdir", "lock", "write", "sleep"}
    /\ cur \in Dirs /\ unread \subseteq Files /\ files \subseteq Files
    /\ changes \in Seq(FileChange) /\ result \in Seq(FileChange)
    /\ pipe \in Nat
    /\ main \in {"poll", "drain", "apply"}
    /\ fs \in 0 .. MaxFs

\* The constructor registers with kevent() before it reads a directory; the main
\* thread has loaded the same files.
Init ==
    /\ present \in [Dirs -> SUBSET Files]
    /\ knote = [d \in Dirs |-> FALSE]
    /\ known = present /\ seen = present
    /\ thread = "kevent" /\ cur = 1 /\ unread = {} /\ files = {}
    /\ changes = <<>> /\ result = <<>>
    /\ pipe = 0
    /\ main = "poll"
    /\ fs = 0

-----------------------------------------------------------------------------
\* A file is created in, renamed into, deleted from or renamed out of a directory.
FsChange(d, f) ==
    /\ fs < MaxFs
    /\ present' = [present EXCEPT ![d] = IF f \in @ THEN @ \ {f} ELSE @ \cup {f}]
    /\ knote' = [knote EXCEPT ![d] = TRUE]
    /\ fs' = fs + 1
    /\ UNCHANGED <<thread_vars, changes, pipe, main_vars>>

(* process_kqueue() *)

\* Mutant: the loop runs one directory too far.
NextDirBeyond ==
    IF cur > NDirs THEN thread' = "sleep" /\ cur' = 1
                   ELSE thread' = "kevent" /\ cur' = cur + 1

NextDir ==
    IF cur = NDirs THEN thread' = "sleep" /\ cur' = 1
                   ELSE thread' = "kevent" /\ cur' = cur + 1

kevent ==
    /\ thread = "kevent"
    /\ IF knote[cur] THEN thread' = "readdir" /\ UNCHANGED cur ELSE NextDir
    /\ knote' = [knote EXCEPT ![cur] = FALSE]
    /\ unread' = IF knote[cur] THEN Files ELSE {}
    /\ files' = {}
    /\ UNCHANGED <<present, known, changes, pipe, main_vars, fs>>

\* Mutant: the event is consumed when the directory has been read.
readdir_then_kevent(f) ==
    /\ thread = "readdir" /\ f \in unread
    /\ files' = files \cup ({f} \cap present[cur])
    /\ unread' = unread \ {f}
    /\ thread' = IF unread' = {} THEN "lock" ELSE "readdir"
    /\ knote' = IF unread' = {} THEN [knote EXCEPT ![cur] = FALSE] ELSE knote
    /\ UNCHANGED <<present, known, cur, changes, pipe, main_vars, fs>>

\* The directory may change while it is read.
readdir(f) ==
    /\ thread = "readdir" /\ f \in unread
    /\ files' = files \cup ({f} \cap present[cur])
    /\ unread' = unread \ {f}
    /\ thread' = IF unread' = {} THEN "lock" ELSE "readdir"
    /\ UNCHANGED <<present, knote, known, cur, changes, pipe, main_vars, fs>>

\* The order in which a std::set is walked through is left open.
Differences(status, names) ==
    {[i \in DOMAIN s |-> [dir |-> cur, name |-> s[i], status |-> status]] :
        s \in SetToSeqs(names)}

\* Mutant: a missing file is reported and stays in directory_entry::files.
push_changes_no_erase ==
    /\ thread = "lock"
    /\ \E missing \in Differences("deleted", known[cur] \ files),
          added \in Differences("modified", files \ known[cur]) :
            changes' = changes \o missing \o added
    /\ known' = [known EXCEPT ![cur] = @ \cup files]
    /\ thread' = "write"
    /\ UNCHANGED <<present, knote, cur, unread, files, pipe, main_vars, fs>>

\* The block that holds changes_mutex.
push_changes ==
    /\ thread = "lock"
    /\ \E missing \in Differences("deleted", known[cur] \ files),
          added \in Differences("modified", files \ known[cur]) :
            changes' = changes \o missing \o added
    /\ known' = [known EXCEPT ![cur] = files]
    /\ thread' = "write"
    /\ UNCHANGED <<present, knote, cur, unread, files, pipe, main_vars, fs>>

write_pipe ==
    /\ thread = "write"
    /\ pipe' = pipe + 1
    /\ NextDir
    /\ UNCHANGED <<present, knote, known, unread, files, changes, main_vars, fs>>

wake_up ==
    /\ thread = "sleep"
    /\ thread' = "kevent"
    /\ UNCHANGED <<present, knote, known, cur, unread, files, changes, pipe, main_vars, fs>>

(* getchanges(), called when poll() says that the pipe is readable *)

take_changes ==
    /\ main = "poll" /\ pipe > 0
    /\ result' = changes
    /\ changes' = <<>>
    /\ main' = "drain"
    /\ UNCHANGED <<present, knote, thread_vars, pipe, seen, fs>>

\* Mutant: the bytes stay in the pipe.
drain_nothing ==
    /\ main = "drain"
    /\ main' = "apply"
    /\ UNCHANGED <<present, knote, thread_vars, changes, pipe, result, seen, fs>>

drain_pipe ==
    /\ main = "drain"
    /\ pipe' = 0
    /\ main' = "apply"
    /\ UNCHANGED <<present, knote, thread_vars, changes, result, seen, fs>>

\* The loop over the changes: of several changes of a file the last one counts.
Applied(dirs, todo) ==
    [d \in Dirs |-> {f \in Files :
        LET of_f == {i \in DOMAIN todo : todo[i].dir = d /\ todo[i].name = f}
        IN  IF of_f = {} THEN f \in dirs[d]
            ELSE \E i \in of_f : todo[i].status = "modified" /\ \A j \in of_f : j <= i}]

apply ==
    /\ main = "apply"
    /\ seen' = Applied(seen, result)
    /\ result' = <<>>
    /\ main' = "poll"
    /\ UNCHANGED <<present, knote, thread_vars, changes, pipe, fs>>

Thread == kevent \/ (\E f \in Files : readdir(f)) \/ push_changes \/ write_pipe \/ wake_up
Main == take_changes \/ drain_pipe \/ apply

Next == Thread \/ Main \/ \E d \in Dirs, f \in Files : FsChange(d, f)

\* Both threads are scheduled; main returns to poll() when a menu is closed.
Spec == Init /\ [][Next]_vars /\ WF_vars(Thread) /\ WF_vars(Main)

-----------------------------------------------------------------------------
ChangeFeed == INSTANCE ChangeFeed WITH told <- Applied(seen, result)

\* Between the threads no change is lost, repeated, turned around or split: however
\* their steps interleave, a call of getchanges() hands over all the differences the
\* thread has found, and applying them in order gives what the thread knows.
ImplementsChangeFeed == ChangeFeed!Spec

\* The thread gets to know every change: a file that comes or goes while a
\* directory is being read is not overlooked.
ThreadCatchesUp == <>[](known = present)

\* A byte in the pipe is all that wakes up the main thread: it is always answered, by
\* a call of getchanges() that leaves the pipe empty and the changes applied.
ReadableIsServed == pipe > 0 ~> (pipe = 0 /\ main = "poll")

\* The claim of NotifyBase.hh:29, "getfd() returns a file descriptor that should
\* become readable when desktop entries have been modified": once the thread has
\* written its byte, changes that wait are announced.
FdReadable ==
    changes # <<>> /\ thread # "write" /\ main = "poll" => pipe > 0

=============================================================================
