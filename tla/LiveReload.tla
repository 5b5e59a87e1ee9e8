------------------------------ MODULE LiveReload ------------------------------
(***************************************************************************)
(* Keeping AppManager up to date with the file system: the startup         *)
(* sequence of main() (collect_files(), the AppManager constructor, the    *)
(* NotifyInotify constructor), inotify and NotifyInotify::getchanges(),    *)
(* and the part of do_wait_on() that applies the changes.  The file system *)
(* changes at any moment; a change is a record in the kernel's queue, but  *)
(* AppManager reads the file only when it handles the change.              *)
(***************************************************************************)
EXTENDS AppManager, Sequences

CONSTANTS
    Contents,    \* what the desktop files of the model may contain
    SubdirIDs,   \* IDs of files in a subdirectory of a search path directory
    FsOps,       \* the inotify masks of the file system operations that happen
    QuietStart,  \* TRUE: the file system does not change during the startup
    QueueSize,   \* the events the kernel's queue holds (max_queued_events)
    MaxChanges   \* bound: file system operations in a behaviour

\* A file has its own name in the directory of each rank.
Files == Ranks \X IDs

Removals == {"IN_DELETE", "IN_MOVED_FROM"}
Masks == Removals \cup {"IN_MODIFY", "IN_MOVED_TO", "IN_CREATE"}

ASSUME LiveReloadAssumption ==
    /\ Contents \subseteq DesktopFile
    /\ null \notin Contents
    /\ SubdirIDs \subseteq IDs
    /\ FsOps \subseteq Masks
    /\ QuietStart \in BOOLEAN
    /\ {QueueSize, MaxChanges} \subseteq Nat \ {0}

VARIABLES
    disk,      \* [Files -> Contents or null]
    stage,     \* what main() does: "collect", "load", "run" or "terminated"
    to_load,   \* collected files the constructor has not read yet
    queue,     \* the kernel's queue of inotify events
    changes,   \* what getchanges() returned and is not yet applied
    ops        \* file system operations so far

notify_vars == <<disk, stage, to_load, queue, changes, ops>>
live_vars == <<vars, notify_vars>>

\* The event for a full queue belongs to no watch.
Overflow == [file |-> null, mask |-> "IN_Q_OVERFLOW"]
Events == [file: Files, mask: Masks] \cup {Overflow}
FileChange == [rank: Ranks, id: IDs, status: {"modified", "deleted"}]

LiveTypeOK ==
    /\ TypeOK
    /\ disk \in [Files -> Contents \cup {null}]
    /\ stage \in {"collect", "load", "run", "terminated"}
    /\ to_load \subseteq Files
    /\ queue \in Seq(Events)
    /\ changes \in Seq(FileChange)
    /\ ops \in 0 .. MaxChanges

LiveInit ==
    /\ Init
    /\ disk \in [Files -> Contents \cup {null}]
    /\ stage = "collect"
    /\ to_load = {}
    /\ queue = <<>>
    /\ changes = <<>>
    /\ ops = 0

-----------------------------------------------------------------------------
(* The file system *)

\* Mutant: files that are moved into the directory are not watched for.
WatchMask_no_moves(id) == {"IN_DELETE", "IN_MODIFY", "IN_MOVED_FROM"}

\* The masks inotify_add_watch() is called with: the directories of the search
\* path, and their subdirectories.
WatchMask(id) ==
    IF id \in SubdirIDs THEN {"IN_DELETE", "IN_MODIFY"}
    ELSE {"IN_DELETE", "IN_MODIFY", "IN_MOVED_FROM", "IN_MOVED_TO"}

\* An event that equals the last one is left out.
Enqueued(event) ==
    LET last == IF Len(queue) < QueueSize THEN event ELSE Overflow
    IN  IF queue # <<>> /\ queue[Len(queue)] = last THEN queue ELSE Append(queue, last)

Notified(f, mask) ==
    IF stage = "run" /\ mask \in WatchMask(f[2]) THEN Enqueued([file |-> f, mask |-> mask])
                                                ELSE queue

\* A file is written, renamed into or out of its place, linked or unlinked.
FsChange(f, mask, content) ==
    /\ ops < MaxChanges
    /\ QuietStart => stage = "run"
    /\ IF mask \in Removals THEN disk[f] # null /\ content = null
                            ELSE content \in Contents
    /\ mask = "IN_CREATE" => disk[f] = null
    /\ disk' = [disk EXCEPT ![f] = content]
    /\ queue' = Notified(f, mask)
    /\ ops' = ops + 1
    /\ UNCHANGED <<vars, stage, to_load, changes>>

-----------------------------------------------------------------------------
(* The program *)

\* What the Application constructor makes of the file now.
Parse(f) == IF disk[f] = null THEN invalid_error ELSE disk[f]

collect_files ==
    /\ stage = "collect"
    /\ to_load' = {f \in Files : disk[f] # null}
    /\ stage' = "load"
    /\ UNCHANGED <<vars, disk, queue, changes, ops>>

\* The loops of the AppManager constructor over the ranks and their files.
LoadFile(f) ==
    /\ stage = "load"
    /\ f \in to_load /\ f[1] = loading
    /\ ctor_load(f[2], Parse(f))
    /\ to_load' = to_load \ {f}
    /\ UNCHANGED <<disk, stage, queue, changes, ops>>

LoadNextRank ==
    /\ stage = "load"
    /\ \A f \in to_load : f[1] # loading
    /\ ctor_next_rank
    /\ UNCHANGED notify_vars

\* The NotifyInotify constructor; the watches exist from here on.
NotifyCtor ==
    /\ stage = "load"
    /\ loading = MaxRank + 1
    /\ stage' = "run"
    /\ UNCHANGED <<vars, disk, to_load, queue, changes, ops>>

\* Mutant: a file that was moved away is taken for a modified one.
Status_moved(mask) == IF mask = "IN_DELETE" THEN "deleted" ELSE "modified"

Status(mask) == IF mask \in {"IN_MODIFY", "IN_MOVED_TO"} THEN "modified" ELSE "deleted"

Overflown == \E i \in 1 .. Len(queue) : queue[i] = Overflow

\* Nobody catches the std::out_of_range of directories.at().
getchanges_throws ==
    /\ stage = "run" /\ ~aborted
    /\ changes = <<>> /\ Overflown
    /\ stage' = "terminated"
    /\ UNCHANGED <<vars, disk, to_load, queue, changes, ops>>

getchanges ==
    /\ stage = "run" /\ ~aborted
    /\ queue # <<>> /\ changes = <<>> /\ ~Overflown
    /\ changes' = [i \in 1 .. Len(queue) |->
                      [rank |-> queue[i].file[1], id |-> queue[i].file[2],
                       status |-> Status(queue[i].mask)]]
    /\ queue' = <<>>
    /\ UNCHANGED <<vars, disk, stage, to_load, ops>>

\* Mutant: a change is applied to the file of the next rank.
ApplyChange_rank ==
    /\ changes # <<>>
    /\ LET c == Head(changes)
       IN  IF c.status = "modified" THEN add(c.id, c.rank + 1, Parse(<<c.rank, c.id>>))
                                    ELSE remove(c.id)
    /\ changes' = Tail(changes)
    /\ UNCHANGED <<disk, stage, to_load, queue, ops>>

\* An iteration of the loop over the changes in do_wait_on().
ApplyChange ==
    /\ changes # <<>>
    /\ LET c == Head(changes)
       IN  IF c.status = "modified" THEN add(c.id, c.rank, Parse(<<c.rank, c.id>>))
                                    ELSE remove(c.id)
    /\ changes' = Tail(changes)
    /\ UNCHANGED <<disk, stage, to_load, queue, ops>>

Program ==
    \/ collect_files
    \/ \E f \in Files : LoadFile(f)
    \/ LoadNextRank
    \/ NotifyCtor
    \/ getchanges
    \/ getchanges_throws
    \/ ApplyChange

LiveNext ==
    \/ Program
    \/ \E f \in Files, mask \in FsOps, content \in Contents \cup {null} :
            FsChange(f, mask, content)

\* The program goes on as long as it has something to do: poll() returns when the
\* inotify descriptor is readable, and the user closes a menu at some time.
LiveSpec == LiveInit /\ [][LiveNext]_live_vars /\ WF_live_vars(Program)

-----------------------------------------------------------------------------
\* Every change that was reported has been applied.
Settled == stage = "run" /\ queue = <<>> /\ changes = <<>> /\ ~aborted

\* What the constructor would load from the files as they are now.
Candidates(id) == {r \in Ranks : disk[<<r, id>>] \notin {null, invalid_error}}

FreshlyLoaded(id) ==
    IF Candidates(id) = {} THEN null
    ELSE LET r == CHOOSE x \in Candidates(id) : \A y \in Candidates(id) : x <= y
             c == disk[<<r, id>>]
         IN  [app |-> IF c = disabled_error THEN null ELSE c, rank |-> r]

\* Whatever the file system does while the changes are on their way, and in
\* whatever state a file is read: once they are applied, an application on offer
\* is the one in the file it was loaded from.  A file that has become
\* unreadable or malformed meanwhile may leave its last good version behind.
NothingStale ==
    Settled => \A id \in IDs : applications[id] # null =>
        LET c == disk[<<applications[id].rank, id>>]
        IN  \/ c = invalid_error
            \/ c = IF applications[id].app = null THEN disabled_error
                                                  ELSE applications[id].app

\* The ID has one readable file at most: none hides another.
SoleFile(id) ==
    /\ \A r, q \in Ranks : disk[<<r, id>>] # null /\ disk[<<q, id>>] # null => r = q
    /\ \A r \in Ranks : disk[<<r, id>>] # invalid_error

\* The daemon ends up with what a restart would give: when the file system stops
\* changing, the application is the one the constructor would load from it
\* (README.md "automatic desktop file loading/removal"), as long as its file has
\* always been the only one, though it may have moved from one rank to another.  If
\* the kernel has dropped an event, the daemon ends rather than go on without it.
FollowsDisk ==
    \A id \in IDs :
        []SoleFile(id) => <>[](applications[id] = FreshlyLoaded(id) \/ stage = "terminated")

\* The same without that condition, at the moments where no change is under way:
\* "the one with a lower rank takes precedence" (doc/AppManager.md:33).
ConvergedWhenSettled ==
    Settled => \A id \in IDs : applications[id] = FreshlyLoaded(id)

=============================================================================
