--------------------------- MODULE LiveReloadProofs ---------------------------
(***************************************************************************)
(* Proofs about LiveReload.  The daemon only makes calls AppManager is     *)
(* specified for, so what is proved of AppManager holds while files change *)
(* on disk; and no application on offer is stale once the reported changes *)
(* are applied.                                                            *)
(***************************************************************************)
EXTENDS LiveReload, AppManagerProofs, SequenceTheorems

\* What the file system and the kernel's queue hold has its type.
NotifyTypeOK ==
    /\ disk \in [Files -> Contents \cup {null}]
    /\ stage \in {"collect", "load", "run", "terminated"}
    /\ to_load \subseteq Files
    /\ queue \in Seq(Events)
    /\ changes \in Seq(FileChange)
    /\ ops \in 0 .. MaxChanges

\* Reading a file gives what the Application constructor can be called with.
LEMMA ParseType ==
    ASSUME NotifyTypeOK, NEW f \in Files
    PROVE  Parse(f) \in DesktopFile
BY LiveReloadAssumption DEF NotifyTypeOK, Parse, DesktopFile

\* Enqueuing an event, unless it is the last one already: the queue keeps its
\* elements, and it ends with the event or, when it is full, with an overflow.
LEMMA EnqueuedFacts ==
    ASSUME NotifyTypeOK, NEW e \in Events
    PROVE  /\ Enqueued(e) \in Seq(Events)
           /\ Len(queue) <= Len(Enqueued(e))
           /\ \A i \in 1 .. Len(queue) : Enqueued(e)[i] = queue[i]
           /\ \E i \in 1 .. Len(Enqueued(e)) : Enqueued(e)[i] \in {e, Overflow}
<1> DEFINE last == IF Len(queue) < QueueSize THEN e ELSE Overflow
<1>1. last \in Events /\ last \in {e, Overflow}
  BY DEF Events
<1>2. queue \in Seq(Events) /\ Len(queue) \in Nat
  BY DEF NotifyTypeOK
<1>3. Enqueued(e) = IF queue # <<>> /\ queue[Len(queue)] = last THEN queue
                                                               ELSE Append(queue, last)
  BY DEF Enqueued
<1> HIDE DEF last
<1>4. CASE queue # <<>> /\ queue[Len(queue)] = last
  <2>1. Enqueued(e) = queue
    BY <1>3, <1>4
  <2>2. Len(queue) \in 1 .. Len(queue)
    BY <1>2, <1>4, EmptySeq
  <2> QED
    BY <1>1, <1>2, <1>4, <2>1, <2>2
<1>5. CASE ~(queue # <<>> /\ queue[Len(queue)] = last)
  <2>1. Enqueued(e) = Append(queue, last)
    BY <1>3, <1>5
  <2>2. /\ Append(queue, last) \in Seq(Events)
        /\ Len(Append(queue, last)) = Len(queue) + 1
        /\ \A i \in 1 .. Len(queue) : Append(queue, last)[i] = queue[i]
        /\ Append(queue, last)[Len(queue) + 1] = last
    BY <1>1, <1>2, AppendProperties
  <2> QED
    BY <1>1, <1>2, <2>1, <2>2
<1> QED
  BY <1>4, <1>5

\* The changes that getchanges() makes of the events, one by one.
LEMMA GetchangesFacts ==
    ASSUME NotifyTypeOK, getchanges
    PROVE  /\ changes' \in Seq(FileChange) /\ Len(changes') = Len(queue)
           /\ \A i \in 1 .. Len(queue) :
                 /\ queue[i].file \in Files
                 /\ changes'[i].rank = queue[i].file[1]
                 /\ changes'[i].id = queue[i].file[2]
                 /\ changes'[i].status = Status(queue[i].mask)
<1>1. queue \in Seq(Events) /\ Len(queue) \in Nat
  BY DEF NotifyTypeOK
<1>2. \A i \in 1 .. Len(queue) : queue[i].file \in Files
  BY <1>1 DEF getchanges, Overflown, Events
<1>3. \A f \in Files : f[1] \in Ranks /\ f[2] \in IDs
  BY DEF Files
<1> DEFINE c(i) == [rank |-> queue[i].file[1], id |-> queue[i].file[2],
                    status |-> Status(queue[i].mask)]
<1>4. \A i \in 1 .. Len(queue) : c(i) \in FileChange
  BY <1>2, <1>3 DEF FileChange, Status
<1>5. changes' = [i \in 1 .. Len(queue) |-> c(i)]
  BY DEF getchanges
<1>6. /\ \A i \in 1 .. Len(queue) : changes'[i] = c(i)
      /\ DOMAIN changes' = 1 .. Len(queue)
  BY <1>5
<1>7. \A i \in 1 .. Len(queue) :
          /\ c(i).rank = queue[i].file[1]
          /\ c(i).id = queue[i].file[2]
          /\ c(i).status = Status(queue[i].mask)
  OBVIOUS
<1> HIDE DEF c
<1>8. changes' \in Seq(FileChange) /\ Len(changes') = Len(queue)
  BY <1>1, <1>4, <1>5
<1> QED
  BY <1>2, <1>6, <1>7, <1>8

\* Every step of the daemon and of the file system keeps the types.
LEMMA LiveNextType ==
    NotifyTypeOK /\ [LiveNext]_live_vars => NotifyTypeOK'
<1> SUFFICES ASSUME NotifyTypeOK, [LiveNext]_live_vars PROVE NotifyTypeOK'
  OBVIOUS
<1>1. CASE collect_files
  BY <1>1 DEF collect_files, NotifyTypeOK
<1>2. ASSUME NEW f \in Files, LoadFile(f) PROVE NotifyTypeOK'
  BY <1>2 DEF LoadFile, NotifyTypeOK
<1>3. CASE LoadNextRank \/ UNCHANGED live_vars
  BY <1>3 DEF LoadNextRank, notify_vars, live_vars, NotifyTypeOK
<1>4. CASE NotifyCtor \/ getchanges_throws
  BY <1>4 DEF NotifyCtor, getchanges_throws, NotifyTypeOK
<1>5. CASE getchanges
  <2>1. changes' \in Seq(FileChange)
    BY <1>5, GetchangesFacts
  <2>2. queue' \in Seq(Events)
    BY <1>5 DEF getchanges
  <2> QED BY <1>5, <2>1, <2>2 DEF getchanges, NotifyTypeOK
<1>6. CASE ApplyChange
  <2>1. Tail(changes) \in Seq(FileChange)
    BY <1>6, HeadTailProperties DEF ApplyChange, NotifyTypeOK
  <2> QED BY <1>6, <2>1 DEF ApplyChange, NotifyTypeOK
<1>7. ASSUME NEW f \in Files, NEW mask \in FsOps, NEW content \in Contents \cup {null},
             FsChange(f, mask, content)
      PROVE  NotifyTypeOK'
  <2>1. queue' \in Seq(Events)
    <3>1. [file |-> f, mask |-> mask] \in Events
      BY LiveReloadAssumption DEF Events
    <3>2. Enqueued([file |-> f, mask |-> mask]) \in Seq(Events)
      BY <3>1, EnqueuedFacts
    <3> QED BY <1>7, <3>2 DEF FsChange, Notified, NotifyTypeOK
  <2>2. ops' \in 0 .. MaxChanges
    BY <1>7, LiveReloadAssumption DEF FsChange, NotifyTypeOK
  <2> QED BY <1>7, <2>1, <2>2 DEF FsChange, NotifyTypeOK
<1> QED
  BY <1>1, <1>2, <1>3, <1>4, <1>5, <1>6, <1>7 DEF LiveNext, Program

\* The daemon calls AppManager only the way AppManager's specification allows.
LEMMA LiveNextIsNext ==
    NotifyTypeOK /\ [LiveNext]_live_vars => [Next]_vars
<1> SUFFICES ASSUME NotifyTypeOK, [LiveNext]_live_vars PROVE [Next]_vars
  OBVIOUS
<1>1. CASE UNCHANGED vars
  BY <1>1
<1>2. ASSUME NEW f \in Files, LoadFile(f) PROVE Next
  <2>1. f[2] \in IDs
    BY DEF Files
  <2> QED BY <1>2, <2>1, ParseType DEF LoadFile, Next
<1>3. CASE LoadNextRank
  BY <1>3 DEF LoadNextRank, Next
<1>4. CASE ApplyChange
  <2> DEFINE c == Head(changes)
  <2>1. c.id \in IDs /\ c.rank \in Ranks /\ <<c.rank, c.id>> \in Files
    <3>1. c \in FileChange
      BY <1>4, HeadTailProperties DEF ApplyChange, NotifyTypeOK
    <3> QED BY <3>1 DEF FileChange, Files
  <2>2. \/ add(c.id, c.rank, Parse(<<c.rank, c.id>>))
        \/ remove(c.id)
    BY <1>4 DEF ApplyChange
  <2> HIDE DEF c
  <2> QED BY <2>1, <2>2, ParseType DEF Next
<1> QED
  BY <1>1, <1>2, <1>3, <1>4
  DEF LiveNext, Program, collect_files, NotifyCtor, getchanges, getchanges_throws,
      FsChange, live_vars

\* What the daemon and the file system do is, to AppManager, one of the sequences
\* of calls it is specified for.
LEMMA LiveIsSpec == LiveSpec => Spec /\ []NotifyTypeOK
<1>1. LiveInit => Init /\ NotifyTypeOK
  <2> SUFFICES ASSUME LiveInit PROVE NotifyTypeOK
    BY DEF LiveInit
  <2>1. <<>> \in Seq(Events) /\ <<>> \in Seq(FileChange)
    OBVIOUS
  <2>2. 0 \in 0 .. MaxChanges
    BY LiveReloadAssumption
  <2> QED BY <2>1, <2>2 DEF LiveInit, NotifyTypeOK
<1> QED
  BY <1>1, LiveNextType, LiveNextIsNext, PTL DEF LiveSpec, Spec

-----------------------------------------------------------------------------
\* Type correctness of the daemon with the file system and the kernel's queue.
THEOREM LiveTypeCorrect == LiveSpec => []LiveTypeOK
<1>1. TypeOK /\ NotifyTypeOK => LiveTypeOK
  BY DEF LiveTypeOK, NotifyTypeOK
<1> QED
  BY <1>1, LiveIsSpec, TypeCorrect, PTL

\* While files come, go and change under the running daemon, the mapping of
\* the menu's names always fits the applications.
THEOREM LiveMappingFits == LiveSpec => []MappingFits
<1> QED
  BY LiveIsSpec, MappingAlwaysFits, PTL

\* No order of file changes makes the daemon abort() but for an application
\* whose Name is also its GenericName.
THEOREM LiveAborts == LiveSpec => []AbortOnlyOnRepeatedName
<1> QED
  BY LiveIsSpec, AbortsOnlyOnRepeatedName, PTL

-----------------------------------------------------------------------------
\* The application of element id is the one in the file it was loaded from.
Matches(id) ==
    LET c == disk[<<applications[id].rank, id>>]
    IN  \/ c = invalid_error
        \/ c = IF applications[id].app = null THEN disabled_error
                                              ELSE applications[id].app

\* A deletion of a file with this ID is on its way.
DeletionPending(id) ==
    \/ \E i \in 1 .. Len(changes) : changes[i].id = id /\ changes[i].status = "deleted"
    \/ \E i \in 1 .. Len(queue) :
          queue[i].file[2] = id /\ Status(queue[i].mask) = "deleted"

\* A change of this file is on its way.
ChangePending(r, id) ==
    \/ \E i \in 1 .. Len(changes) : changes[i].id = id /\ changes[i].rank = r
    \/ \E i \in 1 .. Len(queue) : queue[i].file = <<r, id>>

\* What is not as in its file will be looked at again: removed, or read anew.
Tracked(id) ==
    \/ Matches(id)
    \/ DeletionPending(id)
    \/ /\ disk[<<applications[id].rank, id>>] # null
       /\ ChangePending(applications[id].rank, id)

StaleInv ==
    /\ stage \in {"collect", "load"} =>
          /\ queue = <<>> /\ changes = <<>>
          /\ \A id \in IDs : applications[id] # null => Matches(id)
    /\ stage = "run" /\ ~aborted /\ ~Overflown =>
          \A id \in IDs : applications[id] # null => Tracked(id)

\* Nothing changes before the watches are set up, and no file is renamed into or
\* out of a subdirectory, whose watch does not report renames.
AllReported ==
    /\ QuietStart
    /\ \A id \in IDs : FsOps \subseteq WatchMask(id) \cup {"IN_CREATE"}

\* An application just read from its file is the one in the file.
LEMMA ReadMatches ==
    ASSUME NotifyTypeOK, NEW r \in Ranks, NEW id \in IDs, NEW file,
           file = Parse(<<r, id>>), file # invalid_error, disk' = disk,
           applications'[id] = [app |-> IF file = disabled_error THEN null ELSE file,
                                rank |-> r]
    PROVE  Matches(id)'
<1>1. <<r, id>> \in Files
  BY DEF Files
<1>2. file = disk[<<r, id>>] /\ file # null
  BY <1>1 DEF Parse
<1>3. /\ applications'[id].rank = r
      /\ applications'[id].app = IF file = disabled_error THEN null ELSE file
  OBVIOUS
<1> QED
  BY <1>2, <1>3 DEF Matches

\* An application that stays as it is still matches a file that stays as it is.
LEMMA StillMatches ==
    ASSUME NEW id \in IDs, applications'[id] = applications[id], disk' = disk
    PROVE  Matches(id)' <=> Matches(id)
BY DEF Matches

\* The startup loads what is in the files.
LEMMA LoadFileStale ==
    ASSUME Inv, NotifyTypeOK, StaleInv, NEW f \in Files, LoadFile(f)
    PROVE  StaleInv'
<1> DEFINE id == f[2]
           file == Parse(f)
<1>1. /\ f[1] \in Ranks /\ id \in IDs /\ f = <<f[1], id>> /\ f[1] = loading
  BY DEF Files, LoadFile
<1>2. file \in DesktopFile /\ ctor_load(id, file)
  BY ParseType DEF LoadFile
<1>3. /\ stage = "load" /\ stage' = "load" /\ disk' = disk
      /\ queue' = queue /\ changes' = changes
  BY DEF LoadFile
<1>4. ASSUME NEW j \in IDs, applications'[j] # null
      PROVE  Matches(j)'
  <2>1. CASE applications'[j] = applications[j]
    BY <1>3, <1>4, <2>1, StillMatches DEF StaleInv
  <2>2. CASE applications'[j] # applications[j]
    <3>1. applications \in [IDs -> Managed_application \cup {null}]
      BY DEF Inv, TypeOK
    <3>2. /\ j = id /\ file # invalid_error
          /\ \/ file = disabled_error /\ applications'[id] = [app |-> null, rank |-> loading]
             \/ file \in Application /\ applications'[id] = [app |-> file, rank |-> loading]
      <4> HIDE DEF file, id
      <4> QED BY <1>1, <1>2, <2>2, <3>1 DEF ctor_load, Skipped
    <3>3. applications'[id] = [app |-> IF file = disabled_error THEN null ELSE file,
                               rank |-> f[1]]
      <4> HIDE DEF file, id
      <4> QED BY <1>1, <3>2, ErrorsAssumption
    <3>4. file = Parse(<<f[1], id>>)
      BY <1>1
    <3> HIDE DEF file, id
    <3> QED BY <1>1, <1>3, <3>2, <3>3, <3>4, ReadMatches
  <2> QED BY <2>1, <2>2
<1> QED
  BY <1>3, <1>4 DEF StaleInv

-----------------------------------------------------------------------------
\* getchanges() loses nothing: what was pending in the queue is a pending change.
LEMMA GetchangesPending ==
    ASSUME NotifyTypeOK, getchanges, NEW id \in IDs
    PROVE  /\ DeletionPending(id) => DeletionPending(id)'
           /\ \A r \in Ranks : ChangePending(r, id) => ChangePending(r, id)'
<1>1. changes = <<>> /\ Len(changes) = 0
  BY DEF getchanges
<1>2. /\ Len(changes') = Len(queue)
      /\ \A i \in 1 .. Len(queue) :
            /\ changes'[i].rank = queue[i].file[1]
            /\ changes'[i].id = queue[i].file[2]
            /\ changes'[i].status = Status(queue[i].mask)
  BY GetchangesFacts
<1>3. DeletionPending(id) => DeletionPending(id)'
  BY <1>1, <1>2 DEF DeletionPending
<1>4. \A r \in Ranks : ChangePending(r, id) => ChangePending(r, id)'
  BY <1>1, <1>2 DEF ChangePending
<1> QED
  BY <1>3, <1>4

\* Of the pending changes only the first is done with when it has been applied.
LEMMA TailPending ==
    ASSUME NotifyTypeOK, ApplyChange, NEW id \in IDs
    PROVE  /\ DeletionPending(id) =>
                \/ Head(changes).id = id /\ Head(changes).status = "deleted"
                \/ DeletionPending(id)'
           /\ \A r \in Ranks : ChangePending(r, id) =>
                \/ Head(changes).id = id /\ Head(changes).rank = r
                \/ ChangePending(r, id)'
<1>1. /\ changes \in Seq(FileChange) /\ changes # <<>>
      /\ changes' = Tail(changes) /\ queue' = queue
  BY DEF NotifyTypeOK, ApplyChange
<1>2. /\ Head(changes) = changes[1] /\ Len(changes) \in Nat \ {0}
      /\ Len(changes') = Len(changes) - 1
      /\ \A i \in 1 .. Len(changes') : changes'[i] = changes[i + 1]
  BY <1>1, HeadTailProperties
<1>3. \A i \in 1 .. Len(changes) :
          \/ i = 1
          \/ i - 1 \in 1 .. Len(changes') /\ changes'[i - 1] = changes[i]
  BY <1>2
<1>4. DeletionPending(id) => \/ Head(changes).id = id /\ Head(changes).status = "deleted"
                             \/ DeletionPending(id)'
  BY <1>1, <1>2, <1>3 DEF DeletionPending
<1>5. \A r \in Ranks : ChangePending(r, id) =>
          \/ Head(changes).id = id /\ Head(changes).rank = r
          \/ ChangePending(r, id)'
  BY <1>1, <1>2, <1>3 DEF ChangePending
<1> QED
  BY <1>4, <1>5

\* An event is pending once it is in the queue, and the earlier ones stay there.
LEMMA EnqueuedPending ==
    ASSUME NotifyTypeOK, NEW f \in Files, NEW mask \in Masks,
           queue' = Enqueued([file |-> f, mask |-> mask]), changes' = changes,
           ~Overflown'
    PROVE  /\ ~Overflown
           /\ ChangePending(f[1], f[2])'
           /\ Status(mask) = "deleted" => DeletionPending(f[2])'
           /\ \A id \in IDs : DeletionPending(id) => DeletionPending(id)'
           /\ \A id \in IDs, r \in Ranks : ChangePending(r, id) => ChangePending(r, id)'
<1> DEFINE e == [file |-> f, mask |-> mask]
<1>1. e \in Events /\ e.file = f /\ e.mask = mask /\ f = <<f[1], f[2]>>
  BY DEF Events, Files
<1> HIDE DEF e
<1>2. /\ Len(queue) <= Len(queue') /\ Len(queue) \in Nat /\ Len(queue') \in Nat
      /\ \A i \in 1 .. Len(queue) : queue'[i] = queue[i]
      /\ \E i \in 1 .. Len(queue') : queue'[i] \in {e, Overflow}
  <2>1. queue' = Enqueued(e)
    BY DEF e
  <2>2. /\ queue' \in Seq(Events) /\ Len(queue) <= Len(queue')
        /\ \A i \in 1 .. Len(queue) : queue'[i] = queue[i]
        /\ \E i \in 1 .. Len(queue') : queue'[i] \in {e, Overflow}
    BY <1>1, <2>1, EnqueuedFacts, Zenon
  <2>3. Len(queue) \in Nat /\ Len(queue') \in Nat
    BY <2>2, LenProperties DEF NotifyTypeOK
  <2> QED BY <2>2, <2>3
<1>3. \A i \in 1 .. Len(queue') : queue'[i] # Overflow
  BY DEF Overflown, Overflow
<1>4. PICK k \in 1 .. Len(queue') : queue'[k] = e
  BY <1>2, <1>3
<1>5. \A i \in 1 .. Len(queue) : i \in 1 .. Len(queue') /\ queue'[i] = queue[i]
  BY <1>2
<1>6. ~Overflown
  BY <1>3, <1>5 DEF Overflown
<1>7. ChangePending(f[1], f[2])' /\ (Status(mask) = "deleted" => DeletionPending(f[2])')
  BY <1>1, <1>4 DEF ChangePending, DeletionPending
<1>8. /\ \A id \in IDs : DeletionPending(id) => DeletionPending(id)'
      /\ \A id \in IDs, r \in Ranks : ChangePending(r, id) => ChangePending(r, id)'
  BY <1>5 DEF ChangePending, DeletionPending
<1> QED
  BY <1>6, <1>7, <1>8

-----------------------------------------------------------------------------
\* Applying a change: a deletion empties the element, whatever the rank of the
\* deleted file; an addition reads the file anew, or it leaves the element alone if
\* it is of a lower rank or the file cannot be read.
LEMMA ApplyChangeEffect ==
    ASSUME NotifyTypeOK, Inv, ApplyChange, ~aborted'
    PROVE  LET c == Head(changes)
               file == Parse(<<c.rank, c.id>>)
           IN  /\ c \in FileChange
               /\ \A j \in IDs \ {c.id} : applications'[j] = applications[j]
               /\ c.status = "deleted" => applications'[c.id] = null
               /\ c.status = "modified" =>
                    \/ /\ applications'[c.id] = applications[c.id]
                       /\ \/ applications[c.id] # null /\ applications[c.id].rank < c.rank
                          \/ file = invalid_error
                    \/ /\ file # invalid_error
                       /\ applications'[c.id] =
                            [app |-> IF file = disabled_error THEN null ELSE file,
                             rank |-> c.rank]
<1> DEFINE c == Head(changes)
           file == Parse(<<c.rank, c.id>>)
           new == [app |-> IF file = disabled_error THEN null ELSE file, rank |-> c.rank]
<1>1. c \in FileChange /\ c.id \in IDs
  <2>1. c \in FileChange
    BY HeadTailProperties DEF ApplyChange, NotifyTypeOK
  <2> QED BY <2>1 DEF FileChange
<1>2. applications \in [IDs -> Managed_application \cup {null}]
  BY DEF Inv, TypeOK
<1>3. CASE c.status = "modified"
  <2>1. add(c.id, c.rank, file)
    BY <1>3 DEF ApplyChange
  <2>2. CASE /\ applications' = applications
             /\ \/ applications[c.id] # null /\ applications[c.id].rank < c.rank
                \/ file = invalid_error
    BY <1>1, <1>3, <2>2
  <2>3. CASE file # invalid_error /\ applications' = [applications EXCEPT ![c.id] = new]
    <3>1. applications'[c.id] = new /\ \A j \in IDs \ {c.id} : applications'[j] = applications[j]
      <4> HIDE DEF c, new
      <4> QED BY <1>1, <1>2, <2>3
    <3> QED BY <1>1, <1>3, <2>3, <3>1
  <2>4. \/ /\ applications' = applications
           /\ \/ applications[c.id] # null /\ applications[c.id].rank < c.rank
              \/ file = invalid_error
        \/ file # invalid_error /\ applications' = [applications EXCEPT ![c.id] = new]
    <3> HIDE DEF file, c
    <3> QED BY <2>1 DEF add, Commit
  <2> QED BY <2>2, <2>3, <2>4
<1>4. CASE c.status = "deleted"
  <2>1. remove(c.id)
    BY <1>4 DEF ApplyChange
  <2>2. \/ applications[c.id] = null /\ applications' = applications
        \/ applications' = [applications EXCEPT ![c.id] = null]
    <3> HIDE DEF c
    <3> QED BY <2>1 DEF remove, Commit
  <2>3. applications'[c.id] = null /\ \A j \in IDs \ {c.id} : applications'[j] = applications[j]
    <3> HIDE DEF c
    <3> QED BY <1>1, <1>2, <2>2
  <2> QED BY <1>1, <1>4, <2>3
<1>5. c.status \in {"modified", "deleted"}
  BY <1>1 DEF FileChange
<1> QED
  BY <1>3, <1>4, <1>5

\* An application is still tracked after a change is applied: what is pending for
\* it stays pending, unless it has just been removed or read.
LEMMA ApplyChangeStale ==
    ASSUME Inv, NotifyTypeOK, StaleInv, ApplyChange
    PROVE  StaleInv'
<1> DEFINE c == Head(changes)
           file == Parse(<<c.rank, c.id>>)
<1>1. /\ changes # <<>> /\ disk' = disk /\ stage' = stage /\ queue' = queue
      /\ ~aborted
  BY DEF ApplyChange, add, remove, Running
<1>2. stage \notin {"collect", "load"}
  BY <1>1 DEF StaleInv
<1>3. ASSUME stage = "run", ~aborted', ~Overflown, NEW j \in IDs, applications'[j] # null
      PROVE  Tracked(j)'
  <2>1. /\ c \in FileChange
        /\ j # c.id => applications'[j] = applications[j]
        /\ c.status = "deleted" => applications'[c.id] = null
        /\ c.status = "modified" =>
             \/ /\ applications'[c.id] = applications[c.id]
                /\ \/ applications[c.id] # null /\ applications[c.id].rank < c.rank
                   \/ file = invalid_error
             \/ /\ file # invalid_error
                /\ applications'[c.id] =
                     [app |-> IF file = disabled_error THEN null ELSE file, rank |-> c.rank]
    BY <1>3, ApplyChangeEffect
  <2>2. c.id \in IDs /\ c.rank \in Ranks /\ c.status \in {"modified", "deleted"}
    BY <2>1 DEF FileChange
  <2>3. /\ DeletionPending(j) => \/ c.id = j /\ c.status = "deleted"
                                 \/ DeletionPending(j)'
        /\ \A r \in Ranks : ChangePending(r, j) => \/ c.id = j /\ c.rank = r
                                                   \/ ChangePending(r, j)'
    BY TailPending
  <2> HIDE DEF c
  <2>4. CASE applications'[j] = applications[j]
    <3> DEFINE r == applications[j].rank
    <3>1. r \in Ranks /\ Tracked(j)
      BY <1>1, <1>3, <2>4 DEF StaleInv, Inv, TypeOK, Managed_application
    <3>2. CASE Matches(j)
      BY <1>1, <2>4, <3>2, StillMatches DEF Tracked
    <3>3. CASE DeletionPending(j)
      BY <1>3, <2>1, <2>3, <3>3 DEF Tracked
    <3>4. CASE disk[<<r, j>>] # null /\ ChangePending(r, j)
      <4>1. CASE c.id = j /\ c.rank = r
        <5>1. c.status = "modified"
          BY <1>3, <2>1, <2>2, <4>1
        <5>2. CASE file = invalid_error
          <6>1. disk[<<r, j>>] = invalid_error
            BY <3>4, <4>1, <5>2 DEF Parse
          <6> QED BY <1>1, <2>4, <6>1 DEF Tracked, Matches
        <5>3. CASE file # invalid_error
          <6>1. ~(r < c.rank)
            BY <3>1, <4>1, ConstantsAssumption DEF Ranks
          <6>2. applications'[j] = [app |-> IF file = disabled_error THEN null ELSE file,
                                    rank |-> r]
            BY <2>1, <4>1, <5>1, <5>3, <6>1
          <6>3. file = Parse(<<r, j>>)
            BY <4>1
          <6> HIDE DEF file, r
          <6>4. Matches(j)'
            BY <1>1, <3>1, <5>3, <6>2, <6>3, ReadMatches
          <6> QED BY <6>4 DEF Tracked
        <5> QED BY <5>2, <5>3
      <4>2. CASE ~(c.id = j /\ c.rank = r)
        <5>1. PICK q \in Ranks : q = r
          BY <3>1
        <5>2. ChangePending(q, j)'
          BY <2>3, <3>4, <4>2, <5>1
        <5> QED BY <1>1, <2>4, <3>4, <5>1, <5>2 DEF Tracked
      <4> QED BY <4>1, <4>2
    <3> QED BY <3>1, <3>2, <3>3, <3>4 DEF Tracked
  <2>5. CASE applications'[j] # applications[j]
    <3>1. /\ j = c.id /\ file # invalid_error
          /\ applications'[j] = [app |-> IF file = disabled_error THEN null ELSE file,
                                 rank |-> c.rank]
      <4> HIDE DEF file
      <4> QED BY <1>3, <2>1, <2>2, <2>5
    <3>2. file = Parse(<<c.rank, j>>)
      BY <3>1
    <3> HIDE DEF file
    <3>3. Matches(j)'
      BY <1>1, <2>2, <3>1, <3>2, ReadMatches
    <3> QED BY <3>3 DEF Tracked
  <2> QED BY <2>4, <2>5
<1>4. Overflown' <=> Overflown
  BY <1>1 DEF Overflown
<1> QED
  BY <1>1, <1>2, <1>3, <1>4 DEF StaleInv

\* A change on disk is reported, or it creates the link to a file: then nothing is
\* on offer from it that is not about to be removed.
LEMMA FsChangeStale ==
    ASSUME AllReported, Inv, NotifyTypeOK, StaleInv, NEW f \in Files, NEW mask \in FsOps,
           NEW content \in Contents \cup {null}, FsChange(f, mask, content)
    PROVE  StaleInv'
<1>1. /\ stage = "run" /\ stage' = "run" /\ disk' = [disk EXCEPT ![f] = content]
      /\ applications' = applications /\ aborted' = aborted /\ changes' = changes
  BY DEF FsChange, AllReported, vars
<1>2. /\ disk \in [Files -> Contents \cup {null}] /\ mask \in Masks
      /\ f = <<f[1], f[2]>> /\ f[1] \in Ranks /\ f[2] \in IDs
  BY LiveReloadAssumption DEF NotifyTypeOK, Files
<1>3. ASSUME ~aborted, ~Overflown', NEW j \in IDs, applications[j] # null
      PROVE  Tracked(j)'
  <2>1. PICK r \in Ranks : r = applications[j].rank
    BY <1>3 DEF Inv, TypeOK, Managed_application
  <2>2. <<r, j>> \in Files
    BY DEF Files
  <2>3. CASE mask = "IN_CREATE"
    <3>1. queue' = queue /\ disk[f] = null
      BY <2>3 DEF FsChange, Notified, WatchMask
    <3>2. Tracked(j) /\ (DeletionPending(j) => DeletionPending(j)')
      BY <1>1, <1>3, <3>1 DEF StaleInv, Overflown, DeletionPending
    <3>3. CASE f = <<r, j>>
      <4>1. ~Matches(j)
        BY <2>1, <3>1, <3>3, ErrorsAssumption DEF Matches
      <4> QED BY <2>1, <3>1, <3>2, <3>3, <4>1 DEF Tracked
    <3>4. CASE f # <<r, j>>
      <4>1. disk'[<<r, j>>] = disk[<<r, j>>]
        BY <1>1, <1>2, <2>2, <3>4
      <4>2. Matches(j)' <=> Matches(j)
        BY <1>1, <2>1, <4>1 DEF Matches
      <4>3. ChangePending(r, j)' <=> ChangePending(r, j)
        BY <1>1, <3>1 DEF ChangePending
      <4> QED BY <1>1, <2>1, <3>2, <4>1, <4>2, <4>3 DEF Tracked
    <3> QED BY <3>3, <3>4
  <2>4. CASE mask # "IN_CREATE"
    <3>1. queue' = Enqueued([file |-> f, mask |-> mask])
      BY <1>1, <1>2, <2>4 DEF FsChange, Notified, AllReported
    <3>2. /\ ~Overflown
          /\ ChangePending(f[1], f[2])'
          /\ Status(mask) = "deleted" => DeletionPending(f[2])'
          /\ DeletionPending(j) => DeletionPending(j)'
          /\ ChangePending(r, j) => ChangePending(r, j)'
      BY <1>1, <1>2, <1>3, <3>1, EnqueuedPending
    <3>3. Tracked(j)
      BY <1>1, <1>3, <3>2 DEF StaleInv
    <3>4. CASE f = <<r, j>>
      <4>1. f[1] = r /\ f[2] = j
        BY <3>4
      <4>2. CASE mask \in Removals
        <5>1. Status(mask) = "deleted"
          BY <4>2 DEF Removals, Status
        <5> QED BY <3>2, <4>1, <5>1 DEF Tracked
      <4>3. CASE mask \notin Removals
        <5>1. disk'[<<r, j>>] # null
          BY <1>1, <1>2, <3>4, <4>3, LiveReloadAssumption DEF FsChange
        <5>2. ChangePending(r, j)'
          BY <3>2, <4>1
        <5> QED BY <1>1, <2>1, <5>1, <5>2 DEF Tracked
      <4> QED BY <4>2, <4>3
    <3>5. CASE f # <<r, j>>
      <4>1. disk'[<<r, j>>] = disk[<<r, j>>]
        BY <1>1, <1>2, <2>2, <3>5
      <4>2. Matches(j)' <=> Matches(j)
        BY <1>1, <2>1, <4>1 DEF Matches
      <4> QED BY <1>1, <2>1, <3>2, <3>3, <4>1, <4>2 DEF Tracked
    <3> QED BY <3>4, <3>5
  <2> QED BY <2>3, <2>4
<1> QED
  BY <1>1, <1>3 DEF StaleInv

\* Every step keeps the applications tracked.
LEMMA LiveNextStale ==
    ASSUME AllReported
    PROVE  Inv /\ NotifyTypeOK /\ StaleInv /\ [LiveNext]_live_vars => StaleInv'
<1> SUFFICES ASSUME Inv, NotifyTypeOK, StaleInv, [LiveNext]_live_vars PROVE StaleInv'
  OBVIOUS
<1>1. CASE collect_files
  BY <1>1 DEF collect_files, vars, StaleInv, Matches
<1>2. ASSUME NEW f \in Files, LoadFile(f) PROVE StaleInv'
  BY <1>2, LoadFileStale
<1>3. CASE LoadNextRank
  <2>1. /\ UNCHANGED <<applications, disk, queue, changes>>
        /\ stage = "load" /\ stage' = "load"
    BY <1>3 DEF LoadNextRank, ctor_next_rank, notify_vars
  <2> QED BY <2>1 DEF StaleInv, Matches
<1>4. CASE NotifyCtor
  <2>1. /\ UNCHANGED <<applications, disk>>
        /\ stage = "load" /\ stage' = "run"
    BY <1>4 DEF NotifyCtor, vars
  <2> QED BY <2>1 DEF StaleInv, Matches, Tracked
<1>5. CASE getchanges_throws
  BY <1>5 DEF getchanges_throws, StaleInv
<1>6. CASE getchanges
  <2>1. /\ UNCHANGED <<applications, aborted, disk, stage>> /\ stage = "run"
        /\ ~Overflown /\ ~aborted
    BY <1>6 DEF getchanges, vars
  <2>2. ASSUME NEW j \in IDs, applications[j] # null PROVE Tracked(j)'
    <3>1. PICK r \in Ranks : r = applications[j].rank
      BY <2>2 DEF Inv, TypeOK, Managed_application
    <3>2. /\ DeletionPending(j) => DeletionPending(j)'
          /\ ChangePending(r, j) => ChangePending(r, j)'
      BY <1>6, GetchangesPending
    <3>3. Matches(j)' <=> Matches(j)
      BY <2>1, StillMatches
    <3>4. Tracked(j)
      BY <2>1, <2>2 DEF StaleInv
    <3> QED BY <2>1, <3>1, <3>2, <3>3, <3>4 DEF Tracked
  <2> QED BY <2>1, <2>2 DEF StaleInv
<1>7. CASE ApplyChange
  BY <1>7, ApplyChangeStale
<1>8. ASSUME NEW f \in Files, NEW mask \in FsOps, NEW content \in Contents \cup {null},
             FsChange(f, mask, content)
      PROVE  StaleInv'
  BY <1>8, FsChangeStale
<1>9. CASE UNCHANGED live_vars
  BY <1>9 DEF live_vars, vars, notify_vars, StaleInv, Matches, Tracked, DeletionPending,
              ChangePending, Overflown
<1> QED
  BY <1>1, <1>2, <1>3, <1>4, <1>5, <1>6, <1>7, <1>8, <1>9 DEF LiveNext, Program

\* Once the reported changes are applied, an application on offer is the one in
\* its file, for any number of files, directories and changes, any order and delay of
\* the events, and any queue size: the queue may overflow (the daemon then ends), a
\* file may change again after its event, and links may appear unreported.
THEOREM NeverStale == ASSUME AllReported PROVE LiveSpec => []NothingStale
<1>1. LiveInit => StaleInv
  BY DEF LiveInit, Init, StaleInv
<1>2. Inv /\ NotifyTypeOK /\ StaleInv => NothingStale
  <2> SUFFICES ASSUME StaleInv, Settled, NEW id \in IDs, applications[id] # null
               PROVE  Matches(id)
    BY DEF NothingStale, Matches
  <2>1. Len(queue) = 0 /\ Len(changes) = 0
    BY DEF Settled
  <2>2. ~DeletionPending(id) /\ ~ChangePending(applications[id].rank, id) /\ ~Overflown
    BY <2>1 DEF DeletionPending, ChangePending, Overflown
  <2> QED
    BY <2>2 DEF StaleInv, Settled, Tracked
<1> QED
  BY <1>1, <1>2, LiveIsSpec, AlwaysInv, LiveNextStale, PTL DEF LiveSpec

=============================================================================
