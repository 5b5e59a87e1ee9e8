-------------------------- MODULE NotifyKqueueProofs --------------------------
(***************************************************************************)
(* Proofs about the thread of NotifyKqueue and the queue it shares with    *)
(* the main thread, for any directories, files and interleaving.           *)
(***************************************************************************)
EXTENDS NotifyKqueue, FiniteSetTheorems, SequenceTheorems, TLAPS

DirsType == [Dirs -> SUBSET Files]

\* The changes in todo that are about file f of directory d.
Of(todo, d, f) == {i \in DOMAIN todo : todo[i].dir = d /\ todo[i].name = f}

\* What Applied() says of one file.
LEMMA AppliedFile ==
    ASSUME NEW dirs, NEW todo
    PROVE  /\ Applied(dirs, todo) \in DirsType
           /\ \A d \in Dirs, f \in Files :
                 f \in Applied(dirs, todo)[d] <=>
                     IF Of(todo, d, f) = {} THEN f \in dirs[d]
                     ELSE \E i \in Of(todo, d, f) :
                             todo[i].status = "modified" /\ \A j \in Of(todo, d, f) : j <= i
BY DEF Applied, Of, DirsType

\* Two mappings of directories are the same if they have the same files.
LEMMA SameDirs ==
    ASSUME NEW a \in DirsType, NEW b \in DirsType,
           \A d \in Dirs, f \in Files : f \in a[d] <=> f \in b[d]
    PROVE  a = b
<1>1. \A d \in Dirs : a[d] = b[d]
  BY DEF DirsType
<1> QED
  BY <1>1 DEF DirsType

\* No changes, no difference.
LEMMA AppliedNothing ==
    ASSUME NEW dirs \in DirsType
    PROVE  Applied(dirs, <<>>) = dirs
<1>1. \A d \in Dirs, f \in Files : Of(<<>>, d, f) = {}
  BY DEF Of
<1> QED
  BY <1>1, AppliedFile, SameDirs

\* Changes can be applied in portions.
LEMMA AppliedConcat ==
    ASSUME NEW dirs \in DirsType, NEW s \in Seq(FileChange), NEW t \in Seq(FileChange)
    PROVE  Applied(dirs, s \o t) = Applied(Applied(dirs, s), t)
<1> DEFINE u == s \o t
           m == Len(s)
<1>1. /\ u \in Seq(FileChange) /\ Len(u) = m + Len(t) /\ m \in Nat /\ Len(t) \in Nat
      /\ \A i \in 1 .. m : u[i] = s[i]
      /\ \A i \in 1 .. Len(t) : u[m + i] = t[i]
      /\ DOMAIN u = 1 .. Len(u) /\ DOMAIN s = 1 .. m /\ DOMAIN t = 1 .. Len(t)
  BY ConcatProperties, LenProperties
<1> HIDE DEF u, m
<1>2. SUFFICES ASSUME NEW d \in Dirs, NEW f \in Files
               PROVE  f \in Applied(dirs, u)[d] <=> f \in Applied(Applied(dirs, s), t)[d]
  BY AppliedFile, SameDirs DEF u
<1>3. /\ \A i \in Of(s, d, f) : i \in Nat /\ i <= m /\ i \in Of(u, d, f) /\ u[i] = s[i]
      /\ \A i \in Of(t, d, f) : i \in Nat /\ i > 0 /\ m + i \in Of(u, d, f) /\ u[m + i] = t[i]
  BY <1>1 DEF Of
<1>4. \A i \in Of(u, d, f) :
         /\ i \in Nat
         /\ i <= m => i \in Of(s, d, f)
         /\ i > m => i - m \in Of(t, d, f) /\ m + (i - m) = i
  <2> SUFFICES ASSUME NEW i \in Of(u, d, f)
               PROVE  /\ i \in Nat
                      /\ i <= m => i \in Of(s, d, f)
                      /\ i > m => i - m \in Of(t, d, f) /\ m + (i - m) = i
    OBVIOUS
  <2>1. i \in 1 .. m + Len(t) /\ u[i].dir = d /\ u[i].name = f
    BY <1>1 DEF Of
  <2>2. CASE i <= m
    BY <1>1, <2>1, <2>2 DEF Of
  <2>3. CASE i > m
    <3>1. i - m \in 1 .. Len(t) /\ m + (i - m) = i
      BY <1>1, <2>1, <2>3
    <3>2. t[i - m] = u[i]
      BY <1>1, <3>1
    <3> QED BY <1>1, <2>1, <2>3, <3>1, <3>2 DEF Of
  <2> QED BY <1>1, <2>1, <2>2, <2>3
<1>5. CASE Of(t, d, f) = {}
  <2>1. Of(u, d, f) = Of(s, d, f)
    <3>1. \A i \in Of(u, d, f) : i \in Of(s, d, f)
      BY <1>1, <1>4, <1>5
    <3>2. \A i \in Of(s, d, f) : i \in Of(u, d, f)
      BY <1>3
    <3> QED BY <3>1, <3>2
  <2>2. \A i \in Of(s, d, f) : u[i] = s[i]
    BY <1>3
  <2> QED BY <1>5, <2>1, <2>2, AppliedFile
<1>6. CASE Of(t, d, f) # {}
  <2>1. Of(u, d, f) # {}
    BY <1>3, <1>6
  <2>2. ASSUME NEW i \in Of(t, d, f), t[i].status = "modified", \A j \in Of(t, d, f) : j <= i
        PROVE  \E k \in Of(u, d, f) : u[k].status = "modified" /\ \A j \in Of(u, d, f) : j <= k
    <3>1. m + i \in Of(u, d, f) /\ u[m + i].status = "modified"
      BY <1>3, <2>2
    <3>2. \A j \in Of(u, d, f) : j <= m + i
      BY <1>1, <1>3, <1>4, <2>2
    <3> QED BY <3>1, <3>2
  <2>3. ASSUME NEW k \in Of(u, d, f), u[k].status = "modified", \A j \in Of(u, d, f) : j <= k
        PROVE  \E i \in Of(t, d, f) : t[i].status = "modified" /\ \A j \in Of(t, d, f) : j <= i
    <3>1. k > m
      BY <1>1, <1>3, <1>4, <1>6, <2>3
    <3>2. k - m \in Of(t, d, f) /\ m + (k - m) = k
      BY <1>4, <3>1
    <3>3. t[k - m].status = "modified"
      BY <1>3, <2>3, <3>2
    <3>4. \A j \in Of(t, d, f) : j <= k - m
      BY <1>1, <1>3, <1>4, <2>3
    <3> QED BY <3>2, <3>3, <3>4
  <2> QED BY <1>6, <2>1, <2>2, <2>3, AppliedFile
<1> QED
  BY <1>5, <1>6

-----------------------------------------------------------------------------
\* The differences the thread pushes name every file of the set once.
LEMMA DifferencesFacts ==
    ASSUME NEW N \in SUBSET Files, cur \in Dirs, NEW status \in {"modified", "deleted"},
           NEW q \in Differences(status, N)
    PROVE  /\ q \in Seq(FileChange)
           /\ \A i \in DOMAIN q : q[i].dir = cur /\ q[i].name \in N /\ q[i].status = status
           /\ \A i, j \in DOMAIN q : q[i].name = q[j].name => i = j
           /\ \A f \in N : \E i \in DOMAIN q : q[i].name = f
<1>1. PICK s \in SetToSeqs(N) :
        q = [i \in DOMAIN s |-> [dir |-> cur, name |-> s[i], status |-> status]]
  BY DEF Differences
<1> DEFINE n == Cardinality(N)
           D == 1 .. n
<1>2. IsFiniteSet(N) /\ n \in Nat
  BY KqueueAssumption, FS_Subset, FS_CardinalityType
<1>3. s \in [D -> N] /\ \A i, j \in D : i # j => s[i] # s[j]
  BY DEF SetToSeqs
<1>4. \A f \in N : \E i \in D : s[i] = f
  <2>1. s \in Injection(D, N)
    BY <1>3 DEF Injection, IsInjective
  <2>2. Cardinality(D) = n
    BY <1>2, FS_Interval
  <2>3. s \in Surjection(D, N)
    <3> HIDE DEF D
    <3> QED BY <1>2, <2>1, <2>2, FS_Injection
  <2> QED BY <2>3 DEF Surjection
<1>5. /\ DOMAIN q = D
      /\ \A i \in D : q[i] = [dir |-> cur, name |-> s[i], status |-> status]
  BY <1>1, <1>3
<1>6. \A i \in D : q[i] \in FileChange /\ q[i].dir = cur /\ q[i].name = s[i] /\ q[i].status = status
  BY <1>3, <1>5 DEF FileChange
<1>7. q \in Seq(FileChange)
  <2>1. q = [i \in D |-> q[i]]
    BY <1>1, <1>5
  <2> QED BY <1>2, <1>6, <2>1
<1> QED
  BY <1>3, <1>4, <1>5, <1>6, <1>7

\* Applying the missing files takes them out of the directory.
LEMMA DeletedApplied ==
    ASSUME NEW dirs \in DirsType, NEW N \in SUBSET Files, cur \in Dirs,
           NEW q \in Differences("deleted", N)
    PROVE  Applied(dirs, q) = [dirs EXCEPT ![cur] = @ \ N]
<1>1. /\ q \in Seq(FileChange)
      /\ \A i \in DOMAIN q : q[i].dir = cur /\ q[i].name \in N /\ q[i].status = "deleted"
      /\ \A f \in N : \E i \in DOMAIN q : q[i].name = f
  BY DifferencesFacts
<1> DEFINE r == [dirs EXCEPT ![cur] = @ \ N]
<1>2. /\ r \in DirsType /\ r[cur] = dirs[cur] \ N
      /\ \A d \in Dirs \ {cur} : r[d] = dirs[d]
  BY DEF DirsType
<1> HIDE DEF r
<1>3. ASSUME NEW d \in Dirs, NEW f \in Files
      PROVE  f \in Applied(dirs, q)[d] <=> f \in r[d]
  <2>1. CASE d = cur /\ f \in N
    <3>1. Of(q, d, f) # {} /\ \A i \in Of(q, d, f) : q[i].status # "modified"
      BY <1>1, <2>1 DEF Of
    <3> QED BY <1>2, <2>1, <3>1, AppliedFile
  <2>2. CASE ~(d = cur /\ f \in N)
    <3>1. Of(q, d, f) = {}
      BY <1>1, <2>2 DEF Of
    <3> QED BY <1>2, <2>2, <3>1, AppliedFile
  <2> QED BY <2>1, <2>2
<1>4. Applied(dirs, q) = r
  BY <1>2, <1>3, AppliedFile, SameDirs
<1> QED
  BY <1>4 DEF r

\* Applying the added files puts them into the directory.
LEMMA ModifiedApplied ==
    ASSUME NEW dirs \in DirsType, NEW N \in SUBSET Files, cur \in Dirs,
           NEW q \in Differences("modified", N)
    PROVE  Applied(dirs, q) = [dirs EXCEPT ![cur] = @ \cup N]
<1>1. /\ q \in Seq(FileChange)
      /\ \A i \in DOMAIN q : q[i].dir = cur /\ q[i].name \in N /\ q[i].status = "modified"
      /\ \A i, j \in DOMAIN q : q[i].name = q[j].name => i = j
      /\ \A f \in N : \E i \in DOMAIN q : q[i].name = f
  BY DifferencesFacts
<1> DEFINE r == [dirs EXCEPT ![cur] = @ \cup N]
<1>2. /\ r \in DirsType /\ r[cur] = dirs[cur] \cup N
      /\ \A d \in Dirs \ {cur} : r[d] = dirs[d]
  BY DEF DirsType
<1> HIDE DEF r
<1>3. ASSUME NEW d \in Dirs, NEW f \in Files
      PROVE  f \in Applied(dirs, q)[d] <=> f \in r[d]
  <2>1. CASE d = cur /\ f \in N
    <3>1. PICK i \in Of(q, d, f) : i \in Nat /\ q[i].status = "modified"
      BY <1>1, <2>1 DEF Of
    <3>2. \A j \in Of(q, d, f) : j = i
      BY <1>1 DEF Of
    <3>3. \A j \in Of(q, d, f) : j <= i
      BY <3>1, <3>2
    <3> QED BY <1>2, <2>1, <3>1, <3>3, AppliedFile
  <2>2. CASE ~(d = cur /\ f \in N)
    <3>1. Of(q, d, f) = {}
      BY <1>1, <2>2 DEF Of
    <3> QED BY <1>2, <2>2, <3>1, AppliedFile
  <2> QED BY <2>1, <2>2
<1>4. Applied(dirs, q) = r
  BY <1>2, <1>3, AppliedFile, SameDirs
<1> QED
  BY <1>4 DEF r

-----------------------------------------------------------------------------
\* What the main thread was told of, what getchanges() has just returned and what
\* waits in the vector together are what the thread knows.
Told == Applied(seen, result)

KqueueInv ==
    /\ TypeOK
    /\ main = "poll" => result = <<>>
    /\ Applied(Told, changes) = known

\* The next directory is one of the search path.
LEMMA NextDirType ==
    ASSUME TypeOK, NextDir
    PROVE  cur' \in Dirs /\ thread' \in {"kevent", "sleep"}
<1>1. cur \in 1 .. NDirs /\ NDirs \in Nat \ {0}
  BY KqueueAssumption DEF TypeOK, Dirs
<1> QED
  BY <1>1 DEF NextDir, Dirs

\* The constructor has read the directories, and nothing waits.
LEMMA InitInv == Init => KqueueInv
<1> SUFFICES ASSUME Init PROVE KqueueInv
  OBVIOUS
<1>1. TypeOK
  <2>1. 1 \in Dirs /\ 0 \in 0 .. MaxFs /\ <<>> \in Seq(FileChange)
    BY KqueueAssumption DEF Dirs
  <2> QED BY <2>1 DEF Init, TypeOK
<1>2. Applied(Applied(seen, <<>>), <<>>) = known
  BY AppliedNothing DEF Init, DirsType
<1> QED
  BY <1>1, <1>2 DEF Init, KqueueInv, Told

\* The block under changes_mutex: the vector grows by just what the thread
\* has learned.
LEMMA PushChanges ==
    ASSUME KqueueInv, push_changes
    PROVE  /\ changes' \in Seq(FileChange)
           /\ known' = [known EXCEPT ![cur] = files] /\ known' \in DirsType
           /\ Applied(Told, changes') = known'
<1>1. /\ TypeOK /\ cur \in Dirs /\ files \in SUBSET Files /\ known \in DirsType
      /\ changes \in Seq(FileChange)
  BY DEF KqueueInv, TypeOK, DirsType
<1>2. PICK missing \in Differences("deleted", known[cur] \ files),
           added \in Differences("modified", files \ known[cur]) :
              changes' = changes \o missing \o added
  BY DEF push_changes
<1>3. known[cur] \ files \in SUBSET Files /\ files \ known[cur] \in SUBSET Files
  BY <1>1 DEF DirsType
<1>4. missing \in Seq(FileChange) /\ added \in Seq(FileChange)
  BY <1>1, <1>2, <1>3, DifferencesFacts
<1> DEFINE one == [known EXCEPT ![cur] = @ \ (known[cur] \ files)]
           two == [one EXCEPT ![cur] = @ \cup (files \ known[cur])]
<1>5. one \in DirsType /\ Applied(known, missing) = one
  BY <1>1, <1>2, <1>3, DeletedApplied DEF DirsType
<1>6. Applied(one, added) = two
  <2> HIDE DEF one
  <2> QED BY <1>1, <1>2, <1>3, <1>5, ModifiedApplied
<1>7. two = [known EXCEPT ![cur] = files] /\ two \in DirsType
  BY <1>1 DEF DirsType
<1> HIDE DEF one, two
<1>8. Told \in DirsType /\ Applied(Told, changes) = known
  BY AppliedFile DEF Told, KqueueInv
<1>9. changes \o missing \in Seq(FileChange) /\ changes \o missing \o added \in Seq(FileChange)
  BY <1>1, <1>4, ConcatProperties
<1>10. Applied(Told, changes \o missing) = one
  BY <1>1, <1>4, <1>5, <1>8, AppliedConcat
<1>11. Applied(Told, changes \o missing \o added) = two
  BY <1>4, <1>6, <1>8, <1>9, <1>10, AppliedConcat
<1> QED
  BY <1>2, <1>7, <1>9, <1>11 DEF push_changes

\* Every step of the two threads and of the file system keeps the types.
LEMMA NextType ==
    ASSUME KqueueInv, [Next]_vars
    PROVE  TypeOK'
<1> USE DEF TypeOK, vars, thread_vars, main_vars
<1>0. TypeOK
  BY DEF KqueueInv
<1>1. CASE kevent
  <2>1. knote' \in [Dirs -> BOOLEAN]
    BY <1>0, <1>1 DEF kevent
  <2>2. cur' \in Dirs /\ thread' \in {"kevent", "readdir", "sleep"}
    BY <1>0, <1>1, NextDirType DEF kevent
  <2>3. /\ unread' \subseteq Files /\ files' \subseteq Files
        /\ UNCHANGED <<present, known, changes, pipe, main, result, seen, fs>>
    BY <1>1 DEF kevent
  <2> QED BY <1>0, <2>1, <2>2, <2>3
<1>2. ASSUME NEW f \in Files, readdir(f) PROVE TypeOK'
  BY <1>0, <1>2 DEF readdir
<1>3. CASE push_changes
  <2>1. changes' \in Seq(FileChange) /\ known' \in [Dirs -> SUBSET Files]
    BY <1>3, PushChanges DEF DirsType
  <2> QED BY <1>0, <1>3, <2>1 DEF push_changes
<1>4. CASE write_pipe
  BY <1>0, <1>4, NextDirType DEF write_pipe
<1>5. CASE wake_up
  BY <1>0, <1>5 DEF wake_up
<1>6. CASE take_changes
  <2>1. <<>> \in Seq(FileChange)
    OBVIOUS
  <2> QED BY <1>0, <1>6, <2>1 DEF take_changes
<1>7. CASE drain_pipe
  BY <1>0, <1>7 DEF drain_pipe
<1>8. CASE apply
  <2>1. <<>> \in Seq(FileChange) /\ seen' \in [Dirs -> SUBSET Files]
    BY <1>8, AppliedFile DEF apply, DirsType
  <2> QED BY <1>0, <1>8, <2>1 DEF apply
<1>9. ASSUME NEW d \in Dirs, NEW f \in Files, FsChange(d, f) PROVE TypeOK'
  <2>1. present' \in [Dirs -> SUBSET Files] /\ knote' \in [Dirs -> BOOLEAN]
    BY <1>0, <1>9 DEF FsChange
  <2>2. fs' \in 0 .. MaxFs
    BY <1>0, <1>9, KqueueAssumption DEF FsChange
  <2> QED BY <1>0, <1>9, <2>1, <2>2 DEF FsChange
<1>10. CASE UNCHANGED vars
  BY <1>0, <1>10
<1> QED
  BY <1>1, <1>2, <1>3, <1>4, <1>5, <1>6, <1>7, <1>8, <1>9, <1>10 DEF Next, Thread, Main

\* A step of the thread that looks at a directory, a call of getchanges(), or a
\* step that changes neither what the thread knows nor what the caller was told.
LEMMA NextSteps ==
    ASSUME KqueueInv, [Next]_vars
    PROVE  \/ push_changes /\ Told' = Told /\ UNCHANGED <<main, result>>
           \/ /\ take_changes /\ Told = seen
              /\ Told' = known /\ UNCHANGED known /\ main' = "drain"
           \/ /\ Told' = Told /\ UNCHANGED <<known, changes>>
              /\ main' = "poll" => result' = <<>>
<1> USE DEF vars, thread_vars, main_vars
<1>0. TypeOK /\ seen \in DirsType /\ (main = "poll" => result = <<>>)
  BY DEF KqueueInv, TypeOK, DirsType
<1>1. CASE UNCHANGED <<known, changes, result, seen>> /\ (main' = "poll" => main = "poll")
  BY <1>0, <1>1 DEF Told
<1>2. CASE push_changes
  BY <1>2 DEF push_changes, Told
<1>3. CASE take_changes
  <2>1. Told = seen
    BY <1>0, <1>3, AppliedNothing DEF take_changes, Told
  <2>2. Told' = Applied(seen, changes)
    BY <1>3 DEF take_changes, Told
  <2>3. Told' = known
    BY <2>1, <2>2 DEF KqueueInv
  <2> QED BY <1>3, <2>1, <2>3 DEF take_changes
<1>4. CASE apply
  <2>1. seen' = Told /\ Told \in DirsType /\ result' = <<>>
    BY <1>4, AppliedFile DEF apply, Told
  <2>2. Told' = Told
    BY <2>1, AppliedNothing DEF Told
  <2> QED BY <1>4, <2>1, <2>2 DEF apply
<1>5. CASE drain_pipe
  BY <1>5 DEF drain_pipe, Told
<1>6. CASE kevent \/ (\E f \in Files : readdir(f)) \/ write_pipe \/ wake_up
  BY <1>1, <1>6 DEF kevent, readdir, write_pipe, wake_up
<1>7. CASE \E d \in Dirs, f \in Files : FsChange(d, f)
  BY <1>1, <1>7 DEF FsChange
<1>8. CASE UNCHANGED vars
  BY <1>1, <1>8
<1> QED
  BY <1>2, <1>3, <1>4, <1>5, <1>6, <1>7, <1>8 DEF Next, Thread, Main

\* Every step keeps the two threads in agreement.
LEMMA NextInv == KqueueInv /\ [Next]_vars => KqueueInv'
<1> SUFFICES ASSUME KqueueInv, [Next]_vars PROVE KqueueInv'
  OBVIOUS
<1>1. TypeOK'
  BY NextType
<1>2. CASE push_changes /\ Told' = Told /\ UNCHANGED <<main, result>>
  <2>1. Applied(Told, changes') = known'
    BY <1>2, PushChanges
  <2> QED BY <1>1, <1>2, <2>1 DEF KqueueInv
<1>3. CASE take_changes /\ Told' = known /\ UNCHANGED known /\ main' = "drain"
  <2>1. Applied(known, <<>>) = known
    BY AppliedNothing DEF KqueueInv, TypeOK, DirsType
  <2>2. changes' = <<>>
    BY <1>3 DEF take_changes
  <2> QED BY <1>1, <1>3, <2>1, <2>2 DEF KqueueInv
<1>4. CASE /\ Told' = Told /\ UNCHANGED <<known, changes>>
           /\ main' = "poll" => result' = <<>>
  BY <1>1, <1>4 DEF KqueueInv
<1> QED
  BY <1>2, <1>3, <1>4, NextSteps

\* The invariant holds in every state.
LEMMA AlwaysKqueueInv == Spec => []KqueueInv
<1> QED
  BY InitInv, NextInv, PTL DEF Spec

-----------------------------------------------------------------------------
\* Type correctness; in particular the thread's loop never leaves the vector of
\* directories.
THEOREM KqueueTypeCorrect == Spec => []TypeOK
<1>1. KqueueInv => TypeOK
  BY DEF KqueueInv
<1> QED
  BY <1>1, AlwaysKqueueInv, PTL

\* The vector, the mutex and the pipe implement the feed of changes that
\* NotifyBase.hh promises: for any interleaving of the threads and any directories
\* and files, no change is lost, repeated, reordered or split between the calls.
THEOREM KqueueImplementsChangeFeed == Spec => ImplementsChangeFeed
<1>1. Init => ChangeFeed!Init
  <2> SUFFICES ASSUME Init PROVE Applied(seen, result) = known
    BY DEF ChangeFeed!Init
  <2> QED BY AppliedNothing DEF Init, DirsType
<1>2. KqueueInv /\ [Next]_vars => [ChangeFeed!Next]_<<known, Applied(seen, result)>>
  <2> SUFFICES ASSUME KqueueInv, [Next]_vars
               PROVE  [ChangeFeed!Next]_<<known, Applied(seen, result)>>
    OBVIOUS
  <2>1. CASE push_changes /\ Told' = Told
    <3>1. cur \in Dirs /\ files \in SUBSET Files /\ known' = [known EXCEPT ![cur] = files]
      BY <2>1, PushChanges DEF KqueueInv, TypeOK
    <3>2. ChangeFeed!Look(cur)
      BY <2>1, <3>1 DEF ChangeFeed!Look, Told
    <3> QED BY <3>1, <3>2 DEF ChangeFeed!Next
  <2>2. CASE Told' = known /\ UNCHANGED known
    BY <2>2 DEF ChangeFeed!Next, ChangeFeed!Handover, Told
  <2>3. CASE Told' = Told /\ UNCHANGED known
    BY <2>3 DEF Told
  <2> QED BY <2>1, <2>2, <2>3, NextSteps
<1> QED
  BY <1>1, <1>2, AlwaysKqueueInv, PTL DEF Spec, ImplementsChangeFeed, ChangeFeed!Spec

-----------------------------------------------------------------------------
\* The thread is between kevent() and the comparison for directory d.
Reading(d) == cur = d /\ thread \in {"readdir", "lock"}

\* As long as no new event is pending, what was read of the directory is right.
ReadSoFar ==
    /\ files \cap unread = {}
    /\ thread = "lock" => unread = {}
    /\ \A d \in Dirs : Reading(d) /\ ~knote[d] =>
          \A f \in Files \ unread : f \in files <=> f \in present[d]

\* What the thread does not know of a directory it will learn: an event is pending
\* in the kernel, or the directory is being read.
NothingOverlooked ==
    \A d \in Dirs : knote[d] \/ Reading(d) \/ known[d] = present[d]

\* Every step keeps this, also a change of the directory that is being read.
LEMMA OverlookedNext ==
    TypeOK /\ ReadSoFar /\ NothingOverlooked /\ [Next]_vars => ReadSoFar' /\ NothingOverlooked'
<1> SUFFICES ASSUME TypeOK, ReadSoFar, NothingOverlooked, [Next]_vars
             PROVE  ReadSoFar' /\ NothingOverlooked'
  OBVIOUS
<1> USE DEF TypeOK, vars, thread_vars, main_vars, Reading
<1>1. CASE kevent
  <2>1. CASE knote[cur]
    BY <1>1, <2>1 DEF kevent, ReadSoFar, NothingOverlooked
  <2>2. CASE ~knote[cur]
    <3>1. /\ thread' \in {"kevent", "sleep"}
          /\ UNCHANGED <<knote, present, known>> /\ thread = "kevent" /\ files' = {}
      BY <1>1, <2>2 DEF kevent, NextDir
    <3> QED BY <3>1 DEF ReadSoFar, NothingOverlooked
  <2> QED BY <2>1, <2>2
<1>2. ASSUME NEW f \in Files, readdir(f) PROVE ReadSoFar' /\ NothingOverlooked'
  <2>1. /\ UNCHANGED <<present, knote, known, cur>> /\ thread = "readdir"
        /\ thread' \in {"readdir", "lock"} /\ (thread' = "lock" => unread' = {})
        /\ unread' = unread \ {f} /\ files' = files \cup ({f} \cap present[cur])
    BY <1>2 DEF readdir
  <2>2. NothingOverlooked'
    BY <2>1 DEF NothingOverlooked
  <2>3. ASSUME NEW d \in Dirs, cur = d, ~knote[d], NEW g \in Files \ unread'
        PROVE  g \in files' <=> g \in present[d]
    BY <2>1, <2>3 DEF ReadSoFar
  <2>4. ReadSoFar'
    BY <2>1, <2>3 DEF ReadSoFar
  <2> QED BY <2>2, <2>4
<1>3. CASE push_changes
  <2>1. known' = [known EXCEPT ![cur] = files] /\ UNCHANGED <<present, knote, cur>>
        /\ thread = "lock" /\ thread' = "write" /\ unread = {} /\ unread' = unread
    BY <1>3 DEF push_changes, ReadSoFar
  <2>2. ~knote[cur] => files = present[cur]
    BY <2>1 DEF ReadSoFar
  <2>3. NothingOverlooked'
    BY <2>1, <2>2 DEF NothingOverlooked
  <2> QED BY <2>1, <2>3 DEF ReadSoFar
<1>4. CASE write_pipe
  <2>1. /\ thread = "write" /\ thread' \in {"kevent", "sleep"}
        /\ UNCHANGED <<knote, present, known, files, unread>>
    BY <1>4 DEF write_pipe, NextDir
  <2> QED BY <2>1 DEF ReadSoFar, NothingOverlooked
<1>5. CASE wake_up
  BY <1>5 DEF wake_up, ReadSoFar, NothingOverlooked
<1>6. ASSUME NEW d \in Dirs, NEW f \in Files, FsChange(d, f)
      PROVE  ReadSoFar' /\ NothingOverlooked'
  <2>1. /\ UNCHANGED <<known, thread, cur, unread, files>>
        /\ knote'[d] /\ \A e \in Dirs \ {d} : knote'[e] = knote[e] /\ present'[e] = present[e]
    BY <1>6 DEF FsChange
  <2> QED BY <2>1 DEF ReadSoFar, NothingOverlooked
<1>7. CASE Main \/ UNCHANGED vars
  BY <1>7 DEF Main, take_changes, drain_pipe, apply, ReadSoFar, NothingOverlooked
<1> QED
  BY <1>1, <1>2, <1>3, <1>4, <1>5, <1>6, <1>7 DEF Next, Thread

\* The thread overlooks no file that comes or goes while it reads a directory: the
\* event is taken before the directory is read.  This is the safety part of
\* ThreadCatchesUp.
THEOREM ThreadOverlooksNothing == Spec => []NothingOverlooked
<1>1. Init => ReadSoFar /\ NothingOverlooked
  BY DEF Init, ReadSoFar, NothingOverlooked, Reading
<1> QED
  BY <1>1, KqueueTypeCorrect, OverlookedNext, PTL DEF Spec

=============================================================================
