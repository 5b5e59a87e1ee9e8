----------------------------- MODULE StartupProofs -----------------------------
(***************************************************************************)
(* Proofs about Startup, in four parts.  The walk of FileFinder through a  *)
(* tree of any size and depth comes by every desktop file once (WalkInv).  *)
(* The search path is what the environment names, in its order (PathInv),  *)
(* and the first file that decides about an ID gives it its element        *)
(* (LoadInv).  What the constructor is given is what AppManager expects.   *)
(* And what an element says is what the lines of its file say, whatever    *)
(* their order: ReadUpTo is the invariant of the loop over the lines.      *)
(***************************************************************************)
EXTENDS Startup, AppManagerProofs, SequenceTheorems, FiniteSetTheorems

-----------------------------------------------------------------------------
(* Sequences *)

LEMMA PrefixIs ==
    ASSUME NEW S, NEW s \in Seq(S), NEW t \in Seq(S)
    PROVE  IsPrefix(s, t) <=> Len(s) <= Len(t) /\ \A i \in 1 .. Len(s) : s[i] = t[i]
<1> DEFINE m == Len(s)
           n == Len(t)
           a == SubSeq(s, 1, m)
           b == SubSeq(t, 1, m)
<1>1. m \in Nat /\ n \in Nat
  BY LenProperties
<1>2. IsPrefix(s, t) <=> m <= n /\ a = b
  BY DEF IsPrefix
<1>3. a \in Seq(S) /\ Len(a) = m /\ \A i \in 1 .. m : a[i] = s[i]
  BY <1>1
<1>4. ASSUME m <= n
      PROVE  b \in Seq(S) /\ Len(b) = m /\ \A i \in 1 .. m : b[i] = t[i]
  BY <1>1, <1>4
<1> HIDE DEF a, b
<1>5. ASSUME m <= n, \A i \in 1 .. m : s[i] = t[i] PROVE a = b
  <2>1. \A i \in 1 .. Len(a) : a[i] = b[i]
    BY <1>3, <1>4, <1>5
  <2> QED BY <1>3, <1>4, <1>5, <2>1, SeqEqual
<1>6. ASSUME m <= n, a = b PROVE \A i \in 1 .. m : s[i] = t[i]
  BY <1>3, <1>4, <1>6
<1> QED
  BY <1>2, <1>5, <1>6

LEMMA OneElement ==
    ASSUME NEW S, NEW x \in S
    PROVE  <<x>> \in Seq(S) /\ DOMAIN <<x>> = {1} /\ <<x>>[1] = x
OBVIOUS

LEMMA WithoutLast ==
    ASSUME NEW S, NEW s \in Seq(S), NEW n \in Nat, n >= 1, Len(s) = n
    PROVE  /\ SubSeq(s, 1, n - 1) \in Seq(S) /\ Len(SubSeq(s, 1, n - 1)) = n - 1
           /\ \A k \in 1 .. n - 1 : SubSeq(s, 1, n - 1)[k] = s[k]
OBVIOUS

\* The elements of a directory, a name and a last separator
LEMMA Parts ==
    ASSUME NEW S, NEW d \in Seq(S), NEW a \in Seq(S), NEW sep \in S
    PROVE  /\ d \o a \in Seq(S) /\ Len(d \o a) = Len(d) + Len(a)
           /\ d \o a \o <<sep>> \in Seq(S) /\ Len(d \o a \o <<sep>>) = Len(d) + Len(a) + 1
           /\ \A i \in 1 .. Len(d) : (d \o a)[i] = d[i] /\ (d \o a \o <<sep>>)[i] = d[i]
           /\ \A i \in 1 .. Len(a) : /\ (d \o a)[Len(d) + i] = a[i]
                                     /\ (d \o a \o <<sep>>)[Len(d) + i] = a[i]
           /\ (d \o a \o <<sep>>)[Len(d) + Len(a) + 1] = sep
           /\ Len(d) \in Nat /\ Len(a) \in Nat
<1> DEFINE u == d \o a
           one == <<sep>>
<1>1. Len(d) \in Nat /\ Len(a) \in Nat
  BY LenProperties
<1>2. /\ u \in Seq(S) /\ Len(u) = Len(d) + Len(a)
      /\ \A i \in 1 .. Len(d) + Len(a) : u[i] = IF i <= Len(d) THEN d[i] ELSE a[i - Len(d)]
  BY ConcatProperties
<1>3. one \in Seq(S) /\ Len(one) = 1 /\ one[1] = sep
  OBVIOUS
<1> HIDE DEF u, one
<1>4. /\ u \o one \in Seq(S) /\ Len(u \o one) = Len(u) + 1
      /\ \A i \in 1 .. Len(u) + 1 : (u \o one)[i] = IF i <= Len(u) THEN u[i] ELSE one[i - Len(u)]
  <2>1. u \in Seq(S) /\ one \in Seq(S)
    BY <1>2, <1>3
  <2>2. /\ u \o one \in Seq(S) /\ Len(u \o one) = Len(u) + Len(one)
        /\ \A i \in 1 .. Len(u) + Len(one) :
              (u \o one)[i] = IF i <= Len(u) THEN u[i] ELSE one[i - Len(u)]
    BY <2>1, ConcatProperties
  <2> QED BY <1>3, <2>2
<1> DEFINE w == u \o one
           m == Len(d)
           n == Len(a)
<1> HIDE DEF w, m, n
<1>5. m \in Nat /\ n \in Nat
  BY <1>1 DEF m, n
<1>6. \A i \in 1 .. m + n : u[i] = IF i <= m THEN d[i] ELSE a[i - m]
  BY <1>2 DEF m, n
<1>7. \A i \in 1 .. m + n + 1 : w[i] = IF i <= m + n THEN u[i] ELSE one[i - (m + n)]
  BY <1>2, <1>4 DEF m, n, w
<1>8. \A i \in 1 .. m : u[i] = d[i] /\ w[i] = d[i]
  BY <1>5, <1>6, <1>7
<1>9. \A i \in 1 .. n : u[m + i] = a[i] /\ w[m + i] = a[i]
  <2> SUFFICES ASSUME NEW i \in 1 .. n PROVE u[m + i] = a[i] /\ w[m + i] = a[i]
    OBVIOUS
  <2>1. m + i \in 1 .. m + n /\ ~(m + i <= m) /\ (m + i) - m = i /\ m + i \in 1 .. m + n + 1
        /\ m + i <= m + n
    BY <1>5
  <2> QED BY <1>6, <1>7, <2>1
<1>10. w[m + n + 1] = sep
  <2>1. m + n + 1 \in 1 .. m + n + 1 /\ ~(m + n + 1 <= m + n) /\ (m + n + 1) - (m + n) = 1
    BY <1>5
  <2> QED BY <1>3, <1>7, <2>1
<1> QED
  BY <1>1, <1>2, <1>4, <1>8, <1>9, <1>10 DEF u, one, w, m, n

\* Where a path goes on behind a directory: with a name, and then ends or a separator
\* follows
GoesOn(path, m, name, sep) ==
    /\ Len(path) >= m + Len(name)
    /\ \A i \in 1 .. Len(name) : path[m + i] = name[i]
    /\ Len(path) > m + Len(name) => path[m + Len(name) + 1] = sep

LEMMA EntryGoesOn ==
    ASSUME NEW S, NEW d \in Seq(S), NEW a \in Seq(S), NEW sep \in S, NEW path \in Seq(S),
           path = d \o a \/ IsPrefix(d \o a \o <<sep>>, path)
    PROVE  /\ GoesOn(path, Len(d), a, sep)
           /\ \A i \in 1 .. Len(d) : path[i] = d[i]
<1> DEFINE m == Len(d)
           n == Len(a)
           u == d \o a
           w == u \o <<sep>>
           N == Len(path)
<1>1. m \in Nat /\ n \in Nat /\ N \in Nat
  BY LenProperties
<1>2. /\ u \in Seq(S) /\ Len(u) = m + n /\ w \in Seq(S) /\ Len(w) = m + n + 1
      /\ \A i \in 1 .. m : u[i] = d[i] /\ w[i] = d[i]
      /\ \A i \in 1 .. n : u[m + i] = a[i] /\ w[m + i] = a[i]
      /\ w[m + n + 1] = sep
  BY Parts
<1> HIDE DEF u, w
<1>3. CASE path = u
  BY <1>1, <1>2, <1>3 DEF GoesOn
<1>4. CASE IsPrefix(w, path)
  <2>1. m + n + 1 <= N /\ \A i \in 1 .. m + n + 1 : w[i] = path[i]
    BY <1>2, <1>4, PrefixIs
  <2>2. \A i \in 1 .. m : i \in 1 .. m + n + 1
    BY <1>1
  <2>3. \A i \in 1 .. n : m + i \in 1 .. m + n + 1
    BY <1>1
  <2>4. m + n + 1 \in 1 .. m + n + 1 /\ N >= m + n
    BY <1>1, <2>1
  <2>5. /\ \A i \in 1 .. m : path[i] = d[i]
        /\ \A i \in 1 .. n : path[m + i] = a[i]
        /\ path[m + n + 1] = sep
    BY <1>2, <2>1, <2>2, <2>3, <2>4
  <2> QED BY <2>4, <2>5 DEF GoesOn
<1> QED
  BY <1>3, <1>4 DEF u, w

\* A path goes on behind a directory with one name only.
LEMMA OneName ==
    ASSUME NEW S, NEW a \in Seq(S), NEW b \in Seq(S), NEW sep, NEW m \in Nat, NEW path \in Seq(S),
           GoesOn(path, m, a, sep), GoesOn(path, m, b, sep),
           \A i \in 1 .. Len(a) : a[i] # sep, \A i \in 1 .. Len(b) : b[i] # sep
    PROVE  a = b
<1> DEFINE k == Len(a)
           n == Len(b)
           N == Len(path)
<1>1. k \in Nat /\ n \in Nat /\ N \in Nat
  BY LenProperties
<1>2. /\ N >= m + k /\ (\A i \in 1 .. k : path[m + i] = a[i])
      /\ N > m + k => path[m + k + 1] = sep
  BY DEF GoesOn
<1>3. /\ N >= m + n /\ (\A i \in 1 .. n : path[m + i] = b[i])
      /\ N > m + n => path[m + n + 1] = sep
  BY DEF GoesOn
<1>4. (\A i \in 1 .. k : a[i] # sep) /\ \A i \in 1 .. n : b[i] # sep
  OBVIOUS
<1> HIDE DEF k, n, N
<1>5. ~(k < n)
  <2> SUFFICES ASSUME k < n PROVE FALSE
    OBVIOUS
  <2>1. k + 1 \in 1 .. n /\ N > m + k /\ m + (k + 1) = m + k + 1
    BY <1>1, <1>3
  <2> QED BY <1>2, <1>3, <1>4, <2>1
<1>6. ~(n < k)
  <2> SUFFICES ASSUME n < k PROVE FALSE
    OBVIOUS
  <2>1. n + 1 \in 1 .. k /\ N > m + n /\ m + (n + 1) = m + n + 1
    BY <1>1, <1>2
  <2> QED BY <1>2, <1>3, <1>4, <2>1
<1>7. k = n
  BY <1>1, <1>5, <1>6
<1>8. \A i \in 1 .. k : a[i] = b[i]
  BY <1>2, <1>3, <1>7
<1> QED
  BY <1>7, <1>8, SeqEqual DEF k, n

-----------------------------------------------------------------------------
(* The file system *)

\* FilesIn() for any file system
Below(fs, dir) ==
    {path \in DOMAIN fs.files :
        /\ IsPrefix(dir, path) /\ Last(path) = ".desktop"
        /\ \A i \in Len(dir) + 1 .. Len(path) : path[i] = "." => path[i - 1] # "/"}

\* The desktop files that an entry of a directory stands for
Reached(fs, dir, e) ==
    IF dir \o e.name \o <<"/">> \in DOMAIN fs.dirs THEN Below(fs, dir \o e.name \o <<"/">>)
    ELSE IF Last(dir \o e.name) = ".desktop" THEN {dir \o e.name} ELSE {}

\* The entries of a directory that are visited
Seen(fs, dir) == {e \in fs.dirs[dir] : Head(e.name) # "."}

IsName(name) == name \in String /\ name # <<>> /\ \A i \in 1 .. Len(name) : name[i] # "/"

IsDir(fs, dir) == dir \in DOMAIN fs.dirs

\* What an input says of a directory
LEMMA TreeDir ==
    ASSUME NEW fs \in Inputs, NEW d, IsDir(fs, d)
    PROVE  /\ d \in String /\ d # <<>> /\ d[Len(d)] = "/"
           /\ IsFiniteSet(fs.dirs[d])
<1>1. IsTree(fs.dirs, fs.files)
  BY InputsAssumption
<1>2. d \in DOMAIN fs.dirs
  BY DEF IsDir
<1>3. d \in String /\ d # <<>> /\ Last(d) = "/" /\ IsFiniteSet(fs.dirs[d])
  BY <1>1, <1>2 DEF IsTree
<1> QED
  BY <1>3 DEF Last

\* and of its entries
LEMMA TreeEntry ==
    ASSUME NEW fs \in Inputs, NEW d, IsDir(fs, d), NEW e \in fs.dirs[d]
    PROVE  /\ IsName(e.name)
           /\ \A other \in fs.dirs[d] : other.name = e.name => other = e
           /\ e.name[Len(e.name)] = ".desktop" =>
                 IsDir(fs, d \o e.name \o <<"/">>) \/ d \o e.name \in DOMAIN fs.files
<1>1. IsTree(fs.dirs, fs.files)
  BY InputsAssumption
<1>2. d \in DOMAIN fs.dirs
  BY DEF IsDir
<1>3. /\ e.name \in String /\ e.name # <<>> /\ "/" \notin ToSet(e.name)
      /\ \A other \in fs.dirs[d] : other.name = e.name => other = e
      /\ Last(e.name) = ".desktop" =>
                 d \o e.name \o <<"/">> \in DOMAIN fs.dirs \/ d \o e.name \in DOMAIN fs.files
  BY <1>1, <1>2 DEF IsTree
<1>4. \A i \in 1 .. Len(e.name) : e.name[i] # "/"
  <2>1. DOMAIN e.name = 1 .. Len(e.name)
    BY <1>3, LenProperties DEF String
  <2> QED BY <1>3, <2>1 DEF ToSet
<1> QED
  BY <1>3, <1>4 DEF IsName, IsDir, Last

\* and of the files below it.
LEMMA TreeFile ==
    ASSUME NEW fs \in Inputs, NEW d, IsDir(fs, d), NEW path \in DOMAIN fs.files
    PROVE  /\ path \in String
           /\ IsPrefix(d, path) => \E e \in fs.dirs[d] :
                IF IsDir(fs, d \o e.name \o <<"/">>) THEN IsPrefix(d \o e.name \o <<"/">>, path)
                                                     ELSE path = d \o e.name
<1>1. IsTree(fs.dirs, fs.files)
  BY InputsAssumption
<1>2. d \in DOMAIN fs.dirs
  BY DEF IsDir
<1> QED
  BY <1>1, <1>2 DEF IsTree, IsDir

LEMMA SlashIsChar ==
    ASSUME NEW fs \in Inputs, NEW d, IsDir(fs, d)
    PROVE  "/" \in Chars /\ Len(d) \in Nat /\ Len(d) >= 1 /\ d \in Seq(Chars)
<1>1. d \in Seq(Chars) /\ d # <<>> /\ d[Len(d)] = "/"
  BY TreeDir DEF String
<1>2. Len(d) \in Nat /\ Len(d) >= 1
  BY <1>1, EmptySeq, LenProperties
<1>3. Len(d) \in 1 .. Len(d)
  BY <1>2
<1>4. d[Len(d)] \in Chars
  BY <1>1, <1>3, ElementOfSeq
<1> QED
  BY <1>1, <1>2, <1>4

\* Nothing is hidden between the directory and what is behind the name.
LEMMA NothingHidden ==
    ASSUME NEW name, IsName(name), NEW m \in Nat, NEW path \in String,
           GoesOn(path, m, name, "/"), name[1] # ".",
           NEW i \in m + 1 .. Len(path), i <= m + Len(name) + 1, path[i] = "."
    PROVE  path[i - 1] # "/"
<1> DEFINE n == Len(name)
           N == Len(path)
<1>1. n \in Nat /\ N \in Nat
  BY LenProperties DEF IsName, String
<1>2. \A j \in 1 .. n : path[m + j] = name[j] /\ name[j] # "/"
  BY DEF GoesOn, IsName
<1>3. N > m + n => path[m + n + 1] = "/"
  BY DEF GoesOn
<1>4. n >= 1
  BY <1>1, EmptySeq DEF IsName, String
<1> HIDE DEF n, N
<1>5. i \in Nat /\ i >= m + 1 /\ i <= N /\ i <= m + n + 1
  BY <1>1 DEF n, N
<1>6. i # m + n + 1
  BY <1>1, <1>3, <1>5
<1>7. i # m + 1
  BY <1>1, <1>2, <1>4
<1>8. i - 1 - m \in 1 .. n /\ m + (i - 1 - m) = i - 1
  BY <1>1, <1>5, <1>6, <1>7
<1> QED
  BY <1>2, <1>8

\* What an entry stands for is below the directory.
LEMMA ReachedBelow ==
    ASSUME NEW fs \in Inputs, NEW d, IsDir(fs, d), NEW e \in Seen(fs, d),
           NEW path \in Reached(fs, d, e)
    PROVE  path \in Below(fs, d) /\ GoesOn(path, Len(d), e.name, "/") /\ path \in Seq(Chars)
<1> DEFINE name == e.name
           sub == d \o name \o <<"/">>
           m == Len(d)
           n == Len(name)
           N == Len(path)
<1>1. e \in fs.dirs[d] /\ Head(name) # "."
  BY DEF Seen
<1>2. IsName(name) /\ (name[n] = ".desktop" => IsDir(fs, sub) \/ d \o name \in DOMAIN fs.files)
  BY <1>1, TreeEntry
<1>3. "/" \in Chars /\ m \in Nat /\ m >= 1 /\ d \in Seq(Chars)
  BY SlashIsChar
<1>4. name \in Seq(Chars) /\ n \in Nat /\ n >= 1 /\ name[1] # "."
  <2>1. name \in Seq(Chars) /\ name # <<>>
    BY <1>2 DEF IsName, String
  <2>2. n \in Nat /\ n >= 1
    BY <2>1, EmptySeq, LenProperties
  <2>3. Head(name) = name[1]
    BY <2>1
  <2> QED BY <1>1, <2>1, <2>2, <2>3
<1>5. /\ d \o name \in Seq(Chars) /\ sub \in Seq(Chars) /\ Len(d \o name) = m + n
      /\ Len(sub) = m + n + 1 /\ (d \o name)[m + n] = name[n]
  <2>1. n \in 1 .. n
    BY <1>4
  <2> QED BY <1>3, <1>4, <2>1, Parts
<1>6. /\ path \in DOMAIN fs.files /\ path[N] = ".desktop"
      /\ path = d \o name \/ IsPrefix(sub, path)
      /\ N > m + n + 1 => \A i \in m + n + 2 .. N : path[i] = "." => path[i - 1] # "/"
  <2>1. CASE IsDir(fs, sub)
    <3>1. path \in Below(fs, sub)
      BY <2>1 DEF Reached, IsDir
    <3>2. /\ path \in DOMAIN fs.files /\ IsPrefix(sub, path) /\ path[N] = ".desktop"
          /\ \A i \in Len(sub) + 1 .. N : path[i] = "." => path[i - 1] # "/"
      BY <3>1 DEF Below, Last
    <3>3. Len(sub) + 1 = m + n + 2
      BY <1>3, <1>4, <1>5
    <3> QED BY <3>2, <3>3
  <2>2. CASE ~IsDir(fs, sub)
    <3>1. path = d \o name /\ path[N] = ".desktop"
      BY <2>2 DEF Reached, IsDir, Last
    <3>2. N = m + n
      BY <1>5, <3>1
    <3>3. name[n] = ".desktop"
      BY <1>5, <3>1, <3>2
    <3> QED BY <1>2, <1>3, <1>4, <2>2, <3>1, <3>2, <3>3
  <2> QED BY <2>1, <2>2
<1>7. path \in Seq(Chars)
  BY <1>6, TreeFile DEF String
<1>8. GoesOn(path, m, name, "/") /\ \A i \in 1 .. m : path[i] = d[i]
  BY <1>3, <1>4, <1>6, <1>7, EntryGoesOn
<1>9. IsPrefix(d, path)
  <2>1. N \in Nat /\ m <= N
    BY <1>3, <1>4, <1>7, <1>8, LenProperties DEF GoesOn
  <2> QED BY <1>3, <1>7, <1>8, <2>1, PrefixIs
<1>10. ASSUME NEW i \in m + 1 .. N, path[i] = "." PROVE path[i - 1] # "/"
  <2>1. CASE i <= m + n + 1
    BY <1>2, <1>3, <1>4, <1>7, <1>8, <1>10, <2>1, NothingHidden DEF String
  <2>2. CASE i > m + n + 1
    <3>1. N \in Nat /\ i \in m + n + 2 .. N /\ N > m + n + 1
      BY <1>3, <1>4, <1>7, <2>2, LenProperties
    <3> QED BY <1>6, <1>10, <3>1
  <2> QED BY <1>3, <1>4, <2>1, <2>2
<1>11. path \in Below(fs, d)
  BY <1>6, <1>9, <1>10 DEF Below, Last
<1> QED
  BY <1>7, <1>8, <1>11

\* What is below the directory is below an entry that is visited.
LEMMA BelowReached ==
    ASSUME NEW fs \in Inputs, NEW d, IsDir(fs, d), NEW path \in Below(fs, d)
    PROVE  \E e \in Seen(fs, d) : path \in Reached(fs, d, e)
<1> DEFINE m == Len(d)
           N == Len(path)
<1>1. /\ path \in DOMAIN fs.files /\ IsPrefix(d, path) /\ path[N] = ".desktop"
      /\ \A i \in m + 1 .. N : path[i] = "." => path[i - 1] # "/"
  BY DEF Below, Last
<1>2. PICK e \in fs.dirs[d] :
         IF IsDir(fs, d \o e.name \o <<"/">>) THEN IsPrefix(d \o e.name \o <<"/">>, path)
                                              ELSE path = d \o e.name
  BY <1>1, TreeFile
<1> DEFINE name == e.name
           sub == d \o name \o <<"/">>
           n == Len(name)
<1>3. IsName(name)
  BY TreeEntry
<1>4. "/" \in Chars /\ m \in Nat /\ m >= 1 /\ d \in Seq(Chars) /\ d[m] = "/"
  BY SlashIsChar, TreeDir
<1>5. name \in Seq(Chars) /\ n \in Nat /\ n >= 1 /\ Head(name) = name[1]
  <2>1. name \in Seq(Chars) /\ name # <<>>
    BY <1>3 DEF IsName, String
  <2>2. n \in Nat /\ n >= 1
    BY <2>1, EmptySeq, LenProperties
  <2>3. Head(name) = name[1]
    BY <2>1
  <2> QED BY <2>1, <2>2, <2>3
<1>6. path \in Seq(Chars) /\ N \in Nat
  <2>1. path \in Seq(Chars)
    BY <1>1, TreeFile DEF String
  <2> QED BY <2>1, LenProperties
<1>7. sub \in Seq(Chars) /\ Len(sub) = m + n + 1
  BY <1>4, <1>5, Parts
<1>8. path = d \o name \/ IsPrefix(sub, path)
  BY <1>2
<1>9. GoesOn(path, m, name, "/") /\ \A i \in 1 .. m : path[i] = d[i]
  BY <1>4, <1>5, <1>6, <1>8, EntryGoesOn
<1>10. name[1] # "."
  <2> SUFFICES ASSUME name[1] = "." PROVE FALSE
    OBVIOUS
  <2>1. 1 \in 1 .. n /\ m + 1 \in m + 1 .. N /\ m \in 1 .. m /\ m + 1 - 1 = m
    BY <1>4, <1>5, <1>6, <1>9 DEF GoesOn
  <2>2. path[m + 1] = "." /\ path[m] = "/"
    BY <1>4, <1>9, <2>1 DEF GoesOn
  <2> QED BY <1>1, <2>1, <2>2
<1>11. e \in Seen(fs, d)
  BY <1>5, <1>10 DEF Seen
<1>12. path \in Reached(fs, d, e)
  <2>1. CASE IsDir(fs, sub)
    <3>1. IsPrefix(sub, path)
      BY <1>2, <2>1
    <3>2. \A i \in Len(sub) + 1 .. N : i \in m + 1 .. N
      BY <1>4, <1>5, <1>6, <1>7
    <3>3. path \in Below(fs, sub)
      BY <1>1, <3>1, <3>2 DEF Below, Last
    <3> QED BY <2>1, <3>3 DEF Reached, IsDir
  <2>2. CASE ~IsDir(fs, sub)
    BY <1>1, <1>2, <2>2 DEF Reached, IsDir, Last
  <2> QED BY <2>1, <2>2
<1> QED
  BY <1>11, <1>12

\* No file is reached through two entries.
LEMMA ReachedOnce ==
    ASSUME NEW fs \in Inputs, NEW d, IsDir(fs, d), NEW e \in Seen(fs, d), NEW g \in Seen(fs, d),
           NEW path, path \in Reached(fs, d, e), path \in Reached(fs, d, g)
    PROVE  e = g
<1>1. e \in fs.dirs[d] /\ g \in fs.dirs[d]
  BY DEF Seen
<1>2. /\ IsName(e.name) /\ IsName(g.name)
      /\ (g.name = e.name => g = e)
  BY <1>1, TreeEntry
<1>3. /\ GoesOn(path, Len(d), e.name, "/") /\ GoesOn(path, Len(d), g.name, "/")
      /\ path \in Seq(Chars)
  BY ReachedBelow
<1>4. Len(d) \in Nat
  BY SlashIsChar
<1> DEFINE a == e.name
           b == g.name
<1> HIDE DEF a, b
<1>5. /\ a \in Seq(Chars) /\ b \in Seq(Chars)
      /\ (\A i \in 1 .. Len(a) : a[i] # "/") /\ \A i \in 1 .. Len(b) : b[i] # "/"
      /\ GoesOn(path, Len(d), a, "/") /\ GoesOn(path, Len(d), b, "/")
  BY <1>2, <1>3 DEF IsName, String, a, b
<1>6. a = b
  BY <1>3, <1>4, <1>5, OneName
<1> QED
  BY <1>2, <1>6 DEF a, b

-----------------------------------------------------------------------------
(* A walk *)

\* A path is found, or in one of the sets A or of the sets B.
Somewhere(p, found, A, B) ==
    \/ p \in ToSet(found)
    \/ \E k \in DOMAIN A : p \in A[k]
    \/ \E k \in DOMAIN B : p \in B[k]

\* It is in one place only.
Apart(found, A, B) ==
    /\ \A p, k : k \in DOMAIN A /\ p \in A[k] => p \notin ToSet(found)
    /\ \A p, k : k \in DOMAIN B /\ p \in B[k] => p \notin ToSet(found)
    /\ \A p, k, l : k \in DOMAIN A /\ l \in DOMAIN A /\ p \in A[k] /\ p \in A[l] => k = l
    /\ \A p, k, l : k \in DOMAIN B /\ l \in DOMAIN B /\ p \in B[k] /\ p \in B[l] => k = l
    /\ \A p, k, l : k \in DOMAIN A /\ l \in DOMAIN B => ~(p \in A[k] /\ p \in B[l])

\* U is divided among the files found, the sets A and the sets B.
Divided(U, found, A, B) ==
    /\ IsInjective(found)
    /\ \A p : p \in U <=> Somewhere(p, found, A, B)
    /\ Apart(found, A, B)

\* With nothing left to visit all of U is found.
LEMMA AllFound ==
    ASSUME NEW U, NEW found, NEW A, NEW B, Divided(U, found, A, B), DOMAIN A = {}, DOMAIN B = {}
    PROVE  IsInjective(found) /\ ToSet(found) = U
BY DEF Divided, Somewhere

\* In the beginning there is one directory.
LEMMA NothingFound ==
    ASSUME NEW U, NEW found, NEW A, NEW B, DOMAIN found = {}, DOMAIN A = {1}, A[1] = U, DOMAIN B = {}
    PROVE  Divided(U, found, A, B)
<1>1. ToSet(found) = {} /\ IsInjective(found)
  BY DEF ToSet, IsInjective
<1>2. Apart(found, A, B)
  BY <1>1 DEF Apart
<1>3. \A p : p \in U <=> Somewhere(p, found, A, B)
  BY <1>1 DEF Somewhere
<1> QED
  BY <1>1, <1>2, <1>3 DEF Divided

\* C is B without its first element.
IsTail(C, B, n) ==
    DOMAIN B = 1 .. n + 1 /\ DOMAIN C = 1 .. n /\ \A k \in 1 .. n : C[k] = B[k + 1]

\* The first of the sets B is taken out.
LEMMA EntryTaken ==
    ASSUME NEW U, NEW found, NEW A, NEW B, NEW B2, NEW n \in Nat,
           Divided(U, found, A, B), IsTail(B2, B, n)
    PROVE  Divided(U \ B[1], found, A, B2) /\ B[1] \subseteq U
<1> DEFINE X == B[1]
<1>1. 1 \in DOMAIN B
  BY DEF IsTail
<1>2. \A k \in DOMAIN B2 : k + 1 \in DOMAIN B /\ k + 1 # 1 /\ B2[k] = B[k + 1]
  BY DEF IsTail
<1>3. \A k \in DOMAIN B : k # 1 => k - 1 \in DOMAIN B2 /\ B2[k - 1] = B[k]
  BY DEF IsTail
<1>4. \A k, l \in DOMAIN B2 : k + 1 = l + 1 => k = l
  BY DEF IsTail
<1>5. IsInjective(found) /\ Apart(found, A, B) /\ \A p : p \in U <=> Somewhere(p, found, A, B)
  BY DEF Divided
<1>6. ASSUME NEW p \in X PROVE p \in U
  <2>1. Somewhere(p, found, A, B)
    BY <1>1 DEF Somewhere
  <2> QED BY <1>5, <2>1
<1>7. ASSUME NEW p, p \in U, p \notin X PROVE Somewhere(p, found, A, B2)
  <2>1. Somewhere(p, found, A, B)
    BY <1>5, <1>7
  <2>2. ASSUME NEW k \in DOMAIN B, p \in B[k] PROVE \E j \in DOMAIN B2 : p \in B2[j]
    <3>1. k # 1
      BY <1>7, <2>2
    <3> QED BY <1>3, <2>2, <3>1
  <2> QED BY <2>1, <2>2 DEF Somewhere
<1>8. ASSUME NEW p, Somewhere(p, found, A, B2) PROVE p \in U /\ p \notin X
  <2>1. CASE p \in ToSet(found)
    BY <1>1, <1>5, <2>1 DEF Somewhere, Apart
  <2>2. CASE \E k \in DOMAIN A : p \in A[k]
    BY <1>1, <1>5, <2>2 DEF Somewhere, Apart
  <2>3. ASSUME NEW k \in DOMAIN B2, p \in B2[k] PROVE p \in U /\ p \notin X
    <3>1. k + 1 \in DOMAIN B /\ p \in B[k + 1] /\ k + 1 # 1
      BY <1>2, <2>3
    <3>2. Somewhere(p, found, A, B)
      BY <3>1 DEF Somewhere
    <3>3. p \notin B[1]
      BY <1>1, <1>5, <3>1 DEF Apart
    <3> QED BY <1>5, <3>2, <3>3
  <2> QED BY <1>8, <2>1, <2>2, <2>3 DEF Somewhere
<1>9. ASSUME NEW p, NEW k, NEW l, k \in DOMAIN B2, l \in DOMAIN B2, p \in B2[k], p \in B2[l]
      PROVE  k = l
  <2>1. k + 1 = l + 1
    BY <1>2, <1>5, <1>9 DEF Apart
  <2> QED BY <1>4, <1>9, <2>1
<1>10. Apart(found, A, B2)
  <2>1. \A p, k : k \in DOMAIN B2 /\ p \in B2[k] => p \notin ToSet(found)
    BY <1>2, <1>5 DEF Apart
  <2>2. \A p, k, l : k \in DOMAIN A /\ l \in DOMAIN B2 => ~(p \in A[k] /\ p \in B2[l])
    BY <1>2, <1>5 DEF Apart
  <2> QED BY <1>5, <1>9, <2>1, <2>2 DEF Apart
<1> HIDE DEF X
<1>11. Divided(U \ X, found, A, B2)
  BY <1>5, <1>7, <1>8, <1>10 DEF Divided
<1>12. X \subseteq U
  BY <1>6
<1> QED
  BY <1>11, <1>12 DEF X

\* A set that was taken out becomes one of the sets A,
LEMMA DirPushed ==
    ASSUME NEW U, NEW X \in SUBSET U, NEW found, NEW A, NEW B, NEW A2, NEW n,
           Divided(U \ X, found, A, B), n \notin DOMAIN A, DOMAIN A2 = DOMAIN A \cup {n},
           \A k \in DOMAIN A : A2[k] = A[k], A2[n] = X
    PROVE  Divided(U, found, A2, B)
<1>1. \A k \in DOMAIN A2 : k = n \/ (k \in DOMAIN A /\ A2[k] = A[k])
  OBVIOUS
<1>2. n \in DOMAIN A2 /\ \A k \in DOMAIN A : k \in DOMAIN A2 /\ A2[k] = A[k]
  OBVIOUS
<1>3. /\ IsInjective(found) /\ Apart(found, A, B)
      /\ \A p : p \in U /\ p \notin X <=> Somewhere(p, found, A, B)
  BY DEF Divided
<1>4. ASSUME NEW p PROVE Somewhere(p, found, A2, B) <=> p \in X \/ Somewhere(p, found, A, B)
  BY <1>1, <1>2 DEF Somewhere
<1>5. ASSUME NEW p \in X
      PROVE  /\ p \notin ToSet(found) /\ \A k \in DOMAIN A : p \notin A[k]
             /\ \A k \in DOMAIN B : p \notin B[k]
  <2>1. ~Somewhere(p, found, A, B)
    BY <1>3
  <2> QED BY <2>1 DEF Somewhere
<1>6. Apart(found, A2, B)
  <2>1. \A p, k : k \in DOMAIN A2 /\ p \in A2[k] => p \notin ToSet(found)
    BY <1>1, <1>3, <1>5 DEF Apart
  <2>2. \A p, k, l : k \in DOMAIN A2 /\ l \in DOMAIN B => ~(p \in A2[k] /\ p \in B[l])
    BY <1>1, <1>3, <1>5 DEF Apart
  <2>3. \A p, k, l : k \in DOMAIN A2 /\ l \in DOMAIN A2 /\ p \in A2[k] /\ p \in A2[l] => k = l
    BY <1>1, <1>3, <1>5 DEF Apart
  <2> QED BY <1>3, <2>1, <2>2, <2>3 DEF Apart
<1>7. \A p : p \in U <=> Somewhere(p, found, A2, B)
  BY <1>3, <1>4
<1> QED
  BY <1>3, <1>6, <1>7 DEF Divided

\* a file found,
LEMMA FileFound ==
    ASSUME NEW U, NEW path \in U, NEW found, NEW A, NEW B, NEW found2,
           Divided(U \ {path}, found, A, B), IsInjective(found2),
           ToSet(found2) = ToSet(found) \cup {path}
    PROVE  Divided(U, found2, A, B)
<1>1. /\ Apart(found, A, B)
      /\ \A p : p \in U /\ p # path <=> Somewhere(p, found, A, B)
  BY DEF Divided
<1>2. /\ path \notin ToSet(found) /\ \A k \in DOMAIN A : path \notin A[k]
      /\ \A k \in DOMAIN B : path \notin B[k]
  <2>1. ~Somewhere(path, found, A, B)
    BY <1>1
  <2> QED BY <2>1 DEF Somewhere
<1>3. ASSUME NEW p PROVE Somewhere(p, found2, A, B) <=> p = path \/ Somewhere(p, found, A, B)
  BY DEF Somewhere
<1>4. \A p : p \in U <=> Somewhere(p, found2, A, B)
  BY <1>1, <1>3
<1>5. Apart(found2, A, B)
  BY <1>1, <1>2 DEF Apart
<1> QED
  BY <1>4, <1>5 DEF Divided

\* or is divided into sets B.
LEMMA DirRead ==
    ASSUME NEW U, NEW X \in SUBSET U, NEW found, NEW A, NEW none, NEW B,
           Divided(U \ X, found, A, none), DOMAIN none = {},
           \A p : p \in X <=> \E k \in DOMAIN B : p \in B[k],
           \A p, k, l : k \in DOMAIN B /\ l \in DOMAIN B /\ p \in B[k] /\ p \in B[l] => k = l
    PROVE  Divided(U, found, A, B)
<1>1. /\ IsInjective(found) /\ Apart(found, A, none) /\ \A k : k \notin DOMAIN none
      /\ \A p : p \in U /\ p \notin X <=> Somewhere(p, found, A, none)
  BY DEF Divided
<1>2. \A p : p \in U /\ p \notin X <=> p \in ToSet(found) \/ \E k \in DOMAIN A : p \in A[k]
  BY <1>1 DEF Somewhere
<1>3. ASSUME NEW p PROVE p \in U <=> Somewhere(p, found, A, B)
  BY <1>2 DEF Somewhere
<1>4. \A p, k : k \in DOMAIN B /\ p \in B[k] => p \in X
  OBVIOUS
<1>5. Apart(found, A, B)
  <2>1. \A p, k : k \in DOMAIN B /\ p \in B[k] => p \notin ToSet(found)
    BY <1>2, <1>4
  <2>2. \A p, k, l : k \in DOMAIN A /\ l \in DOMAIN B => ~(p \in A[k] /\ p \in B[l])
    BY <1>2, <1>4
  <2> QED BY <1>1, <2>1, <2>2 DEF Apart
<1> QED
  BY <1>1, <1>3, <1>5 DEF Divided

\* One of the sets A is taken out.
LEMMA DirPopped ==
    ASSUME NEW U, NEW found, NEW A, NEW B, NEW A2, NEW n \in DOMAIN A,
           Divided(U, found, A, B), DOMAIN A2 = DOMAIN A \ {n},
           \A k \in DOMAIN A2 : A2[k] = A[k]
    PROVE  Divided(U \ A[n], found, A2, B) /\ A[n] \subseteq U
<1> DEFINE X == A[n]
<1>1. IsInjective(found) /\ Apart(found, A, B) /\ \A p : p \in U <=> Somewhere(p, found, A, B)
  BY DEF Divided
<1>2. \A k \in DOMAIN A2 : k \in DOMAIN A /\ k # n /\ A2[k] = A[k]
  OBVIOUS
<1>3. \A k \in DOMAIN A : k # n => k \in DOMAIN A2 /\ A2[k] = A[k]
  OBVIOUS
<1>4. ASSUME NEW p \in X
      PROVE  p \in U /\ ~Somewhere(p, found, A2, B)
  <2>1. p \in U
    BY <1>1 DEF Somewhere
  <2>2. /\ p \notin ToSet(found)
        /\ \A k \in DOMAIN B : p \notin B[k]
    BY <1>1 DEF Apart
  <2>3. \A k \in DOMAIN A2 : p \notin A2[k]
    BY <1>1, <1>2 DEF Apart
  <2> QED BY <2>1, <2>2, <2>3 DEF Somewhere
<1>5. ASSUME NEW p, p \in U, p \notin X PROVE Somewhere(p, found, A2, B)
  <2>1. Somewhere(p, found, A, B)
    BY <1>1, <1>5
  <2>2. ASSUME NEW k \in DOMAIN A, p \in A[k] PROVE \E j \in DOMAIN A2 : p \in A2[j]
    BY <1>3, <1>5, <2>2
  <2> QED BY <2>1, <2>2 DEF Somewhere
<1>6. ASSUME NEW p, Somewhere(p, found, A2, B) PROVE p \in U
  BY <1>1, <1>2, <1>6 DEF Somewhere
<1>7. Apart(found, A2, B)
  BY <1>1, <1>2 DEF Apart
<1> HIDE DEF X
<1>8. \A p : p \in U \ X <=> Somewhere(p, found, A2, B)
  BY <1>4, <1>5, <1>6
<1>9. Divided(U \ X, found, A2, B)
  BY <1>1, <1>7, <1>8 DEF Divided
<1> QED
  BY <1>4, <1>9 DEF X

-----------------------------------------------------------------------------
(* What Kept and split do with one element more *)

LEMMA KeptType ==
    ASSUME NEW T, NEW those \in SUBSET T, NEW paths, Len(paths) \in Nat
    PROVE  Kept(paths, those) \in Seq(T)
<1> DEFINE N == Len(paths)
           X == Seq(T)
           b == <<>>
           F(x, n) == IF paths[n] \in those THEN Append(x, paths[n]) ELSE x
           Solves(g) == g = [n \in 0 .. N |-> IF n = 0 THEN b ELSE F(g[n - 1], n)]
           kept == CHOOSE g : Solves(g)
<1>1. N \in Nat
  OBVIOUS
<1>2. Kept(paths, those) = kept[N]
  BY DEF Kept
<1>3. b \in X
  OBVIOUS
<1>4. ASSUME NEW n \in 1 .. N, NEW x \in X PROVE F(x, n) \in X
  BY AppendProperties
<1> HIDE DEF F, b, X
<1>5. /\ kept[0] = b /\ (\A n \in 1 .. N : kept[n] = F(kept[n - 1], n))
      /\ \A n \in 0 .. N : kept[n] \in X
  <2> DEFINE step == [n \in 1 .. N |-> [x \in X |-> F(x, n)]]
  <2>1. \A n \in 1 .. N, x \in X : step[n][x] = F(x, n)
    OBVIOUS
  <2>2. \A n \in 1 .. N, x \in X : step[n][x] \in X
    BY <1>1, <1>3, <1>4, <2>1
  <2> HIDE DEF step
  <2>3. PICK g : g \in Recursion(N, X, b, step)
    BY <1>1, <1>3, <1>4, <2>2, RecursionExists
  <2>4. /\ g \in [0 .. N -> X] /\ g[0] = b
        /\ \A n \in 1 .. N : g[n] = step[n][g[n - 1]]
    BY <2>3 DEF Recursion
  <2>5. ASSUME NEW n \in 0 .. N, n # 0 PROVE g[n] = F(g[n - 1], n)
    <3>1. n \in 1 .. N /\ n - 1 \in 0 .. N
      BY <1>1, <1>3, <1>4, <2>5
    <3> QED BY <2>1, <2>4, <3>1
  <2>6. Solves(g)
    BY <2>4, <2>5
  <2>7. Solves(kept)
    <3> HIDE DEF Solves
    <3> QED BY <2>6
  <2> HIDE DEF kept
  <2>8. kept[0] = b /\ \A n \in 1 .. N : kept[n] = F(kept[n - 1], n)
    BY <1>1, <1>3, <1>4, <2>7
  <2> DEFINE S == {n \in 0 .. N : kept[n] \in X}
  <2>9. 0 \in S
    BY <1>1, <1>3, <1>4, <2>8
  <2>10. ASSUME NEW n \in 1 .. N, n - 1 \in S PROVE n \in S
    BY <1>1, <1>3, <1>4, <2>8, <2>10
  <2> HIDE DEF S
  <2>11. 0 .. N \subseteq S
    BY <1>1, <1>3, <1>4, <2>9, <2>10, BoundedInduction
  <2> QED BY <2>8, <2>11 DEF S
<1> HIDE DEF kept
<1> QED
  BY <1>1, <1>2, <1>5 DEF X

With(kept, path, those) == IF path \in those THEN Append(kept, path) ELSE kept

\* The loop of Kept, whose result is the last of k
IsKept(k, T, those, paths, result) ==
    /\ k \in [0 .. Len(paths) -> Seq(T)]
    /\ k[0] = <<>> /\ result = k[Len(paths)]
    /\ \A n \in 1 .. Len(paths) : k[n] = With(k[n - 1], paths[n], those)

LEMMA KeptRuns ==
    ASSUME NEW T, NEW those, NEW paths \in Seq(T)
    PROVE  \E k : IsKept(k, T, those, paths, Kept(paths, those))
<1> DEFINE N == Len(paths)
           X == Seq(T)
           b == <<>>
           F(x, n) == IF paths[n] \in those THEN Append(x, paths[n]) ELSE x
           Solves(g) == g = [n \in 0 .. N |-> IF n = 0 THEN b ELSE F(g[n - 1], n)]
           kept == CHOOSE g : Solves(g)
<1>1. N \in Nat /\ \A n \in 1 .. N : paths[n] \in T
  BY LenProperties
<1>2. Kept(paths, those) = kept[N]
  BY DEF Kept
<1>3. b \in X
  OBVIOUS
<1>4. \A n \in 1 .. N, x \in X : F(x, n) \in X
  BY <1>1, AppendProperties
<1>5. \A n \in 1 .. N, x \in X : F(x, n) = With(x, paths[n], those)
  BY DEF With
<1> HIDE DEF F, b, X
<1>6. /\ kept[0] = b /\ (\A n \in 1 .. N : kept[n] = F(kept[n - 1], n))
      /\ \A n \in 0 .. N : kept[n] \in X
  <2> DEFINE step == [n \in 1 .. N |-> [x \in X |-> F(x, n)]]
  <2>1. \A n \in 1 .. N, x \in X : step[n][x] = F(x, n)
    OBVIOUS
  <2>2. \A n \in 1 .. N, x \in X : step[n][x] \in X
    BY <1>1, <1>3, <1>4, <2>1
  <2> HIDE DEF step
  <2>3. PICK g : g \in Recursion(N, X, b, step)
    BY <1>1, <1>3, <1>4, <2>2, RecursionExists
  <2>4. /\ g \in [0 .. N -> X] /\ g[0] = b
        /\ \A n \in 1 .. N : g[n] = step[n][g[n - 1]]
    BY <2>3 DEF Recursion
  <2>5. ASSUME NEW n \in 0 .. N, n # 0 PROVE g[n] = F(g[n - 1], n)
    <3>1. n \in 1 .. N /\ n - 1 \in 0 .. N
      BY <1>1, <1>3, <1>4, <2>5
    <3> QED BY <2>1, <2>4, <3>1
  <2>6. Solves(g)
    BY <2>4, <2>5
  <2>7. Solves(kept)
    <3> HIDE DEF Solves
    <3> QED BY <2>6
  <2> HIDE DEF kept
  <2>8. kept[0] = b /\ \A n \in 1 .. N : kept[n] = F(kept[n - 1], n)
    BY <1>1, <1>3, <1>4, <2>7
  <2> DEFINE S == {n \in 0 .. N : kept[n] \in X}
  <2>9. 0 \in S
    BY <1>1, <1>3, <1>4, <2>8
  <2>10. ASSUME NEW n \in 1 .. N, n - 1 \in S PROVE n \in S
    BY <1>1, <1>3, <1>4, <2>8, <2>10
  <2> HIDE DEF S
  <2>11. 0 .. N \subseteq S
    BY <1>1, <1>3, <1>4, <2>9, <2>10, BoundedInduction
  <2> QED BY <2>8, <2>11 DEF S
<1> HIDE DEF kept
<1> DEFINE k == [n \in 0 .. N |-> kept[n]]
<1>7. k \in [0 .. N -> Seq(T)] /\ k[0] = <<>> /\ Kept(paths, those) = k[N]
  BY <1>1, <1>2, <1>6 DEF b, X
<1>8. ASSUME NEW n \in 1 .. N PROVE k[n] = With(k[n - 1], paths[n], those)
  <2>1. n \in 0 .. N /\ n - 1 \in 0 .. N
    BY <1>1
  <2> QED BY <1>5, <1>6, <2>1
<1>9. IsKept(k, T, those, paths, Kept(paths, those))
  BY <1>7, <1>8 DEF IsKept
<1> QED
  BY <1>9

\* One path more, kept if it is among those
LEMMA KeptMore ==
    ASSUME NEW T, NEW those, NEW paths \in Seq(T), NEW path \in T
    PROVE  Kept(Append(paths, path), those) = With(Kept(paths, those), path, those)
<1> DEFINE M == Len(paths)
           v == Append(paths, path)
<1>1. M \in Nat
  BY LenProperties
<1> DEFINE result == Kept(paths, those)
           longer == Kept(v, those)
<1>a. PICK k : IsKept(k, T, those, paths, result)
  BY KeptRuns
<1> HIDE DEF result
<1>2. /\ k \in [0 .. M -> Seq(T)] /\ k[0] = <<>> /\ result = k[M]
      /\ \A n \in 1 .. M : k[n] = With(k[n - 1], paths[n], those)
  BY <1>a DEF IsKept
<1>3. /\ v \in Seq(T) /\ Len(v) = M + 1 /\ v[M + 1] = path
      /\ \A i \in 1 .. M : v[i] = paths[i]
  BY AppendProperties
<1> HIDE DEF v
<1>4. PICK kv : IsKept(kv, T, those, v, longer)
  BY <1>3, KeptRuns
<1> HIDE DEF longer, M
<1>5. /\ kv \in [0 .. M + 1 -> Seq(T)] /\ kv[0] = <<>> /\ longer = kv[M + 1]
      /\ \A n \in 1 .. M + 1 : kv[n] = With(kv[n - 1], v[n], those)
  BY <1>3, <1>4 DEF IsKept
<1> DEFINE S == {n \in 0 .. M : kv[n] = k[n]}
<1>6. 0 \in S
  BY <1>1, <1>2, <1>5
<1>7. ASSUME NEW n \in 1 .. M, n - 1 \in S PROVE n \in S
  <2>1. n \in 1 .. M + 1 /\ n \in 0 .. M /\ kv[n - 1] = k[n - 1]
    BY <1>1, <1>7
  <2> QED BY <1>2, <1>3, <1>5, <2>1
<1>8. kv[M] = k[M]
  <2> HIDE DEF S
  <2>1. 0 .. M \subseteq S
    BY <1>1, <1>6, <1>7, BoundedInduction
  <2> QED BY <1>1, <2>1 DEF S
<1>9. kv[M + 1] = With(kv[M], path, those)
  <2>1. M + 1 \in 1 .. M + 1 /\ (M + 1) - 1 = M
    BY <1>1
  <2> QED BY <1>3, <1>5, <2>1
<1> QED
  BY <1>2, <1>5, <1>8, <1>9 DEF v, result, longer

LEMMA KeptNone ==
    ASSUME NEW those
    PROVE  Kept(<<>>, those) = <<>>
<1> DEFINE none == <<>>
           result == Kept(none, those)
<1>1. none \in Seq({}) /\ Len(none) = 0
  OBVIOUS
<1>2. PICK k : IsKept(k, {}, those, none, result)
  <2> HIDE DEF none
  <2> QED BY <1>1, KeptRuns
<1> HIDE DEF result
<1>3. result = <<>>
  BY <1>1, <1>2 DEF IsKept
<1> QED
  BY <1>3 DEF result

IsBoth(C, A, B) == C = A \cap B

\* What is kept of what is kept; no more is kept than there is.
LEMMA KeptTwice ==
    ASSUME NEW T, NEW A, NEW B, NEW C, IsBoth(C, A, B), NEW paths \in Seq(T)
    PROVE  /\ Kept(Kept(paths, A), B) = Kept(paths, C)
           /\ Kept(paths, A) \in Seq(T) /\ Len(Kept(paths, A)) <= Len(paths)
<1> DEFINE M == Len(paths)
<1>1. M \in Nat /\ \A n \in 1 .. M : paths[n] \in T
  BY LenProperties
<1>b. C = A \cap B
  BY DEF IsBoth
<1> DEFINE keptA == Kept(paths, A)
           keptC == Kept(paths, C)
<1>a. PICK a : IsKept(a, T, A, paths, keptA)
  BY KeptRuns
<1>c. PICK c : IsKept(c, T, C, paths, keptC)
  BY KeptRuns
<1> HIDE DEF keptA, keptC
<1>2. /\ a \in [0 .. M -> Seq(T)] /\ a[0] = <<>> /\ keptA = a[M]
      /\ \A n \in 1 .. M : a[n] = With(a[n - 1], paths[n], A)
  BY <1>a DEF IsKept
<1>3. /\ c \in [0 .. M -> Seq(T)] /\ c[0] = <<>> /\ keptC = c[M]
      /\ \A n \in 1 .. M : c[n] = With(c[n - 1], paths[n], C)
  BY <1>c DEF IsKept
<1> HIDE DEF M
<1> DEFINE S == {n \in 0 .. M : Kept(a[n], B) = c[n] /\ Len(a[n]) <= n}
<1>4. 0 \in S
  <2>1. Len(<<>>) = 0
    OBVIOUS
  <2> QED BY <1>1, <1>2, <1>3, <2>1, KeptNone
<1>5. ASSUME NEW n \in 1 .. M, n - 1 \in S PROVE n \in S
  <2> DEFINE x == a[n - 1]
             path == paths[n]
  <2>1. /\ n \in 0 .. M /\ n - 1 \in 0 .. M /\ x \in Seq(T) /\ path \in T /\ Len(x) \in Nat
        /\ Kept(x, B) = c[n - 1] /\ Len(x) <= n - 1
    <3>1. n \in 0 .. M /\ n - 1 \in 0 .. M
      BY <1>1
    <3>2. x \in Seq(T) /\ path \in T
      BY <1>1, <1>2, <3>1
    <3> QED BY <1>5, <3>1, <3>2, LenProperties
  <2>2. a[n] = With(x, path, A) /\ c[n] = With(c[n - 1], path, C)
    BY <1>2, <1>3
  <2> HIDE DEF x, path
  <2>3. CASE path \in A
    <3>1. a[n] = Append(x, path)
      BY <2>2, <2>3 DEF With
    <3>2. Kept(a[n], B) = With(Kept(x, B), path, B)
      BY <2>1, <3>1, KeptMore
    <3>3. Kept(a[n], B) = c[n]
      BY <1>b, <2>1, <2>2, <2>3, <3>2 DEF With
    <3>4. Len(a[n]) = Len(x) + 1
      BY <2>1, <3>1, AppendProperties
    <3>5. Len(a[n]) <= n
      BY <1>1, <2>1, <3>4
    <3> QED BY <2>1, <3>3, <3>5
  <2>4. CASE path \notin A
    <3>1. a[n] = x /\ c[n] = c[n - 1]
      BY <1>b, <2>2, <2>4 DEF With
    <3>2. Len(x) <= n
      BY <1>1, <2>1
    <3> QED BY <2>1, <3>1, <3>2
  <2> QED BY <2>3, <2>4
<1>6. Kept(a[M], B) = c[M] /\ Len(a[M]) <= M
  <2> HIDE DEF S
  <2>1. 0 .. M \subseteq S
    BY <1>1, <1>4, <1>5, BoundedInduction
  <2> QED BY <1>1, <2>1 DEF S
<1>7. a[M] \in Seq(T)
  BY <1>1, <1>2
<1> QED
  BY <1>2, <1>3, <1>6, <1>7 DEF M, keptA, keptC

\* The parts of a string, the one behind the last delimiter too
AllParts(string, delimiter) ==
    LET Step(parts, ch) == IF ch = delimiter THEN Append(parts, <<>>)
                           ELSE [parts EXCEPT ![Len(parts)] = Append(@, ch)]
        parts[n \in 0 .. Len(string)] ==
            IF n = 0 THEN << <<>> >> ELSE Step(parts[n - 1], string[n])
    IN  parts[Len(string)]

OneChar(parts, ch, delimiter) ==
    IF ch = delimiter THEN Append(parts, <<>>)
    ELSE [parts EXCEPT ![Len(parts)] = Append(@, ch)]

SomeParts(T) == {x \in Seq(Seq(T)) : x # <<>>}

LEMMA SplitIs ==
    ASSUME NEW string, NEW delimiter
    PROVE  split(string, delimiter) = IF string # <<>> /\ Last(string) = delimiter
                                      THEN Front(AllParts(string, delimiter))
                                      ELSE AllParts(string, delimiter)
BY DEF split, AllParts

LEMMA OneCharType ==
    ASSUME NEW T, NEW x \in SomeParts(T), NEW ch \in T, NEW delimiter
    PROVE  OneChar(x, ch, delimiter) \in SomeParts(T)
<1>1. <<>> \in Seq(T) /\ x \in Seq(Seq(T)) /\ x # <<>>
  BY DEF SomeParts
<1>2. Len(x) \in 1 .. Len(x) /\ x[Len(x)] \in Seq(T)
  BY <1>1, EmptySeq, ElementOfSeq
<1>3. Append(x[Len(x)], ch) \in Seq(T)
  BY <1>2, AppendProperties
<1>4. Append(x, <<>>) \in SomeParts(T)
  BY <1>1, AppendProperties DEF SomeParts
<1>5. [x EXCEPT ![Len(x)] = Append(@, ch)] \in SomeParts(T)
  <2> DEFINE y == Append(x[Len(x)], ch)
             z == [x EXCEPT ![Len(x)] = y]
  <2> HIDE DEF y
  <2>1. z \in Seq(Seq(T)) /\ Len(z) = Len(x)
    BY <1>1, <1>2, <1>3, ExceptSeq DEF y
  <2>2. z # <<>>
    BY <1>2, <2>1, EmptySeq
  <2> QED BY <2>1, <2>2 DEF y, SomeParts
<1> QED
  BY <1>4, <1>5 DEF OneChar

\* The loop of split, whose result is the last of p
IsSplit(p, T, delimiter, string, result) ==
    /\ p \in [0 .. Len(string) -> SomeParts(T)]
    /\ p[0] = << <<>> >> /\ result = p[Len(string)]
    /\ \A n \in 1 .. Len(string) : p[n] = OneChar(p[n - 1], string[n], delimiter)

LEMMA SplitRuns ==
    ASSUME NEW T, NEW delimiter, NEW string \in Seq(T)
    PROVE  \E p : IsSplit(p, T, delimiter, string, AllParts(string, delimiter))
<1> DEFINE N == Len(string)
           X == SomeParts(T)
           b == << <<>> >>
           F(x, n) == IF string[n] = delimiter THEN Append(x, <<>>)
                      ELSE [x EXCEPT ![Len(x)] = Append(@, string[n])]
           Solves(g) == g = [n \in 0 .. N |-> IF n = 0 THEN b ELSE F(g[n - 1], n)]
           parts == CHOOSE g : Solves(g)
<1>1. N \in Nat /\ \A n \in 1 .. N : string[n] \in T
  BY LenProperties
<1>2. AllParts(string, delimiter) = parts[N]
  BY DEF AllParts
<1>3. b \in X
  BY DEF SomeParts
<1>5. \A n \in 1 .. N, x \in X : F(x, n) = OneChar(x, string[n], delimiter)
  BY DEF OneChar
<1> HIDE DEF F, b, X
<1>4. \A n \in 1 .. N, x \in X : F(x, n) \in X
  BY <1>1, <1>5, OneCharType DEF X
<1>6. /\ parts[0] = b /\ (\A n \in 1 .. N : parts[n] = F(parts[n - 1], n))
      /\ \A n \in 0 .. N : parts[n] \in X
  <2> DEFINE step == [n \in 1 .. N |-> [x \in X |-> F(x, n)]]
  <2>1. \A n \in 1 .. N, x \in X : step[n][x] = F(x, n)
    OBVIOUS
  <2>2. \A n \in 1 .. N, x \in X : step[n][x] \in X
    BY <1>1, <1>3, <1>4, <2>1
  <2> HIDE DEF step
  <2>3. PICK g : g \in Recursion(N, X, b, step)
    BY <1>1, <1>3, <1>4, <2>2, RecursionExists
  <2>4. /\ g \in [0 .. N -> X] /\ g[0] = b
        /\ \A n \in 1 .. N : g[n] = step[n][g[n - 1]]
    BY <2>3 DEF Recursion
  <2>5. ASSUME NEW n \in 0 .. N, n # 0 PROVE g[n] = F(g[n - 1], n)
    <3>1. n \in 1 .. N /\ n - 1 \in 0 .. N
      BY <1>1, <1>3, <1>4, <2>5
    <3> QED BY <2>1, <2>4, <3>1
  <2>6. Solves(g)
    BY <2>4, <2>5
  <2>7. Solves(parts)
    <3> HIDE DEF Solves
    <3> QED BY <2>6
  <2> HIDE DEF parts
  <2>8. parts[0] = b /\ \A n \in 1 .. N : parts[n] = F(parts[n - 1], n)
    BY <1>1, <1>3, <1>4, <2>7
  <2> DEFINE S == {n \in 0 .. N : parts[n] \in X}
  <2>9. 0 \in S
    BY <1>1, <1>3, <1>4, <2>8
  <2>10. ASSUME NEW n \in 1 .. N, n - 1 \in S PROVE n \in S
    BY <1>1, <1>3, <1>4, <2>8, <2>10
  <2> HIDE DEF S
  <2>11. 0 .. N \subseteq S
    BY <1>1, <1>3, <1>4, <2>9, <2>10, BoundedInduction
  <2> QED BY <2>8, <2>11 DEF S
<1> HIDE DEF parts
<1> DEFINE p == [n \in 0 .. N |-> parts[n]]
           result == AllParts(string, delimiter)
<1> HIDE DEF result
<1>7. p \in [0 .. N -> SomeParts(T)] /\ p[0] = << <<>> >> /\ result = p[N]
  BY <1>1, <1>2, <1>6 DEF b, X, result
<1>8. ASSUME NEW n \in 1 .. N PROVE p[n] = OneChar(p[n - 1], string[n], delimiter)
  <2>1. n \in 0 .. N /\ n - 1 \in 0 .. N
    BY <1>1
  <2> QED BY <1>5, <1>6, <2>1
<1>9. IsSplit(p, T, delimiter, string, result)
  <2> HIDE DEF p
  <2> QED BY <1>7, <1>8 DEF IsSplit
<1> QED
  BY <1>9 DEF result

LEMMA PartsNone ==
    ASSUME NEW delimiter
    PROVE  AllParts(<<>>, delimiter) = << <<>> >>
<1> DEFINE none == <<>>
           result == AllParts(none, delimiter)
<1>1. none \in Seq({}) /\ Len(none) = 0
  OBVIOUS
<1>2. PICK p : IsSplit(p, {}, delimiter, none, result)
  <2> HIDE DEF none
  <2> QED BY <1>1, SplitRuns
<1> HIDE DEF result
<1>3. result = << <<>> >>
  BY <1>1, <1>2 DEF IsSplit
<1> QED
  BY <1>3 DEF result

\* One character more
LEMMA PartsMore ==
    ASSUME NEW T, NEW delimiter, NEW string \in Seq(T), NEW ch \in T
    PROVE  /\ AllParts(string, delimiter) \in SomeParts(T)
           /\ AllParts(Append(string, ch), delimiter) = OneChar(AllParts(string, delimiter), ch, delimiter)
<1> DEFINE M == Len(string)
           v == Append(string, ch)
           result == AllParts(string, delimiter)
           longer == AllParts(v, delimiter)
           start == << <<>> >>
<1>1. M \in Nat
  BY LenProperties
<1>2. PICK k : IsSplit(k, T, delimiter, string, result)
  BY SplitRuns
<1> HIDE DEF result
<1>3. /\ k \in [0 .. M -> SomeParts(T)] /\ k[0] = start /\ result = k[M]
      /\ \A n \in 1 .. M : k[n] = OneChar(k[n - 1], string[n], delimiter)
  BY <1>2 DEF IsSplit
<1>4. /\ v \in Seq(T) /\ Len(v) = M + 1 /\ v[M + 1] = ch
      /\ \A i \in 1 .. M : v[i] = string[i]
  BY AppendProperties
<1> HIDE DEF v
<1>5. PICK kv : IsSplit(kv, T, delimiter, v, longer)
  BY <1>4, SplitRuns
<1> HIDE DEF longer, M
<1>6. /\ kv \in [0 .. M + 1 -> SomeParts(T)] /\ kv[0] = start /\ longer = kv[M + 1]
      /\ \A n \in 1 .. M + 1 : kv[n] = OneChar(kv[n - 1], v[n], delimiter)
  BY <1>4, <1>5 DEF IsSplit
<1> HIDE DEF start
<1> DEFINE S == {n \in 0 .. M : kv[n] = k[n]}
<1>7. 0 \in S
  BY <1>1, <1>3, <1>6
<1>8. ASSUME NEW n \in 1 .. M, n - 1 \in S PROVE n \in S
  <2>1. n \in 1 .. M + 1 /\ n \in 0 .. M /\ kv[n - 1] = k[n - 1]
    BY <1>1, <1>8
  <2> QED BY <1>3, <1>4, <1>6, <2>1
<1>9. kv[M] = k[M]
  <2> HIDE DEF S
  <2>1. 0 .. M \subseteq S
    BY <1>1, <1>7, <1>8, BoundedInduction
  <2> QED BY <1>1, <2>1 DEF S
<1>10. kv[M + 1] = OneChar(kv[M], ch, delimiter)
  <2>1. M + 1 \in 1 .. M + 1 /\ (M + 1) - 1 = M
    BY <1>1
  <2> QED BY <1>4, <1>6, <2>1
<1>11. result \in SomeParts(T)
  BY <1>1, <1>3
<1> QED
  BY <1>3, <1>6, <1>9, <1>10, <1>11 DEF v, result, longer

LEMMA AppendedToBoth ==
    ASSUME NEW T, NEW s \in Seq(T), NEW t \in Seq(T), NEW ch \in T
    PROVE  s \o Append(t, ch) = Append(s \o t, ch)
OBVIOUS

\* The last part goes on with text.
Longer(parts, text) == [parts EXCEPT ![Len(parts)] = @ \o text]

IsLonger(T, l, x, text) ==
    /\ l \in SomeParts(T) /\ Len(l) = Len(x)
    /\ l[Len(x)] = x[Len(x)] \o text /\ x[Len(x)] \in Seq(T)
    /\ \A i \in 1 .. Len(x) - 1 : l[i] = x[i]
    /\ Len(x) \in Nat /\ Len(x) >= 1

LEMMA LongerIs ==
    ASSUME NEW T, NEW x \in SomeParts(T), NEW text \in Seq(T)
    PROVE  IsLonger(T, Longer(x, text), x, text)
<1>1. x \in Seq(Seq(T)) /\ x # <<>>
  BY DEF SomeParts
<1>2. Len(x) \in Nat /\ Len(x) \in 1 .. Len(x) /\ x[Len(x)] \in Seq(T)
  BY <1>1, EmptySeq, ElementOfSeq, LenProperties
<1> DEFINE m == Len(x)
           y == x[m] \o text
           z == [x EXCEPT ![m] = y]
<1>3. y \in Seq(T)
  BY <1>2, ConcatProperties
<1>4. DOMAIN x = 1 .. m
  BY <1>1, LenProperties
<1> HIDE DEF y, m
<1>5. z[m] = y /\ \A i \in 1 .. m - 1 : z[i] = x[i]
  <2>1. m \in DOMAIN x /\ \A i \in 1 .. m - 1 : i \in DOMAIN x /\ i # m
    <3>1. m \in Nat /\ m \in 1 .. m
      BY <1>2 DEF m
    <3> QED BY <1>4, <3>1
  <2> QED BY <2>1
<1>6. z \in Seq(Seq(T)) /\ Len(z) = m
  BY <1>1, <1>2, <1>3, ExceptSeq DEF m
<1>7. z = Longer(x, text)
  BY DEF Longer, y, m
<1> HIDE DEF z
<1>8. m \in Nat /\ m >= 1
  BY <1>2 DEF m
<1>9. z # <<>>
  BY <1>6, <1>8, EmptySeq
<1> QED
  BY <1>2, <1>5, <1>6, <1>7, <1>8, <1>9 DEF SomeParts, IsLonger, y, m

\* A text without the delimiter belongs to the last part.
LEMMA PartsText ==
    ASSUME NEW T, NEW delimiter, NEW string \in Seq(T), NEW text \in Seq(T),
           \A i \in 1 .. Len(text) : text[i] # delimiter
    PROVE  AllParts(string \o text, delimiter) = Longer(AllParts(string, delimiter), text)
<1> DEFINE N == Len(text)
           x == AllParts(string, delimiter)
           Upto(n) == SubSeq(text, 1, n)
<1>1. N \in Nat /\ \A n \in 1 .. N : text[n] \in T
  BY LenProperties
<1>2. x \in SomeParts(T)
  <2>1. CASE T = {}
    <3>1. string = <<>>
      BY <2>1, EmptySeq, LenProperties
    <3>2. x = << <<>> >>
      BY <3>1, PartsNone
    <3> QED BY <3>2 DEF SomeParts
  <2>2. CASE T # {}
    BY <2>2, PartsMore
  <2> QED BY <2>1, <2>2
<1>3. \A n \in 0 .. N : Upto(n) \in Seq(T) /\ Len(Upto(n)) = n /\ \A i \in 1 .. n : Upto(n)[i] = text[i]
  BY <1>1
<1>4. ASSUME NEW n \in 1 .. N PROVE Upto(n) = Append(Upto(n - 1), text[n])
  BY <1>1
<1> HIDE DEF x, Upto
<1> DEFINE S == {n \in 0 .. N : AllParts(string \o Upto(n), delimiter) = Longer(x, Upto(n))}
<1>5. 0 \in S
  <2>1. Upto(0) = <<>>
    BY <1>1, <1>3, EmptySeq
  <2>2. string \o <<>> = string
    OBVIOUS
  <2>3. Longer(x, <<>>) = x
    <3>0. <<>> \in Seq(T)
      OBVIOUS
    <3>1. x[Len(x)] \o <<>> = x[Len(x)]
      BY <1>2, <3>0, LongerIs DEF IsLonger
    <3>2. x \in Seq(Seq(T))
      BY <1>2 DEF SomeParts
    <3> QED BY <3>1, <3>2 DEF Longer
  <2>4. AllParts(string \o Upto(0), delimiter) = Longer(x, Upto(0))
    BY <2>1, <2>2, <2>3 DEF x
  <2> QED BY <1>1, <2>4
<1>6. ASSUME NEW n \in 1 .. N, n - 1 \in S PROVE n \in S
  <2> DEFINE u == Upto(n - 1)
             ch == text[n]
             s == string \o u
             y == Longer(x, u)
  <2>1. /\ n \in 0 .. N /\ u \in Seq(T) /\ ch \in T /\ ch # delimiter
        /\ Upto(n) = Append(u, ch) /\ AllParts(s, delimiter) = y
    <3>1. n \in 0 .. N /\ n - 1 \in 0 .. N
      BY <1>1
    <3> QED BY <1>1, <1>3, <1>4, <1>6, <3>1
  <2> HIDE DEF u, ch
  <2>2. s \in Seq(T) /\ string \o Append(u, ch) = Append(s, ch)
    BY <2>1, ConcatProperties
  <2>3. /\ y \in SomeParts(T) /\ Len(y) = Len(x) /\ y[Len(x)] = x[Len(x)] \o u
        /\ x[Len(x)] \in Seq(T) /\ Len(x) \in Nat
    BY <1>2, <2>1, LongerIs DEF IsLonger
  <2> HIDE DEF s, y
  <2>4. AllParts(Append(s, ch), delimiter) = OneChar(y, ch, delimiter)
    BY <2>1, <2>2, PartsMore
  <2>5. OneChar(y, ch, delimiter) = [y EXCEPT ![Len(x)] = Append(y[Len(x)], ch)]
    BY <2>1, <2>3 DEF OneChar
  <2>6. Append(x[Len(x)] \o u, ch) = x[Len(x)] \o Append(u, ch)
    <3> DEFINE w == x[Len(x)]
    <3> HIDE DEF w
    <3>1. w \in Seq(T)
      BY <2>3 DEF w
    <3>2. u \in Seq(T) /\ ch \in T
      BY <2>1
    <3>3. w \o Append(u, ch) = Append(w \o u, ch)
      BY <3>1, <3>2, AppendedToBoth
    <3> QED BY <3>3 DEF w
  <2>7. [y EXCEPT ![Len(x)] = Append(y[Len(x)], ch)] = Longer(x, Append(u, ch))
    <3> DEFINE new == x[Len(x)] \o Append(u, ch)
    <3>1. y = [x EXCEPT ![Len(x)] = x[Len(x)] \o u]
      BY DEF y, Longer
    <3>2. Append(y[Len(x)], ch) = new
      BY <2>3, <2>6
    <3> HIDE DEF new
    <3>3. [y EXCEPT ![Len(x)] = new] = [x EXCEPT ![Len(x)] = new]
      BY <3>1
    <3> QED BY <3>2, <3>3 DEF Longer, new
  <2> QED BY <2>1, <2>2, <2>4, <2>5, <2>7
<1>7. AllParts(string \o Upto(N), delimiter) = Longer(x, Upto(N))
  <2> HIDE DEF S
  <2>1. 0 .. N \subseteq S
    BY <1>1, <1>5, <1>6, BoundedInduction
  <2> QED BY <1>1, <2>1 DEF S
<1>8. Upto(N) = text
  BY <1>1 DEF Upto
<1> QED
  BY <1>7, <1>8 DEF x

\* Without a delimiter there is one part; behind a delimiter there is one more.
LEMMA PartsJoined ==
    ASSUME NEW T, NEW delimiter \in T, NEW string \in Seq(T), NEW text \in Seq(T),
           \A i \in 1 .. Len(text) : text[i] # delimiter
    PROVE  /\ AllParts(text, delimiter) = <<text>>
           /\ AllParts(string \o <<delimiter>> \o text, delimiter)
                 = Append(AllParts(string, delimiter), text)
<1>1. ASSUME NEW x \in Seq(Seq(T)) PROVE Longer(Append(x, <<>>), text) = Append(x, text)
  <2> DEFINE none == <<>>
             y == Append(x, none)
             z == Append(x, text)
             l == Longer(y, text)
             n == Len(x) + 1
  <2>1. none \in Seq(T) /\ none \o text = text
    OBVIOUS
  <2> HIDE DEF none
  <2>2. /\ n \in Nat /\ n >= 1
        /\ y \in Seq(Seq(T)) /\ Len(y) = n /\ y[n] = none /\ (\A i \in 1 .. n - 1 : y[i] = x[i])
        /\ z \in Seq(Seq(T)) /\ Len(z) = n /\ z[n] = text /\ (\A i \in 1 .. n - 1 : z[i] = x[i])
    BY <2>1, AppendProperties, LenProperties
  <2>3. y \in SomeParts(T)
    BY <2>2, EmptySeq DEF SomeParts
  <2> HIDE DEF y, z, n
  <2>8. IsLonger(T, l, y, text)
    BY <2>3, LongerIs
  <2> HIDE DEF l
  <2>4. /\ l \in SomeParts(T) /\ Len(l) = n /\ l[n] = none \o text
        /\ \A i \in 1 .. n - 1 : l[i] = y[i]
    BY <2>2, <2>8 DEF IsLonger
  <2>5. l \in Seq(Seq(T))
    BY <2>4 DEF SomeParts
  <2>6. \A i \in 1 .. n : l[i] = z[i]
    <3>1. \A i \in 1 .. n : i = n \/ i \in 1 .. n - 1
      BY <2>2
    <3> QED BY <2>1, <2>2, <2>4, <3>1
  <2>7. l = z
    BY <2>2, <2>4, <2>5, <2>6, SeqEqual
  <2> QED BY <2>7 DEF l, y, z, none
<1>2. AllParts(text, delimiter) = <<text>>
  <2> DEFINE none == <<>>
             nothing == <<>>
  <2>1. none \in Seq(T) /\ none \o text = text
    OBVIOUS
  <2>2. AllParts(none, delimiter) = Append(<<>>, <<>>)
    BY PartsNone
  <2> HIDE DEF none
  <2>3. AllParts(none \o text, delimiter) = Longer(AllParts(none, delimiter), text)
    BY <2>1, PartsText
  <2>4. nothing \in Seq(Seq(T))
    OBVIOUS
  <2>5. Longer(Append(nothing, <<>>), text) = Append(nothing, text)
    BY <1>1, <2>4
  <2>6. Append(nothing, text) = <<text>>
    OBVIOUS
  <2> QED BY <2>1, <2>2, <2>3, <2>5, <2>6
<1>3. AllParts(string \o <<delimiter>> \o text, delimiter) = Append(AllParts(string, delimiter), text)
  <2> DEFINE s == string \o <<delimiter>>
             x == AllParts(string, delimiter)
  <2>1. s = Append(string, delimiter) /\ s \in Seq(T)
    OBVIOUS
  <2> HIDE DEF s
  <2>2. AllParts(s, delimiter) = Append(x, <<>>)
    BY <2>1, PartsMore DEF OneChar
  <2>3. x \in Seq(Seq(T))
    BY PartsMore DEF SomeParts
  <2> HIDE DEF x
  <2>4. AllParts(s \o text, delimiter) = Longer(Append(x, <<>>), text)
    BY <2>1, <2>2, PartsText
  <2>5. AllParts(s \o text, delimiter) = Append(x, text)
    BY <1>1, <2>3, <2>4
  <2> QED BY <2>5 DEF s, x
<1> QED
  BY <1>2, <1>3

-----------------------------------------------------------------------------
(* The directories that the environment names *)

LEMMA ConcatIs ==
    ASSUME NEW T, NEW s \in Seq(T), NEW t \in Seq(T)
    PROVE  /\ s \o t \in Seq(T) /\ Len(s \o t) = Len(s) + Len(t)
           /\ Len(s) \in Nat /\ Len(t) \in Nat
           /\ \A i \in 1 .. Len(s) : (s \o t)[i] = s[i]
           /\ \A i \in 1 .. Len(t) : (s \o t)[Len(s) + i] = t[i]
<1> DEFINE m == Len(s)
           n == Len(t)
           u == s \o t
<1>1. m \in Nat /\ n \in Nat
  BY LenProperties
<1>2. /\ u \in Seq(T) /\ Len(u) = m + n
      /\ \A i \in 1 .. m + n : u[i] = IF i <= m THEN s[i] ELSE t[i - m]
  BY ConcatProperties
<1> HIDE DEF m, n, u
<1>3. /\ \A i \in 1 .. m : i \in 1 .. m + n /\ i <= m
      /\ \A i \in 1 .. n : m + i \in 1 .. m + n /\ ~(m + i <= m) /\ (m + i) - m = i
  BY <1>1
<1>4. /\ \A i \in 1 .. m : u[i] = s[i]
      /\ \A i \in 1 .. n : u[m + i] = t[i]
  BY <1>2, <1>3
<1> QED
  BY <1>1, <1>2, <1>4 DEF m, n, u

LEMMA LastTwo ==
    ASSUME NEW T, NEW s \in Seq(T), NEW two \in Seq(T), Len(two) = 2
    PROVE  IsSuffix(two, s) <=> /\ Len(s) >= 2
                                /\ s[Len(s)] = two[2] /\ s[Len(s) - 1] = two[1]
<1> DEFINE n == Len(s)
           p == Reverse(two)
           q == Reverse(s)
<1>1. n \in Nat /\ \A i \in 1 .. n : s[i] \in T
  BY LenProperties
<1>2. p \in Seq(T) /\ Len(p) = 2 /\ p[1] = two[2] /\ p[2] = two[1]
  <2>1. p = [i \in 1 .. 2 |-> two[(2 - i) + 1]]
    BY DEF Reverse
  <2>2. two[1] \in T /\ two[2] \in T
    <3>1. 1 \in 1 .. Len(two) /\ 2 \in 1 .. Len(two)
      OBVIOUS
    <3> QED BY <3>1, ElementOfSeq
  <2>3. \A i \in 1 .. 2 : two[(2 - i) + 1] \in T
    BY <2>2
  <2> HIDE DEF p
  <2> QED BY <2>1, <2>3
<1>3. q = [i \in 1 .. n |-> s[(n - i) + 1]]
  BY DEF Reverse
<1>4. q \in Seq(T) /\ Len(q) = n /\ \A i \in 1 .. n : q[i] = s[(n - i) + 1]
  <2> HIDE DEF n, q
  <2>1. \A i \in 1 .. n : (n - i) + 1 \in 1 .. n
    BY <1>1
  <2> QED BY <1>1, <1>3, <2>1
<1> HIDE DEF p, q, n
<1>5. IsSuffix(two, s) <=> IsPrefix(p, q)
  BY DEF IsSuffix, p, q
<1>6. IsPrefix(p, q) <=> Len(p) <= Len(q) /\ \A i \in 1 .. Len(p) : p[i] = q[i]
  <2>1. p \in Seq(T) /\ q \in Seq(T)
    BY <1>2, <1>4
  <2> QED BY <2>1, PrefixIs
<1> HIDE DEF n
<1>7. (\A i \in 1 .. 2 : p[i] = q[i]) <=> p[1] = q[1] /\ p[2] = q[2]
  OBVIOUS
<1>8. n >= 2 => q[1] = s[n] /\ q[2] = s[n - 1]
  <2>1. n >= 2 => 1 \in 1 .. n /\ 2 \in 1 .. n /\ (n - 1) + 1 = n /\ (n - 2) + 1 = n - 1
    BY <1>1
  <2> QED BY <1>4, <2>1
<1>9. IsPrefix(p, q) <=> n >= 2 /\ p[1] = q[1] /\ p[2] = q[2]
  BY <1>1, <1>2, <1>4, <1>6, <1>7
<1> QED
  BY <1>2, <1>5, <1>8, <1>9 DEF n

\* The tails of a path: C is "/", A "/applications", and B "/applications/".
AreTails(T, C, A, B) ==
    /\ C \in Seq(T) /\ Len(C) = 1
    /\ A \in Seq(T) /\ Len(A) = 2 /\ A[1] = C[1] /\ A[2] # C[1]
    /\ B \in Seq(T) /\ Len(B) = 3 /\ B[1] = A[1] /\ B[2] = A[2] /\ B[3] = C[1]

LEMMA OneBehind ==
    ASSUME NEW T, NEW b \in Seq(T), NEW C \in Seq(T), Len(C) = 1
    PROVE  b \o C # <<>> /\ Last(b \o C) = C[1] /\ Front(b \o C) = b
<1> DEFINE c == b \o C
           n == Len(b)
           d == SubSeq(c, 1, n)
<1>1. /\ n \in Nat /\ c \in Seq(T) /\ Len(c) = n + 1 /\ c[n + 1] = C[1]
      /\ \A i \in 1 .. n : c[i] = b[i]
  <2>1. 1 \in 1 .. Len(C)
    OBVIOUS
  <2> QED BY <2>1, ConcatIs
<1>2. c # <<>>
  BY <1>1, EmptySeq
<1> HIDE DEF c
<1>3. d \in Seq(T) /\ Len(d) = n /\ \A i \in 1 .. n : d[i] = c[i]
  <2> HIDE DEF n
  <2> QED BY <1>1
<1> HIDE DEF d
<1>4. d = b
  BY <1>1, <1>3, SeqEqual
<1>5. Len(c) - 1 = n
  BY <1>1
<1>6. Last(c) = C[1] /\ Front(c) = d
  BY <1>1, <1>5 DEF Last, Front, d
<1> QED BY <1>2, <1>4, <1>6 DEF c

LEMMA TwoBehind ==
    ASSUME NEW T, NEW b \in Seq(T), NEW A \in Seq(T), Len(A) = 2
    PROVE  b \o A \in Seq(T) /\ b \o A # <<>> /\ Last(b \o A) = A[2] /\ IsSuffix(A, b \o A)
<1> DEFINE c == b \o A
           n == Len(b)
<1>1. /\ n \in Nat /\ c \in Seq(T) /\ Len(c) = n + 2 /\ c[n + 2] = A[2] /\ c[n + 1] = A[1]
  <2>1. 1 \in 1 .. Len(A) /\ 2 \in 1 .. Len(A)
    OBVIOUS
  <2>2. /\ n \in Nat /\ c \in Seq(T) /\ Len(c) = n + Len(A)
        /\ \A i \in 1 .. Len(A) : c[n + i] = A[i]
    BY ConcatIs
  <2> HIDE DEF c, n
  <2> QED BY <2>1, <2>2
<1>2. c # <<>>
  BY <1>1, EmptySeq
<1> HIDE DEF c, n
<1>3. Last(c) = A[2]
  BY <1>1 DEF Last
<1>4. Len(c) >= 2 /\ Len(c) - 1 = n + 1
  BY <1>1
<1>5. IsSuffix(A, c)
  BY <1>1, <1>4, LastTwo
<1> QED BY <1>1, <1>2, <1>3, <1>5 DEF c

LEMMA ThreeBehind ==
    ASSUME NEW T, NEW b \in Seq(T), NEW C, NEW A, NEW B, AreTails(T, C, A, B)
    PROVE  (b \o A) \o C = b \o B
<1>1. A \in Seq(T) /\ C \in Seq(T) /\ B \in Seq(T) /\ Len(C) = 1 /\ Len(A) = 2 /\ Len(B) = 3
  BY DEF AreTails
<1>2. A \o C = B
  <2> DEFINE d == A \o C
  <2>1. d \in Seq(T) /\ Len(d) = 3 /\ d[1] = A[1] /\ d[2] = A[2] /\ d[3] = C[1]
    <3>1. 1 \in 1 .. Len(A) /\ 2 \in 1 .. Len(A) /\ 1 \in 1 .. Len(C) /\ Len(A) + 1 = 3
      BY <1>1
    <3>2. Len(A) + Len(C) = 3
      BY <1>1
    <3>3. /\ d \in Seq(T) /\ Len(d) = Len(A) + Len(C)
          /\ \A i \in 1 .. Len(A) : d[i] = A[i]
          /\ \A i \in 1 .. Len(C) : d[Len(A) + i] = C[i]
      BY <1>1, ConcatIs, SMTT(30)
    <3> HIDE DEF d
    <3> QED BY <3>1, <3>2, <3>3
  <2>2. B[1] = A[1] /\ B[2] = A[2] /\ B[3] = C[1]
    BY DEF AreTails
  <2> HIDE DEF d
  <2>3. \A i \in 1 .. 3 : d[i] = B[i]
    <3>1. \A i \in 1 .. 3 : i = 1 \/ i = 2 \/ i = 3
      OBVIOUS
    <3> QED BY <2>1, <2>2, <3>1
  <2>4. d = B
    BY <1>1, <2>1, <2>3, SeqEqual
  <2> QED BY <2>4 DEF d
<1>3. (b \o A) \o C = b \o (A \o C)
  BY <1>1, ConcatAssociative, SMTT(30)
<1> QED
  BY <1>2, <1>3

\* The characters of the environment
EnvChars == Chars \cup {"/", ":", "usr-local", "share", "usr", "applications", "home", ".", "local"}

LEMMA TailType ==
    ASSUME NEW t \in Tails
    PROVE  t \in Seq(EnvChars)
<1> DEFINE A == <<"/", "applications">>
           B == <<"/", "applications", "/">>
           C == <<"/">>
           D == <<>>
<1>1. "/" \in EnvChars /\ "applications" \in EnvChars
  BY DEF EnvChars
<1>2. A \in Seq(EnvChars) /\ B \in Seq(EnvChars) /\ C \in Seq(EnvChars) /\ D \in Seq(EnvChars)
  BY <1>1
<1>3. t = A \/ t = B \/ t = C \/ t = D
  BY DEF Tails
<1> HIDE DEF A, B, C, D
<1> QED
  BY <1>2, <1>3

\* The elements of the environment and the defaults
Elements ==
    {e \in [root: Seq(EnvChars), name: Seq(EnvChars), tail: Tails] :
        LET base == e.root \o e.name
        IN  /\ e.tail \in {<<>>, <<"/">>} => ~IsSuffix(<<"/", "applications">>, base)
            /\ e.tail = <<>> /\ base # <<>> => Last(base) # "/"}

LEMMA PathElementIs == PathElements \subseteq Elements
<1> SUFFICES ASSUME NEW e \in PathElements PROVE e \in Elements
  OBVIOUS
<1>1. /\ e \in [root: Seq(Chars), name: Seq(Chars), tail: Tails]
      /\ e.tail \in {<<>>, <<"/">>} => ~IsSuffix(<<"/", "applications">>, e.root \o e.name)
      /\ e.tail = <<>> /\ e.root \o e.name # <<>> => Last(e.root \o e.name) # "/"
  BY DEF PathElements, String
<1>2. e \in [root: Seq(EnvChars), name: Seq(EnvChars), tail: Tails]
  <2>1. \A s \in Seq(Chars) : s \in Seq(EnvChars)
    BY DEF EnvChars
  <2> QED BY <1>1, <2>1
<1> QED
  BY <1>1, <1>2 DEF Elements

LEMMA WrittenType ==
    ASSUME NEW e \in Elements
    PROVE  Written(e) \in Seq(EnvChars) /\ e.root \o e.name \in Seq(EnvChars)
<1>1. e.root \in Seq(EnvChars) /\ e.name \in Seq(EnvChars) /\ e.tail \in Tails
  BY DEF Elements
<1>2. e.tail \in Seq(EnvChars)
  BY <1>1, TailType
<1>3. e.root \o e.name \in Seq(EnvChars)
  BY <1>1, ConcatProperties
<1>4. (e.root \o e.name) \o e.tail \in Seq(EnvChars)
  BY <1>2, <1>3, ConcatProperties, SMTT(30)
<1> QED
  BY <1>3, <1>4 DEF Written

\* add_applications_dir() makes the same directory of an element, however it ends.
LEMMA DirectoryOf ==
    ASSUME NEW e \in Elements
    PROVE  add_applications_dir(Written(e)) = Directory(e)
<1> DEFINE b == e.root \o e.name
           A == <<"/", "applications">>
           B == <<"/", "applications", "/">>
           C == <<"/">>
           T == EnvChars
<1>1. b \in Seq(T)
  BY WrittenType
<1>2. /\ e.tail \in {<<>>, C, A, B}
      /\ e.tail \in {<<>>, C} => ~IsSuffix(A, b)
      /\ e.tail = <<>> /\ b # <<>> => Last(b) # "/"
  BY DEF Elements, Tails
<1>3. Written(e) = b \o e.tail
  BY DEF Written
<1>4. "/" \in T /\ "applications" \in T /\ "/" # "applications"
  BY DEF EnvChars
<1>a. AreTails(T, C, A, B) /\ C[1] = "/" /\ A[2] = "applications"
  BY <1>4 DEF AreTails
<1> HIDE DEF A, B, C, T
<1>b. C \in Seq(T) /\ A \in Seq(T) /\ Len(C) = 1 /\ Len(A) = 2
  BY <1>a DEF AreTails
<1> HIDE DEF b
<1>5. /\ b \o C # <<>> /\ Last(b \o C) = "/" /\ Front(b \o C) = b
      /\ b \o A \in Seq(T) /\ b \o A # <<>>
      /\ Last(b \o A) = "applications" /\ IsSuffix(A, b \o A)
      /\ (b \o A) \o C = b \o B
  <2>1. b \o C # <<>> /\ Last(b \o C) = C[1] /\ Front(b \o C) = b
    BY <1>1, <1>b, OneBehind
  <2>2. b \o A \in Seq(T) /\ b \o A # <<>> /\ Last(b \o A) = A[2] /\ IsSuffix(A, b \o A)
    BY <1>1, <1>b, TwoBehind
  <2>3. (b \o A) \o C = b \o B
    BY <1>1, <1>a, ThreeBehind, SMTT(30)
  <2> QED BY <1>a, <2>1, <2>2, <2>3
<1>6. /\ (b \o A) \o C # <<>> /\ Last((b \o A) \o C) = "/" /\ Front((b \o A) \o C) = b \o A
  <2> DEFINE d == b \o A
  <2>1. d \in Seq(T)
    BY <1>5
  <2> HIDE DEF d
  <2>2. d \o C # <<>> /\ Last(d \o C) = C[1] /\ Front(d \o C) = d
    BY <1>b, <2>1, OneBehind
  <2> QED BY <1>a, <2>2 DEF d
<1>7. b \o <<>> = b
  BY <1>1
<1> DEFINE base(str) == IF str # <<>> /\ Last(str) = "/" THEN Front(str) ELSE str
           Dir(str) == (IF IsSuffix(A, base(str)) THEN base(str) ELSE base(str) \o A) \o C
<1>8. add_applications_dir(Written(e)) = Dir(Written(e))
  BY DEF add_applications_dir, A, C
<1>9. Dir(b \o e.tail) = b \o B
  <2>1. CASE e.tail = <<>>
    BY <1>2, <1>5, <1>7, <2>1
  <2>2. CASE e.tail = C
    BY <1>2, <1>5, <2>2
  <2>3. CASE e.tail = A
    BY <1>4, <1>5, <2>3
  <2>4. CASE e.tail = B
    BY <1>5, <1>6, <2>4
  <2> QED BY <1>2, <2>1, <2>2, <2>3, <2>4
<1> QED
  BY <1>3, <1>8, <1>9 DEF b, B, Directory

Colon == <<":">>

\* The loop that joins the elements
IsJoined(j, dirs, result) ==
    /\ j \in [0 .. Len(dirs) -> Seq(EnvChars)]
    /\ j[0] = <<>> /\ result = j[Len(dirs)]
    /\ \A n \in 1 .. Len(dirs) : j[n] = j[n - 1] \o (IF n = 1 THEN <<>> ELSE Colon) \o Written(dirs[n])

LEMMA DirsJoined ==
    ASSUME in \in Inputs
    PROVE  \E j : IsJoined(j, in.data_dirs, XdgDataDirs)
<1> DEFINE dirs == in.data_dirs
           N == Len(dirs)
           X == Seq(EnvChars)
           b == <<>>
           F(x, n) == x \o (IF n = 1 THEN <<>> ELSE <<":">>) \o Written(dirs[n])
           Solves(g) == g = [n \in 0 .. N |-> IF n = 0 THEN b ELSE F(g[n - 1], n)]
           joined == CHOOSE g : Solves(g)
<1>1. dirs \in Seq(PathElements)
  BY InputsAssumption
<1>2. N \in Nat /\ \A n \in 1 .. N : dirs[n] \in PathElements
  BY <1>1, LenProperties
<1>3. XdgDataDirs = joined[N]
  BY DEF XdgDataDirs
<1>4. b \in X
  OBVIOUS
<1>5. ASSUME NEW n \in 1 .. N, NEW x \in X PROVE F(x, n) \in X
  <2> DEFINE y == IF n = 1 THEN <<>> ELSE <<":">>
             z == Written(dirs[n])
  <2>1. y \in Seq(EnvChars)
    <3>1. ":" \in EnvChars
      BY DEF EnvChars
    <3>2. <<":">> \in Seq(EnvChars) /\ <<>> \in Seq(EnvChars)
      BY <3>1
    <3> QED BY <3>2
  <2>2. z \in Seq(EnvChars)
    BY <1>2, PathElementIs, WrittenType
  <2> HIDE DEF y, z
  <2>3. x \o y \in Seq(EnvChars)
    BY <2>1, ConcatProperties
  <2>4. (x \o y) \o z \in Seq(EnvChars)
    BY <2>2, <2>3, ConcatProperties
  <2> QED BY <2>4 DEF y, z
<1>6. \A n \in 1 .. N, x \in X : F(x, n) = x \o (IF n = 1 THEN <<>> ELSE Colon) \o Written(dirs[n])
  BY DEF Colon
<1> HIDE DEF F, b, X
<1>7. /\ joined[0] = b /\ (\A n \in 1 .. N : joined[n] = F(joined[n - 1], n))
      /\ \A n \in 0 .. N : joined[n] \in X
  <2> DEFINE step == [n \in 1 .. N |-> [x \in X |-> F(x, n)]]
  <2>1. \A n \in 1 .. N, x \in X : step[n][x] = F(x, n)
    OBVIOUS
  <2>2. \A n \in 1 .. N, x \in X : step[n][x] \in X
    BY <1>2, <1>4, <1>5, <2>1
  <2> HIDE DEF step
  <2>3. PICK g : g \in Recursion(N, X, b, step)
    BY <1>2, <1>4, <1>5, <2>2, RecursionExists
  <2>4. /\ g \in [0 .. N -> X] /\ g[0] = b
        /\ \A n \in 1 .. N : g[n] = step[n][g[n - 1]]
    BY <2>3 DEF Recursion
  <2>5. ASSUME NEW n \in 0 .. N, n # 0 PROVE g[n] = F(g[n - 1], n)
    <3>1. n \in 1 .. N /\ n - 1 \in 0 .. N
      BY <1>2, <1>4, <1>5, <2>5
    <3> QED BY <2>1, <2>4, <3>1
  <2>6. Solves(g)
    BY <2>4, <2>5
  <2>7. Solves(joined)
    <3> HIDE DEF Solves
    <3> QED BY <2>6
  <2> HIDE DEF joined
  <2>8. joined[0] = b /\ \A n \in 1 .. N : joined[n] = F(joined[n - 1], n)
    BY <1>2, <1>4, <1>5, <2>7, SMTT(30)
  <2> DEFINE S == {n \in 0 .. N : joined[n] \in X}
  <2>9. 0 \in S
    BY <1>2, <1>4, <1>5, <2>8
  <2>10. ASSUME NEW n \in 1 .. N, n - 1 \in S PROVE n \in S
    BY <1>2, <1>4, <1>5, <2>8, <2>10
  <2> HIDE DEF S
  <2>11. 0 .. N \subseteq S
    BY <1>2, <1>4, <1>5, <2>9, <2>10, BoundedInduction
  <2> QED BY <2>8, <2>11 DEF S
<1> HIDE DEF joined
<1> DEFINE j == [n \in 0 .. N |-> joined[n]]
           result == XdgDataDirs
<1> HIDE DEF result, dirs
<1>8. j \in [0 .. N -> Seq(EnvChars)] /\ j[0] = <<>> /\ result = j[N]
  BY <1>2, <1>3, <1>7 DEF b, X, result
<1>9. ASSUME NEW n \in 1 .. N
      PROVE  j[n] = j[n - 1] \o (IF n = 1 THEN <<>> ELSE Colon) \o Written(dirs[n])
  <2>1. n \in 0 .. N /\ n - 1 \in 0 .. N
    BY <1>2
  <2>2. j[n] = F(j[n - 1], n) /\ j[n - 1] \in X
    BY <1>7, <2>1
  <2> HIDE DEF j
  <2> QED BY <1>6, <2>2
<1>10. IsJoined(j, dirs, result)
  <2> HIDE DEF j
  <2> QED BY <1>8, <1>9 DEF IsJoined
<1> QED
  BY <1>10 DEF result, dirs

Texts(dirs, n) == [i \in 1 .. n |-> Written(dirs[i])]

LEMMA TextsMore ==
    ASSUME NEW dirs, NEW n \in Nat, NEW T, \A i \in 1 .. n + 1 : Written(dirs[i]) \in T
    PROVE  /\ Texts(dirs, n) \in Seq(T) /\ Len(Texts(dirs, n)) = n
           /\ Texts(dirs, n + 1) = Append(Texts(dirs, n), Written(dirs[n + 1]))
           /\ n = 0 => Texts(dirs, 1) = <<Written(dirs[1])>>
<1> DEFINE W(i) == Written(dirs[i])
           s == [i \in 1 .. n |-> W(i)]
           t == [i \in 1 .. n + 1 |-> W(i)]
           u == Append(s, W(n + 1))
<1>1. (\A i \in 1 .. n + 1 : W(i) \in T) /\ (\A i \in 1 .. n : i \in 1 .. n + 1) /\ n + 1 \in 1 .. n + 1
  OBVIOUS
<1>2. Texts(dirs, n) = s /\ Texts(dirs, n + 1) = t
  BY DEF Texts
<1> HIDE DEF W
<1>3. s \in Seq(T) /\ Len(s) = n /\ t \in Seq(T) /\ Len(t) = n + 1
  BY <1>1
<1>4. /\ u \in Seq(T) /\ Len(u) = n + 1 /\ u[n + 1] = W(n + 1)
      /\ \A i \in 1 .. n : u[i] = W(i)
  BY <1>1, <1>3, AppendProperties
<1>5. \A i \in 1 .. n + 1 : t[i] = u[i]
  <2>1. \A i \in 1 .. n + 1 : i = n + 1 \/ i \in 1 .. n
    OBVIOUS
  <2> QED BY <1>4, <2>1
<1> HIDE DEF s, t, u
<1>6. t = u
  BY <1>3, <1>4, <1>5, SeqEqual
<1>7. ASSUME n = 0 PROVE u = <<W(1)>>
  <2>1. s = <<>>
    BY <1>3, <1>7, EmptySeq
  <2>2. u = Append(<<>>, W(0 + 1))
    BY <1>7, <2>1 DEF u
  <2>3. 0 + 1 = 1
    OBVIOUS
  <2> HIDE DEF u
  <2> QED BY <2>2, <2>3
<1>8. n = 0 => n + 1 = 1
  OBVIOUS
<1> QED
  BY <1>2, <1>3, <1>6, <1>7, <1>8 DEF u, W

\* An element of the variable, and what is before the last one
IsText(text) == text \in Seq(EnvChars) /\ \A i \in 1 .. Len(text) : text[i] # ":"
IsBefore(y, n) == y \in Seq(EnvChars) /\ IF n = 1 THEN y = <<>> ELSE y # <<>> /\ Last(y) = ":"

\* What is joined is taken apart again.
LEMMA DirsParts ==
    ASSUME in \in Inputs, in.data_dirs # <<>>
    PROVE  /\ AllParts(XdgDataDirs, ":") = Texts(in.data_dirs, Len(in.data_dirs))
           /\ \A i \in 1 .. Len(in.data_dirs) : IsText(Written(in.data_dirs[i]))
           /\ \E y : /\ IsBefore(y, Len(in.data_dirs))
                     /\ XdgDataDirs = y \o Written(in.data_dirs[Len(in.data_dirs)])
<1> DEFINE dirs == in.data_dirs
           N == Len(dirs)
           W(n) == Written(dirs[n])
           T == EnvChars
           env == XdgDataDirs
           colon == ":"
<1>1. dirs \in Seq(PathElements)
  BY InputsAssumption
<1>2. N \in Nat /\ N # 0 /\ \A n \in 1 .. N : dirs[n] \in PathElements
  BY <1>1, LenProperties, EmptySeq
<1>3. ASSUME NEW n \in 1 .. N PROVE W(n) \in Seq(T) /\ \A i \in 1 .. Len(W(n)) : W(n)[i] # colon
  <2>1. W(n) \in Seq(T)
    BY <1>2, PathElementIs, WrittenType
  <2>2. colon \notin ToSet(W(n))
    <3>1. DOMAIN dirs = 1 .. N
      BY <1>1, LenProperties
    <3> QED BY <3>1, InputsAssumption
  <2> HIDE DEF W
  <2>3. DOMAIN W(n) = 1 .. Len(W(n))
    BY <2>1, LenProperties
  <2> QED BY <2>1, <2>2, <2>3 DEF ToSet
<1>5. PICK j : IsJoined(j, dirs, env)
  BY DirsJoined
<1> HIDE DEF dirs, env, T
<1>6. /\ j \in [0 .. N -> Seq(T)] /\ j[0] = <<>> /\ env = j[N]
      /\ \A n \in 1 .. N : j[n] = j[n - 1] \o (IF n = 1 THEN <<>> ELSE Colon) \o W(n)
  BY <1>5 DEF IsJoined, T
<1>7. colon \in T /\ Colon = <<colon>>
  BY DEF T, EnvChars, Colon
<1> HIDE DEF colon, N, W
<1>8. Colon \in Seq(T)
  BY <1>7
<1> DEFINE S == {n \in 0 .. N : n = 0 \/ AllParts(j[n], colon) = Texts(dirs, n)}
<1>9. 0 \in S
  BY <1>2
<1>10. ASSUME NEW n \in 1 .. N, n - 1 \in S PROVE n \in S
  <2> DEFINE x == j[n - 1]
             m == n - 1
  <2>1. n \in 0 .. N /\ m \in Nat /\ m + 1 = n /\ x \in Seq(T)
    <3>1. n \in 0 .. N /\ m \in 0 .. N /\ m + 1 = n
      BY <1>2
    <3> QED BY <1>6, <3>1
  <2>2. W(n) \in Seq(T) /\ \A i \in 1 .. Len(W(n)) : W(n)[i] # colon
    BY <1>3
  <2>3. \A i \in 1 .. n : Written(dirs[i]) \in Seq(T)
    <3>1. \A i \in 1 .. n : i \in 1 .. N
      BY <1>2
    <3> QED BY <1>3, <3>1 DEF W
  <2>4. /\ Texts(dirs, n) = Append(Texts(dirs, m), W(n))
        /\ m = 0 => Texts(dirs, 1) = <<Written(dirs[1])>>
    <3> HIDE DEF m
    <3>1. \A i \in 1 .. m + 1 : Written(dirs[i]) \in Seq(T)
      BY <2>1, <2>3
    <3> QED BY <2>1, <3>1, TextsMore DEF W
  <2>5. CASE n = 1
    <3>1. j[n] = (<<>> \o <<>>) \o W(n) /\ m = 0
      <4>1. n - 1 = 0
        BY <2>5
      <4> QED BY <1>6, <2>5, <4>1
    <3>2. <<>> \o <<>> = <<>> /\ <<>> \o W(n) = W(n)
      BY <2>2
    <3>3. j[n] = W(n)
      BY <3>1, <3>2
    <3>4. AllParts(j[n], colon) = <<W(n)>>
      BY <1>7, <2>2, <3>3, PartsJoined
    <3>5. AllParts(j[n], colon) = Texts(dirs, n)
      BY <2>4, <2>5, <3>1, <3>4 DEF W
    <3> QED BY <2>1, <3>5
  <2>6. CASE n # 1
    <3>1. j[n] = x \o Colon \o W(n)
      BY <1>6, <2>6
    <3>2. AllParts(x \o <<colon>> \o W(n), colon) = Append(AllParts(x, colon), W(n))
      <4> HIDE DEF x
      <4> QED BY <1>7, <2>1, <2>2, PartsJoined
    <3>3. m # 0
      BY <2>6
    <3>4. AllParts(x, colon) = Texts(dirs, m)
      BY <1>10, <3>3
    <3>5. AllParts(j[n], colon) = Texts(dirs, n)
      BY <1>7, <2>4, <3>1, <3>2, <3>4
    <3> QED BY <2>1, <3>5
  <2> QED BY <2>5, <2>6
<1>11. AllParts(env, colon) = Texts(dirs, N)
  <2> HIDE DEF S
  <2>1. 0 .. N \subseteq S
    BY <1>2, <1>9, <1>10, BoundedInduction
  <2> QED BY <1>2, <1>6, <2>1 DEF S
<1>12. \E y : IsBefore(y, N) /\ env = y \o W(N)
  <2> DEFINE z == IF N = 1 THEN <<>> ELSE Colon
             x == j[N - 1]
             y == x \o z
  <2>1. N \in 1 .. N /\ N - 1 \in 0 .. N
    BY <1>2
  <2>2. z \in Seq(T) /\ x \in Seq(T)
    BY <1>6, <1>8, <2>1
  <2>3. env = y \o W(N)
    BY <1>6, <2>1
  <2>4. CASE N = 1
    <3>1. x = <<>> /\ z = <<>> /\ <<>> \o <<>> = <<>> /\ <<>> \in Seq(T)
      BY <1>6, <2>4
    <3>2. y = <<>>
      BY <3>1
    <3> HIDE DEF y
    <3>3. IsBefore(y, N)
      BY <2>4, <3>1, <3>2 DEF IsBefore, T
    <3> QED BY <2>3, <3>3
  <2>5. CASE N # 1
    <3>1. z = Colon /\ Len(Colon) = 1 /\ Colon[1] = colon
      BY <1>7, <2>5
    <3> HIDE DEF x, z
    <3>2. /\ y \in Seq(T) /\ Len(y) = Len(x) + Len(z) /\ Len(x) \in Nat
          /\ \A i \in 1 .. Len(z) : y[Len(x) + i] = z[i]
      BY <2>2, ConcatIs
    <3> HIDE DEF y
    <3>3. Len(y) = Len(x) + 1 /\ y[Len(x) + 1] = colon
      <4>1. 1 \in 1 .. Len(z)
        BY <3>1
      <4> QED BY <3>1, <3>2, <4>1
    <3>4. Last(y) = colon
      BY <3>3 DEF Last
    <3>5. y # <<>>
      <4>1. Len(y) # 0
        BY <3>2, <3>3
      <4> QED BY <3>2, <4>1, EmptySeq
    <3>6. IsBefore(y, N)
      BY <2>5, <3>2, <3>4, <3>5 DEF IsBefore, T, colon
    <3> QED BY <2>3, <3>6
  <2> QED BY <2>4, <2>5
<1>13. \A i \in 1 .. N : IsText(W(i))
  BY <1>3 DEF IsText, T, colon
<1> QED
  BY <1>11, <1>12, <1>13 DEF env, colon, N, dirs, W

LEMMA DirsSplit ==
    ASSUME in \in Inputs
    PROVE  /\ NamedDirs \in Seq(PathElements) /\ Len(NamedDirs) <= MaxRank
           /\ NamedDirs = <<>> => XdgDataDirs = <<>>
           /\ NamedDirs # <<>> =>
                 XdgDataDirs # <<>> /\ split(XdgDataDirs, ":") = Texts(NamedDirs, Len(NamedDirs))
<1> DEFINE dirs == in.data_dirs
           N == Len(dirs)
           W(n) == Written(dirs[n])
           T == EnvChars
           env == XdgDataDirs
           colon == ":"
<1>1. dirs \in Seq(PathElements) /\ N <= MaxRank /\ MaxRank \in Nat
  BY InputsAssumption, ConstantsAssumption
<1>2. N \in Nat /\ (dirs = <<>> <=> N = 0)
  BY <1>1, LenProperties, EmptySeq
<1>3. NamedDirs = IF dirs # <<>> /\ W(N) = <<>> THEN SubSeq(dirs, 1, N - 1) ELSE dirs
  BY DEF NamedDirs, Last, Front
<1>4. CASE dirs = <<>>
  <2>1. PICK j : IsJoined(j, dirs, env)
    BY DirsJoined
  <2>2. env = <<>>
    <3> HIDE DEF env, dirs
    <3>1. Len(dirs) = 0
      BY <1>2, <1>4
    <3> QED BY <2>1, <3>1 DEF IsJoined
  <2> QED BY <1>1, <1>3, <1>4, <2>2
<1>5. CASE dirs # <<>>
  <2>1. /\ AllParts(env, colon) = Texts(dirs, N) /\ (\A i \in 1 .. N : IsText(W(i)))
        /\ \E y : IsBefore(y, N) /\ env = y \o W(N)
    BY <1>5, DirsParts
  <2>2. PICK y : IsBefore(y, N) /\ env = y \o W(N)
    BY <2>1
  <2>3. N >= 1 /\ N \in 1 .. N
    BY <1>2, <1>5
  <2> DEFINE w == W(N)
             l == Len(w)
  <2>4. w \in Seq(T) /\ y \in Seq(T) /\ l \in Nat /\ \A i \in 1 .. l : w[i] # colon
    BY <2>1, <2>2, <2>3, LenProperties DEF IsText, IsBefore
  <2> HIDE DEF env, T, colon
  <2>5. CASE w # <<>>
    <3> HIDE DEF w, l
    <3>1. l # 0 /\ l \in 1 .. l
      BY <2>4, <2>5, EmptySeq DEF l
    <3>2. env = y \o w
      BY <2>2 DEF w
    <3>3. /\ env \in Seq(T) /\ Len(env) = Len(y) + l /\ Len(y) \in Nat
          /\ \A i \in 1 .. l : env[Len(y) + i] = w[i]
      BY <2>4, <3>2, ConcatIs DEF l
    <3>4. Last(env) # colon
      BY <2>4, <3>1, <3>3 DEF Last
    <3>5. env # <<>>
      <4>1. Len(env) # 0
        BY <3>1, <3>3
      <4> QED BY <3>3, <4>1, EmptySeq
    <3>6. split(env, colon) = Texts(dirs, N)
      BY <2>1, <3>4, SplitIs
    <3>7. NamedDirs = dirs
      BY <1>3, <2>5 DEF w
    <3> QED BY <1>1, <1>5, <3>5, <3>6, <3>7 DEF env, colon
  <2>6. CASE w = <<>>
    <3> DEFINE front == SubSeq(dirs, 1, N - 1)
               m == N - 1
    <3>1. /\ front \in Seq(PathElements) /\ Len(front) = m /\ NamedDirs = front
          /\ \A k \in 1 .. m : front[k] = dirs[k]
      BY <1>1, <1>2, <1>3, <1>5, <2>3, <2>6, WithoutLast
    <3>2. m \in Nat /\ m <= MaxRank /\ m + 1 = N
      BY <1>1, <1>2, <2>3
    <3>3. env = y
      <4> HIDE DEF w
      <4>1. env = y \o <<>>
        BY <2>2, <2>6 DEF w
      <4> QED BY <2>4, <4>1
    <3> HIDE DEF front
    <3>4. CASE N = 1
      <4>1. env = <<>> /\ m = 0
        BY <2>2, <3>3, <3>4 DEF IsBefore
      <4>2. front = <<>>
        BY <3>1, <4>1, EmptySeq
      <4> QED BY <3>1, <3>2, <4>1, <4>2 DEF env
    <3>5. CASE N # 1
      <4> HIDE DEF m, N, W, w, dirs
      <4>1. env # <<>> /\ Last(env) = colon
        BY <2>2, <3>3, <3>5 DEF IsBefore, colon
      <4>2. split(env, colon) = Front(Texts(dirs, N))
        BY <2>1, <4>1, SplitIs
      <4>3. \A i \in 1 .. m + 1 : Written(dirs[i]) \in Seq(T)
        BY <2>1, <3>2 DEF IsText, T, W
      <4>4. /\ Texts(dirs, m) \in Seq(Seq(T)) /\ Len(Texts(dirs, m)) = m
            /\ Texts(dirs, m + 1) = Append(Texts(dirs, m), Written(dirs[m + 1]))
        BY <3>2, <4>3, TextsMore
      <4>5. Front(Texts(dirs, N)) = Texts(dirs, m)
        <5> DEFINE s == Texts(dirs, m)
                   e == Written(dirs[m + 1])
        <5>1. s \in Seq(Seq(T)) /\ e \in Seq(T)
          <6>1. m + 1 \in 1 .. m + 1
            BY <3>2
          <6> QED BY <4>3, <4>4, <6>1
        <5> HIDE DEF s, e
        <5>2. Front(Append(s, e)) = s
          BY <5>1 DEF Front
        <5> QED BY <3>2, <4>4, <5>2 DEF s, e
      <4>6. Texts(dirs, m) = Texts(front, m)
        <5>1. \A i \in 1 .. m : Written(front[i]) = Written(dirs[i])
          BY <3>1
        <5> QED BY <5>1 DEF Texts
      <4>7. front # <<>>
        <5>1. m # 0
          BY <3>2, <3>5
        <5> QED BY <3>1, <5>1, EmptySeq
      <4>8. split(env, colon) = Texts(front, Len(front))
        BY <3>1, <4>2, <4>5, <4>6
      <4> QED BY <3>1, <3>2, <4>1, <4>7, <4>8 DEF env, colon
    <3> QED BY <3>4, <3>5
  <2> QED BY <2>5, <2>6
<1> QED
  BY <1>4, <1>5

\* A default is an element like the others.
LEMMA DefaultIs ==
    ASSUME NEW name \in Seq(EnvChars), name # <<>>, Last(name) = "share"
    PROVE  Default(name) \in Elements
<1> DEFINE root == <<"/">>
           base == root \o name
           A == <<"/", "applications">>
           C == <<"/">>
           e == Default(name)
<1>1. e = [root |-> root, name |-> name, tail |-> C]
  BY DEF Default
<1>2. root \in Seq(EnvChars) /\ A \in Seq(EnvChars) /\ Len(A) = 2 /\ A[2] = "applications"
  BY DEF EnvChars
<1>3. C \in Tails /\ C # <<>>
  BY DEF Tails
<1> HIDE DEF root, A, C
<1>4. base \in Seq(EnvChars)
  BY <1>2, ConcatProperties
<1>5. ~IsSuffix(A, base)
  <2> DEFINE n == Len(name)
             m == Len(root)
  <2>1. n \in Nat /\ n # 0 /\ n \in 1 .. n /\ name[n] = "share"
    BY EmptySeq, LenProperties DEF Last
  <2>2. m \in Nat /\ Len(base) = m + n /\ \A i \in 1 .. n : base[m + i] = name[i]
    BY <1>2, ConcatIs
  <2> HIDE DEF n, m, base
  <2>3. base[Len(base)] = "share"
    BY <2>1, <2>2
  <2>4. "share" # "applications"
    OBVIOUS
  <2> QED BY <1>2, <1>4, <2>3, <2>4, LastTwo
<1>6. /\ e.root = root /\ e.name = name /\ e.tail = C
      /\ e \in [root: Seq(EnvChars), name: Seq(EnvChars), tail: Tails]
  BY <1>1, <1>2, <1>3
<1>7. e.root \o e.name = base
  BY <1>6
<1> HIDE DEF e, base
<1>8. /\ e.tail \in {<<>>, <<"/">>} => ~IsSuffix(A, e.root \o e.name)
      /\ e.tail = <<>> /\ e.root \o e.name # <<>> => Last(e.root \o e.name) # "/"
  BY <1>3, <1>5, <1>6, <1>7
<1>9. e \in Elements
  BY <1>6, <1>8 DEF Elements, A
<1> QED
  BY <1>9 DEF e

\* A sequence is what it is joined from.
Continues(T, u, v, w) ==
    /\ u \in Seq(T) /\ v \in Seq(T) /\ w \in Seq(T) /\ Len(w) = Len(u) + Len(v)
    /\ \A i \in 1 .. Len(u) : u[i] = w[i]
    /\ \A i \in 1 .. Len(v) : v[i] = w[Len(u) + i]

LEMMA ConcatTo ==
    ASSUME NEW T, NEW u, NEW v, NEW w, Continues(T, u, v, w)
    PROVE  u \o v = w
<1> DEFINE m == Len(u)
           n == Len(v)
           t == u \o v
<1>1. /\ t \in Seq(T) /\ Len(t) = m + n /\ m \in Nat /\ n \in Nat
      /\ (\A i \in 1 .. m : t[i] = u[i]) /\ (\A i \in 1 .. n : t[m + i] = v[i])
  <2>1. u \in Seq(T) /\ v \in Seq(T)
    BY DEF Continues
  <2> QED BY <2>1, ConcatIs
<1>2. ASSUME NEW i \in 1 .. m + n PROVE t[i] = w[i]
  <2> HIDE DEF m, n, t
  <2>1. CASE i \in 1 .. m
    BY <1>1, <2>1 DEF m, Continues
  <2>2. CASE i \notin 1 .. m
    <3> DEFINE k == i - m
    <3>1. k \in 1 .. n /\ m + k = i
      BY <1>1, <2>2
    <3> HIDE DEF k
    <3>2. t[m + k] = v[k] /\ v[k] = w[m + k]
      BY <1>1, <3>1 DEF m, n, Continues
    <3> QED BY <3>1, <3>2
  <2> QED BY <2>1, <2>2
<1>3. Len(w) = m + n /\ w \in Seq(T)
  BY DEF Continues
<1> HIDE DEF m, n, t
<1>4. t = w
  BY <1>1, <1>2, <1>3, SeqEqual
<1> QED
  BY <1>4 DEF t

LEMMA WrittenDir ==
    ASSUME NEW a, NEW s, NEW x
    PROVE  <<a>> \o <<x, a, s>> \o <<a>> = <<a, x, a, s, a>>
<1> DEFINE T == {a, s, x}
<1>1. <<a>> \o <<x, a, s>> = <<a, x, a, s>>
  <2> DEFINE p == <<a>>
             q == <<x, a, s>>
             r == <<a, x, a, s>>
  <2>1. /\ p \in Seq(T) /\ Len(p) = 1 /\ p[1] = a
    OBVIOUS
  <2>2. /\ q \in Seq(T) /\ Len(q) = 3 /\ q[1] = x /\ q[2] = a /\ q[3] = s
    OBVIOUS
  <2>3. /\ r \in Seq(T) /\ Len(r) = 4 /\ r[1] = a /\ r[2] = x /\ r[3] = a /\ r[4] = s
    OBVIOUS
  <2> HIDE DEF p, q, r, T
  <2>4. \A i \in 1 .. 1 : p[i] = r[i]
    <3>1. \A i \in 1 .. 1 : i = 1
      OBVIOUS
    <3> QED BY <2>1, <2>3, <3>1
  <2>5. \A i \in 1 .. 3 : q[i] = r[1 + i]
    <3>1. \A i \in 1 .. 3 : i = 1 \/ i = 2 \/ i = 3
      OBVIOUS
    <3>2. 1 + 1 = 2 /\ 1 + 2 = 3 /\ 1 + 3 = 4
      OBVIOUS
    <3> QED BY <2>2, <2>3, <3>1, <3>2
  <2>6. Continues(T, p, q, r)
    BY <2>1, <2>2, <2>3, <2>4, <2>5 DEF Continues
  <2>7. p \o q = r
    BY <2>6, ConcatTo
  <2> QED BY <2>7 DEF p, q, r
<1>2. <<a, x, a, s>> \o <<a>> = <<a, x, a, s, a>>
  <2> DEFINE p == <<a, x, a, s>>
             q == <<a>>
             r == <<a, x, a, s, a>>
  <2>1. /\ p \in Seq(T) /\ Len(p) = 4 /\ p[1] = a /\ p[2] = x /\ p[3] = a /\ p[4] = s
    OBVIOUS
  <2>2. /\ q \in Seq(T) /\ Len(q) = 1 /\ q[1] = a
    OBVIOUS
  <2>3. /\ r \in Seq(T) /\ Len(r) = 5 /\ r[1] = a /\ r[2] = x /\ r[3] = a /\ r[4] = s /\ r[5] = a
    OBVIOUS
  <2> HIDE DEF p, q, r, T
  <2>4. \A i \in 1 .. 4 : p[i] = r[i]
    <3>1. \A i \in 1 .. 4 : i = 1 \/ i = 2 \/ i = 3 \/ i = 4
      OBVIOUS
    <3> QED BY <2>1, <2>3, <3>1
  <2>5. \A i \in 1 .. 1 : q[i] = r[4 + i]
    <3>1. \A i \in 1 .. 1 : i = 1
      OBVIOUS
    <3>2. 4 + 1 = 5
      OBVIOUS
    <3> QED BY <2>2, <2>3, <3>1, <3>2
  <2>6. Continues(T, p, q, r)
    BY <2>1, <2>2, <2>3, <2>4, <2>5 DEF Continues
  <2>7. p \o q = r
    BY <2>6, ConcatTo
  <2> QED BY <2>7 DEF p, q, r
<1> QED
  BY <1>1, <1>2

LEMMA WrittenHome ==
    ASSUME NEW a, NEW s, NEW w, NEW y, NEW z
    PROVE  <<a>> \o <<w, a, y, z, a, s>> \o <<a>> = <<a, w, a, y, z, a, s, a>>
<1> DEFINE T == {a, s, w, y, z}
<1>1. <<a>> \o <<w, a, y, z, a, s>> = <<a, w, a, y, z, a, s>>
  <2> DEFINE p == <<a>>
             q == <<w, a, y, z, a, s>>
             r == <<a, w, a, y, z, a, s>>
  <2>1. /\ p \in Seq(T) /\ Len(p) = 1 /\ p[1] = a
    OBVIOUS
  <2>2. /\ q \in Seq(T) /\ Len(q) = 6 /\ q[1] = w /\ q[2] = a /\ q[3] = y /\ q[4] = z /\ q[5] = a
      /\ q[6] = s
    OBVIOUS
  <2>3. /\ r \in Seq(T) /\ Len(r) = 7 /\ r[1] = a /\ r[2] = w /\ r[3] = a /\ r[4] = y /\ r[5] = z
      /\ r[6] = a /\ r[7] = s
    OBVIOUS
  <2> HIDE DEF p, q, r, T
  <2>4. \A i \in 1 .. 1 : p[i] = r[i]
    <3>1. \A i \in 1 .. 1 : i = 1
      OBVIOUS
    <3> QED BY <2>1, <2>3, <3>1
  <2>5. \A i \in 1 .. 6 : q[i] = r[1 + i]
    <3>1. \A i \in 1 .. 6 : i = 1 \/ i = 2 \/ i = 3 \/ i = 4 \/ i = 5 \/ i = 6
      OBVIOUS
    <3>2. 1 + 1 = 2 /\ 1 + 2 = 3 /\ 1 + 3 = 4 /\ 1 + 4 = 5 /\ 1 + 5 = 6 /\ 1 + 6 = 7
      OBVIOUS
    <3> QED BY <2>2, <2>3, <3>1, <3>2
  <2>6. Continues(T, p, q, r)
    BY <2>1, <2>2, <2>3, <2>4, <2>5 DEF Continues
  <2>7. p \o q = r
    BY <2>6, ConcatTo
  <2> QED BY <2>7 DEF p, q, r
<1>2. <<a, w, a, y, z, a, s>> \o <<a>> = <<a, w, a, y, z, a, s, a>>
  <2> DEFINE p == <<a, w, a, y, z, a, s>>
             q == <<a>>
             r == <<a, w, a, y, z, a, s, a>>
  <2>1. /\ p \in Seq(T) /\ Len(p) = 7 /\ p[1] = a /\ p[2] = w /\ p[3] = a /\ p[4] = y /\ p[5] = z
      /\ p[6] = a /\ p[7] = s
    OBVIOUS
  <2>2. /\ q \in Seq(T) /\ Len(q) = 1 /\ q[1] = a
    OBVIOUS
  <2>3. /\ r \in Seq(T) /\ Len(r) = 8 /\ r[1] = a /\ r[2] = w /\ r[3] = a /\ r[4] = y /\ r[5] = z
      /\ r[6] = a /\ r[7] = s /\ r[8] = a
    OBVIOUS
  <2> HIDE DEF p, q, r, T
  <2>4. \A i \in 1 .. 7 : p[i] = r[i]
    <3>1. \A i \in 1 .. 7 : i = 1 \/ i = 2 \/ i = 3 \/ i = 4 \/ i = 5 \/ i = 6 \/ i = 7
      OBVIOUS
    <3> QED BY <2>1, <2>3, <3>1
  <2>5. \A i \in 1 .. 1 : q[i] = r[7 + i]
    <3>1. \A i \in 1 .. 1 : i = 1
      OBVIOUS
    <3>2. 7 + 1 = 8
      OBVIOUS
    <3> QED BY <2>2, <2>3, <3>1, <3>2
  <2>6. Continues(T, p, q, r)
    BY <2>1, <2>2, <2>3, <2>4, <2>5 DEF Continues
  <2>7. p \o q = r
    BY <2>6, ConcatTo
  <2> QED BY <2>7 DEF p, q, r
<1> QED
  BY <1>1, <1>2

LEMMA WrittenDirs ==
    ASSUME NEW a, NEW s, NEW w, NEW x, NEW y
    PROVE  <<a, x, a, s, a>> \o <<w>> \o <<a, y, a, s, a>> = <<a, x, a, s, a, w, a, y, a, s, a>>
<1> DEFINE T == {a, s, w, x, y}
<1>1. <<a, x, a, s, a>> \o <<w>> = <<a, x, a, s, a, w>>
  <2> DEFINE p == <<a, x, a, s, a>>
             q == <<w>>
             r == <<a, x, a, s, a, w>>
  <2>1. /\ p \in Seq(T) /\ Len(p) = 5 /\ p[1] = a /\ p[2] = x /\ p[3] = a /\ p[4] = s /\ p[5] = a
    OBVIOUS
  <2>2. /\ q \in Seq(T) /\ Len(q) = 1 /\ q[1] = w
    OBVIOUS
  <2>3. /\ r \in Seq(T) /\ Len(r) = 6 /\ r[1] = a /\ r[2] = x /\ r[3] = a /\ r[4] = s /\ r[5] = a
      /\ r[6] = w
    OBVIOUS
  <2> HIDE DEF p, q, r, T
  <2>4. \A i \in 1 .. 5 : p[i] = r[i]
    <3>1. \A i \in 1 .. 5 : i = 1 \/ i = 2 \/ i = 3 \/ i = 4 \/ i = 5
      OBVIOUS
    <3> QED BY <2>1, <2>3, <3>1
  <2>5. \A i \in 1 .. 1 : q[i] = r[5 + i]
    <3>1. \A i \in 1 .. 1 : i = 1
      OBVIOUS
    <3>2. 5 + 1 = 6
      OBVIOUS
    <3> QED BY <2>2, <2>3, <3>1, <3>2
  <2>6. Continues(T, p, q, r)
    BY <2>1, <2>2, <2>3, <2>4, <2>5 DEF Continues
  <2>7. p \o q = r
    BY <2>6, ConcatTo
  <2> QED BY <2>7 DEF p, q, r
<1>2. <<a, x, a, s, a, w>> \o <<a, y, a, s, a>> = <<a, x, a, s, a, w, a, y, a, s, a>>
  <2> DEFINE p == <<a, x, a, s, a, w>>
             q == <<a, y, a, s, a>>
             r == <<a, x, a, s, a, w, a, y, a, s, a>>
  <2>1. /\ p \in Seq(T) /\ Len(p) = 6 /\ p[1] = a /\ p[2] = x /\ p[3] = a /\ p[4] = s /\ p[5] = a
      /\ p[6] = w
    OBVIOUS
  <2>2. /\ q \in Seq(T) /\ Len(q) = 5 /\ q[1] = a /\ q[2] = y /\ q[3] = a /\ q[4] = s /\ q[5] = a
    OBVIOUS
  <2>3. /\ r \in Seq(T) /\ Len(r) = 11 /\ r[1] = a /\ r[2] = x /\ r[3] = a /\ r[4] = s /\ r[5] = a
      /\ r[6] = w /\ r[7] = a /\ r[8] = y /\ r[9] = a /\ r[10] = s
      /\ r[11] = a
    OBVIOUS
  <2> HIDE DEF p, q, r, T
  <2>4. \A i \in 1 .. 6 : p[i] = r[i]
    <3>1. \A i \in 1 .. 6 : i = 1 \/ i = 2 \/ i = 3 \/ i = 4 \/ i = 5 \/ i = 6
      OBVIOUS
    <3> QED BY <2>1, <2>3, <3>1
  <2>5. \A i \in 1 .. 5 : q[i] = r[6 + i]
    <3>1. \A i \in 1 .. 5 : i = 1 \/ i = 2 \/ i = 3 \/ i = 4 \/ i = 5
      OBVIOUS
    <3>2. 6 + 1 = 7 /\ 6 + 2 = 8 /\ 6 + 3 = 9 /\ 6 + 4 = 10 /\ 6 + 5 = 11
      OBVIOUS
    <3> QED BY <2>2, <2>3, <3>1, <3>2
  <2>6. Continues(T, p, q, r)
    BY <2>1, <2>2, <2>3, <2>4, <2>5 DEF Continues
  <2>7. p \o q = r
    BY <2>6, ConcatTo
  <2> QED BY <2>7 DEF p, q, r
<1> QED
  BY <1>1, <1>2


LEMMA DefaultsWritten ==
    /\ Written(Default(<<"home", "/", ".", "local", "/", "share">>)) = HomeShare
    /\ DefaultDirs = Written(Default(<<"usr-local", "/", "share">>)) \o Colon
                     \o Written(Default(<<"usr", "/", "share">>))
    /\ Written(Default(<<"usr-local", "/", "share">>)) = <<"/", "usr-local", "/", "share", "/">>
    /\ Written(Default(<<"usr", "/", "share">>)) = <<"/", "usr", "/", "share", "/">>
<1> DEFINE W(name) == <<"/">> \o name \o <<"/">>
           a == "/"
           s == "share"
           h == "home"
           dot == "."
           l == "local"
           ul == "usr-local"
           u == "usr"
           c == ":"
           home == <<h, a, dot, l, a, s>>
           first == <<ul, a, s>>
           second == <<u, a, s>>
<1>1. /\ Written(Default(home)) = W(home) /\ Written(Default(first)) = W(first)
      /\ Written(Default(second)) = W(second)
  BY DEF Written, Default
<1>2. /\ HomeShare = <<a, h, a, dot, l, a, s, a>>
      /\ DefaultDirs = <<a, ul, a, s, a, c, a, u, a, s, a>> /\ Colon = <<c>>
  BY DEF HomeShare, DefaultDirs, Colon
<1> HIDE DEF s, h, dot, l, ul, u, c
<1>3. <<a>> \o home \o <<a>> = <<a, h, a, dot, l, a, s, a>>
  <2> HIDE DEF a
  <2> QED BY WrittenHome
<1>6. <<a>> \o first \o <<a>> = <<a, ul, a, s, a>>
  <2> HIDE DEF a
  <2> QED BY WrittenDir
<1>7. <<a>> \o second \o <<a>> = <<a, u, a, s, a>>
  <2> HIDE DEF a
  <2> QED BY WrittenDir
<1>8. <<a, ul, a, s, a>> \o <<c>> \o <<a, u, a, s, a>> = <<a, ul, a, s, a, c, a, u, a, s, a>>
  <2> HIDE DEF a
  <2> QED BY WrittenDirs
<1>4. W(home) = HomeShare
  BY <1>2, <1>3
<1>5. DefaultDirs = W(first) \o Colon \o W(second)
  BY <1>2, <1>6, <1>7, <1>8
<1> QED
  BY <1>1, <1>4, <1>5, <1>6, <1>7 DEF s, h, dot, l, ul, u

\* The elements, at most one for every rank
LEMMA ElementsAre ==
    ASSUME in \in Inputs
    PROVE  /\ HomeElement \in Elements /\ DirElements \in Seq(Elements)
           /\ Len(DirElements) \in Nat /\ Len(DirElements) <= MaxRank
<1> DEFINE home == <<"home", "/", ".", "local", "/", "share">>
           first == <<"usr-local", "/", "share">>
           second == <<"usr", "/", "share">>
<1>1. /\ home \in Seq(EnvChars) /\ home # <<>> /\ Last(home) = "share"
      /\ first \in Seq(EnvChars) /\ first # <<>> /\ Last(first) = "share"
      /\ second \in Seq(EnvChars) /\ second # <<>> /\ Last(second) = "share"
  BY DEF EnvChars, Last
<1> HIDE DEF home, first, second
<1>2. Default(home) \in Elements /\ Default(first) \in Elements /\ Default(second) \in Elements
  BY <1>1, DefaultIs
<1>3. /\ in.data_home \in Elements /\ NamedDirs \in Seq(PathElements) /\ MaxRank >= 2
      /\ Len(NamedDirs) <= MaxRank /\ MaxRank \in Nat
  BY InputsAssumption, ConstantsAssumption, PathElementIs, DirsSplit
<1>4. HomeElement \in Elements
  BY <1>2, <1>3 DEF HomeElement, home
<1>5. NamedDirs \in Seq(Elements) /\ Len(NamedDirs) \in Nat
  BY <1>3, PathElementIs, LenProperties
<1>6. CASE NamedDirs = <<>>
  <2> DEFINE a == Default(first)
             b == Default(second)
  <2> HIDE DEF a, b
  <2>1. DirElements = <<a, b>>
    BY <1>6 DEF DirElements, a, b, first, second
  <2>2. <<a, b>> \in Seq(Elements) /\ Len(<<a, b>>) = 2
    BY <1>2 DEF a, b
  <2> QED BY <1>3, <1>4, <2>1, <2>2
<1>7. CASE NamedDirs # <<>>
  BY <1>3, <1>4, <1>5, <1>7 DEF DirElements
<1> QED
  BY <1>6, <1>7

LEMMA FiveOthers ==
    ASSUME NEW a, NEW x, NEW s, NEW c, a # c, x # c, s # c
    PROVE  /\ Len(<<a, x, a, s, a>>) = 5
           /\ \A i \in 1 .. Len(<<a, x, a, s, a>>) : <<a, x, a, s, a>>[i] # c
<1> DEFINE t == <<a, x, a, s, a>>
<1>1. Len(t) = 5 /\ t[1] = a /\ t[2] = x /\ t[3] = a /\ t[4] = s /\ t[5] = a
  OBVIOUS
<1>2. \A i \in 1 .. 5 : i = 1 \/ i = 2 \/ i = 3 \/ i = 4 \/ i = 5
  OBVIOUS
<1> HIDE DEF t
<1>3. \A i \in 1 .. 5 : t[i] # c
  BY <1>1, <1>2
<1> QED
  BY <1>1, <1>3 DEF t

\* What the variables, or their defaults, are taken apart into
LEMMA EnvironmentSplit ==
    ASSUME in \in Inputs
    PROVE  split(IF XdgDataDirs = <<>> THEN DefaultDirs ELSE XdgDataDirs, ":")
              = Texts(DirElements, Len(DirElements))
<1>1. CASE NamedDirs # <<>>
  BY <1>1, DirsSplit DEF DirElements
<1>2. CASE NamedDirs = <<>>
  <2> DEFINE first == <<"usr-local", "/", "share">>
             second == <<"usr", "/", "share">>
             a == Default(first)
             b == Default(second)
             A == Written(a)
             B == Written(b)
             colon == ":"
             env == XdgDataDirs
  <2>2. env = <<>>
    BY <1>2, DirsSplit
  <2>3. DefaultDirs = A \o Colon \o B
    BY DefaultsWritten
  <2>4. /\ first \in Seq(EnvChars) /\ first # <<>> /\ Last(first) = "share"
        /\ second \in Seq(EnvChars) /\ second # <<>> /\ Last(second) = "share"
    BY DEF EnvChars, Last
  <2>5. DirElements = <<a, b>>
    BY <1>2 DEF DirElements
  <2>6. colon \in EnvChars /\ Colon = <<colon>>
    BY DEF EnvChars, Colon
  <2>7. A = <<"/", "usr-local", "/", "share", "/">> /\ B = <<"/", "usr", "/", "share", "/">>
    BY DefaultsWritten
  <2>8. /\ \A i \in 1 .. Len(A) : A[i] # colon
        /\ \A i \in 1 .. Len(B) : B[i] # colon
        /\ Len(B) = 5
    <3> DEFINE sep == "/"
               x == "usr-local"
               y == "usr"
               s == "share"
    <3>1. sep # colon /\ x # colon /\ y # colon /\ s # colon
      OBVIOUS
    <3>2. A = <<sep, x, sep, s, sep>> /\ B = <<sep, y, sep, s, sep>>
      BY <2>7
    <3> HIDE DEF sep, x, y, s, colon, A, B
    <3> QED BY <3>1, <3>2, FiveOthers
  <2> HIDE DEF first, second, colon
  <2>9. a \in Elements /\ b \in Elements
    BY <2>4, DefaultIs
  <2> HIDE DEF a, b
  <2>10. A \in Seq(EnvChars) /\ B \in Seq(EnvChars)
    BY <2>9, WrittenType
  <2> HIDE DEF A, B
  <2>11. AllParts(A, colon) = <<A>>
    BY <2>6, <2>8, <2>10, PartsJoined
  <2>12. AllParts(A \o <<colon>> \o B, colon) = Append(AllParts(A, colon), B)
    BY <2>6, <2>8, <2>10, PartsJoined
  <2>14. AllParts(DefaultDirs, colon) = Append(<<A>>, B)
    BY <2>3, <2>6, <2>11, <2>12
  <2>15. Last(DefaultDirs) # colon
    <3> DEFINE y == A \o Colon
    <3>1. y \in Seq(EnvChars)
      BY <2>6, <2>10, ConcatProperties
    <3> HIDE DEF y
    <3>2. /\ Len(y \o B) = Len(y) + Len(B) /\ Len(y) \in Nat
          /\ \A i \in 1 .. Len(B) : (y \o B)[Len(y) + i] = B[i]
      BY <2>10, <3>1, ConcatIs
    <3>3. (y \o B)[Len(y \o B)] = B[Len(B)]
      BY <2>8, <3>2
    <3> QED BY <2>3, <2>8, <3>3 DEF Last, y
  <2>16. split(DefaultDirs, colon) = Append(<<A>>, B)
    BY <2>14, <2>15, SplitIs
  <2>17. Texts(DirElements, Len(DirElements)) = Append(<<A>>, B)
    <3> DEFINE ab == <<a, b>>
    <3>1. ab[1] = a /\ ab[2] = b /\ Len(ab) = 2
      OBVIOUS
    <3> HIDE DEF ab
    <3>2. \A i \in 1 .. 2 : Written(ab[i]) \in Seq(EnvChars)
      <4>1. \A i \in 1 .. 2 : i = 1 \/ i = 2
        OBVIOUS
      <4> QED BY <2>10, <3>1, <4>1 DEF A, B
    <3>3. Texts(ab, 1) = <<Written(ab[1])>>
      <4>1. 0 \in Nat /\ \A i \in 1 .. 0 + 1 : i \in 1 .. 2
        OBVIOUS
      <4> QED BY <3>2, <4>1, TextsMore
    <3>4. Texts(ab, 2) = Append(Texts(ab, 1), Written(ab[2]))
      <4> DEFINE one == 1
      <4>1. one \in Nat /\ one + 1 = 2 /\ \A i \in 1 .. one + 1 : i \in 1 .. 2
        OBVIOUS
      <4> HIDE DEF one
      <4>2. Texts(ab, one + 1) = Append(Texts(ab, one), Written(ab[one + 1]))
        BY <3>2, <4>1, TextsMore
      <4> QED BY <4>1, <4>2 DEF one
    <3> QED BY <2>5, <3>1, <3>3, <3>4 DEF A, B, ab
  <2> QED BY <2>2, <2>16, <2>17 DEF env, colon
<1> QED
  BY <1>1, <1>2

NamedPaths ==
    [i \in 1 .. Len(DirElements) + 1 |->
        Directory(IF i = 1 THEN HomeElement ELSE DirElements[i - 1])]

LEMMA NamedPathsAre ==
    ASSUME in \in Inputs
    PROVE  /\ [i \in DOMAIN Candidates |-> add_applications_dir(Candidates[i])] = NamedPaths
           /\ NamedDirectories = Kept(NamedPaths, DOMAIN in.dirs \cap Absolute)
           /\ NamedPaths \in Seq(Seq(EnvChars)) /\ Len(NamedPaths) <= MaxRank + 1
<1> DEFINE n == Len(DirElements)
           home == HomeElement
           dirs == DirElements
           D(e) == Directory(e)
           E(i) == IF i = 1 THEN home ELSE dirs[i - 1]
<1>1. home \in Elements /\ dirs \in Seq(Elements) /\ n \in Nat /\ n <= MaxRank /\ MaxRank \in Nat
  BY ElementsAre, ConstantsAssumption
<1>2. NamedPaths = [i \in 1 .. n + 1 |-> D(E(i))]
  BY DEF NamedPaths
<1>3. ASSUME NEW S, NEW x \in S, NEW t \in Seq(S), Len(t) = n
      PROVE  /\ <<x>> \o t \in Seq(S) /\ DOMAIN (<<x>> \o t) = 1 .. n + 1
             /\ \A i \in 1 .. n + 1 : (<<x>> \o t)[i] = IF i = 1 THEN x ELSE t[i - 1]
  <2> DEFINE one == <<x>>
             u == one \o t
  <2>1. one \in Seq(S) /\ Len(one) = 1 /\ one[1] = x
    OBVIOUS
  <2> HIDE DEF one, n
  <2>2. /\ u \in Seq(S) /\ Len(u) = Len(one) + Len(t)
        /\ \A i \in 1 .. Len(one) + Len(t) : u[i] = IF i <= Len(one) THEN one[i] ELSE t[i - Len(one)]
    BY <2>1, ConcatProperties
  <2> HIDE DEF u
  <2>3. Len(u) = n + 1 /\ \A i \in 1 .. n + 1 : u[i] = IF i = 1 THEN x ELSE t[i - 1]
    BY <1>1, <1>3, <2>1, <2>2
  <2>4. DOMAIN u = 1 .. n + 1
    BY <2>2, <2>3, LenProperties
  <2> QED BY <2>2, <2>3, <2>4 DEF u, one
<1> HIDE DEF n, home, dirs
<1>4. \A i \in 1 .. n + 1 : E(i) \in Elements
  <2>1. \A i \in 1 .. n + 1 : i = 1 \/ i - 1 \in 1 .. n
    BY <1>1
  <2>2. \A i \in 1 .. n : dirs[i] \in Elements
    BY <1>1, ElementOfSeq DEF n, dirs
  <2> QED BY <1>1, <2>1, <2>2
<1>5. NamedDirectories = Kept(NamedPaths, DOMAIN in.dirs \cap Absolute)
  <2> DEFINE elements == <<home>> \o dirs
  <2>1. /\ DOMAIN elements = 1 .. n + 1
        /\ \A i \in 1 .. n + 1 : elements[i] = E(i)
    BY <1>1, <1>3 DEF n, dirs
  <2>2. NamedDirectories = Kept([i \in DOMAIN elements |-> Directory(elements[i])],
                                DOMAIN in.dirs \cap Absolute)
    BY DEF NamedDirectories, home, dirs
  <2> HIDE DEF elements, E
  <2>3. [i \in DOMAIN elements |-> Directory(elements[i])] = [i \in 1 .. n + 1 |-> D(E(i))]
    BY <2>1
  <2> QED BY <1>2, <2>2, <2>3
<1>6. [i \in DOMAIN Candidates |-> add_applications_dir(Candidates[i])] = NamedPaths
  <2> DEFINE h == IF Written(in.data_home) = <<>> THEN HomeShare ELSE Written(in.data_home)
             t == split(IF XdgDataDirs = <<>> THEN DefaultDirs ELSE XdgDataDirs, ":")
             c == <<h>> \o t
  <2>1. Candidates = c
    BY DEF Candidates
  <2>2. h = Written(home)
    BY DefaultsWritten DEF HomeElement, home
  <2>3. t = Texts(dirs, n)
    BY EnvironmentSplit DEF n, dirs
  <2> HIDE DEF h, t
  <2>4. h \in Seq(EnvChars)
    BY <1>1, <2>2, WrittenType
  <2>5. \A i \in 1 .. n : Written(dirs[i]) \in Seq(EnvChars)
    <3>1. \A i \in 1 .. n : dirs[i] \in Elements
      BY <1>1, ElementOfSeq DEF n, dirs
    <3> QED BY <3>1, WrittenType
  <2>6. t \in Seq(Seq(EnvChars)) /\ Len(t) = n /\ \A i \in 1 .. n : t[i] = Written(dirs[i])
    <3> DEFINE W(i) == Written(dirs[i])
    <3>1. t = [i \in 1 .. n |-> W(i)] /\ \A i \in 1 .. n : W(i) \in Seq(EnvChars)
      BY <2>3, <2>5 DEF Texts
    <3> HIDE DEF W
    <3>2. t \in Seq(Seq(EnvChars)) /\ Len(t) = n /\ \A i \in 1 .. n : t[i] = W(i)
      BY <1>1, <3>1
    <3> QED BY <3>2 DEF W
  <2>7. /\ DOMAIN c = 1 .. n + 1
        /\ \A i \in 1 .. n + 1 : c[i] = IF i = 1 THEN h ELSE t[i - 1]
    BY <1>3, <2>4, <2>6
  <2> HIDE DEF c
  <2>8. \A i \in 1 .. n + 1 : c[i] = Written(E(i))
    <3>1. \A i \in 1 .. n + 1 : i = 1 \/ i - 1 \in 1 .. n
      BY <1>1
    <3> QED BY <2>2, <2>6, <2>7, <3>1
  <2> HIDE DEF E
  <2>9. \A i \in 1 .. n + 1 : add_applications_dir(c[i]) = D(E(i))
    BY <1>4, <2>8, DirectoryOf
  <2> HIDE DEF D
  <2>10. [i \in DOMAIN c |-> add_applications_dir(c[i])] = [i \in 1 .. n + 1 |-> D(E(i))]
    BY <2>7, <2>9
  <2> QED BY <1>2, <2>1, <2>10 DEF D
<1>7. NamedPaths \in Seq(Seq(EnvChars)) /\ Len(NamedPaths) = n + 1
  <2> DEFINE P(i) == D(E(i))
             p == [i \in 1 .. n + 1 |-> P(i)]
  <2>1. ASSUME NEW i \in 1 .. n + 1 PROVE P(i) \in Seq(EnvChars)
    <3> DEFINE b == E(i).root \o E(i).name
               B == <<"/", "applications", "/">>
    <3>1. b \in Seq(EnvChars)
      BY <1>4, WrittenType
    <3>2. B \in Seq(EnvChars)
      BY DEF EnvChars
    <3> HIDE DEF b, B
    <3>3. b \o B \in Seq(EnvChars)
      BY <3>1, <3>2, ConcatProperties
    <3> QED BY <3>3 DEF b, B, Directory
  <2> HIDE DEF P
  <2>2. p \in Seq(Seq(EnvChars)) /\ Len(p) = n + 1
    BY <1>1, <2>1
  <2> QED BY <1>2, <2>2 DEF P
<1> QED
  BY <1>1, <1>5, <1>6, <1>7

\* What build_search_path() and validate_search_path() keep of them is what the
\* environment names.
LEMMA SearchPathNamed ==
    ASSUME in \in Inputs
    PROVE  LET built == Kept([i \in DOMAIN Candidates |-> add_applications_dir(Candidates[i])],
                             DOMAIN in.dirs)
           IN  /\ Kept(built, Absolute) = NamedDirectories
               /\ built \in Seq(DOMAIN in.dirs) /\ NamedDirectories \in Seq(DOMAIN in.dirs)
               /\ Len(NamedDirectories) <= MaxRank + 1
<1> DEFINE D == DOMAIN in.dirs
           p == NamedPaths
           T == Seq(EnvChars)
           A == Absolute
<1>1. /\ [i \in DOMAIN Candidates |-> add_applications_dir(Candidates[i])] = p
      /\ NamedDirectories = Kept(p, D \cap A)
      /\ p \in Seq(T) /\ Len(p) <= MaxRank + 1 /\ MaxRank \in Nat /\ Len(p) \in Nat
  BY NamedPathsAre, ConstantsAssumption, LenProperties
<1> DEFINE C == D \cap A
<1> HIDE DEF D, A, p, T
<1>2. Kept(Kept(p, D), A) = Kept(p, C) /\ Kept(p, C) \in Seq(T) /\ Len(Kept(p, C)) <= Len(p)
  <2>1. p \in Seq(T) /\ IsBoth(C, D, A)
    BY <1>1 DEF IsBoth
  <2> HIDE DEF C
  <2>2. Kept(Kept(p, D), A) = Kept(p, C)
    BY <2>1, KeptTwice
  <2>3. \A X : Kept(p, X) \in Seq(T) /\ Len(Kept(p, X)) <= Len(p)
    <3> SUFFICES ASSUME NEW X PROVE Kept(p, X) \in Seq(T) /\ Len(Kept(p, X)) <= Len(p)
      OBVIOUS
    <3>1. IsBoth(X, X, X)
      BY DEF IsBoth
    <3> QED BY <2>1, <3>1, KeptTwice
  <2> QED BY <2>2, <2>3
<1>3. Kept(p, D) \in Seq(D) /\ Kept(p, C) \in Seq(D)
  <2>1. D \in SUBSET D /\ C \in SUBSET D /\ Len(p) \in Nat
    BY <1>1
  <2> HIDE DEF C
  <2> QED BY <2>1, KeptType
<1>4. Len(Kept(p, C)) \in Nat
  BY <1>2, LenProperties
<1>5. Len(Kept(p, C)) <= MaxRank + 1
  <2> HIDE DEF C
  <2> QED BY <1>1, <1>2, <1>4
<1> QED
  BY <1>1, <1>2, <1>3, <1>5 DEF D, A

-----------------------------------------------------------------------------
(* The invariant *)

\* What the directories on the stack, and the entries that are left, stand for
StackSets == [k \in DOMAIN dirstack |-> Below(in, dirstack[k])]
EntrySets == [k \in DOMAIN direntries |-> Reached(in, curdir, direntries[k])]

Complete(r) == IsInjective(files[r]) /\ ToSet(files[r]) = Below(in, search_path[r])

WalkType ==
    /\ in \in Inputs
    /\ search_path \in Seq(DOMAIN in.dirs)
    /\ files \in Seq(Seq(String)) /\ Len(files) <= Len(search_path)
    /\ dirstack \in Seq(DOMAIN in.dirs)
    /\ direntries \in Seq(Seen(in, curdir))
    /\ direntries # <<>> => IsDir(in, curdir)

WalkInv ==
    /\ WalkType
    /\ stage \in {"search_path", "validate"} => files = <<>>
    /\ files = <<>> => Idle
    /\ stage = "load" => Idle /\ Len(files) = Len(search_path)
    /\ \A r \in 1 .. Len(files) - 1 : Complete(r)
    /\ files # <<>> =>
          Divided(Below(in, search_path[Len(files)]), files[Len(files)], StackSets, EntrySets)

LEMMA WalkInit == StartupInit => WalkInv
<1> SUFFICES ASSUME StartupInit PROVE WalkInv
  OBVIOUS
<1>1. in \in Inputs /\ search_path = <<>> /\ dirstack = <<>> /\ direntries = <<>> /\ files = <<>>
      /\ stage = "search_path"
  BY DEF StartupInit
<1>2. WalkType
  BY <1>1 DEF WalkType
<1> QED
  BY <1>1, <1>2 DEF WalkInv, Idle

\* Between two walks everything is complete.
LEMMA WalkOver ==
    ASSUME WalkInv, Idle
    PROVE  \A r \in 1 .. Len(files) : Complete(r)
<1> DEFINE n == Len(files)
<1>1. n \in Nat /\ (files = <<>> <=> n = 0)
  BY EmptySeq, LenProperties DEF WalkInv, WalkType
<1>2. DOMAIN StackSets = {} /\ DOMAIN EntrySets = {}
  BY DEF StackSets, EntrySets, Idle
<1>3. ASSUME n # 0 PROVE Complete(n)
  <2>1. Divided(Below(in, search_path[n]), files[n], StackSets, EntrySets)
    BY <1>1, <1>3 DEF WalkInv
  <2> HIDE DEF n
  <2>2. IsInjective(files[n]) /\ ToSet(files[n]) = Below(in, search_path[n])
    BY <1>2, <2>1, AllFound
  <2> QED BY <2>2 DEF Complete
<1>4. \A r \in 1 .. n - 1 : Complete(r)
  BY DEF WalkInv
<1>5. \A r \in 1 .. n : r \in 1 .. n - 1 \/ (r = n /\ n # 0)
  BY <1>1
<1> QED
  BY <1>3, <1>4, <1>5

\* What a state says once the walks are over is what EachFileOnce says.
LEMMA WalkCorrect == WalkInv => EachFileOnce
<1> SUFFICES ASSUME WalkInv, stage = "load", NEW r \in DOMAIN files
             PROVE  IsInjective(files[r]) /\ ToSet(files[r]) = FilesIn(search_path[r])
  BY DEF EachFileOnce
<1>1. r \in 1 .. Len(files)
  BY LenProperties DEF WalkInv, WalkType
<1>2. Complete(r)
  BY <1>1, WalkOver DEF WalkInv
<1>3. Below(in, search_path[r]) = FilesIn(search_path[r])
  BY DEF Below, FilesIn
<1> QED
  BY <1>2, <1>3 DEF Complete

\* A step that leaves the walk and the search path alone
LEMMA WalkUnchanged ==
    ASSUME WalkInv, UNCHANGED <<in, search_path, dirstack, curdir, direntries, files>>,
           stage' = stage \/ stage' \in {"aborted", "terminated"}
    PROVE  WalkInv'
<1>1. StackSets' = StackSets /\ EntrySets' = EntrySets
  BY DEF StackSets, EntrySets
<1>2. \A r : Complete(r)' <=> Complete(r)
  BY DEF Complete
<1>3. WalkType' /\ (Idle' <=> Idle)
  BY DEF WalkInv, WalkType, Idle
<1> DEFINE D == Divided(Below(in, search_path[Len(files)]), files[Len(files)], StackSets, EntrySets)
<1>4. D' <=> D
  BY <1>1
<1>5. /\ files' = <<>> => Idle'
      /\ \A r \in 1 .. Len(files') - 1 : Complete(r)'
      /\ files' # <<>> => D'
  BY <1>2, <1>3, <1>4 DEF WalkInv
<1>6. /\ stage' \in {"search_path", "validate"} => files' = <<>>
      /\ stage' = "load" => Idle' /\ Len(files') = Len(search_path')
  BY <1>3 DEF WalkInv
<1> QED
  BY <1>3, <1>5, <1>6 DEF WalkInv

LEMMA WalkSearchPath ==
    ASSUME WalkInv, build_search_path \/ validate_search_path
    PROVE  WalkInv'
<1>1. /\ stage \in {"search_path", "validate"} /\ stage' \in {"validate", "collect"}
      /\ UNCHANGED <<in, dirstack, curdir, direntries, files>>
  BY DEF build_search_path, validate_search_path
<1>2. in \in Inputs /\ search_path \in Seq(DOMAIN in.dirs) /\ files = <<>> /\ Idle
  BY <1>1 DEF WalkInv, WalkType
<1>3. search_path' \in Seq(DOMAIN in.dirs)
  <2>1. CASE build_search_path
    BY <1>2, <2>1, SearchPathNamed DEF build_search_path
  <2>2. CASE validate_search_path
    <3> DEFINE D == DOMAIN in.dirs
               A == Absolute
    <3>1. search_path' = Kept(search_path, A) /\ search_path \in Seq(D)
      BY <1>2, <2>2 DEF validate_search_path
    <3>2. IsBoth(A, A, A)
      BY DEF IsBoth
    <3> HIDE DEF A, D
    <3>3. Kept(search_path, A) \in Seq(D)
      BY <3>1, <3>2, KeptTwice
    <3> QED BY <3>1, <3>3 DEF D
  <2> QED BY <2>1, <2>2
<1>4. Len(search_path') \in Nat /\ Len(files') = 0 /\ files' = <<>>
  BY <1>1, <1>2, <1>3, LenProperties
<1>5. WalkType'
  BY <1>1, <1>3, <1>4 DEF WalkInv, WalkType
<1>6. Idle'
  BY <1>1, <1>2 DEF Idle
<1>7. \A r \in 1 .. Len(files') - 1 : Complete(r)'
  BY <1>4
<1> QED
  BY <1>1, <1>4, <1>5, <1>6, <1>7 DEF WalkInv

LEMMA WalkCtor ==
    ASSUME WalkInv, FileFinder_ctor
    PROVE  WalkInv'
<1> DEFINE n == Len(files)
           root == search_path[n + 1]
<1>1. /\ stage = "collect" /\ Idle /\ n < Len(search_path)
      /\ dirstack' = <<root>> /\ files' = Append(files, <<>>)
      /\ UNCHANGED <<in, stage, search_path, curdir, direntries>>
  BY DEF FileFinder_ctor
<1>2. /\ in \in Inputs /\ search_path \in Seq(DOMAIN in.dirs) /\ files \in Seq(Seq(String))
      /\ direntries = <<>>
  BY <1>1 DEF WalkInv, WalkType, Idle
<1>3. n \in Nat /\ Len(search_path) \in Nat
  BY <1>2, LenProperties
<1>4. root \in DOMAIN in.dirs
  BY <1>1, <1>2, <1>3, ElementOfSeq
<1> HIDE DEF root
<1>5. /\ files' \in Seq(Seq(String)) /\ Len(files') = n + 1 /\ files' # <<>>
      /\ (\A r \in 1 .. n : files'[r] = files[r]) /\ files'[n + 1] = <<>>
  <2>1. <<>> \in Seq(String)
    OBVIOUS
  <2>2. /\ files' \in Seq(Seq(String)) /\ Len(files') = n + 1
        /\ (\A r \in 1 .. n : files'[r] = files[r]) /\ files'[n + 1] = <<>>
    BY <1>1, <1>2, <2>1, AppendProperties
  <2> QED BY <1>3, <2>2, EmptySeq
<1>6. <<root>> \in Seq(DOMAIN in.dirs) /\ DOMAIN <<root>> = {1} /\ <<root>>[1] = root
  BY <1>4, OneElement
<1> HIDE DEF n
<1>7. WalkType'
  <2>1. Len(files') <= Len(search_path')
    BY <1>1, <1>3, <1>5
  <2>2. dirstack' \in Seq(DOMAIN in.dirs)
    BY <1>1, <1>6
  <2>3. direntries' = <<>> /\ <<>> \in Seq(Seen(in, curdir)')
    BY <1>1, <1>2
  <2> QED BY <1>1, <1>2, <1>5, <2>1, <2>2, <2>3 DEF WalkType
<1>8. ASSUME NEW r \in 1 .. Len(files') - 1 PROVE Complete(r)'
  <2>1. r \in 1 .. n
    BY <1>3, <1>5
  <2>2. Complete(r)
    BY <1>1, <2>1, WalkOver DEF n
  <2>3. files'[r] = files[r] /\ search_path' = search_path /\ in' = in
    BY <1>1, <1>5, <2>1
  <2> QED BY <2>2, <2>3 DEF Complete
<1>9. Divided(Below(in, root), files'[n + 1], StackSets', EntrySets')
  <2> DEFINE found == files'[n + 1]
             A == StackSets'
             B == EntrySets'
             U == Below(in, root)
  <2>1. DOMAIN found = {}
    BY <1>5
  <2>2. DOMAIN A = {1} /\ A[1] = U
    BY <1>1, <1>6 DEF StackSets
  <2>3. DOMAIN B = {}
    BY <1>1, <1>2 DEF EntrySets
  <2> HIDE DEF found, A, B, U
  <2>4. Divided(U, found, A, B)
    BY <2>1, <2>2, <2>3, NothingFound
  <2> QED BY <2>4 DEF found, A, B, U
<1>10. Divided(Below(in, search_path[Len(files)]), files[Len(files)], StackSets, EntrySets)'
  BY <1>1, <1>5, <1>9 DEF n, root
<1> QED
  BY <1>1, <1>5, <1>7, <1>8, <1>10 DEF WalkInv

\* The entries of a directory, in the order in which they are visited
LEMMA Enumerated ==
    ASSUME NEW S, IsFiniteSet(S), NEW s \in SetToSeqs(S)
    PROVE  /\ s \in Seq(S) /\ (\A e \in S : \E k \in DOMAIN s : s[k] = e)
           /\ \A k, l \in DOMAIN s : s[k] = s[l] => k = l
<1> DEFINE n == Cardinality(S)
           D == 1 .. n
<1>1. n \in Nat
  BY FS_CardinalityType
<1>2. s \in [D -> S] /\ \A i, j \in D : i # j => s[i] # s[j]
  BY DEF SetToSeqs
<1>3. s \in Seq(S) /\ DOMAIN s = D
  BY <1>1, <1>2
<1>4. s \in Injection(D, S)
  BY <1>2 DEF Injection, IsInjective
<1>5. IsFiniteSet(D) /\ Cardinality(D) = n
  BY <1>1, FS_Interval
<1> HIDE DEF D
<1>6. s \in Surjection(D, S)
  BY <1>4, <1>5, FS_Injection
<1>7. \A e \in S : \E k \in D : s[k] = e
  BY <1>6 DEF Surjection
<1> QED
  BY <1>2, <1>3, <1>7

LEMMA WalkOpendir ==
    ASSUME WalkInv, opendir
    PROVE  WalkInv'
<1> DEFINE n == Len(dirstack)
           d == dirstack[n]
           r == Len(files)
           U == Below(in, search_path[r])
           found == files[r]
           A == StackSets
           A2 == StackSets'
           B == EntrySets
           B2 == EntrySets'
           s == direntries'
<1>1. /\ stage = "collect" /\ direntries = <<>> /\ dirstack # <<>>
      /\ curdir' = d /\ dirstack' = SubSeq(dirstack, 1, n - 1)
      /\ s \in SetToSeqs(Seen(in, d))
      /\ UNCHANGED <<in, stage, search_path, files>>
  BY DEF opendir, Last, Front, Visible, Seen
<1>2. /\ in \in Inputs /\ dirstack \in Seq(DOMAIN in.dirs) /\ files # <<>>
      /\ Divided(U, found, A, B)
  BY <1>1 DEF WalkInv, WalkType, Idle
<1>3. n \in Nat /\ n >= 1 /\ DOMAIN dirstack = 1 .. n
  BY <1>1, <1>2, EmptySeq, LenProperties
<1>4. IsDir(in, d)
  BY <1>2, <1>3, ElementOfSeq DEF IsDir
<1>5. /\ dirstack' \in Seq(DOMAIN in.dirs) /\ DOMAIN dirstack' = 1 .. n - 1
      /\ \A k \in 1 .. n - 1 : dirstack'[k] = dirstack[k]
  <2> DEFINE t == SubSeq(dirstack, 1, n - 1)
  <2>1. t \in Seq(DOMAIN in.dirs) /\ Len(t) = n - 1 /\ \A k \in 1 .. n - 1 : t[k] = dirstack[k]
    BY <1>2, <1>3, WithoutLast
  <2> HIDE DEF t
  <2>2. DOMAIN t = 1 .. n - 1
    BY <2>1, LenProperties
  <2> QED BY <1>1, <2>1, <2>2 DEF t
<1>6. IsFiniteSet(Seen(in, d))
  <2>1. IsFiniteSet(in.dirs[d])
    BY <1>2, <1>4, TreeDir
  <2>2. Seen(in, d) \subseteq in.dirs[d]
    BY DEF Seen
  <2> QED BY <2>1, <2>2, FS_Subset
<1>7. /\ s \in Seq(Seen(in, d)) /\ (\A e \in Seen(in, d) : \E k \in DOMAIN s : s[k] = e)
      /\ \A k, l \in DOMAIN s : s[k] = s[l] => k = l
  BY <1>1, <1>6, Enumerated
<1>8. \A k \in DOMAIN s : s[k] \in Seen(in, d)
  BY <1>7
<1>9. WalkType'
  <2>1. s \in Seq(Seen(in, curdir)')
    BY <1>1, <1>7
  <2>2. IsDir(in, curdir)'
    BY <1>1, <1>4 DEF IsDir
  <2> HIDE DEF s
  <2> QED BY <1>1, <1>2, <1>5, <2>1, <2>2 DEF WalkInv, WalkType, s
<1>10. /\ n \in DOMAIN A /\ A[n] = Below(in, d) /\ DOMAIN A2 = DOMAIN A \ {n}
       /\ \A k \in DOMAIN A2 : A2[k] = A[k]
  <2>1. DOMAIN A = 1 .. n /\ \A k \in 1 .. n : A[k] = Below(in, dirstack[k])
    BY <1>3 DEF StackSets
  <2>2. DOMAIN A2 = 1 .. n - 1 /\ \A k \in 1 .. n - 1 : A2[k] = Below(in, dirstack[k])
    BY <1>1, <1>5 DEF StackSets
  <2>3. n \in 1 .. n /\ 1 .. n - 1 = (1 .. n) \ {n} /\ \A k \in 1 .. n - 1 : k \in 1 .. n
    BY <1>3
  <2> HIDE DEF A, A2
  <2> QED BY <2>1, <2>2, <2>3
<1>11. DOMAIN B = {}
  BY <1>1 DEF EntrySets
<1>12. DOMAIN B2 = DOMAIN s /\ \A k \in DOMAIN s : B2[k] = Reached(in, d, s[k])
  BY <1>1 DEF EntrySets
<1> HIDE DEF A, A2, B, B2, U, found, s, d
<1> DEFINE X == Below(in, d)
<1>13. Divided(U \ A[n], found, A2, B) /\ A[n] \subseteq U
  BY <1>2, <1>10, DirPopped
<1>14. Divided(U \ X, found, A2, B) /\ X \in SUBSET U
  BY <1>10, <1>13
<1>15. ASSUME NEW p PROVE p \in X <=> \E k \in DOMAIN B2 : p \in B2[k]
  <2>1. ASSUME p \in X PROVE \E k \in DOMAIN B2 : p \in B2[k]
    <3>1. PICK e \in Seen(in, d) : p \in Reached(in, d, e)
      BY <1>2, <1>4, <2>1, BelowReached
    <3>2. PICK k \in DOMAIN s : s[k] = e
      BY <1>7
    <3> QED BY <1>12, <3>1, <3>2
  <2>2. ASSUME NEW k \in DOMAIN B2, p \in B2[k] PROVE p \in X
    <3>1. s[k] \in Seen(in, d) /\ p \in Reached(in, d, s[k])
      BY <1>8, <1>12, <2>2
    <3> QED BY <1>2, <1>4, <3>1, ReachedBelow
  <2> QED BY <2>1, <2>2
<1>16. ASSUME NEW p, NEW k, NEW l, k \in DOMAIN B2, l \in DOMAIN B2, p \in B2[k], p \in B2[l]
       PROVE  k = l
  <2>1. /\ s[k] \in Seen(in, d) /\ p \in Reached(in, d, s[k])
        /\ s[l] \in Seen(in, d) /\ p \in Reached(in, d, s[l])
    BY <1>8, <1>12, <1>16
  <2>2. s[k] = s[l]
    BY <1>2, <1>4, <2>1, ReachedOnce
  <2> QED BY <1>7, <1>12, <1>16, <2>2
<1> HIDE DEF X
<1>17. Divided(U, found, A2, B2)
  BY <1>11, <1>14, <1>15, <1>16, DirRead
<1>18. Divided(Below(in, search_path[Len(files)]), files[Len(files)], StackSets, EntrySets)'
  BY <1>1, <1>17 DEF U, found, A2, B2
<1>19. \A q \in 1 .. Len(files') - 1 : Complete(q)'
  BY <1>1 DEF WalkInv, Complete
<1> QED
  BY <1>1, <1>2, <1>9, <1>18, <1>19 DEF WalkInv

\* The entries without the first one
LEMMA WithoutFirst ==
    ASSUME NEW S, NEW s \in Seq(S), s # <<>>
    PROVE  /\ Head(s) = s[1] /\ s[1] \in S /\ Tail(s) \in Seq(S)
           /\ \E n \in Nat : /\ DOMAIN s = 1 .. n + 1 /\ DOMAIN Tail(s) = 1 .. n
                            /\ \A k \in 1 .. n : Tail(s)[k] = s[k + 1]
<1> DEFINE n == Len(s) - 1
           t == Tail(s)
<1>1. Len(s) \in Nat /\ Len(s) >= 1 /\ n \in Nat /\ DOMAIN s = 1 .. Len(s) /\ Len(s) = n + 1
  BY EmptySeq, LenProperties
<1>2. Head(s) = s[1] /\ s[1] \in S
  BY <1>1, ElementOfSeq
<1>3. t \in Seq(S) /\ Len(t) = n /\ \A k \in 1 .. n : t[k] = s[k + 1]
  BY <1>1
<1> HIDE DEF n, t
<1>4. DOMAIN t = 1 .. n
  BY <1>3, LenProperties
<1> QED
  BY <1>1, <1>2, <1>3, <1>4 DEF t

\* A path is added to the files found.
LEMMA OneMore ==
    ASSUME NEW S, NEW s \in Seq(S), NEW x \in S, IsInjective(s), x \notin ToSet(s)
    PROVE  /\ Append(s, x) \in Seq(S) /\ IsInjective(Append(s, x))
           /\ ToSet(Append(s, x)) = ToSet(s) \cup {x}
<1> DEFINE g == Append(s, x)
           n == Len(s)
<1>1. n \in Nat /\ DOMAIN s = 1 .. n
  BY LenProperties
<1>2. g \in Seq(S) /\ Len(g) = n + 1 /\ (\A i \in 1 .. n : g[i] = s[i]) /\ g[n + 1] = x
  BY <1>1, AppendProperties
<1> HIDE DEF g, n
<1>3. DOMAIN g = 1 .. n + 1
  BY <1>2, LenProperties
<1>4. \A i \in DOMAIN g : (i \in DOMAIN s /\ g[i] = s[i]) \/ (i = n + 1 /\ g[i] = x)
  BY <1>1, <1>2, <1>3
<1>5. (\A i \in DOMAIN s : i \in DOMAIN g /\ g[i] = s[i]) /\ n + 1 \in DOMAIN g /\ g[n + 1] = x
  BY <1>1, <1>2, <1>3
<1>6. \A i \in DOMAIN s : s[i] # x
  BY DEF ToSet
<1>7. IsInjective(g)
  BY <1>4, <1>6 DEF IsInjective
<1>8. ToSet(g) = ToSet(s) \cup {x}
  <2>1. \A y \in ToSet(g) : y \in ToSet(s) \cup {x}
    BY <1>4 DEF ToSet
  <2>2. \A y \in ToSet(s) : y \in ToSet(g)
    BY <1>5 DEF ToSet
  <2>3. x \in ToSet(g)
    BY <1>5 DEF ToSet
  <2> QED BY <2>1, <2>2, <2>3
<1> QED
  BY <1>2, <1>7, <1>8 DEF g

LEMMA WalkIncrement ==
    ASSUME WalkInv, increment
    PROVE  WalkInv'
<1> DEFINE r == Len(files)
           U == Below(in, search_path[r])
           found == files[r]
           A == StackSets
           A2 == StackSets'
           B == EntrySets
           B2 == EntrySets'
           e == Head(direntries)
           curpath == curdir \o e.name
           sub == curpath \o <<"/">>
           desktop == Last(curpath) = ".desktop"
<1>1. /\ stage = "collect" /\ direntries # <<>>
      /\ dirstack' = (IF IsDir(in, sub) THEN Append(dirstack, sub) ELSE dirstack)
      /\ direntries' = Tail(direntries)
      /\ files' = (IF IsDir(in, sub) \/ ~desktop THEN files
                   ELSE [files EXCEPT ![r] = Append(found, curpath)])
      /\ UNCHANGED <<in, stage, search_path, curdir>>
  BY DEF increment, is_directory, IsDir
<1>2. /\ in \in Inputs /\ dirstack \in Seq(DOMAIN in.dirs) /\ files # <<>>
      /\ Divided(U, found, A, B) /\ IsDir(in, curdir) /\ direntries \in Seq(Seen(in, curdir))
      /\ files \in Seq(Seq(String))
  BY <1>1 DEF WalkInv, WalkType, Idle
<1>3. r \in Nat /\ r \in 1 .. r /\ found \in Seq(String)
  BY <1>2, EmptySeq, ElementOfSeq, LenProperties
<1>4. e = direntries[1] /\ e \in Seen(in, curdir) /\ direntries' \in Seq(Seen(in, curdir))
  BY <1>1, <1>2, WithoutFirst
<1>5. PICK n \in Nat : /\ DOMAIN direntries = 1 .. n + 1 /\ DOMAIN direntries' = 1 .. n
                       /\ \A k \in 1 .. n : direntries'[k] = direntries[k + 1]
  BY <1>1, <1>2, WithoutFirst
<1>6. curpath \in String
  <2>1. curdir \in Seq(Chars)
    BY <1>2, TreeDir DEF String
  <2>2. e.name \in Seq(Chars)
    BY <1>2, <1>4, TreeEntry DEF Seen, IsName, String
  <2> QED BY <2>1, <2>2, ConcatProperties DEF String
<1>7. DOMAIN B = 1 .. n + 1 /\ B[1] = Reached(in, curdir, e)
  BY <1>4, <1>5 DEF EntrySets
<1>8. DOMAIN B2 = 1 .. n /\ \A k \in 1 .. n : B2[k] = B[k + 1]
  <2>1. DOMAIN B2 = 1 .. n /\ \A k \in 1 .. n : B2[k] = Reached(in, curdir, direntries'[k])
    BY <1>1, <1>5 DEF EntrySets
  <2>2. \A k \in 1 .. n : k + 1 \in 1 .. n + 1
    OBVIOUS
  <2>3. \A k \in 1 .. n : B[k + 1] = Reached(in, curdir, direntries[k + 1])
    BY <1>5, <2>2 DEF EntrySets
  <2> HIDE DEF B, B2
  <2> QED BY <1>5, <2>1, <2>3
<1> DEFINE X == Reached(in, curdir, e)
<1> HIDE DEF A, A2, B, B2, U, found, e, X
<1>9. Divided(U \ X, found, A, B2) /\ X \in SUBSET U
  <2>1. IsTail(B2, B, n)
    BY <1>7, <1>8 DEF IsTail
  <2>2. Divided(U \ B[1], found, A, B2) /\ B[1] \subseteq U
    BY <1>2, <2>1, EntryTaken
  <2> QED BY <1>7, <2>2 DEF X
<1> HIDE DEF r
<1>10. \A q \in 1 .. r - 1 : Complete(q)
  BY DEF WalkInv, r
<1>11. ASSUME NEW g, files' = g, g \in Seq(Seq(String)), Len(g) = r, \A q \in 1 .. r - 1 : g[q] = files[q],
              dirstack' \in Seq(DOMAIN in.dirs), Divided(U, g[r], A2, B2)
       PROVE  WalkInv'
  <2>1. files' # <<>>
    BY <1>3, <1>11, EmptySeq
  <2>2. Len(files') <= Len(search_path')
    BY <1>1, <1>11 DEF WalkInv, WalkType, r
  <2>3. WalkType'
    <3>1. direntries' \in Seq(Seen(in, curdir)') /\ IsDir(in, curdir)'
      BY <1>1, <1>2, <1>4 DEF IsDir
    <3> QED BY <1>1, <1>11, <2>2, <3>1 DEF WalkInv, WalkType
  <2>4. Divided(Below(in, search_path[Len(files)]), files[Len(files)], StackSets, EntrySets)'
    BY <1>1, <1>11 DEF U, A2, B2, r
  <2>5. ASSUME NEW q \in 1 .. Len(files') - 1 PROVE Complete(q)'
    <3>1. q \in 1 .. r - 1
      BY <1>11
    <3>2. files'[q] = files[q] /\ in' = in /\ search_path' = search_path
      BY <1>1, <1>11, <3>1
    <3> QED BY <1>10, <3>1, <3>2 DEF Complete
  <2> QED BY <1>1, <2>1, <2>3, <2>4, <2>5 DEF WalkInv
<1> HIDE DEF curpath, sub, desktop
<1>12. CASE IsDir(in, sub)
  <2> DEFINE m == Len(dirstack)
             t == Append(dirstack, sub)
  <2>1. m \in Nat /\ DOMAIN dirstack = 1 .. m /\ sub \in DOMAIN in.dirs
    BY <1>2, <1>12, LenProperties DEF IsDir
  <2>2. t \in Seq(DOMAIN in.dirs) /\ Len(t) = m + 1 /\ (\A k \in 1 .. m : t[k] = dirstack[k])
        /\ t[m + 1] = sub
    BY <1>2, <2>1, AppendProperties
  <2> HIDE DEF t, m
  <2>3. DOMAIN t = 1 .. m + 1
    BY <2>2, LenProperties
  <2>4. dirstack' = t /\ files' = files
    BY <1>1, <1>12 DEF t
  <2>5. X = Below(in, sub)
    BY <1>12 DEF X, Reached, IsDir, sub, curpath
  <2>6. DOMAIN A = 1 .. m /\ \A k \in 1 .. m : A[k] = Below(in, dirstack[k])
    BY <2>1 DEF A, StackSets
  <2>7. DOMAIN A2 = 1 .. m + 1 /\ \A k \in 1 .. m + 1 : A2[k] = Below(in, t[k])
    BY <1>1, <2>3, <2>4 DEF A2, StackSets
  <2>8. /\ m + 1 \notin 1 .. m /\ 1 .. m + 1 = (1 .. m) \cup {m + 1} /\ m + 1 \in 1 .. m + 1
        /\ \A k \in 1 .. m : k \in 1 .. m + 1
    BY <2>1
  <2>9. (\A k \in DOMAIN A : A2[k] = A[k]) /\ A2[m + 1] = X
    BY <2>2, <2>5, <2>6, <2>7, <2>8
  <2>10. m + 1 \notin DOMAIN A /\ DOMAIN A2 = DOMAIN A \cup {m + 1}
    BY <2>6, <2>7, <2>8
  <2>11. Divided(U, found, A2, B2)
    BY <1>9, <2>9, <2>10, DirPushed
  <2> QED BY <1>2, <1>11, <2>2, <2>4, <2>11 DEF found, r
<1>13. CASE ~IsDir(in, sub) /\ desktop
  <2> DEFINE h == Append(found, curpath)
             g == [files EXCEPT ![r] = h]
  <2>1. X = {curpath}
    BY <1>13 DEF X, Reached, IsDir, sub, curpath, desktop
  <2>2. curpath \in U /\ Divided(U \ {curpath}, found, A, B2)
    BY <1>9, <2>1
  <2>3. IsInjective(found) /\ curpath \notin ToSet(found)
    BY <2>2 DEF Divided, Somewhere
  <2>4. h \in Seq(String) /\ IsInjective(h) /\ ToSet(h) = ToSet(found) \cup {curpath}
    BY <1>3, <1>6, <2>3, OneMore
  <2> HIDE DEF h
  <2>5. Divided(U, h, A, B2)
    BY <2>2, <2>4, FileFound
  <2>6. files' = g /\ dirstack' = dirstack
    BY <1>1, <1>13 DEF h
  <2>7. A2 = A
    BY <1>1, <2>6 DEF A, A2, StackSets
  <2>8. /\ g \in Seq(Seq(String)) /\ Len(g) = r /\ g[r] = h
        /\ \A q \in 1 .. r - 1 : g[q] = files[q]
    <3>1. Len(files) = r /\ r \in 1 .. Len(files)
      BY <1>3 DEF r
    <3>2. g \in Seq(Seq(String)) /\ Len(g) = Len(files) /\ \A q \in 1 .. Len(files) :
             g[q] = IF q = r THEN h ELSE files[q]
      BY <1>2, <2>4, <3>1, ExceptSeq
    <3>3. \A q \in 1 .. r - 1 : q \in 1 .. r /\ q # r
      BY <1>3
    <3> HIDE DEF g
    <3> QED BY <3>1, <3>2, <3>3
  <2> HIDE DEF g
  <2> QED BY <1>2, <1>11, <2>5, <2>6, <2>7, <2>8
<1>14. CASE ~IsDir(in, sub) /\ ~desktop
  <2>1. X = {}
    BY <1>14 DEF X, Reached, IsDir, sub, curpath, desktop
  <2>2. U \ X = U
    BY <2>1
  <2>3. Divided(U, found, A, B2)
    BY <1>9, <2>2
  <2>4. files' = files /\ dirstack' = dirstack
    BY <1>1, <1>14
  <2>5. A2 = A
    BY <1>1, <2>4 DEF A, A2, StackSets
  <2> QED BY <1>2, <1>11, <2>3, <2>4, <2>5 DEF found, r
<1> QED
  BY <1>12, <1>13, <1>14

LEMMA WalkNext == WalkInv /\ [StartupNext]_all_vars => WalkInv'
<1> SUFFICES ASSUME WalkInv, StartupNext \/ UNCHANGED all_vars PROVE WalkInv'
  OBVIOUS
<1>1. CASE collected
  <2>1. /\ stage = "collect" /\ stage' = "load" /\ Idle /\ Len(files) = Len(search_path)
        /\ UNCHANGED <<in, search_path, dirstack, curdir, direntries, files>>
    BY <1>1 DEF collected
  <2>2. StackSets' = StackSets /\ EntrySets' = EntrySets
    BY <2>1 DEF StackSets, EntrySets
  <2>3. \A r : Complete(r)' <=> Complete(r)
    BY <2>1 DEF Complete
  <2>4. WalkType' /\ Idle'
    BY <2>1 DEF WalkInv, WalkType, Idle
  <2>5. /\ \A r \in 1 .. Len(files') - 1 : Complete(r)'
        /\ files' # <<>> => Divided(Below(in, search_path[Len(files)]), files[Len(files)],
                                   StackSets, EntrySets)'
    BY <2>1, <2>2, <2>3 DEF WalkInv
  <2> QED BY <2>1, <2>4, <2>5 DEF WalkInv
<1>2. CASE build_search_path_asserts \/ opendir_fails \/ LoadNextFile \/ LoadNextRank
           \/ UNCHANGED all_vars
  <2>1. /\ UNCHANGED <<in, search_path, dirstack, curdir, direntries, files>>
        /\ stage' = stage \/ stage' \in {"aborted", "terminated"}
    BY <1>2 DEF build_search_path_asserts, opendir_fails, LoadNextFile, LoadNextRank, all_vars,
        startup_vars
  <2> QED BY <2>1, WalkUnchanged
<1> QED
  BY <1>1, <1>2, WalkSearchPath, WalkCtor, WalkOpendir, WalkIncrement DEF StartupNext

\* FileFinder and collect_files() come by every desktop file below each directory of the
\* search path exactly once and by nothing that is hidden, for a tree of any depth and size
\* and inodes in any order.
THEOREM AlwaysEachFileOnce == StartupSpec => []EachFileOnce
BY WalkInit, WalkNext, WalkCorrect, PTL DEF StartupSpec

-----------------------------------------------------------------------------
(* The search path is what the environment names. *)

PathInv ==
    /\ in \in Inputs
    /\ stage = "validate" => Kept(search_path, Absolute) = NamedDirectories
    /\ stage \in {"collect", "load"} => search_path = NamedDirectories

LEMMA PathInit == StartupInit => PathInv
BY DEF StartupInit, PathInv

LEMMA NamedUnchanged ==
    ASSUME in' = in
    PROVE  NamedDirectories' = NamedDirectories
<1>1. HomeElement' = HomeElement
  BY DEF HomeElement
<1>2. DirElements' = DirElements
  BY DEF DirElements, NamedDirs
<1> QED
  BY <1>1, <1>2 DEF NamedDirectories

LEMMA PathNext == PathInv /\ [StartupNext]_all_vars => PathInv'
<1> SUFFICES ASSUME PathInv, StartupNext \/ UNCHANGED all_vars PROVE PathInv'
  OBVIOUS
<1> DEFINE N == NamedDirectories
<1>1. in' = in
  BY DEF StartupNext, build_search_path, build_search_path_asserts, validate_search_path,
      FileFinder_ctor, opendir, opendir_fails, increment, collected, LoadNextFile, LoadNextRank,
      all_vars, startup_vars
<1>2. N' = N /\ in' \in Inputs
  BY <1>1, NamedUnchanged DEF PathInv
<1> HIDE DEF N
<1>3. CASE build_search_path
  <2>1. stage' = "validate" /\ Kept(search_path', Absolute) = N
    BY <1>3, SearchPathNamed DEF build_search_path, PathInv, N
  <2> QED BY <1>2, <2>1 DEF PathInv, N
<1>4. CASE validate_search_path
  <2>1. stage' = "collect" /\ search_path' = N
    BY <1>4 DEF validate_search_path, PathInv, N
  <2> QED BY <1>2, <2>1 DEF PathInv, N
<1>5. CASE ~build_search_path /\ ~validate_search_path
  <2>1. /\ search_path' = search_path
        /\ \/ stage' = stage
           \/ stage = "collect" /\ stage' = "load"
           \/ stage' = "aborted" \/ stage' = "terminated"
    BY <1>5 DEF StartupNext, build_search_path_asserts, FileFinder_ctor, opendir, opendir_fails,
        increment, collected, LoadNextFile, LoadNextRank, all_vars, startup_vars
  <2> QED BY <1>2, <2>1 DEF PathInv, N
<1> QED
  BY <1>3, <1>4, <1>5

-----------------------------------------------------------------------------
(* The files are loaded in the order of the search path. *)

Decides(file) ==
    file # invalid_error /\ (wine_compatibility_mode \/ file = disabled_error \/ file.exec_valid)

\* File k of directory r decides about the ID.
DecidesOn(r, k, id) ==
    get_desktop_id(files[r][k], search_path[r]) = id /\ Decides(Loaded(files[r][k]))

IsFile(r, k) == r \in 1 .. Len(files) /\ k \in 1 .. Len(files[r])

\* The constructor has come by file k of directory r.
Past(r, k) == r < loading + 1 \/ (r = loading + 1 /\ k < pos)

\* The element of an ID is of the first directory with a file that decides, and there is
\* none as long as the constructor has not come by such a file.
Undecided(id) == \A r, k : IsFile(r, k) /\ Past(r, k) => ~DecidesOn(r, k, id)
DecidedBy(r, k, id) ==
    /\ IsFile(r, k) /\ DecidesOn(r, k, id)
    /\ applications[id].app = Offer(Loaded(files[r][k]))
    /\ Loaded(files[r][k]) \in Application \cup {disabled_error}
    /\ \A q, j : IsFile(q, j) /\ DecidesOn(q, j, id) => r <= q

LoadInv ==
    /\ DOMAIN applications = IDs
    /\ loading \in Nat /\ pos \in Nat /\ pos >= 1
    /\ files \in Seq(Seq(String))
    /\ stage # "load" => loading = 0 /\ pos = 1 /\ \A id \in IDs : applications[id] = null
    /\ stage = "load" => \A id \in IDs :
         IF applications[id] = null THEN Undecided(id) ELSE \E r, k : DecidedBy(r, k, id)

LEMMA LoadInit == StartupInit => LoadInv
BY DEF StartupInit, Init, LoadInv

\* What is loaded stays the same.
LEMMA FilesUnchanged ==
    ASSUME UNCHANGED <<in, search_path, files>>
    PROVE  \A r, k : /\ Loaded(files[r][k])' = Loaded(files[r][k])
                     /\ IsFile(r, k)' <=> IsFile(r, k)
                     /\ \A id : DecidesOn(r, k, id)' <=> DecidesOn(r, k, id)
<1> SUFFICES ASSUME NEW r, NEW k
             PROVE  /\ Loaded(files[r][k])' = Loaded(files[r][k])
                    /\ IsFile(r, k)' <=> IsFile(r, k)
                    /\ \A id : DecidesOn(r, k, id)' <=> DecidesOn(r, k, id)
  OBVIOUS
<1>1. Locale' = Locale /\ desktopenvs' = desktopenvs
  BY DEF Locale, desktopenvs
<1>2. Loaded(files[r][k])' = Loaded(files[r][k])
  BY <1>1, Zenon DEF Loaded
<1>3. IsFile(r, k)' <=> IsFile(r, k)
  BY DEF IsFile
<1>4. \A id : DecidesOn(r, k, id)' <=> DecidesOn(r, k, id)
  BY <1>2 DEF DecidesOn
<1> QED
  BY <1>2, <1>3, <1>4

\* An element that is there stays as it is.
LEMMA DecidedStays ==
    ASSUME UNCHANGED <<in, search_path, files>>, NEW id, applications'[id] = applications[id],
           NEW r, NEW k, DecidedBy(r, k, id)
    PROVE  DecidedBy(r, k, id)'
<1> DEFINE L == Loaded(files[r][k])
<1>1. L' = L
  BY FilesUnchanged
<1>2. /\ IsFile(r, k)' /\ DecidesOn(r, k, id)'
      /\ \A q, j : IsFile(q, j)' /\ DecidesOn(q, j, id)' => r <= q
  BY FilesUnchanged DEF DecidedBy
<1>3. applications[id].app = Offer(L) /\ L \in Application \cup {disabled_error}
  BY DEF DecidedBy
<1> HIDE DEF L
<1>4. applications'[id].app = Offer(L') /\ L' \in Application \cup {disabled_error}
  BY <1>1, <1>3
<1> QED
  BY <1>2, <1>4 DEF DecidedBy, L

\* What a file does to the elements: it is left out, or it gives its ID an element.
LEMMA FileLoaded ==
    ASSUME NEW id, NEW file, ctor_load(id, file)
    PROVE  /\ loading' = loading
           /\ \/ applications' = applications /\ (applications[id] # null \/ ~Decides(file))
              \/ /\ applications[id] = null /\ Decides(file)
                 /\ file \in Application \cup {disabled_error}
                 /\ \E new : /\ new # null /\ new.app = Offer(file)
                             /\ applications' = [applications EXCEPT ![id] = new]
<1>1. loading' = loading /\ loading \in Ranks
  BY DEF ctor_load
<1>2. CASE Skipped(id, file) /\ applications' = applications
  <2>1. ASSUME file \in Application, ~wine_compatibility_mode, ~file.exec_valid PROVE ~Decides(file)
    BY <2>1, ErrorsAssumption DEF Decides
  <2>2. file = invalid_error => ~Decides(file)
    BY DEF Decides
  <2> QED BY <1>1, <1>2, <2>1, <2>2 DEF Skipped
<1>3. CASE ~Skipped(id, file) /\ file = disabled_error
  <2> DEFINE new == [app |-> null, rank |-> loading]
  <2>1. applications' = [applications EXCEPT ![id] = new] /\ applications[id] = null
    BY <1>3, ErrorsAssumption DEF ctor_load, Skipped
  <2>2. new \in Managed_application
    BY <1>1 DEF Managed_application
  <2>3. new # null
    BY <2>2, NullAssumption
  <2>4. new.app = Offer(file) /\ Decides(file)
    BY <1>3, ErrorsAssumption DEF Offer, Decides
  <2> HIDE DEF new
  <2> QED BY <1>1, <1>3, <2>1, <2>3, <2>4
<1>4. CASE ~Skipped(id, file) /\ file \in Application
  <2> DEFINE new == [app |-> file, rank |-> loading]
  <2> HIDE DEF new
  <2>1. applications[id] = null /\ file # disabled_error
    BY <1>4, ErrorsAssumption DEF Skipped
  <2>6. applications' = [applications EXCEPT ![id] = [app |-> file, rank |-> loading]]
    BY <1>4, <2>1 DEF ctor_load
  <2>2. new \in Managed_application
    BY <1>1, <1>4 DEF Managed_application, new
  <2>3. new # null
    BY <2>2, NullAssumption
  <2>4. new.app = Offer(file)
    BY <2>1 DEF Offer, new
  <2>5. Decides(file)
    BY <1>4 DEF Decides, Skipped
  <2> QED BY <1>1, <1>4, <2>1, <2>3, <2>4, <2>5, <2>6 DEF new
<1>5. \/ Skipped(id, file) /\ applications' = applications
      \/ ~Skipped(id, file) /\ file = disabled_error
      \/ ~Skipped(id, file) /\ file \in Application
  BY DEF ctor_load
<1> QED
  BY <1>2, <1>3, <1>4, <1>5

LEMMA LoadFile ==
    ASSUME LoadInv, LoadNextFile
    PROVE  LoadInv'
<1> DEFINE l == loading + 1
           path == files[l][pos]
           x == get_desktop_id(path, search_path[l])
           file == Loaded(path)
<1>1. /\ stage = "load" /\ stage' = "load" /\ pos' = pos + 1
      /\ UNCHANGED <<in, search_path, files>> /\ pos <= Len(RankFiles)
      /\ ctor_load(get_desktop_id(RankFiles[pos], search_path[loading + 1]), Loaded(RankFiles[pos]))
  BY DEF LoadNextFile
<1>2. /\ DOMAIN applications = IDs /\ loading \in Nat /\ pos \in Nat /\ pos >= 1
      /\ files \in Seq(Seq(String)) /\ Len(files) \in Nat
  BY LenProperties DEF LoadInv
<1>3. RankFiles = files[l] /\ loading < Len(files)
  <2>1. CASE ~(loading < Len(files))
    <3>1. RankFiles = <<>> /\ Len(<<>>) = 0
      BY <2>1 DEF RankFiles
    <3> HIDE DEF l
    <3> QED BY <1>1, <1>2, <3>1
  <2>2. CASE loading < Len(files)
    BY <2>2 DEF RankFiles
  <2> QED BY <2>1, <2>2
<1>4. IsFile(l, pos) /\ l \in Nat
  <2>1. l \in 1 .. Len(files) /\ l \in Nat
    BY <1>2, <1>3
  <2>2. Len(files[l]) \in Nat
    BY <1>2, <2>1, ElementOfSeq, LenProperties
  <2>3. pos \in 1 .. Len(files[l])
    BY <1>1, <1>2, <1>3, <2>2
  <2> QED BY <2>1, <2>3 DEF IsFile
<1>5. ctor_load(x, file)
  BY <1>1, <1>3
<1>6. \A id : DecidesOn(l, pos, id) <=> x = id /\ Decides(file)
  BY DEF DecidesOn
<1> DEFINE apps == applications'
<1> HIDE DEF x, file, path
<1>7. /\ loading' = loading
      /\ \/ apps = applications /\ (applications[x] # null \/ ~Decides(file))
         \/ /\ applications[x] = null /\ Decides(file)
            /\ file \in Application \cup {disabled_error}
            /\ \E new : /\ new # null /\ new.app = Offer(file)
                        /\ apps = [applications EXCEPT ![x] = new]
  BY <1>5, FileLoaded
<1>8. ASSUME NEW r, NEW k, IsFile(r, k) PROVE Past(r, k)' <=> Past(r, k) \/ (r = l /\ k = pos)
  <2>1. r \in Nat /\ k \in Nat
    <3>1. r \in 1 .. Len(files) /\ k \in 1 .. Len(files[r])
      BY <1>8 DEF IsFile
    <3> QED BY <3>1
  <2> QED BY <1>1, <1>2, <1>7, <2>1 DEF Past
<1>9. ASSUME NEW id \in IDs, apps[id] = applications[id], applications[id] # null
      PROVE  \E r, k : DecidedBy(r, k, id)'
  <2>1. PICK r, k : DecidedBy(r, k, id)
    BY <1>1, <1>9 DEF LoadInv
  <2>2. DecidedBy(r, k, id)'
    BY <1>1, <1>9, <2>1, DecidedStays
  <2> QED BY <2>2
<1>10. ASSUME NEW id \in IDs, applications[id] = null, ~DecidesOn(l, pos, id)
       PROVE  Undecided(id)'
  <2>1. Undecided(id)
    BY <1>1, <1>10 DEF LoadInv
  <2>2. ASSUME NEW r, NEW k, IsFile(r, k)', Past(r, k)' PROVE ~DecidesOn(r, k, id)'
    <3>1. IsFile(r, k) /\ (DecidesOn(r, k, id)' <=> DecidesOn(r, k, id))
      BY <1>1, <2>2, FilesUnchanged
    <3>2. Past(r, k) \/ (r = l /\ k = pos)
      BY <1>8, <2>2, <3>1
    <3>3. CASE Past(r, k)
      BY <2>1, <3>1, <3>3 DEF Undecided
    <3>4. CASE r = l /\ k = pos
      BY <1>10, <3>1, <3>4
    <3> QED BY <3>2, <3>3, <3>4
  <2> QED BY <2>2 DEF Undecided
<1>11. ASSUME NEW id \in IDs, id = x, applications[id] = null, Decides(file),
              file \in Application \cup {disabled_error}, apps[id].app = Offer(file)
       PROVE  \E r, k : DecidedBy(r, k, id)'
  <2>1. Undecided(id)
    BY <1>1, <1>11 DEF LoadInv
  <2>2. PICK r, k : r = l /\ k = pos
    OBVIOUS
  <2>3. IsFile(r, k)' /\ DecidesOn(r, k, id)'
    <3>1. IsFile(r, k) /\ DecidesOn(r, k, id)
      BY <1>4, <1>6, <1>11, <2>2
    <3> QED BY <1>1, <3>1, FilesUnchanged
  <2>4. ASSUME NEW q, NEW j, IsFile(q, j)', DecidesOn(q, j, id)' PROVE r <= q
    <3>1. IsFile(q, j) /\ DecidesOn(q, j, id)
      BY <1>1, <2>4, FilesUnchanged
    <3>2. ~Past(q, j) /\ q \in Nat
      BY <2>1, <3>1 DEF Undecided, IsFile
    <3> QED BY <1>2, <2>2, <3>2 DEF Past
  <2>5. Loaded(files[r][k])' = file
    <3>1. Loaded(files[r][k])' = Loaded(files[r][k])
      BY <1>1, FilesUnchanged
    <3>2. Loaded(files[r][k]) = file
      BY <2>2 DEF file, path
    <3> QED BY <3>1, <3>2
  <2>6. /\ applications'[id].app = Offer(Loaded(files[r][k])')
        /\ Loaded(files[r][k])' \in Application \cup {disabled_error}
    BY <1>11, <2>5
  <2>7. DecidedBy(r, k, id)'
    BY <2>3, <2>4, <2>6 DEF DecidedBy
  <2> QED BY <2>7
<1>12. ASSUME NEW id \in IDs
       PROVE  IF apps[id] = null THEN Undecided(id)' ELSE \E r, k : DecidedBy(r, k, id)'
  <2>1. CASE apps = applications /\ (applications[x] # null \/ ~Decides(file))
    <3>1. CASE applications[id] = null
      <4>1. ~DecidesOn(l, pos, id)
        BY <1>6, <2>1, <3>1
      <4> QED BY <1>10, <2>1, <3>1, <4>1
    <3>2. CASE applications[id] # null
      BY <1>9, <2>1, <3>2
    <3> QED BY <3>1, <3>2
  <2>2. ASSUME applications[x] = null, Decides(file), file \in Application \cup {disabled_error},
               NEW new, new # null, new.app = Offer(file), apps = [applications EXCEPT ![x] = new]
        PROVE  IF apps[id] = null THEN Undecided(id)' ELSE \E r, k : DecidedBy(r, k, id)'
    <3>1. apps[id] = IF id = x THEN new ELSE applications[id]
      BY <1>2, <2>2
    <3> HIDE DEF apps
    <3>2. CASE id = x
      <4>1. apps[id] = new /\ applications[id] = null
        BY <2>2, <3>1, <3>2
      <4>2. \E r, k : DecidedBy(r, k, id)'
        BY <1>11, <2>2, <3>2, <4>1
      <4> QED BY <2>2, <4>1, <4>2
    <3>3. CASE id # x
      <4>1. apps[id] = applications[id] /\ ~DecidesOn(l, pos, id)
        BY <1>6, <3>1, <3>3
      <4> QED BY <1>9, <1>10, <4>1
    <3> QED BY <3>2, <3>3
  <2> QED BY <1>7, <2>1, <2>2
<1>13. DOMAIN apps = IDs
  BY <1>2, <1>7
<1>14. loading' \in Nat /\ pos' \in Nat /\ pos' >= 1 /\ files' \in Seq(Seq(String))
  BY <1>1, <1>2, <1>7
<1> QED
  BY <1>1, <1>12, <1>13, <1>14 DEF LoadInv

\* A step after which the constructor has come by the same files
LEMMA LoadUnchanged ==
    ASSUME LoadInv, UNCHANGED <<in, search_path, files, applications>>,
           stage = "load", stage' = "load",
           loading' \in Nat, pos' \in Nat, pos' >= 1,
           \A r, k : IsFile(r, k) => (Past(r, k)' => Past(r, k))
    PROVE  LoadInv'
<1>1. ASSUME NEW id \in IDs, applications[id] = null PROVE Undecided(id)'
  <2>1. Undecided(id)
    BY <1>1 DEF LoadInv
  <2>2. ASSUME NEW r, NEW k, IsFile(r, k)', Past(r, k)' PROVE ~DecidesOn(r, k, id)'
    <3>1. IsFile(r, k) /\ (DecidesOn(r, k, id)' <=> DecidesOn(r, k, id))
      BY <2>2, FilesUnchanged
    <3> QED BY <2>1, <2>2, <3>1 DEF Undecided
  <2> QED BY <2>2 DEF Undecided
<1>2. ASSUME NEW id \in IDs, applications[id] # null PROVE \E r, k : DecidedBy(r, k, id)'
  <2>1. PICK r, k : DecidedBy(r, k, id)
    BY <1>2 DEF LoadInv
  <2>2. DecidedBy(r, k, id)'
    BY <2>1, DecidedStays
  <2> QED BY <2>2
<1>3. ASSUME NEW id \in IDs
      PROVE  IF applications'[id] = null THEN Undecided(id)' ELSE \E r, k : DecidedBy(r, k, id)'
  BY <1>1, <1>2
<1>4. DOMAIN applications' = IDs /\ files' \in Seq(Seq(String))
  BY DEF LoadInv
<1> QED
  BY <1>3, <1>4 DEF LoadInv

LEMMA LoadRank ==
    ASSUME LoadInv, LoadNextRank
    PROVE  LoadInv'
<1>1. /\ stage = "load" /\ stage' = "load" /\ pos' = 1 /\ pos > Len(RankFiles)
      /\ UNCHANGED <<in, search_path, files, applications>> /\ loading' = loading + 1
  BY DEF LoadNextRank, ctor_next_rank
<1>2. /\ loading \in Nat /\ pos \in Nat /\ files \in Seq(Seq(String))
  BY DEF LoadInv
<1>3. ASSUME NEW r, NEW k, IsFile(r, k), Past(r, k)' PROVE Past(r, k)
  <2>1. r \in 1 .. Len(files) /\ k \in 1 .. Len(files[r]) /\ r \in Nat /\ k \in Nat
    BY <1>3 DEF IsFile
  <2>2. r <= loading + 1
    BY <1>1, <1>2, <1>3, <2>1 DEF Past
  <2>3. CASE r = loading + 1
    <3>1. loading < Len(files)
      BY <1>2, <2>1, <2>3, LenProperties
    <3>2. RankFiles = files[r]
      BY <2>3, <3>1 DEF RankFiles
    <3>3. Len(files[r]) \in Nat
      BY <1>2, <2>1, ElementOfSeq, LenProperties
    <3>4. k < pos
      BY <1>1, <1>2, <2>1, <3>2, <3>3
    <3> QED BY <2>3, <3>4 DEF Past
  <2>4. CASE r < loading + 1
    BY <2>4 DEF Past
  <2> QED BY <1>2, <2>1, <2>2, <2>3, <2>4
<1>4. loading' \in Nat /\ pos' \in Nat /\ pos' >= 1
  BY <1>1, <1>2
<1> QED
  BY <1>1, <1>3, <1>4, LoadUnchanged

LEMMA LoadNext == WalkInv' /\ LoadInv /\ [StartupNext]_all_vars => LoadInv'
<1> SUFFICES ASSUME WalkInv', LoadInv, StartupNext \/ UNCHANGED all_vars PROVE LoadInv'
  OBVIOUS
<1>1. files' \in Seq(Seq(String))
  BY DEF WalkInv, WalkType
<1>2. CASE stage = "load" /\ UNCHANGED all_vars
  <2>1. /\ UNCHANGED <<in, search_path, files, applications>> /\ stage' = "load"
        /\ loading' = loading /\ pos' = pos
    BY <1>2 DEF all_vars, vars, startup_vars
  <2>2. loading' \in Nat /\ pos' \in Nat /\ pos' >= 1
    BY <2>1 DEF LoadInv
  <2>3. \A r, k : Past(r, k)' => Past(r, k)
    BY <2>1 DEF Past
  <2> QED BY <1>2, <2>1, <2>2, <2>3, LoadUnchanged
<1>3. CASE stage # "load" /\ ~collected
  <2>1. UNCHANGED <<applications, loading, pos>> /\ stage' # "load"
    BY <1>3 DEF StartupNext, build_search_path, build_search_path_asserts, validate_search_path,
        FileFinder_ctor, opendir, opendir_fails, increment, LoadNextFile, LoadNextRank, all_vars,
        startup_vars, vars
  <2> QED BY <1>1, <1>3, <2>1 DEF LoadInv
<1>4. CASE collected
  <2>1. UNCHANGED <<applications, loading, pos>> /\ stage = "collect" /\ stage' = "load"
    BY <1>4 DEF collected, vars
  <2>2. /\ loading' = 0 /\ pos' = 1 /\ DOMAIN applications' = IDs
        /\ \A id \in IDs : applications'[id] = null
    BY <2>1 DEF LoadInv
  <2>3. ASSUME NEW r, NEW k, IsFile(r, k)' PROVE ~Past(r, k)'
    <3>1. r \in Nat /\ r >= 1 /\ k \in Nat /\ k >= 1
      BY <2>3 DEF IsFile
    <3> QED BY <2>2, <3>1 DEF Past
  <2>4. \A id \in IDs : Undecided(id)'
    BY <2>3 DEF Undecided
  <2> QED BY <1>1, <2>1, <2>2, <2>4 DEF LoadInv
<1>5. CASE stage = "load" /\ ~UNCHANGED all_vars
  <2>1. LoadNextFile \/ LoadNextRank
    BY <1>5 DEF StartupNext, build_search_path, build_search_path_asserts, validate_search_path,
        FileFinder_ctor, opendir, opendir_fails, increment, collected
  <2> QED BY <2>1, LoadFile, LoadRank
<1> QED
  BY <1>2, <1>3, <1>4, <1>5

-----------------------------------------------------------------------------
(* The first directory decides. *)

\* The least of some numbers
LEMMA LeastIs ==
    ASSUME NEW T \in SUBSET Nat, NEW r \in T, \A q \in T : r <= q
    PROVE  Min(T) = r
<1> DEFINE IsLeast(x) == x \in T /\ \A y \in T : x =< y
           m == CHOOSE x : IsLeast(x)
<1>1. Min(T) = m
  BY DEF Min
<1>2. IsLeast(r)
  OBVIOUS
<1>3. IsLeast(m)
  <2> HIDE DEF IsLeast
  <2> QED BY <1>2
<1> HIDE DEF m
<1>4. m \in Nat /\ r \in Nat /\ m <= r /\ r <= m
  BY <1>3
<1> QED
  BY <1>1, <1>4

\* An element is of a file that decides.
LEMMA SourceIs ==
    ASSUME WalkInv, PathInv, LoadInv, Done, NEW id \in IDs
    PROVE  /\ applications[id] = null => Deciders(id) = {}
           /\ applications[id] # null =>
                \E path \in Sources(id) : Loaded(path) \in Application \cup {disabled_error}
<1> DEFINE N == NamedDirectories
           I(x) == {i \in 1 .. Len(N) : Deciding(N[i], x) # {}}
           first(x) == IF I(x) # {} THEN Min(I(x)) ELSE 0
<1>0. Deciders(id) = IF first(id) = 0 THEN {} ELSE Deciding(N[first(id)], id)
  BY DEF Deciders, SelectInSeq
<1>1. /\ stage = "load" /\ loading = MaxRank + 1 /\ MaxRank \in Nat
      /\ search_path = N /\ in \in Inputs /\ files \in Seq(Seq(String)) /\ Len(files) = Len(N)
  BY ConstantsAssumption DEF Done, PathInv, WalkInv, WalkType
<1>2. Len(files) \in Nat /\ Len(files) <= MaxRank + 1
  BY <1>1, SearchPathNamed, LenProperties
<1>3. ASSUME NEW r, NEW k, IsFile(r, k) PROVE Past(r, k)
  <2>1. r \in 1 .. Len(files)
    BY <1>3 DEF IsFile
  <2> QED BY <1>1, <1>2, <2>1 DEF Past
<1>4. ASSUME NEW r \in 1 .. Len(N), NEW path
      PROVE  path \in Deciding(N[r], id) <=>
                \E k : IsFile(r, k) /\ files[r][k] = path /\ DecidesOn(r, k, id)
  <2>1. r \in DOMAIN files /\ DOMAIN files[r] = 1 .. Len(files[r])
    BY <1>1, ElementOfSeq, LenProperties
  <2>2. ToSet(files[r]) = FilesIn(N[r])
    BY <1>1, <2>1, WalkCorrect DEF EachFileOnce
  <2>3. path \in Deciding(N[r], id) <=>
           path \in FilesIn(N[r]) /\ get_desktop_id(path, N[r]) = id /\ Decides(Loaded(path))
    BY DEF Deciding, Decides
  <2>4. path \in FilesIn(N[r]) <=> \E k \in 1 .. Len(files[r]) : files[r][k] = path
    BY <2>1, <2>2 DEF ToSet
  <2>5. \A k : k \in 1 .. Len(files[r]) <=> IsFile(r, k)
    BY <1>1 DEF IsFile
  <2>6. \A k : DecidesOn(r, k, id) <=>
           get_desktop_id(files[r][k], N[r]) = id /\ Decides(Loaded(files[r][k]))
    BY <1>1 DEF DecidesOn
  <2> HIDE DEF N
  <2> QED BY <2>3, <2>4, <2>5, <2>6
<1> HIDE DEF N
<1>5. ASSUME NEW r PROVE r \in I(id) <=> \E k : IsFile(r, k) /\ DecidesOn(r, k, id)
  <2>1. r \in I(id) <=> r \in 1 .. Len(N) /\ \E path : path \in Deciding(N[r], id)
    OBVIOUS
  <2>2. \A k : IsFile(r, k) => r \in 1 .. Len(N)
    BY <1>1 DEF IsFile
  <2> QED BY <1>4, <2>1, <2>2
<1>6. I(id) \in SUBSET Nat
  OBVIOUS
<1> DEFINE f == first(id)
           T == I(id)
<1>7. f = IF T # {} THEN Min(T) ELSE 0
  OBVIOUS
<1> HIDE DEF I, first, f, T
<1>8. CASE applications[id] = null
  <2>1. Undecided(id)
    BY <1>1, <1>8 DEF LoadInv
  <2>2. T = {}
    BY <1>3, <1>5, <2>1 DEF Undecided, T
  <2> QED BY <1>0, <1>7, <1>8, <2>2 DEF f
<1>9. CASE applications[id] # null
  <2>1. PICK r, k : DecidedBy(r, k, id)
    BY <1>1, <1>9 DEF LoadInv
  <2>2. r \in T /\ \A q \in T : r <= q
    BY <1>5, <2>1 DEF DecidedBy, T
  <2>3. T \in SUBSET Nat
    BY <1>6 DEF T
  <2>4. Min(T) = r
    BY <2>2, <2>3, LeastIs
  <2>5. r \in 1 .. Len(N) /\ files[r][k] \in Deciding(N[r], id)
    <3>1. IsFile(r, k) /\ DecidesOn(r, k, id)
      BY <2>1 DEF DecidedBy
    <3>2. r \in 1 .. Len(N)
      BY <1>1, <3>1 DEF IsFile
    <3> QED BY <1>4, <3>1, <3>2
  <2>6. f = r /\ f # 0
    BY <1>7, <2>2, <2>4, <2>5
  <2>7. /\ applications[id].app = Offer(Loaded(files[r][k]))
        /\ Loaded(files[r][k]) \in Application \cup {disabled_error}
    BY <2>1 DEF DecidedBy
  <2>8. files[r][k] \in Deciders(id)
    BY <1>0, <2>5, <2>6 DEF f
  <2> QED BY <1>9, <2>7, <2>8 DEF Sources
<1> QED
  BY <1>8, <1>9

LEMMA LoadCorrect == WalkInv /\ PathInv /\ LoadInv => DirectoryPrecedence
BY SourceIs DEF DirectoryPrecedence

\* For every ID it is a file in the first directory of the environment with a valid one
\* that decides: get_search_path() and validate_search_path() keep the directories that
\* $XDG_DATA_HOME and $XDG_DATA_DIRS name, or their defaults, in their order and however
\* they are written, FileFinder finds every file in them, and the constructor of
\* AppManager takes the first one.
THEOREM AlwaysDirectoryPrecedence == StartupSpec => []DirectoryPrecedence
<1>1. StartupInit => WalkInv /\ PathInv /\ LoadInv
  BY WalkInit, PathInit, LoadInit
<1>2. WalkInv /\ PathInv /\ LoadInv /\ [StartupNext]_all_vars => (WalkInv /\ PathInv /\ LoadInv)'
  BY WalkNext, PathNext, LoadNext
<1> QED
  BY <1>1, <1>2, LoadCorrect, PTL DEF StartupSpec

-----------------------------------------------------------------------------
(* What the constructor is given is what AppManager expects. *)

\* The file that is loaded next has an ID.
LEMMA NextHasID ==
    ASSUME WalkInv, LoadInv, LoadNextFile
    PROVE  get_desktop_id(RankFiles[pos], search_path[loading + 1]) \in IDs
<1> DEFINE l == loading + 1
           dir == search_path[l]
           path == files[l][pos]
<1>1. /\ stage = "load" /\ loading \in Nat /\ pos \in Nat /\ pos >= 1 /\ pos <= Len(RankFiles)
      /\ files \in Seq(Seq(String)) /\ Len(files) \in Nat
  BY LenProperties DEF LoadNextFile, LoadInv
<1>2. RankFiles = files[l] /\ loading < Len(files)
  <2>1. CASE ~(loading < Len(files))
    <3>1. RankFiles = <<>> /\ Len(<<>>) = 0
      BY <2>1 DEF RankFiles
    <3> HIDE DEF l
    <3> QED BY <1>1, <3>1
  <2>2. CASE loading < Len(files)
    BY <2>2 DEF RankFiles
  <2> QED BY <2>1, <2>2
<1>3. l \in 1 .. Len(files) /\ l \in Nat
  BY <1>1, <1>2
<1>4. pos \in DOMAIN files[l]
  <2>1. Len(files[l]) \in Nat /\ DOMAIN files[l] = 1 .. Len(files[l])
    BY <1>1, <1>3, ElementOfSeq, LenProperties
  <2> QED BY <1>1, <1>2, <2>1
<1>5. Complete(l)
  BY <1>1, <1>3, WalkOver DEF WalkInv
<1>6. path \in DOMAIN in.files /\ IsPrefix(dir, path) /\ Last(path) = ".desktop"
  <2>1. path \in ToSet(files[l])
    BY <1>4 DEF ToSet
  <2>2. path \in Below(in, dir)
    BY <1>5, <2>1 DEF Complete
  <2> QED BY <2>2 DEF Below
<1>7. dir \in DOMAIN in.dirs /\ in \in Inputs
  <2>1. /\ search_path \in Seq(DOMAIN in.dirs) /\ Len(search_path) \in Nat
        /\ Len(files) <= Len(search_path) /\ in \in Inputs
    BY LenProperties DEF WalkInv, WalkType
  <2>2. l \in 1 .. Len(search_path)
    BY <1>1, <1>3, <2>1
  <2> QED BY <2>1, <2>2, ElementOfSeq
<1> HIDE DEF dir, path
<1>8. get_desktop_id(path, dir) \in IDs
  BY <1>6, <1>7, InputsAssumption
<1> QED
  BY <1>2, <1>8 DEF dir, path

\* Every step is one of the constructor, or AppManager does not notice it.
LEMMA StepOfAppManager ==
    WalkInv /\ LoadInv /\ [StartupNext]_all_vars => [Next]_vars
<1> SUFFICES ASSUME WalkInv, LoadInv, StartupNext \/ UNCHANGED all_vars, ~UNCHANGED vars
             PROVE  Next
  OBVIOUS
<1>1. CASE LoadNextFile
  <2> DEFINE id == get_desktop_id(RankFiles[pos], search_path[loading + 1])
             file == Loaded(RankFiles[pos])
  <2>1. ctor_load(id, file)
    BY <1>1 DEF LoadNextFile
  <2>2. id \in IDs
    BY <1>1, NextHasID
  <2> HIDE DEF id, file
  <2>3. file \in DesktopFile
    <3>1. UNCHANGED <<loading, aborted>>
      BY <2>1 DEF ctor_load
    <3>2. ~UNCHANGED <<applications, name_app_mapping>>
      BY <3>1 DEF vars
    <3>3. file = disabled_error \/ file \in Application
      BY <2>1, <3>2 DEF ctor_load
    <3> QED BY <3>3 DEF DesktopFile
  <2> QED BY <2>1, <2>2, <2>3 DEF Next
<1>2. CASE LoadNextRank
  BY <1>2 DEF LoadNextRank, Next
<1>3. CASE ~LoadNextFile /\ ~LoadNextRank
  BY <1>3 DEF StartupNext, build_search_path, build_search_path_asserts, validate_search_path,
      FileFinder_ctor, opendir, opendir_fails, increment, collected, all_vars
<1> QED
  BY <1>1, <1>2, <1>3

\* The startup implements AppManager: from the files of any environment the constructor
\* is called as that specification allows, so that what is proved about AppManager holds
\* of the program that reads its files with FileFinder.
THEOREM StartupImplementsAppManager == StartupSpec => Spec
<1>1. StartupInit => WalkInv /\ LoadInv
  BY WalkInit, LoadInit
<1>2. WalkInv /\ LoadInv /\ [StartupNext]_all_vars => (WalkInv /\ LoadInv)'
  BY WalkNext, LoadNext
<1>3. StartupInit => Init
  BY DEF StartupInit
<1> QED
  BY <1>1, <1>2, <1>3, StepOfAppManager, PTL DEF StartupSpec, Spec

\* The names in the menu fit the files from the first menu on.
THEOREM MappingFitsAtStartup == StartupSpec => []MappingFits
BY StartupImplementsAppManager, MappingAlwaysFits, PTL

PosInv ==
    /\ stage \in {"search_path", "validate", "collect", "load", "aborted", "terminated"}
    /\ stage = "load" => pos <= Len(RankFiles) + 1

LEMMA PosInit == StartupInit => PosInv
BY DEF StartupInit, PosInv

LEMMA RankFilesLen == LoadInv => Len(RankFiles) \in Nat
<1> SUFFICES ASSUME LoadInv PROVE Len(RankFiles) \in Nat
  OBVIOUS
<1>1. loading \in Nat /\ files \in Seq(Seq(String)) /\ Len(files) \in Nat
  BY LenProperties DEF LoadInv
<1>2. CASE loading < Len(files)
  <2>1. loading + 1 \in 1 .. Len(files) /\ RankFiles = files[loading + 1]
    BY <1>1, <1>2 DEF RankFiles
  <2> QED BY <1>1, <2>1, ElementOfSeq, LenProperties
<1>3. CASE ~(loading < Len(files))
  <2>1. RankFiles = <<>> /\ Len(<<>>) = 0
    BY <1>3 DEF RankFiles
  <2> QED BY <2>1
<1> QED
  BY <1>2, <1>3

LEMMA PosNext == LoadInv' /\ LoadInv /\ PosInv /\ [StartupNext]_all_vars => PosInv'
<1> SUFFICES ASSUME LoadInv', LoadInv, PosInv, StartupNext \/ UNCHANGED all_vars PROVE PosInv'
  OBVIOUS
<1> DEFINE n == Len(RankFiles)
<1>1. n \in Nat /\ n' \in Nat /\ pos \in Nat
  <2>1. n \in Nat
    BY RankFilesLen
  <2>2. n' \in Nat
    BY RankFilesLen
  <2> QED BY <2>1, <2>2 DEF LoadInv
<1>2. CASE LoadNextFile
  <2>1. pos <= n /\ pos' = pos + 1 /\ stage' = stage /\ files' = files /\ loading' = loading
    BY <1>2 DEF LoadNextFile, ctor_load
  <2>2. n' = n
    BY <2>1 DEF RankFiles
  <2> HIDE DEF n
  <2>3. pos' <= n' + 1
    BY <1>1, <2>1, <2>2
  <2> QED BY <2>1, <2>3 DEF PosInv, n
<1>3. CASE LoadNextRank
  <2>1. pos' = 1 /\ stage' = stage
    BY <1>3 DEF LoadNextRank
  <2> HIDE DEF n
  <2>2. pos' <= n' + 1
    <3> DEFINE k == n'
    <3>1. k \in Nat
      BY <1>1
    <3> HIDE DEF k
    <3>2. 1 <= k + 1
      BY <3>1
    <3> QED BY <2>1, <3>2 DEF k
  <2> QED BY <2>1, <2>2 DEF PosInv, n
<1>4. CASE collected
  <2>1. pos' = 1 /\ stage' = "load"
    BY <1>4 DEF collected, LoadInv
  <2> HIDE DEF n
  <2>2. pos' <= n' + 1
    <3> DEFINE k == n'
    <3>1. k \in Nat
      BY <1>1
    <3> HIDE DEF k
    <3>2. 1 <= k + 1
      BY <3>1
    <3> QED BY <2>1, <3>2 DEF k
  <2> QED BY <2>1, <2>2 DEF PosInv, n
<1>5. CASE UNCHANGED all_vars
  BY <1>5 DEF PosInv, all_vars, startup_vars, vars, RankFiles
<1>6. CASE ~LoadNextFile /\ ~LoadNextRank /\ ~collected /\ ~UNCHANGED all_vars
  <2>1. stage' # "load" /\ PosInv!1'
    BY <1>6 DEF StartupNext, build_search_path, build_search_path_asserts, validate_search_path,
        FileFinder_ctor, opendir, opendir_fails, increment, PosInv
  <2> QED BY <2>1 DEF PosInv
<1> QED
  BY <1>2, <1>3, <1>4, <1>5, <1>6

\* The types hold for every environment and file system: the stack and the search path
\* hold directories only, and the constructor stays within the files of its rank.
THEOREM AlwaysStartupTypeOK == StartupSpec => []StartupTypeOK
<1> DEFINE I == WalkInv /\ LoadInv /\ PosInv
<1>1. StartupInit => I
  BY WalkInit, LoadInit, PosInit
<1>2. I /\ [StartupNext]_all_vars => I'
  BY WalkNext, LoadNext, PosNext
<1>3. I /\ TypeOK => StartupTypeOK
  <2> SUFFICES ASSUME I, TypeOK PROVE StartupTypeOK
    OBVIOUS
  <2>1. ToSet(search_path) \cup ToSet(dirstack) \subseteq DOMAIN in.dirs
    BY DEF WalkInv, WalkType, ToSet
  <2>2. pos \in 1 .. Len(RankFiles) + 1
    <3>1. pos \in Nat /\ pos >= 1 /\ Len(RankFiles) \in Nat /\ (stage # "load" => pos = 1)
      BY RankFilesLen DEF LoadInv
    <3>2. pos <= Len(RankFiles) + 1
      BY <3>1 DEF PosInv
    <3> QED BY <3>1, <3>2
  <2> QED BY <2>1, <2>2 DEF StartupTypeOK, WalkInv, WalkType, PosInv
<1> HIDE DEF I
<1> QED
  BY <1>1, <1>2, <1>3, StartupImplementsAppManager, TypeCorrect, PTL DEF StartupSpec


-----------------------------------------------------------------------------
(* What the constructor makes of the lines of a file *)

KeyOf(s, line, suffixes) == parse_localestring(s[line.key], line, suffixes)
Failed(s) == [s EXCEPT !.status = "invalid"]
Hides(s) == [s EXCEPT !.status = "disabled"]
Ended(s) == [s EXCEPT !.status = "ended"]
Begun(s, line) == [s EXCEPT !.parse_key_values = (line.kind = "header")]
WithExec(s, line) == [s EXCEPT !.exec = expand(line.value).text]
WithKey(s, line, suffixes) == [s EXCEPT ![line.key] = KeyOf(s, line, suffixes)]

OtherKeys == {"Name", "GenericName", "Exec", "Path", "Hidden", "NoDisplay"} \cup Lists

LEMMA KeyValueIs ==
    ASSUME NEW s, NEW line, NEW suffixes, NEW envs
    PROVE  /\ line.key \in {"Name", "GenericName"} =>
                  KeyValue(s, line, suffixes, envs)
                     = IF KeyOf(s, line, suffixes).thrown THEN Failed(s) ELSE WithKey(s, line, suffixes)
           /\ line.key = "Exec" =>
                  KeyValue(s, line, suffixes, envs)
                     = IF expand(line.value).thrown THEN Failed(s) ELSE WithExec(s, line)
           /\ line.key = "Path" =>
                  KeyValue(s, line, suffixes, envs) = IF expand(line.value).thrown THEN Failed(s) ELSE s
           /\ line.key \in Lists =>
                  KeyValue(s, line, suffixes, envs)
                     = IF envs # <<>> /\ expandlist(line.value).thrown THEN Failed(s)
                       ELSE IF HiddenIn(line.key, envs, expandlist(line.value).list) THEN Hides(s) ELSE s
           /\ line.key \in {"Hidden", "NoDisplay"} =>
                  KeyValue(s, line, suffixes, envs) = IF line.value = True THEN Hides(s) ELSE s
           /\ line.key \notin OtherKeys => KeyValue(s, line, suffixes, envs) = s
<1>1. CASE line.key \in {"Name", "GenericName"}
  <2>1. /\ line.key \in OtherKeys
        /\ line.key # "Exec" /\ line.key # "Path" /\ line.key \notin Lists
        /\ line.key \notin {"Hidden", "NoDisplay"}
    BY <1>1 DEF OtherKeys, Lists
  <2> QED BY <1>1, <2>1, Zenon DEF KeyValue, KeyOf, Failed, WithKey
<1>2. CASE line.key = "Exec"
  <2>1. /\ line.key \in OtherKeys
        /\ line.key \notin {"Name", "GenericName"} /\ line.key # "Path" /\ line.key \notin Lists
        /\ line.key \notin {"Hidden", "NoDisplay"}
    BY <1>2 DEF OtherKeys, Lists
  <2> QED BY <1>2, <2>1, Zenon DEF KeyValue, Failed, WithExec, Lists
<1>3. CASE line.key = "Path"
  <2>1. /\ line.key \in OtherKeys
        /\ line.key \notin {"Name", "GenericName"} /\ line.key # "Exec" /\ line.key \notin Lists
        /\ line.key \notin {"Hidden", "NoDisplay"}
    BY <1>3 DEF OtherKeys, Lists
  <2> QED BY <1>3, <2>1, Zenon DEF KeyValue, Failed, Lists
<1>4. CASE line.key \in Lists
  <2>1. /\ line.key \in OtherKeys
        /\ line.key \notin {"Name", "GenericName"} /\ line.key # "Exec" /\ line.key # "Path"
        /\ line.key \notin {"Hidden", "NoDisplay"}
    BY <1>4 DEF OtherKeys, Lists
  <2> QED BY <1>4, <2>1, Zenon DEF KeyValue, Failed, Hides, Lists
<1>5. CASE line.key \in {"Hidden", "NoDisplay"}
  <2>1. /\ line.key \in OtherKeys
        /\ line.key \notin {"Name", "GenericName"} /\ line.key # "Exec" /\ line.key # "Path"
        /\ line.key \notin Lists
    BY <1>5 DEF OtherKeys, Lists
  <2> QED BY <1>5, <2>1, Zenon DEF KeyValue, Hides, Lists
<1>6. CASE line.key \notin OtherKeys
  <2>1. /\ line.key \notin {"Name", "GenericName"} /\ line.key # "Exec" /\ line.key # "Path"
        /\ line.key \notin {"Hidden", "NoDisplay"} /\ line.key \notin Lists
    BY <1>6 DEF OtherKeys
  <2> QED BY <2>1, Zenon DEF KeyValue, Lists
<1> QED
  BY <1>1, <1>2, <1>3, <1>4, <1>5, <1>6

LEMMA ReadLineIs ==
    ASSUME NEW s, NEW line \in FileLines, NEW suffixes, NEW envs
    PROVE  /\ s.status # "reading" \/ line.kind = "comment" => ReadLine(s, line, suffixes, envs) = s
           /\ s.status = "reading" /\ line.kind # "comment" =>
                /\ ~s.parse_key_values => ReadLine(s, line, suffixes, envs) = Begun(s, line)
                /\ s.parse_key_values =>
                      /\ line.kind \in {"header", "group"} => ReadLine(s, line, suffixes, envs) = Ended(s)
                      /\ line.kind = "malformed" => ReadLine(s, line, suffixes, envs) = Failed(s)
                      /\ line.kind = "pair" =>
                            ReadLine(s, line, suffixes, envs) = KeyValue(s, line, suffixes, envs)
<1>1. CASE s.status # "reading" \/ line.kind = "comment"
  BY <1>1, Zenon DEF ReadLine
<1>2. CASE s.status = "reading" /\ line.kind # "comment" /\ ~s.parse_key_values
  BY <1>2, Zenon DEF ReadLine, Begun
<1>3. CASE s.status = "reading" /\ line.kind \in {"header", "group"} /\ s.parse_key_values
  <2>1. line.kind # "comment" /\ line.kind # "malformed" /\ line.kind # "pair"
    BY <1>3
  <2> QED BY <1>3, <2>1, Zenon DEF ReadLine, Ended
<1>4. CASE s.status = "reading" /\ line.kind = "malformed" /\ s.parse_key_values
  <2>1. line.kind # "comment" /\ line.kind \notin {"header", "group"} /\ line.kind # "pair"
    BY <1>4
  <2> QED BY <1>4, <2>1, Zenon DEF ReadLine, Failed
<1>5. CASE s.status = "reading" /\ line.kind = "pair" /\ s.parse_key_values
  <2>1. line.kind # "comment" /\ line.kind \notin {"header", "group"} /\ line.kind # "malformed"
    BY <1>5
  <2> QED BY <1>5, <2>1, Zenon DEF ReadLine
<1> QED
  BY <1>1, <1>2, <1>3, <1>4, <1>5 DEF FileLines

NoField == [match |-> -1, text |-> <<>>, thrown |-> FALSE]

\* What a line may make of a name
FieldOf(m, line) ==
    [match |-> m, text |-> expand(line.value).text, thrown |-> expand(line.value).thrown]

MatchOf(line, suffixes) == IF line.locale = <<>> THEN 4 ELSE match(suffixes, line.locale)

Fields(L, suffixes) ==
    {NoField} \cup {FieldOf(m, line) : m \in {MatchOf(l, suffixes) : l \in L}, line \in L}

ReadStates(L, suffixes) ==
    [status: {"reading", "ended", "invalid", "disabled"}, parse_key_values: BOOLEAN,
     exec: {<<>>} \cup {expand(line.value).text : line \in L},
     Name: Fields(L, suffixes), GenericName: Fields(L, suffixes)]

ReadStart ==
    [status |-> "reading", parse_key_values |-> FALSE, exec |-> <<>>, Name |-> NoField, GenericName |-> NoField]

Better(field, line, suffixes) ==
    IF line.locale = <<>> THEN field.match \in {-1, 4}
    ELSE LET m == match(suffixes, line.locale) IN m # -1 /\ (m <= field.match \/ field.match = -1)

LEMMA ParsedIs ==
    ASSUME NEW field, NEW line, NEW suffixes
    PROVE  parse_localestring(field, line, suffixes)
              = IF Better(field, line, suffixes) THEN FieldOf(MatchOf(line, suffixes), line) ELSE field
BY DEF parse_localestring, Better, FieldOf, MatchOf

LEMMA FieldType ==
    ASSUME NEW L, NEW line \in L, NEW suffixes, NEW field \in Fields(L, suffixes)
    PROVE  parse_localestring(field, line, suffixes) \in Fields(L, suffixes)
<1> DEFINE F == FieldOf(MatchOf(line, suffixes), line)
<1>1. F \in Fields(L, suffixes)
  BY DEF Fields
<1> HIDE DEF F
<1>2. parse_localestring(field, line, suffixes) \in {F, field}
  BY ParsedIs DEF F
<1> QED
  BY <1>1, <1>2

LEMMA KeyValueType ==
    ASSUME NEW L, NEW line \in L, NEW suffixes, NEW envs, NEW s \in ReadStates(L, suffixes)
    PROVE  KeyValue(s, line, suffixes, envs) \in ReadStates(L, suffixes)
<1> DEFINE X == ReadStates(L, suffixes)
           field == KeyOf(s, line, suffixes)
           text == expand(line.value).text
<1>1. Failed(s) \in X /\ Hides(s) \in X /\ s \in X
  BY DEF ReadStates, Failed, Hides
<1>2. line.key \in {"Name", "GenericName"} => WithKey(s, line, suffixes) \in X
  <2>1. s.Name \in Fields(L, suffixes) /\ s.GenericName \in Fields(L, suffixes)
    BY DEF ReadStates
  <2>2. CASE line.key = "Name"
    <3>1. field \in Fields(L, suffixes)
      BY <2>1, <2>2, FieldType DEF KeyOf
    <3>2. WithKey(s, line, suffixes) = [s EXCEPT !["Name"] = field]
      BY <2>2, Zenon DEF WithKey
    <3> HIDE DEF field
    <3>3. [s EXCEPT !["Name"] = field] \in X
      BY <3>1 DEF ReadStates
    <3> QED BY <3>2, <3>3, Zenon
  <2>3. CASE line.key = "GenericName"
    <3>1. field \in Fields(L, suffixes)
      BY <2>1, <2>3, FieldType DEF KeyOf
    <3>2. WithKey(s, line, suffixes) = [s EXCEPT !["GenericName"] = field]
      BY <2>3, Zenon DEF WithKey
    <3> HIDE DEF field
    <3>3. [s EXCEPT !["GenericName"] = field] \in X
      BY <3>1 DEF ReadStates
    <3> QED BY <3>2, <3>3, Zenon
  <2> QED BY <2>2, <2>3
<1>3. WithExec(s, line) \in X
  <2>1. text \in {expand(l.value).text : l \in L}
    OBVIOUS
  <2>2. WithExec(s, line) = [s EXCEPT !.exec = text]
    BY Zenon DEF WithExec
  <2> HIDE DEF text
  <2>3. [s EXCEPT !.exec = text] \in X
    BY <2>1 DEF ReadStates
  <2> QED BY <2>2, <2>3, Zenon
<1> HIDE DEF X
<1>4. \/ line.key \in {"Name", "GenericName"} \/ line.key = "Exec" \/ line.key = "Path"
      \/ line.key \in Lists \/ line.key \in {"Hidden", "NoDisplay"} \/ line.key \notin OtherKeys
  BY DEF OtherKeys
<1>5. KeyValue(s, line, suffixes, envs) \in X
  BY <1>1, <1>2, <1>3, <1>4, KeyValueIs
<1> QED
  BY <1>5 DEF X

LEMMA ReadLineType ==
    ASSUME NEW L \in SUBSET FileLines, NEW line \in L, NEW suffixes, NEW envs, NEW s \in ReadStates(L, suffixes)
    PROVE  ReadLine(s, line, suffixes, envs) \in ReadStates(L, suffixes)
<1> DEFINE X == ReadStates(L, suffixes)
           header == (line.kind = "header")
<1>1. Failed(s) \in X /\ s \in X /\ Ended(s) \in X
  BY DEF ReadStates, Failed, Ended
<1>2. Begun(s, line) \in X
  <2>1. header \in BOOLEAN
    OBVIOUS
  <2>2. Begun(s, line) = [s EXCEPT !.parse_key_values = header]
    BY Zenon DEF Begun
  <2> HIDE DEF header
  <2>3. [s EXCEPT !.parse_key_values = header] \in X
    BY <2>1 DEF ReadStates
  <2> QED BY <2>2, <2>3, Zenon
<1>3. KeyValue(s, line, suffixes, envs) \in X
  BY KeyValueType
<1>4. line \in FileLines
  OBVIOUS
<1>5. line.kind \in {"comment", "header", "group", "pair", "malformed"}
  BY <1>4 DEF FileLines
<1>6. s.parse_key_values \in BOOLEAN
  BY DEF ReadStates
<1> HIDE DEF X
<1>7. ReadLine(s, line, suffixes, envs) \in X
  BY <1>1, <1>2, <1>3, <1>4, <1>5, <1>6, ReadLineIs
<1> QED
  BY <1>7 DEF X

\* The loop over the lines; the constructor makes its result of the last of p
IsRead(p, lines, suffixes, envs) ==
    /\ p \in [0 .. Len(lines) -> ReadStates(ToSet(lines), suffixes)]
    /\ p[0] = ReadStart
    /\ \A n \in 1 .. Len(lines) : p[n] = ReadLine(p[n - 1], lines[n], suffixes, envs)

Outcome(end) ==
    [status |-> CASE end.status \in {"invalid", "disabled"} -> end.status
                  [] end.status \in {"reading", "ended"} ->
                        IF end.parse_key_values /\ end.Name.text # <<>> THEN "ok" ELSE "invalid",
     name |-> end.Name.text, generic_name |-> end.GenericName.text, exec |-> end.exec]

LEMMA FileReads ==
    ASSUME NEW file, Lines(file) \in Seq(FileLines), NEW suffixes, NEW envs
    PROVE  \E p : /\ IsRead(p, Lines(file), suffixes, envs)
                  /\ Application_ctor(file, suffixes, envs) = Outcome(p[Len(Lines(file))])
<1> DEFINE lines == Lines(file)
           N == Len(lines)
           L == ToSet(lines)
           X == ReadStates(L, suffixes)
           b == ReadStart
           F(x, n) == ReadLine(x, lines[n], suffixes, envs)
           Solves(g) == g = [n \in 0 .. N |-> IF n = 0 THEN b ELSE F(g[n - 1], n)]
           read == CHOOSE g : Solves(g)
<1>1. N \in Nat /\ (\A n \in 1 .. N : lines[n] \in L) /\ L \in SUBSET FileLines
  BY LenProperties, ElementOfSeq DEF ToSet
<1>2. Application_ctor(file, suffixes, envs) = Outcome(read[N])
  BY Zenon DEF Application_ctor, Outcome, ReadStart, NoField
<1>3. b \in X
  BY DEF ReadStates, ReadStart, Fields
<1>4. \A n \in 1 .. N, x \in X : F(x, n) \in X
  BY <1>1, ReadLineType
<1>5. \A n \in 1 .. N, x \in X : F(x, n) = ReadLine(x, lines[n], suffixes, envs)
  OBVIOUS
<1> HIDE DEF F, b, X
<1>6. /\ read[0] = b /\ (\A n \in 1 .. N : read[n] = F(read[n - 1], n))
      /\ \A n \in 0 .. N : read[n] \in X
  <2> DEFINE step == [n \in 1 .. N |-> [x \in X |-> F(x, n)]]
  <2>1. \A n \in 1 .. N, x \in X : step[n][x] = F(x, n)
    OBVIOUS
  <2>2. \A n \in 1 .. N, x \in X : step[n][x] \in X
    BY <1>1, <1>3, <1>4, <2>1
  <2> HIDE DEF step
  <2>3. PICK g : g \in Recursion(N, X, b, step)
    BY <1>1, <1>3, <1>4, <2>2, RecursionExists
  <2>4. /\ g \in [0 .. N -> X] /\ g[0] = b
        /\ \A n \in 1 .. N : g[n] = step[n][g[n - 1]]
    BY <2>3 DEF Recursion
  <2>5. ASSUME NEW n \in 0 .. N, n # 0 PROVE g[n] = F(g[n - 1], n)
    <3>1. n \in 1 .. N /\ n - 1 \in 0 .. N
      BY <1>1, <1>3, <1>4, <2>5
    <3> QED BY <2>1, <2>4, <3>1
  <2>6. Solves(g)
    BY <2>4, <2>5
  <2>7. Solves(read)
    <3> HIDE DEF Solves
    <3> QED BY <2>6
  <2> HIDE DEF read
  <2>8. read[0] = b /\ \A n \in 1 .. N : read[n] = F(read[n - 1], n)
    BY <1>1, <1>3, <1>4, <2>7
  <2> DEFINE S == {n \in 0 .. N : read[n] \in X}
  <2>9. 0 \in S
    BY <1>1, <1>3, <1>4, <2>8
  <2>10. ASSUME NEW n \in 1 .. N, n - 1 \in S PROVE n \in S
    BY <1>1, <1>3, <1>4, <2>8, <2>10
  <2> HIDE DEF S
  <2>11. 0 .. N \subseteq S
    BY <1>1, <1>3, <1>4, <2>9, <2>10, BoundedInduction
  <2> QED BY <2>8, <2>11 DEF S
<1> HIDE DEF read
<1> DEFINE p == [n \in 0 .. N |-> read[n]]
           result == Application_ctor(file, suffixes, envs)
<1> HIDE DEF result, lines, N
<1>7. p \in [0 .. N -> X] /\ p[0] = b /\ p[N] = read[N]
  BY <1>1, <1>6
<1>8. ASSUME NEW n \in 1 .. N PROVE p[n] = ReadLine(p[n - 1], lines[n], suffixes, envs)
  <2>1. n \in 0 .. N /\ n - 1 \in 0 .. N
    BY <1>1
  <2> QED BY <1>5, <1>6, <2>1
<1>9. IsRead(p, lines, suffixes, envs)
  <2> HIDE DEF p
  <2> QED BY <1>7, <1>8 DEF IsRead, N, X, b, L
<1> HIDE DEF p
<1>10. result = Outcome(p[N])
  BY <1>2, <1>7 DEF result
<1> QED
  BY <1>9, <1>10 DEF result, lines, N

-----------------------------------------------------------------------------
(* A list without an escape sequence *)

Item(result, curr) == [result |-> result, curr |-> curr, escape |-> FALSE, thrown |-> FALSE]
ItemStates(T) == [result: Seq(Seq(T)), curr: Seq(T), escape: BOOLEAN, thrown: BOOLEAN]
Items(T) == {x \in ItemStates(T) : x.escape = FALSE /\ x.thrown = FALSE}

NextItem(x, ch) ==
    IF ch = ";" THEN Item(Append(x.result, x.curr), <<>>) ELSE Item(x.result, Append(x.curr, ch))

LEMMA ItemIs ==
    ASSUME NEW T, NEW result \in Seq(Seq(T)), NEW curr \in Seq(T)
    PROVE  /\ Item(result, curr) \in Items(T)
           /\ Item(result, curr).result = result /\ Item(result, curr).curr = curr
BY DEF Item, Items, ItemStates

LEMMA ItemsAre ==
    ASSUME NEW T, NEW x \in Items(T)
    PROVE  /\ x.result \in Seq(Seq(T)) /\ x.curr \in Seq(T) /\ x = Item(x.result, x.curr)
           /\ x.escape = FALSE /\ x.thrown = FALSE
BY DEF Item, Items, ItemStates

LEMMA NextItemType ==
    ASSUME NEW T, NEW x \in Items(T), NEW ch \in T
    PROVE  NextItem(x, ch) \in Items(T)
<1>1. x.result \in Seq(Seq(T)) /\ x.curr \in Seq(T)
  BY ItemsAre
<1>2. Append(x.result, x.curr) \in Seq(Seq(T)) /\ Append(x.curr, ch) \in Seq(T) /\ <<>> \in Seq(T)
  BY <1>1, AppendProperties
<1> QED
  BY <1>1, <1>2, ItemIs DEF NextItem

LEMMA ItemChar ==
    ASSUME NEW T, NEW x \in Items(T), NEW ch \in T, ch # BS
    PROVE  ExpandChar(x, ch, TRUE) = NextItem(x, ch)
<1>1. ~x.thrown /\ ~x.escape
  BY ItemsAre
<1>2. CASE ch = ";"
  <2>1. ExpandChar(x, ch, TRUE) = [x EXCEPT !.result = Append(@, x.curr), !.curr = <<>>]
    BY <1>1, <1>2, Zenon DEF ExpandChar
  <2> DEFINE r == Append(x.result, x.curr)
  <2>2. ExpandChar(x, ch, TRUE) = [x EXCEPT !.result = r, !.curr = <<>>]
    BY <2>1, Zenon
  <2>3. NextItem(x, ch) = Item(r, <<>>)
    BY <1>2 DEF NextItem
  <2> HIDE DEF r
  <2>4. [x EXCEPT !.result = r, !.curr = <<>>] = Item(r, <<>>)
    <3> DEFINE d == [x EXCEPT !.result = r, !.curr = <<>>]
    <3>1. x \in ItemStates(T) /\ x.escape = FALSE /\ x.thrown = FALSE
      BY DEF Items
    <3>2. r \in Seq(Seq(T)) /\ <<>> \in Seq(T)
      BY <3>1, AppendProperties DEF ItemStates, r
    <3>3. d \in ItemStates(T) /\ d.result = r /\ d.curr = <<>> /\ d.escape = FALSE /\ d.thrown = FALSE
      BY <3>1, <3>2 DEF ItemStates
    <3> HIDE DEF d
    <3>4. d = Item(r, <<>>)
      BY <3>3 DEF ItemStates, Item
    <3> QED BY <3>4 DEF d
  <2> QED BY <2>2, <2>3, <2>4, Zenon
<1>3. CASE ch # ";"
  <2>1. ExpandChar(x, ch, TRUE) = [x EXCEPT !.curr = Append(@, ch), !.escape = FALSE]
    BY <1>1, <1>3, Zenon DEF ExpandChar
  <2> DEFINE c == Append(x.curr, ch)
  <2>2. ExpandChar(x, ch, TRUE) = [x EXCEPT !.curr = c, !.escape = FALSE]
    BY <2>1, Zenon
  <2>3. NextItem(x, ch) = Item(x.result, c)
    BY <1>3 DEF NextItem
  <2> HIDE DEF c
  <2>4. [x EXCEPT !.curr = c, !.escape = FALSE] = Item(x.result, c)
    <3> DEFINE d == [x EXCEPT !.curr = c, !.escape = FALSE]
    <3>1. x \in ItemStates(T) /\ x.escape = FALSE /\ x.thrown = FALSE
      BY DEF Items
    <3>2. c \in Seq(T)
      BY <3>1, AppendProperties DEF ItemStates, c
    <3>3. /\ d \in ItemStates(T) /\ d.result = x.result /\ d.curr = c
          /\ d.escape = FALSE /\ d.thrown = FALSE
      BY <3>1, <3>2 DEF ItemStates
    <3> HIDE DEF d
    <3>4. d = Item(x.result, c)
      BY <3>3 DEF ItemStates, Item
    <3> QED BY <3>4 DEF d
  <2> QED BY <2>2, <2>3, <2>4, Zenon
<1> QED
  BY <1>2, <1>3

\* The loop of expandlist, whose result is the last of x
IsItems(x, T, value, result) ==
    /\ x \in [0 .. Len(value) -> Items(T)]
    /\ x[0] = Item(<<>>, <<>>) /\ result = x[Len(value)]
    /\ \A n \in 1 .. Len(value) : x[n] = NextItem(x[n - 1], value[n])

LEMMA ItemsRun ==
    ASSUME NEW T, BS \notin T, NEW value \in Seq(T)
    PROVE  \E x : IsItems(x, T, value, Expanded(value, TRUE))
<1> DEFINE N == Len(value)
           X == Items(T)
           b == Item(<<>>, <<>>)
           F(x, n) == ExpandChar(x, value[n], TRUE)
           Solves(g) == g = [n \in 0 .. N |-> IF n = 0 THEN b ELSE F(g[n - 1], n)]
           read == CHOOSE g : Solves(g)
<1>1. N \in Nat /\ \A n \in 1 .. N : value[n] \in T
  BY LenProperties
<1>2. Expanded(value, TRUE) = read[N]
  BY DEF Expanded, Item
<1>3. b \in X
  <2>1. <<>> \in Seq(Seq(T)) /\ <<>> \in Seq(T)
    OBVIOUS
  <2> QED BY <2>1, ItemIs, Zenon
<1>5. \A n \in 1 .. N, x \in X : F(x, n) = NextItem(x, value[n])
  BY <1>1, ItemChar
<1> HIDE DEF F, b, X
<1>4. \A n \in 1 .. N, x \in X : F(x, n) \in X
  BY <1>1, <1>5, NextItemType DEF X
<1>6. /\ read[0] = b /\ (\A n \in 1 .. N : read[n] = F(read[n - 1], n))
      /\ \A n \in 0 .. N : read[n] \in X
  <2> DEFINE step == [n \in 1 .. N |-> [x \in X |-> F(x, n)]]
  <2>1. \A n \in 1 .. N, x \in X : step[n][x] = F(x, n)
    OBVIOUS
  <2>2. \A n \in 1 .. N, x \in X : step[n][x] \in X
    BY <1>1, <1>3, <1>4, <2>1
  <2> HIDE DEF step
  <2>3. PICK g : g \in Recursion(N, X, b, step)
    BY <1>1, <1>3, <1>4, <2>2, RecursionExists
  <2>4. /\ g \in [0 .. N -> X] /\ g[0] = b
        /\ \A n \in 1 .. N : g[n] = step[n][g[n - 1]]
    BY <2>3 DEF Recursion
  <2>5. ASSUME NEW n \in 0 .. N, n # 0 PROVE g[n] = F(g[n - 1], n)
    <3>1. n \in 1 .. N /\ n - 1 \in 0 .. N
      BY <1>1, <1>3, <1>4, <2>5
    <3> QED BY <2>1, <2>4, <3>1
  <2>6. Solves(g)
    BY <2>4, <2>5
  <2>7. Solves(read)
    <3> HIDE DEF Solves
    <3> QED BY <2>6
  <2> HIDE DEF read
  <2>8. read[0] = b /\ \A n \in 1 .. N : read[n] = F(read[n - 1], n)
    BY <1>1, <1>3, <1>4, <2>7
  <2> DEFINE S == {n \in 0 .. N : read[n] \in X}
  <2>9. 0 \in S
    BY <1>1, <1>3, <1>4, <2>8
  <2>10. ASSUME NEW n \in 1 .. N, n - 1 \in S PROVE n \in S
    BY <1>1, <1>3, <1>4, <2>8, <2>10
  <2> HIDE DEF S
  <2>11. 0 .. N \subseteq S
    BY <1>1, <1>3, <1>4, <2>9, <2>10, BoundedInduction
  <2> QED BY <2>8, <2>11 DEF S
<1> HIDE DEF read
<1> DEFINE p == [n \in 0 .. N |-> read[n]]
           result == Expanded(value, TRUE)
<1> HIDE DEF result
<1>7. p \in [0 .. N -> X] /\ p[0] = b /\ result = p[N]
  <2>1. 0 \in 0 .. N /\ N \in 0 .. N
    BY <1>1
  <2> HIDE DEF N
  <2> QED BY <1>2, <1>6, <2>1 DEF result
<1>8. ASSUME NEW n \in 1 .. N PROVE p[n] = NextItem(p[n - 1], value[n])
  <2>1. n \in 0 .. N /\ n - 1 \in 0 .. N
    BY <1>1
  <2> QED BY <1>5, <1>6, <2>1
<1>9. IsItems(p, T, value, result)
  <2> HIDE DEF p
  <2> QED BY <1>7, <1>8, Zenon DEF IsItems, X, b, N
<1> QED
  BY <1>9 DEF result

\* The last part goes on.
LEMMA LastGoesOn ==
    ASSUME NEW T, NEW r \in Seq(Seq(T)), NEW c \in Seq(T), NEW ch \in T, NEW delimiter
    PROVE  OneChar(Append(r, c), ch, delimiter)
              = IF ch = delimiter THEN Append(Append(r, c), <<>>) ELSE Append(r, Append(c, ch))
<1> DEFINE s == Append(r, c)
           n == Len(r)
           d == Append(c, ch)
           t == Append(r, d)
           u == [s EXCEPT ![n + 1] = d]
<1>1. n \in Nat /\ d \in Seq(T)
  BY LenProperties, AppendProperties
<1> HIDE DEF d, n
<1>2. /\ s \in Seq(Seq(T)) /\ Len(s) = n + 1 /\ s[n + 1] = c
      /\ \A i \in 1 .. n : s[i] = r[i]
  BY AppendProperties DEF n
<1>3. /\ t \in Seq(Seq(T)) /\ Len(t) = n + 1 /\ t[n + 1] = d
      /\ \A i \in 1 .. n : t[i] = r[i]
  BY <1>1, AppendProperties DEF n
<1> HIDE DEF s, t
<1>4. n + 1 \in 1 .. Len(s) /\ DOMAIN s = 1 .. Len(s)
  BY <1>1, <1>2, LenProperties
<1>5. u \in Seq(Seq(T)) /\ Len(u) = Len(s)
  BY <1>1, <1>2, <1>4, ExceptSeq
<1>6. \A i \in 1 .. n + 1 : u[i] = t[i]
  <2>1. \A i \in 1 .. n + 1 : i # n + 1 => i \in 1 .. n
    BY <1>1
  <2> QED BY <1>2, <1>3, <1>4, <2>1
<1>7. u = t
  <2> HIDE DEF u
  <2> QED BY <1>2, <1>3, <1>5, <1>6, SeqEqual
<1>8. OneChar(s, ch, delimiter) = IF ch = delimiter THEN Append(s, <<>>) ELSE u
  BY <1>2 DEF OneChar, d
<1> HIDE DEF u
<1> QED
  BY <1>7, <1>8 DEF s, t, d

\* expandlist() makes the same of a list as split() does.
LEMMA PlainList ==
    ASSUME NEW T, BS \notin T, NEW value \in Seq(T), value # <<>>
    PROVE  expandlist(value).thrown = FALSE /\ expandlist(value).list = split(value, ";")
<1> DEFINE N == Len(value)
           end == Expanded(value, TRUE)
           all == AllParts(value, ";")
           semicolon == ";"
<1>1. N \in Nat /\ N >= 1 /\ \A n \in 1 .. N : value[n] \in T
  BY LenProperties, EmptySeq
<1>2. /\ expandlist(value).thrown = (end.thrown \/ end.escape)
      /\ expandlist(value).list = IF end.curr = <<>> THEN end.result ELSE Append(end.result, end.curr)
  BY DEF expandlist
<1>3. split(value, ";") = IF Last(value) = semicolon THEN Front(all) ELSE all
  BY SplitIs
<1>4. PICK x : IsItems(x, T, value, end)
  BY ItemsRun
<1>5. PICK p : IsSplit(p, T, semicolon, value, all)
  BY SplitRuns
<1> HIDE DEF end, all, semicolon
<1>6. /\ x \in [0 .. N -> Items(T)] /\ x[0] = Item(<<>>, <<>>) /\ end = x[N]
      /\ \A n \in 1 .. N : x[n] = NextItem(x[n - 1], value[n])
  BY <1>4 DEF IsItems
<1>7. /\ p \in [0 .. N -> SomeParts(T)] /\ p[0] = << <<>> >> /\ all = p[N]
      /\ \A n \in 1 .. N : p[n] = OneChar(p[n - 1], value[n], semicolon)
  BY <1>5 DEF IsSplit
<1> HIDE DEF N
<1> DEFINE S == {n \in 0 .. N : p[n] = Append(x[n].result, x[n].curr)}
<1>8. 0 \in S
  <2>1. Item(<<>>, <<>>).result = <<>> /\ Item(<<>>, <<>>).curr = <<>>
    BY DEF Item
  <2>2. p[0] = Append(x[0].result, x[0].curr)
    BY <1>6, <1>7, <2>1
  <2> QED BY <1>1, <2>2
<1>9. ASSUME NEW n \in 1 .. N
      PROVE  /\ x[n - 1] \in Items(T) /\ x[n] \in Items(T)
             /\ value[n] = semicolon =>
                   x[n].result = Append(x[n - 1].result, x[n - 1].curr) /\ x[n].curr = <<>>
             /\ value[n] # semicolon =>
                   x[n].result = x[n - 1].result /\ x[n].curr = Append(x[n - 1].curr, value[n])
  <2> DEFINE y == x[n - 1]
             ch == value[n]
  <2>1. n - 1 \in 0 .. N /\ n \in 0 .. N
    BY <1>1
  <2>2. y \in Items(T) /\ x[n] \in Items(T) /\ x[n] = NextItem(y, ch)
    BY <1>6, <2>1
  <2> HIDE DEF y, ch
  <2>3. CASE ch = semicolon
    <3>1. NextItem(y, ch) = Item(Append(y.result, y.curr), <<>>)
      BY <2>3 DEF NextItem, semicolon
    <3>2. x[n].result = Append(y.result, y.curr) /\ x[n].curr = <<>>
      BY <2>2, <3>1 DEF Item
    <3> QED BY <2>2, <2>3, <3>2 DEF y, ch
  <2>4. CASE ch # semicolon
    <3>1. NextItem(y, ch) = Item(y.result, Append(y.curr, ch))
      BY <2>4 DEF NextItem, semicolon
    <3>2. x[n].result = y.result /\ x[n].curr = Append(y.curr, ch)
      BY <2>2, <3>1 DEF Item
    <3> QED BY <2>2, <2>4, <3>2 DEF y, ch
  <2> QED BY <2>3, <2>4
<1>10. ASSUME NEW n \in 1 .. N, n - 1 \in S PROVE n \in S
  <2> DEFINE r == x[n - 1].result
             c == x[n - 1].curr
             ch == value[n]
  <2>1. r \in Seq(Seq(T)) /\ c \in Seq(T) /\ ch \in T
    BY <1>1, <1>9, ItemsAre
  <2>2. p[n] = OneChar(Append(r, c), ch, semicolon)
    BY <1>7, <1>10
  <2>3. p[n] = IF ch = semicolon THEN Append(Append(r, c), <<>>) ELSE Append(r, Append(c, ch))
    <3> HIDE DEF r, c, ch
    <3>1. OneChar(Append(r, c), ch, semicolon)
             = IF ch = semicolon THEN Append(Append(r, c), <<>>) ELSE Append(r, Append(c, ch))
      BY <2>1, LastGoesOn, SMTT(30)
    <3> QED BY <2>2, <3>1, Zenon
  <2>4. p[n] = Append(x[n].result, x[n].curr)
    BY <1>9, <2>3
  <2> QED BY <2>4
<1>11. p[N] = Append(x[N].result, x[N].curr)
  <2> HIDE DEF S
  <2>1. 0 .. N \subseteq S
    BY <1>1, <1>8, <1>10, BoundedInduction
  <2> QED BY <1>1, <2>1 DEF S
<1> DEFINE r == x[N].result
           c == x[N].curr
<1>12. N \in 1 .. N
  BY <1>1
<1>13. r \in Seq(Seq(T)) /\ c \in Seq(T) /\ x[N].thrown = FALSE /\ x[N].escape = FALSE
  BY <1>9, <1>12, ItemsAre
<1>14. c = <<>> <=> value[N] = semicolon
  <2> DEFINE d == x[N - 1].curr
  <2>1. d \in Seq(T) /\ value[N] \in T
    BY <1>1, <1>9, <1>12, ItemsAre
  <2>2. value[N] = semicolon => c = <<>>
    BY <1>9, <1>12
  <2>3. value[N] # semicolon => c = Append(d, value[N])
    BY <1>9, <1>12
  <2> HIDE DEF d, c
  <2>4. Append(d, value[N]) # <<>>
    BY <2>1, AppendProperties
  <2> QED BY <2>2, <2>3, <2>4
<1>15. Last(value) = value[N]
  BY DEF Last, N
<1>16. all = Append(r, c) /\ end.result = r /\ end.curr = c /\ end.thrown = FALSE /\ end.escape = FALSE
  BY <1>6, <1>7, <1>11, <1>13
<1> HIDE DEF r, c
<1>17. Front(all) = r
  <2>1. Append(r, c) \in Seq(Seq(T)) /\ Len(Append(r, c)) = Len(r) + 1 /\ Len(r) \in Nat
    BY <1>13, AppendProperties, LenProperties
  <2>2. SubSeq(Append(r, c), 1, Len(r)) = r
    BY <1>13
  <2>3. (Len(r) + 1) - 1 = Len(r)
    BY <2>1
  <2> QED BY <1>16, <2>1, <2>2, <2>3 DEF Front
<1> QED
  BY <1>2, <1>3, <1>14, <1>15, <1>16, <1>17

-----------------------------------------------------------------------------
(* The desktops *)

LEMMA SplitType ==
    ASSUME NEW T, NEW string \in Seq(T), NEW delimiter
    PROVE  split(string, delimiter) \in SomeParts(T)
<1> DEFINE N == Len(string)
           all == AllParts(string, delimiter)
<1>1. N \in Nat /\ \A n \in 1 .. N : string[n] \in T
  BY LenProperties
<1>2. split(string, delimiter)
        = IF string # <<>> /\ Last(string) = delimiter THEN Front(all) ELSE all
  BY SplitIs
<1>3. PICK p : IsSplit(p, T, delimiter, string, all)
  BY SplitRuns
<1> HIDE DEF all
<1>4. /\ p \in [0 .. N -> SomeParts(T)] /\ all = p[N]
      /\ \A n \in 1 .. N : p[n] = OneChar(p[n - 1], string[n], delimiter)
  BY <1>3 DEF IsSplit
<1>5. all \in SomeParts(T)
  BY <1>1, <1>4
<1>6. CASE string # <<>> /\ Last(string) = delimiter
  <2>1. N >= 1 /\ string[N] = delimiter
    BY <1>1, <1>6, EmptySeq DEF Last
  <2> DEFINE before == p[N - 1]
  <2>2. N \in 1 .. N /\ N - 1 \in 0 .. N
    BY <1>1, <2>1
  <2>3. before \in SomeParts(T) /\ all = Append(before, <<>>)
    BY <1>4, <2>1, <2>2 DEF OneChar
  <2> HIDE DEF before
  <2>4. before \in Seq(Seq(T)) /\ <<>> \in Seq(T)
    BY <2>3 DEF SomeParts
  <2>5. Len(all) = Len(before) + 1 /\ Len(before) \in Nat
    BY <2>3, <2>4, AppendProperties, LenProperties
  <2>6. SubSeq(Append(before, <<>>), 1, Len(before)) = before
    <3> DEFINE none == <<>>
    <3>1. none \in Seq(T)
      BY <2>4
    <3> HIDE DEF none
    <3>2. SubSeq(Append(before, none), 1, Len(before)) = before
      BY <2>4, <3>1
    <3> QED BY <3>2 DEF none
  <2>7. Len(all) - 1 = Len(before)
    BY <2>5
  <2>8. Front(all) = before
    BY <2>3, <2>6, <2>7 DEF Front
  <2> QED BY <1>2, <1>6, <2>3, <2>8
<1> QED
  BY <1>2, <1>5, <1>6

LEMMA EnvsAre ==
    ASSUME in \in Inputs
    PROVE  /\ desktopenvs # <<>> <=> in.desktops # <<>>
           /\ << "nul" >> \notin ToSet(desktopenvs)
<1> DEFINE d == in.desktops[1]
           nul == "nul"
<1>1. in.desktops \in Seq(String) /\ \A i \in DOMAIN in.desktops : nul \notin ToSet(in.desktops[i])
  BY InputsAssumption
<1>2. CASE in.desktops = <<>>
  BY <1>2 DEF desktopenvs, ToSet
<1>3. CASE in.desktops # <<>>
  <2>1. 1 \in DOMAIN in.desktops
    BY <1>1, <1>3, EmptySeq, LenProperties
  <2>2. d \in String /\ nul \notin ToSet(d)
    BY <1>1, <2>1, ElementOfSeq, LenProperties
  <2>3. desktopenvs = split(d, ":")
    BY <1>3 DEF desktopenvs
  <2> DEFINE T == ToSet(d)
             envs == desktopenvs
  <2>4. d \in Seq(T)
    BY <2>2 DEF ToSet, String
  <2>5. envs \in SomeParts(T)
    <3> HIDE DEF d, T
    <3> QED BY <2>3, <2>4, SplitType
  <2> HIDE DEF T, envs, nul
  <2>6. envs \in Seq(Seq(T)) /\ envs # <<>>
    BY <2>5 DEF SomeParts
  <2>7. <<nul>> \notin ToSet(envs)
    <3> SUFFICES ASSUME <<nul>> \in ToSet(envs) PROVE FALSE
      OBVIOUS
    <3>1. <<nul>> \in Seq(T)
      BY <2>6, ElementOfSeq, LenProperties DEF ToSet
    <3>2. nul \in T
      BY <3>1
    <3> QED BY <2>2, <3>2 DEF T
  <2> QED BY <1>3, <2>6, <2>7 DEF nul, envs
<1> QED
  BY <1>2, <1>3

\* Of an empty list the loop takes the terminating zero for an element.
LEMMA EmptyList ==
    expandlist(<<>>).thrown = FALSE /\ expandlist(<<>>).list = << << "nul" >> >>
<1> DEFINE nul == "nul"
           value == <<nul>>
           T == {nul}
           end == Expanded(value, TRUE)
<1>1. /\ expandlist(<<>>).thrown = (end.thrown \/ end.escape)
      /\ expandlist(<<>>).list = IF end.curr = <<>> THEN end.result ELSE Append(end.result, end.curr)
  BY DEF expandlist
<1>2. BS \notin T /\ nul # ";"
  BY DEF BS
<1> HIDE DEF nul
<1>3. value \in Seq(T) /\ Len(value) = 1 /\ value[1] = nul
  OBVIOUS
<1> HIDE DEF value
<1>4. PICK x : IsItems(x, T, value, end)
  BY <1>2, <1>3, ItemsRun
<1> HIDE DEF end
<1>5. /\ x[0] = Item(<<>>, <<>>) /\ end = x[1] /\ x[1] = NextItem(x[0], nul)
  BY <1>3, <1>4 DEF IsItems
<1>6. Item(<<>>, <<>>).result = <<>> /\ Item(<<>>, <<>>).curr = <<>>
  BY DEF Item
<1>7. end = Item(<<>>, Append(<<>>, nul))
  BY <1>2, <1>5, <1>6 DEF NextItem
<1>8. Append(<<>>, nul) = <<nul>> /\ <<nul>> # <<>> /\ Append(<<>>, <<nul>>) = << <<nul>> >>
  OBVIOUS
<1>9. end.result = <<>> /\ end.curr = <<nul>> /\ end.thrown = FALSE /\ end.escape = FALSE
  BY <1>7, <1>8 DEF Item
<1> QED
  BY <1>1, <1>8, <1>9 DEF nul

\* The branches for OnlyShowIn and NotShowIn do what the lists say.
LEMMA ListHides ==
    ASSUME in \in Inputs, NEW line \in FileLines, line.kind = "pair", line.key \in Lists,
           BS \notin ToSet(line.value)
    PROVE  /\ expandlist(line.value).thrown = FALSE
           /\ HiddenIn(line.key, desktopenvs, expandlist(line.value).list) <=> KeepsFromMenu(line)
<1> DEFINE value == line.value
           list == expandlist(value).list
           envs == desktopenvs
           named == value # <<>> /\ ToSet(split(value, ";")) \cap ToSet(envs) # {}
<1>1. value \in String
  BY DEF FileLines
<1>2. expandlist(value).thrown = FALSE /\ (have_equal_element(envs, list) <=> named)
  <2>1. CASE value = <<>>
    <3> DEFINE nul == <<"nul">>
    <3>1. expandlist(value).thrown = FALSE /\ list = <<nul>>
      BY <2>1, EmptyList
    <3>2. nul \notin ToSet(envs)
      BY EnvsAre
    <3> HIDE DEF nul, list, envs, value
    <3>3. ToSet(<<nul>>) = {nul}
      BY DEF ToSet
    <3>4. ~have_equal_element(envs, list)
      BY <3>1, <3>2, <3>3 DEF have_equal_element
    <3> QED BY <2>1, <3>1, <3>4 DEF list
  <2>2. CASE value # <<>>
    <3> DEFINE T == ToSet(value)
    <3>1. value \in Seq(T)
      BY <1>1 DEF ToSet, String
    <3> HIDE DEF T, value
    <3>2. BS \notin T
      BY DEF T, value
    <3>3. expandlist(value).thrown = FALSE /\ list = split(value, ";")
      BY <2>2, <3>1, <3>2, PlainList
    <3> HIDE DEF list, envs
    <3> QED BY <2>2, <3>3 DEF have_equal_element, list
  <2> QED BY <2>1, <2>2
<1>3. KeepsFromMenu(line) <=> \/ line.key = "OnlyShowIn" /\ in.desktops # <<>> /\ ~named
                              \/ line.key = "NotShowIn" /\ named
  <2>1. line.key \notin {"Hidden", "NoDisplay"}
    BY DEF Lists
  <2> QED BY <2>1, Zenon DEF KeepsFromMenu
<1>4. HiddenIn(line.key, envs, list) <=>
         envs # <<>> /\ (have_equal_element(envs, list) <=> line.key = "NotShowIn")
  BY DEF HiddenIn
<1>5. envs # <<>> <=> in.desktops # <<>>
  BY EnvsAre
<1>6. named => envs # <<>>
  <2>1. ToSet(<<>>) = {}
    BY DEF ToSet
  <2> HIDE DEF value, envs
  <2> QED BY <2>1
<1>7. line.key = "OnlyShowIn" \/ line.key = "NotShowIn"
  BY DEF Lists
<1> HIDE DEF named, envs, list
<1>8. HiddenIn(line.key, envs, list) <=> KeepsFromMenu(line)
  BY <1>2, <1>3, <1>4, <1>5, <1>6, <1>7
<1> QED
  BY <1>2, <1>8 DEF envs, list

-----------------------------------------------------------------------------
(* The lines between the header of the entry and the next one *)

IsHeader(line) == line.kind \in {"header", "group"}

\* Line h is the header of the entry and there is no other header up to line m.
Group(lines, h, m) ==
    /\ h \in 1 .. m /\ m <= Len(lines)
    /\ lines[h].kind = "header" /\ \A j \in 1 .. h - 1 : lines[j].kind # "header"
    /\ \A j \in h + 1 .. m : ~IsHeader(lines[j])

Reads(s) == s.status = "reading" /\ s.parse_key_values

SameNames(s, t) == s.Name = t.Name /\ s.GenericName = t.GenericName

\* The constructor has read the group up to line m.
InGroup(p, lines, h, m) ==
    /\ Group(lines, h, m)
    /\ \A j \in h .. m : Reads(p[j])
    /\ SameNames(p[h], ReadStart)

\* Where it is after n lines
ReadUpTo(p, lines, n) ==
    /\ p[n].status = "reading" /\ ~p[n].parse_key_values =>
          (\A j \in 1 .. n : lines[j].kind # "header") /\ SameNames(p[n], ReadStart)
    /\ Reads(p[n]) => \E h : InGroup(p, lines, h, n)
    /\ p[n].status = "ended" => \E h, m \in Nat : /\ InGroup(p, lines, h, m) /\ m < n /\ IsHeader(lines[m + 1])
                                          /\ SameNames(p[n], p[m])
    /\ p[n].status = "disabled" => \E h, i \in Nat : /\ InGroup(p, lines, h, i - 1) /\ i <= n
                                             /\ lines[i].kind = "pair" /\ p[i].status = "disabled"

\* What a line does
LEMMA LineRead ==
    ASSUME NEW L, NEW line \in FileLines, NEW suffixes, NEW envs, NEW s \in ReadStates(L, suffixes)
    PROVE  LET r == ReadLine(s, line, suffixes, envs)
           IN  /\ s.status # "reading" \/ line.kind = "comment" => r = s
               /\ s.status = "reading" /\ ~s.parse_key_values =>
                     /\ r.status = "reading" /\ (r.parse_key_values <=> line.kind = "header")
                     /\ SameNames(r, s)
               /\ Reads(s) /\ IsHeader(line) => r.status = "ended" /\ SameNames(r, s)
               /\ Reads(s) /\ ~IsHeader(line) =>
                     /\ r.status \in {"reading", "invalid", "disabled"}
                     /\ r.parse_key_values
                     /\ r.status = "disabled" => line.kind = "pair"
<1> DEFINE r == ReadLine(s, line, suffixes, envs)
<1>1. line.kind \in {"comment", "header", "group", "pair", "malformed"}
  BY DEF FileLines
<1>2. s.status # "reading" \/ line.kind = "comment" => r = s
  BY ReadLineIs
<1>6. s.status = "reading" /\ line.kind # "comment" /\ ~s.parse_key_values => r = Begun(s, line)
  BY ReadLineIs
<1>7. Reads(s) /\ IsHeader(line) => r = Ended(s)
  <2>1. Reads(s) /\ IsHeader(line) =>
           s.status = "reading" /\ s.parse_key_values /\ line.kind # "comment" /\ line.kind \in {"header", "group"}
    BY DEF Reads, IsHeader
  <2> QED BY <2>1, ReadLineIs
<1>8. Reads(s) /\ line.kind = "malformed" => r = Failed(s)
  BY ReadLineIs DEF Reads
<1>9. Reads(s) /\ line.kind = "pair" => r = KeyValue(s, line, suffixes, envs)
  BY ReadLineIs DEF Reads
<1>3. ASSUME s.status = "reading", ~s.parse_key_values
      PROVE  r.status = "reading" /\ (r.parse_key_values <=> line.kind = "header") /\ SameNames(r, s)
  <2>1. CASE line.kind = "comment"
    BY <1>1, <1>2, <1>3, <2>1 DEF SameNames
  <2>2. CASE line.kind # "comment"
    <3> DEFINE b == (line.kind = "header")
    <3>1. r = [s EXCEPT !.parse_key_values = b]
      BY <1>3, <1>6, <2>2, Zenon DEF Begun
    <3>2. b \in BOOLEAN
      OBVIOUS
    <3> HIDE DEF b, r
    <3>3. r.status = s.status /\ r.parse_key_values = b /\ SameNames(r, s)
      BY <3>1, <3>2 DEF ReadStates, SameNames
    <3> QED BY <1>3, <3>3 DEF b
  <2> QED BY <2>1, <2>2
<1>4. ASSUME Reads(s), IsHeader(line) PROVE r.status = "ended" /\ SameNames(r, s)
  <2>1. r = Ended(s)
    BY <1>4, <1>7
  <2> HIDE DEF r
  <2> QED BY <2>1 DEF Ended, ReadStates, SameNames
<1>5. ASSUME Reads(s), ~IsHeader(line)
      PROVE  /\ r.status \in {"reading", "invalid", "disabled"}
             /\ r.parse_key_values
             /\ r.status = "disabled" => line.kind = "pair"
  <2>1. CASE line.kind = "comment"
    BY <1>2, <1>5, <2>1 DEF Reads
  <2>2. CASE line.kind = "malformed"
    <3>1. r = Failed(s)
      BY <1>5, <1>8, <2>2
    <3> HIDE DEF r
    <3> QED BY <1>5, <3>1 DEF Failed, ReadStates, Reads
  <2>3. CASE line.kind = "pair"
    <3>1. r = KeyValue(s, line, suffixes, envs)
      BY <1>5, <1>9, <2>3
    <3>2. /\ Failed(s).status = "invalid" /\ Failed(s).parse_key_values = s.parse_key_values
          /\ Hides(s).status = "disabled" /\ Hides(s).parse_key_values = s.parse_key_values
      BY DEF Failed, Hides, ReadStates
    <3>3. WithExec(s, line).status = s.status /\ WithExec(s, line).parse_key_values = s.parse_key_values
      <4> DEFINE text == expand(line.value).text
      <4>1. WithExec(s, line) = [s EXCEPT !.exec = text]
        BY Zenon DEF WithExec
      <4> HIDE DEF text
      <4>2. [s EXCEPT !.exec = text].status = s.status /\ [s EXCEPT !.exec = text].parse_key_values = s.parse_key_values
        BY DEF ReadStates
      <4> QED BY <4>1, <4>2, Zenon
    <3>4. line.key \in {"Name", "GenericName"} =>
             /\ WithKey(s, line, suffixes).status = s.status
             /\ WithKey(s, line, suffixes).parse_key_values = s.parse_key_values
      <4> DEFINE field == KeyOf(s, line, suffixes)
                 key == line.key
                 w == [s EXCEPT ![key] = field]
      <4>1. WithKey(s, line, suffixes) = w
        BY Zenon DEF WithKey
      <4> HIDE DEF field, key
      <4>2. key \in {"Name", "GenericName"} => w.status = s.status /\ w.parse_key_values = s.parse_key_values
        BY DEF ReadStates
      <4> QED BY <4>1, <4>2, Zenon DEF key
    <3>5. \/ line.key \in {"Name", "GenericName"} \/ line.key = "Exec" \/ line.key = "Path"
          \/ line.key \in Lists \/ line.key \in {"Hidden", "NoDisplay"} \/ line.key \notin OtherKeys
      BY DEF OtherKeys
    <3> DEFINE k == KeyValue(s, line, suffixes, envs)
    <3>6. \/ k = Failed(s) \/ k = Hides(s) \/ k = s \/ k = WithExec(s, line)
          \/ k = WithKey(s, line, suffixes) /\ line.key \in {"Name", "GenericName"}
      BY <3>5, KeyValueIs
    <3> HIDE DEF k
    <3> QED BY <1>5, <2>3, <3>1, <3>2, <3>3, <3>4, <3>6 DEF Reads, k
  <2> QED BY <1>1, <1>5, <2>1, <2>2, <2>3 DEF IsHeader
<1> QED
  BY <1>2, <1>3, <1>4, <1>5

LEMMA GroupGoesOn ==
    ASSUME NEW p, NEW lines, Len(lines) \in Nat, NEW n \in 1 .. Len(lines), NEW h,
           InGroup(p, lines, h, n - 1), ~IsHeader(lines[n]), Reads(p[n])
    PROVE  InGroup(p, lines, h, n)
<1>1. /\ h \in 1 .. n - 1 /\ lines[h].kind = "header" /\ \A j \in 1 .. h - 1 : lines[j].kind # "header"
      /\ \A j \in h + 1 .. n - 1 : ~IsHeader(lines[j])
      /\ \A j \in h .. n - 1 : Reads(p[j])
      /\ SameNames(p[h], ReadStart)
  BY DEF InGroup, Group
<1>2. h \in 1 .. n /\ n <= Len(lines)
  BY <1>1
<1>3. /\ \A j \in h + 1 .. n : j = n \/ j \in h + 1 .. n - 1
      /\ \A j \in h .. n : j = n \/ j \in h .. n - 1
  BY <1>1
<1>4. /\ \A j \in h + 1 .. n : ~IsHeader(lines[j])
      /\ \A j \in h .. n : Reads(p[j])
  BY <1>1, <1>3
<1> QED
  BY <1>1, <1>2, <1>4 DEF InGroup, Group

LEMMA ReadSoFar ==
    ASSUME NEW lines \in Seq(FileLines), NEW suffixes, NEW envs, NEW p, IsRead(p, lines, suffixes, envs)
    PROVE  \A n \in 0 .. Len(lines) : ReadUpTo(p, lines, n)
<1> DEFINE N == Len(lines)
           L == ToSet(lines)
           S == {n \in 0 .. N : ReadUpTo(p, lines, n)}
<1>1. /\ N \in Nat /\ \A n \in 1 .. N : lines[n] \in FileLines
      /\ p \in [0 .. N -> ReadStates(L, suffixes)] /\ p[0] = ReadStart
      /\ \A n \in 1 .. N : p[n] = ReadLine(p[n - 1], lines[n], suffixes, envs)
  BY LenProperties, ElementOfSeq DEF IsRead
<1> HIDE DEF N, L
<1>2. 0 \in S
  <2>1. p[0].status = "reading" /\ p[0].parse_key_values = FALSE /\ SameNames(p[0], ReadStart)
    BY <1>1 DEF ReadStart, SameNames
  <2>2. ReadUpTo(p, lines, 0)
    BY <2>1 DEF ReadUpTo, Reads
  <2> QED BY <1>1, <2>2
<1>3. ASSUME NEW n \in 1 .. N, n - 1 \in S PROVE n \in S
  <2> DEFINE s == p[n - 1]
             t == p[n]
             line == lines[n]
  <2>1. n \in 0 .. N /\ n - 1 \in 0 .. N /\ n - 1 < n /\ n <= N
    BY <1>1
  <2>2. /\ s \in ReadStates(L, suffixes) /\ line \in FileLines
        /\ t = ReadLine(s, line, suffixes, envs)
    BY <1>1, <2>1
  <2>3. /\ s.status # "reading" \/ line.kind = "comment" => t = s
        /\ s.status = "reading" /\ ~s.parse_key_values =>
              /\ t.status = "reading" /\ (t.parse_key_values <=> line.kind = "header")
              /\ SameNames(t, s)
        /\ Reads(s) /\ IsHeader(line) => t.status = "ended" /\ SameNames(t, s)
        /\ Reads(s) /\ ~IsHeader(line) =>
              /\ t.status \in {"reading", "invalid", "disabled"}
              /\ t.parse_key_values
              /\ t.status = "disabled" => line.kind = "pair"
    <3> HIDE DEF s, t, line
    <3> QED BY <2>2, LineRead
  <2>4. ReadUpTo(p, lines, n - 1)
    BY <1>3
  <2>5. s.status \in {"reading", "ended", "invalid", "disabled"} /\ s.parse_key_values \in BOOLEAN
    BY <2>2 DEF ReadStates
  <2>6. CASE s.status = "reading" /\ ~s.parse_key_values
    <3>1. (\A j \in 1 .. n - 1 : lines[j].kind # "header") /\ SameNames(s, ReadStart)
      BY <2>4, <2>6 DEF ReadUpTo
    <3>2. t.status = "reading" /\ (t.parse_key_values <=> line.kind = "header") /\ SameNames(t, ReadStart)
      BY <2>3, <2>6, <3>1 DEF SameNames
    <3>3. CASE line.kind = "header"
      <4>1. n \in 1 .. n /\ (\A j \in n + 1 .. n : ~IsHeader(lines[j])) /\ \A j \in n .. n : j = n
        BY <2>1
      <4>2. Reads(t)
        BY <3>2, <3>3 DEF Reads
      <4>3. Group(lines, n, n)
        BY <2>1, <3>1, <3>3, <4>1 DEF Group, N
      <4>4. InGroup(p, lines, n, n)
        BY <3>2, <4>1, <4>2, <4>3 DEF InGroup
      <4> QED BY <2>1, <3>2, <3>3, <4>4 DEF ReadUpTo
    <3>4. CASE line.kind # "header"
      <4>1. \A j \in 1 .. n : j = n \/ j \in 1 .. n - 1
        BY <2>1
      <4>2. \A j \in 1 .. n : lines[j].kind # "header"
        BY <3>1, <3>4, <4>1
      <4> QED BY <2>1, <3>2, <3>4, <4>2 DEF ReadUpTo, Reads
    <3> QED BY <3>3, <3>4
  <2>7. CASE Reads(s)
    <3>1. PICK h : InGroup(p, lines, h, n - 1)
      BY <2>4, <2>7 DEF ReadUpTo
    <3>4. h \in Nat /\ n \in Nat /\ n - 1 \in Nat
      BY <2>1, <3>1 DEF InGroup, Group
    <3>2. CASE IsHeader(line)
      <4>1. t.status = "ended" /\ SameNames(t, s) /\ (n - 1) + 1 = n
        BY <2>1, <2>3, <2>7, <3>2
      <4>2. InGroup(p, lines, h, n - 1) /\ n - 1 < n /\ IsHeader(lines[(n - 1) + 1]) /\ SameNames(p[n], p[n - 1])
        BY <2>1, <3>1, <3>2, <4>1
      <4> QED BY <2>1, <3>4, <4>1, <4>2 DEF ReadUpTo, Reads
    <3>3. CASE ~IsHeader(line)
      <4>1. /\ t.status \in {"reading", "invalid", "disabled"} /\ t.parse_key_values
            /\ t.status = "disabled" => line.kind = "pair"
        BY <2>3, <2>7, <3>3
      <4>2. CASE t.status = "reading"
        <5>1. Reads(t)
          BY <4>1, <4>2 DEF Reads
        <5>2. InGroup(p, lines, h, n)
          BY <1>1, <3>1, <3>3, <5>1, GroupGoesOn DEF N
        <5> QED BY <2>1, <4>1, <4>2, <5>2 DEF ReadUpTo
      <4>3. CASE t.status = "disabled"
        <5>1. InGroup(p, lines, h, n - 1) /\ n <= n /\ lines[n].kind = "pair" /\ p[n].status = "disabled"
          BY <2>1, <3>1, <4>1, <4>3
        <5> QED BY <2>1, <3>4, <4>3, <5>1 DEF ReadUpTo, Reads
      <4>4. CASE t.status = "invalid"
        BY <2>1, <4>4 DEF ReadUpTo, Reads
      <4> QED BY <4>1, <4>2, <4>3, <4>4
    <3> QED BY <3>2, <3>3
  <2>8. CASE s.status # "reading"
    <3>1. t = s /\ ~Reads(t) /\ t.status # "reading"
      BY <2>3, <2>8 DEF Reads
    <3>2. ASSUME t.status = "ended"
          PROVE  \E h, m \in Nat : /\ InGroup(p, lines, h, m) /\ m < n /\ IsHeader(lines[m + 1])
                           /\ SameNames(p[n], p[m])
      <4>1. PICK h, m \in Nat : /\ InGroup(p, lines, h, m) /\ m < n - 1 /\ IsHeader(lines[m + 1])
                        /\ SameNames(s, p[m])
        BY <2>4, <3>1, <3>2 DEF ReadUpTo
      <4>2. m < n
        BY <2>1, <4>1
      <4> QED BY <3>1, <4>1, <4>2
    <3>3. ASSUME t.status = "disabled"
          PROVE  \E h, i \in Nat : /\ InGroup(p, lines, h, i - 1) /\ i <= n
                           /\ lines[i].kind = "pair" /\ p[i].status = "disabled"
      <4>1. PICK h, i \in Nat : /\ InGroup(p, lines, h, i - 1) /\ i <= n - 1
                        /\ lines[i].kind = "pair" /\ p[i].status = "disabled"
        BY <2>4, <3>1, <3>3 DEF ReadUpTo
      <4>2. i <= n
        BY <2>1, <4>1
      <4> QED BY <4>1, <4>2
    <3> QED BY <2>1, <3>1, <3>2, <3>3 DEF ReadUpTo
  <2> QED BY <2>5, <2>6, <2>7, <2>8 DEF Reads
<1>4. 0 .. N \subseteq S
  <2> HIDE DEF S
  <2> QED BY <1>1, <1>2, <1>3, BoundedInduction
<1> QED
  BY <1>4 DEF N

-----------------------------------------------------------------------------
(* What a value says *)

LEMMA EscapesAre ==
    ASSUME NEW ch \in DOMAIN Escapes \cup {BS}
    PROVE  convert(ch) \in TextChars
<1>1. DOMAIN Escapes = {"s", "n", "t", "r"}
  BY DEF Escapes
<1>2. /\ Escapes["s"] = SP /\ Escapes["n"] = "newline" /\ Escapes["t"] = "tab" /\ Escapes["r"] = "return"
  BY DEF Escapes
<1>3. BS \in TextChars /\ SP \in TextChars /\ {"newline", "tab", "return"} \subseteq TextChars
  BY DEF TextChars, Chars
<1> QED
  BY <1>1, <1>2, <1>3 DEF convert

LEMMA ExpandCharType ==
    ASSUME NEW x \in ItemStates(TextChars), NEW ch \in TextChars
    PROVE  ExpandChar(x, ch, FALSE) \in ItemStates(TextChars)
<1> DEFINE T == TextChars
<1>0. <<>> \in Seq(T) /\ x.curr \in Seq(T) /\ x.thrown \in BOOLEAN /\ x.escape \in BOOLEAN
  BY DEF ItemStates
<1>1. ASSUME NEW c \in T PROVE [x EXCEPT !.curr = Append(@, c), !.escape = FALSE] \in ItemStates(T)
  <2> DEFINE d == Append(x.curr, c)
  <2>1. d \in Seq(T)
    BY <1>0, AppendProperties
  <2>2. [x EXCEPT !.curr = Append(@, c), !.escape = FALSE] = [x EXCEPT !.curr = d, !.escape = FALSE]
    BY Zenon
  <2> HIDE DEF d
  <2>3. [x EXCEPT !.curr = d, !.escape = FALSE] \in ItemStates(T)
    BY <2>1 DEF ItemStates
  <2> QED BY <2>2, <2>3, Zenon
<1>2. CASE x.thrown
  <2>1. ExpandChar(x, ch, FALSE) = x
    BY <1>2, Zenon DEF ExpandChar
  <2> QED BY <2>1
<1>3. CASE ~x.thrown /\ x.escape /\ ch \in DOMAIN Escapes \cup {BS}
  <2> DEFINE c == convert(ch)
  <2>1. ExpandChar(x, ch, FALSE) = [x EXCEPT !.curr = Append(@, c), !.escape = FALSE]
    BY <1>3, Zenon DEF ExpandChar
  <2>2. c \in T
    BY <1>3, EscapesAre
  <2> HIDE DEF c
  <2> QED BY <1>1, <2>1, <2>2, Zenon
<1>4. CASE ~x.thrown /\ x.escape /\ ch \notin DOMAIN Escapes \cup {BS}
  <2>1. ExpandChar(x, ch, FALSE) = [x EXCEPT !.thrown = TRUE]
    BY <1>4, Zenon DEF ExpandChar
  <2>2. [x EXCEPT !.thrown = TRUE] \in ItemStates(T)
    BY DEF ItemStates
  <2> QED BY <2>1, <2>2, Zenon
<1>5. CASE ~x.thrown /\ ~x.escape /\ ch = BS
  <2>1. ExpandChar(x, ch, FALSE) = [x EXCEPT !.escape = TRUE]
    BY <1>5, Zenon DEF ExpandChar
  <2>2. [x EXCEPT !.escape = TRUE] \in ItemStates(T)
    BY DEF ItemStates
  <2> QED BY <2>1, <2>2, Zenon
<1>6. CASE ~x.thrown /\ ~x.escape /\ ch # BS
  <2>1. ExpandChar(x, ch, FALSE) = [x EXCEPT !.curr = Append(@, ch), !.escape = FALSE]
    BY <1>6, Zenon DEF ExpandChar
  <2> QED BY <1>1, <2>1, Zenon
<1> QED
  BY <1>0, <1>2, <1>3, <1>4, <1>5, <1>6

LEMMA ExpandType ==
    ASSUME NEW value \in String
    PROVE  expand(value).text \in Seq(TextChars)
<1> DEFINE N == Len(value)
           X == ItemStates(TextChars)
           b == Item(<<>>, <<>>)
           F(x, n) == ExpandChar(x, value[n], FALSE)
           Solves(g) == g = [n \in 0 .. N |-> IF n = 0 THEN b ELSE F(g[n - 1], n)]
           read == CHOOSE g : Solves(g)
<1>1. N \in Nat /\ \A n \in 1 .. N : value[n] \in TextChars
  BY LenProperties DEF String, TextChars
<1>2. expand(value).text = read[N].curr
  <2>1. Expanded(value, FALSE) = read[N]
    BY DEF Expanded, Item
  <2> HIDE DEF read
  <2> QED BY <2>1 DEF expand
<1>3. b \in X
  <2>1. <<>> \in Seq(Seq(TextChars)) /\ <<>> \in Seq(TextChars)
    OBVIOUS
  <2>2. b \in Items(TextChars)
    BY <2>1, ItemIs, Zenon
  <2> QED BY <2>2 DEF Items
<1>4. \A n \in 1 .. N, x \in X : F(x, n) \in X
  BY <1>1, ExpandCharType
<1> HIDE DEF F, b, X
<1>5. /\ read[0] = b /\ (\A n \in 1 .. N : read[n] = F(read[n - 1], n))
      /\ \A n \in 0 .. N : read[n] \in X
  <2> DEFINE step == [n \in 1 .. N |-> [x \in X |-> F(x, n)]]
  <2>1. \A n \in 1 .. N, x \in X : step[n][x] = F(x, n)
    OBVIOUS
  <2>2. \A n \in 1 .. N, x \in X : step[n][x] \in X
    BY <1>1, <1>3, <1>4, <2>1
  <2> HIDE DEF step
  <2>3. PICK g : g \in Recursion(N, X, b, step)
    BY <1>1, <1>3, <1>4, <2>2, RecursionExists
  <2>4. /\ g \in [0 .. N -> X] /\ g[0] = b
        /\ \A n \in 1 .. N : g[n] = step[n][g[n - 1]]
    BY <2>3 DEF Recursion
  <2>5. ASSUME NEW n \in 0 .. N, n # 0 PROVE g[n] = F(g[n - 1], n)
    <3>1. n \in 1 .. N /\ n - 1 \in 0 .. N
      BY <1>1, <1>3, <1>4, <2>5
    <3> QED BY <2>1, <2>4, <3>1
  <2>6. Solves(g)
    BY <2>4, <2>5
  <2>7. Solves(read)
    <3> HIDE DEF Solves
    <3> QED BY <2>6
  <2> HIDE DEF read
  <2>8. read[0] = b /\ \A n \in 1 .. N : read[n] = F(read[n - 1], n)
    BY <1>1, <1>3, <1>4, <2>7
  <2> DEFINE S == {n \in 0 .. N : read[n] \in X}
  <2>9. 0 \in S
    BY <1>1, <1>3, <1>4, <2>8
  <2>10. ASSUME NEW n \in 1 .. N, n - 1 \in S PROVE n \in S
    BY <1>1, <1>3, <1>4, <2>8, <2>10
  <2> HIDE DEF S
  <2>11. 0 .. N \subseteq S
    BY <1>1, <1>3, <1>4, <2>9, <2>10, BoundedInduction
  <2> QED BY <2>8, <2>11 DEF S
<1> HIDE DEF read
<1>6. read[N] \in ItemStates(TextChars)
  BY <1>1, <1>5 DEF X
<1> QED
  BY <1>2, <1>6 DEF ItemStates

-----------------------------------------------------------------------------
(* From the end of the loop to what AppManager sees *)

LEMMA OutcomeIs ==
    ASSUME NEW end
    PROVE  /\ end.status \in {"invalid", "disabled"} => Outcome(end).status = end.status
           /\ end.status \in {"reading", "ended"} =>
                Outcome(end).status = IF end.parse_key_values /\ end.Name.text # <<>> THEN "ok" ELSE "invalid"
           /\ Outcome(end).name = end.Name.text
           /\ Outcome(end).generic_name = end.GenericName.text
           /\ Outcome(end).exec = end.exec
<1>1. CASE end.status \in {"invalid", "disabled"}
  <2>1. end.status \notin {"reading", "ended"}
    BY <1>1
  <2> QED BY <1>1, <2>1, Zenon DEF Outcome
<1>2. CASE end.status \in {"reading", "ended"}
  <2>1. end.status \notin {"invalid", "disabled"}
    BY <1>2
  <2> QED BY <1>2, <2>1, Zenon DEF Outcome
<1>3. CASE end.status \notin {"invalid", "disabled"} /\ end.status \notin {"reading", "ended"}
  BY <1>3, Zenon DEF Outcome
<1> QED
  BY <1>1, <1>2, <1>3

\* What the constructor makes of a file
Ctor(path) == Application_ctor(in.files[path], LocaleSuffixes(Locale), desktopenvs)
Shown(app) ==
    [name |-> app.name,
     generic_name |-> IF app.generic_name = <<>> THEN null ELSE app.generic_name,
     exec_valid |-> validate_exec_key(app.exec)]

LEMMA LoadedIs ==
    ASSUME NEW path
    PROVE  /\ Ctor(path).status = "disabled" => Loaded(path) = disabled_error
           /\ Ctor(path).status = "invalid" => Loaded(path) = invalid_error
           /\ Ctor(path).status = "ok" => Loaded(path) = Shown(Ctor(path))
<1> DEFINE c == Ctor(path)
<1>1. CASE c.status = "disabled"
  <2>1. c.status # "invalid" /\ c.status # "ok"
    BY <1>1
  <2> QED BY <1>1, <2>1, Zenon DEF Loaded, Ctor
<1>2. CASE c.status = "invalid"
  <2>1. c.status # "disabled" /\ c.status # "ok"
    BY <1>2
  <2> QED BY <1>2, <2>1, Zenon DEF Loaded, Ctor
<1>3. CASE c.status = "ok"
  <2>1. c.status # "disabled" /\ c.status # "invalid"
    BY <1>3
  <2> QED BY <1>3, <2>1, Zenon DEF Loaded, Ctor, Shown
<1> QED
  BY <1>1, <1>2, <1>3

LEMMA FieldTexts ==
    ASSUME NEW L \in SUBSET FileLines, NEW suffixes, NEW field \in Fields(L, suffixes)
    PROVE  field.text \in Seq(TextChars)
<1>1. CASE field = NoField
  <2>1. field.text = <<>>
    BY <1>1 DEF NoField
  <2> QED BY <2>1
<1>2. ASSUME NEW m, NEW line \in L, field = FieldOf(m, line) PROVE field.text \in Seq(TextChars)
  <2>1. line \in FileLines
    OBVIOUS
  <2>2. line.value \in String
    BY <2>1 DEF FileLines
  <2>3. field.text = expand(line.value).text
    BY <1>2, Zenon DEF FieldOf
  <2> QED BY <2>2, <2>3, ExpandType
<1> QED
  BY <1>1, <1>2 DEF Fields

LEMMA ShownIsText ==
    ASSUME NEW app, app.name \in Seq(TextChars), app.generic_name \in Seq(TextChars)
    PROVE  Shown(app) # disabled_error
<1> DEFINE generic == IF app.generic_name = <<>> THEN null ELSE app.generic_name
           valid == validate_exec_key(app.exec)
           name == app.name
<1>1. valid \in BOOLEAN
  BY DEF validate_exec_key
<1>2. generic \in Seq(TextChars) \cup {null}
  OBVIOUS
<1>3. Shown(app) = [name |-> name, generic_name |-> generic, exec_valid |-> valid]
  BY Zenon DEF Shown
<1> HIDE DEF generic, valid, name
<1>4. name \in Seq(TextChars)
  BY DEF name
<1>5. Shown(app) \in [name: Seq(TextChars), generic_name: Seq(TextChars) \cup {null}, exec_valid: BOOLEAN]
  BY <1>1, <1>2, <1>3, <1>4
<1> QED
  BY <1>5, TextsAssumption

-----------------------------------------------------------------------------
(* The lines of the entry *)

LEMMA EntryIs ==
    ASSUME NEW path, NEW i \in Nat, in.files[path].lines \in Seq(FileLines)
    PROVE  /\ i \in Entry(path) <=> \E h \in Nat : h < i /\ Group(in.files[path].lines, h, i)
           /\ Entry(path) \subseteq Nat
<1> DEFINE lines == in.files[path].lines
           headers == {j \in DOMAIN lines : IsHeader(lines[j])}
<1>1. DOMAIN lines = 1 .. Len(lines) /\ Len(lines) \in Nat
  BY LenProperties
<1>2. i \in Entry(path) <=>
        i \in DOMAIN lines /\ \E h \in headers :
            /\ lines[h].kind = "header" /\ h < i
            /\ \A j \in headers : ~(h < j /\ j <= i)
            /\ \A j \in 1 .. h - 1 : lines[j].kind # "header"
  BY Zenon DEF Entry, IsHeader
<1>3. \A j : j \in headers <=> j \in 1 .. Len(lines) /\ IsHeader(lines[j])
  BY <1>1
<1>4. \A j : lines[j].kind = "header" => IsHeader(lines[j])
  BY DEF IsHeader
<1> HIDE DEF headers, lines
<1>5. ASSUME i \in Entry(path) PROVE \E h \in Nat : h < i /\ Group(lines, h, i)
  <2>1. i \in 1 .. Len(lines)
    BY <1>1, <1>2, <1>5
  <2>2. PICK h \in headers :
            /\ lines[h].kind = "header" /\ h < i
            /\ \A j \in headers : ~(h < j /\ j <= i)
            /\ \A j \in 1 .. h - 1 : lines[j].kind # "header"
    BY <1>2, <1>5
  <2>3. h \in 1 .. Len(lines)
    BY <1>3
  <2>4. ASSUME NEW j \in h + 1 .. i PROVE ~IsHeader(lines[j])
    <3>1. j \in 1 .. Len(lines) /\ h < j /\ j <= i
      BY <1>1, <2>1, <2>3
    <3> QED BY <1>3, <2>2, <3>1
  <2>5. h \in 1 .. i /\ i <= Len(lines) /\ h \in Nat
    BY <1>1, <2>1, <2>2, <2>3
  <2> QED BY <2>2, <2>4, <2>5 DEF Group
<1>6. ASSUME NEW h \in Nat, h < i, Group(lines, h, i) PROVE i \in Entry(path)
  <2>1. /\ h \in 1 .. i /\ i <= Len(lines)
        /\ lines[h].kind = "header" /\ \A j \in 1 .. h - 1 : lines[j].kind # "header"
        /\ \A j \in h + 1 .. i : ~IsHeader(lines[j])
    BY <1>6 DEF Group
  <2>2. i \in Int
    OBVIOUS
  <2>3. i \in 1 .. Len(lines) /\ h \in 1 .. Len(lines)
    BY <1>1, <2>1, <2>2
  <2>4. ASSUME NEW j \in headers PROVE ~(h < j /\ j <= i)
    <3>1. j \in Int /\ IsHeader(lines[j])
      BY <1>1, <1>3
    <3> QED BY <1>1, <2>1, <2>2, <3>1
  <2>5. h \in headers
    BY <1>3, <1>4, <2>1, <2>3
  <2> QED BY <1>1, <1>2, <1>6, <2>1, <2>3, <2>4, <2>5
<1>7. Entry(path) \subseteq DOMAIN lines
  BY DEF Entry, lines
<1> QED
  BY <1>1, <1>5, <1>6, <1>7 DEF lines

\* A line of the entry is read if the group is read up to the next header.
LEMMA SameGroup ==
    ASSUME NEW lines, Len(lines) \in Nat, NEW h \in Nat, NEW m \in Nat, Group(lines, h, m),
           m = Len(lines) \/ IsHeader(lines[m + 1]),
           NEW g \in Nat, NEW i \in Nat, Group(lines, g, i), g < i
    PROVE  g = h /\ i \in h + 1 .. m
<1>1. /\ h \in 1 .. m /\ m <= Len(lines)
      /\ lines[h].kind = "header" /\ \A j \in 1 .. h - 1 : lines[j].kind # "header"
  BY DEF Group
<1>2. /\ g \in 1 .. i /\ i <= Len(lines)
      /\ lines[g].kind = "header" /\ \A j \in 1 .. g - 1 : lines[j].kind # "header"
      /\ \A j \in g + 1 .. i : ~IsHeader(lines[j])
  BY DEF Group
<1>3. g = h
  <2>1. ~(g < h) /\ ~(h < g)
    BY <1>1, <1>2
  <2> QED BY <2>1
<1>4. i <= m
  <2> SUFFICES ASSUME ~(i <= m) PROVE FALSE
    OBVIOUS
  <2>1. m + 1 \in g + 1 .. i /\ m # Len(lines)
    BY <1>1, <1>2, <1>3
  <2> QED BY <1>2, <2>1
<1> QED
  BY <1>2, <1>3, <1>4

\* A pair keeps the application from the menu if and only if the loop stops at it so.
LEMMA LineHides ==
    ASSUME in \in Inputs, NEW L, NEW line \in FileLines, line.kind = "pair",
           line.key \in Lists => BS \notin ToSet(line.value),
           NEW suffixes, NEW s \in ReadStates(L, suffixes), Reads(s)
    PROVE  LET r == KeyValue(s, line, suffixes, desktopenvs)
           IN  /\ r.status = "disabled" => KeepsFromMenu(line)
               /\ r.status = "reading" => ~KeepsFromMenu(line)
<1> DEFINE r == KeyValue(s, line, suffixes, desktopenvs)
           keeps == KeepsFromMenu(line)
<1>1. /\ Failed(s).status = "invalid" /\ Hides(s).status = "disabled" /\ s.status = "reading"
  BY DEF Failed, Hides, ReadStates, Reads
<1>2. CASE line.key \in Lists
  <2> DEFINE hidden == HiddenIn(line.key, desktopenvs, expandlist(line.value).list)
  <2>1. expandlist(line.value).thrown = FALSE /\ (hidden <=> keeps)
    BY <1>2, ListHides
  <2>2. r = IF desktopenvs # <<>> /\ expandlist(line.value).thrown THEN Failed(s)
            ELSE IF hidden THEN Hides(s) ELSE s
    BY <1>2, KeyValueIs
  <2> HIDE DEF hidden, r, keeps
  <2>3. r = IF hidden THEN Hides(s) ELSE s
    BY <2>1, <2>2
  <2> QED BY <1>1, <2>1, <2>3 DEF r, keeps
<1>3. CASE line.key \in {"Hidden", "NoDisplay"}
  <2>1. r = IF line.value = True THEN Hides(s) ELSE s
    BY <1>3, KeyValueIs
  <2>2. line.key # "OnlyShowIn" /\ line.key # "NotShowIn"
    BY <1>3
  <2>3. keeps <=> line.value = True
    BY <1>3, <2>2, Zenon DEF KeepsFromMenu
  <2> HIDE DEF r, keeps
  <2> QED BY <1>1, <2>1, <2>3 DEF r, keeps
<1>4. CASE line.key \notin Lists /\ line.key \notin {"Hidden", "NoDisplay"}
  <2>1. line.key # "OnlyShowIn" /\ line.key # "NotShowIn"
    BY <1>4 DEF Lists
  <2>2. ~keeps
    BY <1>4, <2>1, Zenon DEF KeepsFromMenu
  <2>3. WithExec(s, line).status = s.status
    <3> DEFINE text == expand(line.value).text
    <3>1. WithExec(s, line) = [s EXCEPT !.exec = text]
      BY Zenon DEF WithExec
    <3> HIDE DEF text
    <3>2. [s EXCEPT !.exec = text].status = s.status
      BY DEF ReadStates
    <3> QED BY <3>1, <3>2, Zenon
  <2>4. line.key \in {"Name", "GenericName"} => WithKey(s, line, suffixes).status = s.status
    <3> DEFINE field == KeyOf(s, line, suffixes)
               key == line.key
               w == [s EXCEPT ![key] = field]
    <3>1. WithKey(s, line, suffixes) = w
      BY Zenon DEF WithKey
    <3> HIDE DEF field, key
    <3>2. key \in {"Name", "GenericName"} => w.status = s.status
      BY DEF ReadStates
    <3> QED BY <3>1, <3>2, Zenon DEF key
  <2>5. \/ line.key \in {"Name", "GenericName"} \/ line.key = "Exec" \/ line.key = "Path"
        \/ line.key \notin OtherKeys
    BY <1>4 DEF OtherKeys
  <2>6. \/ r = Failed(s) \/ r = s \/ r = WithExec(s, line)
        \/ r = WithKey(s, line, suffixes) /\ line.key \in {"Name", "GenericName"}
    BY <2>5, KeyValueIs
  <2> HIDE DEF r, keeps
  <2>7. r.status # "disabled"
    BY <1>1, <2>3, <2>4, <2>6
  <2> QED BY <2>2, <2>7 DEF r, keeps
<1> QED
  BY <1>2, <1>3, <1>4

-----------------------------------------------------------------------------
(* The file as a whole *)

LEMMA ShownFile ==
    ASSUME in \in Inputs, NEW path \in DOMAIN in.files, in.files[path].newline, PlainLists(path),
           Loaded(path) \in Application \cup {disabled_error}
    PROVE  Loaded(path) = disabled_error <=> KeptFromMenu(path)
<1> DEFINE file == in.files[path]
           lines == file.lines
           N == Len(lines)
           suffixes == LocaleSuffixes(Locale)
           envs == desktopenvs
           L == ToSet(lines)
<1>1. lines \in Seq(FileLines) /\ Lines(file) = lines
  BY InputsAssumption DEF Lines
<1>2. Entry(path) \subseteq Nat /\ \A i \in Nat : i \in Entry(path) <=> \E h \in Nat : h < i /\ Group(lines, h, i)
  BY <1>1, EntryIs
<1>3. \A i \in Entry(path) : lines[i].kind = "pair" /\ lines[i].key \in Lists => BS \notin ToSet(lines[i].value)
  BY Zenon DEF PlainLists
<1>4. KeptFromMenu(path) <=> \E i \in Entry(path) : KeepsFromMenu(lines[i])
  BY Zenon DEF KeptFromMenu
<1>5. \A line : KeepsFromMenu(line) => line.kind = "pair"
  BY Zenon DEF KeepsFromMenu
<1> DEFINE c == Ctor(path)
<1>6. /\ c.status = "disabled" => Loaded(path) = disabled_error
      /\ c.status = "invalid" => Loaded(path) = invalid_error
      /\ c.status = "ok" => Loaded(path) = Shown(c)
  BY LoadedIs
<1>7. \E p : IsRead(p, lines, suffixes, envs) /\ c = Outcome(p[N])
  <2>1. \E p : IsRead(p, Lines(file), suffixes, envs) /\ c = Outcome(p[Len(Lines(file))])
    <3> HIDE DEF suffixes, envs
    <3>1. c = Application_ctor(file, suffixes, envs)
      BY DEF Ctor, suffixes, envs
    <3> HIDE DEF c, file
    <3>2. Lines(file) \in Seq(FileLines)
      BY <1>1
    <3> QED BY <3>1, <3>2, FileReads
  <2> QED BY <1>1, <2>1
<1>8. N \in Nat /\ (\A n \in 1 .. N : lines[n] \in FileLines) /\ L \in SUBSET FileLines
  BY <1>1, LenProperties, ElementOfSeq DEF ToSet
<1> HIDE DEF suffixes, lines, c, file, N, L
<1>9. PICK p : IsRead(p, lines, suffixes, envs) /\ c = Outcome(p[N])
  BY <1>7
<1>10. /\ p \in [0 .. N -> ReadStates(L, suffixes)]
       /\ \A n \in 1 .. N : p[n] = ReadLine(p[n - 1], lines[n], suffixes, envs)
  BY <1>9 DEF IsRead, N, L
<1>11. ReadUpTo(p, lines, N)
  BY <1>1, <1>8, <1>9, ReadSoFar DEF N
<1> DEFINE e == p[N]
<1>12. e \in ReadStates(L, suffixes)
  BY <1>8, <1>10
<1>13. /\ e.status \in {"reading", "ended", "invalid", "disabled"} /\ e.parse_key_values \in BOOLEAN
       /\ e.Name \in Fields(L, suffixes) /\ e.GenericName \in Fields(L, suffixes)
  BY <1>12 DEF ReadStates
<1>14. ASSUME NEW h \in Nat, NEW i \in h + 1 .. N, Group(lines, h, i), Reads(p[i - 1]), lines[i].kind = "pair"
       PROVE  /\ i \in Entry(path)
              /\ p[i].status = "disabled" => KeepsFromMenu(lines[i])
              /\ p[i].status = "reading" => ~KeepsFromMenu(lines[i])
  <2> DEFINE s == p[i - 1]
             line == lines[i]
  <2>1. i \in 1 .. N /\ i - 1 \in 0 .. N /\ i \in Nat /\ h < i
    BY <1>8
  <2>2. i \in Entry(path)
    BY <1>2, <1>14, <2>1
  <2>3. s \in ReadStates(L, suffixes) /\ p[i] = ReadLine(s, line, suffixes, envs) /\ line \in FileLines
    BY <1>8, <1>10, <2>1
  <2>4. s.status = "reading" /\ s.parse_key_values
    BY <1>14 DEF Reads
  <2>5. line.key \in Lists => BS \notin ToSet(line.value)
    BY <1>3, <1>14, <2>2
  <2> HIDE DEF s, line
  <2>6. line.kind = "pair" /\ line.kind # "comment"
    BY <1>14 DEF line
  <2>7. p[i] = KeyValue(s, line, suffixes, envs)
    BY <2>3, <2>4, <2>6, ReadLineIs
  <2>8. Reads(s)
    BY <2>4 DEF Reads
  <2>9. LET r == KeyValue(s, line, suffixes, envs)
        IN  /\ r.status = "disabled" => KeepsFromMenu(line)
            /\ r.status = "reading" => ~KeepsFromMenu(line)
    BY <2>3, <2>5, <2>6, <2>8, LineHides
  <2> QED BY <2>2, <2>7, <2>9 DEF line
<1>15. CASE e.status = "disabled"
  <2>1. PICK h, i \in Nat : /\ InGroup(p, lines, h, i - 1) /\ i <= N
                            /\ lines[i].kind = "pair" /\ p[i].status = "disabled"
    BY <1>11, <1>15 DEF ReadUpTo
  <2>2. /\ h \in 1 .. i - 1 /\ i - 1 <= N
        /\ lines[h].kind = "header" /\ \A j \in 1 .. h - 1 : lines[j].kind # "header"
        /\ \A j \in h + 1 .. i - 1 : ~IsHeader(lines[j])
        /\ \A j \in h .. i - 1 : Reads(p[j])
    BY <2>1 DEF InGroup, Group, N
  <2>3. h \in Nat /\ i \in h + 1 .. N /\ i - 1 \in h .. i - 1
    BY <1>8, <2>1, <2>2
  <2>4. \A j \in h + 1 .. i : j = i \/ j \in h + 1 .. i - 1
    BY <2>3
  <2>5. ~IsHeader(lines[i])
    BY <2>1 DEF IsHeader
  <2>6. h \in 1 .. i /\ i <= N /\ \A j \in h + 1 .. i : ~IsHeader(lines[j])
    BY <2>2, <2>3, <2>4, <2>5
  <2>7. Group(lines, h, i)
    BY <2>2, <2>6 DEF Group, N
  <2>8. i \in Entry(path) /\ KeepsFromMenu(lines[i])
    BY <1>14, <2>1, <2>2, <2>3, <2>7
  <2>9. c.status = "disabled"
    BY <1>9, <1>15, OutcomeIs
  <2> QED BY <1>4, <1>6, <2>8, <2>9
<1>16. CASE c.status = "ok"
  <2>1. Loaded(path) # disabled_error
    <3>1. c.name = e.Name.text /\ c.generic_name = e.GenericName.text
      BY <1>9, OutcomeIs
    <3>2. c.name \in Seq(TextChars) /\ c.generic_name \in Seq(TextChars)
      BY <1>8, <1>13, <3>1, FieldTexts
    <3> QED BY <1>6, <1>16, <3>2, ShownIsText
  <2>2. e.status \in {"reading", "ended"} /\ e.parse_key_values
    <3> HIDE DEF e
    <3>1. c = Outcome(e)
      BY <1>9 DEF e
    <3>2. e.status \in {"reading", "ended"}
      BY <1>13, <1>16, <3>1, OutcomeIs
    <3> QED BY <1>16, <3>1, <3>2, OutcomeIs
  <2>3. PICK h, m \in Nat : InGroup(p, lines, h, m) /\ (m = N \/ IsHeader(lines[m + 1]))
    <3>1. CASE e.status = "reading"
      <4>1. PICK h : InGroup(p, lines, h, N)
        BY <1>11, <2>2, <3>1 DEF ReadUpTo, Reads
      <4>2. h \in Nat
        BY <4>1 DEF InGroup, Group
      <4> QED BY <1>8, <4>1, <4>2
    <3>2. CASE e.status = "ended"
      BY <1>11, <3>2 DEF ReadUpTo
    <3> QED BY <2>2, <3>1, <3>2
  <2>4. Group(lines, h, m) /\ m <= N /\ h \in 1 .. m /\ \A j \in h .. m : Reads(p[j])
    BY <2>3 DEF InGroup, Group, N
  <2>5. ASSUME NEW i \in Entry(path), KeepsFromMenu(lines[i]) PROVE FALSE
    <3>1. i \in Nat
      BY <1>2
    <3>2. PICK g \in Nat : g < i /\ Group(lines, g, i)
      BY <1>2, <3>1
    <3>3. g = h /\ i \in h + 1 .. m
      <4>1. m = Len(lines) \/ IsHeader(lines[m + 1])
        BY <2>3 DEF N
      <4> QED BY <1>8, <2>4, <3>1, <3>2, <4>1, SameGroup DEF N
    <3>4. i \in h + 1 .. N /\ i - 1 \in h .. m /\ i \in h .. m
      BY <1>8, <2>4, <3>3
    <3>5. Reads(p[i - 1]) /\ p[i].status = "reading"
      BY <2>4, <3>4 DEF Reads
    <3> QED BY <1>5, <1>14, <2>5, <3>2, <3>3, <3>4, <3>5
  <2> QED BY <1>4, <2>1, <2>5
<1>17. CASE c.status = "invalid"
  BY <1>6, <1>17, ErrorsAssumption
<1>18. e.status = "disabled" \/ c.status = "ok" \/ c.status = "invalid"
  <2> HIDE DEF e
  <2>1. c = Outcome(e)
    BY <1>9 DEF e
  <2> QED BY <1>13, <2>1, OutcomeIs
<1> QED
  BY <1>15, <1>16, <1>17, <1>18

\* A file keeps its application from the menu, for any number of lines in any order and
\* any list of desktops, exactly if a line of its entry says so: the Application
\* constructor stops at the first such line, and at the header behind the entry.
THEOREM AlwaysShownWhereItSays == StartupSpec => []ShownWhereItSays
<1>1. StartupInit => WalkInv /\ PathInv /\ LoadInv
  BY WalkInit, PathInit, LoadInit
<1>2. WalkInv /\ PathInv /\ LoadInv /\ [StartupNext]_all_vars => (WalkInv /\ PathInv /\ LoadInv)'
  BY WalkNext, PathNext, LoadNext
<1>3. WalkInv /\ PathInv /\ LoadInv => ShownWhereItSays
  <2> SUFFICES ASSUME WalkInv, PathInv, LoadInv, Done, NEW id \in IDs, applications[id] # null
               PROVE  \E path \in Sources(id) : in.files[path].newline /\ PlainLists(path) =>
                         (applications[id].app = null <=> KeptFromMenu(path))
    BY DEF ShownWhereItSays
  <2>1. PICK path \in Sources(id) : Loaded(path) \in Application \cup {disabled_error}
    BY SourceIs
  <2>2. path \in Deciders(id) /\ applications[id].app = Offer(Loaded(path))
    BY DEF Sources
  <2>3. path \in DOMAIN in.files
    BY <2>2 DEF Deciders, Deciding, FilesIn
  <2>4. in \in Inputs
    BY DEF WalkInv, WalkType
  <2>5. in.files[path].newline /\ PlainLists(path) => (Loaded(path) = disabled_error <=> KeptFromMenu(path))
    BY <2>1, <2>3, <2>4, ShownFile
  <2>6. applications[id].app = null <=> Loaded(path) = disabled_error
    BY <2>1, <2>2, NullAssumption, ErrorsAssumption DEF Offer
  <2> QED BY <2>5, <2>6
<1> QED
  BY <1>1, <1>2, <1>3, PTL DEF StartupSpec

-----------------------------------------------------------------------------
(* The suffixes of the user's locale *)

SignPos(w, ch) == Max({0} \cup {i - 1 : i \in {j \in DOMAIN w : w[j] = ch}})
Cut(w, n) == SubSeq(w, 1, Min({n, Len(w)}))
Rest(w, n) == SubSeq(w, n + 1, Len(w))
Marked(sign, part) == IF part = <<>> THEN <<>> ELSE <<sign>> \o part

AtPos(w) == IF SignPos(w, ".") # 0 /\ SignPos(w, "@") # 0 THEN SignPos(w, ".") ELSE SignPos(w, "@")
Stripped(w) ==
    CASE SignPos(w, ".") = 0 -> w
      [] SignPos(w, ".") # 0 /\ SignPos(w, "@") < SignPos(w, ".") -> Cut(w, SignPos(w, "."))
      [] OTHER -> Cut(w, SignPos(w, ".")) \o Rest(w, SignPos(w, "@"))
SuffixList(w, uscorepos, atpos) ==
    CASE uscorepos = 0 /\ atpos = 0 -> <<w>>
      [] uscorepos # 0 /\ atpos # 0 ->
            <<w, Cut(w, atpos), Cut(w, uscorepos) \o Rest(w, atpos), Cut(w, uscorepos)>>
      [] OTHER -> <<w, Cut(w, IF atpos = 0 THEN uscorepos ELSE atpos)>>

LEMMA SuffixesFrom ==
    ASSUME NEW w
    PROVE  LocaleSuffixes(w) = SuffixList(Stripped(w), SignPos(w, "_"), AtPos(w))
BY Zenon DEF LocaleSuffixes, SuffixList, Stripped, AtPos, SignPos, Cut, Rest

LEMMA GreatestIs ==
    ASSUME NEW T \in SUBSET Nat, NEW r \in T, \A q \in T : q <= r
    PROVE  Max(T) = r
<1> DEFINE IsGreatest(x) == x \in T /\ \A y \in T : x >= y
           m == CHOOSE x : IsGreatest(x)
<1>1. Max(T) = m
  BY DEF Max
<1>2. IsGreatest(r)
  OBVIOUS
<1>3. IsGreatest(m)
  <2> HIDE DEF IsGreatest
  <2> QED BY <1>2
<1> HIDE DEF m
<1>4. m \in Nat /\ r \in Nat /\ m <= r /\ r <= m
  BY <1>3
<1> QED
  BY <1>1, <1>4

LEMMA CutIs ==
    ASSUME NEW T, NEW x \in Seq(T), NEW y \in Seq(T)
    PROVE  Cut(x \o y, Len(x)) = x /\ Rest(x \o y, Len(x)) = y
<1> DEFINE w == x \o y
           n == Len(x)
<1>1. w \in Seq(T) /\ Len(w) = n + Len(y) /\ n \in Nat /\ Len(y) \in Nat
  BY ConcatIs
<1>2. SubSeq(w, 1, n) = x /\ SubSeq(w, n + 1, Len(w)) = y
  OBVIOUS
<1> HIDE DEF w, n
<1>3. Min({n, Len(w)}) = n
  <2> DEFINE S == {n, Len(w)}
  <2>1. S \in SUBSET Nat /\ n \in S /\ \A q \in S : n <= q
    BY <1>1
  <2> HIDE DEF S
  <2>2. Min(S) = n
    BY <2>1, LeastIs
  <2> QED BY <2>2 DEF S
<1> QED
  BY <1>2, <1>3 DEF Cut, Rest, w, n

LEMMA SetOfConcat ==
    ASSUME NEW T, NEW x \in Seq(T), NEW y \in Seq(T)
    PROVE  ToSet(x \o y) = ToSet(x) \cup ToSet(y)
<1> DEFINE w == x \o y
           m == Len(x)
           n == Len(y)
<1>1. /\ w \in Seq(T) /\ Len(w) = m + n /\ m \in Nat /\ n \in Nat
      /\ \A i \in 1 .. m : w[i] = x[i]
      /\ \A i \in 1 .. n : w[m + i] = y[i]
  BY ConcatIs
<1>2. DOMAIN x = 1 .. m /\ DOMAIN y = 1 .. n /\ DOMAIN w = 1 .. m + n
  BY <1>1, LenProperties
<1> HIDE DEF w, m, n
<1>3. ASSUME NEW c \in ToSet(w) PROVE c \in ToSet(x) \cup ToSet(y)
  <2>1. PICK j \in 1 .. m + n : c = w[j]
    BY <1>2 DEF ToSet
  <2>2. CASE j <= m
    <3>1. j \in 1 .. m
      BY <1>1, <2>2
    <3> QED BY <1>1, <1>2, <2>1, <3>1 DEF ToSet
  <2>3. CASE ~(j <= m)
    <3>1. j - m \in 1 .. n /\ m + (j - m) = j
      BY <1>1, <2>3
    <3>2. c = y[j - m]
      BY <1>1, <2>1, <3>1
    <3> QED BY <1>2, <3>1, <3>2 DEF ToSet
  <2> QED BY <2>2, <2>3
<1>4. ASSUME NEW c \in ToSet(x) PROVE c \in ToSet(w)
  <2>1. PICK j \in 1 .. m : c = x[j]
    BY <1>2 DEF ToSet
  <2>2. j \in 1 .. m + n /\ c = w[j]
    BY <1>1, <2>1
  <2> QED BY <1>2, <2>2 DEF ToSet
<1>5. ASSUME NEW c \in ToSet(y) PROVE c \in ToSet(w)
  <2>1. PICK j \in 1 .. n : c = y[j]
    BY <1>2 DEF ToSet
  <2>2. m + j \in 1 .. m + n /\ c = w[m + j]
    BY <1>1, <2>1
  <2> QED BY <1>2, <2>2 DEF ToSet
<1> QED
  BY <1>3, <1>4, <1>5 DEF w

\* Where a part begins that stands behind a sign
LEMMA SignAt ==
    ASSUME NEW T, NEW x \in Seq(T), NEW part \in Seq(T), NEW z \in Seq(T), NEW ch \in T,
           ch \notin ToSet(x), ch \notin ToSet(part), ch \notin ToSet(z)
    PROVE  SignPos((x \o Marked(ch, part)) \o z, ch) = IF part = <<>> THEN 0 ELSE Len(x)
<1> DEFINE y == Marked(ch, part)
           w == (x \o y) \o z
           U == {j \in DOMAIN w : w[j] = ch}
           P == {0} \cup {i - 1 : i \in U}
           n == Len(x)
<1>0. SignPos(w, ch) = Max(P) /\ n \in Nat
  BY LenProperties DEF SignPos
<1>1. CASE part = <<>>
  <2>1. y = <<>> /\ x \o <<>> = x
    BY <1>1, ConcatEmptySeq DEF Marked
  <2>2. w = x \o z
    BY <2>1
  <2>3. ch \notin ToSet(w)
    BY <2>2, SetOfConcat
  <2> HIDE DEF w
  <2>4. U = {}
    BY <2>3 DEF ToSet
  <2> HIDE DEF U
  <2>5. P = {0}
    BY <2>4
  <2>6. Max({0}) = 0
    <3> DEFINE zero == {0}
    <3>1. zero \in SUBSET Nat /\ 0 \in zero /\ \A q \in zero : q <= 0
      OBVIOUS
    <3> HIDE DEF zero
    <3>2. Max(zero) = 0
      BY <3>1, GreatestIs
    <3> QED BY <3>2 DEF zero
  <2> QED BY <1>0, <1>1, <2>5, <2>6 DEF y, w
<1>2. CASE part # <<>>
  <2> DEFINE one == <<ch>>
             rest == part \o z
  <2>1. one \in Seq(T) /\ Len(one) = 1 /\ one[1] = ch /\ rest \in Seq(T)
    BY ConcatIs
  <2>2. y = one \o part
    BY <1>2 DEF Marked
  <2>3. w = x \o (one \o rest)
    <3> HIDE DEF one
    <3>1. one \o part \in Seq(T)
      BY <2>1, ConcatIs
    <3>2. (x \o (one \o part)) \o z = x \o ((one \o part) \o z)
      BY <3>1, ConcatAssociative, SMTT(30)
    <3>3. (one \o part) \o z = one \o (part \o z)
      BY <2>1, ConcatAssociative, SMTT(30)
    <3> QED BY <2>2, <3>2, <3>3
  <2>4. ch \notin ToSet(rest)
    BY SetOfConcat
  <2> HIDE DEF rest, one, w, n
  <2> DEFINE v == one \o rest
  <2>5. /\ v \in Seq(T) /\ Len(v) = 1 + Len(rest) /\ Len(rest) \in Nat
        /\ v[1] = ch /\ \A i \in 1 .. Len(rest) : v[1 + i] = rest[i]
    <3>1. one \in Seq(T) /\ rest \in Seq(T) /\ 1 \in 1 .. Len(one)
      BY <2>1
    <3>2. v \in Seq(T) /\ Len(v) = Len(one) + Len(rest) /\ Len(rest) \in Nat
      BY <3>1, ConcatIs
    <3>3. \A i \in 1 .. Len(one) : v[i] = one[i]
      BY <3>1, ConcatIs
    <3>4. \A i \in 1 .. Len(rest) : v[Len(one) + i] = rest[i]
      BY <3>1, ConcatIs
    <3> HIDE DEF v
    <3>5. v[1] = ch
      BY <2>1, <3>1, <3>3
    <3> QED BY <2>1, <3>2, <3>4, <3>5
  <2> HIDE DEF v
  <2>6. /\ w \in Seq(T) /\ Len(w) = n + Len(v)
        /\ \A i \in 1 .. n : w[i] = x[i]
        /\ \A i \in 1 .. Len(v) : w[n + i] = v[i]
    BY <2>3, <2>5, ConcatIs DEF v, n
  <2>7. /\ \A i \in 1 .. n : x[i] # ch
        /\ \A i \in 1 .. Len(rest) : rest[i] # ch
    BY <2>1, <2>4, LenProperties DEF ToSet, n
  <2>8. DOMAIN w = 1 .. n + Len(v)
    BY <2>6, LenProperties
  <2>9. ASSUME NEW j \in DOMAIN w PROVE w[j] = ch <=> j = n + 1
    <3>1. j \in 1 .. n + (1 + Len(rest))
      BY <2>5, <2>8
    <3>2. CASE j <= n
      <4>1. j \in 1 .. n /\ j # n + 1
        BY <1>0, <2>5, <3>1, <3>2
      <4> QED BY <2>6, <2>7, <4>1
    <3>3. CASE j = n + 1
      <4>1. 1 \in 1 .. Len(v)
        BY <2>5
      <4> QED BY <2>5, <2>6, <3>3, <4>1
    <3>4. CASE j > n + 1
      <4> DEFINE i == j - n - 1
      <4>1. i \in 1 .. Len(rest) /\ 1 + i \in 1 .. Len(v) /\ n + (1 + i) = j
        BY <1>0, <2>5, <3>1, <3>4
      <4> HIDE DEF i
      <4>2. w[j] = rest[i]
        BY <2>5, <2>6, <4>1
      <4> QED BY <1>0, <2>7, <3>4, <4>1, <4>2
    <3> QED BY <1>0, <3>1, <3>2, <3>3, <3>4
  <2>10. n + 1 \in DOMAIN w
    BY <1>0, <2>5, <2>8
  <2>11. U = {n + 1}
    BY <2>9, <2>10
  <2> HIDE DEF U
  <2>12. P \in SUBSET Nat /\ n \in P /\ \A q \in P : q <= n
    <3>1. (n + 1) - 1 = n
      BY <1>0
    <3>2. P = {0, n}
      BY <2>11, <3>1
    <3> HIDE DEF P
    <3> QED BY <1>0, <3>2
  <2> HIDE DEF P
  <2>13. Max(P) = n
    BY <2>12, GreatestIs
  <2> QED BY <1>0, <1>2, <2>13 DEF n, w, y
<1> QED
  BY <1>1, <1>2

LEMMA MarkedIs ==
    ASSUME NEW T, NEW part \in Seq(T), NEW sign \in T
    PROVE  /\ Marked(sign, part) \in Seq(T)
           /\ ToSet(Marked(sign, part)) \subseteq {sign} \cup ToSet(part)
           /\ part = <<>> => Marked(sign, part) = <<>>
           /\ part # <<>> => Len(Marked(sign, part)) >= 1
<1>1. CASE part = <<>>
  BY <1>1 DEF Marked, ToSet
<1>2. CASE part # <<>>
  <2> DEFINE one == <<sign>>
  <2>1. one \in Seq(T) /\ Len(one) = 1 /\ ToSet(one) = {sign}
    BY DEF ToSet
  <2>2. Marked(sign, part) = one \o part
    BY <1>2 DEF Marked
  <2> HIDE DEF one
  <2>3. one \o part \in Seq(T) /\ Len(one \o part) = Len(one) + Len(part) /\ Len(part) \in Nat
    BY <2>1, ConcatIs
  <2>4. ToSet(one \o part) = {sign} \cup ToSet(part)
    BY <2>1, SetOfConcat
  <2> QED BY <1>2, <2>1, <2>2, <2>3, <2>4
<1> QED
  BY <1>1, <1>2

\* The encoding is left out, and the country or the modifier if there is none.  What
\* comes behind the locale and the one without its modifier depends on where the
\* last "_" is.
LEMMA SuffixesAre ==
    ASSUME in \in Inputs
    PROVE  LET l == in.locale.lang
               c == Marked("_", in.locale.country)
               m == Marked("@", in.locale.modifier)
               suffixes == LocaleSuffixes(Locale)
           IN  /\ <<>> \notin {l, l \o c, l \o m, (l \o c) \o m}
               /\ in.locale.modifier = <<>> =>
                     \E u : suffixes \in {<<(l \o c) \o m>>, <<(l \o c) \o m, u>>}
               /\ in.locale.modifier # <<>> =>
                     \E u, v : suffixes \in {<<(l \o c) \o m, l \o c>>, <<(l \o c) \o m, l \o c, u, v>>}
               /\ PlainEncoding =>
                     /\ in.locale.country = <<>> /\ in.locale.modifier = <<>> => suffixes = <<l>>
                     /\ in.locale.country # <<>> /\ in.locale.modifier = <<>> => suffixes = <<l \o c, l>>
                     /\ in.locale.country = <<>> /\ in.locale.modifier # <<>> => suffixes = <<l \o m, l>>
                     /\ in.locale.country # <<>> /\ in.locale.modifier # <<>> =>
                           suffixes = <<(l \o c) \o m, l \o c, l \o m, l>>
<1> DEFINE us == "_"
           dot == "."
           at == "@"
           T == Chars \cup {us, dot, at}
           l == in.locale.lang
           country == in.locale.country
           encoding == in.locale.encoding
           modifier == in.locale.modifier
           c == Marked(us, country)
           e == Marked(dot, encoding)
           m == Marked(at, modifier)
           w == ((l \o c) \o e) \o m
<1>1. IsLocale(in.locale)
  BY InputsAssumption
<1>2. l \in Seq(T) /\ country \in Seq(T) /\ encoding \in Seq(T) /\ modifier \in Seq(T) /\ l # <<>>
  <2>1. l \in String /\ country \in String /\ encoding \in String /\ modifier \in String /\ l # <<>>
    BY <1>1 DEF IsLocale
  <2>2. \A s \in String : s \in Seq(T)
    <3> HIDE DEF us, dot, at
    <3> QED BY DEF String
  <2> HIDE DEF T
  <2> QED BY <2>1, <2>2
<1>3. us \in T /\ dot \in T /\ at \in T /\ us # dot /\ us # at /\ dot # at
  OBVIOUS
<1>4. /\ \A part \in {l, country, encoding, modifier} : dot \notin ToSet(part) /\ at \notin ToSet(part)
      /\ \A part \in {l, country, modifier} : us \notin ToSet(part)
      /\ PlainEncoding => us \notin ToSet(encoding)
  BY <1>1 DEF IsLocale, PlainEncoding
<1>5. Locale = w
  BY Zenon DEF Locale, Marked
<1>6. LocaleSuffixes(Locale) = SuffixList(Stripped(w), SignPos(w, us), AtPos(w))
  BY <1>5, SuffixesFrom
<1>7. AtPos(w) = IF SignPos(w, dot) # 0 /\ SignPos(w, at) # 0 THEN SignPos(w, dot) ELSE SignPos(w, at)
  BY DEF AtPos
<1> DEFINE stripped == Stripped(w)
           d == SignPos(w, dot)
           a == SignPos(w, at)
<1>8. stripped = CASE d = 0 -> w
                   [] d # 0 /\ a < d -> Cut(w, d)
                   [] OTHER -> Cut(w, d) \o Rest(w, a)
  BY Zenon DEF Stripped
<1> HIDE DEF T, us, dot, at, l, country, encoding, modifier, stripped, d, a
<1>9. /\ c \in Seq(T) /\ e \in Seq(T) /\ m \in Seq(T)
      /\ ToSet(c) \subseteq {us} \cup ToSet(country)
      /\ ToSet(e) \subseteq {dot} \cup ToSet(encoding)
      /\ ToSet(m) \subseteq {at} \cup ToSet(modifier)
      /\ country = <<>> => c = <<>>
      /\ encoding = <<>> => e = <<>> /\ (encoding # <<>> => Len(e) >= 1)
      /\ modifier = <<>> => m = <<>>
  BY <1>2, <1>3, MarkedIs
<1>10. encoding # <<>> => Len(e) >= 1
  BY <1>2, <1>3, MarkedIs
<1> HIDE DEF w, c, e, m
<1> DEFINE lc == l \o c
           lce == lc \o e
<1>11. /\ lc \in Seq(T) /\ Len(lc) = Len(l) + Len(c) /\ Len(l) \in Nat /\ Len(c) \in Nat /\ Len(l) >= 1
       /\ ToSet(lc) = ToSet(l) \cup ToSet(c)
  BY <1>2, <1>9, ConcatIs, SetOfConcat, EmptySeq
<1> HIDE DEF lc
<1>12. /\ lce \in Seq(T) /\ Len(lce) = Len(lc) + Len(e) /\ Len(e) \in Nat
       /\ ToSet(lce) = ToSet(lc) \cup ToSet(e)
  <2>1. lc \in Seq(T) /\ e \in Seq(T)
    BY <1>9, <1>11
  <2>2. lce \in Seq(T) /\ Len(lce) = Len(lc) + Len(e) /\ Len(e) \in Nat
    BY <2>1, ConcatIs
  <2>3. ToSet(lce) = ToSet(lc) \cup ToSet(e)
    BY <2>1, SetOfConcat
  <2> QED BY <2>2, <2>3
<1> DEFINE em == e \o m
<1>13. em \in Seq(T) /\ ToSet(em) = ToSet(e) \cup ToSet(m)
  BY <1>9, ConcatIs, SetOfConcat
<1>14. w = lce \o m /\ w = lc \o em
  <2>1. lc \in Seq(T) /\ e \in Seq(T) /\ m \in Seq(T)
    BY <1>9, <1>11
  <2>2. (lc \o e) \o m = lc \o (e \o m)
    BY <2>1, ConcatAssociative, SMTT(30)
  <2> QED BY <2>2 DEF w, lc
<1> HIDE DEF em, lce
<1>15. ASSUME PlainEncoding PROVE SignPos(w, us) = IF country = <<>> THEN 0 ELSE Len(l)
  <2>1. us \notin ToSet(l) /\ us \notin ToSet(country) /\ us \notin ToSet(em)
    BY <1>3, <1>4, <1>9, <1>13, <1>15
  <2>2. SignPos((l \o Marked(us, country)) \o em, us) = IF country = <<>> THEN 0 ELSE Len(l)
    BY <1>2, <1>3, <1>13, <2>1, SignAt
  <2> QED BY <1>14, <2>2 DEF lc, c
<1>16. d = IF encoding = <<>> THEN 0 ELSE Len(lc)
  <2>1. dot \notin ToSet(lc) /\ dot \notin ToSet(encoding) /\ dot \notin ToSet(m)
    BY <1>3, <1>4, <1>9, <1>11
  <2>2. lc \in Seq(T) /\ m \in Seq(T) /\ encoding \in Seq(T) /\ dot \in T
    BY <1>2, <1>3, <1>9, <1>11
  <2>3. SignPos((lc \o Marked(dot, encoding)) \o m, dot) = IF encoding = <<>> THEN 0 ELSE Len(lc)
    BY <2>1, <2>2, SignAt
  <2> QED BY <2>3 DEF d, lc, w, e
<1>17. a = IF modifier = <<>> THEN 0 ELSE Len(lce)
  <2>1. at \notin ToSet(lce) /\ at \notin ToSet(modifier)
    BY <1>3, <1>4, <1>9, <1>11, <1>12
  <2> DEFINE none == <<>>
  <2>2. none \in Seq(T) /\ at \notin ToSet(none)
    BY DEF ToSet
  <2> HIDE DEF none
  <2>6. lce \in Seq(T) /\ modifier \in Seq(T) /\ at \in T
    BY <1>2, <1>3, <1>12
  <2>3. SignPos((lce \o Marked(at, modifier)) \o none, at) = IF modifier = <<>> THEN 0 ELSE Len(lce)
    BY <2>1, <2>2, <2>6, SignAt
  <2>4. w \in Seq(T)
    BY <1>9, <1>12, <1>14, ConcatIs
  <2>5. w \o none = w
    BY <2>4, ConcatEmptySeq DEF none
  <2> QED BY <1>14, <2>3, <2>5 DEF a, m
<1> DEFINE lcm == lc \o m
<1>18. stripped = lcm
  <2>1. CASE encoding = <<>>
    <3>1. d = 0
      BY <1>16, <2>1
    <3>2. stripped = w
      BY <1>8, <3>1, Zenon
    <3>3. e = <<>> /\ lc \o <<>> = lc
      BY <1>9, <1>11, <2>1, ConcatEmptySeq
    <3> QED BY <1>14, <3>2, <3>3 DEF lce
  <2>2. CASE encoding # <<>> /\ modifier = <<>>
    <3>1. d = Len(lc) /\ a = 0 /\ a < d /\ d # 0
      BY <1>11, <1>16, <1>17, <2>2
    <3>2. stripped = Cut(w, d)
      BY <1>8, <3>1, Zenon
    <3>3. Cut(lc \o em, Len(lc)) = lc
      BY <1>11, <1>13, CutIs
    <3>4. m = <<>> /\ lc \o <<>> = lc
      BY <1>9, <1>11, <2>2, ConcatEmptySeq
    <3> QED BY <1>14, <3>1, <3>2, <3>3, <3>4
  <2>3. CASE encoding # <<>> /\ modifier # <<>>
    <3>1. d = Len(lc) /\ a = Len(lce) /\ ~(a < d) /\ d # 0
      BY <1>10, <1>11, <1>12, <1>16, <1>17, <2>3
    <3>2. stripped = Cut(w, d) \o Rest(w, a)
      BY <1>8, <3>1, Zenon
    <3>3. Cut(lc \o em, Len(lc)) = lc
      BY <1>11, <1>13, CutIs
    <3>4. Rest(lce \o m, Len(lce)) = m
      BY <1>9, <1>12, CutIs
    <3> QED BY <1>14, <3>1, <3>2, <3>3, <3>4
  <2> QED BY <2>1, <2>2, <2>3
<1>19. AtPos(w) = IF modifier = <<>> THEN 0 ELSE Len(lc)
  <2>1. AtPos(w) = IF d # 0 /\ a # 0 THEN d ELSE a
    BY <1>7 DEF d, a
  <2>2. encoding = <<>> => Len(lce) = Len(lc)
    <3>1. encoding = <<>> => Len(e) = 0
      BY <1>9
    <3> QED BY <1>11, <1>12, <3>1
  <2> QED BY <1>10, <1>11, <1>12, <1>16, <1>17, <2>1, <2>2
<1> DEFINE p == SignPos(w, us)
           q == AtPos(w)
           list == LocaleSuffixes(Locale)
<1>20. list = SuffixList(lcm, p, q)
  BY <1>6, <1>18 DEF stripped
<1> HIDE DEF p, q, list
<1>21. list = CASE p = 0 /\ q = 0 -> <<lcm>>
               [] p # 0 /\ q # 0 -> <<lcm, Cut(lcm, q), Cut(lcm, p) \o Rest(lcm, q), Cut(lcm, p)>>
               [] OTHER -> <<lcm, Cut(lcm, IF q = 0 THEN p ELSE q)>>
  BY <1>20, Zenon DEF SuffixList
<1>22. /\ PlainEncoding => p = (IF country = <<>> THEN 0 ELSE Len(l))
       /\ q = (IF modifier = <<>> THEN 0 ELSE Len(lc))
  BY <1>15, <1>19 DEF p, q
<1> DEFINE cm == c \o m
<1>23. cm \in Seq(T) /\ lcm = l \o cm
  <2>1. l \in Seq(T) /\ c \in Seq(T) /\ m \in Seq(T)
    BY <1>2, <1>9
  <2>2. cm \in Seq(T)
    BY <2>1, ConcatIs
  <2>3. (l \o c) \o m = l \o (c \o m)
    BY <2>1, ConcatAssociative, SMTT(30)
  <2> QED BY <2>2, <2>3 DEF lc
<1> HIDE DEF cm
<1>24. Cut(lcm, Len(lc)) = lc /\ Rest(lcm, Len(lc)) = m
  BY <1>9, <1>11, CutIs
<1> HIDE DEF lcm
<1>25. Cut(lcm, Len(l)) = l
  BY <1>2, <1>23, CutIs
<1>26. /\ country = <<>> => lc = l
       /\ modifier = <<>> => lcm = lc
  BY <1>2, <1>9, <1>11, ConcatEmptySeq DEF lc, lcm
<1>27. <<>> \notin {l, l \o c, l \o m, (l \o c) \o m}
  <2>1. l \o c # <<>> /\ l \o m # <<>>
    BY <1>2, <1>9, ConcatEqualIffEmpty
  <2>2. (l \o c) \o m # <<>>
    BY <1>9, <1>11, <2>1, ConcatEqualIffEmpty DEF lc
  <2> QED BY <1>2, <2>1, <2>2
<1>28. ASSUME modifier = <<>> PROVE \E u : list \in {<<lcm>>, <<lcm, u>>}
  <2>1. q = 0
    BY <1>22, <1>28
  <2>2. CASE p = 0
    <3>1. list = <<lcm>>
      BY <1>21, <2>1, <2>2, Zenon
    <3> QED BY <3>1
  <2>3. CASE p # 0
    <3>1. list = <<lcm, Cut(lcm, IF q = 0 THEN p ELSE q)>>
      BY <1>21, <2>1, <2>3, Zenon
    <3> QED BY <3>1
  <2> QED BY <2>2, <2>3
<1>29. ASSUME modifier # <<>> PROVE \E u, v : list \in {<<lcm, lc>>, <<lcm, lc, u, v>>}
  <2>1. q = Len(lc) /\ q # 0 /\ Cut(lcm, q) = lc
    BY <1>11, <1>22, <1>24, <1>29
  <2>2. CASE p = 0
    <3>1. list = <<lcm, Cut(lcm, IF q = 0 THEN p ELSE q)>>
      BY <1>21, <2>1, <2>2, Zenon
    <3>2. list = <<lcm, lc>>
      BY <2>1, <3>1
    <3> QED BY <3>2
  <2>3. CASE p # 0
    <3>1. list = <<lcm, Cut(lcm, q), Cut(lcm, p) \o Rest(lcm, q), Cut(lcm, p)>>
      BY <1>21, <2>1, <2>3, Zenon
    <3>2. list = <<lcm, lc, Cut(lcm, p) \o Rest(lcm, q), Cut(lcm, p)>>
      BY <2>1, <3>1
    <3> QED BY <3>2
  <2> QED BY <2>2, <2>3
<1> DEFINE Plain4 == /\ country = <<>> /\ modifier = <<>> => list = <<l>>
                     /\ country # <<>> /\ modifier = <<>> => list = <<lc, l>>
                     /\ country = <<>> /\ modifier # <<>> => list = <<l \o m, l>>
                     /\ country # <<>> /\ modifier # <<>> => list = <<lcm, lc, l \o m, l>>
<1>30. ASSUME PlainEncoding PROVE Plain4
  <2>1. ASSUME country = <<>>, modifier = <<>> PROVE list = <<l>>
    <3>1. p = 0 /\ q = 0
      BY <1>22, <1>30, <2>1
    <3>2. list = <<lcm>>
      BY <1>21, <3>1, Zenon
    <3> QED BY <1>26, <2>1, <3>2
  <2>2. ASSUME country # <<>>, modifier = <<>> PROVE list = <<lc, l>>
    <3>1. p = Len(l) /\ q = 0 /\ p # 0
      BY <1>11, <1>22, <1>30, <2>2
    <3>2. list = <<lcm, Cut(lcm, p)>>
      <4>1. list = <<lcm, Cut(lcm, IF q = 0 THEN p ELSE q)>>
        BY <1>21, <3>1, Zenon
      <4> QED BY <3>1, <4>1
    <3> QED BY <1>25, <1>26, <2>2, <3>1, <3>2
  <2>3. ASSUME country = <<>>, modifier # <<>> PROVE list = <<l \o m, l>>
    <3>1. p = 0 /\ q = Len(lc) /\ q # 0
      BY <1>11, <1>22, <1>30, <2>3
    <3>2. list = <<lcm, Cut(lcm, q)>>
      <4>1. list = <<lcm, Cut(lcm, IF q = 0 THEN p ELSE q)>>
        BY <1>21, <3>1, Zenon
      <4> QED BY <3>1, <4>1
    <3>3. list = <<lc \o m, l>>
      BY <1>24, <1>26, <2>3, <3>1, <3>2 DEF lcm
    <3> QED BY <1>26, <2>3, <3>3, SMTT(30)
  <2>4. ASSUME country # <<>>, modifier # <<>> PROVE list = <<lcm, lc, l \o m, l>>
    <3>1. p = Len(l) /\ q = Len(lc) /\ q # 0 /\ p # 0
      BY <1>11, <1>22, <1>30, <2>4
    <3>2. list = <<lcm, Cut(lcm, q), Cut(lcm, p) \o Rest(lcm, q), Cut(lcm, p)>>
      BY <1>21, <3>1, Zenon
    <3> QED BY <1>24, <1>25, <3>1, <3>2
  <2> QED BY <2>1, <2>2, <2>3, <2>4
<1> QED
  BY <1>27, <1>28, <1>29, <1>30 DEF list, lc, lcm, l, c, m, us, at, country, modifier

-----------------------------------------------------------------------------
(* The order of the locales *)

IndexOf(seq, x) ==
    LET those == {i \in 1 .. Len(seq) : seq[i] = x}
    IN  IF those # {} THEN Min(those) ELSE 0

LEMMA IndexIs ==
    ASSUME NEW seq, Len(seq) \in Nat, NEW x
    PROVE  /\ IndexOf(seq, x) \in 0 .. Len(seq)
           /\ IndexOf(seq, x) = 0 => \A j \in 1 .. Len(seq) : seq[j] # x
           /\ IndexOf(seq, x) # 0 =>
                 seq[IndexOf(seq, x)] = x /\ \A j \in 1 .. IndexOf(seq, x) - 1 : seq[j] # x
<1> DEFINE those == {i \in 1 .. Len(seq) : seq[i] = x}
           k == IndexOf(seq, x)
<1>1. k = IF those # {} THEN Min(those) ELSE 0
  BY DEF IndexOf
<1> HIDE DEF k
<1>2. CASE those = {}
  BY <1>1, <1>2 DEF k
<1>3. CASE those # {}
  <2>1. those \in SUBSET Nat
    OBVIOUS
  <2>2. PICK r \in those : \A q \in those : r <= q
    <3> HIDE DEF those
    <3> QED BY <1>3, <2>1, LeastExists
  <2>3. Min(those) = r
    <3> HIDE DEF those
    <3> QED BY <2>1, <2>2, LeastIs
  <2>4. k = r
    BY <1>1, <1>3, <2>3
  <2>5. r \in 1 .. Len(seq) /\ seq[r] = x
    OBVIOUS
  <2>6. ASSUME NEW j \in 1 .. r - 1, seq[j] = x PROVE FALSE
    <3>1. j \in 1 .. Len(seq) /\ j < r
      BY <2>5
    <3>2. j \in those
      BY <2>6, <3>1
    <3> HIDE DEF those
    <3> QED BY <2>2, <2>5, <3>1, <3>2
  <2> QED BY <2>4, <2>5, <2>6 DEF k
<1> QED
  BY <1>2, <1>3

LocaleChars == Chars \cup {"_", ".", "@"}

LEMMA LocaleParts ==
    ASSUME in \in Inputs
    PROVE  /\ in.locale.lang \in Seq(LocaleChars)
           /\ Marked("_", in.locale.country) \in Seq(LocaleChars)
           /\ Marked("@", in.locale.modifier) \in Seq(LocaleChars)
<1> DEFINE us == "_"
           at == "@"
<1>1. IsLocale(in.locale)
  BY InputsAssumption
<1>2. in.locale.lang \in String /\ in.locale.country \in String /\ in.locale.modifier \in String
  BY <1>1 DEF IsLocale
<1>3. \A s \in String : s \in Seq(LocaleChars)
  <2>1. Chars \subseteq LocaleChars
    BY DEF LocaleChars
  <2> QED BY <2>1 DEF String
<1>4. us \in LocaleChars /\ at \in LocaleChars
  BY DEF LocaleChars
<1> HIDE DEF us, at
<1>5. /\ Marked(us, in.locale.country) \in Seq(LocaleChars)
      /\ Marked(at, in.locale.modifier) \in Seq(LocaleChars)
  BY <1>2, <1>3, <1>4, MarkedIs
<1> QED
  BY <1>2, <1>3, <1>5 DEF us, at

LEMMA PreferenceIs ==
    ASSUME in \in Inputs, NEW x
    PROVE  LET l == in.locale.lang
               c == Marked("_", in.locale.country)
               m == Marked("@", in.locale.modifier)
           IN  Preference(x) = IndexOf(<<(l \o c) \o m, l \o c, l \o m, l, <<>> >>, x)
<1> DEFINE T == LocaleChars
           l == in.locale.lang
           c == Marked("_", in.locale.country)
           m == Marked("@", in.locale.modifier)
           tags == <<(l \o c) \o m, (l \o c) \o <<>>, (l \o <<>>) \o m, (l \o <<>>) \o <<>>, <<>> >>
<1>1. l \in Seq(T) /\ c \in Seq(T) /\ m \in Seq(T)
  BY LocaleParts
<1>2. Preference(x) = IndexOf(tags, x)
  BY DEF Preference, SelectInSeq, IndexOf, Marked
<1> HIDE DEF T, l, c, m
<1>3. l \o c \in Seq(T)
  BY <1>1, ConcatIs
<1>4. (l \o c) \o <<>> = l \o c /\ l \o <<>> = l
  BY <1>1, <1>3, ConcatEmptySeq
<1>5. tags = <<(l \o c) \o m, l \o c, l \o m, l, <<>> >>
  BY <1>4
<1> HIDE DEF tags
<1>6. Preference(x) = IndexOf(<<(l \o c) \o m, l \o c, l \o m, l, <<>> >>, x)
  BY <1>2, <1>5
<1> QED
  BY <1>6 DEF l, c, m

\* How the constructor rates a locale
Rating(x) == IF x = <<>> THEN 4 ELSE match(LocaleSuffixes(Locale), x)

LEMMA RatingIs ==
    ASSUME NEW x
    PROVE  Rating(x) = IF x = <<>> THEN 4 ELSE IndexOf(LocaleSuffixes(Locale), x) - 1
BY DEF Rating, match, SelectInSeq, IndexOf

LEMMA FourSuffixes ==
    ASSUME NEW a, NEW b, NEW c, NEW d, NEW none, none \notin {a, b, c, d}, NEW x
    PROVE  LET k == IndexOf(<<a, b, c, d>>, x)
               p == IndexOf(<<a, b, c, d, none>>, x)
           IN  k \in 0 .. 4 /\ p = IF x = none THEN 5 ELSE k
<1> DEFINE s == <<a, b, c, d>>
           t == <<a, b, c, d, none>>
           k == IndexOf(s, x)
           p == IndexOf(t, x)
<1>1. Len(s) = 4 /\ s[1] = a /\ s[2] = b /\ s[3] = c /\ s[4] = d
  OBVIOUS
<1>2. Len(t) = 5 /\ t[1] = a /\ t[2] = b /\ t[3] = c /\ t[4] = d /\ t[5] = none
  OBVIOUS
<1> HIDE DEF s, t
<1>3. /\ k \in 0 .. 4
      /\ k = 0 => \A j \in 1 .. 4 : s[j] # x
      /\ k # 0 => s[k] = x /\ \A j \in 1 .. k - 1 : s[j] # x
  BY <1>1, IndexIs
<1>4. /\ p \in 0 .. 5
      /\ p = 0 => \A j \in 1 .. 5 : t[j] # x
      /\ p # 0 => t[p] = x /\ \A j \in 1 .. p - 1 : t[j] # x
  BY <1>2, IndexIs
<1> HIDE DEF k, p
<1>5. \A j \in 1 .. 4 : s[j] = t[j] /\ s[j] # none
  BY <1>1, <1>2
<1>6. CASE x = none
  BY <1>2, <1>3, <1>4, <1>5, <1>6 DEF k, p, s, t
<1>7. CASE x # none
  <2>1. p # 5
    BY <1>2, <1>4, <1>7
  <2>2. k = p
    BY <1>3, <1>4, <1>5, <2>1
  <2> QED BY <1>3, <1>7, <2>2 DEF k, p, s, t
<1> QED
  BY <1>6, <1>7

LEMMA CountrySuffixes ==
    ASSUME NEW a, NEW d, NEW none, none \notin {a, d}, NEW x
    PROVE  LET k == IndexOf(<<a, d>>, x)
               p == IndexOf(<<a, a, d, d, none>>, x)
           IN  k \in 0 .. 2 /\ p = IF x = none THEN 5 ELSE IF k = 2 THEN 3 ELSE k
<1> DEFINE s == <<a, d>>
           t == <<a, a, d, d, none>>
           k == IndexOf(s, x)
           p == IndexOf(t, x)
<1>1. Len(s) = 2 /\ s[1] = a /\ s[2] = d
  OBVIOUS
<1>2. Len(t) = 5 /\ t[1] = a /\ t[2] = a /\ t[3] = d /\ t[4] = d /\ t[5] = none
  OBVIOUS
<1> HIDE DEF s, t
<1>3. /\ k \in 0 .. 2
      /\ k = 0 => \A j \in 1 .. 2 : s[j] # x
      /\ k # 0 => s[k] = x /\ \A j \in 1 .. k - 1 : s[j] # x
  BY <1>1, IndexIs
<1>4. /\ p \in 0 .. 5
      /\ p = 0 => \A j \in 1 .. 5 : t[j] # x
      /\ p # 0 => t[p] = x /\ \A j \in 1 .. p - 1 : t[j] # x
  BY <1>2, IndexIs
<1> HIDE DEF k, p
<1>5. CASE x = none
  <2>1. p = 5
    BY <1>2, <1>4, <1>5
  <2> QED BY <1>3, <1>5, <2>1 DEF k, p, s, t
<1>6. CASE x = a
  <2>1. k = 1
    BY <1>1, <1>3, <1>6
  <2>2. p = 1
    BY <1>2, <1>4, <1>6
  <2> QED BY <1>6, <2>1, <2>2 DEF k, p, s, t
<1>7. CASE x = d /\ x # a
  <2>1. k = 2
    BY <1>1, <1>3, <1>7
  <2>2. p = 3
    BY <1>2, <1>4, <1>7
  <2> QED BY <1>7, <2>1, <2>2 DEF k, p, s, t
<1>8. CASE x # a /\ x # d /\ x # none
  <2>1. k = 0
    BY <1>1, <1>3, <1>8
  <2>2. p = 0
    BY <1>2, <1>4, <1>8
  <2> QED BY <1>8, <2>1, <2>2 DEF k, p, s, t
<1> QED
  BY <1>5, <1>6, <1>7, <1>8

LEMMA ModifierSuffixes ==
    ASSUME NEW a, NEW d, NEW none, none \notin {a, d}, NEW x
    PROVE  LET k == IndexOf(<<a, d>>, x)
               p == IndexOf(<<a, d, a, d, none>>, x)
           IN  k \in 0 .. 2 /\ p = IF x = none THEN 5 ELSE k
<1> DEFINE s == <<a, d>>
           t == <<a, d, a, d, none>>
           k == IndexOf(s, x)
           p == IndexOf(t, x)
<1>1. Len(s) = 2 /\ s[1] = a /\ s[2] = d
  OBVIOUS
<1>2. Len(t) = 5 /\ t[1] = a /\ t[2] = d /\ t[3] = a /\ t[4] = d /\ t[5] = none
  OBVIOUS
<1> HIDE DEF s, t
<1>3. /\ k \in 0 .. 2
      /\ k = 0 => \A j \in 1 .. 2 : s[j] # x
      /\ k # 0 => s[k] = x /\ \A j \in 1 .. k - 1 : s[j] # x
  BY <1>1, IndexIs
<1>4. /\ p \in 0 .. 5
      /\ p = 0 => \A j \in 1 .. 5 : t[j] # x
      /\ p # 0 => t[p] = x /\ \A j \in 1 .. p - 1 : t[j] # x
  BY <1>2, IndexIs
<1> HIDE DEF k, p
<1>5. CASE x = none
  <2>1. p = 5
    BY <1>2, <1>4, <1>5
  <2> QED BY <1>3, <1>5, <2>1 DEF k, p, s, t
<1>6. CASE x = a
  <2>1. k = 1
    BY <1>1, <1>3, <1>6
  <2>2. p = 1
    BY <1>2, <1>4, <1>6
  <2> QED BY <1>6, <2>1, <2>2 DEF k, p, s, t
<1>7. CASE x = d /\ x # a
  <2>1. k = 2
    BY <1>1, <1>3, <1>7
  <2>2. p = 2
    BY <1>2, <1>4, <1>7
  <2> QED BY <1>7, <2>1, <2>2 DEF k, p, s, t
<1>8. CASE x # a /\ x # d /\ x # none
  <2>1. k = 0
    BY <1>1, <1>3, <1>8
  <2>2. p = 0
    BY <1>2, <1>4, <1>8
  <2> QED BY <1>8, <2>1, <2>2 DEF k, p, s, t
<1> QED
  BY <1>5, <1>6, <1>7, <1>8

LEMMA OneSuffix ==
    ASSUME NEW d, NEW none, none # d, NEW x
    PROVE  LET k == IndexOf(<<d>>, x)
               p == IndexOf(<<d, d, d, d, none>>, x)
           IN  k \in 0 .. 1 /\ p = IF x = none THEN 5 ELSE k
<1> DEFINE s == <<d>>
           t == <<d, d, d, d, none>>
           k == IndexOf(s, x)
           p == IndexOf(t, x)
<1>1. Len(s) = 1 /\ s[1] = d
  OBVIOUS
<1>2. Len(t) = 5 /\ t[1] = d /\ t[2] = d /\ t[3] = d /\ t[4] = d /\ t[5] = none
  OBVIOUS
<1> HIDE DEF s, t
<1>3. /\ k \in 0 .. 1
      /\ k = 0 => \A j \in 1 .. 1 : s[j] # x
      /\ k # 0 => s[k] = x /\ \A j \in 1 .. k - 1 : s[j] # x
  BY <1>1, IndexIs
<1>4. /\ p \in 0 .. 5
      /\ p = 0 => \A j \in 1 .. 5 : t[j] # x
      /\ p # 0 => t[p] = x /\ \A j \in 1 .. p - 1 : t[j] # x
  BY <1>2, IndexIs
<1> HIDE DEF k, p
<1>5. CASE x = none
  <2>1. p = 5
    BY <1>2, <1>4, <1>5
  <2> QED BY <1>3, <1>5, <2>1 DEF k, p, s, t
<1>6. CASE x = d
  <2>1. k = 1
    BY <1>1, <1>3, <1>6
  <2>2. p = 1
    BY <1>2, <1>4, <1>6
  <2> QED BY <1>6, <2>1, <2>2 DEF k, p, s, t
<1>7. CASE x # d /\ x # none
  <2>1. k = 0
    BY <1>1, <1>3, <1>7
  <2>2. p = 0
    BY <1>2, <1>4, <1>7
  <2> QED BY <1>7, <2>1, <2>2 DEF k, p, s, t
<1> QED
  BY <1>5, <1>6, <1>7

\* Where the two locales for the user's country are in the list of suffixes, and in
\* that of the locales to try
LEMMA CountryFirst ==
    ASSUME NEW a, NEW b, NEW c, NEW d, NEW none, none \notin {a, b, c, d}, NEW list,
           \/ a = b /\ \E u : list \in {<<a>>, <<a, u>>}
           \/ \E u, v : list \in {<<a, b>>, <<a, b, u, v>>},
           NEW x
    PROVE  LET k == IndexOf(list, x)
               p == IndexOf(<<a, b, c, d, none>>, x)
           IN  /\ k \in 0 .. 4 /\ p \in 0 .. 5
               /\ p = 1 <=> k = 1
               /\ p = 2 => k = 2
               /\ a # b /\ k = 2 => p = 2
               /\ a = b => p # 2
               /\ p \in 1 .. 2 => x # none
<1> DEFINE t == <<a, b, c, d, none>>
           k == IndexOf(list, x)
           p == IndexOf(t, x)
<1>1. /\ Len(list) \in 1 .. 4 /\ list[1] = a
      /\ a # b => Len(list) >= 2 /\ list[2] = b
  OBVIOUS
<1>2. Len(t) = 5 /\ t[1] = a /\ t[2] = b /\ t[3] = c /\ t[4] = d /\ t[5] = none
  OBVIOUS
<1> HIDE DEF t
<1>3. /\ k \in 0 .. Len(list)
      /\ k = 0 => \A j \in 1 .. Len(list) : list[j] # x
      /\ k # 0 => list[k] = x /\ \A j \in 1 .. k - 1 : list[j] # x
  BY <1>1, IndexIs
<1>4. /\ p \in 0 .. 5
      /\ p = 0 => \A j \in 1 .. 5 : t[j] # x
      /\ p # 0 => t[p] = x /\ \A j \in 1 .. p - 1 : t[j] # x
  <2>1. Len(t) \in Nat
    BY <1>2
  <2>2. /\ p \in 0 .. Len(t)
        /\ p = 0 => \A j \in 1 .. Len(t) : t[j] # x
        /\ p # 0 => t[p] = x /\ \A j \in 1 .. p - 1 : t[j] # x
    BY <2>1, IndexIs
  <2> QED BY <1>2, <2>2
<1> HIDE DEF k, p
<1>5. p \in 1 .. 2 => x # none
  BY <1>2, <1>4
<1>6. (k = 1 <=> x = a) /\ (p = 1 <=> x = a) /\ k \in 0 .. 4
  BY <1>1, <1>2, <1>3, <1>4, SMTT(30)
<1>7. p = 2 <=> x = b /\ a # b
  BY <1>2, <1>4
<1>8. a # b => (k = 2 <=> x = b)
  BY <1>1, <1>3
<1>9. (p = 2 => k = 2) /\ (a # b /\ k = 2 => p = 2) /\ (a = b => p # 2)
  BY <1>7, <1>8
<1> QED
  BY <1>4, <1>5, <1>6, <1>9, SMTT(30) DEF k, p, t

\* Whatever the encoding is, a locale for the user's country is rated as it is
\* preferred, and nothing better than it but another one.
LEMMA CountryPreferred ==
    ASSUME in \in Inputs, NEW x, NEW y
    PROVE  /\ Rating(x) \in -1 .. 4 /\ Preference(x) \in 0 .. 5
           /\ Preference(x) \in 1 .. 2 => Rating(x) # -1
           /\ Preference(x) \in 1 .. 2 /\ Rating(y) # -1 /\ Rating(y) <= Rating(x) =>
                 Preference(y) \in 1 .. 2 /\ Preference(y) <= Preference(x)
           /\ Preference(x) \in 1 .. 2 /\ Preference(y) \in 1 .. 2 /\ Preference(y) <= Preference(x) =>
                 Rating(y) <= Rating(x)
<1> DEFINE l == in.locale.lang
           c == Marked("_", in.locale.country)
           m == Marked("@", in.locale.modifier)
           lc == l \o c
           lm == l \o m
           lcm == lc \o m
           none == <<>>
           modifier == in.locale.modifier
           list == LocaleSuffixes(Locale)
           k(z) == IndexOf(list, z)
           r(z) == Rating(z)
           p(z) == Preference(z)
<1>1. /\ none \notin {l, lc, lm, lcm}
      /\ modifier = none => \E u : list \in {<<lcm>>, <<lcm, u>>}
      /\ modifier # none => \E u, v : list \in {<<lcm, lc>>, <<lcm, lc, u, v>>}
  BY SuffixesAre
<1>2. \A z : p(z) = IndexOf(<<lcm, lc, lm, l, none>>, z)
  BY PreferenceIs
<1>3. \A z : r(z) = IF z = none THEN 4 ELSE k(z) - 1
  BY RatingIs
<1>4. modifier = none => lcm = lc
  <2>1. l \in Seq(LocaleChars) /\ c \in Seq(LocaleChars)
    BY LocaleParts
  <2>2. modifier = none => m = none
    BY DEF Marked
  <2> HIDE DEF l, c, m
  <2>3. lc \in Seq(LocaleChars)
    BY <2>1, ConcatIs
  <2>4. lc \o none = lc
    BY <2>3, ConcatEmptySeq
  <2> QED BY <2>2, <2>4
<1> HIDE DEF l, lc, lm, lcm, none, modifier, list, r, p
<1>5. \/ lcm = lc /\ \E u : list \in {<<lcm>>, <<lcm, u>>}
      \/ \E u, v : list \in {<<lcm, lc>>, <<lcm, lc, u, v>>}
  BY <1>1, <1>4
<1>6. ASSUME NEW z
      PROVE  /\ k(z) \in 0 .. 4 /\ p(z) \in 0 .. 5
             /\ p(z) = 1 <=> k(z) = 1
             /\ p(z) = 2 => k(z) = 2
             /\ lcm # lc /\ k(z) = 2 => p(z) = 2
             /\ lcm = lc => p(z) # 2
             /\ p(z) \in 1 .. 2 => z # none
  <2>1. none \notin {lcm, lc, lm, l}
    BY <1>1
  <2> QED BY <1>2, <1>5, <2>1, CountryFirst
<1> HIDE DEF k
<1>7. \A z : /\ r(z) \in -1 .. 4
             /\ p(z) = 1 => r(z) = 0
             /\ p(z) = 2 => r(z) = 1 /\ lcm # lc
             /\ r(z) = 0 => p(z) = 1
             /\ r(z) = 1 /\ lcm # lc => p(z) = 2
  BY <1>3, <1>6
<1> QED
  BY <1>6, <1>7, SMTT(30) DEF r, p

\* What is rated better is preferred.
LEMMA Preferred ==
    ASSUME in \in Inputs, PlainEncoding, NEW x, NEW y
    PROVE  /\ Rating(x) \in -1 .. 4 /\ Preference(x) \in 0 .. 5
           /\ Rating(x) = -1 <=> Preference(x) = 0
           /\ x = <<>> => Rating(x) = 4
           /\ x # <<>> => Rating(x) < 4
           /\ Rating(x) # -1 /\ Rating(y) # -1 =>
                (Rating(x) <= Rating(y) <=> Preference(x) <= Preference(y))
<1> DEFINE l == in.locale.lang
           c == Marked("_", in.locale.country)
           m == Marked("@", in.locale.modifier)
           lc == l \o c
           lm == l \o m
           lcm == lc \o m
           none == <<>>
           country == in.locale.country
           modifier == in.locale.modifier
           list == LocaleSuffixes(Locale)
           k(z) == IndexOf(list, z)
           r(z) == Rating(z)
           p(z) == Preference(z)
<1>1. /\ none \notin {l, lc, lm, lcm}
      /\ country = none /\ modifier = none => list = <<l>>
      /\ country # none /\ modifier = none => list = <<lc, l>>
      /\ country = none /\ modifier # none => list = <<lm, l>>
      /\ country # none /\ modifier # none => list = <<lcm, lc, lm, l>>
  BY SuffixesAre
<1>2. \A z : p(z) = IndexOf(<<lcm, lc, lm, l, none>>, z)
  BY PreferenceIs
<1>3. \A z : r(z) = IF z = none THEN 4 ELSE k(z) - 1
  BY RatingIs
<1>4. /\ country = none => lc = l /\ lcm = lm
      /\ modifier = none => lm = l /\ lcm = lc
  <2>1. l \in Seq(LocaleChars) /\ c \in Seq(LocaleChars)
    BY LocaleParts
  <2>2. (country = none => c = none) /\ (modifier = none => m = none)
    BY DEF Marked
  <2> HIDE DEF l, c, m
  <2>3. lc \in Seq(LocaleChars)
    BY <2>1, ConcatIs
  <2>4. l \o none = l /\ lc \o none = lc
    BY <2>1, <2>3, ConcatEmptySeq
  <2> QED BY <2>2, <2>4
<1> HIDE DEF l, lc, lm, lcm, none, country, modifier, list, r, p
<1>5. \/ \A z : /\ k(z) \in 0 .. 4
                /\ p(z) = IF z = none THEN 5 ELSE k(z)
      \/ \A z : /\ k(z) \in 0 .. 2
                /\ p(z) = IF z = none THEN 5 ELSE IF k(z) = 2 THEN 3 ELSE k(z)
  <2>1. CASE country # none /\ modifier # none
    <3>1. list = <<lcm, lc, lm, l>>
      BY <1>1, <2>1
    <3>2. ASSUME NEW z PROVE k(z) \in 0 .. 4 /\ p(z) = IF z = none THEN 5 ELSE k(z)
      BY <1>1, <1>2, <3>1, FourSuffixes
    <3> QED BY <3>2
  <2>2. CASE country # none /\ modifier = none
    <3>1. list = <<lc, l>> /\ \A z : p(z) = IndexOf(<<lc, lc, l, l, none>>, z)
      BY <1>1, <1>2, <1>4, <2>2
    <3>2. ASSUME NEW z
          PROVE  k(z) \in 0 .. 2 /\ p(z) = IF z = none THEN 5 ELSE IF k(z) = 2 THEN 3 ELSE k(z)
      BY <1>1, <3>1, CountrySuffixes
    <3> QED BY <3>2
  <2>3. CASE country = none /\ modifier # none
    <3>1. list = <<lm, l>> /\ \A z : p(z) = IndexOf(<<lm, l, lm, l, none>>, z)
      BY <1>1, <1>2, <1>4, <2>3
    <3>2. ASSUME NEW z PROVE k(z) \in 0 .. 2 /\ p(z) = IF z = none THEN 5 ELSE k(z)
      BY <1>1, <3>1, ModifierSuffixes
    <3>3. ASSUME NEW z PROVE k(z) \in 0 .. 4 /\ p(z) = IF z = none THEN 5 ELSE k(z)
      <4> HIDE DEF k
      <4> QED BY <3>2
    <3> QED BY <3>3
  <2>4. CASE country = none /\ modifier = none
    <3>1. list = <<l>> /\ \A z : p(z) = IndexOf(<<l, l, l, l, none>>, z)
      BY <1>1, <1>2, <1>4, <2>4
    <3>2. ASSUME NEW z PROVE k(z) \in 0 .. 1 /\ p(z) = IF z = none THEN 5 ELSE k(z)
      BY <1>1, <3>1, OneSuffix
    <3>3. ASSUME NEW z PROVE k(z) \in 0 .. 4 /\ p(z) = IF z = none THEN 5 ELSE k(z)
      <4> HIDE DEF k
      <4> QED BY <3>2
    <3> QED BY <3>3
  <2> QED BY <2>1, <2>2, <2>3, <2>4
<1> HIDE DEF k
<1>6. \A z : /\ r(z) \in -1 .. 4 /\ p(z) \in 0 .. 5
             /\ r(z) = -1 <=> p(z) = 0
             /\ z = none => r(z) = 4
             /\ z # none => r(z) < 4
  BY <1>3, <1>5
<1>7. r(x) # -1 /\ r(y) # -1 => (r(x) <= r(y) <=> p(x) <= p(y))
  BY <1>3, <1>5
<1> QED
  BY <1>6, <1>7, SMTT(30) DEF r, p, none

-----------------------------------------------------------------------------
(* The name of an application *)

NameKeys == {"Name", "GenericName"}

LEMMA RatingOf ==
    ASSUME NEW line
    PROVE  MatchOf(line, LocaleSuffixes(Locale)) = Rating(line.locale)
BY DEF MatchOf, Rating

\* The value of a line replaces the one before if its locale is rated no worse.
LEMMA BetterIs ==
    ASSUME in \in Inputs, NEW line, NEW field
    PROVE  LET r == Rating(line.locale)
               better == Better(field, line, LocaleSuffixes(Locale))
           IN  /\ field.match = -1 => (better <=> r # -1)
               /\ field.match \in 0 .. 4 => (better <=> r # -1 /\ r <= field.match)
<1> DEFINE r == Rating(line.locale)
           suffixes == LocaleSuffixes(Locale)
           better == Better(field, line, suffixes)
<1>1. r \in -1 .. 4
  BY CountryPreferred
<1>2. CASE line.locale = <<>>
  <2>1. r = 4
    BY <1>2 DEF Rating
  <2>2. better <=> field.match \in {-1, 4}
    BY <1>2 DEF Better
  <2> HIDE DEF r, better
  <2> QED BY <2>1, <2>2 DEF r, better
<1>3. CASE line.locale # <<>>
  <2>1. r = match(suffixes, line.locale)
    BY <1>3 DEF Rating
  <2>2. better <=> r # -1 /\ (r <= field.match \/ field.match = -1)
    BY <1>3, <2>1 DEF Better
  <2> HIDE DEF r, better
  <2> QED BY <1>1, <2>2 DEF r, better
<1> QED
  BY <1>2, <1>3

\* What a pair makes of a name
LEMMA PairNames ==
    ASSUME NEW L, NEW line \in FileLines, NEW suffixes, NEW envs, NEW s \in ReadStates(L, suffixes),
           NEW key \in NameKeys, KeyValue(s, line, suffixes, envs).status = "reading"
    PROVE  KeyValue(s, line, suffixes, envs)[key]
              = IF line.key = key /\ Better(s[key], line, suffixes)
                THEN FieldOf(MatchOf(line, suffixes), line) ELSE s[key]
<1> DEFINE r == KeyValue(s, line, suffixes, envs)
           field == KeyOf(s, line, suffixes)
           w == WithKey(s, line, suffixes)
<1>1. Failed(s).status = "invalid" /\ Hides(s).status = "disabled"
  BY DEF Failed, Hides, ReadStates
<1>2. CASE line.key \in NameKeys
  <2>1. r = IF field.thrown THEN Failed(s) ELSE w
    BY <1>2, KeyValueIs DEF NameKeys
  <2> HIDE DEF w, field
  <2>2. r = w
    BY <1>1, <2>1
  <2>3. w[key] = IF line.key = key THEN field ELSE s[key]
    <3> DEFINE k == line.key
               v == [s EXCEPT ![k] = field]
    <3>1. w = v
      BY Zenon DEF w, WithKey, field
    <3> HIDE DEF k
    <3>2. key \in NameKeys /\ k \in NameKeys
      BY <1>2 DEF k
    <3>3. v[key] = IF k = key THEN field ELSE s[key]
      BY <3>2 DEF ReadStates, NameKeys
    <3> QED BY <3>1, <3>3 DEF k
  <2>4. line.key = key => field = IF Better(s[key], line, suffixes)
                                  THEN FieldOf(MatchOf(line, suffixes), line) ELSE s[key]
    BY ParsedIs DEF field, KeyOf
  <2> HIDE DEF r
  <2> QED BY <2>2, <2>3, <2>4 DEF r
<1>3. CASE line.key \notin NameKeys
  <2>1. \/ line.key = "Exec" \/ line.key = "Path" \/ line.key \in Lists
        \/ line.key \in {"Hidden", "NoDisplay"} \/ line.key \notin OtherKeys
    BY <1>3 DEF OtherKeys, NameKeys
  <2>2. \/ r = Failed(s) \/ r = Hides(s) \/ r = s \/ r = WithExec(s, line)
    BY <2>1, KeyValueIs
  <2>3. WithExec(s, line)[key] = s[key]
    <3> DEFINE text == expand(line.value).text
               v == [s EXCEPT !.exec = text]
    <3>1. WithExec(s, line) = v
      BY Zenon DEF WithExec
    <3> HIDE DEF text
    <3>2. v[key] = s[key]
      BY DEF ReadStates, NameKeys
    <3> QED BY <3>1, <3>2
  <2> HIDE DEF r
  <2>4. r.status = "reading"
    BY DEF r
  <2>5. r[key] = s[key]
    BY <1>1, <2>2, <2>3, <2>4
  <2> QED BY <1>3, <2>5 DEF r
<1> QED
  BY <1>2, <1>3

\* A line that may give the name, and whether line b does better than line j
Candidate(line, key) == line.kind = "pair" /\ line.key = key /\ Rating(line.locale) # -1
Outdoes(lines, b, j) ==
    /\ Rating(lines[b].locale) <= Rating(lines[j].locale)
    /\ Rating(lines[b].locale) = Rating(lines[j].locale) => j <= b

\* The field holds the last of the best values behind line h up to line n.
Told(field, lines, key, h, n) ==
    \/ field = NoField /\ \A j \in h + 1 .. n : ~Candidate(lines[j], key)
    \/ \E b \in h + 1 .. n :
         /\ Candidate(lines[b], key) /\ field = FieldOf(Rating(lines[b].locale), lines[b])
         /\ \A j \in h + 1 .. n : Candidate(lines[j], key) => Outdoes(lines, b, j)

LEMMA ToldOn ==
    ASSUME in \in Inputs, NEW lines, NEW key, NEW h \in Nat, NEW n \in Nat, h < n,
           NEW old, NEW new, Told(old, lines, key, h, n - 1),
           \/ new = old /\ ~Candidate(lines[n], key)
           \/ /\ lines[n].kind = "pair" /\ lines[n].key = key
              /\ new = IF Better(old, lines[n], LocaleSuffixes(Locale))
                       THEN FieldOf(Rating(lines[n].locale), lines[n]) ELSE old
    PROVE  Told(new, lines, key, h, n)
<1> DEFINE line == lines[n]
           r(j) == Rating(lines[j].locale)
           cand(j) == Candidate(lines[j], key)
           better == Better(old, line, LocaleSuffixes(Locale))
<1>1. \A j \in h + 1 .. n : j = n \/ j \in h + 1 .. n - 1
  OBVIOUS
<1>2. n \in h + 1 .. n /\ \A j \in h + 1 .. n - 1 : j \in h + 1 .. n /\ j < n /\ j \in Nat
  OBVIOUS
<1>3. \A j : r(j) \in -1 .. 4
  BY CountryPreferred
<1>4. \A m : FieldOf(m, line).match = m
  BY Zenon DEF FieldOf
<1>5. NoField.match = -1
  BY DEF NoField
<1>6. /\ old.match = -1 => (better <=> r(n) # -1)
      /\ old.match \in 0 .. 4 => (better <=> r(n) # -1 /\ r(n) <= old.match)
  BY BetterIs
<1>7. \/ new = old /\ ~cand(n)
      \/ new = old /\ ~better /\ lines[n].kind = "pair" /\ lines[n].key = key
      \/ new = FieldOf(r(n), lines[n]) /\ better /\ lines[n].kind = "pair" /\ lines[n].key = key
  OBVIOUS
<1>8. cand(n) <=> lines[n].kind = "pair" /\ lines[n].key = key /\ r(n) # -1
  BY DEF Candidate
<1>9. \A b, j : Outdoes(lines, b, j) <=> r(b) <= r(j) /\ (r(b) = r(j) => j <= b)
  BY DEF Outdoes
<1>10. \A j \in h + 1 .. n - 1 : cand(j) => r(j) # -1
  BY DEF Candidate
<1>11. CASE old = NoField /\ \A j \in h + 1 .. n - 1 : ~cand(j)
  <2>1. CASE cand(n)
    <3>1. better
      BY <1>5, <1>6, <1>8, <1>11, <2>1
    <3>2. new = FieldOf(r(n), lines[n])
      BY <1>7, <2>1, <3>1
    <3>3. \A j \in h + 1 .. n : cand(j) => Outdoes(lines, n, j)
      <4> HIDE DEF r, cand
      <4>1. r(n) \in Int
        BY <1>3
      <4> QED BY <1>1, <1>9, <1>11, <4>1
    <3> HIDE DEF r, cand
    <3> QED BY <1>2, <2>1, <3>2, <3>3 DEF Told, cand, r
  <2>2. CASE ~cand(n)
    <3>1. new = old
      BY <1>5, <1>6, <1>7, <1>8, <1>11, <2>2
    <3> QED BY <1>1, <1>11, <2>2, <3>1 DEF Told
  <2> QED BY <2>1, <2>2
<1>12. ASSUME NEW b \in h + 1 .. n - 1, cand(b), old = FieldOf(r(b), lines[b]),
              \A j \in h + 1 .. n - 1 : cand(j) => Outdoes(lines, b, j)
       PROVE  Told(new, lines, key, h, n)
  <2>1. old.match = r(b)
    BY <1>12, Zenon DEF FieldOf
  <2>2. r(b) \in 0 .. 4 /\ r(n) \in -1 .. 4
    <3>1. r(b) # -1
      BY <1>10, <1>12
    <3> HIDE DEF r
    <3> QED BY <1>3, <3>1
  <2>3. better <=> r(n) # -1 /\ r(n) <= r(b)
    BY <1>6, <2>1, <2>2
  <2>4. b \in h + 1 .. n /\ b < n /\ b \in Nat
    BY <1>2
  <2>5. CASE cand(n) /\ r(n) <= r(b)
    <3>1. new = FieldOf(r(n), lines[n])
      BY <1>7, <1>8, <2>3, <2>5
    <3>2. ASSUME NEW j \in h + 1 .. n, cand(j) PROVE Outdoes(lines, n, j)
      <4>1. j = n \/ (j \in h + 1 .. n - 1 /\ Outdoes(lines, b, j))
        BY <1>1, <1>12, <3>2
      <4>2. j <= n /\ r(j) \in -1 .. 4
        BY <1>3
      <4> HIDE DEF r
      <4>3. CASE j = n
        BY <1>9, <2>2, <4>3
      <4>4. CASE j \in h + 1 .. n - 1 /\ Outdoes(lines, b, j)
        <5>1. r(b) <= r(j)
          BY <1>9, <4>4
        <5> QED BY <1>9, <2>2, <2>5, <4>2, <5>1
      <4> QED BY <4>1, <4>3, <4>4
    <3> QED BY <1>2, <2>5, <3>1, <3>2 DEF Told
  <2>6. CASE ~cand(n) \/ ~(r(n) <= r(b))
    <3>1. new = old
      BY <1>7, <1>8, <2>3, <2>6
    <3>2. ASSUME NEW j \in h + 1 .. n, cand(j) PROVE Outdoes(lines, b, j)
      <4>1. j = n \/ (j \in h + 1 .. n - 1 /\ Outdoes(lines, b, j))
        BY <1>1, <1>12, <3>2
      <4>2. CASE j = n
        <5>1. ~(r(n) <= r(b))
          BY <2>6, <3>2, <4>2
        <5> HIDE DEF r
        <5> QED BY <1>9, <2>2, <4>2, <5>1
      <4> QED BY <4>1, <4>2
    <3> QED BY <1>12, <2>4, <3>1, <3>2 DEF Told
  <2> QED BY <2>5, <2>6
<1> QED
  BY <1>11, <1>12 DEF Told

\* The group is read with the best value so far in each of the fields.
LEMMA NamesTold ==
    ASSUME in \in Inputs, NEW lines \in Seq(FileLines), NEW envs, NEW p,
           IsRead(p, lines, LocaleSuffixes(Locale), envs),
           NEW h \in Nat, NEW m \in Nat, InGroup(p, lines, h, m), NEW key \in NameKeys
    PROVE  Told(p[m][key], lines, key, h, m)
<1> DEFINE N == Len(lines)
           L == ToSet(lines)
           suffixes == LocaleSuffixes(Locale)
           S == {n \in 0 .. m : n >= h => Told(p[n][key], lines, key, h, n)}
<1>1. /\ N \in Nat /\ \A n \in 1 .. N : lines[n] \in FileLines
      /\ p \in [0 .. N -> ReadStates(L, suffixes)]
      /\ \A n \in 1 .. N : p[n] = ReadLine(p[n - 1], lines[n], suffixes, envs)
  BY LenProperties, ElementOfSeq DEF IsRead
<1>2. /\ h \in 1 .. m /\ m <= N
      /\ \A j \in h + 1 .. m : ~IsHeader(lines[j])
      /\ \A j \in h .. m : Reads(p[j])
      /\ SameNames(p[h], ReadStart)
  BY DEF InGroup, Group
<1> HIDE DEF N, L, suffixes
<1>3. 0 \in S
  BY <1>2
<1>4. ASSUME NEW n \in 1 .. m, n - 1 \in S PROVE n \in S
  <2>1. n \in 0 .. m /\ n \in 1 .. N /\ n - 1 \in 0 .. N /\ n \in Nat
    BY <1>1, <1>2
  <2>2. CASE n < h
    BY <2>1, <2>2
  <2>3. CASE n = h
    <3>1. p[n][key] = NoField
      <4>1. ReadStart.Name = NoField /\ ReadStart.GenericName = NoField
        BY Zenon DEF ReadStart
      <4>2. p[h].Name = NoField /\ p[h].GenericName = NoField
        BY <1>2, <4>1 DEF SameNames
      <4> QED BY <2>3, <4>2 DEF NameKeys
    <3>2. \A j \in h + 1 .. n : FALSE
      BY <2>1, <2>3
    <3> QED BY <2>1, <3>1, <3>2 DEF Told
  <2>4. CASE n > h
    <3> DEFINE s == p[n - 1]
               line == lines[n]
    <3>1. /\ s \in ReadStates(L, suffixes) /\ line \in FileLines
          /\ p[n] = ReadLine(s, line, suffixes, envs)
      BY <1>1, <2>1
    <3>2. Reads(s) /\ Reads(p[n]) /\ ~IsHeader(line)
      <4>1. n - 1 \in h .. m /\ n \in h .. m /\ n \in h + 1 .. m
        BY <2>1, <2>4
      <4> QED BY <1>2, <4>1
    <3>3. Told(s[key], lines, key, h, n - 1)
      <4>1. n - 1 >= h
        BY <2>1, <2>4
      <4> QED BY <1>4, <4>1
    <3> DEFINE old == s[key]
               new == p[n][key]
    <3>4. \/ new = old /\ ~Candidate(line, key)
          \/ /\ line.kind = "pair" /\ line.key = key
             /\ new = IF Better(old, line, suffixes) THEN FieldOf(Rating(line.locale), line) ELSE old
      <4> HIDE DEF s, line
      <4>1. line.kind \in {"comment", "header", "group", "pair", "malformed"}
        BY <3>1 DEF FileLines
      <4>2. CASE line.kind = "comment"
        <5>1. p[n] = s
          <6>1. line \in FileLines
            BY <3>1
          <6>2. ReadLine(s, line, suffixes, envs) = s
            BY <4>2, <6>1, ReadLineIs
          <6> QED BY <3>1, <6>2
        <5>2. ~Candidate(line, key)
          BY <4>2 DEF Candidate
        <5> QED BY <5>1, <5>2
      <4>3. CASE line.kind = "malformed"
        <5>1. p[n] = Failed(s)
          BY <3>1, <3>2, <4>3, ReadLineIs, SMTT(30) DEF Reads
        <5>2. Failed(s).status = "invalid"
          BY <3>1 DEF Failed, ReadStates
        <5> QED BY <3>2, <5>1, <5>2 DEF Reads
      <4>4. CASE line.kind = "pair"
        <5> DEFINE kv == KeyValue(s, line, suffixes, envs)
        <5>1. p[n] = kv
          <6>1. s.status = "reading" /\ s.parse_key_values
            BY <3>2 DEF Reads
          <6>2. line.kind = "pair" /\ line.kind # "comment" /\ line \in FileLines
            BY <3>1, <4>4
          <6>3. p[n] = KeyValue(s, line, suffixes, envs)
            BY <3>1, <6>1, <6>2, ReadLineIs
          <6> QED BY <6>3
        <5>2. kv.status = "reading"
          BY <3>2, <5>1 DEF Reads
        <5>3. kv[key] = IF line.key = key /\ Better(s[key], line, suffixes)
                        THEN FieldOf(MatchOf(line, suffixes), line) ELSE s[key]
          BY <3>1, <5>2, PairNames
        <5>4. MatchOf(line, suffixes) = Rating(line.locale)
          BY RatingOf DEF suffixes
        <5> HIDE DEF kv
        <5>5. new = IF line.key = key /\ Better(old, line, suffixes)
                    THEN FieldOf(Rating(line.locale), line) ELSE old
          BY <5>1, <5>3, <5>4
        <5>6. line.key # key => ~Candidate(line, key)
          BY DEF Candidate
        <5> HIDE DEF new, old
        <5> QED BY <4>4, <5>5, <5>6
      <4> QED BY <3>2, <4>1, <4>2, <4>3, <4>4 DEF IsHeader
    <3> HIDE DEF old, new
    <3>5. Told(new, lines, key, h, n)
      BY <2>1, <2>4, <3>3, <3>4, ToldOn DEF old, suffixes
    <3> QED BY <2>1, <3>5 DEF new
  <2> QED BY <2>1, <2>2, <2>3, <2>4
<1>5. 0 .. m \subseteq S
  <2> HIDE DEF S
  <2> QED BY <1>3, <1>4, BoundedInduction
<1>6. m \in 0 .. m /\ m >= h
  BY <1>2
<1> QED
  BY <1>5, <1>6

\* The best value of a file, of the lines of its group
LEMMA BestIs ==
    ASSUME in \in Inputs, NEW path \in DOMAIN in.files, NEW h \in Nat, NEW m \in Nat,
           Group(in.files[path].lines, h, m),
           m = Len(in.files[path].lines) \/ IsHeader(in.files[path].lines[m + 1]),
           NEW key, NEW field, Told(field, in.files[path].lines, key, h, m),
           PlainEncoding \/ ForCountry(path, key)
    PROVE  field.text = Best(path, key)
<1> DEFINE lines == in.files[path].lines
           pref(i) == Preference(lines[i].locale)
           r(i) == Rating(lines[i].locale)
           those == Values(path, key)
           best == {i \in those : \A j \in those : pref(i) <= pref(j)}
<1>1. lines \in Seq(FileLines) /\ Len(lines) \in Nat
  BY InputsAssumption, LenProperties
<1>2. Best(path, key) = IF best = {} THEN <<>> ELSE expand(lines[Max(best)].value).text
  BY Zenon DEF Best
<1>3. ASSUME NEW i PROVE i \in Entry(path) <=> i \in h + 1 .. m
  <2>1. h \in 1 .. m /\ m <= Len(lines)
    BY DEF Group
  <2>2. ASSUME i \in Entry(path) PROVE i \in h + 1 .. m
    <3>1. i \in Nat
      BY <1>1, <2>2, EntryIs
    <3>2. PICK g \in Nat : g < i /\ Group(lines, g, i)
      BY <1>1, <2>2, <3>1, EntryIs
    <3> HIDE DEF lines
    <3>3. Group(lines, h, m) /\ (m = Len(lines) \/ IsHeader(lines[m + 1]))
      BY DEF lines
    <3> QED BY <1>1, <3>1, <3>2, <3>3, SameGroup
  <2>3. ASSUME i \in h + 1 .. m PROVE i \in Entry(path)
    <3>1. i \in Nat /\ h < i /\ h \in 1 .. i /\ i <= Len(lines)
      BY <1>1, <2>1, <2>3
    <3>2. \A j \in h + 1 .. i : j \in h + 1 .. m
      BY <2>1, <2>3
    <3>3. Group(lines, h, i)
      BY <3>1, <3>2 DEF Group
    <3> QED BY <1>1, <3>1, <3>3, EntryIs
  <2> QED BY <2>2, <2>3
<1>4. \A i, j : /\ pref(i) \in 0 .. 5 /\ r(i) \in -1 .. 4
                /\ pref(i) \in 1 .. 2 => r(i) # -1
                /\ pref(i) \in 1 .. 2 /\ r(j) # -1 /\ r(j) <= r(i) =>
                      pref(j) \in 1 .. 2 /\ pref(j) <= pref(i)
                /\ pref(i) \in 1 .. 2 /\ pref(j) \in 1 .. 2 /\ pref(j) <= pref(i) => r(j) <= r(i)
  BY CountryPreferred
<1>5. PlainEncoding =>
         \A i, j : /\ r(i) = -1 <=> pref(i) = 0
                   /\ r(i) # -1 /\ r(j) # -1 => (r(i) <= r(j) <=> pref(i) <= pref(j))
  BY Preferred
<1>6. /\ \A i : Candidate(lines[i], key) <=> lines[i].kind = "pair" /\ lines[i].key = key /\ r(i) # -1
      /\ \A i : i \in those <=>
               i \in h + 1 .. m /\ lines[i].kind = "pair" /\ lines[i].key = key /\ pref(i) # 0
      /\ PlainEncoding \/ \E i \in those : pref(i) \in 1 .. 2
  BY <1>3, Zenon DEF Candidate, Values, ForCountry
<1>7. \/ field = NoField /\ \A j \in h + 1 .. m : ~Candidate(lines[j], key)
      \/ \E b \in h + 1 .. m :
           /\ Candidate(lines[b], key) /\ field = FieldOf(r(b), lines[b])
           /\ \A j \in h + 1 .. m : Candidate(lines[j], key) => Outdoes(lines, b, j)
  BY DEF Told
<1>8. \A b, j : Outdoes(lines, b, j) <=> r(b) <= r(j) /\ (r(b) = r(j) => j <= b)
  BY DEF Outdoes
<1>9. those \in SUBSET Nat /\ best \in SUBSET Nat
  BY <1>6 DEF best
<1>10. \A i : i \in best <=> i \in those /\ \A j \in those : pref(i) <= pref(j)
  OBVIOUS
<1> HIDE DEF those, pref, r, best
<1>11. CASE field = NoField /\ \A j \in h + 1 .. m : ~Candidate(lines[j], key)
  <2>1. those = {}
    <3>1. ASSUME NEW i \in those PROVE PlainEncoding /\ FALSE
      <4>1. r(i) = -1
        BY <1>6, <1>11
      <4>2. PlainEncoding \/ \E j \in those : pref(j) \in 1 .. 2 /\ r(j) = -1
        BY <1>6, <1>11
      <4>3. PlainEncoding
        BY <1>4, <4>2
      <4>4. pref(i) # 0
        BY <1>6
      <4> QED BY <1>5, <4>1, <4>3, <4>4
    <3> QED BY <3>1
  <2>2. best = {}
    BY <1>10, <2>1
  <2>3. NoField.text = <<>>
    BY Zenon DEF NoField
  <2> QED BY <1>2, <1>11, <2>2, <2>3
<1>12. ASSUME NEW b \in h + 1 .. m, Candidate(lines[b], key), field = FieldOf(r(b), lines[b]),
              \A j \in h + 1 .. m : Candidate(lines[j], key) => Outdoes(lines, b, j)
       PROVE  field.text = Best(path, key)
  <2>1. r(b) # -1 /\ lines[b].kind = "pair" /\ lines[b].key = key
    BY <1>6, <1>12
  <2>2. \A j \in those : r(j) # -1 => r(b) <= r(j) /\ (r(b) = r(j) => j <= b)
    BY <1>6, <1>8, <1>12
  <2>3. ASSUME NEW i \in those, pref(i) \in 1 .. 2 PROVE pref(b) \in 1 .. 2
    <3>1. r(i) # -1
      BY <1>4, <2>3
    <3>2. r(b) <= r(i)
      BY <2>2, <2>3, <3>1
    <3> QED BY <1>4, <2>1, <2>3, <3>2
  <2>4. PlainEncoding \/ pref(b) \in 1 .. 2
    BY <1>6, <2>3
  <2>5. b \in those
    <3>1. pref(b) # 0
      BY <1>5, <2>1, <2>4
    <3> QED BY <1>6, <1>12, <2>1, <3>1
  <2>6. ASSUME NEW j \in those PROVE pref(b) <= pref(j)
    <3>1. pref(j) # 0 /\ pref(j) \in 0 .. 5 /\ pref(b) \in 0 .. 5
      BY <1>4, <1>6
    <3>2. CASE PlainEncoding
      <4>1. r(j) # -1
        BY <1>5, <3>1, <3>2
      <4>2. r(b) <= r(j)
        BY <2>2, <4>1
      <4> QED BY <1>5, <2>1, <3>2, <4>1, <4>2
    <3>3. CASE pref(b) \in 1 .. 2 /\ pref(j) \in 1 .. 2
      <4>1. r(j) # -1
        BY <1>4, <3>3
      <4>2. r(b) <= r(j)
        BY <2>2, <4>1
      <4> QED BY <1>4, <2>1, <3>3, <4>2
    <3>4. CASE pref(b) \in 1 .. 2 /\ pref(j) \notin 1 .. 2
      BY <3>1, <3>4
    <3> QED BY <2>4, <3>2, <3>3, <3>4
  <2>7. b \in best
    BY <1>10, <2>5, <2>6
  <2>8. ASSUME NEW q \in best PROVE q <= b
    <3>1. q \in those /\ pref(q) <= pref(b) /\ pref(q) # 0 /\ pref(q) \in 0 .. 5
      BY <1>4, <1>6, <1>10, <2>5
    <3>2. r(q) # -1 /\ r(q) <= r(b)
      <4>1. CASE PlainEncoding
        <5>1. r(q) # -1
          BY <1>5, <3>1, <4>1
        <5> QED BY <1>5, <2>1, <3>1, <4>1, <5>1
      <4>2. CASE pref(b) \in 1 .. 2
        <5>1. pref(q) \in 1 .. 2
          BY <3>1, <4>2
        <5> QED BY <1>4, <3>1, <4>2, <5>1
      <4> QED BY <2>4, <4>1, <4>2
    <3>3. r(b) <= r(q) /\ (r(b) = r(q) => q <= b)
      BY <2>2, <3>1, <3>2
    <3>4. r(b) \in Int /\ r(q) \in Int
      BY <1>4
    <3> QED BY <3>2, <3>3, <3>4
  <2>9. Max(best) = b
    BY <1>9, <2>7, <2>8, GreatestIs
  <2>10. field.text = expand(lines[b].value).text
    BY <1>12, Zenon DEF FieldOf
  <2> QED BY <1>2, <2>7, <2>9, <2>10
<1> QED
  BY <1>7, <1>11, <1>12

LEMMA NamedBest ==
    ASSUME in \in Inputs, NEW path \in DOMAIN in.files, in.files[path].newline, Loaded(path) \in Application
    PROVE  /\ PlainEncoding \/ ForCountry(path, "Name") => Loaded(path).name = Best(path, "Name")
           /\ PlainEncoding \/ ForCountry(path, "GenericName") =>
                 Loaded(path).generic_name =
                    IF Best(path, "GenericName") = <<>> THEN null ELSE Best(path, "GenericName")
<1> DEFINE file == in.files[path]
           lines == file.lines
           N == Len(lines)
           suffixes == LocaleSuffixes(Locale)
           envs == desktopenvs
           c == Ctor(path)
<1>1. lines \in Seq(FileLines) /\ Lines(file) = lines /\ N \in Nat
  BY InputsAssumption, LenProperties DEF Lines
<1>2. /\ c.status = "disabled" => Loaded(path) = disabled_error
      /\ c.status = "invalid" => Loaded(path) = invalid_error
      /\ c.status = "ok" => Loaded(path) = Shown(c)
  BY LoadedIs
<1>3. \E p : IsRead(p, lines, suffixes, envs) /\ c = Outcome(p[N])
  <2>1. \E p : IsRead(p, Lines(file), suffixes, envs) /\ c = Outcome(p[Len(Lines(file))])
    <3> HIDE DEF suffixes, envs
    <3>1. c = Application_ctor(file, suffixes, envs)
      BY DEF Ctor, suffixes, envs
    <3> HIDE DEF c, file
    <3>2. Lines(file) \in Seq(FileLines)
      BY <1>1
    <3> QED BY <3>1, <3>2, FileReads
  <2> QED BY <1>1, <2>1
<1> HIDE DEF suffixes, lines, c, file, N, envs
<1>4. PICK p : IsRead(p, lines, suffixes, envs) /\ c = Outcome(p[N])
  BY <1>3
<1>5. p \in [0 .. N -> ReadStates(ToSet(lines), suffixes)] /\ ReadUpTo(p, lines, N)
  BY <1>1, <1>4, ReadSoFar DEF IsRead, N
<1> DEFINE e == p[N]
<1>6. /\ e.status \in {"reading", "ended", "invalid", "disabled"} /\ e.parse_key_values \in BOOLEAN
  <2>1. e \in ReadStates(ToSet(lines), suffixes)
    BY <1>1, <1>5
  <2> QED BY <2>1 DEF ReadStates
<1>7. c.status = "ok" /\ e.status \in {"reading", "ended"} /\ e.parse_key_values
  <2> HIDE DEF e
  <2>1. c = Outcome(e)
    BY <1>4 DEF e
  <2>2. c.status # "disabled" /\ c.status # "invalid"
    BY <1>2, ErrorsAssumption
  <2>3. e.status \in {"reading", "ended"}
    BY <1>6, <2>1, <2>2, OutcomeIs
  <2> QED BY <2>1, <2>2, <2>3, OutcomeIs
<1>8. PICK h, m \in Nat : /\ InGroup(p, lines, h, m) /\ (m = N \/ IsHeader(lines[m + 1]))
                          /\ SameNames(e, p[m])
  <2>1. CASE e.status = "reading"
    <3>1. PICK h : InGroup(p, lines, h, N)
      BY <1>5, <1>7, <2>1 DEF ReadUpTo, Reads
    <3>2. h \in Nat
      BY <3>1 DEF InGroup, Group
    <3> QED BY <1>1, <3>1, <3>2 DEF SameNames
  <2>2. CASE e.status = "ended"
    BY <1>5, <2>2 DEF ReadUpTo
  <2> QED BY <1>7, <2>1, <2>2
<1>9. ASSUME NEW key \in NameKeys, PlainEncoding \/ ForCountry(path, key)
      PROVE  e[key].text = Best(path, key)
  <2>1. Told(p[m][key], lines, key, h, m)
    BY <1>1, <1>4, <1>8, NamesTold DEF suffixes
  <2>2. e[key] = p[m][key]
    <3>1. e.Name = p[m].Name /\ e.GenericName = p[m].GenericName
      BY <1>8 DEF SameNames
    <3> QED BY <3>1 DEF NameKeys
  <2>3. Group(lines, h, m) /\ (m = Len(lines) \/ IsHeader(lines[m + 1]))
    BY <1>8 DEF InGroup, N
  <2> DEFINE field == p[m][key]
  <2> HIDE DEF field
  <2>4. field.text = Best(path, key)
    BY <1>9, <2>1, <2>3, BestIs DEF lines, file, field
  <2> QED BY <2>2, <2>4 DEF field
<1>10. /\ PlainEncoding \/ ForCountry(path, "Name") => e.Name.text = Best(path, "Name")
       /\ PlainEncoding \/ ForCountry(path, "GenericName") => e.GenericName.text = Best(path, "GenericName")
  BY <1>9 DEF NameKeys
<1>11. c.name = e.Name.text /\ c.generic_name = e.GenericName.text
  BY <1>4, OutcomeIs
<1>12. /\ Shown(c).name = c.name
       /\ Shown(c).generic_name = IF c.generic_name = <<>> THEN null ELSE c.generic_name
  BY Zenon DEF Shown
<1> HIDE DEF e
<1> QED
  BY <1>2, <1>7, <1>10, <1>11, <1>12

\* An application has the name, and the generic name, that fits the user's locale best,
\* for any number of translations in any order: the constructor takes the suffixes of
\* the locale for better the earlier they come, and a value replaces one that is rated
\* no better.  For a locale whose encoding holds a "_" only if the file has a value for
\* the user's country: the suffixes without the country are wrong then
\* (LocaleSuffixes.cc:30).
THEOREM AlwaysBestTranslation == StartupSpec => []BestTranslation
<1>1. StartupInit => WalkInv /\ PathInv /\ LoadInv
  BY WalkInit, PathInit, LoadInit
<1>2. WalkInv /\ PathInv /\ LoadInv /\ [StartupNext]_all_vars => (WalkInv /\ PathInv /\ LoadInv)'
  BY WalkNext, PathNext, LoadNext
<1>3. WalkInv /\ PathInv /\ LoadInv => BestTranslation
  <2> DEFINE Named(app, path) ==
                /\ PlainEncoding \/ ForCountry(path, "Name") => app.name = Best(path, "Name")
                /\ PlainEncoding \/ ForCountry(path, "GenericName") =>
                      app.generic_name =
                         IF Best(path, "GenericName") = <<>> THEN null ELSE Best(path, "GenericName")
  <2> SUFFICES ASSUME WalkInv, PathInv, LoadInv, Done, NEW id \in IDs, Populated(applications, id)
               PROVE  \E path \in Sources(id) :
                         in.files[path].newline => Named(applications[id].app, path)
    BY Zenon DEF BestTranslation
  <2>1. applications[id] # null /\ applications[id].app # null
    BY DEF Populated
  <2>2. PICK path \in Sources(id) : Loaded(path) \in Application \cup {disabled_error}
    BY <2>1, SourceIs
  <2>3. path \in Deciders(id) /\ applications[id].app = Offer(Loaded(path))
    BY DEF Sources
  <2>4. path \in DOMAIN in.files
    BY <2>3 DEF Deciders, Deciding, FilesIn
  <2>5. in \in Inputs
    BY DEF WalkInv, WalkType
  <2>6. applications[id].app = Loaded(path) /\ Loaded(path) \in Application
    BY <2>1, <2>2, <2>3 DEF Offer
  <2>7. in.files[path].newline => Named(Loaded(path), path)
    BY <2>4, <2>5, <2>6, NamedBest
  <2> HIDE DEF Named
  <2> QED BY <2>6, <2>7
<1> QED
  BY <1>1, <1>2, <1>3, PTL DEF StartupSpec

=============================================================================
