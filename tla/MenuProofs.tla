------------------------------ MODULE MenuProofs ------------------------------
(***************************************************************************)
(* Proofs about History, HistoryManager and Menu, for any names, desktop   *)
(* files, usage log, size of the stdio buffer and choices of the options.  *)
(* The inductive invariant of the history is HInv, the one of the menu     *)
(* MenuInv, which rests on it: every step of the menu is a step of         *)
(* HistoryManager or leaves it alone.                                      *)
(***************************************************************************)
EXTENDS Menu, BoundedRecursion, SequenceTheorems, FiniteSetTheorems

-----------------------------------------------------------------------------
(* Containers *)

\* InsertAt() puts the element in its place and shifts the ones behind.
LEMMA InsertAtElements ==
    ASSUME NEW S, NEW h \in Seq(S), NEW k \in 1 .. Len(h) + 1, NEW e \in S
    PROVE  /\ InsertAt(h, k, e) \in Seq(S)
           /\ Len(InsertAt(h, k, e)) = Len(h) + 1
           /\ \A i \in 1 .. Len(h) + 1 :
                 InsertAt(h, k, e)[i] = IF i < k THEN h[i] ELSE IF i = k THEN e ELSE h[i - 1]
<1> DEFINE front == SubSeq(h, 1, k - 1)
           back == SubSeq(h, k, Len(h))
<1>1. Len(h) \in Nat /\ DOMAIN h = 1 .. Len(h)
  BY LenProperties
<1>2. /\ front \in Seq(S) /\ Len(front) = k - 1
      /\ \A i \in 1 .. k - 1 : front[i] = h[i]
  BY <1>1
<1>3. /\ back \in Seq(S) /\ Len(back) = Len(h) - k + 1
      /\ \A i \in 1 .. Len(h) - k + 1 : back[i] = h[k + i - 1]
  BY <1>1
<1>4. <<e>> \in Seq(S) /\ Len(<<e>>) = 1 /\ <<e>>[1] = e
  OBVIOUS
<1>5. InsertAt(h, k, e) = (front \o <<e>>) \o back
  BY DEF InsertAt
<1> HIDE DEF front, back
<1>6. /\ front \o <<e>> \in Seq(S) /\ Len(front \o <<e>>) = k
      /\ \A i \in 1 .. k : (front \o <<e>>)[i] = IF i < k THEN h[i] ELSE e
  BY <1>1, <1>2, <1>4
<1> DEFINE g == front \o <<e>>
<1> HIDE DEF g
<1>7. g \in Seq(S) /\ Len(g) = k /\ \A i \in 1 .. k : g[i] = IF i < k THEN h[i] ELSE e
  BY <1>6 DEF g
<1>8. /\ g \o back \in Seq(S) /\ Len(g \o back) = Len(h) + 1
      /\ \A i \in 1 .. Len(h) + 1 :
            (g \o back)[i] = IF i <= k THEN g[i] ELSE back[i - k]
  <2>1. /\ g \in Seq(S) /\ back \in Seq(S)
        /\ Len(g) = k /\ Len(back) = Len(h) - k + 1 /\ Len(h) \in Nat
    BY <1>1, <1>3, <1>7
  <2>2. g \o back \in Seq(S) /\ Len(g \o back) = Len(g) + Len(back)
    BY <2>1
  <2>3. \A i \in 1 .. Len(g) + Len(back) :
           (g \o back)[i] = IF i <= Len(g) THEN g[i] ELSE back[i - Len(g)]
    BY <2>1
  <2> QED BY <2>1, <2>2, <2>3
<1>9. ASSUME NEW i \in 1 .. Len(h) + 1
      PROVE  (g \o back)[i] = IF i < k THEN h[i] ELSE IF i = k THEN e ELSE h[i - 1]
  BY <1>1, <1>3, <1>7, <1>8
<1> QED
  BY <1>5, <1>8, <1>9 DEF g

\* RemoveAt() takes the element out and closes the gap.
LEMMA RemoveAtElements ==
    ASSUME NEW S, NEW h \in Seq(S), NEW k \in 1 .. Len(h)
    PROVE  /\ RemoveAt(h, k) \in Seq(S)
           /\ Len(RemoveAt(h, k)) = Len(h) - 1
           /\ \A i \in 1 .. Len(h) - 1 :
                 RemoveAt(h, k)[i] = IF i < k THEN h[i] ELSE h[i + 1]
<1> DEFINE front == SubSeq(h, 1, k - 1)
           back == SubSeq(h, k + 1, Len(h))
<1>1. Len(h) \in Nat /\ DOMAIN h = 1 .. Len(h)
  BY LenProperties
<1>2. /\ front \in Seq(S) /\ Len(front) = k - 1
      /\ \A i \in 1 .. k - 1 : front[i] = h[i]
  BY <1>1
<1>3. /\ back \in Seq(S) /\ Len(back) = Len(h) - k
      /\ \A i \in 1 .. Len(h) - k : back[i] = h[k + i]
  <2>1. k + 1 \in Int /\ Len(h) \in Int /\ \A i \in k + 1 .. Len(h) : h[i] \in S
    BY <1>1
  <2> DEFINE m == k + 1
             n == Len(h)
  <2>2. m \in Int /\ n \in Int /\ \A i \in m .. n : h[i] \in S
    BY <2>1
  <2> HIDE DEF m, n
  <2>3. /\ SubSeq(h, m, n) \in Seq(S)
        /\ Len(SubSeq(h, m, n)) = IF m <= n THEN n - m + 1 ELSE 0
        /\ \A i \in 1 .. n - m + 1 : SubSeq(h, m, n)[i] = h[m + i - 1]
    BY <2>2, SubSeqProperties
  <2>4. back = SubSeq(h, m, n)
    BY DEF m, n
  <2> HIDE DEF back
  <2>5. Len(back) = Len(h) - k
    <3>1. Len(back) = IF m <= n THEN n - m + 1 ELSE 0
      BY <2>3, <2>4
    <3>2. k \in 1 .. n /\ n \in Nat /\ m = k + 1
      BY <1>1 DEF m, n
    <3>3. Len(back) = n - k
      BY <3>1, <3>2
    <3> QED BY <3>3 DEF n
  <2>6. ASSUME NEW i \in 1 .. Len(h) - k PROVE back[i] = h[k + i]
    <3>1. i \in 1 .. n - m + 1 /\ m + i - 1 = k + i
      BY <1>1 DEF m, n
    <3> QED BY <2>3, <2>4, <3>1
  <2> QED BY <2>3, <2>4, <2>5, <2>6
<1>4. RemoveAt(h, k) = front \o back
  BY DEF RemoveAt
<1> HIDE DEF front, back
<1>5. /\ front \o back \in Seq(S) /\ Len(front \o back) = Len(h) - 1
      /\ \A i \in 1 .. Len(h) - 1 :
            (front \o back)[i] = IF i <= k - 1 THEN front[i] ELSE back[i - (k - 1)]
  <2>1. /\ front \o back \in Seq(S)
        /\ Len(front \o back) = Len(front) + Len(back)
        /\ \A i \in 1 .. Len(front) + Len(back) :
              (front \o back)[i] = IF i <= Len(front) THEN front[i] ELSE back[i - Len(front)]
    BY <1>2, <1>3, ConcatProperties
  <2>2. Len(front) + Len(back) = Len(h) - 1
    BY <1>1, <1>2, <1>3
  <2> QED BY <1>2, <2>1, <2>2
<1>6. ASSUME NEW i \in 1 .. Len(h) - 1
      PROVE  (front \o back)[i] = IF i < k THEN h[i] ELSE h[i + 1]
  BY <1>1, <1>2, <1>3, <1>5
<1> QED
  BY <1>4, <1>5, <1>6

\* The entries of a history have names, and counts between 1 and the bound.
LEMMA EntryCounts ==
    ASSUME NEW h \in Seq(Entries)
    PROVE  /\ Len(h) \in Nat /\ DOMAIN h = 1 .. Len(h) /\ MaxCount \in Nat
           /\ \A i \in 1 .. Len(h) :
                 /\ h[i] \in Entries
                 /\ h[i].count \in 1 .. MaxCount /\ h[i].count \in Nat
                 /\ h[i].name \in Names
<1>1. Len(h) \in Nat /\ DOMAIN h = 1 .. Len(h) /\ h \in [1 .. Len(h) -> Entries]
  BY LenProperties
<1>2. MaxCount \in Nat
  BY HistoryAssumption
<1>3. \A e \in Entries : e.count \in 1 .. MaxCount /\ e.name \in Names
  BY DEF Entries
<1>4. \A i \in 1 .. Len(h) : h[i] \in Entries
  BY <1>1
<1> QED
  BY <1>1, <1>2, <1>3, <1>4

\* std::find_if() returns an entry with the name, if there is one.
LEMMA FindName ==
    ASSUME NEW h \in Seq(Entries), NEW name
    PROVE  \/ Find(h, name) = 0 /\ name \notin NamesIn(h)
           \/ Find(h, name) \in DOMAIN h /\ h[Find(h, name)].name = name
<1> DEFINE I == {i \in 1 .. Len(h) : h[i].name = name}
<1>1. Find(h, name) = IF I # {} THEN Min(I) ELSE 0
  BY DEF Find, SelectInSeq
<1>2. Len(h) \in Nat /\ DOMAIN h = 1 .. Len(h)
  BY LenProperties
<1>3. CASE I = {}
  BY <1>1, <1>2, <1>3 DEF NamesIn
<1>4. CASE I # {}
  <2>1. I \in SUBSET Nat
    BY <1>2
  <2> HIDE DEF I
  <2>2. \E x \in I : \A y \in I : x <= y
    BY <1>4, <2>1, LeastExists
  <2>3. Min(I) \in I
    BY <2>2 DEF Min
  <2> QED BY <1>1, <1>2, <1>4, <2>3 DEF I
<1> QED
  BY <1>3, <1>4

\* In an ordered container std::multimap::emplace() finds the place behind the
\* entries that are at least as large.
LEMMA EmplacePlace ==
    ASSUME NEW h \in Seq(Entries), Descending(h), NEW count \in 1 .. MaxCount, NEW name
    PROVE  \E k \in 1 .. Len(h) + 1 :
              /\ emplace(h, count, name) = InsertAt(h, k, [count |-> count, name |-> name])
              /\ \A i \in 1 .. k - 1 : h[i].count >= count
              /\ \A i \in k .. Len(h) : h[i].count < count
<1>1. /\ Len(h) \in Nat /\ DOMAIN h = 1 .. Len(h) /\ MaxCount \in Nat
      /\ \A i \in 1 .. Len(h) : h[i].count \in 1 .. MaxCount
  BY EntryCounts
<1> DEFINE T == {i \in 1 .. Len(h) + 1 : i <= Len(h) => h[i].count < count}
<1>2. T \in SUBSET Nat /\ T # {}
  <2>1. Len(h) + 1 \in T
    BY <1>1
  <2> QED BY <1>1, <2>1
<1>3. PICK k \in T : \A y \in T : k <= y
  <2> HIDE DEF T
  <2> QED BY <1>2, LeastExists
<1>4. k \in 1 .. Len(h) + 1
  OBVIOUS
<1>5. ASSUME NEW i \in 1 .. k - 1 PROVE h[i].count >= count
  <2>1. i \in 1 .. Len(h) /\ i \notin T
    BY <1>1, <1>3, <1>4
  <2>2. ~(h[i].count < count)
    BY <2>1, <1>1
  <2> QED BY <1>1, <2>1, <2>2
<1>6. ASSUME NEW i \in k .. Len(h) PROVE h[i].count < count
  <2>1. i \in 1 .. Len(h) /\ k \in 1 .. Len(h) /\ h[k].count < count
    BY <1>1, <1>3, <1>4
  <2>2. i = k \/ h[k].count >= h[i].count
    BY <1>1, <2>1 DEF Descending
  <2> QED BY <1>1, <2>1, <2>2
<1>7. {i \in DOMAIN h : h[i].count >= count} = 1 .. k - 1
  <2>1. ASSUME NEW i \in DOMAIN h PROVE h[i].count >= count <=> i \in 1 .. k - 1
    <3>1. i \in 1 .. Len(h) /\ h[i].count \in Nat
      BY <1>1
    <3>2. i \in 1 .. k - 1 \/ i \in k .. Len(h)
      BY <1>1, <1>4, <3>1
    <3>3. ~(i \in 1 .. k - 1 /\ i \in k .. Len(h))
      BY <1>1, <1>4
    <3>4. ~(h[i].count >= count /\ h[i].count < count)
      BY <3>1
    <3> QED BY <1>5, <1>6, <3>2, <3>3, <3>4
  <2>2. 1 .. k - 1 \subseteq DOMAIN h
    BY <1>1, <1>4
  <2> QED BY <2>1, <2>2
<1>8. Cardinality(1 .. k - 1) = k - 1
  <2>1. 1 \in Int /\ k - 1 \in Int /\ k - 1 \in Nat
    BY <1>1, <1>4
  <2>2. Cardinality(1 .. k - 1) = IF 1 > k - 1 THEN 0 ELSE (k - 1) - 1 + 1
    BY <2>1, FS_Interval
  <2> QED BY <2>1, <2>2
<1>9. emplace(h, count, name) = InsertAt(h, k, [count |-> count, name |-> name])
  <2>1. (k - 1) + 1 = k
    BY <1>1, <1>4
  <2> QED BY <1>7, <1>8, <2>1 DEF emplace
<1> QED
  BY <1>4, <1>5, <1>6, <1>9

\* What emplace() does to an ordered container: it stays ordered, has one entry more
\* and no other, and a new name is not repeated.
LEMMA EmplaceKeeps ==
    ASSUME NEW h \in Seq(Entries), Descending(h),
           NEW count \in 1 .. MaxCount, NEW name \in Names
    PROVE  /\ emplace(h, count, name) \in Seq(Entries)
           /\ Len(emplace(h, count, name)) = Len(h) + 1
           /\ Descending(emplace(h, count, name))
           /\ Distinct(h) /\ name \notin NamesIn(h) => Distinct(emplace(h, count, name))
           /\ \E i \in DOMAIN emplace(h, count, name) :
                 emplace(h, count, name)[i] = [count |-> count, name |-> name]
           /\ \A i \in DOMAIN h : \E j \in DOMAIN emplace(h, count, name) :
                 emplace(h, count, name)[j] = h[i]
<1> DEFINE e == [count |-> count, name |-> name]
<1>1. PICK k \in 1 .. Len(h) + 1 :
              /\ emplace(h, count, name) = InsertAt(h, k, e)
              /\ \A i \in 1 .. k - 1 : h[i].count >= count
              /\ \A i \in k .. Len(h) : h[i].count < count
  BY EmplacePlace
<1>2. e \in Entries /\ e.count = count /\ e.name = name
  BY DEF Entries
<1>3. /\ Len(h) \in Nat /\ DOMAIN h = 1 .. Len(h) /\ MaxCount \in Nat
      /\ \A i \in 1 .. Len(h) : h[i].count \in 1 .. MaxCount
  BY EntryCounts
<1> HIDE DEF e
<1> DEFINE g == InsertAt(h, k, e)
<1>4. /\ g \in Seq(Entries) /\ Len(g) = Len(h) + 1
      /\ \A i \in 1 .. Len(h) + 1 : g[i] = IF i < k THEN h[i] ELSE IF i = k THEN e ELSE h[i - 1]
  <2>1. e \in Entries
    BY <1>2
  <2>2. InsertAt(h, k, e) \in Seq(Entries)
    BY <2>1, InsertAtElements
  <2>3. Len(InsertAt(h, k, e)) = Len(h) + 1
    BY <2>1, InsertAtElements
  <2>4. \A i \in 1 .. Len(h) + 1 : InsertAt(h, k, e)[i] = IF i < k THEN h[i] ELSE IF i = k THEN e ELSE h[i - 1]
    BY <2>1, InsertAtElements
  <2> QED BY <2>2, <2>3, <2>4
<1> HIDE DEF g
<1>5. DOMAIN g = 1 .. Len(h) + 1
  BY <1>4, LenProperties
<1>6. \A i, j \in 1 .. Len(h) : i < j => h[i].count >= h[j].count
  BY <1>3 DEF Descending
<1>7. Descending(g)
  <2> SUFFICES ASSUME NEW i \in 1 .. Len(h) + 1, NEW j \in 1 .. Len(h) + 1, i < j
               PROVE  g[i].count >= g[j].count
    BY <1>5 DEF Descending
  <2>1. CASE j < k
    <3>1. i \in 1 .. Len(h) /\ j \in 1 .. Len(h) /\ i < k
      BY <1>3, <2>1
    <3> QED BY <1>4, <1>6, <2>1, <3>1
  <2>2. CASE j = k
    <3>1. i < k /\ i \in 1 .. k - 1
      BY <1>3, <2>2
    <3> QED BY <1>1, <1>2, <1>4, <2>2, <3>1
  <2>3. CASE j > k /\ i < k
    <3>1. i \in 1 .. k - 1 /\ j - 1 \in k .. Len(h) /\ i \in 1 .. Len(h) /\ j - 1 \in 1 .. Len(h) /\ i < j - 1
      BY <1>3, <2>3
    <3>2. g[i] = h[i] /\ g[j] = h[j - 1]
      BY <1>3, <1>4, <2>3
    <3> QED BY <1>6, <3>1, <3>2
  <2>4. CASE j > k /\ i = k
    <3>1. j - 1 \in k .. Len(h) /\ j - 1 \in 1 .. Len(h)
      BY <1>3, <2>4
    <3>2. g[i] = e /\ g[j] = h[j - 1]
      BY <1>3, <1>4, <2>4
    <3>3. h[j - 1].count < count /\ h[j - 1].count \in Nat
      BY <1>1, <1>3, <3>1
    <3> QED BY <1>2, <3>2, <3>3
  <2>5. CASE j > k /\ i > k
    <3>1. i - 1 \in 1 .. Len(h) /\ j - 1 \in 1 .. Len(h) /\ i - 1 < j - 1
      BY <1>3, <2>5
    <3>2. g[i] = h[i - 1] /\ g[j] = h[j - 1]
      BY <1>3, <1>4, <2>5
    <3> QED BY <1>6, <3>1, <3>2
  <2> QED BY <1>3, <2>1, <2>2, <2>3, <2>4, <2>5
<1>8. ASSUME Distinct(h), name \notin NamesIn(h) PROVE Distinct(g)
  <2> SUFFICES ASSUME NEW i \in 1 .. Len(h) + 1, NEW j \in 1 .. Len(h) + 1,
                      g[i].name = g[j].name, i < j
               PROVE  FALSE
    BY <1>3, <1>5 DEF Distinct
  <2> DEFINE old(n) == IF n < k THEN n ELSE n - 1
  <2>1. \A n \in 1 .. Len(h) + 1 : n # k => old(n) \in 1 .. Len(h) /\ g[n] = h[old(n)]
    BY <1>3, <1>4
  <2>2. \A n \in 1 .. Len(h) : h[n].name # name
    BY <1>3, <1>8 DEF NamesIn
  <2>3. g[k].name = name
    BY <1>2, <1>3, <1>4
  <2>4. i # k /\ j # k => old(i) # old(j)
    BY <1>3
  <2>5. i # k /\ j # k
    <3>1. ~(i = k /\ j # k)
      BY <2>1, <2>2, <2>3
    <3>2. ~(i # k /\ j = k)
      BY <2>1, <2>2, <2>3
    <3> QED BY <1>3, <3>1, <3>2
  <2> HIDE DEF old
  <2>6. old(i) = old(j)
    BY <1>3, <1>8, <2>1, <2>5 DEF Distinct
  <2> QED BY <2>4, <2>5, <2>6
<1>9. k \in DOMAIN g /\ g[k] = e
  BY <1>3, <1>4, <1>5
<1>10. ASSUME NEW i \in DOMAIN h PROVE \E j \in DOMAIN g : g[j] = h[i]
  <2>1. CASE i < k
    <3>1. i \in DOMAIN g /\ g[i] = h[i]
      BY <1>3, <1>4, <1>5, <2>1
    <3> QED BY <3>1
  <2>2. CASE i >= k
    <3>1. i + 1 \in DOMAIN g /\ g[i + 1] = h[i]
      BY <1>3, <1>4, <1>5, <2>2
    <3> QED BY <3>1
  <2> QED BY <1>3, <2>1, <2>2
<1>11. emplace(h, count, name) = g
  BY <1>1 DEF g
<1> QED
  BY <1>4, <1>7, <1>8, <1>9, <1>10, <1>11 DEF e

\* What RemoveAt() does to an ordered container: it stays ordered, has no entry that
\* was not there, and lacks no other one.
LEMMA RemoveKeeps ==
    ASSUME NEW h \in Seq(Entries), NEW k \in DOMAIN h
    PROVE  /\ RemoveAt(h, k) \in Seq(Entries)
           /\ Len(RemoveAt(h, k)) = Len(h) - 1
           /\ \A i \in 1 .. k - 1 : i \in DOMAIN RemoveAt(h, k) /\ RemoveAt(h, k)[i] = h[i]
           /\ Descending(h) => Descending(RemoveAt(h, k))
           /\ Distinct(h) => Distinct(RemoveAt(h, k)) /\ h[k].name \notin NamesIn(RemoveAt(h, k))
           /\ \A i \in DOMAIN h : i # k => \E j \in DOMAIN RemoveAt(h, k) : RemoveAt(h, k)[j] = h[i]
<1> DEFINE g == RemoveAt(h, k)
           old(n) == IF n < k THEN n ELSE n + 1
<1>1. /\ Len(h) \in Nat /\ DOMAIN h = 1 .. Len(h)
      /\ \A i \in 1 .. Len(h) : h[i].count \in Nat
  BY EntryCounts
<1>2. g \in Seq(Entries)
  BY <1>1, RemoveAtElements, SMTT(30)
<1>3. Len(g) = Len(h) - 1
  BY <1>1, RemoveAtElements
<1>4. \A i \in 1 .. Len(h) - 1 : g[i] = IF i < k THEN h[i] ELSE h[i + 1]
  BY <1>1, RemoveAtElements
<1> HIDE DEF g
<1>5. DOMAIN g = 1 .. Len(h) - 1
  BY <1>2, <1>3, LenProperties
<1>6. \A n \in DOMAIN g : old(n) \in DOMAIN h /\ old(n) # k /\ g[n] = h[old(n)]
  BY <1>1, <1>4, <1>5
<1>7. \A m, n \in DOMAIN g : (m < n => old(m) < old(n)) /\ (old(m) = old(n) => m = n)
  BY <1>1, <1>5
<1> HIDE DEF old
<1>8. \A i \in 1 .. k - 1 : i \in DOMAIN g /\ g[i] = h[i]
  BY <1>1, <1>4, <1>5
<1>9. ASSUME Descending(h) PROVE Descending(g)
  BY <1>6, <1>7, <1>9 DEF Descending
<1>10. ASSUME Distinct(h) PROVE Distinct(g) /\ h[k].name \notin NamesIn(g)
  BY <1>6, <1>7, <1>10 DEF Distinct, NamesIn
<1>11. ASSUME NEW i \in DOMAIN h, i # k PROVE \E j \in DOMAIN g : g[j] = h[i]
  <2>1. CASE i < k
    BY <1>1, <1>4, <1>5, <2>1
  <2>2. CASE i > k
    <3>1. i - 1 \in DOMAIN g /\ g[i - 1] = h[i]
      BY <1>1, <1>4, <1>5, <2>2
    <3> QED BY <3>1
  <2> QED BY <1>1, <1>11, <2>1, <2>2
<1> QED
  BY <1>2, <1>3, <1>8, <1>9, <1>10, <1>11 DEF g

\* CountOf() is the count of the entry with the name.
LEMMA CountOfEntry ==
    ASSUME NEW h \in Seq(Entries)
    PROVE  /\ \A name : CountOf(h, name) \in 0 .. MaxCount
           /\ Distinct(h) => \A i \in DOMAIN h : CountOf(h, h[i].name) = h[i].count
<1>1. /\ DOMAIN h = 1 .. Len(h) /\ MaxCount \in Nat
      /\ \A i \in 1 .. Len(h) : h[i].count \in 1 .. MaxCount
  BY EntryCounts
<1>2. ASSUME NEW name PROVE CountOf(h, name) \in 0 .. MaxCount
  <2>1. CASE name \notin NamesIn(h)
    BY <1>1, <2>1 DEF CountOf
  <2>2. CASE name \in NamesIn(h)
    <3>1. Find(h, name) \in DOMAIN h
      BY <2>2, FindName
    <3>2. CountOf(h, name) = h[Find(h, name)].count
      BY <2>2 DEF CountOf
    <3> QED BY <1>1, <3>1, <3>2
  <2> QED BY <2>1, <2>2
<1>3. ASSUME Distinct(h), NEW i \in DOMAIN h PROVE CountOf(h, h[i].name) = h[i].count
  <2>1. h[i].name \in NamesIn(h)
    BY DEF NamesIn
  <2>2. Find(h, h[i].name) \in DOMAIN h /\ h[Find(h, h[i].name)].name = h[i].name
    BY <2>1, FindName
  <2>3. Find(h, h[i].name) = i
    BY <1>3, <2>2 DEF Distinct
  <2> QED BY <2>1, <2>3 DEF CountOf
<1> QED
  BY <1>2, <1>3

\* increment() keeps the history ordered and the names in it apart, shortens it by
\* nothing, and lowers no count.
LEMMA IncrementedKeeps ==
    ASSUME NEW h \in Seq(Entries), Descending(h), NEW name \in Names,
           CountOf(h, name) < MaxCount
    PROVE  /\ Incremented(h, name) \in Seq(Entries)
           /\ Len(Incremented(h, name)) >= Len(h)
           /\ Descending(Incremented(h, name))
           /\ Distinct(h) => /\ Distinct(Incremented(h, name))
                             /\ \A n \in NamesIn(h) :
                                   CountOf(Incremented(h, name), n) >= CountOf(h, n)
<1> DEFINE i == Find(h, name)
           g == Incremented(h, name)
<1>1. /\ Len(h) \in Nat /\ DOMAIN h = 1 .. Len(h) /\ MaxCount \in Nat
      /\ \A j \in 1 .. Len(h) : h[j].count \in 1 .. MaxCount
  BY EntryCounts
<1>2. CASE i = 0
  <2>1. g = emplace(h, 1, name) /\ name \notin NamesIn(h)
    BY <1>1, <1>2, FindName DEF Incremented
  <2>2. 1 \in 1 .. MaxCount
    BY <1>1, <2>1 DEF CountOf
  <2> DEFINE f == emplace(h, 1, name)
  <2>3. /\ f \in Seq(Entries) /\ Len(f) = Len(h) + 1 /\ Descending(f)
        /\ Distinct(h) => Distinct(f)
        /\ \A j \in DOMAIN h : \E m \in DOMAIN f : f[m] = h[j]
    BY <2>1, <2>2, EmplaceKeeps
  <2> HIDE DEF f
  <2>4. ASSUME Distinct(h), NEW n \in NamesIn(h) PROVE CountOf(f, n) >= CountOf(h, n)
    <3>1. PICK j \in DOMAIN h : n = h[j].name
      BY DEF NamesIn
    <3>2. PICK m \in DOMAIN f : f[m] = h[j]
      BY <2>3
    <3>3. CountOf(f, n) = h[j].count /\ CountOf(h, n) = h[j].count
      BY <2>3, <2>4, <3>1, <3>2, CountOfEntry
    <3> QED BY <1>1, <3>3
  <2>5. f = g
    BY <2>1 DEF f
  <2> HIDE DEF g
  <2>6. Len(f) >= Len(h)
    BY <1>1, <2>3
  <2> QED BY <2>3, <2>4, <2>5, <2>6 DEF g
<1>3. CASE i # 0
  <2>1. i \in DOMAIN h /\ h[i].name = name
    BY <1>3, FindName
  <2>2. g = emplace(RemoveAt(h, i), h[i].count + 1, name)
    BY <1>3 DEF Incremented
  <2>3. CountOf(h, name) = h[i].count
    BY <2>1 DEF CountOf, NamesIn
  <2> HIDE DEF i, g
  <2>4. h[i].count + 1 \in 1 .. MaxCount
    BY <1>1, <2>1, <2>3
  <2> DEFINE r == RemoveAt(h, i)
  <2>5. /\ r \in Seq(Entries) /\ Len(r) = Len(h) - 1 /\ Descending(r)
        /\ Distinct(h) => Distinct(r) /\ name \notin NamesIn(r)
        /\ \A j \in DOMAIN h : j # i => \E m \in DOMAIN r : r[m] = h[j]
    BY <2>1, RemoveKeeps
  <2> DEFINE c == h[i].count + 1
             f == emplace(r, c, name)
  <2>6. c \in 1 .. MaxCount /\ c > h[i].count
    BY <1>1, <2>1, <2>4
  <2>7. g = f
    BY <2>2
  <2> HIDE DEF r, c
  <2>8. /\ f \in Seq(Entries) /\ Len(f) = Len(r) + 1 /\ Descending(f)
        /\ Distinct(h) => Distinct(f)
        /\ \E m \in DOMAIN f : f[m] = [count |-> c, name |-> name]
        /\ \A j \in DOMAIN r : \E m \in DOMAIN f : f[m] = r[j]
    BY <2>5, <2>6, EmplaceKeeps, SMTT(30)
  <2> HIDE DEF f
  <2>9. ASSUME Distinct(h), NEW n \in NamesIn(h) PROVE CountOf(f, n) >= CountOf(h, n)
    <3>1. PICK j \in DOMAIN h : n = h[j].name
      BY DEF NamesIn
    <3>2. CountOf(h, n) = h[j].count
      BY <2>9, <3>1, CountOfEntry
    <3>3. CASE j = i
      <4>1. PICK m \in DOMAIN f : f[m] = [count |-> c, name |-> name]
        BY <2>8
      <4>2. f[m].name = n /\ f[m].count = c
        BY <2>1, <3>1, <3>3, <4>1
      <4>3. CountOf(f, n) = c
        BY <2>8, <2>9, <4>2, CountOfEntry
      <4> QED BY <1>1, <2>1, <2>6, <3>2, <3>3, <4>3
    <3>4. CASE j # i
      <4>1. PICK l \in DOMAIN r : r[l] = h[j]
        BY <2>5, <3>4
      <4>2. PICK m \in DOMAIN f : f[m] = r[l]
        BY <2>8
      <4>3. CountOf(f, n) = h[j].count
        BY <2>8, <2>9, <3>1, <4>1, <4>2, CountOfEntry, SMTT(30)
      <4> QED BY <1>1, <3>2, <4>3
    <3> QED BY <3>3, <3>4
  <2>10. Len(f) >= Len(h)
    BY <1>1, <2>5, <2>8
  <2> QED BY <2>7, <2>8, <2>9, <2>10 DEF g
<1> QED
  BY <1>2, <1>3

\* A line of a history file is emplaced behind the ones above it, as they are in order.
LEMMA EmplaceNext ==
    ASSUME NEW h \in Seq(Entries), Descending(h), NEW n \in 1 .. Len(h)
    PROVE  emplace(SubSeq(h, 1, n - 1), h[n].count, h[n].name) = SubSeq(h, 1, n)
<1>1. /\ Len(h) \in Nat /\ DOMAIN h = 1 .. Len(h)
      /\ \A i \in 1 .. Len(h) :
            h[i] \in Entries /\ h[i].count \in 1 .. MaxCount /\ h[i].count \in Nat /\ h[i].name \in Names
  BY EntryCounts
<1> DEFINE f == SubSeq(h, 1, n - 1)
           g == SubSeq(h, 1, n)
           count == h[n].count
           name == h[n].name
<1>2. /\ f \in Seq(Entries) /\ Len(f) = n - 1 /\ DOMAIN f = 1 .. n - 1
      /\ \A i \in 1 .. n - 1 : f[i] = h[i]
  BY <1>1
<1>3. /\ g \in Seq(Entries) /\ Len(g) = n /\ DOMAIN g = 1 .. n
      /\ \A i \in 1 .. n : g[i] = h[i]
  BY <1>1
<1>4. h[n] = [count |-> count, name |-> name]
  BY <1>1 DEF Entries
<1>5. count \in 1 .. MaxCount /\ name \in Names /\ count \in Nat
  BY <1>1
<1> HIDE DEF f, g
<1>6. Descending(f)
  <2> SUFFICES ASSUME NEW i \in 1 .. n - 1, NEW j \in 1 .. n - 1, i < j
               PROVE  f[i].count >= f[j].count
    BY <1>2 DEF Descending
  <2>1. i \in DOMAIN h /\ j \in DOMAIN h
    BY <1>1
  <2> QED BY <1>2, <2>1 DEF Descending
<1>7. \A i \in 1 .. n - 1 : f[i].count >= count /\ f[i].count \in Nat
  <2> SUFFICES ASSUME NEW i \in 1 .. n - 1 PROVE f[i].count >= count /\ f[i].count \in Nat
    OBVIOUS
  <2>1. i \in DOMAIN h /\ n \in DOMAIN h /\ i < n /\ i \in 1 .. Len(h)
    BY <1>1
  <2> QED BY <1>1, <1>2, <2>1 DEF Descending
<1> HIDE DEF count, name
<1>8. PICK k \in 1 .. Len(f) + 1 :
              /\ emplace(f, count, name) = InsertAt(f, k, [count |-> count, name |-> name])
              /\ \A i \in k .. Len(f) : f[i].count < count
  BY <1>2, <1>5, <1>6, EmplacePlace
<1>9. k = n
  <2> SUFFICES ASSUME k # n PROVE FALSE
    OBVIOUS
  <2>1. n - 1 \in k .. Len(f) /\ n - 1 \in 1 .. n - 1
    BY <1>1, <1>2
  <2>2. f[n - 1].count < count /\ f[n - 1].count >= count /\ f[n - 1].count \in Nat
    BY <1>7, <1>8, <2>1
  <2> QED BY <1>5, <2>2
<1> DEFINE e == [count |-> count, name |-> name]
           r == InsertAt(f, k, e)
<1>10. e = h[n] /\ e \in Entries
  BY <1>1, <1>4
<1> HIDE DEF e
<1>11. r \in Seq(Entries)
  BY <1>2, <1>10, InsertAtElements
<1>12. Len(r) = Len(f) + 1
  <2>1. f \in Seq(Entries) /\ e \in Entries
    BY <1>2, <1>10
  <2> QED BY <2>1, InsertAtElements
<1>13. \A i \in 1 .. Len(f) + 1 : r[i] = IF i < k THEN f[i] ELSE IF i = k THEN e ELSE f[i - 1]
  <2>1. f \in Seq(Entries) /\ e \in Entries
    BY <1>2, <1>10
  <2>2. ASSUME NEW s \in Seq(Entries), NEW m \in 1 .. Len(s) + 1, NEW x \in Entries,
               NEW i \in 1 .. Len(s) + 1
        PROVE  InsertAt(s, m, x)[i] = IF i < m THEN s[i] ELSE IF i = m THEN x ELSE s[i - 1]
    BY InsertAtElements
  <2> QED BY <2>1, <2>2
<1> HIDE DEF r
<1>14. Len(r) = Len(g) /\ Len(r) = n
  BY <1>1, <1>2, <1>3, <1>12
<1>15. \A i \in 1 .. n : r[i] = g[i]
  BY <1>1, <1>2, <1>3, <1>9, <1>10, <1>13
<1>16. r = g
  BY <1>3, <1>11, <1>14, <1>15, SeqEqual
<1> QED
  BY <1>8, <1>16 DEF r, e, f, g, count, name

\* read_file() restores a history as it was written.
LEMMA ReadRestores ==
    ASSUME NEW h \in Seq(Entries), Descending(h)
    PROVE  Read(h) = h
<1> DEFINE N == Len(h)
           Reads(g) == g = [n \in 0 .. N |-> IF n = 0 THEN <<>>
                                             ELSE emplace(g[n - 1], h[n].count, h[n].name)]
           read == CHOOSE g : Reads(g)
           w == [n \in 0 .. N |-> SubSeq(h, 1, n)]
<1>1. N \in Nat /\ h \in [1 .. N -> Entries]
  BY LenProperties
<1>2. Read(h) = read[N]
  BY DEF Read
<1>3. Reads(w)
  <2>1. ASSUME NEW n \in 0 .. N
        PROVE  w[n] = IF n = 0 THEN <<>> ELSE emplace(w[n - 1], h[n].count, h[n].name)
    <3>1. CASE n = 0
      BY <1>1, <3>1, SubSeqEmpty
    <3>2. CASE n # 0
      <4>1. n \in 1 .. Len(h) /\ n - 1 \in 0 .. N /\ w[n - 1] = SubSeq(h, 1, n - 1) /\ w[n] = SubSeq(h, 1, n)
        BY <1>1, <3>2
      <4> HIDE DEF w
      <4> QED BY <3>2, <4>1, EmplaceNext
    <3> QED BY <3>1, <3>2
  <2> QED BY <2>1
<1> HIDE DEF w
<1>4. Reads(read)
  <2> HIDE DEF Reads
  <2> QED BY <1>3
<1> HIDE DEF read
<1> DEFINE S == {n \in 0 .. N : read[n] = w[n]}
<1>5. 0 \in S
  BY <1>1, <1>3, <1>4
<1>6. ASSUME NEW n \in 1 .. N, n - 1 \in S PROVE n \in S
  <2>1. n \in 0 .. N /\ n # 0 /\ read[n - 1] = w[n - 1]
    BY <1>1, <1>6
  <2>2. read[n] = emplace(read[n - 1], h[n].count, h[n].name)
    BY <1>4, <2>1
  <2>3. w[n] = emplace(w[n - 1], h[n].count, h[n].name)
    BY <1>3, <2>1
  <2> QED BY <2>1, <2>2, <2>3
<1>7. N \in S
  <2> HIDE DEF S
  <2>1. 0 .. N \subseteq S
    BY <1>1, <1>5, <1>6, BoundedInduction
  <2> QED BY <1>1, <2>1
<1>8. w[N] = SubSeq(h, 1, N)
  BY <1>1 DEF w
<1>9. SubSeq(h, 1, N) = h
  BY <1>1, SubSeqFull
<1> QED
  BY <1>2, <1>7, <1>8, <1>9

\* The histories that the conversion may build
Logs == {h \in Seq(Entries) : Distinct(h) /\ Descending(h)}

\* ensure_uniqueness: no name is emplaced twice.
LEMMA EmplaceOnceKeeps ==
    ASSUME NEW h \in Logs, NEW count \in 1 .. MaxCount, NEW name \in Names \cup {null}
    PROVE  EmplaceOnce(h, count, name, null) \in Logs
<1>1. h \in Seq(Entries) /\ Distinct(h) /\ Descending(h)
  BY DEF Logs
<1>2. CASE name = null \/ name \in NamesIn(h)
  BY <1>2 DEF EmplaceOnce
<1>3. CASE name # null /\ name \notin NamesIn(h)
  <2>1. name \in Names
    BY <1>3
  <2>2. /\ emplace(h, count, name) \in Seq(Entries)
        /\ Descending(emplace(h, count, name))
        /\ Distinct(emplace(h, count, name))
    BY <1>1, <1>3, <2>1, EmplaceKeeps
  <2>3. EmplaceOnce(h, count, name, null) = emplace(h, count, name)
    BY <1>3 DEF EmplaceOnce
  <2> QED BY <2>2, <2>3 DEF Logs
<1> QED
  BY <1>2, <1>3

\* An iteration of the loop keeps what was converted in order and without repetition.
LEMMA ConvertLineKeeps ==
    ASSUME NEW h \in Logs, NEW line \in V0Lines
    PROVE  ConvertLine(h, line.count, lookup_by_ID[line.id], null) \in Logs
<1>1. line.count \in 1 .. MaxCount /\ line.id \in IDs
  BY DEF V0Lines
<1> DEFINE app == lookup_by_ID[line.id]
           count == line.count
<1>2. app \in [name: Names, generic_name: Names \cup {null}] \cup {null}
  BY <1>1, HistoryAssumption
<1>3. count \in 1 .. MaxCount
  BY <1>1
<1> HIDE DEF app, count
<1>4. CASE app = null
  <2>1. ConvertLine(h, count, app, null) = h
    BY <1>4 DEF ConvertLine
  <2> QED BY <2>1 DEF app, count
<1>5. CASE app # null
  <2>1. app.name \in Names \cup {null} /\ app.generic_name \in Names \cup {null}
    BY <1>2, <1>5
  <2>2. EmplaceOnce(h, count, app.name, null) \in Logs
    BY <1>3, <2>1, EmplaceOnceKeeps
  <2>3. EmplaceOnce(EmplaceOnce(h, count, app.name, null), count, app.generic_name, null) \in Logs
    BY <1>3, <2>1, <2>2, EmplaceOnceKeeps
  <2>4. ConvertLine(h, count, app, null) \in Logs
    BY <1>5, <2>3 DEF ConvertLine
  <2> QED BY <2>4 DEF app, count
<1> QED
  BY <1>4, <1>5

\* convert_history_from_v0() builds an ordered history without a repeated name, from
\* any file of the old version, in order or not.
LEMMA FromV0Keeps ==
    ASSUME NEW lines \in Seq(V0Lines)
    PROVE  FromV0(lines, lookup_by_ID, null) \in Logs
<1> DEFINE N == Len(lines)
           Line(n, h) == ConvertLine(h, lines[n].count, lookup_by_ID[lines[n].id], null)
           Converts(g) == g = [n \in 0 .. N |-> IF n = 0 THEN <<>> ELSE Line(n, g[n - 1])]
           convert == CHOOSE g : Converts(g)
           step == [n \in 1 .. N |-> [h \in Logs |-> Line(n, h)]]
<1>1. N \in Nat /\ lines \in [1 .. N -> V0Lines]
  BY LenProperties
<1>2. FromV0(lines, lookup_by_ID, null) = convert[N]
  BY DEF FromV0
<1>3. <<>> \in Logs
  <2>1. <<>> \in Seq(Entries)
    OBVIOUS
  <2>2. DOMAIN <<>> = {}
    OBVIOUS
  <2> QED BY <2>1, <2>2 DEF Logs, Distinct, Descending
<1>4. \A n \in 1 .. N, h \in Logs : Line(n, h) \in Logs
  BY <1>1, ConvertLineKeeps
<1> HIDE DEF Line
<1>5. \A n \in 1 .. N, h \in Logs : step[n][h] \in Logs
  BY <1>4
<1>6. PICK g \in [0 .. N -> Logs] :
          g[0] = <<>> /\ \A n \in 1 .. N : g[n] = step[n][g[n - 1]]
  <2>1. N \in Nat
    BY <1>1
  <2> DEFINE b == <<>>
  <2> HIDE DEF step, N, b
  <2>2. b \in Logs
    BY <1>3 DEF b
  <2>3. Recursion(N, Logs, b, step) # {}
    BY <1>5, <2>1, <2>2, RecursionExists
  <2> QED BY <2>3 DEF b, Recursion
<1>7. Converts(g)
  <2>1. ASSUME NEW n \in 0 .. N PROVE g[n] = IF n = 0 THEN <<>> ELSE Line(n, g[n - 1])
    <3>1. CASE n = 0
      BY <1>6, <3>1
    <3>2. CASE n # 0
      <4>1. n \in 1 .. N /\ n - 1 \in 0 .. N
        BY <1>1, <3>2
      <4>2. g[n - 1] \in Logs
        BY <4>1
      <4>3. g[n] = step[n][g[n - 1]]
        <5> HIDE DEF step
        <5> QED BY <1>6, <4>1
      <4>4. step[n][g[n - 1]] = Line(n, g[n - 1])
        BY <4>1, <4>2
      <4> QED BY <3>2, <4>3, <4>4
    <3> QED BY <3>1, <3>2
  <2> QED BY <2>1
<1>8. Converts(convert)
  <2> HIDE DEF Converts
  <2> QED BY <1>7
<1> HIDE DEF convert, step
<1> DEFINE S == {n \in 0 .. N : convert[n] \in Logs}
<1>9. 0 \in S
  BY <1>1, <1>3, <1>8
<1>10. ASSUME NEW n \in 1 .. N, n - 1 \in S PROVE n \in S
  <2>1. n \in 0 .. N /\ n # 0 /\ convert[n - 1] \in Logs
    BY <1>1, <1>10
  <2>2. convert[n] = Line(n, convert[n - 1])
    BY <1>8, <2>1
  <2> QED BY <1>4, <2>1, <2>2
<1>11. N \in S
  <2> HIDE DEF S
  <2>1. 0 .. N \subseteq S
    BY <1>1, <1>9, <1>10, BoundedInduction
  <2> QED BY <1>1, <2>1
<1> QED
  BY <1>2, <1>11

-----------------------------------------------------------------------------
(* The inductive invariant *)

\* The lines are of the kind that the form of the file says; those of the new form are in order,
\* and have no newline in their names any more.
FileFits ==
    /\ file.form = "v0" => file.lines \in Seq(V0Lines)
    /\ file.form = "v1" => file.lines \in Seq(Entries) /\ Descending(file.lines) /\ Plain(file.lines)

\* Between two saves the file is what is in memory, as far as it can be read.
Saved ==
    state = "run" /\ file.form = "v1" =>
        /\ file.lines = Printed(history, FALSE).lines
        /\ file.broken = Printed(history, FALSE).broken

\* Only a kill amid a save, or a name with a newline, leaves a broken line or repeats a name.
Whole ==
    \/ torn \/ state = "flush" \/ (state = "run" /\ ~Plain(history))
    \/ (file.form = "v1" => ~file.broken /\ Distinct(file.lines))

Readable == torn \/ state # "failed"

NothingYet == state \in {"off", "failed"} => history = <<>>

HInv ==
    /\ TypeOK /\ FileFits
    /\ Descending(history) /\ NamesDistinct
    /\ Saved /\ Whole /\ Readable /\ NothingYet

\* An empty history is in order.
LEMMA EmptyHistory == <<>> \in Seq(Entries) /\ Descending(<<>>) /\ Distinct(<<>>)
<1>1. <<>> \in Seq(Entries) /\ DOMAIN <<>> = {}
  OBVIOUS
<1> QED
  BY <1>1 DEF Descending, Distinct

\* The lines of either kind are lines.
LEMMA LinesTyped ==
    /\ \A lines \in Seq(Entries) : lines \in Seq(Entries \cup V0Lines)
    /\ \A lines \in Seq(V0Lines) : lines \in Seq(Entries \cup V0Lines)
<1>1. Entries \subseteq Entries \cup V0Lines /\ V0Lines \subseteq Entries \cup V0Lines
  OBVIOUS
<1> QED
  BY <1>1, SeqMonotonic

\* What getline() finds of an entry is an entry, and the same one if its name is one line.
LEMMA FirstOfEntry ==
    ASSUME NEW e \in Entries
    PROVE  /\ e.name \in Names /\ FirstOf(e).count = e.count /\ FirstOf(e).name = FirstLine[e.name]
           /\ FirstLine[e.name] # null =>
                 FirstOf(e) \in Entries /\ FirstLine[FirstOf(e).name] = FirstOf(e).name
           /\ FirstLine[e.name] = e.name => FirstOf(e) = e
<1>1. e.name \in Names /\ FirstOf(e).count = e.count /\ FirstOf(e).name = FirstLine[e.name]
  BY DEF Entries, FirstOf
<1>2. ASSUME FirstLine[e.name] # null
      PROVE  FirstLine[e.name] \in Names /\ FirstLine[FirstLine[e.name]] = FirstLine[e.name]
  BY <1>1, <1>2, HistoryAssumption
<1>3. FirstLine[e.name] # null => FirstOf(e) \in Entries
  BY <1>2 DEF Entries, FirstOf
<1>4. FirstLine[e.name] = e.name => FirstOf(e) = e
  BY DEF Entries, FirstOf
<1> QED
  BY <1>1, <1>2, <1>3, <1>4

\* The lines that read_file() gets to of the first n entries of h.
PrintOf(h, lines) ==
    /\ lines \in Seq(Entries) /\ Len(lines) <= Len(h) /\ Plain(lines)
    /\ \A i \in 1 .. Len(lines) : lines[i] = FirstOf(h[i])

LEMMA FirstLinesPrinted ==
    ASSUME NEW h \in Seq(Entries), NEW n \in 0 .. Len(h),
           \A i \in 1 .. n : FirstLine[h[i].name] # null
    PROVE  /\ PrintOf(h, [i \in 1 .. n |-> FirstOf(h[i])])
           /\ Len([i \in 1 .. n |-> FirstOf(h[i])]) = n
<1> DEFINE lines == [i \in 1 .. n |-> FirstOf(h[i])]
<1>1. Len(h) \in Nat /\ n \in Nat /\ n <= Len(h) /\ \A i \in 1 .. n : h[i] \in Entries
  BY EntryCounts
<1>2. \A i \in 1 .. n : FirstOf(h[i]) \in Entries /\ FirstLine[FirstOf(h[i]).name] = FirstOf(h[i]).name
  BY <1>1, FirstOfEntry
<1>3. lines \in [1 .. n -> Entries] /\ \A i \in 1 .. n : lines[i] = FirstOf(h[i])
  BY <1>2
<1> HIDE DEF lines
<1>4. lines \in Seq(Entries) /\ Len(lines) = n /\ DOMAIN lines = 1 .. n
  BY <1>1, <1>3, SeqDef, LenProperties
<1>5. Plain(lines)
  BY <1>2, <1>3, <1>4 DEF Plain
<1> QED
  BY <1>1, <1>3, <1>4, <1>5 DEF PrintOf, lines

\* What read_file() finds of a history that write() has printed: a beginning of it, and all
\* of it as it was when no name has a newline.
LEMMA PrintedIs ==
    ASSUME NEW h \in Seq(Entries), NEW b \in BOOLEAN
    PROVE  /\ Printed(h, b).form = "v1" /\ Printed(h, b).broken \in BOOLEAN
           /\ PrintOf(h, Printed(h, b).lines)
           /\ Plain(h) => Printed(h, b).lines = h /\ Printed(h, b).broken = b
           /\ \A i \in DOMAIN h : Plain(SubSeq(h, 1, i)) => i <= Len(Printed(h, b).lines)
<1> DEFINE I == {i \in 1 .. Len(h) : h[i].name \in EndsReading}
           end == IF I # {} THEN Min(I) ELSE 0
           Upto(n) == [i \in 1 .. n |-> FirstOf(h[i])]
<1>1. /\ Len(h) \in Nat /\ DOMAIN h = 1 .. Len(h)
      /\ \A i \in 1 .. Len(h) : h[i] \in Entries /\ h[i].name \in Names
  BY EntryCounts
<1>2. Printed(h, b) = IF end = 0 THEN V1(Upto(Len(h)), b)
                      ELSE IF FirstLine[h[end].name] = null THEN V1(Upto(end - 1), TRUE)
                      ELSE V1(Upto(end), FALSE)
  BY DEF Printed, SelectInSeq
<1>3. \A l, c : V1(l, c).form = "v1" /\ V1(l, c).lines = l /\ V1(l, c).broken = c
  BY DEF V1
<1>4. \A n \in Names : /\ FirstLine[n] = null => n \in EndsReading
                       /\ n \in EndsReading => FirstLine[n] # n
  BY HistoryAssumption
<1>5. \A i \in 1 .. Len(h) : Plain(SubSeq(h, 1, i)) => \A j \in 1 .. i : FirstLine[h[j].name] = h[j].name
  <2> SUFFICES ASSUME NEW i \in 1 .. Len(h), Plain(SubSeq(h, 1, i)), NEW j \in 1 .. i
               PROVE  FirstLine[h[j].name] = h[j].name
    OBVIOUS
  <2> DEFINE s == SubSeq(h, 1, i)
  <2>1. Len(s) = i /\ s \in Seq(Entries) /\ \A k \in 1 .. i : s[k] = h[k]
    BY <1>1
  <2>2. DOMAIN s = 1 .. i
    BY <2>1, LenProperties
  <2>3. Plain(s)
    OBVIOUS
  <2> HIDE DEF s
  <2> QED BY <2>1, <2>2, <2>3 DEF Plain
<1>6. CASE I = {}
  <2>1. Printed(h, b).form = "v1" /\ Printed(h, b).lines = Upto(Len(h)) /\ Printed(h, b).broken = b
    <3>1. Printed(h, b) = V1(Upto(Len(h)), b)
      BY <1>2, <1>6
    <3> HIDE DEF Upto
    <3> QED BY <1>3, <3>1
  <2>2. Len(h) \in 0 .. Len(h) /\ \A i \in 1 .. Len(h) : FirstLine[h[i].name] # null
    BY <1>1, <1>4, <1>6
  <2>3. PrintOf(h, Upto(Len(h))) /\ Len(Upto(Len(h))) = Len(h)
    BY <2>2, FirstLinesPrinted
  <2> DEFINE l == Upto(Len(h))
  <2>4. PrintOf(h, l) /\ Len(l) = Len(h)
    BY <2>3
  <2> HIDE DEF l
  <2>5. ASSUME Plain(h) PROVE l = h
    <3>1. l \in Seq(Entries) /\ \A i \in 1 .. Len(h) : l[i] = FirstOf(h[i])
      BY <2>4 DEF PrintOf
    <3>2. \A i \in 1 .. Len(h) : FirstOf(h[i]) = h[i]
      BY <1>1, <2>5, FirstOfEntry DEF Plain
    <3>3. \A i \in 1 .. Len(h) : l[i] = h[i]
      BY <3>1, <3>2
    <3> QED BY <2>4, <3>1, <3>3, SeqEqual
  <2>6. \A i \in DOMAIN h : i <= Len(l)
    BY <1>1, <2>4
  <2>7. Printed(h, b).lines = l
    BY <2>1 DEF l
  <2> QED BY <2>1, <2>4, <2>5, <2>6, <2>7
<1>7. CASE I # {}
  <2>1. I \in SUBSET Nat
    BY <1>1
  <2>2. end = Min(I)
    BY <1>7
  <2> HIDE DEF I
  <2>3. \E x \in I : \A y \in I : x <= y
    BY <1>7, <2>1, LeastExists
  <2>4. Min(I) \in I /\ \A y \in I : Min(I) <= y
    BY <2>3 DEF Min
  <2>5. end \in I /\ \A y \in I : end <= y
    BY <2>2, <2>4
  <2> HIDE DEF end
  <2>6. /\ end \in 1 .. Len(h) /\ h[end].name \in EndsReading
        /\ \A i \in 1 .. end - 1 : h[i].name \notin EndsReading
    BY <1>1, <2>5 DEF I
  <2>7. \A i \in 1 .. end - 1 : FirstLine[h[i].name] # null
    BY <1>1, <1>4, <2>6
  <2>8. FirstLine[h[end].name] # h[end].name
    BY <1>1, <1>4, <2>6
  <2>9. ~Plain(h)
    BY <1>1, <2>6, <2>8 DEF Plain
  <2>10. \A i \in 1 .. Len(h) : Plain(SubSeq(h, 1, i)) => i <= end - 1
    BY <1>1, <1>5, <2>6, <2>8
  <2>11. CASE FirstLine[h[end].name] = null
    <3>1. Printed(h, b) = V1(Upto(end - 1), TRUE)
      <4>1. end # 0
        BY <2>6
      <4> HIDE DEF Upto
      <4> QED BY <1>2, <2>11, <4>1, Zenon
    <3>2. end - 1 \in 0 .. Len(h)
      BY <1>1, <2>6
    <3> DEFINE l == Upto(end - 1)
    <3>3. PrintOf(h, l) /\ Len(l) = end - 1
      BY <2>7, <3>2, FirstLinesPrinted
    <3>4. Printed(h, b) = V1(l, TRUE)
      BY <3>1
    <3> HIDE DEF l
    <3>5. Printed(h, b).form = "v1" /\ Printed(h, b).lines = l /\ Printed(h, b).broken \in BOOLEAN
      <4>1. V1(l, TRUE).form = "v1" /\ V1(l, TRUE).lines = l /\ V1(l, TRUE).broken = TRUE
        BY DEF V1
      <4> QED BY <3>4, <4>1
    <3> QED BY <1>1, <2>9, <2>10, <3>3, <3>5
  <2>12. CASE FirstLine[h[end].name] # null
    <3>1. Printed(h, b) = V1(Upto(end), FALSE)
      <4>1. end # 0
        BY <2>6
      <4> HIDE DEF Upto
      <4> QED BY <1>2, <2>12, <4>1, Zenon
    <3>2. end \in 0 .. Len(h) /\ \A i \in 1 .. end : FirstLine[h[i].name] # null
      BY <1>1, <2>6, <2>7, <2>12
    <3> DEFINE l == Upto(end)
    <3>3. PrintOf(h, l) /\ Len(l) = end
      BY <3>2, FirstLinesPrinted
    <3>4. Printed(h, b) = V1(l, FALSE)
      BY <3>1
    <3> HIDE DEF l
    <3>5. Printed(h, b).form = "v1" /\ Printed(h, b).lines = l /\ Printed(h, b).broken \in BOOLEAN
      <4>1. V1(l, FALSE).form = "v1" /\ V1(l, FALSE).lines = l /\ V1(l, FALSE).broken = FALSE
        BY DEF V1
      <4> QED BY <3>4, <4>1
    <3>6. \A i \in DOMAIN h : Plain(SubSeq(h, 1, i)) => i <= end
      BY <1>1, <2>6, <2>10
    <3> QED BY <2>9, <3>3, <3>5, <3>6
  <2> QED BY <2>11, <2>12
<1> QED
  BY <1>6, <1>7

LEMMA HInit == Init => HInv
<1> SUFFICES ASSUME Init PROVE HInv
  OBVIOUS
<1>1. /\ history = <<>> /\ state = "off" /\ crashes = 0 /\ torn = FALSE
      /\ file \in OldFiles \cup {Missing}
  BY DEF Init
<1>2. (file.form = "v0" \/ file.form = "none") /\ file.broken = FALSE /\ file.lines \in Seq(V0Lines)
  <2>1. CASE file = Missing
    <3>1. <<>> \in Seq(V0Lines)
      OBVIOUS
    <3> QED BY <2>1, <3>1 DEF Missing
  <2>2. CASE file \in OldFiles
    <3>1. PICK lines \in SeqOf(V0Lines, MaxV0Lines) : file = V0(lines)
      BY <2>2 DEF OldFiles
    <3>2. PICK m \in 0 .. MaxV0Lines : lines \in [1 .. m -> V0Lines]
      BY DEF SeqOf
    <3>3. m \in Nat
      BY HistoryAssumption
    <3>4. lines \in Seq(V0Lines)
      BY <3>2, <3>3, SeqDef
    <3> QED BY <3>1, <3>4 DEF V0
  <2> QED BY <1>1, <2>1, <2>2
<1>3. MaxCrashes \in Nat
  BY HistoryAssumption
<1>4. TypeOK
  <2>1. crashes \in 0 .. MaxCrashes
    BY <1>1, <1>3
  <2>2. file.lines \in Seq(Entries \cup V0Lines) /\ history \in Seq(Entries)
    BY <1>1, <1>2, EmptyHistory, LinesTyped
  <2> QED BY <1>1, <1>2, <2>1, <2>2, Zenon DEF TypeOK
<1> QED
  BY <1>1, <1>2, <1>4, EmptyHistory, Zenon
  DEF HInv, FileFits, NamesDistinct, Saved, Whole, Readable, NothingYet

\* The first half of write() loses nothing that was in order in memory.
LEMMA TruncateKeeps ==
    ASSUME HInv, NEW h \in Seq(Entries), Descending(h), torn \/ Distinct(h),
           Truncate(h), UNCHANGED <<crashes, torn>>
    PROVE  HInv'
<1>1. history' = h /\ file' = V0(<<>>) /\ state' = "write" /\ crashes' = crashes /\ torn' = torn
  BY DEF Truncate, Empty
<1>2. <<>> \in Seq(V0Lines)
  OBVIOUS
<1>3. file'.form = "v0" /\ file'.broken = FALSE /\ file'.lines = <<>>
  BY <1>1 DEF V0
<1>4. TypeOK'
  <2>1. file'.lines \in Seq(Entries \cup V0Lines)
    BY <1>2, <1>3, LinesTyped
  <2> QED BY <1>1, <1>3, <2>1, Zenon DEF HInv, TypeOK
<1>5. FileFits'
  BY <1>2, <1>3 DEF FileFits
<1>6. Descending(history)' /\ NamesDistinct'
  <2>1. Descending(history)'
    BY <1>1 DEF Descending
  <2>2. Distinct(h) => Distinct(history)'
    BY <1>1 DEF Distinct
  <2>3. CASE torn
    BY <1>1, <2>1, <2>3, Zenon DEF NamesDistinct
  <2>4. CASE Distinct(h)
    BY <2>1, <2>2, <2>4, Zenon DEF NamesDistinct
  <2> QED BY <2>3, <2>4
<1>7. Saved' /\ NothingYet'
  BY <1>1, <1>3 DEF Saved, NothingYet
<1>8. Whole' /\ Readable'
  BY <1>1, <1>3, Zenon DEF Whole, Readable
<1> QED
  BY <1>4, <1>5, <1>6, <1>7, <1>8 DEF HInv

\* What write() has got out of the buffer is in order as well.
LEMMA PrefixDescends ==
    ASSUME NEW h \in Seq(Entries), Descending(h), NEW g \in Seq(Entries), Len(g) <= Len(h),
           \A i \in 1 .. Len(g) : g[i].count = h[i].count
    PROVE  Descending(g)
<1>1. /\ Len(h) \in Nat /\ DOMAIN h = 1 .. Len(h) /\ Len(g) \in Nat /\ DOMAIN g = 1 .. Len(g)
  BY LenProperties
<1>2. \A i \in DOMAIN g : i \in DOMAIN h
  BY <1>1
<1> QED
  BY <1>1, <1>2 DEF Descending

\* What has been printed of a history is in order, and counts are as they were.
LEMMA PrintDescends ==
    ASSUME NEW h \in Seq(Entries), Descending(h), NEW g, PrintOf(h, g)
    PROVE  Descending(g) /\ \A i \in 1 .. Len(g) : g[i].count = h[i].count
<1>1. /\ g \in Seq(Entries) /\ Len(g) <= Len(h) /\ Len(g) \in Nat /\ Len(h) \in Nat
      /\ \A i \in 1 .. Len(g) : g[i] = FirstOf(h[i])
  BY LenProperties DEF PrintOf
<1>2. \A i \in 1 .. Len(g) : h[i] \in Entries
  BY <1>1, EntryCounts
<1>3. \A i \in 1 .. Len(g) : g[i].count = h[i].count
  BY <1>1, <1>2, FirstOfEntry
<1> QED
  BY <1>1, <1>3, PrefixDescends

\* A full buffer is written out: the file holds the first lines, but for the name of the
\* last one.
LEMMA BufferWritten ==
    ASSUME HInv, write_buffer
    PROVE  /\ file'.form = "v1" /\ file'.broken \in BOOLEAN
           /\ file'.lines \in Seq(Entries) /\ Len(file'.lines) <= Len(history)
           /\ Plain(file'.lines)
           /\ \A i \in 1 .. Len(file'.lines) : file'.lines[i].count = history[i].count
           /\ \A i \in 1 .. Len(file'.lines) - 1 : file'.lines[i].name = FirstLine[history[i].name]
<1>1. history \in Seq(Entries)
  BY DEF HInv, TypeOK
<1>2. Len(history) > BufferLines
  BY DEF write_buffer
<1>3. Len(history) \in Nat /\ BufferLines \in Nat \ {0} /\ DOMAIN history = 1 .. Len(history)
  BY <1>1, HistoryAssumption, LenProperties
<1> DEFINE whole == SubSeq(history, 1, BufferLines)
           next  == history[BufferLines + 1]
           Begins(g) == /\ g \in Seq(Entries) /\ Len(g) <= Len(history)
                        /\ \A i \in 1 .. Len(g) : g[i].count = history[i].count
                        /\ \A i \in 1 .. Len(g) - 1 : g[i] = history[i]
<1>4. /\ whole \in Seq(Entries) /\ Len(whole) = BufferLines
      /\ \A i \in 1 .. BufferLines : whole[i] = history[i]
  BY <1>1, <1>2, <1>3
<1>5. next \in Entries /\ BufferLines + 1 \in 1 .. Len(history)
  BY <1>1, <1>2, <1>3
<1>6. \/ file' = Printed(whole, FALSE) \/ file' = Printed(whole, TRUE)
      \/ \E n \in Cut[next.name] : file' = Printed(Append(whole, [next EXCEPT !.name = n]), FALSE)
  BY DEF write_buffer
<1> HIDE DEF whole, next
<1>7. Begins(whole)
  <2>1. \A i \in 1 .. Len(whole) - 1 : i \in 1 .. Len(whole)
    BY <1>3, <1>4
  <2> QED BY <1>2, <1>3, <1>4, <2>1
<1>8. ASSUME NEW n \in Cut[next.name] PROVE Begins(Append(whole, [next EXCEPT !.name = n]))
  <2> DEFINE e == [next EXCEPT !.name = n]
             g == Append(whole, e)
  <2>2. next.name \in Names
    BY <1>5 DEF Entries
  <2>3. n \in Names
    BY <2>2, HistoryAssumption
  <2>4. e \in Entries /\ e.count = next.count
    BY <1>5, <2>3 DEF Entries
  <2> HIDE DEF e
  <2>5. /\ g \in Seq(Entries) /\ Len(g) = BufferLines + 1
        /\ \A i \in 1 .. BufferLines : g[i] = whole[i]
        /\ g[BufferLines + 1] = e
    BY <1>3, <1>4, <2>4, AppendProperties
  <2> HIDE DEF g
  <2>6. \A i \in 1 .. Len(g) - 1 : i \in 1 .. BufferLines /\ g[i] = history[i]
    BY <1>3, <1>4, <2>5
  <2>7. \A i \in 1 .. Len(g) : g[i].count = history[i].count
    <3> SUFFICES ASSUME NEW i \in 1 .. BufferLines + 1 PROVE g[i].count = history[i].count
      BY <2>5
    <3>1. CASE i \in 1 .. BufferLines
      BY <1>4, <2>5, <3>1
    <3>2. CASE i = BufferLines + 1
      BY <2>4, <2>5, <3>2 DEF next
    <3> QED BY <1>3, <3>1, <3>2
  <2>8. Len(g) <= Len(history)
    BY <1>2, <1>3, <2>5
  <2>9. Begins(g)
    BY <2>5, <2>6, <2>7, <2>8
  <2> HIDE DEF Begins
  <2> QED BY <2>9 DEF g, e
<1> HIDE DEF Begins
<1>9. \E g, b : b \in BOOLEAN /\ Begins(g) /\ file' = Printed(g, b)
  <2>1. TRUE \in BOOLEAN /\ FALSE \in BOOLEAN
    OBVIOUS
  <2> QED BY <1>6, <1>7, <1>8, <2>1, Zenon
<1>10. PICK g, b : b \in BOOLEAN /\ Begins(g) /\ file' = Printed(g, b)
  BY <1>9
<1>11. /\ g \in Seq(Entries) /\ Len(g) <= Len(history) /\ Len(g) \in Nat
       /\ \A i \in 1 .. Len(g) : g[i].count = history[i].count
       /\ \A i \in 1 .. Len(g) - 1 : g[i] = history[i]
  BY <1>10, LenProperties DEF Begins
<1>12. file'.form = "v1" /\ file'.broken \in BOOLEAN /\ PrintOf(g, file'.lines)
  BY <1>10, <1>11, PrintedIs, Zenon
<1> DEFINE l == file'.lines
<1>13. /\ l \in Seq(Entries) /\ Len(l) <= Len(g) /\ Len(l) \in Nat /\ Plain(l)
       /\ \A i \in 1 .. Len(l) : l[i] = FirstOf(g[i])
  BY <1>12, LenProperties DEF PrintOf
<1> HIDE DEF l
<1>14. \A i \in 1 .. Len(l) : i \in 1 .. Len(g) /\ g[i] \in Entries
  BY <1>11, <1>13, EntryCounts
<1>15. \A i \in 1 .. Len(l) : l[i].count = history[i].count
  BY <1>11, <1>13, <1>14, FirstOfEntry
<1>16. \A i \in 1 .. Len(l) - 1 : i \in 1 .. Len(l) /\ i \in 1 .. Len(g) - 1
  BY <1>11, <1>13
<1>17. \A i \in 1 .. Len(l) - 1 : l[i].name = FirstLine[history[i].name]
  <2> SUFFICES ASSUME NEW i \in 1 .. Len(l) - 1 PROVE l[i].name = FirstLine[history[i].name]
    OBVIOUS
  <2>1. i \in 1 .. Len(l) /\ i \in 1 .. Len(g) - 1 /\ g[i] \in Entries
    BY <1>14, <1>16
  <2>2. l[i] = FirstOf(g[i]) /\ g[i] = history[i]
    BY <1>11, <1>13, <2>1
  <2>3. FirstOf(g[i]).name = FirstLine[g[i].name]
    BY <2>1, FirstOfEntry
  <2> QED BY <2>2, <2>3
<1>18. Len(l) <= Len(history)
  BY <1>3, <1>11, <1>13
<1> QED
  BY <1>12, <1>13, <1>15, <1>17, <1>18 DEF l

LEMMA WriteBufferKeeps == HInv /\ write_buffer => HInv'
<1> SUFFICES ASSUME HInv, write_buffer PROVE HInv'
  OBVIOUS
<1>1. /\ TypeOK /\ Descending(history) /\ NamesDistinct /\ history \in Seq(Entries)
  BY DEF HInv, TypeOK
<1>2. /\ state' = "flush" /\ history' = history /\ crashes' = crashes /\ torn' = torn
  BY DEF write_buffer
<1>3. /\ file'.form = "v1" /\ file'.broken \in BOOLEAN /\ file'.lines \in Seq(Entries)
  BY BufferWritten
<1>3a. Plain(file'.lines)
  BY BufferWritten
<1>4. Descending(file'.lines)
  <2> DEFINE g == file'.lines
  <2>1. g \in Seq(Entries) /\ Len(g) <= Len(history) /\ \A i \in 1 .. Len(g) : g[i].count = history[i].count
    BY BufferWritten
  <2> HIDE DEF g
  <2>2. Descending(g)
    BY <1>1, <2>1, PrefixDescends
  <2> QED BY <2>2 DEF g
<1>5. TypeOK'
  BY <1>1, <1>2, <1>3, LinesTyped DEF TypeOK
<1> QED
  BY <1>1, <1>2, <1>3, <1>3a, <1>4, <1>5
  DEF HInv, FileFits, NamesDistinct, Saved, Whole, Readable, NothingYet, Plain

\* Every operation of HistoryManager keeps the invariant, as does an end of the program.
LEMMA HStep == HInv /\ [Next]_vars => HInv'
<1> SUFFICES ASSUME HInv, [Next]_vars PROVE HInv'
  OBVIOUS
<1> USE DEF HInv
<1>0. /\ TypeOK /\ history \in Seq(Entries) /\ Descending(history)
      /\ torn \in BOOLEAN /\ file.broken \in BOOLEAN
  BY DEF TypeOK
<1>1. CASE ctor_new
  <2>1. /\ state = "off" /\ state' = "run" /\ history' = history /\ crashes' = crashes /\ torn' = torn
        /\ file' = V0(<<>>)
    BY <1>1 DEF ctor_new, Empty
  <2>2. file'.form = "v0" /\ file'.broken = FALSE /\ file'.lines = <<>> /\ <<>> \in Seq(V0Lines)
    BY <2>1 DEF V0
  <2>3. TypeOK'
    <3>1. file'.lines \in Seq(Entries \cup V0Lines)
      BY <2>2, LinesTyped
    <3> QED BY <1>0, <2>1, <2>2, <3>1, Zenon DEF TypeOK
  <2>4. FileFits' /\ Saved' /\ NothingYet'
    BY <2>1, <2>2 DEF FileFits, Saved, NothingYet
  <2>5. Descending(history)' /\ NamesDistinct'
    BY <1>0, <2>1, Zenon DEF NamesDistinct, Descending, Distinct
  <2>6. Whole' /\ Readable'
    BY <2>1, <2>2, Zenon DEF Whole, Readable
  <2> QED BY <2>3, <2>4, <2>5, <2>6
<1>2. CASE ctor_read
  <2>1. state = "off" /\ file.form = "v1" /\ file' = file /\ crashes' = crashes /\ torn' = torn
    BY <1>2 DEF ctor_read
  <2>2. file.lines \in Seq(Entries) /\ Descending(file.lines) /\ Plain(file.lines)
    BY <2>1 DEF FileFits
  <2>3. torn \/ (~file.broken /\ Distinct(file.lines))
    BY <2>1, Zenon DEF Whole
  <2>4. CASE file.broken /\ state' = "failed" /\ UNCHANGED history
    <3>1. torn /\ history' = <<>>
      BY <2>1, <2>3, <2>4, Zenon DEF NothingYet
    <3>2. TypeOK'
      BY <1>0, <2>1, <2>4, Zenon DEF TypeOK
    <3>3. FileFits' /\ Saved' /\ NothingYet'
      BY <2>1, <2>2, <2>4, <3>1 DEF FileFits, Saved, NothingYet, Plain
    <3>4. Descending(history)'
      BY <1>0, <2>4 DEF Descending
    <3> QED BY <2>1, <3>1, <3>2, <3>3, <3>4, Zenon DEF NamesDistinct, Whole, Readable
  <2>5. CASE ~file.broken /\ state' = "run" /\ history' = Read(file.lines)
    <3>1. history' = file.lines
      BY <2>2, <2>5, ReadRestores
    <3>2. TypeOK'
      BY <1>0, <2>1, <2>2, <2>5, <3>1, Zenon DEF TypeOK
    <3>3. FileFits' /\ NothingYet'
      BY <2>1, <2>2, <2>5, <3>1 DEF FileFits, NothingYet, Plain
    <3>3a. Saved'
      <4>1. Printed(file.lines, FALSE).lines = file.lines /\ Printed(file.lines, FALSE).broken = FALSE
        BY <2>2, PrintedIs
      <4>2. file.broken = FALSE
        BY <1>0, <2>5
      <4>3. Printed(history, FALSE)' = Printed(file.lines, FALSE)
        BY <3>1
      <4> QED BY <2>1, <4>1, <4>2, <4>3 DEF Saved
    <3>4. Descending(history)'
      BY <2>2, <3>1 DEF Descending
    <3>5. NamesDistinct'
      BY <2>1, <2>3, <3>1, Zenon DEF NamesDistinct, Distinct
    <3>6. Whole' /\ Readable'
      BY <2>1, <2>3, <2>5, Zenon DEF Whole, Readable
    <3> QED BY <3>2, <3>3, <3>3a, <3>4, <3>5, <3>6
  <2> QED BY <1>2, <2>4, <2>5 DEF ctor_read
<1>3. CASE convert_history_from_v0
  <2> DEFINE h == FromV0(file.lines, lookup_by_ID, null)
  <2>1. file.lines \in Seq(V0Lines) /\ Truncate(h) /\ UNCHANGED <<crashes, torn>>
    BY <1>3 DEF convert_history_from_v0, FileFits
  <2>2. h \in Seq(Entries) /\ Descending(h) /\ Distinct(h)
    BY <2>1, FromV0Keeps DEF Logs
  <2> HIDE DEF h
  <2> QED BY <2>1, <2>2, TruncateKeeps
<1>4. ASSUME NEW name \in Names, increment(name) PROVE HInv'
  <2> DEFINE h == Incremented(history, name)
  <2>1. CountOf(history, name) < MaxCount /\ Truncate(h) /\ UNCHANGED <<crashes, torn>>
    BY <1>4 DEF increment
  <2>2. h \in Seq(Entries) /\ Descending(h) /\ (Distinct(history) => Distinct(h))
    BY <1>0, <2>1, IncrementedKeeps
  <2>3. torn \/ Distinct(h)
    BY <2>2, Zenon DEF NamesDistinct
  <2> HIDE DEF h
  <2> QED BY <2>1, <2>2, <2>3, TruncateKeeps
<1>5. ASSUME NEW i \in DOMAIN history, remove_obsolete_entry(i) PROVE HInv'
  <2> DEFINE h == RemoveAt(history, i)
  <2>1. Truncate(h) /\ UNCHANGED <<crashes, torn>>
    BY <1>5 DEF remove_obsolete_entry
  <2>2. h \in Seq(Entries) /\ Descending(h) /\ (Distinct(history) => Distinct(h))
    BY <1>0, RemoveKeeps
  <2>3. torn \/ Distinct(h)
    BY <2>2, Zenon DEF NamesDistinct
  <2> HIDE DEF h
  <2> QED BY <2>1, <2>2, <2>3, TruncateKeeps
<1>6. CASE write_buffer
  BY <1>6, WriteBufferKeeps
<1>7. CASE write_rest
  <2>1. /\ file' = Printed(history, FALSE) /\ state' = "run" /\ history' = history
        /\ crashes' = crashes /\ torn' = torn
    BY <1>7 DEF write_rest
  <2> DEFINE l == Printed(history, FALSE).lines
  <2>2. /\ file'.form = "v1" /\ file'.lines = l /\ file'.broken \in BOOLEAN /\ PrintOf(history, l)
        /\ Plain(history) => l = history /\ file'.broken = FALSE
    BY <1>0, <2>1, PrintedIs
  <2>2a. Printed(history, FALSE)' = Printed(history, FALSE)
    BY <2>1
  <2> HIDE DEF l
  <2>2b. l \in Seq(Entries) /\ Plain(l) /\ Descending(l)
    BY <1>0, <2>2, PrintDescends DEF PrintOf
  <2>3. TypeOK'
    <3>1. file'.lines \in Seq(Entries \cup V0Lines)
      BY <2>2, <2>2b, LinesTyped
    <3> QED BY <1>0, <2>1, <2>2, <3>1, Zenon DEF TypeOK
  <2>4. FileFits' /\ Saved' /\ NothingYet'
    <3>1. FileFits'
      BY <2>2, <2>2b DEF FileFits, Plain, Descending
    <3>2. Saved' /\ NothingYet'
      BY <2>1, <2>2, <2>2a DEF Saved, NothingYet, l
    <3> QED BY <3>1, <3>2
  <2>5. Descending(history)' /\ NamesDistinct'
    BY <1>0, <2>1, Zenon DEF NamesDistinct, Descending, Distinct
  <2>6. Whole' /\ Readable'
    <3>1. Plain(history)' <=> Plain(history)
      BY <2>1 DEF Plain
    <3>2. CASE Plain(history)
      BY <2>1, <2>2, <3>2, Zenon DEF Whole, Readable, NamesDistinct
    <3>3. CASE ~Plain(history)
      BY <2>1, <3>1, <3>3, Zenon DEF Whole, Readable
    <3> QED BY <3>2, <3>3
  <2> QED BY <2>3, <2>4, <2>5, <2>6
<1>8. CASE stop
  <2>1. /\ state' = "off" /\ history' = <<>> /\ file' = file
        /\ torn' = (torn \/ state = "flush" \/ (state = "run" /\ ~Plain(history)))
        /\ state \in {"run", "write", "flush"}
        /\ crashes' = crashes \/ (crashes < MaxCrashes /\ crashes' = crashes + 1)
    BY <1>8 DEF stop
  <2>2. crashes' \in 0 .. MaxCrashes
    BY <2>1, HistoryAssumption DEF TypeOK
  <2>3. TypeOK'
    BY <1>0, <2>1, <2>2, EmptyHistory, Zenon DEF TypeOK
  <2>4. FileFits' /\ Saved' /\ NothingYet'
    BY <2>1 DEF FileFits, Saved, NothingYet, Plain
  <2>5. Descending(history)' /\ NamesDistinct'
    BY <2>1, EmptyHistory, Zenon DEF NamesDistinct, Descending, Distinct
  <2>6. Whole' /\ Readable'
    BY <2>1, Zenon DEF Whole, Readable
  <2> QED BY <2>3, <2>4, <2>5, <2>6
<1>9. CASE UNCHANGED vars
  <2>1. UNCHANGED <<file, history, state, crashes, torn>>
    BY <1>9 DEF vars
  <2>2. Printed(history, FALSE)' = Printed(history, FALSE) /\ (Plain(history)' <=> Plain(history))
    BY <2>1 DEF Plain
  <2>3. Saved' /\ Whole'
    BY <2>1, <2>2 DEF Saved, Whole, Distinct
  <2> QED BY <2>1, <2>3 DEF TypeOK, FileFits, NamesDistinct, Readable, NothingYet,
                            Descending, Distinct, Plain
<1> QED
  BY <1>1, <1>2, <1>3, <1>4, <1>5, <1>6, <1>7, <1>8, <1>9 DEF Next

\* The invariant holds in every behaviour.
LEMMA HistoryInvariant == Spec => []HInv
<1> QED
  BY HInit, HStep, PTL DEF Spec

-----------------------------------------------------------------------------
(* The theorems *)

\* The types hold in every behaviour, in particular no count passes its bound and
\* every name in memory or in the file is a name.
THEOREM HistoryTypeCorrect == Spec => []TypeOK
<1>1. HInv => TypeOK
  BY DEF HInv
<1> QED
  BY <1>1, HistoryInvariant, PTL

\* The claim of HistoryManager.cc:179, "all names in HistoryManager shall be unique too",
\* for any log, conversion, number of launches and number of kills between two saves:
\* do_dmenu() aborts on a repeated name.
THEOREM HistoryNamesDistinct == Spec => []NamesDistinct
<1>1. HInv => NamesDistinct
  BY DEF HInv
<1> QED
  BY <1>1, HistoryInvariant, PTL

\* What write() has saved is what read_file() reads, entry by entry and in the same
\* order, whatever the counts and however many entries share one: all of it when no name
\* has a newline, and else the entries in front of the first such name.
THEOREM HistorySavedIsRestored == Spec => []SavedIsRestored
<1>1. HInv => SavedIsRestored
  <2> SUFFICES ASSUME HInv, state = "run", file.form = "v1"
               PROVE  LET next == Read(file.lines)
                      IN  /\ Descending(history)
                          /\ Plain(history) => ~file.broken /\ next = history
                          /\ \A i \in DOMAIN history :
                                Plain(SubSeq(history, 1, i)) => i \in DOMAIN next /\ next[i] = history[i]
    BY DEF SavedIsRestored
  <2> DEFINE l == Printed(history, FALSE).lines
  <2>1. history \in Seq(Entries) /\ Descending(history)
    BY DEF HInv, TypeOK
  <2>2. file.lines = l /\ file.broken = Printed(history, FALSE).broken
    BY DEF HInv, Saved
  <2>3. /\ PrintOf(history, l)
        /\ Plain(history) => l = history /\ Printed(history, FALSE).broken = FALSE
        /\ \A i \in DOMAIN history : Plain(SubSeq(history, 1, i)) => i <= Len(l)
    BY <2>1, PrintedIs
  <2> HIDE DEF l
  <2>4. l \in Seq(Entries) /\ Descending(l) /\ \A i \in 1 .. Len(l) : l[i] = FirstOf(history[i])
    BY <2>1, <2>3, PrintDescends DEF PrintOf
  <2>5. Read(l) = l
    BY <2>4, ReadRestores
  <2>6. Len(l) \in Nat /\ DOMAIN l = 1 .. Len(l) /\ DOMAIN history = 1 .. Len(history) /\ Len(history) \in Nat
    BY <2>1, <2>4, LenProperties
  <2>7. ASSUME NEW i \in DOMAIN history, Plain(SubSeq(history, 1, i))
        PROVE  i \in DOMAIN l /\ l[i] = history[i]
    <3>1. i \in 1 .. Len(l)
      BY <2>3, <2>6, <2>7
    <3> DEFINE s == SubSeq(history, 1, i)
    <3>2. s \in Seq(Entries) /\ Len(s) = i /\ s[i] = history[i]
      BY <2>1, <2>6, <2>7
    <3>3. Plain(s)
      BY <2>7
    <3> HIDE DEF s
    <3>4. i \in DOMAIN s
      BY <2>6, <2>7, <3>2, LenProperties
    <3>5. FirstLine[history[i].name] = history[i].name
      BY <3>2, <3>3, <3>4 DEF Plain
    <3>6. history[i] \in Entries
      BY <2>1, <2>6, <2>7, EntryCounts
    <3>7. FirstOf(history[i]) = history[i]
      BY <3>5, <3>6, FirstOfEntry
    <3> QED BY <2>4, <2>6, <3>1, <3>7
  <2> QED BY <2>1, <2>2, <2>3, <2>5, <2>7
<1> QED
  BY <1>1, HistoryInvariant, PTL

\* A kill between the truncation and the end of a save that fits into the stdio buffer
\* leaves an empty file or a complete one: the constructor never refuses what is left,
\* unless a name with a newline was saved.
THEOREM HistoryAllOrNothing == Spec => []AllOrNothing
<1>1. HInv => AllOrNothing
  <2> SUFFICES ASSUME HInv PROVE AllOrNothing
    OBVIOUS
  <2>1. torn \/ state # "failed"
    BY DEF HInv, Readable
  <2>2. ASSUME state = "off", file.form = "v1"
        PROVE  torn \/ (~file.broken /\ Distinct(file.lines) /\ Descending(file.lines))
    <3>1. Descending(file.lines)
      BY <2>2 DEF HInv, FileFits
    <3>2. state # "flush"
      BY <2>2
    <3> QED BY <2>2, <3>1, <3>2, Zenon DEF HInv, Whole
  <2> QED BY <2>1, <2>2, Zenon DEF AllOrNothing
<1> QED
  BY <1>1, HistoryInvariant, PTL

-----------------------------------------------------------------------------
(* The refinement of UsageLog *)

\* An entry that was emplaced under a new name is found there, and without it the
\* container is what it was.
LEMMA EmplaceUndone ==
    ASSUME NEW h \in Seq(Entries), Descending(h), Distinct(h),
           NEW count \in 1 .. MaxCount, NEW name \in Names, name \notin NamesIn(h)
    PROVE  /\ name \in NamesIn(emplace(h, count, name))
           /\ CountOf(emplace(h, count, name), name) = count
           /\ RemoveAt(emplace(h, count, name), Find(emplace(h, count, name), name)) = h
<1> DEFINE e == [count |-> count, name |-> name]
           g == emplace(h, count, name)
<1>1. PICK k \in 1 .. Len(h) + 1 : g = InsertAt(h, k, e)
  BY EmplacePlace
<1>2. e \in Entries /\ e.count = count /\ e.name = name
  BY DEF Entries
<1>3. g \in Seq(Entries) /\ Distinct(g)
  BY EmplaceKeeps
<1>4. Len(g) = Len(h) + 1
  BY EmplaceKeeps
<1> HIDE DEF e, g
<1>5. \A i \in 1 .. Len(h) + 1 : g[i] = IF i < k THEN h[i] ELSE IF i = k THEN e ELSE h[i - 1]
  <2>1. ASSUME NEW i \in 1 .. Len(h) + 1
        PROVE  InsertAt(h, k, e)[i] = IF i < k THEN h[i] ELSE IF i = k THEN e ELSE h[i - 1]
    BY <1>2, InsertAtElements
  <2> QED BY <1>1, <2>1
<1>6. Len(h) \in Nat /\ DOMAIN g = 1 .. Len(h) + 1
  BY <1>3, <1>4, LenProperties
<1>7. k \in DOMAIN g /\ g[k] = e
  BY <1>5, <1>6
<1>8. name \in NamesIn(g)
  BY <1>2, <1>7 DEF NamesIn
<1>9. Find(g, name) = k
  <2>1. Find(g, name) \in DOMAIN g /\ g[Find(g, name)].name = name
    BY <1>3, <1>8, FindName
  <2> QED BY <1>2, <1>3, <1>7, <2>1 DEF Distinct
<1>10. CountOf(g, name) = count
  BY <1>2, <1>7, <1>8, <1>9 DEF CountOf
<1> DEFINE r == RemoveAt(g, k)
<1>11. k \in 1 .. Len(g)
  BY <1>4
<1>12. r \in Seq(Entries)
  BY <1>3, <1>11, RemoveAtElements
<1>13. Len(r) = Len(g) - 1
  BY <1>3, <1>11, RemoveAtElements
<1>14. \A i \in 1 .. Len(g) - 1 : r[i] = IF i < k THEN g[i] ELSE g[i + 1]
  BY <1>3, <1>11, RemoveAtElements
<1> HIDE DEF r
<1>15. Len(r) = Len(h)
  BY <1>4, <1>6, <1>13
<1>16. \A i \in 1 .. Len(h) : r[i] = h[i]
  BY <1>4, <1>5, <1>6, <1>14
<1>17. r = h
  BY <1>12, <1>15, <1>16, SeqEqual
<1> QED
  BY <1>8, <1>9, <1>10, <1>17 DEF g, r

\* A launch is counted once and moves one entry; the others stay in order.
LEMMA IncrementedLaunches ==
    ASSUME NEW h \in Seq(Entries), Descending(h), Distinct(h), NEW name \in Names,
           CountOf(h, name) < MaxCount
    PROVE  /\ CountOf(Incremented(h, name), name) = CountOf(h, name) + 1
           /\ name \in NamesIn(Incremented(h, name))
           /\ RemoveAt(Incremented(h, name), Find(Incremented(h, name), name)) =
                 IF name \in NamesIn(h) THEN RemoveAt(h, Find(h, name)) ELSE h
<1> DEFINE i == Find(h, name)
           g == Incremented(h, name)
<1>1. /\ Len(h) \in Nat /\ DOMAIN h = 1 .. Len(h) /\ MaxCount \in Nat
      /\ \A j \in 1 .. Len(h) : h[j].count \in 1 .. MaxCount
  BY EntryCounts
<1>2. CASE i = 0
  <2>1. g = emplace(h, 1, name) /\ name \notin NamesIn(h)
    BY <1>1, <1>2, FindName DEF Incremented
  <2>2. CountOf(h, name) = 0
    BY <2>1 DEF CountOf
  <2>3. 1 \in 1 .. MaxCount
    BY <1>1, <2>2
  <2> QED BY <2>1, <2>2, <2>3, EmplaceUndone
<1>3. CASE i # 0
  <2>1. i \in DOMAIN h /\ h[i].name = name
    BY <1>3, FindName
  <2>2. g = emplace(RemoveAt(h, i), h[i].count + 1, name)
    BY <1>3 DEF Incremented
  <2>3. CountOf(h, name) = h[i].count /\ name \in NamesIn(h)
    BY <2>1 DEF CountOf, NamesIn
  <2> HIDE DEF i, g
  <2> DEFINE r == RemoveAt(h, i)
             c == h[i].count + 1
  <2>4. c \in 1 .. MaxCount
    BY <1>1, <2>1, <2>3
  <2>5. r \in Seq(Entries) /\ Descending(r) /\ Distinct(r) /\ name \notin NamesIn(r)
    BY <2>1, RemoveKeeps
  <2>6. g = emplace(r, c, name)
    BY <2>2
  <2>7. c = CountOf(h, name) + 1
    BY <2>3
  <2> HIDE DEF r, c
  <2>8. CountOf(g, name) = c /\ name \in NamesIn(g) /\ RemoveAt(g, Find(g, name)) = r
    BY <2>4, <2>5, <2>6, EmplaceUndone
  <2> QED BY <2>3, <2>7, <2>8 DEF g, r, i
<1> QED
  BY <1>2, <1>3

\* What a kill would leave of the log: all, nothing or a beginning.
LeftBehind ==
    /\ file.form = "none" => file.lines = <<>> /\ state = "off"
    /\ state = "write" => file.form = "v0" /\ file.lines = <<>>
    /\ state = "run" /\ file.form = "v0" => file.lines = <<>> /\ history = <<>>
    /\ state = "flush" =>
          /\ file.form = "v1" /\ Len(file.lines) <= Len(history)
          /\ \A i \in 1 .. Len(file.lines) : file.lines[i].count = history[i].count
          /\ \A i \in 1 .. Len(file.lines) - 1 : file.lines[i].name = FirstLine[history[i].name]

LEMMA LeftBehindInit == Init => LeftBehind
<1> SUFFICES ASSUME Init PROVE LeftBehind
  OBVIOUS
<1>1. state = "off" /\ (file = Missing \/ \E lines : file = V0(lines))
  BY DEF Init, OldFiles
<1>2. file.form = "none" => file.lines = <<>>
  BY <1>1 DEF Missing, V0
<1> QED
  BY <1>1, <1>2 DEF LeftBehind

LEMMA LeftBehindStep == HInv /\ LeftBehind /\ [Next]_vars => LeftBehind'
<1> SUFFICES ASSUME HInv, LeftBehind, [Next]_vars PROVE LeftBehind'
  OBVIOUS
<1>1. ASSUME NEW h, Truncate(h) PROVE LeftBehind'
  BY <1>1 DEF Truncate, Empty, V0, LeftBehind
<1>2. CASE ctor_new
  <2>1. state = "off" /\ state' = "run" /\ history' = history /\ file' = V0(<<>>)
    BY <1>2 DEF ctor_new, Empty
  <2>2. history' = <<>> /\ file'.form = "v0" /\ file'.lines = <<>>
    BY <2>1 DEF HInv, NothingYet, V0
  <2> QED BY <2>1, <2>2 DEF LeftBehind
<1>3. CASE ctor_read
  <2>1. file' = file /\ file.form = "v1" /\ state' \in {"failed", "run"}
    BY <1>3 DEF ctor_read
  <2> QED BY <2>1 DEF LeftBehind
<1>4. CASE convert_history_from_v0
  BY <1>1, <1>4 DEF convert_history_from_v0
<1>5. ASSUME NEW name \in Names, increment(name) PROVE LeftBehind'
  BY <1>1, <1>5 DEF increment
<1>6. ASSUME NEW i \in DOMAIN history, remove_obsolete_entry(i) PROVE LeftBehind'
  BY <1>1, <1>6 DEF remove_obsolete_entry
<1>7. CASE write_buffer
  <2>1. state' = "flush" /\ history' = history
    BY <1>7 DEF write_buffer
  <2> QED BY <1>7, <2>1, BufferWritten DEF LeftBehind
<1>8. CASE write_rest
  <2>1. state' = "run" /\ file'.form = "v1"
    BY <1>8, PrintedIs DEF write_rest, HInv, TypeOK
  <2> QED BY <2>1 DEF LeftBehind
<1>9. CASE stop
  <2>1. state' = "off" /\ file' = file /\ state # "off"
    BY <1>9 DEF stop
  <2> QED BY <2>1 DEF LeftBehind
<1>10. CASE UNCHANGED vars
  BY <1>10 DEF vars, LeftBehind
<1> QED
  BY <1>2, <1>3, <1>4, <1>5, <1>6, <1>7, <1>8, <1>9, <1>10 DEF Next

\* Both modules speak of the same containers.
LEMMA SameContainers ==
    ASSUME NEW l, NEW n, NEW i
    PROVE  /\ UsageLog!Distinct(l) <=> Distinct(l)
           /\ UsageLog!Descending(l) <=> Descending(l)
           /\ UsageLog!NamesIn(l) = NamesIn(l)
           /\ UsageLog!Find(l, n) = Find(l, n)
           /\ UsageLog!CountOf(l, n) = CountOf(l, n)
           /\ UsageLog!RemoveAt(l, i) = RemoveAt(l, i)
<1>1. UsageLog!Distinct(l) <=> Distinct(l)
  BY DEF UsageLog!Distinct, Distinct
<1>2. UsageLog!Descending(l) <=> Descending(l)
  BY DEF UsageLog!Descending, Descending
<1>3. UsageLog!NamesIn(l) = NamesIn(l)
  BY DEF UsageLog!NamesIn, NamesIn
<1>4. UsageLog!Find(l, n) = Find(l, n)
  BY DEF UsageLog!Find, Find, UsageLog!SelectInSeq, SelectInSeq, UsageLog!Min, Min
<1>5. UsageLog!CountOf(l, n) = CountOf(l, n)
  BY <1>3, <1>4 DEF UsageLog!CountOf, CountOf
<1>6. UsageLog!RemoveAt(l, i) = RemoveAt(l, i)
  BY DEF UsageLog!RemoveAt, RemoveAt
<1> QED
  BY <1>1, <1>2, <1>3, <1>4, <1>5, <1>6

\* An empty file of the old form holds nothing.
LEMMA FromV0Empty == FromV0(<<>>, lookup_by_ID, null) = <<>>
<1> DEFINE lines == <<>>
           Converts(g) == g = [n \in 0 .. Len(lines) |->
                                  IF n = 0 THEN <<>>
                                  ELSE ConvertLine(g[n - 1], lines[n].count, lookup_by_ID[lines[n].id], null)]
           convert == CHOOSE g : Converts(g)
           w == [n \in 0 .. 0 |-> <<>>]
<1>1. FromV0(lines, lookup_by_ID, null) = convert[Len(lines)]
  BY DEF FromV0
<1>2. Len(lines) = 0 /\ 0 .. 0 = {0}
  OBVIOUS
<1>3. Converts(w)
  BY <1>2
<1>4. Converts(convert)
  <2> HIDE DEF Converts, w
  <2> QED BY <1>3
<1> HIDE DEF convert
<1>5. convert[0] = <<>>
  BY <1>2, <1>4
<1> QED
  BY <1>1, <1>2, <1>5

\* A launch, in terms of the log alone.
LEMMA LaunchIsLaunch ==
    ASSUME NEW h \in Seq(Entries), Descending(h), Distinct(h), NEW n \in Names,
           CountOf(h, n) < MaxCount, Log = h, Log' = Incremented(h, n)
    PROVE  UsageLog!Launch(n)
<1> DEFINE g == Incremented(h, n)
<1>1. Descending(g) /\ Distinct(g)
  BY IncrementedKeeps
<1>2. CountOf(g, n) = CountOf(h, n) + 1 /\ n \in NamesIn(g)
  BY IncrementedLaunches
<1>3. RemoveAt(g, Find(g, n)) = IF n \in NamesIn(h) THEN RemoveAt(h, Find(h, n)) ELSE h
  BY IncrementedLaunches
<1>4. Log' = g
  OBVIOUS
<1> HIDE DEF g
<1>5. UsageLog!Others(g, n) = UsageLog!Others(h, n)
  BY <1>2, <1>3, SameContainers DEF UsageLog!Others
<1>6. UsageLog!CountOf(g, n) = UsageLog!CountOf(h, n) + 1
  BY <1>2, SameContainers
<1>7. UsageLog!Distinct(g) /\ UsageLog!Descending(g)
  BY <1>1, SameContainers
<1> QED
  BY <1>4, <1>5, <1>6, <1>7 DEF UsageLog!Launch

\* Every step of HistoryManager is one of the log, or invisible in it.
LEMMA NextIsLog == HInv /\ LeftBehind /\ [Next]_vars => [UsageLog!Next]_Log
<1> SUFFICES ASSUME HInv, LeftBehind, [Next]_vars
             PROVE  Log' = Log \/ UsageLog!Next
  OBVIOUS
<1>0. history \in Seq(Entries) /\ Descending(history)
  BY DEF HInv, TypeOK
<1>1. state \in {"run", "write", "flush"} => Log = history
  BY DEF Log
<1>2. state' \in {"run", "write", "flush"} => Log' = history'
  BY DEF Log
<1>3. CASE ctor_new
  <2>1. state = "off" /\ file = Missing /\ state' = "run" /\ history' = history
    BY <1>3 DEF ctor_new
  <2>2. Log = <<>>
    BY <2>1 DEF Log, Missing
  <2>3. history = <<>>
    BY <2>1 DEF HInv, NothingYet
  <2> QED BY <1>2, <2>1, <2>2, <2>3
<1>4. CASE ctor_read
  <2>1. state = "off" /\ file.form = "v1" /\ file' = file
    BY <1>4 DEF ctor_read
  <2>2. Log = file.lines
    BY <2>1 DEF Log
  <2>3. CASE state' = "failed"
    BY <2>1, <2>2, <2>3 DEF Log
  <2>4. CASE state' = "run" /\ history' = Read(file.lines)
    <3>1. file.lines \in Seq(Entries) /\ Descending(file.lines)
      BY <2>1 DEF HInv, FileFits
    <3>2. history' = file.lines
      BY <2>4, <3>1, ReadRestores
    <3> QED BY <1>2, <2>2, <2>4, <3>2
  <2> QED BY <1>4, <2>3, <2>4 DEF ctor_read
<1>5. CASE convert_history_from_v0
  <2>1. /\ state = "off" /\ file.form = "v0" /\ state' = "write"
        /\ history' = FromV0(file.lines, lookup_by_ID, null)
    BY <1>5 DEF convert_history_from_v0, Truncate
  <2>2. Log = FromV0(file.lines, lookup_by_ID, null)
    BY <2>1 DEF Log
  <2> QED BY <1>2, <2>1, <2>2
<1>6. ASSUME NEW n \in Names, increment(n) PROVE UsageLog!Next
  <2>1. /\ state = "run" /\ state' = "write" /\ history' = Incremented(history, n)
        /\ CountOf(history, n) < MaxCount
    BY <1>6 DEF increment, Truncate
  <2>2. Log = history /\ Log' = Incremented(history, n)
    BY <1>1, <1>2, <2>1
  <2>3. CASE Distinct(history)
    <3>1. UsageLog!Launch(n)
      BY <1>0, <2>1, <2>2, <2>3, LaunchIsLaunch
    <3> QED BY <3>1 DEF UsageLog!Next
  <2>4. CASE ~Distinct(history)
    <3>1. ~UsageLog!Distinct(Log)
      BY <2>2, <2>4, SameContainers
    <3> QED BY <3>1 DEF UsageLog!Next, UsageLog!LaunchRepeated
  <2> QED BY <2>3, <2>4
<1>7. ASSUME NEW i \in DOMAIN history, remove_obsolete_entry(i) PROVE UsageLog!Next
  <2>1. state = "run" /\ state' = "write" /\ history' = RemoveAt(history, i)
    BY <1>7 DEF remove_obsolete_entry, Truncate
  <2>2. Log = history /\ Log' = RemoveAt(history, i)
    BY <1>1, <1>2, <2>1
  <2>3. UsageLog!Forget(i) /\ i \in DOMAIN Log
    BY <2>2, SameContainers DEF UsageLog!Forget
  <2> QED BY <2>3 DEF UsageLog!Next
<1>8. CASE write_buffer \/ write_rest
  <2>1. /\ state \in {"run", "write", "flush"} /\ state' \in {"run", "write", "flush"}
        /\ history' = history
    BY <1>8 DEF write_buffer, write_rest
  <2> QED BY <1>1, <1>2, <2>1
<1>9. CASE stop
  <2>1. state \in {"run", "write", "flush"} /\ state' = "off" /\ file' = file
    BY <1>9 DEF stop
  <2>2. Log = history
    BY <1>1, <2>1
  <2>3. Log' = IF file.form = "v0" THEN FromV0(file.lines, lookup_by_ID, null) ELSE file.lines
    BY <2>1 DEF Log
  <2>4. CASE state = "run"
    <3>1. CASE file.form = "v0"
      <4>1. file.lines = <<>> /\ history = <<>>
        BY <2>4, <3>1 DEF LeftBehind
      <4> QED BY <2>2, <2>3, <3>1, <4>1, FromV0Empty
    <3>2. CASE file.form = "v1"
      <4> DEFINE l == file.lines
      <4>1. PrintOf(history, l) /\ Log' = l
        BY <1>0, <2>3, <2>4, <3>2, PrintedIs DEF HInv, Saved
      <4> HIDE DEF l
      <4>2. /\ Len(l) <= Len(history) /\ Len(l) \in Nat /\ DOMAIN l = 1 .. Len(l)
            /\ \A i \in 1 .. Len(l) : l[i] = FirstOf(history[i])
        BY <4>1, LenProperties DEF PrintOf
      <4>3. \A i \in 1 .. Len(l) : l[i].count = history[i].count
        BY <1>0, <4>1, PrintDescends
      <4>4. \A i \in 1 .. Len(l) - 1 : i \in 1 .. Len(l) /\ history[i] \in Entries
        BY <1>0, <4>2, EntryCounts
      <4>5. \A i \in 1 .. Len(l) - 1 : l[i].name = FirstLine[history[i].name]
        BY <4>2, <4>4, FirstOfEntry
      <4>6. UsageLog!Lose
        BY <2>2, <4>1, <4>2, <4>3, <4>5 DEF UsageLog!Lose
      <4> QED BY <4>6 DEF UsageLog!Next
    <3>3. file.form # "none"
      BY <2>4 DEF LeftBehind
    <3> QED BY <3>1, <3>2, <3>3 DEF HInv, TypeOK
  <2>5. CASE state = "write"
    <3>1. Log' = <<>>
      BY <2>3, <2>5, FromV0Empty DEF LeftBehind
    <3>2. Len(Log) \in Nat
      BY <1>0, <2>2, LenProperties
    <3>3. Len(<<>>) = 0 /\ DOMAIN <<>> = {} /\ 1 .. 0 - 1 = {}
      OBVIOUS
    <3>4. UsageLog!Lose
      BY <3>1, <3>2, <3>3 DEF UsageLog!Lose
    <3> QED BY <3>4 DEF UsageLog!Next
  <2>6. CASE state = "flush"
    <3>1. /\ file.form = "v1" /\ Len(file.lines) <= Len(history)
          /\ \A i \in 1 .. Len(file.lines) : file.lines[i].count = history[i].count
          /\ \A i \in 1 .. Len(file.lines) - 1 : file.lines[i].name = FirstLine[history[i].name]
      BY <2>6 DEF LeftBehind
    <3>2. Log' = file.lines
      BY <2>3, <3>1
    <3>3. DOMAIN file.lines = 1 .. Len(file.lines)
      BY <3>1, LenProperties DEF HInv, FileFits
    <3>4. UsageLog!Lose
      BY <2>2, <3>1, <3>2, <3>3 DEF UsageLog!Lose
    <3> QED BY <3>4 DEF UsageLog!Next
  <2> QED BY <2>1, <2>4, <2>5, <2>6
<1>10. CASE UNCHANGED vars
  BY <1>10 DEF vars, Log
<1> QED
  BY <1>3, <1>4, <1>5, <1>6, <1>7, <1>8, <1>9, <1>10 DEF Next

\* HistoryManager implements the usage log: a launch is counted once and moves one entry,
\* a removal takes one, a conversion changes nothing, and a restart, after a kill at any
\* moment of a save or with names of several lines, costs no more than a tail and the
\* ends of names.
THEOREM HistoryImplementsUsageLog == Spec => ImplementsUsageLog
<1>1. Init => UsageLog!Init
  <2> SUFFICES ASSUME Init PROVE UsageLog!Init
    OBVIOUS
  <2>1. HInv /\ LeftBehind /\ state = "off"
    BY HInit, LeftBehindInit DEF Init
  <2>2. file.form = "v0" \/ file.form = "none"
    BY DEF Init, OldFiles, V0, Missing
  <2>3. Distinct(Log) /\ Descending(Log)
    <3>1. CASE file.form = "v0"
      <4>1. FromV0(file.lines, lookup_by_ID, null) \in Logs
        BY <2>1, <3>1, FromV0Keeps DEF HInv, FileFits
      <4>2. Log = FromV0(file.lines, lookup_by_ID, null)
        BY <2>1, <3>1 DEF Log
      <4> QED BY <4>1, <4>2 DEF Logs
    <3>2. CASE file.form = "none"
      <4>1. Log = <<>>
        BY <2>1, <3>2 DEF Log, LeftBehind
      <4> QED BY <4>1, EmptyHistory
    <3> QED BY <2>2, <3>1, <3>2
  <2> QED BY <2>3, SameContainers DEF UsageLog!Init
<1>2. Spec => []LeftBehind
  BY LeftBehindInit, LeftBehindStep, HistoryInvariant, PTL DEF Spec
<1> QED
  BY <1>1, <1>2, HistoryInvariant, NextIsLog, PTL
  DEF Spec, ImplementsUsageLog, UsageLog!Spec

-----------------------------------------------------------------------------
(* Lists of names *)

\* Append() to a list without repetition of a name that is not in it.
LEMMA AppendName ==
    ASSUME NEW s \in Seq(Names), NEW n \in Names
    PROVE  /\ Append(s, n) \in Seq(Names)
           /\ ToSet(Append(s, n)) = ToSet(s) \cup {n}
           /\ IsInjective(s) /\ n \notin ToSet(s) => IsInjective(Append(s, n))
<1>1. Len(s) \in Nat /\ DOMAIN s = 1 .. Len(s)
  BY LenProperties
<1> DEFINE g == Append(s, n)
<1>2. /\ g \in Seq(Names) /\ Len(g) = Len(s) + 1
      /\ \A i \in 1 .. Len(s) : g[i] = s[i]
      /\ g[Len(s) + 1] = n
  BY <1>1, AppendProperties
<1> HIDE DEF g
<1>3. DOMAIN g = 1 .. Len(s) + 1
  BY <1>2, LenProperties
<1>4. \A i \in DOMAIN g : (i \in DOMAIN s /\ g[i] = s[i]) \/ (i = Len(s) + 1 /\ g[i] = n)
  BY <1>1, <1>2, <1>3
<1>5. \A i \in DOMAIN s : i \in DOMAIN g /\ g[i] = s[i] /\ i # Len(s) + 1
  BY <1>1, <1>2, <1>3
<1>6. Len(s) + 1 \in DOMAIN g /\ g[Len(s) + 1] = n
  BY <1>1, <1>2, <1>3
<1>7. ToSet(g) = ToSet(s) \cup {n}
  <2>1. ToSet(g) \subseteq ToSet(s) \cup {n}
    BY <1>4 DEF ToSet
  <2>2. ToSet(s) \subseteq ToSet(g)
    BY <1>5 DEF ToSet
  <2>3. n \in ToSet(g)
    BY <1>6 DEF ToSet
  <2> QED BY <2>1, <2>2, <2>3
<1>8. ASSUME IsInjective(s), n \notin ToSet(s) PROVE IsInjective(g)
  <2>1. \A i \in DOMAIN s : s[i] # n
    BY <1>8 DEF ToSet
  <2> QED BY <1>4, <1>8, <2>1 DEF IsInjective
<1> QED
  BY <1>2, <1>7, <1>8 DEF g

\* Two lists without repetition and without a common name, one behind the other.
LEMMA ConcatNames ==
    ASSUME NEW s \in Seq(Names), NEW t \in Seq(Names)
    PROVE  /\ s \o t \in Seq(Names)
           /\ ToSet(s \o t) = ToSet(s) \cup ToSet(t)
           /\ IsInjective(s) /\ IsInjective(t) /\ ToSet(s) \cap ToSet(t) = {} => IsInjective(s \o t)
<1>1. Len(s) \in Nat /\ DOMAIN s = 1 .. Len(s) /\ Len(t) \in Nat /\ DOMAIN t = 1 .. Len(t)
  BY LenProperties
<1> DEFINE g == s \o t
<1>2. /\ g \in Seq(Names) /\ Len(g) = Len(s) + Len(t)
      /\ \A i \in 1 .. Len(s) + Len(t) : g[i] = IF i <= Len(s) THEN s[i] ELSE t[i - Len(s)]
  BY ConcatProperties
<1> HIDE DEF g
<1>3. DOMAIN g = 1 .. Len(s) + Len(t)
  BY <1>2, LenProperties
<1>4. \A i \in DOMAIN g : \/ i \in DOMAIN s /\ g[i] = s[i]
                          \/ i > Len(s) /\ i - Len(s) \in DOMAIN t /\ g[i] = t[i - Len(s)]
  BY <1>1, <1>2, <1>3
<1>5. \A i \in DOMAIN s : i \in DOMAIN g /\ g[i] = s[i]
  BY <1>1, <1>2, <1>3
<1>6. \A i \in DOMAIN t : i + Len(s) \in DOMAIN g /\ g[i + Len(s)] = t[i]
  BY <1>1, <1>2, <1>3
<1>7. ToSet(g) = ToSet(s) \cup ToSet(t)
  <2>1. ToSet(g) \subseteq ToSet(s) \cup ToSet(t)
    BY <1>4 DEF ToSet
  <2>2. ToSet(s) \subseteq ToSet(g)
    BY <1>5 DEF ToSet
  <2>3. ToSet(t) \subseteq ToSet(g)
    BY <1>6 DEF ToSet
  <2> QED BY <2>1, <2>2, <2>3
<1>8. ASSUME IsInjective(s), IsInjective(t), ToSet(s) \cap ToSet(t) = {} PROVE IsInjective(g)
  <2> SUFFICES ASSUME NEW i \in DOMAIN g, NEW j \in DOMAIN g, g[i] = g[j] PROVE i = j
    BY DEF IsInjective
  <2>1. \A m \in DOMAIN s, n \in DOMAIN t : s[m] # t[n]
    BY <1>8 DEF ToSet
  <2>2. i \in Int /\ j \in Int
    BY <1>1, <1>3
  <2>3. CASE i \in DOMAIN s /\ g[i] = s[i] /\ j \in DOMAIN s /\ g[j] = s[j]
    BY <1>8, <2>3 DEF IsInjective
  <2>4. CASE /\ i - Len(s) \in DOMAIN t /\ g[i] = t[i - Len(s)]
             /\ j - Len(s) \in DOMAIN t /\ g[j] = t[j - Len(s)]
    <3>1. i - Len(s) = j - Len(s)
      BY <1>8, <2>4 DEF IsInjective
    <3> QED BY <1>1, <2>2, <3>1
  <2> QED BY <1>4, <2>1, <2>3, <2>4
<1> QED
  BY <1>2, <1>7, <1>8 DEF g

\* A list without repetition has as many names as there are in it.
LEMMA CountNames ==
    ASSUME NEW s \in Seq(Names), IsInjective(s)
    PROVE  Len(s) = Cardinality(ToSet(s))
<1>1. Len(s) \in Nat /\ DOMAIN s = 1 .. Len(s) /\ s \in [1 .. Len(s) -> Names]
  BY LenProperties
<1> DEFINE T == ToSet(s)
           n == Len(s)
<1>2. s \in [1 .. n -> T] /\ \A t \in T : \E i \in 1 .. n : s[i] = t
  BY <1>1 DEF ToSet
<1>3. s \in Bijection(1 .. n, T)
  BY <1>2 DEF Bijection, Injection, Surjection
<1>4. ExistsBijection(1 .. n, T)
  BY <1>3 DEF ExistsBijection
<1>5. n \in Nat
  BY <1>1
<1> HIDE DEF n, T
<1>6. Cardinality(T) = n
  BY <1>4, <1>5, FS_CountingElements
<1> QED
  BY <1>6 DEF n, T

\* An iteration over an ordered container meets every name of it once.
LEMMA InOrderComplete ==
    ASSUME NEW offered \in SUBSET Names
    PROVE  /\ InOrder(offered) \in Seq(Names)
           /\ ToSet(InOrder(offered)) = offered
           /\ IsInjective(InOrder(offered))
<1> DEFINE N == Len(Sorted)
           Next1(k, s) == IF Sorted[k] \in offered THEN Append(s, Sorted[k]) ELSE s
           Iterates(u) == u = [k \in 0 .. N |-> IF k = 0 THEN <<>>
                                                ELSE IF Sorted[k] \in offered THEN Append(u[k - 1], Sorted[k])
                                                ELSE u[k - 1]]
           upto == CHOOSE u : Iterates(u)
           step == [k \in 1 .. N |-> [s \in Seq(Names) |-> Next1(k, s)]]
           Met(k) == {Sorted[i] : i \in 1 .. k} \cap offered
<1>1. Sorted \in Seq(Names) /\ IsInjective(Sorted) /\ ToSet(Sorted) = Names
  BY MenuAssumption
<1>2. N \in Nat /\ DOMAIN Sorted = 1 .. N /\ Sorted \in [1 .. N -> Names]
  BY <1>1, LenProperties
<1>3. InOrder(offered) = upto[N]
  BY DEF InOrder
<1>4. <<>> \in Seq(Names) /\ DOMAIN <<>> = {}
  OBVIOUS
<1>5. \A k \in 1 .. N, s \in Seq(Names) : step[k][s] = Next1(k, s) /\ Next1(k, s) \in Seq(Names)
  BY <1>2, AppendName
<1>6. PICK g \in [0 .. N -> Seq(Names)] :
          g[0] = <<>> /\ \A k \in 1 .. N : g[k] = step[k][g[k - 1]]
  <2>1. N \in Nat /\ \A k \in 1 .. N, s \in Seq(Names) : step[k][s] \in Seq(Names)
    BY <1>2, <1>5
  <2> DEFINE b == <<>>
             X == Seq(Names)
  <2> HIDE DEF step, N, b
  <2>2. b \in X
    BY <1>4 DEF b
  <2>3. \A k \in 1 .. N, s \in X : step[k][s] \in X
    BY <2>1
  <2> HIDE DEF X
  <2>4. Recursion(N, X, b, step) # {}
    BY <2>1, <2>2, <2>3, RecursionExists
  <2> QED BY <2>4 DEF b, X, Recursion
<1> HIDE DEF step
<1>7. Iterates(g)
  <2>1. ASSUME NEW k \in 0 .. N
        PROVE  g[k] = IF k = 0 THEN <<>>
                      ELSE IF Sorted[k] \in offered THEN Append(g[k - 1], Sorted[k])
                      ELSE g[k - 1]
    <3>1. CASE k = 0
      BY <1>6, <3>1
    <3>2. CASE k # 0
      <4>1. k \in 1 .. N /\ k - 1 \in 0 .. N
        BY <1>2, <3>2
      <4>2. g[k] = Next1(k, g[k - 1])
        BY <1>5, <1>6, <4>1
      <4> QED BY <3>2, <4>2
    <3> QED BY <3>1, <3>2
  <2> QED BY <2>1
<1>8. Iterates(upto)
  <2> HIDE DEF Iterates
  <2> QED BY <1>7
<1> HIDE DEF upto
<1> DEFINE S == {k \in 0 .. N : upto[k] \in Seq(Names) /\ ToSet(upto[k]) = Met(k) /\ IsInjective(upto[k])}
<1>9. 0 \in S
  <2>1. upto[0] = <<>>
    BY <1>2, <1>8
  <2>2. ToSet(<<>>) = {} /\ IsInjective(<<>>)
    BY <1>4 DEF ToSet, IsInjective
  <2>3. Met(0) = {}
    OBVIOUS
  <2> QED BY <1>2, <1>4, <2>1, <2>2, <2>3
<1>10. ASSUME NEW k \in 1 .. N, k - 1 \in S PROVE k \in S
  <2> DEFINE s == upto[k - 1]
             n == Sorted[k]
  <2>0. k \in 0 .. N /\ k # 0 /\ n \in Names
    BY <1>2
  <2>1. s \in Seq(Names) /\ ToSet(s) = Met(k - 1) /\ IsInjective(s)
    <3> HIDE DEF Met
    <3> QED BY <1>10
  <2>2. upto[k] = IF n \in offered THEN Append(s, n) ELSE s
    BY <1>8, <2>0
  <2>3. n \notin Met(k - 1)
    <3>1. \A i \in 1 .. k - 1 : i \in DOMAIN Sorted /\ k \in DOMAIN Sorted /\ i # k
      BY <1>2
    <3> QED BY <1>1, <3>1 DEF IsInjective
  <2>4. Met(k) = IF n \in offered THEN Met(k - 1) \cup {n} ELSE Met(k - 1)
    <3>1. 1 .. k = (1 .. k - 1) \cup {k}
      BY <1>2
    <3> QED BY <3>1
  <2> HIDE DEF s, n, Met
  <2>5. CASE n \in offered
    <3>1. Append(s, n) \in Seq(Names) /\ ToSet(Append(s, n)) = ToSet(s) \cup {n} /\ IsInjective(Append(s, n))
      BY <2>0, <2>1, <2>3, AppendName
    <3> QED BY <2>0, <2>1, <2>2, <2>4, <2>5, <3>1
  <2>6. CASE n \notin offered
    BY <2>0, <2>1, <2>2, <2>4, <2>6
  <2> QED BY <2>5, <2>6
<1>11. N \in S
  <2> HIDE DEF S
  <2>1. 0 .. N \subseteq S
    BY <1>2, <1>9, <1>10, BoundedInduction
  <2> QED BY <1>2, <2>1
<1>12. Met(N) = offered
  BY <1>1, <1>2 DEF ToSet
<1> QED
  BY <1>3, <1>11, <1>12

-----------------------------------------------------------------------------
(* The inductive invariant *)

OfferedFits == phase # "abort" => mapping = Offered(raw_mapping)

\* What FormattedHistoryManager holds is on offer, and no name is there twice.
HistoryFits ==
    torn \/ phase = "abort" \/ (IsInjective(formatted_history) /\ ToSet(formatted_history) \subseteq mapping)

\* While reload() walks through the history, what it has taken lies behind it.
Walked ==
    torn \/ (phase = "reload" =>
                \A j \in DOMAIN formatted_history : \E i \in DOMAIN history :
                   i < iter /\ history[i].name = formatted_history[j])

NothingFormatted == phase \in {"off", "ctor"} => formatted_history = <<>>

MenuInv ==
    /\ MenuTypeOK /\ HInv
    /\ OfferedFits /\ HistoryFits /\ Walked /\ NothingFormatted
    /\ HistoryInMenu /\ MenuComplete

\* An empty list of names is in order.
LEMMA EmptyNames ==
    <<>> \in Seq(Names) /\ DOMAIN <<>> = {} /\ ToSet(<<>>) = {} /\ IsInjective(<<>>)
<1>1. <<>> \in Seq(Names) /\ DOMAIN <<>> = {}
  OBVIOUS
<1> QED
  BY <1>1 DEF ToSet, IsInjective

LEMMA MenuInitInv == MenuInit => MenuInv
<1> SUFFICES ASSUME MenuInit PROVE MenuInv
  OBVIOUS
<1>1. HInv /\ TypeOK
  BY HInit DEF MenuInit, HInv
<1>2. /\ raw_mapping = Nothing /\ mapping = {} /\ iter = 1 /\ formatted_history = <<>>
      /\ screen = <<>> /\ phase = "off" /\ reason = "none"
  BY DEF MenuInit
<1>3. Len(history) \in Nat
  BY <1>1, LenProperties DEF TypeOK
<1>4. Nothing \in [Names -> Kinds] /\ Offered(Nothing) = {}
  BY DEF Nothing, Kinds, Offered
<1>5. MenuTypeOK
  BY <1>1, <1>2, <1>3, <1>4, EmptyNames DEF MenuTypeOK
<1>6. OfferedFits /\ Walked /\ NothingFormatted /\ HistoryInMenu /\ MenuComplete
  BY <1>2, <1>4 DEF OfferedFits, Walked, NothingFormatted, HistoryInMenu, MenuComplete
<1>7. HistoryFits
  BY <1>2, EmptyNames DEF HistoryFits
<1> QED
  BY <1>1, <1>5, <1>6, <1>7 DEF MenuInv

\* A step of the menu is one of HistoryManager, or leaves the history alone.
LEMMA MenuStepIsHistory == MenuInv /\ [MenuNext]_all_vars => [Next]_vars
<1> SUFFICES ASSUME MenuInv, [MenuNext]_all_vars PROVE [Next]_vars
  OBVIOUS
<1>1. ASSUME NEW raw, start(raw) \/ update_mapping(raw) PROVE UNCHANGED vars
  BY <1>1 DEF start, update_mapping
<1>2. CASE history_ctor
  BY <1>2 DEF history_ctor, Next
<1>3. CASE reload_entry
  <2>1. iter \in 1 .. Len(history) + 2 /\ history \in Seq(Entries) /\ iter <= Len(history)
    BY <1>3 DEF MenuInv, MenuTypeOK, TypeOK, reload_entry
  <2>2. iter \in DOMAIN history
    BY <2>1, LenProperties
  <2>3. remove_obsolete_entry(iter) \/ UNCHANGED vars
    BY <1>3 DEF reload_entry
  <2> QED BY <2>2, <2>3 DEF Next
<1>4. CASE reload_done \/ do_dmenu \/ choose_other
  BY <1>4 DEF reload_done, do_dmenu, choose_other
<1>5. ASSUME NEW n \in Names, choose(n) PROVE [Next]_vars
  <2>1. increment(n) \/ UNCHANGED vars
    BY <1>5 DEF choose
  <2> QED BY <2>1 DEF Next
<1>6. CASE save
  BY <1>6 DEF save, Next
<1>7. CASE quit
  BY <1>7 DEF quit, Next
<1>8. CASE UNCHANGED all_vars
  BY <1>8 DEF all_vars
<1> QED
  BY <1>1, <1>2, <1>3, <1>4, <1>5, <1>6, <1>7, <1>8 DEF MenuNext

\* Facts that every step starts from.
LEMMA MenuFacts ==
    ASSUME MenuInv
    PROVE  /\ TypeOK /\ HInv /\ history \in Seq(Entries) /\ torn \in BOOLEAN
           /\ Len(history) \in Nat /\ DOMAIN history = 1 .. Len(history)
           /\ raw_mapping \in [Names -> Kinds] /\ mapping \subseteq Names
           /\ iter \in 1 .. Len(history) + 2
           /\ formatted_history \in Seq(Names) /\ screen \in Seq(Names)
           /\ phase \in {"off", "ctor", "reload", "idle", "open", "exit", "abort"}
           /\ reason \in {"none", "collision", "history"}
<1>1. TypeOK /\ HInv /\ history \in Seq(Entries) /\ torn \in BOOLEAN
  BY DEF MenuInv, MenuTypeOK, TypeOK
<1>2. Len(history) \in Nat /\ DOMAIN history = 1 .. Len(history)
  BY <1>1, LenProperties
<1> QED
  BY <1>1, <1>2 DEF MenuInv, MenuTypeOK

\* load(): nothing is formatted when it begins, or reload() begins anew.
LEMMA LoadKeeps ==
    ASSUME MenuInv, HInv', NEW raw \in [Names -> Kinds], NEW next \in {"ctor", "reload"},
           load(raw, next), UNCHANGED <<vars, screen>>,
           formatted_history' = <<>>, iter' \in 1 .. Len(history) + 2
    PROVE  MenuInv'
<1>1. /\ history' = history /\ torn' = torn /\ screen' = screen /\ raw_mapping' = raw
  BY DEF vars, load
<1>2. \/ phase' = "abort" /\ reason' = "collision" /\ mapping' = mapping
      \/ phase' = next /\ mapping' = Offered(raw) /\ reason' = reason
  BY DEF load
<1>3. Offered(raw) \subseteq Names
  BY DEF Offered
<1>4. TypeOK'
  BY DEF HInv
<1>5. MenuTypeOK'
  <2>1. mapping' \subseteq Names
    BY <1>2, <1>3, MenuFacts
  <2>2. /\ phase' \in {"off", "ctor", "reload", "idle", "open", "exit", "abort"}
        /\ reason' \in {"none", "collision", "history"}
    BY <1>2, MenuFacts
  <2>3. formatted_history' \in Seq(Names) /\ screen' \in Seq(Names)
    BY <1>1, EmptyNames, MenuFacts
  <2> QED BY <1>1, <1>4, <2>1, <2>2, <2>3 DEF MenuTypeOK
<1>6. OfferedFits' /\ MenuComplete'
  <2>1. phase' = "abort" \/ mapping' = Offered(raw)
    BY <1>2
  <2>2. phase' # "open"
    BY <1>2
  <2>3. OfferedFits'
    BY <1>1, <2>1 DEF OfferedFits, Offered
  <2> QED BY <2>2, <2>3 DEF MenuComplete
<1>7. HistoryFits'
  <2>1. IsInjective(formatted_history)' /\ ToSet(formatted_history)' = {}
    BY EmptyNames DEF IsInjective, ToSet
  <2> QED BY <2>1, Zenon DEF HistoryFits
<1>8. Walked' /\ NothingFormatted'
  BY EmptyNames DEF Walked, NothingFormatted
<1>9. HistoryInMenu'
  <2>1. reason' = "collision" \/ reason' = reason
    BY <1>2
  <2>2. torn \/ reason # "history"
    BY DEF MenuInv, HistoryInMenu
  <2> QED BY <1>1, <2>1, <2>2, Zenon DEF HistoryInMenu
<1> QED
  BY <1>5, <1>6, <1>7, <1>8, <1>9 DEF MenuInv

\* The menu is put together: what reload() has left never makes do_dmenu() abort, and
\* the screen shows every name on offer once.
LEMMA DoDmenuKeeps == MenuInv /\ HInv' /\ do_dmenu => MenuInv'
<1> SUFFICES ASSUME MenuInv, HInv', do_dmenu PROVE MenuInv'
  OBVIOUS
<1> DEFINE fh == formatted_history
           Fits == ToSet(fh) \subseteq mapping /\ IsInjective(fh)
           rest == InOrder(mapping \ ToSet(fh))
<1>1. /\ history' = history /\ torn' = torn /\ raw_mapping' = raw_mapping /\ mapping' = mapping
      /\ iter' = iter /\ formatted_history' = formatted_history /\ phase = "idle"
  BY DEF do_dmenu, vars
<1>2. \/ Fits /\ screen' = fh \o rest /\ phase' = "open" /\ reason' = reason
      \/ ~Fits /\ phase' = "abort" /\ reason' = "history" /\ screen' = screen
  BY DEF do_dmenu
<1>3. /\ rest \in Seq(Names) /\ ToSet(rest) = mapping \ ToSet(fh) /\ IsInjective(rest)
  <2>1. mapping \ ToSet(fh) \in SUBSET Names
    BY MenuFacts
  <2> QED BY <2>1, InOrderComplete
<1> HIDE DEF rest
<1>4. /\ fh \o rest \in Seq(Names) /\ ToSet(fh \o rest) = ToSet(fh) \cup ToSet(rest)
      /\ Fits => IsInjective(fh \o rest)
  BY <1>3, ConcatNames, MenuFacts
<1>5. ASSUME Fits PROVE ToSet(fh \o rest) = mapping /\ Len(fh \o rest) = Cardinality(mapping)
  <2>1. ToSet(fh \o rest) = mapping
    BY <1>3, <1>4, <1>5
  <2> QED BY <1>4, <1>5, <2>1, CountNames
<1>6. MenuTypeOK'
  <2>1. screen' \in Seq(Names)
    BY <1>2, <1>4, MenuFacts
  <2>2. /\ phase' \in {"off", "ctor", "reload", "idle", "open", "exit", "abort"}
        /\ reason' \in {"none", "collision", "history"}
    BY <1>2, MenuFacts
  <2>3. TypeOK'
    BY DEF HInv
  <2> QED BY <1>1, <2>1, <2>2, <2>3, MenuFacts DEF MenuTypeOK
<1>7. OfferedFits' /\ NothingFormatted'
  <2>1. mapping = Offered(raw_mapping)
    BY <1>1 DEF MenuInv, OfferedFits
  <2>2. phase' \in {"open", "abort"}
    BY <1>2
  <2> QED BY <1>1, <2>1, <2>2 DEF OfferedFits, NothingFormatted, Offered
<1>8. torn \/ Fits
  BY <1>1, Zenon DEF MenuInv, HistoryFits
<1>9. HistoryInMenu'
  <2>1. torn \/ reason # "history"
    BY DEF MenuInv, HistoryInMenu
  <2> HIDE DEF Fits
  <2> QED BY <1>1, <1>2, <1>8, <2>1, Zenon DEF HistoryInMenu
<1>10. HistoryFits'
  <2>1. (IsInjective(formatted_history) /\ ToSet(formatted_history) \subseteq mapping)'
           <=> Fits
    BY <1>1 DEF IsInjective, ToSet
  <2> HIDE DEF Fits
  <2> QED BY <1>1, <1>8, <2>1, Zenon DEF HistoryFits
<1>11. Walked'
  <2>1. phase' # "reload"
    BY <1>2
  <2> QED BY <2>1 DEF Walked
<1>12. MenuComplete'
  <2>1. CASE Fits /\ screen' = fh \o rest
    <3>1. ToSet(screen)' = mapping /\ Len(screen)' = Cardinality(mapping)
      BY <1>5, <2>1 DEF ToSet
    <3> QED BY <1>1, <3>1 DEF MenuComplete
  <2>2. CASE phase' = "abort"
    BY <2>2 DEF MenuComplete
  <2> QED BY <1>2, <2>1, <2>2
<1> QED
  BY <1>6, <1>7, <1>9, <1>10, <1>11, <1>12 DEF MenuInv

\* An iteration of reload(): the name that is taken differs from those taken before, as
\* the history repeats none, and an entry that is erased lies behind all of them.
LEMMA ReloadEntryKeeps == MenuInv /\ HInv' /\ reload_entry => MenuInv'
<1> SUFFICES ASSUME MenuInv, HInv', reload_entry PROVE MenuInv'
  OBVIOUS
<1> DEFINE name == history[iter].name
           fh == formatted_history
<1>1. /\ raw_mapping' = raw_mapping /\ mapping' = mapping /\ screen' = screen /\ phase' = phase
      /\ reason' = reason /\ iter' = iter + 1 /\ phase = "reload" /\ iter <= Len(history)
  BY DEF reload_entry
<1>2. iter \in 1 .. Len(history) /\ iter \in DOMAIN history /\ Len(history) \in Nat
  BY <1>1, MenuFacts
<1>3. name \in Names
  BY <1>2, MenuFacts, EntryCounts
<1>4. \/ raw_mapping[name] = "absent" /\ remove_obsolete_entry(iter)
      \/ UNCHANGED vars
  BY DEF reload_entry
<1>5. \/ name \in Offered(raw_mapping) /\ fh' = Append(fh, name)
      \/ name \notin Offered(raw_mapping) /\ fh' = fh
  BY DEF reload_entry
<1>6. /\ torn' = torn /\ Len(history') >= Len(history) - 1 /\ Len(history') \in Nat
      /\ DOMAIN history' = 1 .. Len(history')
      /\ \A i \in 1 .. iter - 1 : i \in DOMAIN history' /\ history'[i] = history[i]
      /\ name \in Offered(raw_mapping) => history' = history
  <2>1. CASE raw_mapping[name] = "absent" /\ remove_obsolete_entry(iter)
    <3>1. history' = RemoveAt(history, iter) /\ torn' = torn
      BY <2>1, SMTT(30) DEF remove_obsolete_entry, Truncate
    <3>2. /\ RemoveAt(history, iter) \in Seq(Entries)
          /\ Len(RemoveAt(history, iter)) = Len(history) - 1
          /\ \A i \in 1 .. iter - 1 : /\ i \in DOMAIN RemoveAt(history, iter)
                                      /\ RemoveAt(history, iter)[i] = history[i]
      BY <1>2, MenuFacts, RemoveKeeps
    <3>3. name \notin Offered(raw_mapping)
      BY <2>1 DEF Offered
    <3>4. history' \in Seq(Entries) /\ Len(history') = Len(history) - 1
      BY <3>1, <3>2
    <3>5. Len(history') \in Nat /\ DOMAIN history' = 1 .. Len(history')
      BY <3>4, LenProperties
    <3> QED BY <1>2, <3>1, <3>2, <3>3, <3>4, <3>5
  <2>2. CASE UNCHANGED vars
    <3>1. history' = history /\ torn' = torn
      BY <2>2 DEF vars
    <3> QED BY <1>2, <3>1, MenuFacts
  <2> QED BY <1>4, <2>1, <2>2
<1>7. mapping = Offered(raw_mapping)
  BY <1>1 DEF MenuInv, OfferedFits
<1>8. MenuTypeOK'
  <2>1. iter' \in 1 .. Len(history') + 2
    BY <1>1, <1>2, <1>6
  <2>2. fh' \in Seq(Names)
    BY <1>3, <1>5, AppendName, MenuFacts, ZenonT(40)
  <2>3. TypeOK'
    BY DEF HInv
  <2> QED BY <1>1, <2>1, <2>2, <2>3, MenuFacts DEF MenuTypeOK
<1>9. OfferedFits' /\ NothingFormatted' /\ MenuComplete' /\ HistoryInMenu'
  <2>1. torn \/ reason # "history"
    BY DEF MenuInv, HistoryInMenu
  <2>2. HistoryInMenu'
    BY <1>1, <1>6, <2>1, Zenon DEF HistoryInMenu
  <2> QED BY <1>1, <1>7, <2>2 DEF OfferedFits, NothingFormatted, MenuComplete, Offered
<1>10. ASSUME ~torn
       PROVE  /\ (IsInjective(formatted_history) /\ ToSet(formatted_history) \subseteq mapping)'
              /\ (\A j \in DOMAIN formatted_history : \E i \in DOMAIN history :
                     i < iter /\ history[i].name = formatted_history[j])'
  <2>1. /\ IsInjective(fh) /\ ToSet(fh) \subseteq mapping
        /\ \A j \in DOMAIN fh : \E i \in DOMAIN history : i < iter /\ history[i].name = fh[j]
        /\ Distinct(history)
    <3>1. phase # "abort" /\ phase = "reload"
      BY <1>1
    <3> QED BY <1>10, <3>1, Zenon DEF MenuInv, HInv, HistoryFits, Walked, NamesDistinct
  <2>2. ASSUME NEW x \in ToSet(fh)
        PROVE  \E i \in DOMAIN history' : i < iter /\ history'[i].name = x
    <3>1. PICK j \in DOMAIN fh : x = fh[j]
      BY DEF ToSet
    <3>2. PICK i \in DOMAIN history : i < iter /\ history[i].name = x
      BY <2>1, <3>1
    <3>3. i \in 1 .. iter - 1
      BY <1>2, <3>2, MenuFacts
    <3> QED BY <1>6, <3>2, <3>3
  <2>3. name \notin ToSet(fh)
    <3> SUFFICES ASSUME name \in ToSet(fh) PROVE FALSE
      OBVIOUS
    <3>1. PICK j \in DOMAIN fh : fh[j] = name
      BY DEF ToSet
    <3>2. PICK i \in DOMAIN history : i < iter /\ history[i].name = name
      BY <2>1, <3>1
    <3>3. i = iter
      BY <1>2, <2>1, <3>2 DEF Distinct
    <3> QED BY <1>2, <3>2, <3>3
  <2>4. ASSUME NEW x \in ToSet(fh')
        PROVE  \E i \in DOMAIN history' : i < iter' /\ history'[i].name = x
    <3>1. CASE x \in ToSet(fh)
      <4>1. PICK i \in DOMAIN history' : i < iter /\ history'[i].name = x
        BY <2>2, <3>1
      <4>2. i < iter'
        BY <1>1, <1>2, <1>6, <4>1
      <4> QED BY <4>1, <4>2
    <3>2. CASE x \notin ToSet(fh)
      <4>1. name \in Offered(raw_mapping) /\ fh' = Append(fh, name)
        BY <1>5, <3>2
      <4>2. x = name
        BY <1>3, <3>2, <4>1, AppendName, MenuFacts
      <4>3. history' = history /\ iter < iter'
        BY <1>1, <1>2, <1>6, <4>1
      <4> QED BY <1>2, <4>2, <4>3
    <3> QED BY <3>1, <3>2
  <2>5. IsInjective(fh') /\ ToSet(fh') \subseteq mapping
    <3>1. CASE fh' = fh
      BY <2>1, <3>1
    <3>2. CASE name \in Offered(raw_mapping) /\ fh' = Append(fh, name)
      BY <1>3, <1>7, <2>1, <2>3, <3>2, AppendName, MenuFacts
    <3> QED BY <1>5, <3>1, <3>2
  <2>6. ASSUME NEW j \in DOMAIN fh'
        PROVE  \E i \in DOMAIN history' : i < iter' /\ history'[i].name = fh'[j]
    <3>1. fh'[j] \in ToSet(fh')
      BY DEF ToSet
    <3> QED BY <2>4, <3>1
  <2> QED BY <1>1, <2>5, <2>6 DEF IsInjective, ToSet
<1>11. HistoryFits' /\ Walked'
  <2>1. torn' \in BOOLEAN /\ (torn' \/ ~torn)
    BY <1>6, MenuFacts, Zenon
  <2> QED BY <1>10, <2>1, Zenon DEF HistoryFits, Walked
<1> QED
  BY <1>8, <1>9, <1>11 DEF MenuInv

\* Steps that leave the names, the formatted history and the log's names alone, and do
\* not open a menu.
LEMMA QuietKeeps ==
    ASSUME MenuInv, HInv', torn' = torn, Len(history') >= Len(history),
           UNCHANGED <<raw_mapping, mapping, iter, formatted_history, reason>>,
           phase \in {"reload", "open", "idle"}, phase' \in {"idle", "exit"},
           screen' \in Seq(Names)
    PROVE  MenuInv'
<1>1. TypeOK' /\ Len(history') \in Nat
  BY LenProperties DEF HInv, TypeOK
<1>2. iter' \in 1 .. Len(history') + 2
  BY <1>1, MenuFacts
<1>3. MenuTypeOK'
  BY <1>1, <1>2, MenuFacts DEF MenuTypeOK
<1>4. OfferedFits' /\ NothingFormatted' /\ MenuComplete'
  BY DEF MenuInv, OfferedFits, NothingFormatted, MenuComplete, Offered
<1>5. HistoryInMenu'
  BY Zenon DEF MenuInv, HistoryInMenu
<1>6. HistoryFits'
  <2>1. torn \/ (IsInjective(formatted_history) /\ ToSet(formatted_history) \subseteq mapping)
    <3>1. phase # "abort"
      OBVIOUS
    <3> QED BY <3>1, Zenon DEF MenuInv, HistoryFits
  <2>2. IsInjective(formatted_history)' = IsInjective(formatted_history)
    BY DEF IsInjective
  <2>3. ToSet(formatted_history)' = ToSet(formatted_history)
    BY DEF ToSet
  <2> QED BY <2>1, <2>2, <2>3, Zenon DEF HistoryFits
<1>7. Walked'
  <2>1. phase' # "reload"
    OBVIOUS
  <2> QED BY <2>1 DEF Walked
<1> QED
  BY <1>3, <1>4, <1>5, <1>6, <1>7 DEF MenuInv

\* Steps that begin the formatted history anew.
LEMMA RewindKeeps ==
    ASSUME MenuInv, HInv', torn => torn', Rewind, UNCHANGED reason,
           raw_mapping' \in [Names -> Kinds], mapping' = Offered(raw_mapping'),
           screen' \in Seq(Names), phase' \in {"reload", "off"}
    PROVE  MenuInv'
<1>1. iter' = 1 /\ formatted_history' = <<>>
  BY DEF Rewind
<1>2. TypeOK' /\ Len(history') \in Nat
  BY LenProperties DEF HInv, TypeOK
<1>3. MenuTypeOK'
  <2>1. iter' \in 1 .. Len(history') + 2 /\ formatted_history' \in Seq(Names)
    BY <1>1, <1>2, EmptyNames
  <2>2. mapping' \subseteq Names
    BY DEF Offered
  <2> QED BY <1>2, <2>1, <2>2, MenuFacts DEF MenuTypeOK
<1>4. OfferedFits' /\ NothingFormatted' /\ MenuComplete'
  BY <1>1 DEF OfferedFits, NothingFormatted, MenuComplete, Offered
<1>5. HistoryInMenu'
  BY Zenon DEF MenuInv, HistoryInMenu
<1>6. HistoryFits' /\ Walked'
  <2>1. IsInjective(formatted_history)' /\ ToSet(formatted_history)' = {} /\ DOMAIN formatted_history' = {}
    BY <1>1, EmptyNames DEF IsInjective, ToSet
  <2> QED BY <2>1, Zenon DEF HistoryFits, Walked
<1> QED
  BY <1>3, <1>4, <1>5, <1>6 DEF MenuInv

\* Every step of the program keeps the invariant.
LEMMA MenuStep == MenuInv /\ [MenuNext]_all_vars => MenuInv'
<1> SUFFICES ASSUME MenuInv, [MenuNext]_all_vars PROVE MenuInv'
  OBVIOUS
<1>0. HInv'
  BY MenuStepIsHistory, HStep DEF MenuInv
<1>1. ASSUME NEW raw \in [Names -> Kinds], start(raw) PROVE MenuInv'
  <2>1. /\ load(raw, "ctor") /\ UNCHANGED <<vars, screen>> /\ phase = "off"
        /\ formatted_history' = formatted_history /\ iter' = iter
    BY <1>1 DEF start
  <2>2. formatted_history' = <<>> /\ iter' \in 1 .. Len(history) + 2
    BY <2>1, MenuFacts DEF MenuInv, NothingFormatted
  <2> QED BY <1>0, <2>1, <2>2, LoadKeeps
<1>2. ASSUME NEW raw \in [Names -> Kinds], update_mapping(raw) PROVE MenuInv'
  <2>1. load(raw, "reload") /\ UNCHANGED <<vars, screen>> /\ formatted_history' = <<>> /\ iter' = 1
    BY <1>2 DEF update_mapping, Rewind
  <2>2. iter' \in 1 .. Len(history) + 2
    BY <2>1, MenuFacts
  <2> QED BY <1>0, <2>1, <2>2, LoadKeeps
<1>3. CASE history_ctor
  <2>1. /\ Rewind /\ UNCHANGED <<raw_mapping, mapping, screen, reason>> /\ phase = "ctor"
        /\ phase' = "reload" /\ (ctor_new \/ ctor_read \/ convert_history_from_v0)
    BY <1>3 DEF history_ctor
  <2>2. torn' = torn
    BY <2>1 DEF ctor_new, ctor_read, convert_history_from_v0
  <2>3. mapping' = Offered(raw_mapping')
    BY <2>1 DEF MenuInv, OfferedFits, Offered
  <2>4. raw_mapping' \in [Names -> Kinds] /\ screen' \in Seq(Names) /\ phase' \in {"reload", "off"}
    BY <2>1, MenuFacts
  <2>5. torn => torn'
    BY <2>2, Zenon
  <2> QED BY <1>0, <2>1, <2>3, <2>4, <2>5, RewindKeeps
<1>4. CASE reload_entry
  BY <1>0, <1>4, ReloadEntryKeeps
<1>5. CASE reload_done
  <2>1. /\ torn' = torn /\ history' = history /\ screen' = screen /\ phase = "reload" /\ phase' = "idle"
        /\ UNCHANGED <<raw_mapping, mapping, iter, formatted_history, reason>>
    BY <1>5 DEF reload_done, vars
  <2>2. Len(history') >= Len(history) /\ screen' \in Seq(Names)
    BY <2>1, MenuFacts
  <2> QED BY <1>0, <2>1, <2>2, QuietKeeps
<1>6. CASE do_dmenu
  BY <1>0, <1>6, DoDmenuKeeps
<1>7. ASSUME NEW n \in Names, choose(n) PROVE MenuInv'
  <2>1. /\ phase = "open" /\ screen' = <<>> /\ phase' \in {"idle", "exit"}
        /\ UNCHANGED <<raw_mapping, mapping, iter, formatted_history, reason>>
        /\ UNCHANGED vars \/ increment(n)
    BY <1>7 DEF choose, CloseMenu
  <2>2. torn' = torn /\ Len(history') >= Len(history)
    <3>1. CASE UNCHANGED vars
      BY <3>1, MenuFacts DEF vars
    <3>2. CASE increment(n)
      <4>1. torn' = torn /\ history' = Incremented(history, n) /\ CountOf(history, n) < MaxCount
        BY <3>2 DEF increment, Truncate
      <4>2. history \in Seq(Entries) /\ Descending(history)
        BY MenuFacts DEF HInv
      <4>3. Len(Incremented(history, n)) >= Len(history)
        BY <4>1, <4>2, IncrementedKeeps
      <4> QED BY <4>1, <4>3
    <3> QED BY <2>1, <3>1, <3>2
  <2>3. screen' \in Seq(Names)
    BY <2>1, EmptyNames
  <2> QED BY <1>0, <2>1, <2>2, <2>3, QuietKeeps
<1>8. CASE choose_other
  <2>1. /\ phase = "open" /\ screen' = <<>> /\ phase' \in {"idle", "exit"}
        /\ UNCHANGED <<raw_mapping, mapping, iter, formatted_history, reason>>
        /\ torn' = torn /\ history' = history
    BY <1>8 DEF choose_other, CloseMenu, vars
  <2>2. Len(history') >= Len(history) /\ screen' \in Seq(Names)
    BY <2>1, MenuFacts, EmptyNames
  <2> QED BY <1>0, <2>1, <2>2, QuietKeeps
<1>9. ASSUME UNCHANGED <<menu_vars, history, torn>> PROVE MenuInv'
  <2>1. /\ raw_mapping' = raw_mapping /\ mapping' = mapping /\ iter' = iter
        /\ formatted_history' = formatted_history /\ screen' = screen /\ phase' = phase
        /\ reason' = reason /\ history' = history /\ torn' = torn
    BY <1>9 DEF menu_vars
  <2>2. TypeOK'
    BY <1>0 DEF HInv
  <2>3. MenuTypeOK'
    BY <2>1, <2>2, MenuFacts DEF MenuTypeOK
  <2>4. OfferedFits' /\ NothingFormatted'
    BY <2>1 DEF MenuInv, OfferedFits, NothingFormatted, Offered
  <2>5. MenuComplete'
    BY <2>1 DEF MenuInv, MenuComplete, ToSet
  <2>6. HistoryFits' /\ Walked' /\ HistoryInMenu'
    BY <2>1, Zenon DEF MenuInv, HistoryFits, Walked, HistoryInMenu, IsInjective, ToSet
  <2> QED BY <1>0, <2>3, <2>4, <2>5, <2>6 DEF MenuInv
<1>10. CASE save
  BY <1>9, <1>10 DEF save, write_buffer, write_rest
<1>11. CASE quit
  <2>1. /\ Rewind /\ UNCHANGED reason /\ stop /\ raw_mapping' = Nothing /\ mapping' = {}
        /\ screen' = <<>> /\ phase' = "off"
    BY <1>11 DEF quit
  <2>2. torn => torn'
    BY <2>1, Zenon DEF stop
  <2>3. Nothing \in [Names -> Kinds] /\ Offered(Nothing) = {}
    BY DEF Nothing, Kinds, Offered
  <2>4. mapping' = Offered(raw_mapping')
    BY <2>1, <2>3 DEF Offered
  <2>5. raw_mapping' \in [Names -> Kinds] /\ screen' \in Seq(Names) /\ phase' \in {"reload", "off"}
    BY <2>1, <2>3, EmptyNames
  <2> QED BY <1>0, <2>1, <2>2, <2>4, <2>5, RewindKeeps
<1>12. CASE UNCHANGED all_vars
  BY <1>9, <1>12 DEF all_vars, vars
<1> QED
  BY <1>1, <1>2, <1>3, <1>4, <1>5, <1>6, <1>7, <1>8, <1>10, <1>11, <1>12 DEF MenuNext

\* The invariant holds in every behaviour.
LEMMA MenuInvariant == MenuSpec => []MenuInv
<1> QED
  BY MenuInitInv, MenuStep, PTL DEF MenuSpec

-----------------------------------------------------------------------------
(* The theorems *)

\* Whatever the menu does to the usage log, it does by operations of HistoryManager
\* in states in which they are allowed: what is proved of HistoryManager holds of the
\* log under the menu (NamesDistinct, SavedIsRestored, AllOrNothing).
THEOREM MenuUsesHistory == MenuSpec => Spec
<1>1. MenuInit => Init
  BY DEF MenuInit
<1> QED
  BY <1>1, MenuInvariant, MenuStepIsHistory, PTL DEF MenuSpec, Spec

\* The types hold in every behaviour; reload() never leaves the history behind.
THEOREM MenuTypeCorrect == MenuSpec => []MenuTypeOK
<1>1. MenuInv => MenuTypeOK
  BY DEF MenuInv
<1> QED
  BY <1>1, MenuInvariant, PTL

\* Every menu shows each name on offer, and shows it once, for any number of names, any
\* changes of the desktop files and any history, after kills and restarts.
THEOREM EveryMenuComplete == MenuSpec => []MenuComplete
<1>1. MenuInv => MenuComplete
  BY DEF MenuInv
<1> QED
  BY <1>1, MenuInvariant, PTL

\* The claim of main.cc:471, "This shouldn't happen thanks to FormattedHistoryManager":
\* do_dmenu() finds every name of the formatted history in the menu, and each of them once,
\* unless a kill has cut a name of the log short.
THEOREM DoDmenuNeverAborts == MenuSpec => []HistoryInMenu
<1>1. MenuInv => HistoryInMenu
  BY DEF MenuInv
<1> QED
  BY <1>1, MenuInvariant, PTL

\* No step of a running program lowers the count of a name that a desktop file has,
\* be it a launch, a save or the pruning of entries.
THEOREM CountsAreKept == MenuSpec => UsedNamesKept
<1> DEFINE A == phase # "off" /\ phase' # "off" /\ ~torn =>
                   \A n \in NamesIn(history) : raw_mapping'[n] # "absent" =>
                      CountOf(history', n) >= CountOf(history, n)
<1>1. ASSUME MenuInv, [MenuNext]_all_vars PROVE [A]_all_vars
  <2> SUFFICES ASSUME MenuNext, phase # "off", phase' # "off", ~torn,
                      NEW n \in NamesIn(history), raw_mapping'[n] # "absent"
               PROVE  CountOf(history', n) >= CountOf(history, n)
    BY <1>1
  <2>1. /\ history \in Seq(Entries) /\ Distinct(history) /\ Descending(history)
        /\ MaxCount \in Nat
    BY <1>1, MenuFacts, HistoryAssumption, Zenon DEF MenuInv, HInv, NamesDistinct
  <2>2. ASSUME history' = history PROVE CountOf(history', n) >= CountOf(history, n)
    <3>1. CountOf(history, n) \in 0 .. MaxCount
      BY <2>1, CountOfEntry
    <3> QED BY <2>1, <2>2, <3>1
  <2>3. ASSUME NEW raw, start(raw) \/ update_mapping(raw) PROVE history' = history
    BY <2>3 DEF start, update_mapping, vars
  <2>4. CASE history_ctor
    <3>1. history = <<>>
      BY <1>1, <2>4 DEF history_ctor, MenuInv, HInv, NothingYet
    <3> QED BY <3>1, EmptyNames DEF NamesIn
  <2>5. CASE reload_entry
    <3>1. iter \in DOMAIN history
      BY <1>1, <2>5, MenuFacts DEF reload_entry
    <3>2. raw_mapping' = raw_mapping
      BY <2>5 DEF reload_entry
    <3>3. CASE UNCHANGED vars
      BY <2>2, <3>3 DEF vars
    <3>4. CASE raw_mapping[history[iter].name] = "absent" /\ remove_obsolete_entry(iter)
      <4> DEFINE r == RemoveAt(history, iter)
      <4>1. history' = r
        BY <3>4 DEF remove_obsolete_entry, Truncate
      <4>2. /\ r \in Seq(Entries) /\ Distinct(r)
            /\ \A i \in DOMAIN history : i # iter => \E j \in DOMAIN r : r[j] = history[i]
        BY <2>1, <3>1, RemoveKeeps
      <4>3. PICK i \in DOMAIN history : n = history[i].name
        BY DEF NamesIn
      <4>4. i # iter
        BY <3>2, <3>4, <4>3
      <4> HIDE DEF r
      <4>5. PICK j \in DOMAIN r : r[j] = history[i]
        BY <4>2, <4>4
      <4>6. CountOf(r, n) = history[i].count /\ CountOf(history, n) = history[i].count
        BY <2>1, <4>2, <4>3, <4>5, CountOfEntry
      <4>7. history[i].count \in Nat
        BY <2>1, <4>3, EntryCounts
      <4> QED BY <4>1, <4>6, <4>7
    <3> QED BY <2>5, <3>3, <3>4 DEF reload_entry
  <2>6. CASE reload_done \/ do_dmenu \/ choose_other
    BY <2>2, <2>6 DEF reload_done, do_dmenu, choose_other, vars
  <2>7. ASSUME NEW m \in Names, choose(m) PROVE CountOf(history', n) >= CountOf(history, n)
    <3>1. CASE UNCHANGED vars
      BY <2>2, <3>1 DEF vars
    <3>2. CASE increment(m)
      <4>1. history' = Incremented(history, m) /\ CountOf(history, m) < MaxCount
        BY <3>2 DEF increment, Truncate
      <4> QED BY <2>1, <4>1, IncrementedKeeps
    <3> QED BY <2>7, <3>1, <3>2 DEF choose
  <2>8. CASE save
    BY <2>2, <2>8 DEF save, write_buffer, write_rest
  <2>9. CASE quit
    BY <2>9 DEF quit
  <2> QED BY <2>2, <2>3, <2>4, <2>5, <2>6, <2>7, <2>8, <2>9 DEF MenuNext
<1> QED
  BY <1>1, MenuInvariant, PTL DEF MenuSpec, UsedNamesKept

=============================================================================
