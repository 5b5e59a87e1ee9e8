--------------------------- MODULE ExecutablesProofs ---------------------------
(***************************************************************************)
(* Proofs about what is executed, for inputs and replies of any length:    *)
(* lookup_name(), how a shell reads what was quoted for it, the scanners   *)
(* of the Exec key, the field codes, the command that is run in the end, a *)
(* custom --term, the conversation with i3, and what is read out of its    *)
(* reply.                                                                  *)
(***************************************************************************)
EXTENDS I3Exec, BoundedRecursion, SequenceTheorems, TLAPS

-----------------------------------------------------------------------------
(* What the user chooses *)

\* The least index is one of them.
LEMMA MinOfIndices ==
    ASSUME NEW N \in Nat, NEW I \in SUBSET (1 .. N), I # {}
    PROVE  Min(I) \in I
<1>1. I \in SUBSET Nat
  OBVIOUS
<1>2. \E x \in I : \A y \in I : x <= y
  BY <1>1, LeastExists
<1> QED
  BY <1>2 DEF Min

\* What begins with a string is that string and the rest of it.
LEMMA PrefixAndRest ==
    ASSUME NEW s \in String, NEW t \in String, IsPrefix(s, t)
    PROVE  /\ SubSeq(t, Len(s) + 1, Len(t)) \in String
           /\ t = s \o SubSeq(t, Len(s) + 1, Len(t))
<1> DEFINE m == Len(s)
           n == Len(t)
           rest == SubSeq(t, m + 1, n)
<1>1. m \in Nat /\ n \in Nat /\ m <= n /\ SubSeq(s, 1, m) = SubSeq(t, 1, m)
  BY LenProperties DEF IsPrefix, String
<1>2. s \in Seq(Chars) /\ t \in Seq(Chars)
  BY DEF String
<1> HIDE DEF m, n
<1>3. \A i \in 1 .. m : s[i] = t[i]
  <2>1. \A i \in 1 .. m : SubSeq(s, 1, m)[i] = s[i] /\ SubSeq(t, 1, m)[i] = t[i]
    BY <1>1, <1>2 DEF m, n
  <2> QED BY <1>1, <2>1
<1>4. /\ rest \in Seq(Chars) /\ Len(rest) = n - m
      /\ \A i \in 1 .. n - m : rest[i] = t[m + i]
  BY <1>1, <1>2 DEF m, n
<1> HIDE DEF rest
<1>5. /\ s \o rest \in Seq(Chars) /\ Len(s \o rest) = n
      /\ \A i \in 1 .. n : (s \o rest)[i] = IF i <= m THEN s[i] ELSE rest[i - m]
  BY <1>1, <1>2, <1>4 DEF m
<1>6. \A i \in 1 .. n : (s \o rest)[i] = t[i]
  BY <1>1, <1>3, <1>4, <1>5
<1>7. s \o rest = t
  BY <1>1, <1>2, <1>5, <1>6, SeqEqual DEF n
<1> QED
  BY <1>4, <1>7 DEF rest, m, n, String

\* The input and the choice are well-formed, and no two lines of the menu are the same.
Chosen ==
    /\ menu \in Seq([shown: String, app: MenuApps]) /\ query \in String /\ opt \in Opts
    /\ \A i, j \in DOMAIN menu : menu[i].shown = menu[j].shown => i = j
    /\ choice \in [app: MenuApps \cup CustomApps, args: String]

\* lookup_name() finds the line that was chosen, or else one that the input begins with.
LEMMA LookupName ==
    ASSUME Chosen, lookup_name
    PROVE  /\ choice' \in [app: MenuApps \cup CustomApps, args: String]
           /\ \A i \in DOMAIN menu : menu[i].shown = query =>
                 choice'.app = menu[i].app /\ choice'.args = <<>>
           /\ choice'.app.custom \/ \E i \in DOMAIN menu :
                 choice'.app = menu[i].app /\ query = menu[i].shown \o choice'.args
<1> DEFINE N == Len(menu)
           Exact == {i \in 1 .. N : menu[i].shown = query}
           Beginnings == {i \in 1 .. N : IsPrefix(menu[i].shown, query)}
           exact == SelectInSeq(menu, LAMBDA e : e.shown = query)
           prefix == SelectInSeq(menu, LAMBDA e : IsPrefix(e.shown, query))
           custom == [app |-> [custom |-> TRUE, exec |-> query], args |-> <<>>]
<1>1. /\ N \in Nat /\ DOMAIN menu = 1 .. N /\ query \in String
      /\ \A i \in 1 .. N : menu[i].shown \in String /\ menu[i].app \in MenuApps
  <2> DEFINE Line == [shown: String, app: MenuApps]
  <2>1. menu \in Seq(Line) /\ query \in String
    BY DEF Chosen
  <2>2. \A e \in Line : e.shown \in String /\ e.app \in MenuApps
    OBVIOUS
  <2> HIDE DEF Line
  <2>3. N \in Nat /\ DOMAIN menu = 1 .. N /\ \A i \in 1 .. N : menu[i] \in Line
    BY <2>1, LenProperties
  <2> QED BY <2>1, <2>2, <2>3
<1>2. exact = IF Exact # {} THEN Min(Exact) ELSE 0
  BY DEF SelectInSeq
<1>3. prefix = IF Beginnings # {} THEN Min(Beginnings) ELSE 0
  BY DEF SelectInSeq
<1>4. Exact # {} => exact \in Exact
  <2>1. Exact \in SUBSET (1 .. N)
    OBVIOUS
  <2> HIDE DEF Exact, exact
  <2> QED BY <1>1, <1>2, <2>1, MinOfIndices
<1>5. Beginnings # {} => prefix \in Beginnings
  <2>1. Beginnings \in SUBSET (1 .. N)
    OBVIOUS
  <2> HIDE DEF Beginnings, prefix
  <2> QED BY <1>1, <1>3, <2>1, MinOfIndices
<1>6. choice' = CASE exact # 0 -> [app |-> menu[exact].app, args |-> <<>>]
                  [] exact = 0 /\ prefix # 0 ->
                        [app |-> menu[prefix].app,
                         args |-> SubSeq(query, Len(menu[prefix].shown) + 1, Len(query))]
                  [] OTHER -> custom
  BY DEF lookup_name
<1> HIDE DEF exact, prefix
<1>7. CASE Exact # {}
  <2>1. exact \in 1 .. N /\ exact # 0 /\ menu[exact].shown = query
    BY <1>1, <1>4, <1>7
  <2>2. choice' = [app |-> menu[exact].app, args |-> <<>>]
    BY <1>6, <2>1
  <2>3. menu[exact].app \in MenuApps /\ <<>> \in String
    BY <1>1, <2>1 DEF String
  <2>4. \A i \in DOMAIN menu : menu[i].shown = query => i = exact
    BY <1>1, <2>1 DEF Chosen
  <2>5. query = query \o <<>>
    BY <1>1, ConcatEmptySeq DEF String
  <2> QED BY <1>1, <2>1, <2>2, <2>3, <2>4, <2>5
<1>8. CASE Exact = {} /\ Beginnings # {}
  <2>1. prefix \in 1 .. N /\ prefix # 0 /\ IsPrefix(menu[prefix].shown, query) /\ exact = 0
    BY <1>1, <1>2, <1>5, <1>8
  <2> DEFINE rest == SubSeq(query, Len(menu[prefix].shown) + 1, Len(query))
  <2>2. choice' = [app |-> menu[prefix].app, args |-> rest]
    BY <1>6, <2>1
  <2>3. menu[prefix].app \in MenuApps /\ menu[prefix].shown \in String
    BY <1>1, <2>1
  <2>4. rest \in String /\ query = menu[prefix].shown \o rest
    BY <1>1, <2>1, <2>3, PrefixAndRest
  <2> HIDE DEF rest
  <2>5. \A i \in DOMAIN menu : menu[i].shown # query
    BY <1>1, <1>8
  <2> QED BY <1>1, <2>1, <2>2, <2>3, <2>4, <2>5
<1>9. CASE Exact = {} /\ Beginnings = {}
  <2>1. exact = 0 /\ prefix = 0
    BY <1>2, <1>3, <1>9
  <2>2. choice' = custom
    BY <1>6, <2>1
  <2>3. custom \in [app: CustomApps, args: String] /\ custom.app.custom
    BY <1>1 DEF CustomApps, String
  <2>4. \A i \in DOMAIN menu : menu[i].shown # query
    BY <1>1, <1>9
  <2> HIDE DEF custom
  <2> QED BY <2>2, <2>3, <2>4
<1> QED
  BY <1>7, <1>8, <1>9

LEMMA ChosenInit == Init => Chosen
<1> SUFFICES ASSUME Init PROVE Chosen
  OBVIOUS
<1>1. PICK in \in Inputs : menu = in.menu /\ query = in.query /\ opt = in.opt
  BY DEF Init
<1>2. choice \in [app: MenuApps \cup CustomApps, args: String]
  <2>1. <<>> \in String
    BY DEF String
  <2>2. choice = [app |-> [custom |-> TRUE, exec |-> <<>>], args |-> <<>>]
    BY DEF Init
  <2> QED BY <2>1, <2>2 DEF CustomApps
<1> QED
  BY <1>1, <1>2, ExecutablesAssumption DEF Chosen

LEMMA ChosenNext == Chosen /\ [Next]_vars => Chosen'
<1> SUFFICES ASSUME Chosen, [Next]_vars PROVE Chosen'
  OBVIOUS
<1>1. UNCHANGED <<menu, query, opt>>
  BY DEF Next, vars, lookup_name, custom_command, chdir_fails, convert, expand, expand_done,
     assemble_aborts, execute_normal, execute_fake, execute_i3
<1>2. lookup_name \/ UNCHANGED choice
  BY DEF Next, vars, lookup_name, custom_command, chdir_fails, convert, expand, expand_done,
     assemble_aborts, execute_normal, execute_fake, execute_i3
<1>3. choice' \in [app: MenuApps \cup CustomApps, args: String]
  BY <1>2, LookupName DEF Chosen
<1> QED
  BY <1>1, <1>3 DEF Chosen

\* A line of the menu starts the application it stands for, whatever names begin with one
\* another and however long the input is (lookup_name(), main.cc:528).
THEOREM AlwaysQueryResolved == Spec => QueryResolved
<1>1. Chosen /\ [Next]_vars =>
        [lookup_name =>
          /\ \A i \in DOMAIN menu : menu[i].shown = query =>
                choice'.app = menu[i].app /\ choice'.args = <<>>
          /\ choice'.app.custom \/ \E i \in DOMAIN menu :
                choice'.app = menu[i].app /\ query = menu[i].shown \o choice'.args]_vars
  BY LookupName
<1> QED
  BY <1>1, ChosenInit, ChosenNext, PTL DEF Spec, QueryResolved

-----------------------------------------------------------------------------
(* Sequences, a piece at a time *)

\* A character at the end, and a sequence that is two.
LEMMA Pieces ==
    ASSUME NEW S, NEW a \in Seq(S), NEW b \in Seq(S)
    PROVE  /\ a \o b \in Seq(S) /\ Len(a \o b) = Len(a) + Len(b)
           /\ \A i \in 1 .. Len(a) : (a \o b)[i] = a[i]
           /\ \A i \in 1 .. Len(b) : (a \o b)[Len(a) + i] = b[i]
           /\ Len(a) \in Nat /\ Len(b) \in Nat
<1>1. Len(a) \in Nat /\ Len(b) \in Nat
  BY LenProperties
<1>2. /\ a \o b \in Seq(S) /\ Len(a \o b) = Len(a) + Len(b)
      /\ \A i \in 1 .. Len(a) + Len(b) : (a \o b)[i] = IF i <= Len(a) THEN a[i] ELSE b[i - Len(a)]
  BY ConcatProperties
<1> DEFINE m == Len(a)
           n == Len(b)
           c == a \o b
<1> HIDE DEF m, n, c
<1>3. /\ m \in Nat /\ n \in Nat
      /\ \A i \in 1 .. m + n : c[i] = IF i <= m THEN a[i] ELSE b[i - m]
  BY <1>1, <1>2 DEF m, n, c
<1>4. \A i \in 1 .. m : c[i] = a[i]
  BY <1>3
<1>5. ASSUME NEW i \in 1 .. n PROVE c[m + i] = b[i]
  <2>1. m + i \in 1 .. m + n /\ ~(m + i <= m) /\ (m + i) - m = i
    BY <1>3
  <2> QED BY <1>3, <2>1
<1> QED
  BY <1>1, <1>2, <1>4, <1>5 DEF m, n, c

LEMMA OneMore ==
    ASSUME NEW S, NEW u \in Seq(S), NEW x \in S, NEW v, v = u \o <<x>>
    PROVE  /\ v \in Seq(S) /\ Len(v) = Len(u) + 1
           /\ (\A i \in 1 .. Len(u) : v[i] = u[i]) /\ v[Len(u) + 1] = x
BY AppendProperties, AppendIsConcat

LEMMA OneByOne ==
    ASSUME NEW a, NEW b, NEW c, NEW d
    PROVE  /\ <<a>> \o <<b>> = <<a, b>>
           /\ (<<a>> \o <<b>>) \o <<c>> = <<a, b, c>>
           /\ ((<<a>> \o <<b>>) \o <<c>>) \o <<d>> = <<a, b, c, d>>
           /\ Append(<<a>>, b) = <<a, b>>
<1> DEFINE S == {a, b, c, d}
           one == <<a>>
           two == one \o <<b>>
           three == two \o <<c>>
           four == three \o <<d>>
           t2 == <<a, b>>
           t3 == <<a, b, c>>
           t4 == <<a, b, c, d>>
<1>1. a \in S /\ b \in S /\ c \in S /\ d \in S
  OBVIOUS
<1> HIDE DEF S
<1>2. one \in Seq(S) /\ Len(one) = 1 /\ one[1] = a
  BY <1>1
<1>3. t2 \in Seq(S) /\ Len(t2) = 2 /\ t2[1] = a /\ t2[2] = b
  BY <1>1
<1>4. t3 \in Seq(S) /\ Len(t3) = 3 /\ t3[1] = a /\ t3[2] = b /\ t3[3] = c
  BY <1>1
<1>5. t4 \in Seq(S) /\ Len(t4) = 4 /\ t4[1] = a /\ t4[2] = b /\ t4[3] = c /\ t4[4] = d
  BY <1>1
<1> HIDE DEF one, t2, t3, t4
<1>6. two \in Seq(S) /\ Len(two) = 2 /\ two[1] = a /\ two[2] = b
  <2>1. two = one \o <<b>>
    OBVIOUS
  <2> HIDE DEF two
  <2>2. /\ two \in Seq(S) /\ Len(two) = Len(one) + 1 /\ two[Len(one) + 1] = b
        /\ \A i \in 1 .. Len(one) : two[i] = one[i]
    BY <1>1, <1>2, <2>1, OneMore
  <2> QED BY <1>2, <2>2
<1> HIDE DEF two
<1>7. three \in Seq(S) /\ Len(three) = 3 /\ three[1] = a /\ three[2] = b /\ three[3] = c
  <2>1. three = two \o <<c>>
    OBVIOUS
  <2> HIDE DEF three
  <2>2. /\ three \in Seq(S) /\ Len(three) = Len(two) + 1 /\ three[Len(two) + 1] = c
        /\ \A i \in 1 .. Len(two) : three[i] = two[i]
    BY <1>1, <1>6, <2>1, OneMore
  <2> QED BY <1>6, <2>2
<1> HIDE DEF three
<1>8. four \in Seq(S) /\ Len(four) = 4 /\ four[1] = a /\ four[2] = b /\ four[3] = c /\ four[4] = d
  <2>1. four = three \o <<d>>
    OBVIOUS
  <2> HIDE DEF four
  <2>2. /\ four \in Seq(S) /\ Len(four) = Len(three) + 1 /\ four[Len(three) + 1] = d
        /\ \A i \in 1 .. Len(three) : four[i] = three[i]
    BY <1>1, <1>7, <2>1, OneMore, SMTT(30)
  <2> QED BY <1>7, <2>2
<1> HIDE DEF four
<1>9. two = t2
  <2>1. \A i \in 1 .. 2 : two[i] = t2[i]
    BY <1>3, <1>6
  <2> QED BY <1>3, <1>6, <2>1, SeqEqual
<1>10. three = t3
  <2>1. \A i \in 1 .. 3 : three[i] = t3[i]
    BY <1>4, <1>7
  <2> QED BY <1>4, <1>7, <2>1, SeqEqual
<1>11. four = t4
  <2>1. \A i \in 1 .. 4 : four[i] = t4[i]
    BY <1>5, <1>8
  <2> QED BY <1>5, <1>8, <2>1, SeqEqual
<1>12. Append(one, b) = two
  BY <1>1, <1>2, AppendIsConcat DEF two
<1> QED
  BY <1>9, <1>10, <1>11, <1>12 DEF one, two, three, four, t2, t3, t4

LEMMA LiteralChars ==
    /\ BS \in Chars /\ SQ \in Chars /\ SP \in Chars /\ "percent" \in Chars /\ "/bin/sh" \in Chars
    /\ "-c" \in Chars /\ "wrap script" \in Chars /\ "wrapper" \in Chars /\ "exec" \in Chars
    /\ "cd" \in Chars /\ "&&" \in Chars /\ "-title" \in Chars /\ "-T" \in Chars
    /\ "--title" \in Chars /\ "-e" \in Chars /\ "-x" \in Chars /\ "--" \in Chars /\ "script" \in Chars
BY DEF Chars

-----------------------------------------------------------------------------
(* How a shell reads *)

ShellStates == [done: Seq(Seq(String)), words: Seq(String), curr: String, open: BOOLEAN,
                quote: {SP, SQ, DQ}, escaped: BOOLEAN]

LEMMA EndWordType ==
    ASSUME NEW s \in ShellStates
    PROVE  EndWord(s) \in ShellStates
<1>1. Append(s.words, s.curr) \in Seq(String) /\ <<>> \in String
  BY AppendProperties DEF ShellStates, String
<1> QED
  BY <1>1 DEF ShellStates, EndWord

LEMMA EndCommandType ==
    ASSUME NEW s \in ShellStates
    PROVE  EndCommand(s) \in ShellStates
<1> DEFINE w == EndWord(s)
<1>1. w \in ShellStates
  BY EndWordType
<1>2. EndCommand(s) = [w EXCEPT !.done = Append(@, w.words), !.words = <<>>]
  BY DEF EndCommand
<1> HIDE DEF w
<1>3. Append(w.done, w.words) \in Seq(Seq(String)) /\ <<>> \in Seq(String)
  BY <1>1, AppendProperties DEF ShellStates
<1> QED
  BY <1>1, <1>2, <1>3 DEF ShellStates

LEMMA ShellCharType ==
    ASSUME NEW s \in ShellStates, NEW ch \in Chars
    PROVE  ShellChar(s, ch) \in ShellStates
<1>1. s.curr \in String /\ <<ch>> \in String /\ <<BS, ch>> \in String
  <2>1. BS \in Chars
    BY LiteralChars
  <2> QED BY <2>1 DEF ShellStates, String
<1>2. s.curr \o <<ch>> \in String /\ s.curr \o <<BS, ch>> \in String
  BY <1>1, Pieces DEF String
<1>3. EndWord(s) \in ShellStates /\ EndCommand(s) \in ShellStates
  BY EndWordType, EndCommandType
<1>4. CASE s.escaped
  BY <1>2, <1>4 DEF ShellStates, ShellChar
<1>5. CASE ~s.escaped
  BY <1>2, <1>3, <1>5 DEF ShellStates, ShellChar
<1> QED
  BY <1>4, <1>5 DEF ShellStates

\* The states it comes through
LEMMA ShellRunSteps ==
    ASSUME NEW s \in ShellStates, NEW string \in String
    PROVE  \E run \in [0 .. Len(string) -> ShellStates] :
              /\ run[0] = s
              /\ \A n \in 1 .. Len(string) : run[n] = ShellChar(run[n - 1], string[n])
              /\ ShellRun(s, string) = run[Len(string)]
<1> DEFINE N == Len(string)
           Solves(g) == g = [n \in 0 .. N |-> IF n = 0 THEN s ELSE ShellChar(g[n - 1], string[n])]
           run == CHOOSE g : Solves(g)
           step == [n \in 1 .. N |-> [x \in ShellStates |-> ShellChar(x, string[n])]]
<1>1. N \in Nat /\ \A n \in 1 .. N : string[n] \in Chars
  BY LenProperties DEF String
<1>2. ShellRun(s, string) = run[N]
  BY DEF ShellRun
<1>3. \A n \in 1 .. N, x \in ShellStates : step[n][x] = ShellChar(x, string[n])
  OBVIOUS
<1>4. \A n \in 1 .. N, x \in ShellStates : step[n][x] \in ShellStates
  BY <1>1, <1>3, ShellCharType
<1> HIDE DEF step
<1>5. PICK w : w \in Recursion(N, ShellStates, s, step)
  BY <1>1, <1>4, RecursionExists
<1>6. /\ w \in [0 .. N -> ShellStates] /\ w[0] = s
      /\ \A n \in 1 .. N : w[n] = step[n][w[n - 1]]
  BY <1>5 DEF Recursion
<1>7. ASSUME NEW n \in 0 .. N, n # 0 PROVE w[n] = ShellChar(w[n - 1], string[n])
  <2>1. n \in 1 .. N /\ n - 1 \in 0 .. N
    BY <1>1, <1>7
  <2> QED BY <1>3, <1>6, <2>1
<1>8. Solves(w)
  BY <1>6, <1>7
<1>9. Solves(run)
  <2> HIDE DEF Solves
  <2> QED BY <1>8
<1> HIDE DEF run
<1>10. /\ DOMAIN run = 0 .. N /\ run[0] = s
       /\ \A n \in 1 .. N : run[n] = ShellChar(run[n - 1], string[n])
  BY <1>1, <1>9
<1>11. \A n \in 0 .. N : run[n] \in ShellStates
  <2> DEFINE S == {n \in 0 .. N : run[n] \in ShellStates}
  <2>1. 0 \in S
    BY <1>1, <1>10
  <2>2. ASSUME NEW n \in 1 .. N, n - 1 \in S PROVE n \in S
    BY <1>1, <1>10, <2>2, ShellCharType
  <2> HIDE DEF S
  <2>3. 0 .. N \subseteq S
    BY <1>1, <2>1, <2>2, BoundedInduction
  <2> QED BY <2>3 DEF S
<1>12. run \in [0 .. N -> ShellStates]
  BY <1>9, <1>11
<1> QED
  BY <1>2, <1>10, <1>12

\* One string after another is their concatenation.
LEMMA ShellRunConcat ==
    ASSUME NEW s \in ShellStates, NEW a \in String, NEW b \in String
    PROVE  /\ ShellRun(s, a) \in ShellStates
           /\ ShellRun(s, a \o b) = ShellRun(ShellRun(s, a), b)
<1> DEFINE m == Len(a)
           l == Len(b)
           c == a \o b
<1>1. /\ c \in String /\ Len(c) = m + l /\ m \in Nat /\ l \in Nat
      /\ \A i \in 1 .. m : c[i] = a[i]
      /\ \A i \in 1 .. l : c[m + i] = b[i]
  BY Pieces DEF String
<1> HIDE DEF c
<1>2. PICK ra \in [0 .. m -> ShellStates] :
         /\ ra[0] = s /\ ShellRun(s, a) = ra[m]
         /\ \A n \in 1 .. m : ra[n] = ShellChar(ra[n - 1], a[n])
  BY ShellRunSteps
<1>3. ra[m] \in ShellStates
  BY <1>1, <1>2
<1>4. PICK rb \in [0 .. l -> ShellStates] :
         /\ rb[0] = ra[m] /\ ShellRun(ra[m], b) = rb[l]
         /\ \A n \in 1 .. l : rb[n] = ShellChar(rb[n - 1], b[n])
  BY <1>3, ShellRunSteps
<1>5. PICK rc \in [0 .. m + l -> ShellStates] :
         /\ rc[0] = s /\ ShellRun(s, c) = rc[m + l]
         /\ \A n \in 1 .. m + l : rc[n] = ShellChar(rc[n - 1], c[n])
  BY <1>1, ShellRunSteps
<1> HIDE DEF m, l
<1>6. \A n \in 0 .. m : rc[n] = ra[n]
  <2> DEFINE S == {n \in 0 .. m : rc[n] = ra[n]}
  <2>1. 0 \in S
    BY <1>1, <1>2, <1>5
  <2>2. ASSUME NEW n \in 1 .. m, n - 1 \in S PROVE n \in S
    <3>1. n \in 1 .. m + l /\ n \in 0 .. m /\ rc[n - 1] = ra[n - 1]
      BY <1>1, <2>2
    <3>2. rc[n] = ShellChar(rc[n - 1], c[n]) /\ ra[n] = ShellChar(ra[n - 1], a[n]) /\ c[n] = a[n]
      BY <1>1, <1>2, <1>5, <3>1
    <3> QED BY <3>1, <3>2
  <2> HIDE DEF S
  <2>3. 0 .. m \subseteq S
    BY <1>1, <2>1, <2>2, BoundedInduction
  <2> QED BY <2>3 DEF S
<1>7. \A n \in 0 .. l : rc[m + n] = rb[n]
  <2> DEFINE S == {n \in 0 .. l : rc[m + n] = rb[n]}
  <2>1. 0 \in S
    <3>1. m \in 0 .. m /\ m + 0 = m
      BY <1>1
    <3> QED BY <1>1, <1>4, <1>6, <3>1
  <2>2. ASSUME NEW n \in 1 .. l, n - 1 \in S PROVE n \in S
    <3>1. m + n \in 1 .. m + l /\ n \in 0 .. l /\ (m + n) - 1 = m + (n - 1) /\ rc[m + (n - 1)] = rb[n - 1]
      BY <1>1, <2>2
    <3>2. /\ rc[m + n] = ShellChar(rc[(m + n) - 1], c[m + n])
          /\ rb[n] = ShellChar(rb[n - 1], b[n]) /\ c[m + n] = b[n]
      BY <1>1, <1>4, <1>5, <3>1
    <3> QED BY <3>1, <3>2
  <2> HIDE DEF S
  <2>3. 0 .. l \subseteq S
    BY <1>1, <2>1, <2>2, BoundedInduction
  <2> QED BY <2>3 DEF S
<1>8. rc[m + l] = rb[l]
  <2>1. l \in 0 .. l
    BY <1>1
  <2> QED BY <1>7, <2>1
<1> QED
  BY <1>2, <1>3, <1>4, <1>5, <1>8 DEF c

\* A single character, and nothing
LEMMA ShellRunShort ==
    ASSUME NEW s \in ShellStates
    PROVE  /\ ShellRun(s, <<>>) = s
           /\ \A ch \in Chars : ShellRun(s, <<ch>>) = ShellChar(s, ch)
<1>1. <<>> \in String /\ Len(<<>>) = 0 /\ ShellRun(s, <<>>) = s
  <2>1. <<>> \in String /\ Len(<<>>) = 0
    BY DEF String
  <2>2. PICK run \in [0 .. Len(<<>>) -> ShellStates] :
           run[0] = s /\ ShellRun(s, <<>>) = run[Len(<<>>)]
    BY <2>1, ShellRunSteps
  <2> QED BY <2>1, <2>2
<1>2. ASSUME NEW ch \in Chars PROVE ShellRun(s, <<ch>>) = ShellChar(s, ch)
  <2> DEFINE t == <<ch>>
  <2>1. t \in String /\ Len(t) = 1 /\ t[1] = ch
    BY DEF String
  <2> HIDE DEF t
  <2>2. PICK run \in [0 .. Len(t) -> ShellStates] :
           /\ run[0] = s /\ ShellRun(s, t) = run[Len(t)]
           /\ \A n \in 1 .. Len(t) : run[n] = ShellChar(run[n - 1], t[n])
    BY <2>1, ShellRunSteps
  <2>3. 1 \in 1 .. Len(t) /\ 1 - 1 = 0
    BY <2>1
  <2>4. run[1] = ShellChar(run[0], t[1])
    BY <2>2, <2>3
  <2> QED BY <2>1, <2>2, <2>4 DEF t
<1> QED
  BY <1>1, <1>2

LEMMA ShellRunThen ==
    ASSUME NEW s \in ShellStates, NEW a \in String, NEW ch \in Chars
    PROVE  /\ a \o <<ch>> \in String
           /\ ShellRun(s, a \o <<ch>>) = ShellChar(ShellRun(s, a), ch)
<1>1. <<ch>> \in String
  BY DEF String
<1> QED
  BY <1>1, ShellRunConcat, ShellRunShort, Pieces DEF String

-----------------------------------------------------------------------------
(* Quoting *)

\* Outside of quotes, behind no backslash
Between(s) == s \in ShellStates /\ ~s.escaped /\ s.quote = SP

\* What a state becomes when a word is read, and within the quotes of it
Reads(s, w) == [s EXCEPT !.curr = @ \o w, !.open = TRUE]
Within(s, w) == [s EXCEPT !.curr = @ \o w, !.open = TRUE, !.quote = SQ]

LEMMA ReadsType ==
    ASSUME NEW s, Between(s), NEW w \in String
    PROVE  Within(s, w) \in ShellStates /\ Between(Reads(s, w))
<1>1. s.curr \o w \in String
  BY Pieces DEF ShellStates, String, Between
<1> QED
  BY <1>1 DEF ShellStates, Within, Reads, Between

\* A character within quotes; a ' ends them, and \' and ' after it begin them anew.
LEMMA CharWithin ==
    ASSUME NEW s, Between(s), NEW w \in String
    PROVE  /\ ShellChar(Within(s, w), SQ) = Reads(s, w)
           /\ \A ch \in Chars : ch # SQ => ShellChar(Within(s, w), ch) = Within(s, w \o <<ch>>)
           /\ ShellChar(ShellChar(Reads(s, w), BS), SQ) = Reads(s, w \o <<SQ>>)
           /\ ShellChar(Reads(s, w), SQ) = Within(s, w)
<1>1. s \in ShellStates /\ s.curr \in String /\ ~s.escaped /\ s.escaped = FALSE /\ s.quote = SP
  BY DEF ShellStates, Between
<1>2. \A ch \in Chars : (s.curr \o w) \o <<ch>> = s.curr \o (w \o <<ch>>)
  <2> TAKE ch \in Chars
  <2> DEFINE u == <<ch>>
             c == s.curr
  <2>1. u \in Seq(Chars) /\ w \in Seq(Chars) /\ c \in Seq(Chars)
    BY <1>1 DEF String
  <2> HIDE DEF u, c
  <2>2. (c \o w) \o u = c \o (w \o u)
    BY <2>1, ConcatAssociative
  <2> QED BY <2>2 DEF u, c
<1>3. SQ \in Chars
  BY LiteralChars
<1>4. ShellChar(Within(s, w), SQ) = Reads(s, w)
  <2>1. ShellChar(Within(s, w), SQ) = [Within(s, w) EXCEPT !.quote = SP]
    BY <1>1 DEF ShellChar, Within, ShellStates, SQ, SP
  <2> QED BY <1>1, <2>1 DEF Within, Reads, ShellStates
<1>5. ASSUME NEW ch \in Chars, ch # SQ
      PROVE  ShellChar(Within(s, w), ch) = Within(s, w \o <<ch>>)
  <2> DEFINE q == Within(s, w)
  <2>1. q.quote = SQ /\ ~q.escaped /\ q.open = TRUE /\ q.curr = s.curr \o w /\ q.escaped = FALSE
    BY <1>1 DEF Within, ShellStates
  <2>2. ShellChar(q, ch) = [q EXCEPT !.curr = @ \o <<ch>>, !.open = TRUE, !.escaped = FALSE]
    <3> HIDE DEF q
    <3> QED BY <1>5, <2>1 DEF ShellChar, SQ, SP
  <2> QED BY <1>1, <1>2, <2>2 DEF Within, ShellStates
<1>6. ShellChar(ShellChar(Reads(s, w), BS), SQ) = Reads(s, w \o <<SQ>>)
  <2> DEFINE q == Reads(s, w)
             r == [q EXCEPT !.escaped = TRUE]
  <2>1. q.quote = SP /\ ~q.escaped
    BY <1>1 DEF Reads, ShellStates
  <2>2. ShellChar(q, BS) = r
    <3> HIDE DEF q
    <3> QED BY <2>1 DEF ShellChar, SQ, SP, BS, DQ
  <2>3. r.escaped /\ r.quote = SP
    BY <1>1 DEF Reads, ShellStates
  <2>4. ShellChar(r, SQ) = [r EXCEPT !.curr = @ \o <<SQ>>, !.open = TRUE, !.escaped = FALSE]
    <3> HIDE DEF r
    <3> QED BY <2>3 DEF ShellChar, SP, DQ
  <2>5. [r EXCEPT !.curr = @ \o <<SQ>>, !.open = TRUE, !.escaped = FALSE]
         = [s EXCEPT !.curr = (@ \o w) \o <<SQ>>, !.open = TRUE]
    BY <1>1 DEF Reads, ShellStates
  <2> QED BY <1>2, <1>3, <2>2, <2>4, <2>5 DEF Reads
<1>7. ShellChar(Reads(s, w), SQ) = Within(s, w)
  <2> DEFINE q == Reads(s, w)
  <2>1. q.quote = SP /\ ~q.escaped
    BY <1>1 DEF Reads, ShellStates
  <2>2. ShellChar(q, SQ) = [q EXCEPT !.open = TRUE, !.quote = SQ]
    <3> HIDE DEF q
    <3> QED BY <2>1 DEF ShellChar, SQ, SP, BS, DQ
  <2> QED BY <1>1, <2>2 DEF Reads, Within, ShellStates
<1> QED
  BY <1>4, <1>5, <1>6, <1>7

\* '\'' within quotes is a ', and '\' a last one.
LEMMA QuoteWithin ==
    ASSUME NEW s, Between(s), NEW w \in String
    PROVE  /\ ShellRun(Within(s, w), <<SQ, BS, SQ, SQ>>) = Within(s, w \o <<SQ>>)
           /\ ShellRun(Within(s, w), <<SQ, BS, SQ>>) = Reads(s, w \o <<SQ>>)
<1> DEFINE q == Within(s, w)
           one == <<SQ>>
           two == one \o <<BS>>
           three == two \o <<SQ>>
           four == three \o <<SQ>>
<1>1. q \in ShellStates
  BY ReadsType
<1>2. BS \in Chars /\ SQ \in Chars /\ one \in String
  <2>1. BS \in Chars /\ SQ \in Chars
    BY LiteralChars
  <2> QED BY <2>1 DEF String
<1>3. w \o one \in String
  BY <1>2, Pieces DEF String
<1>4. three = <<SQ, BS, SQ>> /\ four = <<SQ, BS, SQ, SQ>>
  BY OneByOne
<1>5. ShellRun(q, one) = Reads(s, w)
  BY <1>1, <1>2, ShellRunShort, CharWithin
<1> HIDE DEF one, q
<1>6. two \in String /\ ShellRun(q, two) = ShellChar(ShellRun(q, one), BS)
  BY <1>1, <1>2, ShellRunThen
<1> HIDE DEF two
<1>7. three \in String /\ ShellRun(q, three) = ShellChar(ShellRun(q, two), SQ)
  BY <1>1, <1>2, <1>6, ShellRunThen
<1> HIDE DEF three
<1>8. ShellRun(q, four) = ShellChar(ShellRun(q, three), SQ)
  BY <1>1, <1>2, <1>7, ShellRunThen
<1> HIDE DEF four
<1>9. ShellRun(q, three) = Reads(s, w \o <<SQ>>)
  BY <1>5, <1>6, <1>7, CharWithin
<1>10. ShellRun(q, four) = Within(s, w \o <<SQ>>)
  BY <1>3, <1>8, <1>9, CharWithin DEF one
<1> QED
  BY <1>4, <1>9, <1>10 DEF q

\* A quoted word is read as the word, whatever is in it.
LEMMA Quoted ==
    ASSUME NEW s, Between(s), NEW w \in String
    PROVE  /\ sq_quote(w) \in String /\ sq_quote(w) # <<>>
           /\ ShellRun(s, sq_quote(w)) = Reads(s, w)
<1> DEFINE N == Len(w)
           open == <<SQ>>
           Char(ch) == IF ch = SQ THEN <<SQ, BS, SQ, SQ>> ELSE <<ch>>
           F(x, n) == x \o Char(w[n])
           Solves(g) == g = [n \in 0 .. N |-> IF n = 0 THEN open ELSE F(g[n - 1], n)]
           body == CHOOSE g : Solves(g)
<1>1. N \in Nat /\ (\A n \in 1 .. N : w[n] \in Chars) /\ s \in ShellStates
  BY LenProperties DEF String, Between
<1>2. sq_quote(w) = IF w # <<>> /\ Last(w) = SQ THEN body[N - 1] \o <<SQ, BS, SQ>>
                                                ELSE body[N] \o <<SQ>>
  BY DEF sq_quote
<1>3. BS \in Chars /\ SQ \in Chars
  BY LiteralChars
<1>4. \A ch \in Chars : Char(ch) \in String
  BY <1>3 DEF String
<1>5. open \in String /\ open # <<>>
  BY <1>3 DEF String
<1>6. \A n \in 1 .. N, x \in String : F(x, n) \in String
  <2> HIDE DEF Char
  <2> QED BY <1>1, <1>4, Pieces DEF String
<1> HIDE DEF F, open
<1>7. /\ body[0] = open /\ (\A n \in 1 .. N : body[n] = F(body[n - 1], n))
      /\ \A n \in 0 .. N : body[n] \in String
  <2> DEFINE step == [n \in 1 .. N |-> [x \in String |-> F(x, n)]]
  <2>1. \A n \in 1 .. N, x \in String : step[n][x] = F(x, n)
    OBVIOUS
  <2>2. \A n \in 1 .. N, x \in String : step[n][x] \in String
    BY <1>1, <1>5, <1>6, <2>1
  <2> HIDE DEF step
  <2>3. PICK g : g \in Recursion(N, String, open, step)
    BY <1>1, <1>5, <1>6, <2>2, RecursionExists
  <2>4. /\ g \in [0 .. N -> String] /\ g[0] = open
        /\ \A n \in 1 .. N : g[n] = step[n][g[n - 1]]
    BY <2>3 DEF Recursion
  <2>5. ASSUME NEW n \in 0 .. N, n # 0 PROVE g[n] = F(g[n - 1], n)
    <3>1. n \in 1 .. N /\ n - 1 \in 0 .. N
      BY <1>1, <1>5, <1>6, <2>5
    <3> QED BY <2>1, <2>4, <3>1
  <2>6. Solves(g)
    BY <2>4, <2>5
  <2>7. Solves(body)
    <3> HIDE DEF Solves
    <3> QED BY <2>6
  <2> HIDE DEF body
  <2>8. body[0] = open /\ \A n \in 1 .. N : body[n] = F(body[n - 1], n)
    BY <1>1, <1>5, <1>6, <2>7
  <2> DEFINE S == {n \in 0 .. N : body[n] \in String}
  <2>9. 0 \in S
    BY <1>1, <1>5, <1>6, <2>8
  <2>10. ASSUME NEW n \in 1 .. N, n - 1 \in S PROVE n \in S
    BY <1>1, <1>5, <1>6, <2>8, <2>10
  <2> HIDE DEF S
  <2>11. 0 .. N \subseteq S
    BY <1>1, <1>5, <1>6, <2>9, <2>10, BoundedInduction
  <2> QED BY <2>8, <2>11 DEF S

<1> HIDE DEF body, Solves
\* the beginning of the word, read within quotes
<1> DEFINE Upto(n) == SubSeq(w, 1, n)
           S == {n \in 0 .. N : ShellRun(s, body[n]) = Within(s, Upto(n))}
<1>8. \A n \in 0 .. N : Upto(n) \in String
  BY <1>1, SubSeqProperties DEF String
<1>9. ASSUME NEW n \in 1 .. N PROVE Upto(n) = Upto(n - 1) \o <<w[n]>>
  BY <1>1, SubSeqRecursiveSecond DEF String
<1>10. /\ Upto(0) = <<>> /\ Upto(N) = w
  BY <1>1, SubSeqEmpty, SubSeqFull DEF String
<1> HIDE DEF Upto
<1>11. 0 \in S
  <2>1. ShellRun(s, open) = ShellChar(s, SQ)
    BY <1>1, <1>3, ShellRunShort DEF open
  <2>2. ShellChar(s, SQ) = [s EXCEPT !.open = TRUE, !.quote = SQ]
    BY DEF ShellChar, Between, SQ, SP, BS, DQ
  <2>3. s.curr \o <<>> = s.curr
    BY <1>1, ConcatEmptySeq DEF ShellStates, String
  <2>4. Within(s, <<>>) = [s EXCEPT !.open = TRUE, !.quote = SQ]
    BY <1>1, <2>3 DEF Within, ShellStates
  <2> QED BY <1>1, <1>7, <1>10, <2>1, <2>2, <2>4
<1>12. ASSUME NEW n \in 1 .. N, n - 1 \in S PROVE n \in S
  <2> DEFINE before == Upto(n - 1)
             ch == w[n]
  <2>1. /\ n \in 0 .. N /\ n - 1 \in 0 .. N /\ body[n - 1] \in String /\ ch \in Chars
        /\ before \in String /\ ShellRun(s, body[n - 1]) = Within(s, before)
    BY <1>1, <1>7, <1>8, <1>12
  <2>2. body[n] = body[n - 1] \o Char(ch) /\ Upto(n) = before \o <<ch>>
    BY <1>7, <1>9 DEF F
  <2> HIDE DEF before, ch
  <2>3. ShellRun(s, body[n]) = ShellRun(Within(s, before), Char(ch))
    <3>1. Char(ch) \in String
      BY <1>4, <2>1
    <3> HIDE DEF Char
    <3> QED BY <1>1, <2>1, <2>2, <3>1, ShellRunConcat
  <2>4. CASE ch = SQ
    <3>1. Char(ch) = <<SQ, BS, SQ, SQ>>
      BY <2>4
    <3> HIDE DEF Char
    <3> QED BY <2>1, <2>2, <2>3, <2>4, <3>1, QuoteWithin
  <2>5. CASE ch # SQ
    <3>1. Char(ch) = <<ch>>
      BY <2>5
    <3>2. ShellRun(Within(s, before), <<ch>>) = ShellChar(Within(s, before), ch)
      BY <2>1, ShellRunShort, ReadsType
    <3> HIDE DEF Char
    <3> QED BY <2>1, <2>2, <2>3, <2>5, <3>1, <3>2, CharWithin, ZenonT(40)
  <2> QED BY <2>4, <2>5
<1>13. \A n \in 0 .. N : ShellRun(s, body[n]) = Within(s, Upto(n))
  <2> HIDE DEF S
  <2>1. 0 .. N \subseteq S
    BY <1>1, <1>11, <1>12, BoundedInduction
  <2> QED BY <2>1 DEF S
<1>14. CASE w # <<>> /\ Last(w) = SQ
  <2> DEFINE end == <<SQ, BS, SQ>>
  <2>1. N \in 1 .. N /\ N - 1 \in 0 .. N /\ w[N] = SQ
    BY <1>1, <1>14, EmptySeq DEF String, Last
  <2>2. end \in String /\ Len(end) = 3
    BY <1>3 DEF String
  <2>3. ShellRun(Within(s, Upto(N - 1)), end) = Reads(s, Upto(N - 1) \o <<SQ>>)
    BY <1>8, <2>1, QuoteWithin
  <2> HIDE DEF end
  <2>4. sq_quote(w) = body[N - 1] \o end
    BY <1>2, <1>14 DEF end
  <2>5. body[N - 1] \o end \in String /\ body[N - 1] \o end # <<>>
    <3>1. /\ body[N - 1] \in String /\ body[N - 1] \o end \in String
          /\ Len(body[N - 1] \o end) = Len(body[N - 1]) + Len(end) /\ Len(body[N - 1]) \in Nat
      BY <1>7, <2>1, <2>2, Pieces DEF String
    <3> QED BY <2>2, <3>1
  <2>6. ShellRun(s, body[N - 1] \o end) = ShellRun(Within(s, Upto(N - 1)), end)
    BY <1>1, <1>7, <1>13, <2>1, <2>2, ShellRunConcat
  <2> QED BY <1>9, <1>10, <2>1, <2>3, <2>4, <2>5, <2>6
<1>15. CASE ~(w # <<>> /\ Last(w) = SQ)
  <2>1. N \in 0 .. N
    BY <1>1
  <2>2. sq_quote(w) = body[N] \o open
    BY <1>2, <1>15 DEF open
  <2>3. body[N] \o open \in String /\ body[N] \o open # <<>>
    <3>1. /\ body[N] \in String /\ body[N] \o open \in String
          /\ Len(body[N] \o open) = Len(body[N]) + Len(open) /\ Len(body[N]) \in Nat
      BY <1>5, <1>7, <2>1, Pieces DEF String
    <3>2. Len(open) = 1
      BY DEF open
    <3> QED BY <3>1, <3>2
  <2>4. ShellRun(s, body[N] \o open) = ShellChar(Within(s, w), SQ)
    BY <1>1, <1>3, <1>7, <1>10, <1>13, <2>1, ShellRunThen DEF open
  <2> QED BY <2>2, <2>3, <2>4, CharWithin
<1> QED
  BY <1>14, <1>15

-----------------------------------------------------------------------------
(* A command line *)

\* At the beginning of a word
Fresh(s) == Between(s) /\ s.curr = <<>> /\ s.open = FALSE

WithWords(s, words) == [s EXCEPT !.words = @ \o words]

LEMMA SpaceEndsWord ==
    ASSUME NEW s, Between(s)
    PROVE  ShellChar(s, SP) = EndWord(s)
BY DEF Between, ShellChar, SP, SQ, DQ, BS

LEMMA WithWordsFresh ==
    ASSUME NEW s, Fresh(s), NEW words \in Seq(String)
    PROVE  Fresh(WithWords(s, words))
<1>1. s.words \o words \in Seq(String)
  BY Pieces DEF Fresh, Between, ShellStates
<1> QED
  BY <1>1 DEF Fresh, Between, WithWords, ShellStates

\* A word that has been read is added when it ends.
LEMMA WordRead ==
    ASSUME NEW s, Fresh(s), NEW w \in String
    PROVE  /\ EndWord(Reads(s, w)) = WithWords(s, <<w>>)
           /\ Between(Reads(s, w))
<1>1. /\ s \in ShellStates /\ s.words \in Seq(String)
      /\ s.curr = <<>> /\ s.open = FALSE /\ ~s.escaped /\ s.quote = SP
  BY DEF Fresh, Between, ShellStates
<1>2. <<>> \o w = w
  BY ConcatEmptySeq DEF String
<1>3. Append(s.words, w) = s.words \o <<w>>
  <2> DEFINE ws == s.words
  <2>1. ws \in Seq(String)
    BY <1>1
  <2> HIDE DEF ws
  <2>2. Append(ws, w) = ws \o <<w>>
    BY <2>1, AppendIsConcat
  <2> QED BY <2>2 DEF ws
<1>4. Reads(s, w) = [s EXCEPT !.curr = w, !.open = TRUE]
  BY <1>1, <1>2 DEF Reads
<1>5. EndWord(Reads(s, w)) = [s EXCEPT !.words = Append(@, w)]
  BY <1>1, <1>4 DEF EndWord, ShellStates
<1> QED
  BY <1>3, <1>5, ReadsType DEF WithWords, Fresh

\* The command line that convert_argv_to_string() makes of an argv is read as that argv.
LEMMA CommandLineRead ==
    ASSUME NEW s, Fresh(s), NEW argv \in Seq(String)
    PROVE  /\ convert_argv_to_string(argv) \in String
           /\ Between(ShellRun(s, convert_argv_to_string(argv)))
           /\ EndWord(ShellRun(s, convert_argv_to_string(argv))) = WithWords(s, argv)
<1> DEFINE N == Len(argv)
           none == <<>>
           quoted == [i \in DOMAIN argv |-> sq_quote(argv[i])]
           F(x, n) == JoinNext(x, quoted[n])
           Solves(g) == g = [n \in 0 .. N |-> IF n = 0 THEN none ELSE F(g[n - 1], n)]
           joined == CHOOSE g : Solves(g)
<1>1. /\ N \in Nat /\ DOMAIN argv = 1 .. N /\ (\A n \in 1 .. N : argv[n] \in String)
      /\ s \in ShellStates /\ Between(s)
  BY LenProperties DEF Fresh, Between
<1>2. \A i \in 1 .. N : /\ quoted[i] = sq_quote(argv[i]) /\ quoted[i] \in String /\ quoted[i] # <<>>
  BY <1>1, Quoted
<1>3. Len(quoted) = N
  <2>1. quoted \in [1 .. N -> String]
    BY <1>1, <1>2
  <2> HIDE DEF quoted
  <2> QED BY <1>1, <2>1
<1>4. convert_argv_to_string(argv) = joined[N]
  <2>1. convert_argv_to_string(argv) = Joined(quoted)
    BY DEF convert_argv_to_string
  <2> HIDE DEF quoted
  <2>2. Joined(quoted) = joined[N]
    BY <1>3 DEF Joined
  <2> QED BY <2>1, <2>2
<1> HIDE DEF quoted
<1>5. SP \in Chars
  BY LiteralChars
<1>6. none \in String
  BY DEF String
<1>7. \A n \in 1 .. N, x \in String : F(x, n) \in String
  <2>1. \A x \in String : x \o <<SP>> \in String
    BY <1>1, <1>5, ShellRunThen
  <2>2. \A x \in String, y \in String : x \o y \in String
    BY Pieces DEF String
  <2> QED BY <1>2, <2>1, <2>2 DEF JoinNext
<1> HIDE DEF F, none
<1>8. /\ joined[0] = none /\ (\A n \in 1 .. N : joined[n] = F(joined[n - 1], n))
      /\ \A n \in 0 .. N : joined[n] \in String
  <2> DEFINE step == [n \in 1 .. N |-> [x \in String |-> F(x, n)]]
  <2>1. \A n \in 1 .. N, x \in String : step[n][x] = F(x, n)
    OBVIOUS
  <2>2. \A n \in 1 .. N, x \in String : step[n][x] \in String
    BY <1>1, <1>6, <1>7, <2>1
  <2> HIDE DEF step
  <2>3. PICK g : g \in Recursion(N, String, none, step)
    BY <1>1, <1>6, <1>7, <2>2, RecursionExists
  <2>4. /\ g \in [0 .. N -> String] /\ g[0] = none
        /\ \A n \in 1 .. N : g[n] = step[n][g[n - 1]]
    BY <2>3 DEF Recursion
  <2>5. ASSUME NEW n \in 0 .. N, n # 0 PROVE g[n] = F(g[n - 1], n)
    <3>1. n \in 1 .. N /\ n - 1 \in 0 .. N
      BY <1>1, <1>6, <1>7, <2>5
    <3> QED BY <2>1, <2>4, <3>1
  <2>6. Solves(g)
    BY <2>4, <2>5
  <2>7. Solves(joined)
    <3> HIDE DEF Solves
    <3> QED BY <2>6
  <2> HIDE DEF joined
  <2>8. joined[0] = none /\ \A n \in 1 .. N : joined[n] = F(joined[n - 1], n)
    BY <1>1, <1>6, <1>7, <2>7
  <2> DEFINE S == {n \in 0 .. N : joined[n] \in String}
  <2>9. 0 \in S
    BY <1>1, <1>6, <1>7, <2>8
  <2>10. ASSUME NEW n \in 1 .. N, n - 1 \in S PROVE n \in S
    BY <1>1, <1>6, <1>7, <2>8, <2>10
  <2> HIDE DEF S
  <2>11. 0 .. N \subseteq S
    BY <1>1, <1>6, <1>7, <2>9, <2>10, BoundedInduction
  <2> QED BY <2>8, <2>11 DEF S
<1> HIDE DEF joined, Solves
<1> DEFINE Upto(n) == SubSeq(argv, 1, n)
           End(n) == ShellRun(s, joined[n])
           S == {n \in 0 .. N : /\ n > 0 => joined[n] # <<>>
                                /\ Between(End(n)) /\ EndWord(End(n)) = WithWords(s, Upto(n))}
<1>9. \A n \in 0 .. N : Upto(n) \in Seq(String)
  BY <1>1, SubSeqProperties
<1>10. \A n \in 1 .. N : Upto(n) = Upto(n - 1) \o <<argv[n]>>
  BY <1>1, SubSeqRecursiveSecond
<1>11. Upto(0) = <<>> /\ Upto(N) = argv
  BY <1>1, SubSeqEmpty, SubSeqFull
<1> HIDE DEF Upto
<1>12. 0 \in S
  <2>1. End(0) = s
    BY <1>1, <1>8, ShellRunShort DEF none
  <2>2. EndWord(s) = s
    BY DEF EndWord, Fresh
  <2>3. s.words \o <<>> = s.words
    BY <1>1, ConcatEmptySeq DEF ShellStates
  <2>4. WithWords(s, <<>>) = s
    BY <1>1, <2>3 DEF WithWords, ShellStates
  <2> QED BY <1>1, <1>11, <2>1, <2>2, <2>4
<1>13. ASSUME NEW n \in 1 .. N, n - 1 \in S PROVE n \in S
  <2> DEFINE before == Upto(n - 1)
             w == argv[n]
             e == WithWords(s, before)
             j == joined[n - 1]
             q == quoted[n]
  <2>1. /\ n \in 0 .. N /\ n - 1 \in 0 .. N /\ n > 0 /\ w \in String /\ before \in Seq(String)
        /\ j \in String /\ q \in String /\ q # <<>> /\ q = sq_quote(w)
        /\ Between(ShellRun(s, j)) /\ EndWord(ShellRun(s, j)) = e
        /\ n - 1 > 0 => j # <<>>
    BY <1>1, <1>2, <1>8, <1>9, <1>13
  <2>2. joined[n] = JoinNext(j, q) /\ Upto(n) = before \o <<w>>
    BY <1>8, <1>10 DEF F
  <2>3. Fresh(e)
    BY <2>1, WithWordsFresh
  <2>4. WithWords(e, <<w>>) = WithWords(s, Upto(n))
    <3> DEFINE old == s.words
               one == <<w>>
    <3>1. old \in Seq(String) /\ one \in Seq(String) /\ before \in Seq(String)
      BY <1>1, <2>1 DEF ShellStates
    <3> HIDE DEF old, one, before
    <3>2. (old \o before) \o one = old \o (before \o one)
      BY <3>1, ConcatAssociative, SMTT(30)
    <3>3. (s.words \o before) \o <<w>> = s.words \o Upto(n)
      BY <2>2, <3>2 DEF old, one
    <3> QED BY <1>1, <3>3 DEF WithWords, ShellStates
  <2> HIDE DEF before, w, j, q, e
  <2>5. joined[n] # <<>> /\ ShellRun(s, joined[n]) = Reads(e, w)
    <3>1. CASE j = <<>>
      <4>1. joined[n] = q /\ n = 1
        BY <2>1, <2>2, <3>1 DEF JoinNext
      <4>2. e = s
        <5>1. ShellRun(s, j) = s
          BY <1>1, <3>1, ShellRunShort
        <5> QED BY <2>1, <5>1 DEF EndWord, Fresh
      <4> QED BY <2>1, <2>3, <4>1, <4>2, Quoted DEF Fresh
    <3>2. CASE j # <<>>
      <4> DEFINE k == j \o <<SP>>
      <4>1. joined[n] = k \o q
        BY <2>2, <3>2 DEF JoinNext
      <4>2. k \in String /\ ShellRun(s, k) = e
        BY <1>1, <1>5, <2>1, ShellRunThen, SpaceEndsWord
      <4> HIDE DEF k
      <4>3. ShellRun(s, k \o q) = ShellRun(e, q)
        BY <1>1, <2>1, <4>2, ShellRunConcat
      <4>4. ShellRun(e, q) = Reads(e, w)
        BY <2>1, <2>3, Quoted DEF Fresh
      <4>5. k \o q # <<>>
        BY <2>1, <4>2, ConcatEqualIffEmpty DEF String
      <4> QED BY <4>1, <4>3, <4>4, <4>5
    <3> QED BY <3>1, <3>2
  <2>6. Between(Reads(e, w)) /\ EndWord(Reads(e, w)) = WithWords(e, <<w>>)
    BY <2>1, <2>3, WordRead
  <2> QED BY <2>1, <2>4, <2>5, <2>6 DEF w
<1>14. N \in S
  <2> HIDE DEF S
  <2>1. 0 .. N \subseteq S
    BY <1>1, <1>12, <1>13, BoundedInduction
  <2> QED BY <1>1, <2>1
<1> QED
  BY <1>1, <1>4, <1>8, <1>11, <1>14

\* The command ends after it.
LEMMA CommandRead ==
    ASSUME NEW s, Fresh(s), NEW argv \in Seq(String)
    PROVE  EndCommand(ShellRun(s, convert_argv_to_string(argv))).done = Append(s.done, s.words \o argv)
<1> DEFINE r == ShellRun(s, convert_argv_to_string(argv))
           e == WithWords(s, argv)
<1>1. EndWord(r) = e
  BY CommandLineRead
<1>2. e.words = s.words \o argv /\ e.done = s.done /\ e \in ShellStates
  <2>1. s \in ShellStates
    BY DEF Fresh, Between
  <2>2. e \in ShellStates
    BY WithWordsFresh DEF Fresh, Between
  <2> QED BY <2>1, <2>2 DEF WithWords, ShellStates
<1> HIDE DEF r, e
<1>3. EndCommand(r) = [e EXCEPT !.done = Append(@, e.words), !.words = <<>>]
  BY <1>1 DEF EndCommand
<1>4. EndCommand(r).done = Append(e.done, e.words)
  BY <1>2, <1>3 DEF ShellStates
<1> QED
  BY <1>2, <1>4 DEF r

LEMMA StartIsFresh ==
    Fresh(ShellStart) /\ ShellStart.words = <<>> /\ ShellStart.done = <<>>
BY DEF Fresh, Between, ShellStart, ShellStates, String

\* A shell runs what was quoted for it, and nothing else.
LEMMA ShellRunsArgv ==
    ASSUME NEW argv \in Seq(String)
    PROVE  ShellCommands(convert_argv_to_string(argv)) = <<argv>>
<1>1. ShellCommands(convert_argv_to_string(argv)) = Append(<<>>, <<>> \o argv)
  BY CommandRead, StartIsFresh DEF ShellCommands
<1>2. <<>> \o argv = argv /\ Append(<<>>, argv) = <<argv>>
  BY ConcatEmptySeq
<1> QED
  BY <1>1, <1>2

\* The word exec or cd, without quotes
LEMMA PlainWord ==
    ASSUME NEW s, Fresh(s), NEW word \in {"exec", "cd"}
    PROVE  /\ <<word, SP>> \in String /\ << <<word>> >> \in Seq(String)
           /\ ShellRun(s, <<word, SP>>) = WithWords(s, << <<word>> >>)
<1>1. word \in Chars /\ SP \in Chars
  BY LiteralChars
<1>2. word # BS /\ word # SQ /\ word # DQ /\ word # SP /\ word # "&&"
  BY DEF BS, SQ, DQ, SP
<1> DEFINE one == <<word>>
           ch == word
<1>3. one \in String /\ <<one>> \in Seq(String)
  BY <1>1 DEF String
<1>4. s \in ShellStates /\ ~s.escaped /\ s.escaped = FALSE /\ s.quote = SP
  BY DEF Fresh, Between, ShellStates
<1>5. ShellChar(s, ch) = [s EXCEPT !.curr = @ \o <<ch>>, !.open = TRUE, !.escaped = FALSE]
  <2> HIDE DEF ch
  <2> QED BY <1>2, <1>4 DEF ShellChar, ch
<1>6. ShellRun(s, one) = Reads(s, one)
  <2>1. ShellRun(s, one) = ShellChar(s, ch)
    BY <1>1, <1>4, ShellRunShort
  <2>2. [s EXCEPT !.curr = @ \o <<ch>>, !.open = TRUE, !.escaped = FALSE] = Reads(s, one)
    BY <1>4 DEF Reads, ShellStates
  <2> QED BY <1>5, <2>1, <2>2
<1> HIDE DEF one, ch
<1>7. ShellRun(s, one \o <<SP>>) = WithWords(s, <<one>>) /\ one \o <<SP>> \in String
  BY <1>1, <1>3, <1>4, <1>6, ShellRunThen, WordRead, SpaceEndsWord
<1>8. one \o <<SP>> = <<word, SP>>
  BY OneByOne DEF one
<1> QED
  BY <1>3, <1>7, <1>8 DEF one

\* The script of default_term_assembler()
LEMMA ShellRunsScript ==
    ASSUME NEW argv \in Seq(String)
    PROVE  /\ create_term_emulator_temp_script(argv) \in String
           /\ ShellCommands(create_term_emulator_temp_script(argv)) = << << <<"exec">> >> \o argv >>
<1> DEFINE exec == <<"exec", SP>>
           line == convert_argv_to_string(argv)
           words == << <<"exec">> >>
           e == WithWords(ShellStart, words)
<1>1. exec \in String /\ words \in Seq(String) /\ ShellRun(ShellStart, exec) = e
  BY StartIsFresh, PlainWord
<1>2. line \in String
  BY StartIsFresh, CommandLineRead
<1>3. Fresh(e)
  BY <1>1, StartIsFresh, WithWordsFresh
<1>4. create_term_emulator_temp_script(argv) = exec \o line
  BY DEF create_term_emulator_temp_script
<1>5. e.words = words /\ e.done = <<>>
  <2>1. <<>> \o words = words
    BY <1>1, ConcatEmptySeq
  <2> HIDE DEF words
  <2> QED BY <2>1 DEF WithWords, ShellStart
<1> HIDE DEF exec, line, words, e
<1>6. exec \o line \in String /\ ShellRun(ShellStart, exec \o line) = ShellRun(e, line)
  <2>1. ShellStart \in ShellStates
    BY StartIsFresh DEF Fresh, Between
  <2>2. exec \o line \in String
    BY <1>1, <1>2, Pieces DEF String
  <2> QED BY <1>1, <1>2, <2>1, <2>2, ShellRunConcat
<1>7. EndCommand(ShellRun(e, line)).done = Append(<<>>, words \o argv)
  BY <1>3, <1>5, CommandRead DEF line
<1>8. Append(<<>>, words \o argv) = <<words \o argv>>
  OBVIOUS
<1> QED
  BY <1>4, <1>6, <1>7, <1>8 DEF ShellCommands, words

\* The command line for a directory
CdLine(path, argv) ==
    <<"cd", SP>> \o sq_quote(path) \o <<SP, "&&", SP>> \o convert_argv_to_string(argv)

LEMMA ShellRunsCd ==
    ASSUME NEW path \in String, NEW argv \in Seq(String)
    PROVE  /\ CdLine(path, argv) \in String
           /\ ShellCommands(CdLine(path, argv)) = << << <<"cd">>, path >>, argv >>
<1> DEFINE cd == <<"cd", SP>>
           quoted == sq_quote(path)
           and == <<SP, "&&", SP>>
           line == convert_argv_to_string(argv)
           words == << <<"cd">> >>
           e1 == WithWords(ShellStart, words)
           both == << <<"cd">>, path >>
           e2 == WithWords(e1, <<path>>)
           e3 == [ShellStart EXCEPT !.done = <<both>>]
<1>1. cd \in String /\ words \in Seq(String) /\ ShellRun(ShellStart, cd) = e1
  BY StartIsFresh, PlainWord
<1>2. Fresh(e1) /\ Fresh(e2)
  <2>1. <<path>> \in Seq(String)
    OBVIOUS
  <2> QED BY <1>1, <2>1, StartIsFresh, WithWordsFresh
<1>3. quoted \in String /\ ShellRun(e1, quoted) = Reads(e1, path)
  BY <1>2, Quoted DEF Fresh
<1>4. /\ ShellChar(Reads(e1, path), SP) = e2 /\ Between(Reads(e1, path))
  BY <1>2, WordRead, SpaceEndsWord
<1>5. e2 = [ShellStart EXCEPT !.words = both]
  <2>1. <<>> \o words = words
    BY <1>1, ConcatEmptySeq
  <2>2. words \o <<path>> = both
    BY OneByOne
  <2> HIDE DEF words, both
  <2> QED BY <2>1, <2>2 DEF WithWords, ShellStart
<1>6. Fresh(e3) /\ e3.words = <<>> /\ e3.done = <<both>>
  <2>1. both \in Seq(String)
    <3> DEFINE c == "cd"
    <3>1. c \in Chars
      BY LiteralChars
    <3> HIDE DEF c
    <3>2. <<c>> \in String
      BY <3>1 DEF String
    <3> QED BY <3>2 DEF c
  <2> HIDE DEF both
  <2>2. <<both>> \in Seq(Seq(String))
    BY <2>1
  <2> QED BY <2>2, StartIsFresh DEF Fresh, Between, ShellStart, ShellStates
<1>7. ShellChar(e2, "&&") = e3
  <2>1. ShellChar(e2, "&&") = EndCommand(e2)
    <3> HIDE DEF e2
    <3> QED BY <1>2 DEF Fresh, Between, ShellChar, SP, SQ, DQ, BS
  <2>2. EndWord(e2) = e2
    BY <1>2 DEF Fresh, EndWord
  <2> HIDE DEF both, e2
  <2>3. Append(<<>>, both) = <<both>>
    OBVIOUS
  <2>4. EndCommand(e2) = [e2 EXCEPT !.done = Append(@, e2.words), !.words = <<>>]
    BY <2>2 DEF EndCommand
  <2>5. e2.done = <<>> /\ e2.words = both
    BY <1>5 DEF ShellStart
  <2>6. EndCommand(e2) = [e2 EXCEPT !.done = <<both>>, !.words = <<>>]
    BY <2>3, <2>4, <2>5
  <2>7. [e2 EXCEPT !.done = <<both>>, !.words = <<>>] = e3
    <3> DEFINE d == <<both>>
    <3>1. e3 = [ShellStart EXCEPT !.done = d]
      OBVIOUS
    <3> HIDE DEF d, e3
    <3>2. ShellStart \in ShellStates /\ e3 \in ShellStates /\ e2 \in ShellStates
      BY <1>2, <1>6, StartIsFresh DEF Fresh, Between
    <3>3. ShellStart.words = <<>>
      BY StartIsFresh
    <3> HIDE DEF ShellStart
    <3>4. [e2 EXCEPT !.done = d, !.words = <<>>] = e3
      BY <1>5, <3>1, <3>2, <3>3 DEF ShellStates
    <3> QED BY <3>4 DEF d
  <2> QED BY <2>1, <2>6, <2>7
<1>8. ShellChar(e3, SP) = e3
  BY <1>6, SpaceEndsWord DEF Fresh, EndWord
<1>9. line \in String
  BY StartIsFresh, CommandLineRead
<1> HIDE DEF cd, quoted, line, e1, e2, e3, words, both
<1> DEFINE a == cd \o quoted
           b == a \o and
           s1 == ShellStart
           one == <<SP>>
           two == one \o <<"&&">>
<1>10. a \in String /\ ShellRun(s1, a) = Reads(e1, path) /\ s1 \in ShellStates
  <2>1. ShellStart \in ShellStates
    BY StartIsFresh DEF Fresh, Between
  <2>2. a \in String
    BY <1>1, <1>3, Pieces DEF String
  <2> QED BY <1>1, <1>3, <2>1, <2>2, ShellRunConcat
<1> HIDE DEF a, s1
<1>11. and \in String /\ ShellRun(Reads(e1, path), and) = e3
  <2> DEFINE r == Reads(e1, path)
  <2>1. r \in ShellStates
    BY <1>4 DEF Between
  <2>2. SP \in Chars /\ "&&" \in Chars
    BY LiteralChars
  <2>3. one \in String
    BY <2>2 DEF String
  <2>4. ShellRun(r, one) = e2
    BY <1>4, <2>1, <2>2, ShellRunShort
  <2> HIDE DEF r, one
  <2>5. two \in String /\ ShellRun(r, two) = e3
    BY <1>7, <2>1, <2>2, <2>3, <2>4, ShellRunThen
  <2> HIDE DEF two
  <2>6. two \o <<SP>> \in String /\ ShellRun(r, two \o <<SP>>) = e3
    BY <1>8, <2>1, <2>2, <2>5, ShellRunThen
  <2>7. two \o <<SP>> = and
    BY OneByOne DEF one, two
  <2> QED BY <2>6, <2>7 DEF r
<1> HIDE DEF and
<1>12. b \in String /\ ShellRun(s1, b) = e3
  <2>1. b \in String
    BY <1>10, <1>11, Pieces DEF String
  <2> QED BY <1>10, <1>11, <2>1, ShellRunConcat
<1> HIDE DEF b
<1>13. b \o line \in String /\ ShellRun(s1, b \o line) = ShellRun(e3, line)
  <2>1. b \o line \in String
    BY <1>9, <1>12, Pieces DEF String
  <2> QED BY <1>9, <1>10, <1>12, <2>1, ShellRunConcat
<1>14. EndCommand(ShellRun(e3, line)).done = Append(<<both>>, <<>> \o argv)
  BY <1>6, CommandRead DEF line
<1>15. Append(<<both>>, <<>> \o argv) = <<both, argv>>
  <2>1. <<>> \o argv = argv
    BY ConcatEmptySeq
  <2> QED BY <2>1, OneByOne
<1>16. CdLine(path, argv) = b \o line
  BY DEF CdLine, b, a, cd, quoted, and, line
<1> QED
  BY <1>13, <1>14, <1>15, <1>16 DEF ShellCommands, s1, both

-----------------------------------------------------------------------------
(* What the user typed behind a name *)

LEMMA SplitType ==
    ASSUME NEW string \in String, NEW delimiter
    PROVE  split(string, delimiter) \in Seq(String)
<1> DEFINE N == Len(string)
           X == {p \in Seq(String) : p # <<>>}
           b == << <<>> >>
           F(x, n) == IF string[n] = delimiter THEN Append(x, <<>>)
                      ELSE [x EXCEPT ![Len(x)] = Append(@, string[n])]
           Solves(g) == g = [n \in 0 .. N |-> IF n = 0 THEN b ELSE F(g[n - 1], n)]
           parts == CHOOSE g : Solves(g)
<1>1. N \in Nat /\ \A n \in 1 .. N : string[n] \in Chars
  BY LenProperties DEF String
<1>2. split(string, delimiter) = IF string # <<>> /\ Last(string) = delimiter
                                 THEN Front(parts[N]) ELSE parts[N]
  BY DEF split
<1>3. <<>> \in String
  BY DEF String
<1>4. b \in X
  BY <1>3
<1>5. ASSUME NEW n \in 1 .. N, NEW x \in X PROVE F(x, n) \in X
  <2>1. Len(x) \in 1 .. Len(x) /\ x[Len(x)] \in String
    BY EmptySeq, ElementOfSeq
  <2>2. Append(x[Len(x)], string[n]) \in String
    BY <1>1, <2>1, AppendProperties DEF String
  <2>3. Append(x, <<>>) \in X
    BY <1>3, AppendProperties
  <2>4. [x EXCEPT ![Len(x)] = Append(@, string[n])] \in X
    <3> DEFINE y == Append(x[Len(x)], string[n])
               z == [x EXCEPT ![Len(x)] = y]
    <3> HIDE DEF y
    <3>1. z \in Seq(String) /\ Len(z) = Len(x)
      BY <2>1, <2>2, ExceptSeq DEF y
    <3>2. z # <<>>
      BY <2>1, <3>1, EmptySeq
    <3> QED BY <3>1, <3>2 DEF y
  <2> QED BY <2>3, <2>4
<1> HIDE DEF F, b, X
<1>6. /\ parts[0] = b /\ (\A n \in 1 .. N : parts[n] = F(parts[n - 1], n))
      /\ \A n \in 0 .. N : parts[n] \in X
  <2> DEFINE step == [n \in 1 .. N |-> [x \in X |-> F(x, n)]]
  <2>1. \A n \in 1 .. N, x \in X : step[n][x] = F(x, n)
    OBVIOUS
  <2>2. \A n \in 1 .. N, x \in X : step[n][x] \in X
    BY <1>1, <1>4, <1>5, <2>1
  <2> HIDE DEF step
  <2>3. PICK g : g \in Recursion(N, X, b, step)
    BY <1>1, <1>4, <1>5, <2>2, RecursionExists
  <2>4. /\ g \in [0 .. N -> X] /\ g[0] = b
        /\ \A n \in 1 .. N : g[n] = step[n][g[n - 1]]
    BY <2>3 DEF Recursion
  <2>5. ASSUME NEW n \in 0 .. N, n # 0 PROVE g[n] = F(g[n - 1], n)
    <3>1. n \in 1 .. N /\ n - 1 \in 0 .. N
      BY <1>1, <1>4, <1>5, <2>5
    <3> QED BY <2>1, <2>4, <3>1
  <2>6. Solves(g)
    BY <2>4, <2>5
  <2>7. Solves(parts)
    <3> HIDE DEF Solves
    <3> QED BY <2>6
  <2> HIDE DEF parts
  <2>8. parts[0] = b /\ \A n \in 1 .. N : parts[n] = F(parts[n - 1], n)
    BY <1>1, <1>4, <1>5, <2>7
  <2> DEFINE S == {n \in 0 .. N : parts[n] \in X}
  <2>9. 0 \in S
    BY <1>1, <1>4, <1>5, <2>8
  <2>10. ASSUME NEW n \in 1 .. N, n - 1 \in S PROVE n \in S
    BY <1>1, <1>4, <1>5, <2>8, <2>10
  <2> HIDE DEF S
  <2>11. 0 .. N \subseteq S
    BY <1>1, <1>4, <1>5, <2>9, <2>10, BoundedInduction
  <2> QED BY <2>8, <2>11 DEF S
<1> HIDE DEF parts
<1>7. parts[N] \in Seq(String) /\ parts[N] # <<>>
  BY <1>1, <1>6 DEF X
<1>8. Front(parts[N]) \in Seq(String)
  <2> DEFINE p == parts[N]
  <2>1. p \in Seq(String) /\ Len(p) \in Nat
    BY <1>7, LenProperties
  <2> HIDE DEF p
  <2>2. SubSeq(p, 1, Len(p) - 1) \in Seq(String)
    BY <2>1
  <2> QED BY <2>2 DEF Front, p
<1> QED
  BY <1>2, <1>7, <1>8

\* One word more, kept if it is not empty
LEMMA NotEmptyMore ==
    ASSUME NEW words \in Seq(String)
    PROVE  /\ NotEmpty(words) \in Seq(String)
           /\ \A w \in String : NotEmpty(Append(words, w)) = AddWord(NotEmpty(words), w)
<1>1. ASSUME NEW u \in Seq(String)
      PROVE  \E kept \in [0 .. Len(u) -> Seq(String)] :
                /\ kept[0] = <<>> /\ NotEmpty(u) = kept[Len(u)]
                /\ \A n \in 1 .. Len(u) : kept[n] = AddWord(kept[n - 1], u[n])
  <2> DEFINE N == Len(u)
             X == Seq(String)
             none == <<>>
             F(x, n) == AddWord(x, u[n])
             Solves(g) == g = [n \in 0 .. N |-> IF n = 0 THEN none ELSE F(g[n - 1], n)]
             kept == CHOOSE g : Solves(g)
  <2>1. N \in Nat /\ \A n \in 1 .. N : u[n] \in String
    BY LenProperties
  <2>2. NotEmpty(u) = kept[N]
    BY DEF NotEmpty
  <2>3. none \in X
    OBVIOUS
  <2>4. \A n \in 1 .. N, x \in X : F(x, n) \in X
    BY <2>1, AppendProperties DEF AddWord
  <2> HIDE DEF X, F, none
<2>5. /\ kept[0] = none /\ (\A n \in 1 .. N : kept[n] = F(kept[n - 1], n))
      /\ \A n \in 0 .. N : kept[n] \in X
  <3> DEFINE step == [n \in 1 .. N |-> [x \in X |-> F(x, n)]]
  <3>1. \A n \in 1 .. N, x \in X : step[n][x] = F(x, n)
    OBVIOUS
  <3>2. \A n \in 1 .. N, x \in X : step[n][x] \in X
    BY <2>1, <2>3, <2>4, <3>1
  <3> HIDE DEF step
  <3>3. PICK g : g \in Recursion(N, X, none, step)
    BY <2>1, <2>3, <2>4, <3>2, RecursionExists
  <3>4. /\ g \in [0 .. N -> X] /\ g[0] = none
        /\ \A n \in 1 .. N : g[n] = step[n][g[n - 1]]
    BY <3>3 DEF Recursion
  <3>5. ASSUME NEW n \in 0 .. N, n # 0 PROVE g[n] = F(g[n - 1], n)
    <4>1. n \in 1 .. N /\ n - 1 \in 0 .. N
      BY <2>1, <2>3, <2>4, <3>5
    <4> QED BY <3>1, <3>4, <4>1
  <3>6. Solves(g)
    BY <3>4, <3>5
  <3>7. Solves(kept)
    <4> HIDE DEF Solves
    <4> QED BY <3>6
  <3> HIDE DEF kept
  <3>8. kept[0] = none /\ \A n \in 1 .. N : kept[n] = F(kept[n - 1], n)
    BY <2>1, <2>3, <2>4, <3>7
  <3> DEFINE S == {n \in 0 .. N : kept[n] \in X}
  <3>9. 0 \in S
    BY <2>1, <2>3, <2>4, <3>8
  <3>10. ASSUME NEW n \in 1 .. N, n - 1 \in S PROVE n \in S
    BY <2>1, <2>3, <2>4, <3>8, <3>10
  <3> HIDE DEF S
  <3>11. 0 .. N \subseteq S
    BY <2>1, <2>3, <2>4, <3>9, <3>10, BoundedInduction
  <3> QED BY <3>8, <3>11 DEF S
  <2> HIDE DEF kept
  <2> DEFINE k == [n \in 0 .. N |-> kept[n]]
  <2>6. /\ k \in [0 .. N -> Seq(String)] /\ k[0] = <<>> /\ NotEmpty(u) = k[N]
    BY <2>1, <2>2, <2>5 DEF none, X
  <2>7. ASSUME NEW n \in 1 .. N PROVE k[n] = AddWord(k[n - 1], u[n])
    <3>1. n \in 0 .. N /\ n - 1 \in 0 .. N
      BY <2>1
    <3> QED BY <2>5, <3>1 DEF F
  <2> HIDE DEF k
  <2> QED BY <2>6, <2>7
<1> DEFINE M == Len(words)
<1>2. PICK kw \in [0 .. M -> Seq(String)] :
         /\ kw[0] = <<>> /\ NotEmpty(words) = kw[M]
         /\ \A n \in 1 .. M : kw[n] = AddWord(kw[n - 1], words[n])
  BY <1>1
<1>3. M \in Nat
  BY LenProperties
<1>4. ASSUME NEW w \in String PROVE NotEmpty(Append(words, w)) = AddWord(NotEmpty(words), w)
  <2> DEFINE v == Append(words, w)
  <2>1. /\ v \in Seq(String) /\ Len(v) = M + 1 /\ v[M + 1] = w
        /\ \A i \in 1 .. M : v[i] = words[i]
    BY AppendProperties
  <2> HIDE DEF v
  <2>2. \E kv \in [0 .. Len(v) -> Seq(String)] :
           /\ kv[0] = <<>> /\ NotEmpty(v) = kv[Len(v)]
           /\ \A n \in 1 .. Len(v) : kv[n] = AddWord(kv[n - 1], v[n])
    BY <1>1, <2>1
  <2> HIDE DEF M
  <2>3. PICK kv \in [0 .. M + 1 -> Seq(String)] :
           /\ kv[0] = <<>> /\ NotEmpty(v) = kv[M + 1]
           /\ \A n \in 1 .. M + 1 : kv[n] = AddWord(kv[n - 1], v[n])
    BY <2>1, <2>2, Zenon
  <2> DEFINE S == {n \in 0 .. M : kv[n] = kw[n]}
  <2>4. 0 \in S
    BY <1>2, <1>3, <2>3
  <2>5. ASSUME NEW n \in 1 .. M, n - 1 \in S PROVE n \in S
    <3>1. n \in 1 .. M + 1 /\ n \in 0 .. M /\ kv[n - 1] = kw[n - 1]
      BY <1>3, <2>5
    <3> QED BY <1>2, <2>1, <2>3, <3>1
  <2>6. kv[M] = kw[M]
    <3> HIDE DEF S
    <3>1. 0 .. M \subseteq S
      BY <1>3, <2>4, <2>5, BoundedInduction
    <3> QED BY <1>3, <3>1 DEF S
  <2>7. kv[M + 1] = AddWord(kv[M], w)
    <3>1. M + 1 \in 1 .. M + 1 /\ (M + 1) - 1 = M
      BY <1>3
    <3> QED BY <2>1, <2>3, <3>1
  <2> QED BY <1>2, <2>3, <2>6, <2>7 DEF v, M
<1>5. NotEmpty(words) \in Seq(String)
  BY <1>2, <1>3
<1> QED
  BY <1>4, <1>5

LEMMA SplitWordsType ==
    ASSUME NEW string \in String
    PROVE  SplitWords(string) \in Seq(String)
BY SplitType, NotEmptyMore DEF SplitWords

-----------------------------------------------------------------------------
(* The two scanners of the Exec key *)

ValidateStates == [in_quotes: BOOLEAN, escaped: BOOLEAN, valid: BOOLEAN]
ConvertStates == [result: Seq(String), curr: String, in_quotes: BOOLEAN, escaping: BOOLEAN,
                  thrown: BOOLEAN]

LEMMA ValidateCharType ==
    ASSUME NEW s \in ValidateStates, NEW ch \in Chars
    PROVE  ValidateChar(s, ch) \in ValidateStates
BY DEF ValidateStates, ValidateChar

LEMMA ConvertCharType ==
    ASSUME NEW s \in ConvertStates, NEW ch \in Chars, NEW wine \in BOOLEAN
    PROVE  ConvertChar(s, ch, wine) \in ConvertStates
<1>1. /\ Append(s.curr, ch) \in String /\ Append(s.result, s.curr) \in Seq(String)
      /\ <<>> \in String
  BY AppendProperties DEF ConvertStates, String
<1> QED
  BY <1>1 DEF ConvertStates, ConvertChar

\* The states of the two scanners
LEMMA ScannerSteps ==
    ASSUME NEW key \in String, NEW wine \in BOOLEAN
    PROVE  \E v \in [0 .. Len(key) -> ValidateStates], c \in [0 .. Len(key) -> ConvertStates] :
              /\ v[0] = [in_quotes |-> FALSE, escaped |-> FALSE, valid |-> TRUE]
              /\ \A n \in 1 .. Len(key) : v[n] = ValidateChar(v[n - 1], key[n])
              /\ validate_exec_key(key) = (v[Len(key)].valid /\ ~v[Len(key)].in_quotes)
              /\ c[0] = [result |-> <<>>, curr |-> <<>>, in_quotes |-> FALSE, escaping |-> FALSE,
                         thrown |-> FALSE]
              /\ \A n \in 1 .. Len(key) : c[n] = ConvertChar(c[n - 1], key[n], wine)
              /\ Converted(key, wine) = c[Len(key)]
<1> DEFINE N == Len(key)
<1>1. N \in Nat /\ \A n \in 1 .. N : key[n] \in Chars
  BY LenProperties DEF String
<1>2. \E v \in [0 .. N -> ValidateStates] :
         /\ v[0] = [in_quotes |-> FALSE, escaped |-> FALSE, valid |-> TRUE]
         /\ \A n \in 1 .. N : v[n] = ValidateChar(v[n - 1], key[n])
         /\ validate_exec_key(key) = (v[N].valid /\ ~v[N].in_quotes)
  <2> DEFINE X == ValidateStates
             b == [in_quotes |-> FALSE, escaped |-> FALSE, valid |-> TRUE]
             F(x, n) == ValidateChar(x, key[n])
             Solves(g) == g = [n \in 0 .. N |-> IF n = 0 THEN b ELSE F(g[n - 1], n)]
             f == CHOOSE g : Solves(g)
  <2>1. validate_exec_key(key) = (f[N].valid /\ ~f[N].in_quotes)
    BY DEF validate_exec_key
  <2>2. b \in X /\ \A n \in 1 .. N, x \in X : F(x, n) \in X
    BY <1>1, ValidateCharType DEF ValidateStates
  <2> HIDE DEF b, F, X
  <2>3. /\ f[0] = b /\ (\A n \in 1 .. N : f[n] = F(f[n - 1], n))
      /\ \A n \in 0 .. N : f[n] \in X
  <3> DEFINE step == [n \in 1 .. N |-> [x \in X |-> F(x, n)]]
  <3>1. \A n \in 1 .. N, x \in X : step[n][x] = F(x, n)
    OBVIOUS
  <3>2. \A n \in 1 .. N, x \in X : step[n][x] \in X
    BY <1>1, <2>2, <3>1
  <3> HIDE DEF step
  <3>3. PICK g : g \in Recursion(N, X, b, step)
    BY <1>1, <2>2, <3>2, RecursionExists
  <3>4. /\ g \in [0 .. N -> X] /\ g[0] = b
        /\ \A n \in 1 .. N : g[n] = step[n][g[n - 1]]
    BY <3>3 DEF Recursion
  <3>5. ASSUME NEW n \in 0 .. N, n # 0 PROVE g[n] = F(g[n - 1], n)
    <4>1. n \in 1 .. N /\ n - 1 \in 0 .. N
      BY <1>1, <2>2, <3>5
    <4> QED BY <3>1, <3>4, <4>1
  <3>6. Solves(g)
    BY <3>4, <3>5
  <3>7. Solves(f)
    <4> HIDE DEF Solves
    <4> QED BY <3>6
  <3> HIDE DEF f
  <3>8. f[0] = b /\ \A n \in 1 .. N : f[n] = F(f[n - 1], n)
    BY <1>1, <2>2, <3>7
  <3> DEFINE S == {n \in 0 .. N : f[n] \in X}
  <3>9. 0 \in S
    BY <1>1, <2>2, <3>8
  <3>10. ASSUME NEW n \in 1 .. N, n - 1 \in S PROVE n \in S
    BY <1>1, <2>2, <3>8, <3>10
  <3> HIDE DEF S
  <3>11. 0 .. N \subseteq S
    BY <1>1, <2>2, <3>9, <3>10, BoundedInduction
  <3> QED BY <3>8, <3>11 DEF S
  <2> HIDE DEF f
  <2> DEFINE v == [n \in 0 .. N |-> f[n]]
  <2>4. v \in [0 .. N -> X] /\ v[0] = b /\ v[N] = f[N]
    BY <1>1, <2>3
  <2>5. ASSUME NEW n \in 1 .. N PROVE v[n] = F(v[n - 1], n)
    <3>1. n \in 0 .. N /\ n - 1 \in 0 .. N
      BY <1>1
    <3> QED BY <2>3, <3>1
  <2> HIDE DEF v
  <2> QED BY <2>1, <2>4, <2>5 DEF X, b, F
<1>3. \E c \in [0 .. N -> ConvertStates] :
         /\ c[0] = [result |-> <<>>, curr |-> <<>>, in_quotes |-> FALSE, escaping |-> FALSE,
                    thrown |-> FALSE]
         /\ \A n \in 1 .. N : c[n] = ConvertChar(c[n - 1], key[n], wine)
         /\ Converted(key, wine) = c[N]
  <2> DEFINE X == ConvertStates
             b == [result |-> <<>>, curr |-> <<>>, in_quotes |-> FALSE, escaping |-> FALSE,
                   thrown |-> FALSE]
             F(x, n) == ConvertChar(x, key[n], wine)
             Solves(g) == g = [n \in 0 .. N |-> IF n = 0 THEN b ELSE F(g[n - 1], n)]
             f == CHOOSE g : Solves(g)
  <2>1. Converted(key, wine) = f[N]
    BY DEF Converted
  <2>2. b \in X /\ \A n \in 1 .. N, x \in X : F(x, n) \in X
    BY <1>1, ConvertCharType DEF ConvertStates, String
  <2> HIDE DEF b, F, X
  <2>3. /\ f[0] = b /\ (\A n \in 1 .. N : f[n] = F(f[n - 1], n))
      /\ \A n \in 0 .. N : f[n] \in X
  <3> DEFINE step == [n \in 1 .. N |-> [x \in X |-> F(x, n)]]
  <3>1. \A n \in 1 .. N, x \in X : step[n][x] = F(x, n)
    OBVIOUS
  <3>2. \A n \in 1 .. N, x \in X : step[n][x] \in X
    BY <1>1, <2>2, <3>1
  <3> HIDE DEF step
  <3>3. PICK g : g \in Recursion(N, X, b, step)
    BY <1>1, <2>2, <3>2, RecursionExists
  <3>4. /\ g \in [0 .. N -> X] /\ g[0] = b
        /\ \A n \in 1 .. N : g[n] = step[n][g[n - 1]]
    BY <3>3 DEF Recursion
  <3>5. ASSUME NEW n \in 0 .. N, n # 0 PROVE g[n] = F(g[n - 1], n)
    <4>1. n \in 1 .. N /\ n - 1 \in 0 .. N
      BY <1>1, <2>2, <3>5
    <4> QED BY <3>1, <3>4, <4>1
  <3>6. Solves(g)
    BY <3>4, <3>5
  <3>7. Solves(f)
    <4> HIDE DEF Solves
    <4> QED BY <3>6
  <3> HIDE DEF f
  <3>8. f[0] = b /\ \A n \in 1 .. N : f[n] = F(f[n - 1], n)
    BY <1>1, <2>2, <3>7
  <3> DEFINE S == {n \in 0 .. N : f[n] \in X}
  <3>9. 0 \in S
    BY <1>1, <2>2, <3>8
  <3>10. ASSUME NEW n \in 1 .. N, n - 1 \in S PROVE n \in S
    BY <1>1, <2>2, <3>8, <3>10
  <3> HIDE DEF S
  <3>11. 0 .. N \subseteq S
    BY <1>1, <2>2, <3>9, <3>10, BoundedInduction
  <3> QED BY <3>8, <3>11 DEF S
  <2> HIDE DEF f
  <2> DEFINE c == [n \in 0 .. N |-> f[n]]
  <2>4. c \in [0 .. N -> X] /\ c[0] = b /\ c[N] = f[N]
    BY <1>1, <2>3
  <2>5. ASSUME NEW n \in 1 .. N PROVE c[n] = F(c[n - 1], n)
    <3>1. n \in 0 .. N /\ n - 1 \in 0 .. N
      BY <1>1
    <3> QED BY <2>3, <3>1
  <2> HIDE DEF c
  <2> QED BY <2>1, <2>4, <2>5 DEF X, b, F
<1> QED
  BY <1>2, <1>3

\* While the key is valid, both loops are inside the same quotes and behind the same
\* backslash, and convert_exec_to_command() does not throw.
InStep(v, c) ==
    v.valid => ~c.thrown /\ c.in_quotes = v.in_quotes /\ c.escaping = v.escaped

\* A character keeps them in step.
LEMMA CharInStep ==
    ASSUME NEW v \in ValidateStates, NEW c \in ConvertStates, InStep(v, c),
           NEW ch \in Chars, NEW wine \in BOOLEAN
    PROVE  InStep(ValidateChar(v, ch), ConvertChar(c, ch, wine))
<1> SUFFICES ASSUME ValidateChar(v, ch).valid
             PROVE  /\ ~ConvertChar(c, ch, wine).thrown
                    /\ ConvertChar(c, ch, wine).in_quotes = ValidateChar(v, ch).in_quotes
                    /\ ConvertChar(c, ch, wine).escaping = ValidateChar(v, ch).escaped
  BY DEF InStep
<1>1. v.valid
  BY DEF ValidateChar, ValidateStates
<1>2. ~c.thrown /\ c.in_quotes = v.in_quotes /\ c.escaping = v.escaped
  BY <1>1 DEF InStep
<1>3. CASE v.escaped
  BY <1>2, <1>3 DEF ValidateChar, ConvertChar, ValidateStates, ConvertStates
<1>4. CASE ~v.escaped /\ ch = DQ
  <2>1. ConvertChar(c, ch, wine) = [c EXCEPT !.in_quotes = ~@]
    BY <1>2, <1>4 DEF ConvertChar, ConvertStates, ValidateStates, DQ, BS, SP
  <2>2. /\ ValidateChar(v, ch).in_quotes = ~v.in_quotes
        /\ ValidateChar(v, ch).escaped = FALSE
    BY <1>4 DEF ValidateChar, ValidateStates, DQ, BS
  <2>3. /\ ConvertChar(c, ch, wine).in_quotes = ~c.in_quotes
        /\ ConvertChar(c, ch, wine).thrown = c.thrown
        /\ ConvertChar(c, ch, wine).escaping = c.escaping
    BY <2>1 DEF ConvertStates
  <2>4. c.escaping = FALSE /\ v.in_quotes \in BOOLEAN
    BY <1>2, <1>4 DEF ConvertStates, ValidateStates
  <2> QED BY <1>2, <2>2, <2>3, <2>4
<1>5. CASE ~v.escaped /\ ch = BS
  BY <1>2, <1>5 DEF ValidateChar, ConvertChar, ValidateStates, ConvertStates, DQ, BS
<1>6. CASE ~v.escaped /\ ch # DQ /\ ch # BS
  BY <1>2, <1>6 DEF ValidateChar, ConvertChar, ValidateStates, ConvertStates
<1> QED
  BY <1>3, <1>4, <1>5, <1>6

\* The scanners of a whole key, character by character.
LEMMA KeyInStep ==
    ASSUME NEW key \in String, NEW wine \in BOOLEAN
    PROVE  /\ Converted(key, wine) \in ConvertStates
           /\ validate_exec_key(key) => ~Converted(key, wine).thrown
<1> DEFINE N == Len(key)
<1>1. N \in Nat /\ \A n \in 1 .. N : key[n] \in Chars
  BY LenProperties DEF String
<1>2. PICK v \in [0 .. N -> ValidateStates], c \in [0 .. N -> ConvertStates] :
         /\ v[0] = [in_quotes |-> FALSE, escaped |-> FALSE, valid |-> TRUE]
         /\ \A n \in 1 .. N : v[n] = ValidateChar(v[n - 1], key[n])
         /\ validate_exec_key(key) = (v[N].valid /\ ~v[N].in_quotes)
         /\ c[0] = [result |-> <<>>, curr |-> <<>>, in_quotes |-> FALSE, escaping |-> FALSE,
                    thrown |-> FALSE]
         /\ \A n \in 1 .. N : c[n] = ConvertChar(c[n - 1], key[n], wine)
         /\ Converted(key, wine) = c[N]
  BY ScannerSteps
<1> DEFINE S == {n \in 0 .. N : InStep(v[n], c[n])}
<1>3. 0 \in S
  <2>1. c[0].thrown = FALSE /\ c[0].in_quotes = v[0].in_quotes /\ c[0].escaping = v[0].escaped
    BY <1>2
  <2>2. InStep(v[0], c[0])
    BY <2>1 DEF InStep
  <2>3. 0 \in 0 .. N
    BY <1>1
  <2> QED BY <2>2, <2>3
<1>4. ASSUME NEW n \in 1 .. N, n - 1 \in S PROVE n \in S
  <2>1. n \in 0 .. N /\ n - 1 \in 0 .. N /\ key[n] \in Chars /\ InStep(v[n - 1], c[n - 1])
    BY <1>1, <1>4
  <2>2. /\ v[n] = ValidateChar(v[n - 1], key[n]) /\ c[n] = ConvertChar(c[n - 1], key[n], wine)
        /\ v[n - 1] \in ValidateStates /\ c[n - 1] \in ConvertStates
    BY <1>2, <2>1
  <2>3. InStep(v[n], c[n])
    BY <2>1, <2>2, CharInStep
  <2> QED BY <2>1, <2>3
<1>5. InStep(v[N], c[N]) /\ c[N] \in ConvertStates
  <2> HIDE DEF S
  <2>1. 0 .. N \subseteq S
    BY <1>1, <1>3, <1>4, BoundedInduction
  <2>2. N \in S /\ N \in 0 .. N
    BY <1>1, <2>1
  <2> QED BY <1>2, <2>2 DEF S
<1> QED
  BY <1>2, <1>5 DEF InStep

\* An Exec key that AppManager has let in never throws when it is chosen, whatever its
\* length: validate_exec_key() and convert_exec_to_command() stay in step.
THEOREM AlwaysValidNeverThrows == Spec => ValidNeverThrows
<1>1. Chosen /\ [Next]_vars => [convert /\ validate_exec_key(app.exec) => pc' = "expand"]_vars
  <2> SUFFICES ASSUME Chosen, convert, validate_exec_key(app.exec) PROVE pc' = "expand"
    OBVIOUS
  <2> DEFINE key == app.exec
             wine == opt.wine_compatibility_mode
  <2>1. key \in String /\ wine \in BOOLEAN
    BY DEF Chosen, app, MenuApps, CustomApps, Opts
  <2>2. validate_exec_key(key)
    OBVIOUS
  <2>3. convert_exec_to_command(key, wine).thrown = Converted(key, wine).thrown
    BY DEF convert_exec_to_command
  <2>4. convert_exec_to_command(key, wine).thrown \/ pc' = "expand"
    BY DEF convert
  <2> HIDE DEF key, wine
  <2>5. ~Converted(key, wine).thrown
    BY <2>1, <2>2, KeyInStep
  <2> QED BY <2>3, <2>4, <2>5
<1> QED
  BY <1>1, ChosenInit, ChosenNext, PTL DEF Spec, ValidNeverThrows

-----------------------------------------------------------------------------
(* Field codes *)

\* A string, or several or none, in the place of an argument
InPlaceOf(args, i, strings) ==
    SubSeq(args, 1, i - 1) \o strings \o SubSeq(args, i + 1, Len(args))

\* What that is, element by element
Placed(t, args, i, strings) ==
    /\ t \in Seq(String) /\ Len(t) = (Len(args) - 1) + Len(strings)
    /\ \A k \in 1 .. i - 1 : t[k] = args[k]
    /\ \A k \in 1 .. Len(strings) : t[(i - 1) + k] = strings[k]
    /\ \A k \in 1 .. Len(args) - i : t[((i - 1) + Len(strings)) + k] = args[i + k]

LEMMA InPlaceOfFacts ==
    ASSUME NEW args \in Seq(String), NEW i \in 1 .. Len(args), NEW strings \in Seq(String)
    PROVE  Placed(InPlaceOf(args, i, strings), args, i, strings)
<1> DEFINE n == Len(args)
           m == Len(strings)
           a == SubSeq(args, 1, i - 1)
           b == SubSeq(args, i + 1, n)
           c == a \o strings
           t == InPlaceOf(args, i, strings)
<1>1. n \in Nat /\ m \in Nat /\ i \in 1 .. n
  BY LenProperties
<1>2. a \in Seq(String) /\ Len(a) = i - 1 /\ \A k \in 1 .. i - 1 : a[k] = args[k]
  BY <1>1
<1>3. b \in Seq(String) /\ Len(b) = n - i /\ \A k \in 1 .. n - i : b[k] = args[i + k]
  BY <1>1
<1>4. t = c \o b
  BY DEF InPlaceOf
<1> HIDE DEF n, a, b, t
<1>5. /\ c \in Seq(String) /\ Len(c) = (i - 1) + m
      /\ (\A k \in 1 .. i - 1 : c[k] = a[k])
      /\ \A k \in 1 .. m : c[(i - 1) + k] = strings[k]
  <2>1. a \in Seq(String)
    BY <1>2
  <2>2. /\ c \in Seq(String) /\ Len(c) = Len(a) + m
        /\ (\A k \in 1 .. Len(a) : c[k] = a[k])
        /\ \A k \in 1 .. m : c[Len(a) + k] = strings[k]
    BY <2>1, Pieces
  <2> QED BY <1>2, <2>2, Zenon
<1> HIDE DEF c, m
<1>6. /\ t \in Seq(String) /\ Len(t) = Len(c) + Len(b)
      /\ (\A k \in 1 .. Len(c) : t[k] = c[k])
      /\ \A k \in 1 .. Len(b) : t[Len(c) + k] = b[k]
  <2>1. b \in Seq(String) /\ c \in Seq(String)
    BY <1>3, <1>5
  <2>2. /\ c \o b \in Seq(String) /\ Len(c \o b) = Len(c) + Len(b)
        /\ (\A k \in 1 .. Len(c) : (c \o b)[k] = c[k])
        /\ \A k \in 1 .. Len(b) : (c \o b)[Len(c) + k] = b[k]
    BY <2>1, Pieces
  <2> QED BY <1>4, <2>2, Zenon
<1>7. Len(t) = (n - 1) + m
  BY <1>1, <1>3, <1>5, <1>6
<1>8. ASSUME NEW k \in 1 .. i - 1 PROVE t[k] = args[k]
  <2>1. k \in 1 .. Len(c)
    BY <1>1, <1>5
  <2> QED BY <1>2, <1>5, <1>6, <2>1
<1>9. ASSUME NEW k \in 1 .. m PROVE t[(i - 1) + k] = strings[k]
  <2>1. (i - 1) + k \in 1 .. Len(c)
    BY <1>1, <1>5
  <2> QED BY <1>5, <1>6, <2>1
<1>10. ASSUME NEW k \in 1 .. n - i PROVE t[((i - 1) + m) + k] = args[i + k]
  BY <1>3, <1>5, <1>6
<1> QED
  BY <1>1, <1>6, <1>7, <1>8, <1>9, <1>10 DEF n, m, t, Placed

\* Replacing an argument, or leaving it
LEMMA ReplacedInPlace ==
    ASSUME NEW args \in Seq(String), NEW i \in 1 .. Len(args), NEW string \in String
    PROVE  /\ ReplaceAt(args, i, string) = InPlaceOf(args, i, <<string>>)
           /\ args = InPlaceOf(args, i, <<args[i]>>)
<1> DEFINE n == Len(args)
<1>1. n \in Nat /\ args[i] \in String
  BY LenProperties
<1>2. ASSUME NEW x \in String
      PROVE  [args EXCEPT ![i] = x] = InPlaceOf(args, i, <<x>>)
  <2> DEFINE one == <<x>>
             t == InPlaceOf(args, i, one)
             r == [args EXCEPT ![i] = x]
  <2>1. one \in Seq(String) /\ Len(one) = 1 /\ one[1] = x
    OBVIOUS
  <2>2. r \in Seq(String) /\ Len(r) = n /\ \A k \in 1 .. n : r[k] = IF k = i THEN x ELSE args[k]
    BY <1>1, ExceptSeq
  <2> HIDE DEF one
  <2>3. /\ t \in Seq(String) /\ Len(t) = (n - 1) + 1
        /\ (\A k \in 1 .. i - 1 : t[k] = args[k])
        /\ (\A k \in 1 .. 1 : t[(i - 1) + k] = one[k])
        /\ \A k \in 1 .. n - i : t[((i - 1) + 1) + k] = args[i + k]
    <3>1. Placed(t, args, i, one)
      BY <2>1, InPlaceOfFacts
    <3> QED BY <2>1, <3>1, Zenon DEF Placed
  <2> HIDE DEF n, r, t
  <2>4. ASSUME NEW k \in 1 .. n PROVE t[k] = r[k]
    <3>1. i \in 1 .. n
      BY DEF n
    <3>2. CASE k < i
      BY <1>1, <2>2, <2>3, <3>1, <3>2
    <3>3. CASE k = i
      <4>1. (i - 1) + 1 = k /\ 1 \in 1 .. 1
        BY <1>1, <3>1, <3>3
      <4> QED BY <2>1, <2>2, <2>3, <3>3, <4>1
    <3>4. CASE k > i
      <4>1. k - i \in 1 .. n - i /\ ((i - 1) + 1) + (k - i) = k /\ i + (k - i) = k
        BY <1>1, <3>1, <3>4
      <4>2. t[k] = args[k]
        BY <2>3, <4>1
      <4> QED BY <2>2, <3>4, <4>2
    <3> QED BY <1>1, <3>1, <3>2, <3>3, <3>4
  <2>5. Len(t) = n
    BY <1>1, <2>3
  <2>6. t = r
    BY <2>2, <2>3, <2>4, <2>5, SeqEqual
  <2> QED BY <2>6 DEF t, r, one
<1>3. ReplaceAt(args, i, string) = [args EXCEPT ![i] = string]
  BY DEF ReplaceAt
<1>4. [args EXCEPT ![i] = args[i]] = args
  <2> DEFINE r == [args EXCEPT ![i] = args[i]]
  <2>1. r \in Seq(String) /\ Len(r) = n /\ \A k \in 1 .. n : r[k] = args[k]
    BY <1>1, ExceptSeq
  <2> HIDE DEF r
  <2>2. r = args
    BY <2>1, SeqEqual
  <2> QED BY <2>2 DEF r
<1> QED
  BY <1>1, <1>2, <1>3, <1>4

\* The words of the user, the first behind what was before the code and the last before
\* what was behind it
LEMMA SpreadType ==
    ASSUME NEW before \in String, NEW words \in Seq(String), Len(words) > 1, NEW suffix \in String
    PROVE  Spread(before, words, suffix) \in Seq(String)
           /\ Len(Spread(before, words, suffix)) = Len(words)
<1> DEFINE n == Len(words)
           first == before \o Head(words)
           last == Last(words) \o suffix
           mid == SubSeq(words, 2, n - 1)
           a == <<first>> \o mid
<1>1. n \in Nat /\ n > 1 /\ words[1] \in String /\ words[n] \in String
  BY LenProperties
<1>2. Head(words) = words[1] /\ Last(words) = words[n]
  BY <1>1 DEF Last
<1>3. first \in String /\ last \in String
  BY <1>1, <1>2, Pieces DEF String
<1>4. mid \in Seq(String) /\ Len(mid) = n - 2
  <2>1. n = Len(words) /\ 2 \in 1 .. n + 1 /\ n - 1 \in 0 .. n /\ 2 <= (n - 1) + 1
    BY <1>1
  <2> HIDE DEF n
  <2>2. mid \in Seq(String) /\ Len(mid) = ((n - 1) - 2) + 1
    BY <1>1, <2>1, SubSeqProperties
  <2> QED BY <1>1, <2>2
<1>5. Spread(before, words, suffix) = a \o <<last>>
  BY DEF Spread
<1> HIDE DEF n, first, last, mid
<1>6. <<first>> \in Seq(String) /\ Len(<<first>>) = 1 /\ <<last>> \in Seq(String) /\ Len(<<last>>) = 1
  BY <1>3
<1>7. a \in Seq(String) /\ Len(a) = 1 + (n - 2)
  BY <1>4, <1>6, Pieces
<1> HIDE DEF a
<1>8. a \o <<last>> \in Seq(String) /\ Len(a \o <<last>>) = Len(a) + 1
  BY <1>6, <1>7, Pieces
<1> QED
  BY <1>1, <1>5, <1>7, <1>8 DEF n

\* An iteration puts strings in the place of an argument and goes on behind them.
LEMMA Expanded ==
    ASSUME NEW args \in Seq(String), NEW i \in 1 .. Len(args), NEW entry \in MenuApps,
           NEW typed \in String, NEW e, e = ExpandArgument(args, i, entry, typed)
    PROVE  /\ e.thrown \in BOOLEAN /\ e.next \in Nat /\ e.next >= i
           /\ \E strings \in Seq(String) :
                 /\ e.args = InPlaceOf(args, i, strings)
                 /\ ~e.thrown => e.next >= i + Len(strings) /\ e.next > i
<1> DEFINE arg == args[i]
           pos == SelectInSeq(arg, LAMBDA ch : ch \in FieldCodes)
           Codes == {k \in 1 .. Len(arg) : arg[k] \in FieldCodes}
           code == arg[pos]
           before == SubSeq(arg, 1, pos - 1)
           after == SubSeq(arg, pos + 1, Len(arg))
           words == SplitWords(typed)
           Replaced(string) == [args |-> ReplaceAt(args, i, before \o string \o after),
                                next |-> i + 1, thrown |-> FALSE]
           suffix == IF pos + 1 < Len(args) THEN after ELSE <<>>
           spread == Spread(before, words, suffix)
<1>1. /\ arg \in String /\ Len(arg) \in Nat /\ entry.name \in String /\ entry.location \in String
      /\ words \in Seq(String) /\ Len(words) \in Nat /\ i \in Nat /\ <<>> \in String
      /\ <<"percent">> \in String
  <2>1. arg \in String
    BY ElementOfSeq
  <2>2. entry.name \in String /\ entry.location \in String
    BY DEF MenuApps
  <2>3. words \in Seq(String)
    BY SplitWordsType
  <2> HIDE DEF arg, words
  <2>4. Len(arg) \in Nat /\ Len(words) \in Nat /\ Len(args) \in Nat
    BY <2>1, <2>3, LenProperties DEF String
  <2>5. "percent" \in Chars
    BY LiteralChars
  <2> DEFINE p == "percent"
  <2> HIDE DEF p
  <2>6. <<>> \in String /\ <<p>> \in String
    BY <2>5 DEF String, p
  <2> QED BY <2>1, <2>2, <2>3, <2>4, <2>6 DEF p
<1>2. pos = IF Codes # {} THEN Min(Codes) ELSE 0
  BY DEF SelectInSeq
<1> HIDE DEF arg, pos, words
<1>3. pos \in 0 .. Len(arg) /\ (pos # 0 => code \in FieldCodes)
  <2>1. Codes \in SUBSET (1 .. Len(arg))
    OBVIOUS
  <2>2. CASE Codes # {}
    <3>1. pos \in Codes
      <4> HIDE DEF Codes
      <4> QED BY <1>1, <1>2, <2>1, <2>2, MinOfIndices
    <3> QED BY <1>1, <3>1
  <2>3. CASE Codes = {}
    BY <1>1, <1>2, <2>3
  <2> QED BY <2>2, <2>3
<1>4. before \in String /\ after \in String
  BY <1>1, <1>3 DEF String
<1> HIDE DEF before, after
<1>5. suffix \in String
  BY <1>1, <1>4
<1>6. \A string \in String : before \o string \o after \in String
  BY <1>4, Pieces DEF String
<1> DEFINE Fits(r) == /\ r.thrown \in BOOLEAN /\ r.next \in Nat /\ r.next >= i
                      /\ \E strings \in Seq(String) :
                            /\ r.args = InPlaceOf(args, i, strings)
                            /\ ~r.thrown => r.next >= i + Len(strings) /\ r.next > i
<1>7. ASSUME NEW r, NEW strings \in Seq(String), r.args = InPlaceOf(args, i, strings),
             r.thrown \in BOOLEAN, r.next \in Nat, r.next >= i,
             ~r.thrown => r.next >= i + Len(strings) /\ r.next > i
      PROVE  Fits(r)
  BY <1>7
<1> HIDE DEF Fits
<1>8. ASSUME NEW string \in String PROVE Fits(Replaced(string))
  <2> DEFINE x == before \o string \o after
             one == <<x>>
             r == Replaced(string)
  <2>1. x \in String
    BY <1>6
  <2>2. r.args = ReplaceAt(args, i, x) /\ r.next = i + 1 /\ r.thrown = FALSE
    OBVIOUS
  <2> HIDE DEF x, r
  <2>3. ReplaceAt(args, i, x) = InPlaceOf(args, i, one)
    BY <2>1, ReplacedInPlace
  <2>4. one \in Seq(String) /\ Len(one) = 1
    BY <2>1
  <2> HIDE DEF one
  <2>5. /\ r.thrown \in BOOLEAN /\ r.next \in Nat /\ r.next >= i
        /\ ~r.thrown => r.next >= i + Len(one) /\ r.next > i
    <3>1. r.next \in Nat /\ r.next >= i /\ r.next >= i + Len(one) /\ r.next > i
      BY <1>1, <2>2, <2>4
    <3>2. r.thrown \in BOOLEAN
      BY <1>1, <2>2, <2>4, Zenon
    <3> QED BY <3>1, <3>2
  <2>6. r.args = InPlaceOf(args, i, one)
    BY <2>2, <2>3
  <2>7. Fits(r)
    BY <1>7, <2>4, <2>5, <2>6
  <2> QED BY <2>7 DEF r
<1>9. ASSUME NEW next \in {i, i + 1}, NEW thrown \in BOOLEAN, thrown \/ next = i + 1
      PROVE  Fits([args |-> args, next |-> next, thrown |-> thrown])
  <2> DEFINE one == <<arg>>
             r == [args |-> args, next |-> next, thrown |-> thrown]
  <2>1. arg \in String /\ args = InPlaceOf(args, i, one)
    BY <1>1, ReplacedInPlace DEF arg
  <2>2. one \in Seq(String) /\ Len(one) = 1
    BY <2>1
  <2>3. r.args = args /\ r.next = next /\ r.thrown = thrown
    OBVIOUS
  <2> HIDE DEF one, r
  <2>4. r.next \in Nat /\ r.next >= i /\ (~r.thrown => r.next >= i + Len(one) /\ r.next > i)
    BY <1>1, <1>9, <2>2, <2>3
  <2>5. Fits(r)
    BY <1>7, <2>1, <2>2, <2>3, <2>4
  <2> QED BY <2>5 DEF r
<1>10. ASSUME NEW strings \in Seq(String), NEW next \in Nat, next >= i + Len(strings), next > i
       PROVE  Fits([args |-> InPlaceOf(args, i, strings), next |-> next, thrown |-> FALSE])
  <2> DEFINE r == [args |-> InPlaceOf(args, i, strings), next |-> next, thrown |-> FALSE]
  <2>1. r.args = InPlaceOf(args, i, strings) /\ r.next = next /\ r.thrown = FALSE
    OBVIOUS
  <2> HIDE DEF r
  <2>2. /\ r.thrown \in BOOLEAN /\ r.next \in Nat /\ r.next >= i
        /\ ~r.thrown => r.next >= i + Len(strings) /\ r.next > i
    <3>1. r.next \in Nat /\ r.next >= i /\ r.next >= i + Len(strings) /\ r.next > i
      BY <1>1, <1>10, <2>1
    <3>2. r.thrown \in BOOLEAN
      BY <1>1, <1>10, <2>1, Zenon
    <3> QED BY <3>1, <3>2
  <2>3. Fits(r)
    BY <1>7, <2>1, <2>2
  <2> QED BY <2>3 DEF r
<1>11. e = CASE pos = 0 -> [args |-> args, next |-> i + 1, thrown |-> FALSE]
             [] pos # 0 /\ code \in {"%", "%?"} -> [args |-> args, next |-> i, thrown |-> TRUE]
             [] pos # 0 /\ code = "%i" -> [args |-> args, next |-> i + 1, thrown |-> FALSE]
             [] pos # 0 /\ code = "%%" -> Replaced(<<"percent">>)
             [] pos # 0 /\ code = "%c" -> Replaced(entry.name)
             [] pos # 0 /\ code = "%k" -> Replaced(entry.location)
             [] pos # 0 /\ code = "%f" /\ Len(words) = 1 -> Replaced(typed)
             [] pos # 0 /\ code = "%f" /\ Len(words) = 0 ->
                   IF arg = <<code>>
                   THEN [args |-> InPlaceOf(args, i, <<>>), next |-> i + 1, thrown |-> FALSE]
                   ELSE Replaced(<<>>)
             [] pos # 0 /\ code = "%f" /\ Len(words) > 1 ->
                   [args |-> InPlaceOf(args, i, spread), next |-> i + Len(words) + 1,
                    thrown |-> FALSE]
  BY DEF ExpandArgument, InPlaceOf, arg, pos, words, before, after
<1> HIDE DEF spread, suffix, Replaced, code
<1>12. CASE pos = 0
  <2>1. e = [args |-> args, next |-> i + 1, thrown |-> FALSE]
    BY <1>11, <1>12
  <2>2. Fits(e)
    BY <1>9, <2>1
  <2> QED BY <2>2 DEF Fits
<1>13. CASE pos # 0 /\ code # "%f"
  <2>1. code \in {"%%", "%c", "%k", "%i", "%?", "%"}
    BY <1>3, <1>13 DEF FieldCodes
  <2>2. CASE code \in {"%", "%?"}
    <3>1. e = [args |-> args, next |-> i, thrown |-> TRUE]
      BY <1>11, <1>13, <2>2
    <3> QED BY <1>9, <3>1 DEF Fits
  <2>3. CASE code = "%i"
    <3>1. e = [args |-> args, next |-> i + 1, thrown |-> FALSE]
      BY <1>11, <1>13, <2>3
    <3> QED BY <1>9, <3>1 DEF Fits
  <2>4. CASE code \in {"%%", "%c", "%k"}
    <3>1. \E string \in String : e = Replaced(string)
      BY <1>1, <1>11, <1>13, <2>4
    <3> QED BY <1>8, <3>1 DEF Fits
  <2> QED BY <2>1, <2>2, <2>3, <2>4
<1>14. CASE pos # 0 /\ code = "%f"
  <2>1. CASE Len(words) = 1
    <3>1. e = Replaced(typed)
      BY <1>11, <1>14, <2>1
    <3> QED BY <1>8, <3>1 DEF Fits
  <2>2. CASE Len(words) = 0
    <3>1. \/ e = [args |-> InPlaceOf(args, i, <<>>), next |-> i + 1, thrown |-> FALSE]
          \/ e = Replaced(<<>>)
      BY <1>11, <1>14, <2>2
    <3>2. Fits([args |-> InPlaceOf(args, i, <<>>), next |-> i + 1, thrown |-> FALSE])
      <4> DEFINE none == <<>>
      <4>1. none \in Seq(String) /\ i + 1 >= i + Len(none) /\ i + 1 > i /\ i + 1 \in Nat
        BY <1>1
      <4> HIDE DEF none
      <4>2. Fits([args |-> InPlaceOf(args, i, none), next |-> i + 1, thrown |-> FALSE])
        BY <1>10, <4>1
      <4> QED BY <4>2 DEF none
    <3>3. Fits(e)
      BY <1>1, <1>8, <3>1, <3>2
    <3> QED BY <3>3 DEF Fits
  <2>3. CASE Len(words) > 1
    <3>1. e = [args |-> InPlaceOf(args, i, spread), next |-> i + Len(words) + 1, thrown |-> FALSE]
      BY <1>11, <1>14, <2>3
    <3>2. spread \in Seq(String) /\ Len(spread) = Len(words)
      BY <1>1, <1>4, <1>5, <2>3, SpreadType DEF spread
    <3>3. i + Len(words) + 1 \in Nat /\ i + Len(words) + 1 >= i + Len(spread) /\ i + Len(words) + 1 > i
      BY <1>1, <3>2
    <3>4. Fits(e)
      BY <1>10, <3>1, <3>2, <3>3
    <3> QED BY <3>4 DEF Fits
  <2> QED BY <1>1, <2>1, <2>2, <2>3
<1> QED
  BY <1>12, <1>13, <1>14

\* What begins or ends with the same elements
LEMMA SameBeginning ==
    ASSUME NEW S, NEW s \in Seq(S), NEW t \in Seq(S), Len(s) <= Len(t),
           \A k \in 1 .. Len(s) : s[k] = t[k]
    PROVE  IsPrefix(s, t)
<1> DEFINE m == Len(s)
           a == SubSeq(s, 1, m)
           b == SubSeq(t, 1, m)
<1>1. m \in Nat /\ Len(t) \in Nat
  BY LenProperties
<1>2. a = s
  BY SubSeqFull
<1>3. b \in Seq(S) /\ Len(b) = m /\ \A k \in 1 .. m : b[k] = t[k]
  BY <1>1
<1> HIDE DEF a, b, m
<1>4. \A k \in 1 .. m : b[k] = s[k]
  BY <1>3 DEF m
<1>5. b = s
  BY <1>3, <1>4, SeqEqual DEF m
<1> QED
  BY <1>2, <1>5 DEF IsPrefix, a, b, m

\* Positions from the end
LEMMA Mirrored ==
    ASSUME NEW m \in Nat, NEW n \in Nat, m <= n, NEW k \in 1 .. m
    PROVE  (m - k) + 1 \in 1 .. m /\ (n - m) + ((m - k) + 1) = (n - k) + 1 /\ k \in 1 .. n
OBVIOUS

LEMMA SameEnd ==
    ASSUME NEW S, NEW s \in Seq(S), NEW t \in Seq(S), Len(s) <= Len(t),
           \A k \in 1 .. Len(s) : s[k] = t[(Len(t) - Len(s)) + k]
    PROVE  IsSuffix(s, t)
<1> DEFINE m == Len(s)
           n == Len(t)
           a == Reverse(s)
           b == Reverse(t)
<1>1. m \in Nat /\ n \in Nat /\ m <= n
  BY LenProperties
<1>2. a \in Seq(S) /\ Len(a) = m /\ \A k \in 1 .. m : a[k] = s[(m - k) + 1]
  <2>1. \A k \in 1 .. m : s[(m - k) + 1] \in S
    BY <1>1, ElementOfSeq
  <2> QED BY <1>1, <2>1 DEF Reverse
<1>3. b \in Seq(S) /\ Len(b) = n /\ \A k \in 1 .. n : b[k] = t[(n - k) + 1]
  <2>1. \A k \in 1 .. n : t[(n - k) + 1] \in S
    BY <1>1, ElementOfSeq
  <2> QED BY <1>1, <2>1 DEF Reverse
<1>4. \A k \in 1 .. m : s[k] = t[(n - m) + k]
  OBVIOUS
<1> HIDE DEF m, n, a, b
<1>5. ASSUME NEW k \in 1 .. m PROVE a[k] = b[k]
  <2> DEFINE h == (m - k) + 1
  <2>1. h \in 1 .. m /\ (n - m) + h = (n - k) + 1 /\ k \in 1 .. n
    BY <1>1, Mirrored
  <2>2. a[k] = s[h] /\ b[k] = t[(n - k) + 1]
    BY <1>2, <1>3, <2>1
  <2> HIDE DEF h
  <2>3. s[h] = t[(n - m) + h]
    BY <1>4, <2>1
  <2> QED BY <2>1, <2>2, <2>3
<1>6. IsPrefix(a, b)
  BY <1>1, <1>2, <1>3, <1>5, SameBeginning
<1> QED
  BY <1>6 DEF IsSuffix, a, b

\* The command is a command, and the loop of expand_field_codes() is in it.
CommandInv ==
    /\ Chosen
    /\ pc \in {"expand", "assemble"} => app \in MenuApps
    /\ command \in Seq(String) /\ iter \in 1 .. Len(command) + 1
    /\ pc \in {"lookup", "start"} => iter = 1

LEMMA ConvertType ==
    ASSUME NEW key \in String, NEW wine \in BOOLEAN
    PROVE  convert_exec_to_command(key, wine).command \in Seq(String)
<1> DEFINE end == Converted(key, wine)
<1>1. end \in ConvertStates
  BY KeyInStep
<1>2. convert_exec_to_command(key, wine).command
        = IF end.curr = <<>> THEN end.result ELSE Append(end.result, end.curr)
  BY DEF convert_exec_to_command
<1> HIDE DEF end
<1>3. end.result \in Seq(String) /\ end.curr \in String
  BY <1>1 DEF ConvertStates
<1>4. Append(end.result, end.curr) \in Seq(String)
  BY <1>3, AppendProperties
<1> QED
  BY <1>2, <1>3, <1>4

\* Behind the place where m arguments have taken the place of one there are no more than before.
LEMMA NoMoreBehind ==
    ASSUME NEW i \in Nat, NEW j \in Nat, NEW l \in Nat, NEW m \in Nat, NEW n \in Nat, i <= n,
           l = (n - 1) + m, j >= i + m \/ j = l + 1
    PROVE  (l - j) + 1 <= n - i
OBVIOUS

\* An iteration: where it is afterwards, what was done and what is to come
LEMMA ExpandStep ==
    ASSUME CommandInv, expand
    PROVE  /\ command' \in Seq(String) /\ iter' \in 1 .. Len(command') + 1
           /\ pc' = "expand" =>
                 /\ IsPrefix(SubSeq(command, 1, iter - 1), command')
                 /\ IsSuffix(SubSeq(command', iter', Len(command')),
                             SubSeq(command, iter + 1, Len(command)))
<1> DEFINE e == ExpandArgument(command, iter, app, choice.args)
           n == Len(command)
           i == iter
           done == SubSeq(command, 1, i - 1)
           rest == SubSeq(command, i + 1, n)
<1>1. /\ command \in Seq(String) /\ n \in Nat /\ i \in 1 .. n /\ app \in MenuApps
      /\ choice.args \in String
  BY LenProperties DEF CommandInv, Chosen, expand
<1>2. /\ e.thrown \in BOOLEAN /\ e.next \in Nat /\ e.next >= i
      /\ \E strings \in Seq(String) :
            /\ e.args = InPlaceOf(command, i, strings)
            /\ ~e.thrown => e.next >= i + Len(strings) /\ e.next > i
  BY <1>1, Expanded
<1>3. /\ command' = e.args /\ pc' = (IF e.thrown THEN "terminate" ELSE "expand")
      /\ iter' = IF e.next > Len(e.args) THEN Len(e.args) + 1 ELSE e.next
  BY DEF expand
<1> HIDE DEF e
<1>4. PICK strings \in Seq(String) :
         /\ e.args = InPlaceOf(command, i, strings)
         /\ ~e.thrown => e.next >= i + Len(strings) /\ e.next > i
  BY <1>2
<1> DEFINE t == command'
           m == Len(strings)
<1>5. Placed(t, command, i, strings)
  BY <1>1, <1>3, <1>4, InPlaceOfFacts
<1>6. m \in Nat
  BY LenProperties
<1>7. /\ done \in Seq(String) /\ Len(done) = i - 1 /\ \A k \in 1 .. i - 1 : done[k] = command[k]
  BY <1>1
<1>8. /\ rest \in Seq(String) /\ Len(rest) = n - i
      /\ \A k \in 1 .. n - i : rest[k] = command[i + k]
  BY <1>1
<1>9. /\ t \in Seq(String) /\ Len(t) = (n - 1) + m
      /\ \A k \in 1 .. i - 1 : t[k] = command[k]
      /\ \A k \in 1 .. n - i : t[((i - 1) + m) + k] = command[i + k]
  BY <1>5 DEF Placed
<1> HIDE DEF t, m, n, i, done, rest
<1>10. iter' \in 1 .. Len(t) + 1
  BY <1>1, <1>2, <1>3, <1>6, <1>9 DEF t
<1>11. ASSUME pc' = "expand" PROVE IsPrefix(done, t)
  <2>1. Len(done) <= Len(t) /\ \A k \in 1 .. Len(done) : done[k] = t[k]
    BY <1>1, <1>6, <1>7, <1>9
  <2> QED BY <1>7, <1>9, <2>1, SameBeginning
<1>12. ASSUME pc' = "expand" PROVE IsSuffix(SubSeq(t, iter', Len(t)), rest)
  <2> DEFINE j == iter'
             l == Len(t)
             left == SubSeq(t, j, l)
  <2>1. ~e.thrown
    BY <1>3, <1>12
  <2>2. j \in 1 .. l + 1 /\ l \in Nat /\ l = (n - 1) + m /\ (j >= i + m \/ j = l + 1)
    BY <1>1, <1>2, <1>3, <1>4, <1>6, <1>9, <1>10, <2>1 DEF t, m
  <2>3. /\ left \in Seq(String) /\ Len(left) = (l - j) + 1
        /\ \A k \in 1 .. (l - j) + 1 : left[k] = t[(j - 1) + k]
    BY <1>9, <2>2
  <2> HIDE DEF j, l, left
  <2>4. Len(left) <= Len(rest)
    <3>1. i \in Nat /\ i <= n /\ j \in Nat
      BY <1>1, <2>2
    <3>2. (l - j) + 1 <= n - i
      BY <1>1, <1>6, <2>2, <3>1, NoMoreBehind
    <3> QED BY <1>8, <2>3, <3>2
  <2>5. ASSUME NEW k \in 1 .. Len(left) PROVE left[k] = rest[(Len(rest) - Len(left)) + k]
    <3> DEFINE h == (Len(rest) - Len(left)) + k
    <3>1. h \in 1 .. n - i /\ ((i - 1) + m) + h = (j - 1) + k /\ k \in 1 .. (l - j) + 1
      BY <1>1, <1>6, <1>8, <2>2, <2>3, <2>4
    <3> HIDE DEF h
    <3>2. left[k] = t[(j - 1) + k] /\ t[((i - 1) + m) + h] = command[i + h] /\ rest[h] = command[i + h]
      BY <1>8, <1>9, <2>3, <3>1
    <3> QED BY <3>1, <3>2 DEF h
  <2>6. IsSuffix(left, rest)
    BY <1>8, <2>3, <2>4, <2>5, SameEnd
  <2> QED BY <2>6 DEF j, l, left
<1> QED
  BY <1>9, <1>10, <1>11, <1>12 DEF t, n, i, done, rest

LEMMA CommandInit == Init => CommandInv
<1> SUFFICES ASSUME Init PROVE CommandInv
  OBVIOUS
<1>1. command = <<>> /\ iter = 1 /\ pc = "lookup"
  BY DEF Init
<1>2. <<>> \in Seq(String) /\ Len(<<>>) = 0
  OBVIOUS
<1> QED
  BY <1>1, <1>2, ChosenInit DEF CommandInv

LEMMA CommandNext == CommandInv /\ [Next]_vars => CommandInv'
<1> SUFFICES ASSUME CommandInv, [Next]_vars PROVE CommandInv'
  OBVIOUS
<1>1. Chosen'
  BY ChosenNext DEF CommandInv
<1>2. CASE lookup_name
  BY <1>1, <1>2 DEF CommandInv, lookup_name
<1>3. CASE \/ custom_command \/ chdir_fails \/ assemble_aborts
           \/ execute_normal \/ execute_fake \/ execute_i3
  <2>1. pc' \in {"done", "exit", "abort"} /\ UNCHANGED <<command, iter>>
    BY <1>3 DEF custom_command, chdir_fails, assemble_aborts, execute_normal, execute_fake, execute_i3
  <2> QED BY <1>1, <2>1 DEF CommandInv
<1>4. CASE convert
  <2> DEFINE key == app.exec
             wine == opt.wine_compatibility_mode
             converted == convert_exec_to_command(key, wine)
  <2>1. key \in String /\ wine \in BOOLEAN
    BY DEF CommandInv, Chosen, app, MenuApps, CustomApps, Opts
  <2>2. converted.command \in Seq(String)
    BY <2>1, ConvertType
  <2>3. /\ ~app.custom /\ UNCHANGED <<choice, iter>> /\ pc = "start"
        /\ (pc' = "exit" /\ UNCHANGED command) \/ (pc' = "expand" /\ command' = converted.command)
    BY <1>4 DEF convert
  <2>4. app \in MenuApps /\ app' = app
    BY <2>3 DEF CommandInv, Chosen, app, MenuApps, CustomApps
  <2> HIDE DEF converted
  <2>5. command' \in Seq(String) /\ Len(command') \in Nat
    BY <2>2, <2>3, LenProperties DEF CommandInv
  <2>6. iter' = 1
    BY <2>3 DEF CommandInv
  <2> QED BY <1>1, <2>3, <2>4, <2>5, <2>6 DEF CommandInv
<1>5. CASE expand
  <2>1. command' \in Seq(String) /\ iter' \in 1 .. Len(command') + 1
    BY <1>5, ExpandStep
  <2>2. pc' \in {"terminate", "expand"} /\ pc = "expand" /\ UNCHANGED choice
    BY <1>5 DEF expand
  <2>3. app' = app
    BY <2>2 DEF app
  <2> QED BY <1>1, <2>1, <2>2, <2>3 DEF CommandInv
<1>6. CASE expand_done \/ UNCHANGED vars
  BY <1>1, <1>6 DEF CommandInv, expand_done, vars, app
<1> QED
  BY <1>2, <1>3, <1>4, <1>5, <1>6 DEF Next

\* What the user typed, or a name with a % in it, is never expanded itself, however many
\* field codes there are and however many words they become.
THEOREM AlwaysExpandsOnlyExec == Spec => ExpandsOnlyExec
<1>1. CommandInv /\ [Next]_vars =>
        [pc = "expand" /\ pc' = "expand" =>
          /\ IsPrefix(SubSeq(command, 1, iter - 1), command')
          /\ IsSuffix(SubSeq(command', iter', Len(command')),
                      SubSeq(command, iter + 1, Len(command)))]_vars
  <2> SUFFICES ASSUME CommandInv, Next, pc = "expand", pc' = "expand"
               PROVE  /\ IsPrefix(SubSeq(command, 1, iter - 1), command')
                      /\ IsSuffix(SubSeq(command', iter', Len(command')),
                                  SubSeq(command, iter + 1, Len(command)))
    OBVIOUS
  <2>1. expand
    BY DEF Next, lookup_name, custom_command, chdir_fails, convert, expand_done,
       assemble_aborts, execute_normal, execute_fake, execute_i3
  <2> QED BY <2>1, ExpandStep
<1> QED
  BY <1>1, CommandInit, CommandNext, PTL DEF Spec, ExpandsOnlyExec

-----------------------------------------------------------------------------
(* What is run in the end *)

\* The functions of the execute phase and their inverses, for an application and options
Terminal(entry, options, argv) ==
    IF ~entry.terminal THEN argv
    ELSE CASE options.term_mode = "default" -> <<options.term, <<"-e">>, <<"script">> >>
           [] options.term_mode = "custom" ->
                 custom_term_assembler(argv, options.term, entry.name)
           [] OTHER -> titled_term_assembler(options.term_mode, argv, options.term, entry.name)

Wrapper(options, argv) ==
    IF options.wrapper THEN wrap_command_in_wrapper(argv, <<"wrapper">>) ELSE argv

TerminalRuns(entry, options, text, argv) ==
    CASE ~entry.terminal -> argv
      [] entry.terminal /\ options.term_mode = "default" -> Tail(ShellCommands(text)[1])
      [] OTHER -> SubSeq(argv, 4 + Len(CommandFlag[options.term_mode]), Len(argv))

WrapperRuns(options, argv) == IF options.wrapper THEN SubSeq(argv, 6, Len(argv)) ELSE argv

Runs(entry, options, text, result) ==
    LET shelled == entry.path # <<>> /\ options.mode = "i3"
        argv == IF options.mode = "normal" THEN result ELSE ShellCommands(result)[1]
    IN  CASE shelled /\ ~entry.terminal -> ShellCommands(result)
          [] shelled /\ entry.terminal ->
                ShellCommands(TerminalRuns(entry, options, text, argv)[3])
          [] OTHER -> <<TerminalRuns(entry, options, text, WrapperRuns(options, argv))>>

\* What stands behind a beginning of known length
LEMMA Behind ==
    ASSUME NEW S, NEW a \in Seq(S), NEW b \in Seq(S)
    PROVE  SubSeq(a \o b, Len(a) + 1, Len(a \o b)) = b
<1> DEFINE m == Len(a)
           n == Len(b)
           c == a \o b
           d == SubSeq(c, m + 1, Len(c))
<1>1. /\ c \in Seq(S) /\ Len(c) = m + n /\ m \in Nat /\ n \in Nat
      /\ \A i \in 1 .. n : c[m + i] = b[i]
  BY Pieces
<1> HIDE DEF c, m
<1>2. d \in Seq(S) /\ Len(d) = n /\ \A i \in 1 .. n : d[i] = c[m + i]
  <2>1. Len(c) \in Nat /\ m + 1 \in 1 .. Len(c) + 1
    BY <1>1
  <2>2. d \in Seq(S) /\ Len(d) = (Len(c) - (m + 1)) + 1
        /\ \A i \in 1 .. (Len(c) - (m + 1)) + 1 : d[i] = c[m + i]
    BY <1>1, <2>1
  <2>3. (Len(c) - (m + 1)) + 1 = n
    BY <1>1
  <2> QED BY <2>2, <2>3, Zenon
<1> HIDE DEF d, n
<1>3. \A i \in 1 .. n : d[i] = b[i]
  BY <1>1, <1>2
<1>4. d = b
  BY <1>2, <1>3, SeqEqual DEF n
<1> QED
  BY <1>4 DEF c, d, m

\* A command of four arguments or less, of strings
LEMMA ShortCommands ==
    /\ \A ch \in Chars : <<ch>> \in String
    /\ \A a \in String : <<a>> \in Seq(String) /\ Len(<<a>>) = 1
    /\ \A a, b, c \in String : <<a, b, c>> \in Seq(String) /\ Len(<<a, b, c>>) = 3
    /\ \A a, b, c, d, e \in String : <<a, b, c, d, e>> \in Seq(String) /\ Len(<<a, b, c, d, e>>) = 5
BY DEF String

\* The script and the shell of the wrapper
LEMMA WrapperUndone ==
    ASSUME NEW options \in Opts, NEW argv \in Seq(String)
    PROVE  /\ Wrapper(options, argv) \in Seq(String)
           /\ WrapperRuns(options, Wrapper(options, argv)) = argv
<1>1. CASE ~options.wrapper
  BY <1>1 DEF Wrapper, WrapperRuns
<1>2. CASE options.wrapper
  <2> DEFINE h == << <<"/bin/sh">>, <<"-c">>, <<"wrap script">>, <<"/bin/sh">>, <<"wrapper">> >>
  <2>1. h \in Seq(String) /\ Len(h) = 5
    <3>1. "/bin/sh" \in Chars /\ "-c" \in Chars /\ "wrap script" \in Chars /\ "wrapper" \in Chars
      BY LiteralChars
    <3> DEFINE a == <<"/bin/sh">>
               b == <<"-c">>
               c == <<"wrap script">>
               e == <<"wrapper">>
    <3>2. a \in String /\ b \in String /\ c \in String /\ e \in String
      BY <3>1, ShortCommands
    <3>3. h = <<a, b, c, a, e>>
      OBVIOUS
    <3> HIDE DEF h, a, b, c, e
    <3> QED BY <3>2, <3>3, ShortCommands
  <2>2. Wrapper(options, argv) = h \o argv
    BY <1>2 DEF Wrapper, wrap_command_in_wrapper
  <2> HIDE DEF h
  <2> DEFINE x == h \o argv
  <2>3. x \in Seq(String) /\ SubSeq(x, Len(h) + 1, Len(x)) = argv
    BY <2>1, Pieces, Behind
  <2> HIDE DEF x
  <2>4. SubSeq(x, 6, Len(x)) = argv
    BY <2>1, <2>3
  <2>5. WrapperRuns(options, x) = argv
    BY <1>2, <2>4 DEF WrapperRuns
  <2> QED BY <2>2, <2>3, <2>5 DEF x
<1> QED
  BY <1>1, <1>2

\* The flags of the terminal emulators
LEMMA Flags ==
    ASSUME NEW mode \in TermModes \ {"default", "custom"}
    PROVE  /\ <<TitleFlag[mode]>> \in String
           /\ CommandFlag[mode] \in Seq(String) /\ Len(CommandFlag[mode]) \in Nat
<1>1. mode \in {"xterm", "alacritty", "kitty", "terminator", "gnome_terminal"}
  BY DEF TermModes, TitleFlag
<1>2. TitleFlag[mode] \in {"-title", "-T", "--title"}
  BY <1>1 DEF TitleFlag
<1>3. TitleFlag[mode] \in Chars
  BY <1>2, LiteralChars
<1>4. CommandFlag[mode] \in {<<>>, << <<"-e">> >>, << <<"-x">> >>, << <<"--">> >>}
  BY <1>1 DEF CommandFlag
<1>5. /\ <<>> \in Seq(String) /\ << <<"-e">> >> \in Seq(String) /\ << <<"-x">> >> \in Seq(String)
      /\ << <<"--">> >> \in Seq(String)
  <2>1. "-e" \in Chars /\ "-x" \in Chars /\ "--" \in Chars
    BY LiteralChars
  <2>2. <<"-e">> \in String /\ <<"-x">> \in String /\ <<"--">> \in String
    BY <2>1, ShortCommands
  <2>3. <<>> \in Seq(String)
    OBVIOUS
  <2> QED BY <2>2, <2>3, ShortCommands
<1>6. CommandFlag[mode] \in Seq(String)
  BY <1>4, <1>5
<1> QED
  BY <1>3, <1>6, ShortCommands, LenProperties

\* A terminal emulator runs what it was given, by its arguments or by the script.
LEMMA TerminalUndone ==
    ASSUME NEW entry \in MenuApps, NEW options \in Opts, NEW argv \in Seq(String), NEW text,
           ~(entry.terminal /\ options.term_mode = "custom"),
           entry.terminal /\ options.term_mode = "default" =>
              text = create_term_emulator_temp_script(argv)
    PROVE  /\ Terminal(entry, options, argv) \in Seq(String)
           /\ TerminalRuns(entry, options, text, Terminal(entry, options, argv)) = argv
<1>1. /\ options.term \in String /\ options.term_mode \in TermModes /\ entry.name \in String
      /\ entry.terminal \in BOOLEAN
  BY DEF Opts, MenuApps
<1>2. CASE ~entry.terminal
  BY <1>2 DEF Terminal, TerminalRuns
<1>3. CASE entry.terminal /\ options.term_mode = "default"
  <2> DEFINE e == <<"-e">>
             s == <<"script">>
             x == <<options.term, e, s>>
  <2>1. "-e" \in Chars /\ "script" \in Chars
    BY LiteralChars
  <2>2. e \in String /\ s \in String
    BY <2>1, ShortCommands
  <2>3. Terminal(entry, options, argv) = x
    BY <1>3 DEF Terminal
  <2>4. TerminalRuns(entry, options, text, x) = Tail(ShellCommands(text)[1])
    <3> HIDE DEF x
    <3> QED BY <1>3 DEF TerminalRuns
  <2> HIDE DEF e, s
  <2>5. x \in Seq(String)
    BY <1>1, <2>2, ShortCommands
  <2> DEFINE one == << <<"exec">> >>
             y == one \o argv
  <2>6. ShellCommands(text) = <<y>>
    BY <1>3, ShellRunsScript
  <2>7. one \in Seq(String) /\ Len(one) = 1
    <3>1. "exec" \in Chars
      BY LiteralChars
    <3>2. <<"exec">> \in String
      BY <3>1, ShortCommands
    <3> QED BY <3>2, ShortCommands
  <2> HIDE DEF one
  <2>8. y \in Seq(String) /\ Len(y) = 1 + Len(argv) /\ SubSeq(y, 2, Len(y)) = argv /\ Len(argv) \in Nat
    <3>1. y \in Seq(String) /\ Len(y) = Len(one) + Len(argv) /\ SubSeq(y, Len(one) + 1, Len(y)) = argv
      BY <2>7, Pieces, Behind
    <3> HIDE DEF y
    <3> QED BY <2>7, <3>1, LenProperties
  <2> HIDE DEF y, x
  <2>9. ShellCommands(text)[1] = y
    BY <2>6
  <2>10. y # <<>>
    BY <2>8
  <2>11. Tail(y) = SubSeq(y, 2, Len(y))
    BY <2>8, <2>10, HeadTailProperties
  <2> QED BY <2>3, <2>4, <2>5, <2>8, <2>9, <2>11
<1>4. CASE entry.terminal /\ options.term_mode # "default"
  <2> DEFINE mode == options.term_mode
             flag == <<TitleFlag[mode]>>
             h == <<options.term, flag, entry.name>>
             c == CommandFlag[mode]
             a == h \o c
             x == a \o argv
  <2>1. mode \in TermModes \ {"default", "custom"}
    BY <1>1, <1>4
  <2>2. flag \in String /\ c \in Seq(String) /\ Len(c) \in Nat
    BY <2>1, Flags
  <2>3. Terminal(entry, options, argv) = x
    BY <1>4 DEF Terminal, titled_term_assembler
  <2>4. TerminalRuns(entry, options, text, x) = SubSeq(x, 4 + Len(c), Len(x))
    <3> HIDE DEF x
    <3> QED BY <1>4 DEF TerminalRuns
  <2> HIDE DEF flag, c
  <2>5. h \in Seq(String) /\ Len(h) = 3
    BY <1>1, <2>2, ShortCommands
  <2> HIDE DEF h
  <2>6. a \in Seq(String) /\ Len(a) = 3 + Len(c)
    <3>1. a \in Seq(String) /\ Len(a) = Len(h) + Len(c)
      BY <2>2, <2>5, Pieces
    <3> QED BY <2>5, <3>1
  <2> HIDE DEF a
  <2>7. x \in Seq(String) /\ SubSeq(x, Len(a) + 1, Len(x)) = argv
    BY <2>6, Pieces, Behind
  <2> HIDE DEF x
  <2>8. Len(a) + 1 = 4 + Len(c)
    BY <2>2, <2>6
  <2> QED BY <2>3, <2>4, <2>7, <2>8
<1> QED
  BY <1>2, <1>3, <1>4

\* execute_normal and execute_fake: the argv, or the line for a shell
LEMMA RunsWrapped ==
    ASSUME NEW entry \in MenuApps, NEW options \in Opts, NEW argv \in Seq(String), NEW text,
           NEW result, ~(entry.terminal /\ options.term_mode = "custom"),
           entry.terminal /\ options.term_mode = "default" =>
              text = create_term_emulator_temp_script(argv),
           ~(entry.path # <<>> /\ options.mode = "i3"),
           result = IF options.mode = "normal" THEN Wrapper(options, Terminal(entry, options, argv))
                    ELSE convert_argv_to_string(Wrapper(options, Terminal(entry, options, argv)))
    PROVE  Runs(entry, options, text, result) = <<argv>>
<1> DEFINE x == Terminal(entry, options, argv)
           y == Wrapper(options, x)
           z == IF options.mode = "normal" THEN result ELSE ShellCommands(result)[1]
<1>1. x \in Seq(String) /\ TerminalRuns(entry, options, text, x) = argv
  BY TerminalUndone
<1> HIDE DEF x
<1>2. y \in Seq(String) /\ WrapperRuns(options, y) = x
  BY <1>1, WrapperUndone
<1> HIDE DEF y
<1>3. result = IF options.mode = "normal" THEN y ELSE convert_argv_to_string(y)
  BY DEF x, y
<1>4. ShellCommands(convert_argv_to_string(y)) = <<y>>
  BY <1>2, ShellRunsArgv
<1>5. z = y
  BY <1>3, <1>4
<1>6. Runs(entry, options, text, result) = <<TerminalRuns(entry, options, text, WrapperRuns(options, z))>>
  BY DEF Runs
<1> HIDE DEF z
<1> QED
  BY <1>1, <1>2, <1>5, <1>6

\* execute_i3 with a directory to change to
LEMMA RunsInPath ==
    ASSUME NEW entry \in MenuApps, NEW options \in Opts, NEW argv \in Seq(String), NEW text,
           NEW result, NEW shell, shell = wrap_cmdstring_in_shell(CdLine(entry.path, argv)),
           ~(entry.terminal /\ options.term_mode = "custom"),
           entry.terminal /\ options.term_mode = "default" =>
              text = create_term_emulator_temp_script(shell),
           entry.path # <<>>, options.mode = "i3",
           result = IF entry.terminal THEN convert_argv_to_string(Terminal(entry, options, shell))
                    ELSE shell[3]
    PROVE  Runs(entry, options, text, result) = << << <<"cd">>, entry.path >>, argv >>
<1> DEFINE line == CdLine(entry.path, argv)
<1>1. entry.path \in String /\ entry.terminal \in BOOLEAN
  BY DEF MenuApps
<1>2. line \in String /\ ShellCommands(line) = << << <<"cd">>, entry.path >>, argv >>
  BY <1>1, ShellRunsCd
<1>3. shell \in Seq(String) /\ shell[3] = line
  <2> DEFINE a == <<"/bin/sh">>
             b == <<"-c">>
  <2>1. "/bin/sh" \in Chars /\ "-c" \in Chars
    BY LiteralChars
  <2>2. a \in String /\ b \in String
    BY <2>1, ShortCommands
  <2>3. shell = <<a, b, line>>
    BY DEF wrap_cmdstring_in_shell
  <2> HIDE DEF a, b, line
  <2>4. <<a, b, line>> \in Seq(String)
    BY <1>2, <2>2, ShortCommands
  <2> QED BY <2>3, <2>4
<1> HIDE DEF line
<1>4. CASE ~entry.terminal
  <2>1. Runs(entry, options, text, result) = ShellCommands(result)
    BY <1>4 DEF Runs
  <2> QED BY <1>2, <1>3, <1>4, <2>1
<1>5. CASE entry.terminal
  <2> DEFINE x == Terminal(entry, options, shell)
  <2>1. x \in Seq(String) /\ TerminalRuns(entry, options, text, x) = shell
    BY <1>3, TerminalUndone
  <2>2. result = convert_argv_to_string(x)
    BY <1>5
  <2> HIDE DEF x
  <2>3. ShellCommands(result) = <<x>>
    BY <2>1, <2>2, ShellRunsArgv
  <2>4. ShellCommands(result)[1] = x
    BY <2>3
  <2>5. Runs(entry, options, text, result)
          = ShellCommands(TerminalRuns(entry, options, text, ShellCommands(result)[1])[3])
    BY <1>5 DEF Runs
  <2> QED BY <1>2, <1>3, <2>1, <2>4, <2>5
<1> QED
  BY <1>1, <1>4, <1>5

RunInv == CommandInv /\ (opt.mode = "i3" => ~opt.wrapper) /\ RunsTheCommand

\* Where the phase ends
LEMMA ExecuteRuns ==
    ASSUME CommandInv, opt.mode = "i3" => ~opt.wrapper,
           execute_normal \/ execute_fake \/ execute_i3
    PROVE  RunsTheCommand'
<1> DEFINE entry == app
           options == opt
           argv == command
           text == script'
           result == out'
           custom == entry.terminal /\ options.term_mode = "custom"
           shelled == entry.path # <<>> /\ options.mode = "i3"
<1>1. UNCHANGED <<choice, opt, command>> /\ pc = "assemble"
  BY DEF execute_normal, execute_fake, execute_i3
<1>2. app' = app /\ app \in MenuApps /\ opt \in Opts /\ command \in Seq(String)
  BY <1>1 DEF CommandInv, Chosen, app
<1>3. FinallyRun' = Runs(app, opt, script', out')
  <2>1. FinallyRun' = Runs(app', opt', script', out')
    BY DEF FinallyRun, Runs, InTerminal, TerminalRuns, Unwrapped, WrapperRuns
  <2> QED BY <1>1, <1>2, <2>1
<1>4. SUFFICES ASSUME ~custom, pc' = "done"
               PROVE  FinallyRun' = (IF shelled THEN << << <<"cd">>, app.path>> >> ELSE <<>>) \o <<command>>
  BY <1>1, <1>2 DEF RunsTheCommand
<1>5. \A x : in_terminal(x) = Terminal(app, opt, x) /\ wrapped(x) = Wrapper(opt, x)
  BY DEF in_terminal, term_assembler, Terminal, wrapped, Wrapper
<1>6. \A x : cd_to_path(x) = wrap_cmdstring_in_shell(CdLine(app.path, x))
  BY DEF cd_to_path, CdLine
<1>7. <<>> \o <<command>> = <<command>>
  BY ConcatEmptySeq
<1>8. << << <<"cd">>, app.path>> >> \o <<command>> = << << <<"cd">>, app.path>>, command>>
  BY OneByOne
<1>9. CASE ~shelled
  <2>1. /\ entry.terminal /\ options.term_mode = "default" =>
              text = create_term_emulator_temp_script(argv)
        /\ result = IF options.mode = "normal" THEN Wrapper(options, Terminal(entry, options, argv))
                    ELSE convert_argv_to_string(Wrapper(options, Terminal(entry, options, argv)))
    <3>1. CASE execute_normal
      BY <1>5, <3>1 DEF execute_normal, write_script
    <3>2. CASE execute_fake
      BY <1>5, <3>2 DEF execute_fake, write_script
    <3>3. CASE execute_i3
      <4>1. opt.mode = "i3" /\ app.path = <<>>
        BY <1>9, <3>3 DEF execute_i3
      <4>2. write_script(command) /\ out' = convert_argv_to_string(in_terminal(command))
        BY <3>3, <4>1 DEF execute_i3
      <4>3. Wrapper(opt, Terminal(app, opt, command)) = Terminal(app, opt, command)
        BY <4>1 DEF Wrapper
      <4> QED BY <1>5, <4>1, <4>2, <4>3 DEF write_script
    <3> QED BY <3>1, <3>2, <3>3
  <2>2. entry \in MenuApps /\ options \in Opts /\ argv \in Seq(String) /\ ~custom /\ ~shelled
    BY <1>2, <1>4, <1>9
  <2> HIDE DEF entry, options, argv, text, result
  <2>3. Runs(entry, options, text, result) = <<argv>>
    BY <2>1, <2>2, RunsWrapped
  <2> QED BY <1>3, <1>7, <1>9, <2>3 DEF entry, options, argv, text, result
<1>10. CASE shelled
  <2> DEFINE shell == cd_to_path(command)
  <2>1. execute_i3
    BY <1>10 DEF execute_normal, execute_fake
  <2>2. /\ write_script(shell)
        /\ out' = IF ~app.terminal THEN shell[3] ELSE convert_argv_to_string(in_terminal(shell))
    BY <1>10, <2>1 DEF execute_i3
  <2>3. shell = wrap_cmdstring_in_shell(CdLine(entry.path, argv))
    BY <1>6
  <2> HIDE DEF shell
  <2>4. /\ entry.terminal /\ options.term_mode = "default" =>
              text = create_term_emulator_temp_script(shell)
        /\ result = IF entry.terminal THEN convert_argv_to_string(Terminal(entry, options, shell))
                    ELSE shell[3]
    BY <1>5, <2>2 DEF write_script
  <2>5. /\ entry \in MenuApps /\ options \in Opts /\ argv \in Seq(String) /\ ~custom
        /\ entry.path # <<>> /\ options.mode = "i3"
    BY <1>2, <1>4, <1>10
  <2> HIDE DEF entry, options, argv, text, result
  <2>6. Runs(entry, options, text, result) = << << <<"cd">>, entry.path >>, argv >>
    BY <2>3, <2>4, <2>5, RunsInPath
  <2> QED BY <1>3, <1>8, <1>10, <2>6 DEF entry, options, argv, text, result
<1> QED
  BY <1>9, <1>10

LEMMA RunInit == Init => RunInv
<1> SUFFICES ASSUME Init PROVE RunInv
  OBVIOUS
<1>1. PICK in \in Inputs : opt = in.opt
  BY DEF Init
<1>2. opt.mode = "i3" => ~opt.wrapper
  BY <1>1, ExecutablesAssumption
<1> QED
  BY <1>2, CommandInit DEF RunInv, RunsTheCommand, Init

LEMMA RunNext == RunInv /\ [Next]_vars => RunInv'
<1> SUFFICES ASSUME RunInv, [Next]_vars PROVE RunInv'
  OBVIOUS
<1>1. CommandInv'
  BY CommandNext DEF RunInv
<1>2. opt' = opt
  BY DEF Next, vars, lookup_name, custom_command, chdir_fails, convert, expand, expand_done,
     assemble_aborts, execute_normal, execute_fake, execute_i3
<1>3. CASE execute_normal \/ execute_fake \/ execute_i3
  BY <1>1, <1>2, <1>3, ExecuteRuns DEF RunInv
<1>4. CASE custom_command
  <2>1. app.custom /\ choice' = choice
    BY <1>4 DEF custom_command
  <2>2. app'.custom
    BY <2>1 DEF app
  <2> QED BY <1>1, <1>2, <2>2 DEF RunInv, RunsTheCommand
<1>5. CASE lookup_name \/ chdir_fails \/ convert \/ expand \/ expand_done \/ assemble_aborts
  <2>1. pc' # "done"
    BY <1>5 DEF lookup_name, chdir_fails, convert, expand, expand_done, assemble_aborts
  <2> QED BY <1>1, <1>2, <2>1 DEF RunInv, RunsTheCommand
<1>6. CASE UNCHANGED vars
  <2>1. RunsTheCommand'
    BY <1>6 DEF RunInv, RunsTheCommand, FinallyRun, InTerminal, Unwrapped, app, vars
  <2> QED BY <1>1, <1>2, <2>1 DEF RunInv
<1> QED
  BY <1>3, <1>4, <1>5, <1>6 DEF Next

\* Executed directly, printed for a shell or sent to i3, in a terminal emulator or not, in
\* its directory or not: the program that is run in the end is the expanded command, whatever
\* characters its arguments have and however often they are quoted on the way.
THEOREM AlwaysRunsTheCommand == Spec => []RunsTheCommand
<1>1. RunInv => RunsTheCommand
  BY DEF RunInv
<1> QED
  BY <1>1, RunInit, RunNext, PTL DEF Spec

-----------------------------------------------------------------------------
(* The user's arguments *)

Uncoded(word) == ToSet(word) \cap FieldCodes = {}

\* An argument without a field code is left as it is.
LEMMA UncodedKept ==
    ASSUME NEW args \in Seq(String), NEW i \in 1 .. Len(args), Uncoded(args[i]), NEW entry, NEW typed
    PROVE  ExpandArgument(args, i, entry, typed) = [args |-> args, next |-> i + 1, thrown |-> FALSE]
<1> DEFINE arg == args[i]
           pos == SelectInSeq(arg, LAMBDA ch : ch \in FieldCodes)
<1>1. arg \in String /\ DOMAIN arg = 1 .. Len(arg)
  BY ElementOfSeq, LenProperties DEF String
<1>2. \A k \in 1 .. Len(arg) : arg[k] \notin FieldCodes
  BY <1>1 DEF Uncoded, ToSet
<1>3. pos = 0
  BY <1>2 DEF SelectInSeq
<1>4. pos = 0 => ExpandArgument(args, i, entry, typed)
                   = [args |-> args, next |-> i + 1, thrown |-> FALSE]
  BY DEF ExpandArgument
<1> QED
  BY <1>3, <1>4

\* The words of the user, in the place of a code that was alone
LEMMA SpreadAlone ==
    ASSUME NEW words \in Seq(String), Len(words) > 1
    PROVE  Spread(<<>>, words, <<>>) = words
<1> DEFINE n == Len(words)
           first == <<words[1]>>
           last == <<words[n]>>
           mid == SubSeq(words, 2, n - 1)
           a == first \o mid
           b == a \o last
<1>1. n \in Nat /\ n > 1 /\ words[1] \in String /\ words[n] \in String
  BY LenProperties
<1>2. <<>> \o Head(words) = words[1] /\ Last(words) \o <<>> = words[n]
  <2>1. Head(words) = words[1] /\ Last(words) = words[n]
    BY <1>1 DEF Last
  <2>2. \A w \in String : <<>> \o w = w /\ w \o <<>> = w
    BY ConcatEmptySeq DEF String
  <2> QED BY <1>1, <2>1, <2>2
<1>3. Spread(<<>>, words, <<>>) = b
  BY <1>2 DEF Spread
<1>4. mid \in Seq(String) /\ Len(mid) = n - 2 /\ \A k \in 1 .. n - 2 : mid[k] = words[k + 1]
  <2>1. n = Len(words) /\ 2 \in Int /\ n - 1 \in Int
    BY <1>1
  <2>2. \A k \in 2 .. n - 1 : words[k] \in String
    BY <1>1, ElementOfSeq
  <2> HIDE DEF n
  <2>3. /\ mid \in Seq(String) /\ Len(mid) = IF 2 <= n - 1 THEN (n - 1) - 2 + 1 ELSE 0
        /\ \A k \in 1 .. (n - 1) - 2 + 1 : mid[k] = words[2 + k - 1]
    BY <2>1, <2>2, SubSeqProperties
  <2> HIDE DEF mid
  <2>4. (n - 1) - 2 + 1 = n - 2 /\ \A k \in 1 .. n - 2 : 2 + k - 1 = k + 1
    BY <1>1
  <2>5. Len(mid) = n - 2
    BY <1>1, <2>3, <2>4
  <2>6. ASSUME NEW k \in 1 .. n - 2 PROVE mid[k] = words[k + 1]
    BY <2>3, <2>4
  <2> QED BY <2>3, <2>5, <2>6
<1>5. /\ first \in Seq(String) /\ Len(first) = 1 /\ first[1] = words[1]
      /\ last \in Seq(String) /\ Len(last) = 1 /\ last[1] = words[n]
  BY <1>1
<1> HIDE DEF n, first, last, mid
<1>6. /\ a \in Seq(String) /\ Len(a) = 1 + (n - 2) /\ a[1] = words[1]
      /\ \A k \in 1 .. n - 2 : a[1 + k] = words[k + 1]
  <2>1. /\ a \in Seq(String) /\ Len(a) = Len(first) + Len(mid)
        /\ \A k \in 1 .. Len(first) : a[k] = first[k]
        /\ \A k \in 1 .. Len(mid) : a[Len(first) + k] = mid[k]
    <3>1. first \in Seq(String) /\ mid \in Seq(String)
      BY <1>4, <1>5
    <3> QED BY <3>1, Pieces
  <2> QED BY <1>4, <1>5, <2>1
<1> HIDE DEF a
<1>7. /\ b \in Seq(String) /\ Len(b) = n
      /\ \A k \in 1 .. n - 1 : b[k] = a[k]
      /\ b[n] = words[n]
  <2>1. /\ b \in Seq(String) /\ Len(b) = Len(a) + Len(last)
        /\ \A k \in 1 .. Len(a) : b[k] = a[k]
        /\ \A k \in 1 .. Len(last) : b[Len(a) + k] = last[k]
    <3>1. a \in Seq(String) /\ last \in Seq(String)
      BY <1>5, <1>6
    <3> QED BY <3>1, Pieces
  <2>2. Len(a) = n - 1
    BY <1>1, <1>6
  <2>3. Len(a) + 1 = n /\ 1 \in 1 .. 1
    BY <1>1, <2>2
  <2>4. b[n] = words[n]
    BY <1>5, <2>1, <2>3
  <2> QED BY <1>1, <1>5, <2>1, <2>2, <2>4
<1> HIDE DEF b
<1>8. ASSUME NEW k \in 1 .. n PROVE b[k] = words[k]
  <2>1. CASE k = 1
    <3>1. 1 \in 1 .. n - 1
      BY <1>1
    <3> QED BY <1>6, <1>7, <2>1, <3>1
  <2>2. CASE k \in 2 .. n - 1
    <3>1. k - 1 \in 1 .. n - 2 /\ 1 + (k - 1) = k /\ (k - 1) + 1 = k /\ k \in 1 .. n - 1
      BY <1>1, <2>2
    <3> QED BY <1>6, <1>7, <3>1
  <2>3. CASE k = n
    BY <1>7, <2>3
  <2> QED BY <1>1, <2>1, <2>2, <2>3
<1>9. b = words
  BY <1>7, <1>8, SeqEqual DEF n
<1> QED
  BY <1>3, <1>9

\* What takes the place of a field code for files that is an argument of its own
TypedArguments(typed) == IF Len(SplitWords(typed)) = 1 THEN <<typed>> ELSE SplitWords(typed)

LEMMA TypedWords ==
    ASSUME NEW typed \in String
    PROVE  /\ SplitWords(typed) \in Seq(String) /\ Len(SplitWords(typed)) \in Nat
           /\ \/ Len(SplitWords(typed)) = 0 \/ Len(SplitWords(typed)) = 1
              \/ Len(SplitWords(typed)) > 1 /\ Len(SplitWords(typed)) # 1
<1> DEFINE words == SplitWords(typed)
<1>1. words \in Seq(String)
  BY SplitWordsType
<1> HIDE DEF words
<1>2. Len(words) \in Nat
  BY <1>1, LenProperties
<1>3. Len(words) = 0 \/ Len(words) = 1 \/ (Len(words) > 1 /\ Len(words) # 1)
  <2> DEFINE n == Len(words)
  <2>1. n \in Nat
    BY <1>2
  <2> HIDE DEF n
  <2>2. n = 0 \/ n = 1 \/ (n > 1 /\ n # 1)
    BY <2>1
  <2> QED BY <2>2 DEF n
<1> QED
  BY <1>1, <1>2, <1>3 DEF words

LEMMA FilesExpanded ==
    ASSUME NEW args \in Seq(String), NEW i \in 1 .. Len(args), args[i] = <<"%f">>, NEW entry,
           NEW typed \in String, NEW e, e = ExpandArgument(args, i, entry, typed)
    PROVE  /\ e.args = InPlaceOf(args, i, TypedArguments(typed)) /\ e.thrown = FALSE
           /\ e.next \in Nat /\ e.next >= i + Len(TypedArguments(typed)) /\ e.next > i
           /\ TypedArguments(typed) \in Seq(String)
<1> DEFINE arg == args[i]
           Codes == {k \in 1 .. Len(arg) : arg[k] \in FieldCodes}
           pos == SelectInSeq(arg, LAMBDA ch : ch \in FieldCodes)
           code == arg[pos]
           before == SubSeq(arg, 1, pos - 1)
           after == SubSeq(arg, pos + 1, Len(arg))
           words == SplitWords(typed)
           Replaced(string) == [args |-> ReplaceAt(args, i, before \o string \o after),
                                next |-> i + 1, thrown |-> FALSE]
           suffix == IF pos + 1 < Len(args) THEN after ELSE <<>>
<1>1. /\ words \in Seq(String) /\ Len(words) \in Nat /\ i \in Nat
      /\ Len(words) = 0 \/ Len(words) = 1 \/ (Len(words) > 1 /\ Len(words) # 1)
  BY TypedWords
<1>2. Len(arg) = 1 /\ arg[1] = "%f"
  OBVIOUS
<1>3. pos = IF Codes # {} THEN Min(Codes) ELSE 0
  BY DEF SelectInSeq
<1>4. pos = 1
  <2>1. Codes = {1}
    BY <1>2 DEF FieldCodes
  <2>2. Min(Codes) \in Codes
    BY <2>1, MinOfIndices
  <2> HIDE DEF Codes, pos
  <2> QED BY <1>3, <2>1, <2>2
<1>5. e = CASE pos = 0 -> [args |-> args, next |-> i + 1, thrown |-> FALSE]
             [] pos # 0 /\ code \in {"%", "%?"} -> [args |-> args, next |-> i, thrown |-> TRUE]
             [] pos # 0 /\ code = "%i" -> [args |-> args, next |-> i + 1, thrown |-> FALSE]
             [] pos # 0 /\ code = "%%" -> Replaced(<<"percent">>)
             [] pos # 0 /\ code = "%c" -> Replaced(entry.name)
             [] pos # 0 /\ code = "%k" -> Replaced(entry.location)
             [] pos # 0 /\ code = "%f" /\ Len(words) = 1 -> Replaced(typed)
             [] pos # 0 /\ code = "%f" /\ Len(words) = 0 ->
                   IF arg = <<code>>
                   THEN [args |-> InPlaceOf(args, i, <<>>), next |-> i + 1, thrown |-> FALSE]
                   ELSE Replaced(<<>>)
             [] pos # 0 /\ code = "%f" /\ Len(words) > 1 ->
                   [args |-> InPlaceOf(args, i, Spread(before, words, suffix)),
                    next |-> i + Len(words) + 1, thrown |-> FALSE]
  BY DEF ExpandArgument, InPlaceOf
<1> HIDE DEF pos, words, Codes
<1>6. code = "%f" /\ arg = <<code>>
  BY <1>2, <1>4
<1>7. before = <<>> /\ after = <<>> /\ suffix = <<>>
  <2>1. before = <<>>
    BY <1>4, SubSeqEmpty
  <2>2. after = <<>>
    BY <1>2, <1>4, SubSeqEmpty
  <2> QED BY <2>1, <2>2
<1> HIDE DEF arg, code, before, after, suffix
<1>8. CASE Len(words) = 1
  <2>1. TypedArguments(typed) = <<typed>>
    BY <1>8 DEF TypedArguments, words
  <2>2. e = Replaced(typed)
    BY <1>4, <1>5, <1>6, <1>8
  <2>3. before \o typed \o after = typed
    BY <1>7, ConcatEmptySeq DEF String
  <2>4. e = [args |-> ReplaceAt(args, i, typed), next |-> i + 1, thrown |-> FALSE]
    BY <2>2, <2>3
  <2>5. ReplaceAt(args, i, typed) = InPlaceOf(args, i, <<typed>>)
    BY ReplacedInPlace
  <2>6. <<typed>> \in Seq(String) /\ Len(<<typed>>) = 1
    OBVIOUS
  <2> QED BY <1>1, <2>1, <2>4, <2>5, <2>6
<1>9. CASE Len(words) = 0
  <2>1. TypedArguments(typed) = words /\ words = <<>>
    BY <1>1, <1>9, EmptySeq DEF TypedArguments, words
  <2>2. e = [args |-> InPlaceOf(args, i, words), next |-> i + 1, thrown |-> FALSE]
    BY <1>4, <1>5, <1>6, <1>9, <2>1
  <2> QED BY <1>1, <1>9, <2>1, <2>2
<1>10. CASE Len(words) > 1 /\ Len(words) # 1
  <2>1. TypedArguments(typed) = words
    BY <1>10 DEF TypedArguments, words
  <2>2. e = [args |-> InPlaceOf(args, i, Spread(before, words, suffix)),
             next |-> i + Len(words) + 1, thrown |-> FALSE]
    BY <1>4, <1>5, <1>6, <1>10
  <2>3. Spread(before, words, suffix) = words
    BY <1>1, <1>7, <1>10, SpreadAlone
  <2>4. e = [args |-> InPlaceOf(args, i, words), next |-> i + Len(words) + 1, thrown |-> FALSE]
    BY <2>2, <2>3
  <2>5. /\ e.args = InPlaceOf(args, i, words) /\ e.thrown = FALSE /\ e.next = i + Len(words) + 1
    BY <2>4
  <2>6. e.next \in Nat /\ e.next >= i + Len(words) /\ e.next > i
    BY <1>1, <1>10, <2>5
  <2> QED BY <1>1, <2>1, <2>5, <2>6
<1> QED
  BY <1>1, <1>8, <1>9, <1>10

ExecWords == convert_exec_to_command(app.exec, opt.wine_compatibility_mode).command

\* The only field code of the Exec key is one for files, argument i.
FilesAlone(words, i) ==
    {k \in DOMAIN words : ToSet(words[k]) \cap FieldCodes # {}} = {i} /\ words[i] = <<"%f">>

\* expand_field_codes() has not come to it, or has put the user's arguments in its place
\* and nothing is left to expand.
FilesInv(words, i) ==
    \/ command = words /\ iter <= i
    \/ /\ command = InPlaceOf(words, i, TypedArguments(choice.args))
       /\ \A k \in iter .. Len(command) : Uncoded(command[k])

UserInv ==
    /\ CommandInv
    /\ pc \in {"expand", "assemble"} =>
          \A i \in DOMAIN ExecWords : FilesAlone(ExecWords, i) => FilesInv(ExecWords, i)
    /\ pc = "assemble" => iter > Len(command)

LEMMA FilesStep ==
    ASSUME CommandInv, expand, NEW words \in Seq(String), NEW i \in DOMAIN words,
           FilesAlone(words, i), FilesInv(words, i)
    PROVE  FilesInv(words, i)'
<1> DEFINE typed == choice.args
           strings == TypedArguments(typed)
           final == InPlaceOf(words, i, strings)
           e == ExpandArgument(command, iter, app, typed)
           n == Len(words)
<1>1. /\ command \in Seq(String) /\ iter \in 1 .. Len(command) /\ typed \in String
      /\ Len(command) \in Nat
  BY LenProperties DEF CommandInv, Chosen, expand
<1>2. /\ command' = e.args /\ choice' = choice
      /\ iter' = IF e.next > Len(e.args) THEN Len(e.args) + 1 ELSE e.next
  BY DEF expand
<1>3. n \in Nat /\ DOMAIN words = 1 .. n /\ i \in 1 .. n
  BY LenProperties
<1>4. \A k \in 1 .. n : k # i => Uncoded(words[k])
  BY <1>3 DEF FilesAlone, Uncoded
<1>5. ASSUME Uncoded(command[iter])
      PROVE  command' = command /\ iter' = iter + 1
  <2>1. e = [args |-> command, next |-> iter + 1, thrown |-> FALSE]
    BY <1>1, <1>5, UncodedKept
  <2>2. e.args = command /\ e.next = iter + 1
    BY <2>1
  <2> QED BY <1>1, <1>2, <2>2
<1>6. CASE command = words /\ iter < i
  <2>1. iter \in 1 .. n /\ iter # i
    BY <1>1, <1>3, <1>6
  <2>2. command' = command /\ iter' = iter + 1
    BY <1>4, <1>5, <1>6, <2>1
  <2>3. iter' <= i
    BY <1>1, <1>3, <1>6, <2>2
  <2> QED BY <1>6, <2>2, <2>3 DEF FilesInv
<1>7. CASE command = words /\ iter = i
  <2>1. words[i] = <<"%f">>
    BY DEF FilesAlone
  <2>2. e = ExpandArgument(words, i, app, typed)
    BY <1>7
  <2> HIDE DEF e, typed
  <2>3. /\ e.args = final /\ e.next \in Nat /\ e.next >= i + Len(strings) /\ e.next > i
        /\ strings \in Seq(String)
    BY <1>1, <1>3, <2>1, <2>2, FilesExpanded
  <2> HIDE DEF strings
  <2>4. Placed(final, words, i, strings)
    BY <1>3, <2>3, InPlaceOfFacts
  <2>5. /\ final \in Seq(String) /\ Len(final) = (n - 1) + Len(strings) /\ Len(strings) \in Nat
        /\ \A k \in 1 .. n - i : final[((i - 1) + Len(strings)) + k] = words[i + k]
    BY <2>3, <2>4, LenProperties DEF Placed
  <2> HIDE DEF final, n
  <2>6. ASSUME NEW k \in iter' .. Len(final) PROVE Uncoded(final[k])
    <3> DEFINE m == Len(strings)
               l == Len(final)
               h == k - ((i - 1) + m)
    <3>1. m \in Nat /\ l = (n - 1) + m /\ iter' = IF e.next > l THEN l + 1 ELSE e.next
      BY <1>2, <2>3, <2>5
    <3>2. e.next \in Nat /\ e.next >= i + m /\ e.next > i
      BY <2>3
    <3>3. k \in iter' .. l
      OBVIOUS
    <3>4. /\ \A g \in 1 .. n - i : final[((i - 1) + m) + g] = words[i + g]
      BY <2>5
    <3> HIDE DEF m, l
    <3>5. k \in Int /\ k >= i + m /\ k <= l
      BY <1>3, <3>1, <3>2, <3>3
    <3>6. h \in 1 .. n - i /\ ((i - 1) + m) + h = k /\ i + h \in 1 .. n /\ i + h # i
      <4>1. n \in Nat /\ i \in Int /\ 1 <= i /\ i <= n /\ m \in Nat
        BY <1>3, <3>1
      <4>2. k \in Int /\ i + m <= k /\ k <= (n - 1) + m
        BY <3>1, <3>5, <4>1
      <4> QED BY <4>1, <4>2
    <3> HIDE DEF h
    <3>7. final[k] = words[i + h]
      BY <3>4, <3>6
    <3> QED BY <1>4, <3>6, <3>7
  <2>7. command' = final /\ InPlaceOf(words, i, TypedArguments(choice'.args)) = final
    BY <1>2, <2>3 DEF final, strings, typed
  <2> QED BY <2>6, <2>7 DEF FilesInv
<1>8. CASE command = final /\ \A k \in iter .. Len(command) : Uncoded(command[k])
  <2>1. iter \in iter .. Len(command)
    BY <1>1
  <2>2. command' = command /\ iter' = iter + 1
    BY <1>5, <1>8, <2>1
  <2>3. \A k \in iter + 1 .. Len(command) : k \in iter .. Len(command)
    BY <1>1
  <2>4. \A k \in iter' .. Len(command') : Uncoded(command'[k])
    BY <1>8, <2>2, <2>3
  <2> QED BY <1>2, <1>8, <2>2, <2>4 DEF FilesInv
<1> QED
  <2>1. command = words /\ iter <= i => iter < i \/ iter = i
    BY <1>1, <1>3
  <2> QED BY <1>6, <1>7, <1>8, <2>1 DEF FilesInv

LEMMA UserInit == Init => UserInv
BY CommandInit DEF UserInv, Init

LEMMA ExecWordsType ==
    ASSUME Chosen
    PROVE  ExecWords \in Seq(String)
<1>1. app.exec \in String /\ opt.wine_compatibility_mode \in BOOLEAN
  BY DEF Chosen, app, MenuApps, CustomApps, Opts
<1> QED
  BY <1>1, ConvertType DEF ExecWords

LEMMA UserNext == UserInv /\ [Next]_vars => UserInv'
<1> SUFFICES ASSUME UserInv, [Next]_vars PROVE UserInv'
  OBVIOUS
<1>1. CommandInv' /\ CommandInv
  BY CommandNext DEF UserInv
<1>2. CASE \/ lookup_name \/ custom_command \/ chdir_fails
           \/ assemble_aborts \/ execute_normal \/ execute_fake \/ execute_i3
  <2>1. pc' \notin {"expand", "assemble"}
    BY <1>2 DEF lookup_name, custom_command, chdir_fails, assemble_aborts, execute_normal, execute_fake,
       execute_i3
  <2> QED BY <1>1, <2>1 DEF UserInv
<1>3. CASE convert
  <2>1. UNCHANGED <<choice, opt, iter>> /\ iter = 1
    BY <1>1, <1>3 DEF convert, CommandInv
  <2>2. ExecWords' = ExecWords
    BY <2>1 DEF ExecWords, app
  <2>3. pc' = "exit" \/ (pc' = "expand" /\ command' = ExecWords)
    BY <1>3 DEF convert, ExecWords
  <2>4. ExecWords \in Seq(String)
    BY <1>1, ExecWordsType DEF CommandInv
  <2>5. ASSUME NEW i \in DOMAIN ExecWords', pc' = "expand" PROVE FilesInv(ExecWords, i)'
    <3>1. i \in 1 .. Len(ExecWords)
      BY <2>2, <2>4
    <3>2. iter' <= i
      BY <2>1, <3>1
    <3> QED BY <2>2, <2>3, <2>5, <3>2 DEF FilesInv
  <2> QED BY <1>1, <2>3, <2>5 DEF UserInv
<1>4. CASE expand
  <2>1. UNCHANGED <<choice, opt>> /\ pc = "expand" /\ pc' \in {"terminate", "expand"}
    BY <1>4 DEF expand
  <2>2. ExecWords' = ExecWords
    BY <2>1 DEF ExecWords, app
  <2> DEFINE words == ExecWords
  <2>3. words \in Seq(String)
    BY <1>1, ExecWordsType DEF CommandInv
  <2>4. ASSUME NEW i \in DOMAIN words, FilesAlone(words, i), FilesInv(words, i)
        PROVE  \/ command' = words /\ iter' <= i
               \/ /\ command' = InPlaceOf(words, i, TypedArguments(choice'.args))
                  /\ \A k \in iter' .. Len(command') : Uncoded(command'[k])
    BY <1>1, <1>4, <2>3, <2>4, FilesStep DEF FilesInv
  <2>5. ASSUME NEW i \in DOMAIN ExecWords', FilesAlone(ExecWords', i) PROVE FilesInv(ExecWords, i)'
    <3>1. i \in DOMAIN words /\ FilesAlone(words, i) /\ FilesInv(words, i)
      BY <2>1, <2>2, <2>5 DEF UserInv
    <3> QED BY <2>2, <2>4, <3>1 DEF FilesInv
  <2>6. \A i \in DOMAIN ExecWords' : FilesAlone(ExecWords, i)' => FilesInv(ExecWords, i)'
    BY <2>5 DEF FilesAlone
  <2> QED BY <1>1, <2>1, <2>6 DEF UserInv
<1>5. CASE expand_done
  <2>1. UNCHANGED <<choice, opt, command, iter>> /\ pc = "expand" /\ iter > Len(command)
    BY <1>5 DEF expand_done
  <2>2. ExecWords' = ExecWords
    BY <2>1 DEF ExecWords, app
  <2> QED BY <1>1, <2>1, <2>2 DEF UserInv, FilesInv
<1>6. CASE UNCHANGED vars
  <2>1. UNCHANGED <<pc, choice, opt, command, iter>>
    BY <1>6 DEF vars
  <2>2. ExecWords' = ExecWords
    BY <2>1 DEF ExecWords, app
  <2> QED BY <1>1, <2>1, <2>2 DEF UserInv, FilesInv
<1> QED
  BY <1>2, <1>3, <1>4, <1>5, <1>6 DEF Next

\* What the user typed behind the name takes the place of a field code for files: several
\* words become as many arguments, each once and in order between the ones around it, none
\* leaves no argument, and a single one stands there as it was typed, with its space.
THEOREM AlwaysUserArgumentsPassed == Spec => []UserArgumentsPassed
<1>1. UserInv => UserArgumentsPassed
  <2> SUFFICES ASSUME UserInv, pc = "assemble", NEW i \in DOMAIN ExecWords,
                      FilesAlone(ExecWords, i)
               PROVE  command = SubSeq(ExecWords, 1, i - 1)
                                \o (IF Len(SplitWords(choice.args)) = 1 THEN <<choice.args>>
                                    ELSE SplitWords(choice.args))
                                \o SubSeq(ExecWords, i + 1, Len(ExecWords))
    BY DEF UserArgumentsPassed, ExecWords, FilesAlone
  <2>1. FilesInv(ExecWords, i) /\ iter > Len(command)
    BY DEF UserInv
  <2>2. ~(command = ExecWords /\ iter <= i)
    <3> SUFFICES ASSUME command = ExecWords, iter <= i PROVE FALSE
      OBVIOUS
    <3>1. command \in Seq(String) /\ i \in 1 .. Len(command) /\ iter \in 1 .. Len(command) + 1
      BY DEF UserInv, CommandInv
    <3>2. Len(command) \in Nat
      BY <3>1, LenProperties
    <3> QED BY <2>1, <3>1, <3>2
  <2> QED BY <2>1, <2>2 DEF FilesInv, InPlaceOf, TypedArguments
<1> QED
  BY <1>1, UserInit, UserNext, PTL DEF Spec

-----------------------------------------------------------------------------
(* The words of an Exec key, and those of a shell *)

\* The scanner of convert_exec_to_command() and a shell are inside the same quotes, behind
\* the same backslash, in the same word, and have found the same words but for empty ones.
LikeShell(c, s) ==
    /\ ~c.thrown
    /\ s.quote = IF c.in_quotes THEN DQ ELSE SP
    /\ s.escaped = c.escaping /\ (c.escaping => c.in_quotes)
    /\ s.curr = c.curr /\ (~s.open => s.curr = <<>>)
    /\ s.done = <<>> /\ NotEmpty(s.words) = NotEmpty(c.result)

LEMMA CharLikeShell ==
    ASSUME NEW v \in ValidateStates, NEW c \in ConvertStates, NEW s \in ShellStates,
           NEW ch \in Chars \ {SQ, "&&"}, NEW wine \in BOOLEAN,
           InStep(v, c), LikeShell(c, s), ValidateChar(v, ch).valid
    PROVE  LikeShell(ConvertChar(c, ch, wine), ShellChar(s, ch))
<1>1. v.valid
  BY DEF ValidateChar, ValidateStates
<1>2. ~c.thrown /\ c.in_quotes = v.in_quotes /\ c.escaping = v.escaped
  BY <1>1 DEF InStep
<1>3. /\ s.quote = (IF c.in_quotes THEN DQ ELSE SP) /\ s.escaped = c.escaping
      /\ (c.escaping => c.in_quotes) /\ s.curr = c.curr /\ (~s.open => s.curr = <<>>)
      /\ s.done = <<>> /\ NotEmpty(s.words) = NotEmpty(c.result)
  BY DEF LikeShell
<1>4. /\ c.curr \in String /\ c.result \in Seq(String) /\ s.words \in Seq(String)
      /\ c.in_quotes \in BOOLEAN /\ c.escaping \in BOOLEAN /\ c.thrown \in BOOLEAN
      /\ s.open \in BOOLEAN /\ s.escaped \in BOOLEAN
  BY DEF ConvertStates, ShellStates
<1>5. c.curr \o <<ch>> = Append(c.curr, ch)
  <2> DEFINE x == c.curr
  <2>1. x \in Seq(Chars)
    BY <1>4 DEF String
  <2> HIDE DEF x
  <2>2. x \o <<ch>> = Append(x, ch)
    BY <2>1, AppendIsConcat
  <2> QED BY <2>2 DEF x
<1>6. ASSUME ConvertChar(c, ch, wine) = [c EXCEPT !.curr = Append(@, ch), !.escaping = FALSE],
             ShellChar(s, ch) = [s EXCEPT !.curr = @ \o <<ch>>, !.open = TRUE, !.escaped = FALSE]
      PROVE  LikeShell(ConvertChar(c, ch, wine), ShellChar(s, ch))
  <2> DEFINE d == [c EXCEPT !.curr = Append(@, ch), !.escaping = FALSE]
             t == [s EXCEPT !.curr = @ \o <<ch>>, !.open = TRUE, !.escaped = FALSE]
  <2>1. /\ d.thrown = c.thrown /\ d.in_quotes = c.in_quotes /\ d.escaping = FALSE
        /\ d.curr = Append(c.curr, ch) /\ d.result = c.result
    BY DEF ConvertStates
  <2>2. /\ t.quote = s.quote /\ t.escaped = FALSE /\ t.curr = s.curr \o <<ch>> /\ t.open = TRUE
        /\ t.done = s.done /\ t.words = s.words
    BY DEF ShellStates
  <2> HIDE DEF d, t
  <2>3. LikeShell(d, t)
    BY <1>2, <1>3, <1>5, <2>1, <2>2 DEF LikeShell
  <2> QED BY <1>6, <2>3 DEF d, t
<1>7. CASE c.escaping
  <2>1. ch \in Escapable
    BY <1>2, <1>7 DEF ValidateChar, ValidateStates
  <2>2. ConvertChar(c, ch, wine) = [c EXCEPT !.curr = Append(@, ch), !.escaping = FALSE]
    BY <1>2, <1>7, <2>1 DEF ConvertChar, ConvertStates
  <2>3. ShellChar(s, ch) = [s EXCEPT !.curr = @ \o <<ch>>, !.open = TRUE, !.escaped = FALSE]
    BY <1>3, <1>7, <2>1 DEF ShellChar
  <2> QED BY <1>6, <2>2, <2>3
<1>8. CASE ~c.escaping /\ ch = DQ
  <2> DEFINE d == [c EXCEPT !.in_quotes = ~@]
             t == IF c.in_quotes THEN [s EXCEPT !.quote = SP] ELSE [s EXCEPT !.open = TRUE, !.quote = DQ]
  <2>1. ConvertChar(c, ch, wine) = d
    BY <1>2, <1>8 DEF ConvertChar, ConvertStates, DQ, BS, SP
  <2>2. ShellChar(s, ch) = t
    BY <1>3, <1>4, <1>8 DEF ShellChar, ShellStates, DQ, SQ, SP, BS
  <2>3. /\ d.thrown = c.thrown /\ d.in_quotes = ~c.in_quotes /\ d.escaping = c.escaping
        /\ d.curr = c.curr /\ d.result = c.result
    BY DEF ConvertStates
  <2>4. /\ t.quote = (IF c.in_quotes THEN SP ELSE DQ) /\ t.escaped = s.escaped /\ t.curr = s.curr
        /\ t.open = (IF c.in_quotes THEN s.open ELSE TRUE) /\ t.done = s.done /\ t.words = s.words
    BY <1>4 DEF ShellStates
  <2> HIDE DEF d, t
  <2>5. LikeShell(d, t)
    <3>1. ~d.thrown /\ t.quote = IF d.in_quotes THEN DQ ELSE SP
      BY <1>2, <1>4, <2>3, <2>4
    <3>2. t.escaped = d.escaping /\ ~d.escaping
      BY <1>3, <1>8, <2>3, <2>4
    <3>3. t.curr = d.curr /\ (~t.open => t.curr = <<>>)
      BY <1>3, <1>4, <2>3, <2>4
    <3>4. t.done = <<>> /\ NotEmpty(t.words) = NotEmpty(d.result)
      BY <1>3, <2>3, <2>4
    <3> QED BY <3>1, <3>2, <3>3, <3>4 DEF LikeShell
  <2> QED BY <2>1, <2>2, <2>5
<1>9. CASE ~c.escaping /\ ch = BS
  <2>1. c.in_quotes
    BY <1>2, <1>9 DEF ValidateChar, ValidateStates, DQ, BS
  <2> DEFINE d == [c EXCEPT !.escaping = TRUE]
             t == [s EXCEPT !.escaped = TRUE]
  <2>2. ConvertChar(c, ch, wine) = d
    BY <1>2, <1>9, <2>1 DEF ConvertChar, ConvertStates, DQ, BS
  <2>3. ShellChar(s, ch) = t
    BY <1>3, <1>4, <1>9, <2>1 DEF ShellChar, ShellStates, DQ, SQ, SP, BS
  <2>4. /\ d.thrown = c.thrown /\ d.in_quotes = c.in_quotes /\ d.escaping = TRUE
        /\ d.curr = c.curr /\ d.result = c.result
    BY DEF ConvertStates
  <2>5. /\ t.quote = s.quote /\ t.escaped = TRUE /\ t.curr = s.curr /\ t.open = s.open
        /\ t.done = s.done /\ t.words = s.words
    BY DEF ShellStates
  <2> HIDE DEF d, t
  <2>6. LikeShell(d, t)
    BY <1>2, <1>3, <2>1, <2>4, <2>5 DEF LikeShell
  <2> QED BY <2>2, <2>3, <2>6
<1>10. CASE ~c.escaping /\ ch = SP /\ ~c.in_quotes
  <2> DEFINE d == [c EXCEPT !.result = Append(@, c.curr), !.curr = <<>>]
             t == EndWord(s)
  <2>1. ConvertChar(c, ch, wine) = d
    BY <1>2, <1>10 DEF ConvertChar, ConvertStates, DQ, BS, SP
  <2>2. ShellChar(s, ch) = t
    BY <1>3, <1>4, <1>10 DEF ShellChar, ShellStates, DQ, SQ, SP, BS
  <2>3. /\ d.thrown = c.thrown /\ d.in_quotes = c.in_quotes /\ d.escaping = c.escaping
        /\ d.curr = <<>> /\ d.result = Append(c.result, c.curr)
    BY DEF ConvertStates
  <2>4. NotEmpty(d.result) = AddWord(NotEmpty(c.result), c.curr)
    BY <1>4, <2>3, NotEmptyMore
  <2>5. /\ t.quote = s.quote /\ t.escaped = s.escaped /\ t.curr = <<>> /\ t.open = FALSE
        /\ t.done = s.done /\ t.words = IF s.open THEN Append(s.words, s.curr) ELSE s.words
    BY <1>3, <1>4 DEF ShellStates, EndWord
  <2>6. NotEmpty(Append(s.words, s.curr)) = AddWord(NotEmpty(s.words), s.curr)
    BY <1>3, <1>4, NotEmptyMore
  <2>7. NotEmpty(t.words) = NotEmpty(d.result)
    <3>1. CASE s.open
      BY <1>3, <2>4, <2>5, <2>6, <3>1
    <3>2. CASE ~s.open
      BY <1>3, <2>4, <2>5, <3>2 DEF AddWord
    <3> QED BY <3>1, <3>2
  <2> HIDE DEF d, t
  <2>8. LikeShell(d, t)
    BY <1>2, <1>3, <1>10, <2>3, <2>5, <2>7 DEF LikeShell
  <2> QED BY <2>1, <2>2, <2>8
<1>11. CASE ~c.escaping /\ ch # DQ /\ ch # BS /\ (ch = SP => c.in_quotes)
  <2>1. ConvertChar(c, ch, wine) = [c EXCEPT !.curr = Append(@, ch)]
    BY <1>2, <1>11 DEF ConvertChar
  <2>2. [c EXCEPT !.curr = Append(@, ch)] = [c EXCEPT !.curr = Append(@, ch), !.escaping = FALSE]
    BY <1>4, <1>11 DEF ConvertStates
  <2>3. ShellChar(s, ch) = [s EXCEPT !.curr = @ \o <<ch>>, !.open = TRUE, !.escaped = FALSE]
    <3>1. ch # SQ /\ ch # "&&"
      OBVIOUS
    <3>2. ~s.escaped /\ (s.quote = DQ \/ (s.quote = SP /\ ch # SP))
      BY <1>3, <1>11
    <3> QED BY <1>11, <3>1, <3>2 DEF ShellChar, DQ, SP, SQ
  <2> QED BY <1>6, <2>1, <2>2, <2>3
<1> QED
  BY <1>7, <1>8, <1>9, <1>10, <1>11

\* The words of a whole key
LEMMA KeyLikeShell ==
    ASSUME NEW key \in String, NEW wine \in BOOLEAN, validate_exec_key(key),
           ToSet(key) \cap {SQ, "&&"} = {}
    PROVE  /\ ~convert_exec_to_command(key, wine).thrown
           /\ NotEmpty(convert_exec_to_command(key, wine).command) = NotEmpty(ShellCommands(key)[1])
<1> DEFINE N == Len(key)
           vstart == [in_quotes |-> FALSE, escaped |-> FALSE, valid |-> TRUE]
           cstart == [result |-> <<>>, curr |-> <<>>, in_quotes |-> FALSE, escaping |-> FALSE,
                      thrown |-> FALSE]
<1>1. N \in Nat /\ \A n \in 1 .. N : key[n] \in Chars \ {SQ, "&&"}
  <2>1. N \in Nat /\ DOMAIN key = 1 .. N /\ \A n \in 1 .. N : key[n] \in Chars
    BY LenProperties DEF String
  <2>2. \A n \in 1 .. N : key[n] \notin {SQ, "&&"}
    BY <2>1 DEF ToSet
  <2> QED BY <2>1, <2>2
<1>2. PICK v \in [0 .. N -> ValidateStates], c \in [0 .. N -> ConvertStates] :
         /\ v[0] = vstart
         /\ \A n \in 1 .. N : v[n] = ValidateChar(v[n - 1], key[n])
         /\ validate_exec_key(key) = (v[N].valid /\ ~v[N].in_quotes)
         /\ c[0] = cstart
         /\ \A n \in 1 .. N : c[n] = ConvertChar(c[n - 1], key[n], wine)
         /\ Converted(key, wine) = c[N]
  BY ScannerSteps
<1>3. ShellStart \in ShellStates
  BY StartIsFresh DEF Fresh, Between
<1>4. PICK s \in [0 .. N -> ShellStates] :
         /\ s[0] = ShellStart
         /\ \A n \in 1 .. N : s[n] = ShellChar(s[n - 1], key[n])
         /\ ShellRun(ShellStart, key) = s[N]
  BY <1>3, ShellRunSteps
<1>5. InStep(vstart, cstart) /\ LikeShell(cstart, ShellStart)
  BY DEF InStep, LikeShell, ShellStart, SP, DQ
<1> HIDE DEF N, vstart, cstart
<1> DEFINE S == {n \in 0 .. N : InStep(v[n], c[n]) /\ (v[n].valid => LikeShell(c[n], s[n]))}
<1>6. 0 \in S
  BY <1>1, <1>2, <1>4, <1>5
<1>7. ASSUME NEW n \in 1 .. N, n - 1 \in S PROVE n \in S
  <2> DEFINE x == v[n - 1]
             d == c[n - 1]
             t == s[n - 1]
             ch == key[n]
  <2>1. /\ n \in 0 .. N /\ n - 1 \in 0 .. N /\ ch \in Chars \ {SQ, "&&"}
        /\ InStep(x, d) /\ (x.valid => LikeShell(d, t))
    BY <1>1, <1>7
  <2>2. x \in ValidateStates /\ d \in ConvertStates /\ t \in ShellStates
    BY <1>2, <1>4, <2>1
  <2>3. v[n] = ValidateChar(x, ch) /\ c[n] = ConvertChar(d, ch, wine) /\ s[n] = ShellChar(t, ch)
    BY <1>2, <1>4
  <2> HIDE DEF x, d, t, ch
  <2>4. InStep(v[n], c[n])
    BY <2>1, <2>2, <2>3, CharInStep
  <2>5. ASSUME v[n].valid PROVE LikeShell(c[n], s[n])
    <3>1. x.valid
      BY <2>2, <2>3, <2>5 DEF ValidateChar, ValidateStates
    <3>2. ValidateChar(x, ch).valid /\ LikeShell(d, t)
      BY <2>1, <2>3, <2>5, <3>1
    <3> QED BY <2>1, <2>2, <2>3, <3>2, CharLikeShell
  <2> QED BY <2>1, <2>4, <2>5
<1>8. N \in S
  <2> HIDE DEF S
  <2>1. 0 .. N \subseteq S
    BY <1>1, <1>6, <1>7, BoundedInduction
  <2> QED BY <1>1, <2>1
<1> DEFINE d == c[N]
           t == s[N]
<1>9. d \in ConvertStates /\ t \in ShellStates /\ LikeShell(d, t)
  BY <1>1, <1>2, <1>4, <1>8
<1>10. /\ convert_exec_to_command(key, wine).thrown = d.thrown
       /\ convert_exec_to_command(key, wine).command
            = IF d.curr = <<>> THEN d.result ELSE Append(d.result, d.curr)
  BY <1>2 DEF convert_exec_to_command
<1>11. ShellCommands(key) = EndCommand(t).done
  BY <1>4 DEF ShellCommands
<1> HIDE DEF d, t
<1>12. /\ ~d.thrown /\ t.curr = d.curr /\ (~t.open => t.curr = <<>>) /\ t.done = <<>>
       /\ NotEmpty(t.words) = NotEmpty(d.result)
       /\ d.curr \in String /\ d.result \in Seq(String) /\ t.words \in Seq(String)
  BY <1>9 DEF LikeShell, ConvertStates, ShellStates
<1> DEFINE e == EndWord(t)
<1>13. e.done = <<>> /\ e.words = IF t.open THEN Append(t.words, t.curr) ELSE t.words
  BY <1>9, <1>12 DEF EndWord, ShellStates
<1>14. e \in ShellStates
  BY <1>9, EndWordType
<1>15. EndCommand(t) = [e EXCEPT !.done = Append(@, e.words), !.words = <<>>]
  BY DEF EndCommand
<1> HIDE DEF e
<1>16. EndCommand(t).done = Append(e.done, e.words)
  BY <1>14, <1>15 DEF ShellStates
<1>17. ShellCommands(key)[1] = e.words
  <2>1. Append(e.done, e.words) = <<e.words>>
    BY <1>13
  <2> QED BY <1>11, <1>16, <2>1
<1>18. /\ NotEmpty(Append(d.result, d.curr)) = AddWord(NotEmpty(d.result), d.curr)
       /\ NotEmpty(Append(t.words, d.curr)) = AddWord(NotEmpty(t.words), d.curr)
  BY <1>12, NotEmptyMore
<1>19. NotEmpty(e.words) = AddWord(NotEmpty(d.result), d.curr)
  <2>1. CASE t.open
    BY <1>12, <1>13, <1>18, <2>1
  <2>2. CASE ~t.open
    BY <1>12, <1>13, <2>2 DEF AddWord
  <2> QED BY <2>1, <2>2
<1>20. NotEmpty(convert_exec_to_command(key, wine).command) = AddWord(NotEmpty(d.result), d.curr)
  <2>1. CASE d.curr = <<>>
    BY <1>10, <2>1 DEF AddWord
  <2>2. CASE d.curr # <<>>
    BY <1>10, <1>18, <2>2
  <2> QED BY <2>1, <2>2
<1> QED
  BY <1>10, <1>12, <1>17, <1>19, <1>20

\* convert_exec_to_command() finds the words in a valid Exec key that a shell would, whatever
\* is quoted or escaped in it and however long it is, in both modes.
THEOREM AlwaysSplitsLikeShell == Spec => SplitsLikeShell
<1>1. Chosen /\ [Next]_vars =>
        [convert /\ validate_exec_key(app.exec) /\ ToSet(app.exec) \cap {SQ, "&&"} = {} =>
          NotEmpty(command') = NotEmpty(ShellCommands(app.exec)[1])]_vars
  <2> SUFFICES ASSUME Chosen, convert, validate_exec_key(app.exec),
                      ToSet(app.exec) \cap {SQ, "&&"} = {}
               PROVE  NotEmpty(command') = NotEmpty(ShellCommands(app.exec)[1])
    OBVIOUS
  <2> DEFINE key == app.exec
             wine == opt.wine_compatibility_mode
             converted == convert_exec_to_command(key, wine)
  <2>1. key \in String /\ wine \in BOOLEAN
    BY DEF Chosen, app, MenuApps, CustomApps, Opts
  <2>2. converted.thrown \/ command' = converted.command
    BY DEF convert
  <2>3. validate_exec_key(key) /\ ToSet(key) \cap {SQ, "&&"} = {}
    OBVIOUS
  <2> HIDE DEF key, wine
  <2>4. ~converted.thrown /\ NotEmpty(converted.command) = NotEmpty(ShellCommands(key)[1])
    BY <2>1, <2>3, KeyLikeShell
  <2> QED BY <2>2, <2>4 DEF key
<1> QED
  BY <1>1, ChosenInit, ChosenNext, PTL DEF Spec, SplitsLikeShell

-----------------------------------------------------------------------------
(* The custom terminal *)

\* An element, what is before it and what is behind it
LEMMA MiddleOf ==
    ASSUME NEW S, NEW a \in Seq(S), NEW y \in S, NEW b \in Seq(S), NEW c, c = (a \o <<y>>) \o b
    PROVE  /\ c \in Seq(S) /\ Len(a) + 1 \in DOMAIN c /\ c[Len(a) + 1] = y
           /\ SubSeq(c, 1, Len(a)) = a /\ SubSeq(c, Len(a) + 2, Len(c)) = b
<1> DEFINE m == Len(a)
           n == Len(b)
           one == <<y>>
           d == a \o one
<1>1. one \in Seq(S) /\ Len(one) = 1 /\ one[1] = y
  OBVIOUS
<1>2. m \in Nat /\ n \in Nat
  BY LenProperties
<1> HIDE DEF one
<1>3. /\ d \in Seq(S) /\ Len(d) = m + 1 /\ (\A i \in 1 .. m : d[i] = a[i]) /\ d[m + 1] = y
  <2>1. /\ d \in Seq(S) /\ Len(d) = Len(a) + Len(one) /\ (\A i \in 1 .. Len(a) : d[i] = a[i])
        /\ \A i \in 1 .. Len(one) : d[Len(a) + i] = one[i]
    <3>1. one \in Seq(S)
      BY <1>1
    <3> QED BY <3>1, Pieces
  <2>2. 1 \in 1 .. Len(one)
    BY <1>1
  <2> QED BY <1>1, <2>1, <2>2
<1>4. c = d \o b
  BY DEF one
<1> HIDE DEF d
<1>5. /\ c \in Seq(S) /\ Len(c) = Len(d) + n /\ (\A i \in 1 .. Len(d) : c[i] = d[i])
      /\ SubSeq(c, Len(d) + 1, Len(c)) = b
  <2>1. d \in Seq(S)
    BY <1>3
  <2>2. /\ d \o b \in Seq(S) /\ Len(d \o b) = Len(d) + Len(b)
        /\ (\A i \in 1 .. Len(d) : (d \o b)[i] = d[i])
    BY <2>1, Pieces
  <2>3. SubSeq(d \o b, Len(d) + 1, Len(d \o b)) = b
    BY <2>1, Behind
  <2> QED BY <1>4, <2>2, <2>3
<1> HIDE DEF m, n
<1>6. Len(c) = (m + 1) + n /\ DOMAIN c = 1 .. Len(c)
  BY <1>2, <1>3, <1>5, LenProperties
<1>7. m + 1 \in DOMAIN c /\ c[m + 1] = y
  <2>1. m + 1 \in 1 .. Len(d) /\ m + 1 \in 1 .. Len(c)
    BY <1>2, <1>3, <1>6
  <2> QED BY <1>3, <1>5, <1>6, <2>1
<1>8. SubSeq(c, 1, m) = a
  <2> DEFINE e == SubSeq(c, 1, m)
  <2>1. m <= Len(c) /\ m <= Len(d)
    BY <1>2, <1>3, <1>6
  <2>2. e \in Seq(S) /\ Len(e) = m /\ \A i \in 1 .. m : e[i] = c[i]
    BY <1>2, <1>5, <2>1
  <2> HIDE DEF e
  <2>3. \A i \in 1 .. m : e[i] = a[i]
    <3>1. \A i \in 1 .. m : i \in 1 .. Len(d)
      BY <1>2, <1>3
    <3> QED BY <1>3, <1>5, <2>2, <3>1
  <2>4. e = a
    BY <2>2, <2>3, SeqEqual DEF m
  <2> QED BY <2>4 DEF e
<1>9. Len(d) + 1 = m + 2
  BY <1>2, <1>3
<1> QED
  BY <1>5, <1>7, <1>8, <1>9 DEF m

LEMMA MiddleReplaced ==
    ASSUME NEW S, NEW a \in Seq(S), NEW y \in S, NEW z \in S, NEW b \in Seq(S)
    PROVE  [(a \o <<y>>) \o b EXCEPT ![Len(a) + 1] = z] = (a \o <<z>>) \o b
<1> DEFINE m == Len(a)
           c == (a \o <<y>>) \o b
           d == (a \o <<z>>) \o b
           e == [c EXCEPT ![m + 1] = z]
<1>1. /\ c \in Seq(S) /\ m + 1 \in DOMAIN c /\ SubSeq(c, 1, m) = a /\ SubSeq(c, m + 2, Len(c)) = b
  <2> DEFINE x == c
  <2>1. x = (a \o <<y>>) \o b
    OBVIOUS
  <2> HIDE DEF x
  <2>2. /\ x \in Seq(S) /\ m + 1 \in DOMAIN x /\ SubSeq(x, 1, m) = a /\ SubSeq(x, m + 2, Len(x)) = b
    BY <2>1, MiddleOf
  <2> QED BY <2>2 DEF x
<1>2. /\ d \in Seq(S) /\ m + 1 \in DOMAIN d /\ SubSeq(d, 1, m) = a /\ SubSeq(d, m + 2, Len(d)) = b
      /\ d[m + 1] = z
  <2> DEFINE x == d
  <2>1. x = (a \o <<z>>) \o b
    OBVIOUS
  <2> HIDE DEF x
  <2>2. /\ x \in Seq(S) /\ m + 1 \in DOMAIN x /\ SubSeq(x, 1, m) = a /\ SubSeq(x, m + 2, Len(x)) = b
        /\ x[m + 1] = z
    BY <2>1, MiddleOf
  <2> QED BY <2>2 DEF x
<1> HIDE DEF c, d
<1>3. m \in Nat
  BY LenProperties
<1>4. /\ Len(c) \in Nat /\ DOMAIN c = 1 .. Len(c) /\ Len(d) \in Nat /\ DOMAIN d = 1 .. Len(d)
  BY <1>1, <1>2, LenProperties
<1> HIDE DEF m
<1>5. ASSUME NEW x \in {c, d}
      PROVE  /\ Len(x) = (m + 1) + Len(b)
             /\ \A i \in 1 .. m : x[i] = a[i]
             /\ \A i \in 1 .. Len(b) : x[(m + 1) + i] = b[i]
  <2>1. /\ x \in Seq(S) /\ m + 1 \in 1 .. Len(x) /\ Len(x) \in Nat
        /\ SubSeq(x, 1, m) = a /\ SubSeq(x, m + 2, Len(x)) = b
    BY <1>1, <1>2, <1>4
  <2>2. /\ Len(SubSeq(x, m + 2, Len(x))) = (Len(x) - (m + 2)) + 1
        /\ \A i \in 1 .. (Len(x) - (m + 2)) + 1 : SubSeq(x, m + 2, Len(x))[i] = x[(m + 1) + i]
    BY <1>3, <2>1
  <2>3. \A i \in 1 .. m : SubSeq(x, 1, m)[i] = x[i]
    BY <1>3, <2>1
  <2>4. Len(b) = (Len(x) - (m + 2)) + 1 /\ Len(b) \in Nat
    BY <2>1, <2>2, LenProperties
  <2>5. Len(x) = (m + 1) + Len(b)
    BY <1>3, <2>1, <2>4
  <2> QED BY <2>1, <2>2, <2>3, <2>4, <2>5
<1>6. e \in Seq(S) /\ Len(e) = Len(c) /\ \A i \in 1 .. Len(c) : e[i] = IF i = m + 1 THEN z ELSE c[i]
  BY <1>1, <1>4, ExceptSeq
<1> HIDE DEF e
<1>7. Len(c) = Len(d)
  BY <1>5
<1>8. ASSUME NEW i \in 1 .. Len(d) PROVE e[i] = d[i]
  <2>1. Len(d) = (m + 1) + Len(b) /\ Len(b) \in Nat
    BY <1>5, LenProperties
  <2>2. CASE i = m + 1
    BY <1>2, <1>6, <1>7, <2>2
  <2>3. CASE i \in 1 .. m
    <3>1. i # m + 1
      BY <1>3, <2>3
    <3> QED BY <1>5, <1>6, <1>7, <2>3, <3>1
  <2>4. CASE i > m + 1
    <3> DEFINE k == i - (m + 1)
    <3>1. k \in 1 .. Len(b) /\ (m + 1) + k = i /\ i # m + 1
      BY <1>3, <1>4, <2>1, <2>4
    <3> HIDE DEF k
    <3>2. c[(m + 1) + k] = b[k] /\ d[(m + 1) + k] = b[k]
      BY <1>5, <3>1
    <3> QED BY <1>6, <1>7, <3>1, <3>2
  <2> QED BY <1>3, <1>4, <2>2, <2>3, <2>4
<1>9. e = d
  BY <1>2, <1>6, <1>7, <1>8, SeqEqual
<1> QED
  BY <1>9 DEF c, d, e, m

\* custom_term_assembler() for arguments and places
Filled(args, places, argv, name) ==
    LET filled[n \in 0 .. Len(places)] ==
            IF n = 0 THEN args
            ELSE ReplacePlaceholder(filled[n - 1], places[Len(places) + 1 - n], argv, name)
    IN  filled[Len(places)]

\* Its iterations
FillSteps(f, args, places, argv, name) ==
    /\ f[0] = args
    /\ \A n \in 1 .. Len(places) :
          f[n] = ReplacePlaceholder(f[n - 1], places[Len(places) + 1 - n], argv, name)

LEMMA FilledSteps ==
    ASSUME NEW T, NEW places \in Seq(T), NEW args, NEW argv, NEW name
    PROVE  \E f : /\ FillSteps(f, args, places, argv, name)
                  /\ Filled(args, places, argv, name) = f[Len(places)]
<1> DEFINE N == Len(places)
           F(x, n) == ReplacePlaceholder(x, places[N + 1 - n], argv, name)
           Solves(g) == g = [n \in 0 .. N |-> IF n = 0 THEN args ELSE F(g[n - 1], n)]
           filled == CHOOSE g : Solves(g)
<1>1. N \in Nat
  BY LenProperties
<1>2. Filled(args, places, argv, name) = filled[N]
  BY DEF Filled
<1>3. \A f : FillSteps(f, args, places, argv, name) <=>
               f[0] = args /\ \A n \in 1 .. N : f[n] = F(f[n - 1], n)
  BY DEF FillSteps
<1> HIDE DEF F, N
\* there is such a function
<1> DEFINE Upto(g, m) == g = [n \in 0 .. m |-> IF n = 0 THEN args ELSE F(g[n - 1], n)]
           S == {m \in 0 .. N : \E g : Upto(g, m)}
<1>4. 0 \in S
  <2> DEFINE g == [n \in 0 .. 0 |-> args]
  <2>1. g = [n \in 0 .. 0 |-> IF n = 0 THEN args ELSE F(g[n - 1], n)]
    OBVIOUS
  <2> HIDE DEF g
  <2>2. \E h : Upto(h, 0)
    BY <2>1
  <2> HIDE DEF Upto
  <2> QED BY <1>1, <2>2
<1>5. ASSUME NEW m \in 1 .. N, m - 1 \in S PROVE m \in S
  <2>1. PICK g : Upto(g, m - 1)
    BY <1>5
  <2> DEFINE h == [n \in 0 .. m |-> IF n < m THEN g[n] ELSE F(g[m - 1], m)]
  <2>2. m \in Nat /\ m >= 1
    OBVIOUS
  <2>3. \A n \in 0 .. m - 1 : g[n] = IF n = 0 THEN args ELSE F(g[n - 1], n)
    BY <2>1
  <2>4. ASSUME NEW n \in 0 .. m PROVE h[n] = IF n = 0 THEN args ELSE F(h[n - 1], n)
    <3>1. CASE n = 0
      <4>1. 0 \in 0 .. m - 1 /\ 0 < m
        BY <2>2
      <4> QED BY <2>3, <3>1, <4>1
    <3>2. CASE n \in 1 .. m - 1
      <4>1. n \in 0 .. m - 1 /\ n < m /\ n - 1 \in 0 .. m /\ n - 1 < m /\ n # 0
        BY <2>2, <3>2
      <4>2. h[n] = g[n] /\ h[n - 1] = g[n - 1]
        BY <4>1
      <4> QED BY <2>3, <4>1, <4>2
    <3>3. CASE n = m
      <4>1. m \in 0 .. m /\ ~(m < m) /\ m - 1 \in 0 .. m /\ m - 1 < m /\ m # 0
        BY <2>2
      <4>2. h[m] = F(g[m - 1], m) /\ h[m - 1] = g[m - 1]
        BY <4>1
      <4> QED BY <3>3, <4>1, <4>2
    <3> QED BY <2>2, <3>1, <3>2, <3>3
  <2>5. DOMAIN h = 0 .. m /\ h = [n \in 0 .. m |-> h[n]]
    OBVIOUS
  <2> HIDE DEF h
  <2>6. h = [n \in 0 .. m |-> IF n = 0 THEN args ELSE F(h[n - 1], n)]
    BY <2>4, <2>5
  <2>7. \E k : Upto(k, m)
    BY <2>6
  <2> HIDE DEF Upto
  <2> QED BY <2>7
<1>6. N \in S
  <2> HIDE DEF S
  <2>1. 0 .. N \subseteq S
    BY <1>1, <1>4, <1>5, BoundedInduction
  <2> QED BY <1>1, <2>1
<1>7. \E g : Solves(g)
  BY <1>6
<1>8. Solves(filled)
  <2> HIDE DEF Solves
  <2> QED BY <1>7
<1> HIDE DEF filled
<1>9. filled[0] = args /\ \A n \in 1 .. N : filled[n] = F(filled[n - 1], n)
  BY <1>1, <1>8
<1>10. FillSteps(filled, args, places, argv, name)
  BY <1>3, <1>9
<1> QED
  BY <1>2, <1>10 DEF N

\* No place is left as it is, and the last one is the first to be replaced.
LEMMA LastPlaceFirst ==
    ASSUME NEW T, NEW places \in Seq(T), NEW place \in T, NEW args, NEW argv, NEW name
    PROVE  /\ Filled(args, <<>>, argv, name) = args
           /\ Filled(args, Append(places, place), argv, name)
                = Filled(ReplacePlaceholder(args, place, argv, name), places, argv, name)
<1>1. Filled(args, <<>>, argv, name) = args
  <2> DEFINE none == <<>>
  <2>1. none \in Seq(T) /\ Len(none) = 0
    OBVIOUS
  <2> HIDE DEF none
  <2>2. PICK f : /\ FillSteps(f, args, none, argv, name)
                 /\ Filled(args, none, argv, name) = f[Len(none)]
    BY <2>1, FilledSteps
  <2>3. f[0] = args
    BY <2>2 DEF FillSteps
  <2> QED BY <2>1, <2>2, <2>3 DEF none
<1> DEFINE N == Len(places)
           more == Append(places, place)
           next == ReplacePlaceholder(args, place, argv, name)
<1>2. /\ N \in Nat /\ more \in Seq(T) /\ Len(more) = N + 1 /\ more[N + 1] = place
      /\ \A i \in 1 .. N : more[i] = places[i]
  BY AppendProperties, LenProperties
<1> HIDE DEF more, next
<1>3. PICK f : /\ FillSteps(f, args, more, argv, name)
               /\ Filled(args, more, argv, name) = f[Len(more)]
  BY <1>2, FilledSteps
<1>4. PICK g : /\ FillSteps(g, next, places, argv, name)
               /\ Filled(next, places, argv, name) = g[N]
  BY FilledSteps
<1>5. /\ f[0] = args /\ g[0] = next
      /\ \A n \in 1 .. N + 1 : f[n] = ReplacePlaceholder(f[n - 1], more[(N + 1) + 1 - n], argv, name)
      /\ \A n \in 1 .. N : g[n] = ReplacePlaceholder(g[n - 1], places[N + 1 - n], argv, name)
  BY <1>2, <1>3, <1>4 DEF FillSteps
<1> HIDE DEF N
<1> DEFINE S == {n \in 0 .. N : f[n + 1] = g[n]}
<1>6. 0 \in S
  <2>1. 1 \in 1 .. N + 1 /\ 1 - 1 = 0 /\ (N + 1) + 1 - 1 = N + 1 /\ 0 + 1 = 1 /\ 0 \in 0 .. N
    BY <1>2
  <2>2. f[1] = ReplacePlaceholder(f[1 - 1], more[(N + 1) + 1 - 1], argv, name)
    BY <1>5, <2>1
  <2>3. f[1] = next
    BY <1>2, <1>5, <2>1, <2>2 DEF next
  <2> QED BY <1>5, <2>1, <2>3
<1>7. ASSUME NEW n \in 1 .. N, n - 1 \in S PROVE n \in S
  <2>1. /\ n + 1 \in 1 .. N + 1 /\ (n + 1) - 1 = n /\ (N + 1) + 1 - (n + 1) = N + 1 - n
        /\ N + 1 - n \in 1 .. N /\ n \in 0 .. N /\ (n - 1) + 1 = n
    BY <1>2
  <2>2. f[n + 1] = ReplacePlaceholder(f[(n + 1) - 1], more[(N + 1) + 1 - (n + 1)], argv, name)
    BY <1>5, <2>1
  <2>3. f[n] = g[n - 1]
    BY <1>7, <2>1
  <2>4. more[N + 1 - n] = places[N + 1 - n]
    BY <1>2, <2>1
  <2>5. f[n + 1] = ReplacePlaceholder(g[n - 1], places[N + 1 - n], argv, name)
    BY <2>1, <2>2, <2>3, <2>4
  <2> QED BY <1>5, <2>1, <2>5
<1>8. f[N + 1] = g[N]
  <2> HIDE DEF S
  <2>1. 0 .. N \subseteq S
    BY <1>2, <1>6, <1>7, BoundedInduction
  <2> QED BY <1>2, <2>1 DEF S
<1>9. Filled(args, more, argv, name) = Filled(next, places, argv, name)
  BY <1>2, <1>3, <1>4, <1>8
<1> QED
  BY <1>1, <1>9 DEF more, next

\* The placeholders that may stand within an argument
TextPlaceholders == {"{name}", "{cmdline*}", "{script}"}

IsCommand(ch) == ch = "{cmdline@}"

\* The text a placeholder within an argument stands for
PlaceholderText(ch, argv, name) ==
    CASE ch = "{name}" -> name
      [] ch = "{cmdline*}" -> convert_argv_to_string(argv)
      [] ch = "{script}" -> <<"script">>

LEMMA OneCharString ==
    ASSUME NEW c \in Chars
    PROVE  <<c>> \in String
BY DEF String

LEMMA PlaceholderTextType ==
    ASSUME NEW ch \in TextPlaceholders, NEW argv \in Seq(String),
           NEW name \in String
    PROVE  PlaceholderText(ch, argv, name) \in String
<1> DEFINE text == convert_argv_to_string(argv)
<1>1. text \in String
  BY StartIsFresh, CommandLineRead
<1> HIDE DEF text
<1>2. <<"script">> \in String
  <2>1. "script" \in Chars
    BY LiteralChars
  <2> QED BY <2>1, OneCharString, Zenon
<1>3. ch = "{name}" \/ ch = "{cmdline*}" \/ ch = "{script}"
  BY DEF TextPlaceholders
<1>4. PlaceholderText(ch, argv, name) \in {name, text, <<"script">>}
  BY <1>3 DEF PlaceholderText, text
<1> QED BY <1>1, <1>2, <1>4

\* A text in an argument, between what is before and behind it
WithText(a, u, t, x, b) == (a \o <<(u \o t) \o x>>) \o b

WithChar(a, u, ch, x, b) == WithText(a, u, <<ch>>, x, b)

\* The place of that text
IsPlace(place, a, u) == place.arg = Len(a) + 1 /\ place.pos = Len(u) + 1

\* A placeholder within an argument is replaced by its text, an argument of its own by the
\* arguments of the command.
LEMMA PlaceReplaced ==
    ASSUME NEW a \in Seq(String), NEW u \in String, NEW ch \in Chars, NEW x \in String,
           NEW b \in Seq(String), NEW argv \in Seq(String), NEW name \in String,
           NEW place, IsPlace(place, a, u)
    PROVE  /\ ch \in TextPlaceholders =>
                ReplacePlaceholder(WithChar(a, u, ch, x, b), place, argv, name)
                  = WithText(a, u, PlaceholderText(ch, argv, name), x, b)
           /\ IsCommand(ch) =>
                ReplacePlaceholder(WithChar(a, u, ch, x, b), place, argv, name) = (a \o argv) \o b
<1> DEFINE y == (u \o <<ch>>) \o x
           c == (a \o <<y>>) \o b
           text == PlaceholderText(ch, argv, name)
           z == (u \o text) \o x
<1>1. place.arg = Len(a) + 1 /\ place.pos = Len(u) + 1
  BY DEF IsPlace
<1>2. y \in String /\ y[Len(u) + 1] = ch /\ SubSeq(y, 1, Len(u)) = u /\ SubSeq(y, Len(u) + 2, Len(y)) = x
  <2>1. u \in Seq(Chars) /\ x \in Seq(Chars)
    BY DEF String
  <2>2. y = (u \o <<ch>>) \o x
    OBVIOUS
  <2> HIDE DEF y
  <2>3. y \in Seq(Chars) /\ y[Len(u) + 1] = ch /\ SubSeq(y, 1, Len(u)) = u /\ SubSeq(y, Len(u) + 2, Len(y)) = x
    BY <2>1, <2>2, MiddleOf
  <2> QED BY <2>3 DEF String
<1> HIDE DEF y
<1>3. /\ c[Len(a) + 1] = y /\ SubSeq(c, 1, Len(a)) = a /\ SubSeq(c, Len(a) + 2, Len(c)) = b
  <2>1. c = (a \o <<y>>) \o b
    OBVIOUS
  <2> HIDE DEF c
  <2> QED BY <1>2, <2>1, MiddleOf
<1>4. Len(a) \in Nat /\ Len(u) \in Nat
  BY LenProperties DEF String
<1>5. /\ (Len(a) + 1) - 1 = Len(a) /\ (Len(a) + 1) + 1 = Len(a) + 2
      /\ (Len(u) + 1) - 1 = Len(u) /\ (Len(u) + 1) + 1 = Len(u) + 2
  BY <1>4
<1> DEFINE m == Len(a) + 1
           k == Len(u) + 1
<1>6. /\ place.arg = m /\ place.pos = k /\ c[m] = y /\ y[k] = ch
      /\ SubSeq(y, 1, k - 1) = u /\ SubSeq(y, k + 1, Len(y)) = x
      /\ SubSeq(c, 1, m - 1) = a /\ SubSeq(c, m + 1, Len(c)) = b
  BY <1>1, <1>2, <1>3, <1>5
<1>7. ASSUME NEW t \in String PROVE [c EXCEPT ![m] = (u \o t) \o x] = (a \o <<(u \o t) \o x>>) \o b
  <2> DEFINE s == (u \o t) \o x
  <2>1. u \o t \in String
    BY Pieces DEF String
  <2>2. s \in String
    BY <2>1, Pieces DEF String
  <2> HIDE DEF s
  <2>3. [(a \o <<y>>) \o b EXCEPT ![Len(a) + 1] = s] = (a \o <<s>>) \o b
    <3>1. y \in String
      BY <1>2
    <3> QED BY <2>2, <3>1, MiddleReplaced
  <2> QED BY <2>3 DEF s
<1> HIDE DEF c, m, k
<1>8. ASSUME ch \in TextPlaceholders
      PROVE  ReplacePlaceholder(c, place, argv, name) = (a \o <<z>>) \o b
  <2>1. text \in String
    BY <1>8, PlaceholderTextType
  <2>2. ch = "{name}" \/ ch = "{cmdline*}" \/ ch = "{script}"
    BY <1>8 DEF TextPlaceholders
  <2> DEFINE quoted == convert_argv_to_string(argv)
  <2>3. text = (CASE ch = "{name}" -> name [] ch = "{cmdline*}" -> quoted [] ch = "{script}" -> <<"script">>)
    BY DEF PlaceholderText
  <2>4. /\ ch = "{name}" => text = name
        /\ ch = "{cmdline*}" => text = quoted
        /\ ch = "{script}" => text = <<"script">>
    BY <2>2, <2>3
  <2> HIDE DEF text
  <2>5. ReplacePlaceholder(c, place, argv, name) = [c EXCEPT ![m] = (u \o text) \o x]
    <3>1. CASE ch = "{name}"
      <4>1. ReplacePlaceholder(c, place, argv, name) = [c EXCEPT ![m] = (u \o name) \o x]
        BY <1>6, <3>1 DEF ReplacePlaceholder, ReplaceAt
      <4> QED BY <2>4, <3>1, <4>1
    <3>2. CASE ch = "{cmdline*}"
      <4>1. ReplacePlaceholder(c, place, argv, name) = [c EXCEPT ![m] = (u \o quoted) \o x]
        BY <1>6, <3>2 DEF ReplacePlaceholder, ReplaceAt
      <4> QED BY <2>4, <3>2, <4>1
    <3>3. CASE ch = "{script}"
      <4>1. ReplacePlaceholder(c, place, argv, name) = [c EXCEPT ![m] = (u \o <<"script">>) \o x]
        BY <1>6, <3>3 DEF ReplacePlaceholder, ReplaceAt
      <4> QED BY <2>4, <3>3, <4>1
    <3> QED BY <2>2, <3>1, <3>2, <3>3
  <2> QED BY <1>7, <2>1, <2>5
<1>9. ASSUME IsCommand(ch)
      PROVE  ReplacePlaceholder(c, place, argv, name) = (a \o argv) \o b
  BY <1>6, <1>9 DEF ReplacePlaceholder, IsCommand
<1>10. WithChar(a, u, ch, x, b) = c /\ WithText(a, u, text, x, b) = (a \o <<z>>) \o b
  BY DEF c, y, WithText, WithChar
<1> HIDE DEF z, text
<1> QED
  BY <1>8, <1>9, <1>10 DEF text

\* Between two arguments of --term: what custom_term_assembler() makes of the arguments before,
\* whatever follows them
NoWord(places, args, written, argv, name) ==
    \A b \in Seq(String) : Filled(args \o b, places, argv, name) = written \o b

\* Within an argument, whatever follows
InWord(places, args, curr, written, word, argv, name) ==
    \A x \in String, b \in Seq(String) :
        Filled((args \o <<curr \o x>>) \o b, places, argv, name) = (written \o <<word \o x>>) \o b

LEMMA WordBegun ==
    ASSUME NEW places, NEW args \in Seq(String), NEW written \in Seq(String), NEW argv, NEW name,
           NoWord(places, args, written, argv, name)
    PROVE  InWord(places, args, <<>>, written, <<>>, argv, name)
<1> SUFFICES ASSUME NEW x \in String, NEW b \in Seq(String)
             PROVE  Filled((args \o <<(<<>> \o x)>>) \o b, places, argv, name)
                      = (written \o <<(<<>> \o x)>>) \o b
  BY DEF InWord
<1>1. <<>> \o x = x
  BY ConcatEmptySeq DEF String
<1> DEFINE one == <<x>>
<1>2. one \in Seq(String)
  OBVIOUS
<1> HIDE DEF one
<1>3. one \o b \in Seq(String)
  BY <1>2, Pieces
<1>4. (args \o one) \o b = args \o (one \o b) /\ (written \o one) \o b = written \o (one \o b)
  <2>1. (args \o one) \o b = args \o (one \o b)
    BY <1>2, ConcatAssociative
  <2>2. (written \o one) \o b = written \o (one \o b)
    BY <1>2, ConcatAssociative
  <2> QED BY <2>1, <2>2
<1>5. Filled(args \o (one \o b), places, argv, name) = written \o (one \o b)
  BY <1>3 DEF NoWord
<1>6. Filled((args \o one) \o b, places, argv, name) = (written \o one) \o b
  BY <1>4, <1>5
<1> QED
  BY <1>1, <1>6 DEF one

\* More text that stands for itself
LEMMA WordGrown ==
    ASSUME NEW places, NEW args, NEW curr \in String, NEW written, NEW word \in String,
           NEW argv, NEW name, NEW t \in String,
           InWord(places, args, curr, written, word, argv, name)
    PROVE  InWord(places, args, curr \o t, written, word \o t, argv, name)
<1> SUFFICES ASSUME NEW x \in String, NEW b \in Seq(String)
             PROVE  Filled((args \o <<(curr \o t) \o x>>) \o b, places, argv, name)
                      = (written \o <<(word \o t) \o x>>) \o b
  BY DEF InWord
<1>1. t \o x \in String
  BY Pieces DEF String
<1>2. (curr \o t) \o x = curr \o (t \o x) /\ (word \o t) \o x = word \o (t \o x)
  <2>1. (curr \o t) \o x = curr \o (t \o x)
    BY ConcatAssociative, SMTT(30) DEF String
  <2>2. (word \o t) \o x = word \o (t \o x)
    BY ConcatAssociative DEF String
  <2> QED BY <2>1, <2>2
<1>3. Filled((args \o <<curr \o (t \o x)>>) \o b, places, argv, name)
        = (written \o <<word \o (t \o x)>>) \o b
  BY <1>1 DEF InWord
<1> QED
  BY <1>2, <1>3

LEMMA WordEnded ==
    ASSUME NEW places, NEW args \in Seq(String), NEW curr \in String, NEW written \in Seq(String),
           NEW word \in String, NEW argv, NEW name,
           InWord(places, args, curr, written, word, argv, name)
    PROVE  NoWord(places, Append(args, curr), Append(written, word), argv, name)
<1> SUFFICES ASSUME NEW b \in Seq(String)
             PROVE  Filled(Append(args, curr) \o b, places, argv, name) = Append(written, word) \o b
  BY DEF NoWord
<1>1. Append(args, curr) = args \o <<curr>> /\ Append(written, word) = written \o <<word>>
  BY AppendIsConcat
<1>2. curr \o <<>> = curr /\ word \o <<>> = word
  BY ConcatEmptySeq DEF String
<1>3. <<>> \in String
  BY DEF String
<1>4. Filled((args \o <<curr \o <<>> >>) \o b, places, argv, name)
        = (written \o <<word \o <<>> >>) \o b
  BY <1>3 DEF InWord
<1> QED
  BY <1>1, <1>2, <1>4

Places == [arg: Nat, pos: Nat]

\* A placeholder within an argument: its text is there, wherever the others are
LEMMA WordFilled ==
    ASSUME NEW places \in Seq(Places), NEW args \in Seq(String), NEW curr \in String,
           NEW written \in Seq(String), NEW word \in String, NEW argv \in Seq(String),
           NEW name \in String, NEW ch \in Chars, ch \in TextPlaceholders,
           NEW place \in Places, IsPlace(place, args, curr),
           InWord(places, args, curr, written, word, argv, name)
    PROVE  InWord(Append(places, place), args, curr \o <<ch>>, written,
                  word \o PlaceholderText(ch, argv, name), argv, name)
<1> DEFINE text == PlaceholderText(ch, argv, name)
<1> SUFFICES ASSUME NEW x \in String, NEW b \in Seq(String)
             PROVE  Filled((args \o <<(curr \o <<ch>>) \o x>>) \o b, Append(places, place), argv, name)
                      = (written \o <<(word \o text) \o x>>) \o b
  BY DEF InWord
<1>1. text \in String
  BY PlaceholderTextType
<1>3. Filled((args \o <<(curr \o <<ch>>) \o x>>) \o b, Append(places, place), argv, name)
        = Filled(ReplacePlaceholder((args \o <<(curr \o <<ch>>) \o x>>) \o b, place, argv, name),
                 places, argv, name)
  <2> DEFINE all == (args \o <<(curr \o <<ch>>) \o x>>) \o b
  <2> HIDE DEF all
  <2>1. Filled(all, Append(places, place), argv, name)
          = Filled(ReplacePlaceholder(all, place, argv, name), places, argv, name)
    BY LastPlaceFirst
  <2> QED BY <2>1 DEF all
<1>4. ReplacePlaceholder((args \o <<(curr \o <<ch>>) \o x>>) \o b, place, argv, name)
        = (args \o <<(curr \o text) \o x>>) \o b
  <2>2. ReplacePlaceholder(WithChar(args, curr, ch, x, b), place, argv, name)
          = WithText(args, curr, text, x, b)
    BY PlaceReplaced
  <2> QED BY <2>2 DEF WithText, WithChar
<1> HIDE DEF text
<1>5. InWord(places, args, curr \o text, written, word \o text, argv, name)
  BY <1>1, WordGrown
<1>6. Filled((args \o <<(curr \o text) \o x>>) \o b, places, argv, name)
        = (written \o <<(word \o text) \o x>>) \o b
  BY <1>5 DEF InWord
<1> QED
  BY <1>3, <1>4, <1>6

\* {cmdline@}, which is an argument of its own
LEMMA CommandFilled ==
    ASSUME NEW places \in Seq(Places), NEW args \in Seq(String), NEW written \in Seq(String),
           NEW argv \in Seq(String), NEW name \in String, NEW ch \in Chars, IsCommand(ch),
           NEW place \in Places, IsPlace(place, args, <<>>),
           NoWord(places, args, written, argv, name)
    PROVE  NoWord(Append(places, place), Append(args, <<ch>>), written \o argv, argv, name)
<1> DEFINE own == <<ch>>
           none == <<>>
<1>1. /\ own \in String /\ none \in String /\ none \in Seq(String) /\ Len(none) = 0
      /\ (none \o own) \o none = own
  <2>1. own \in String /\ none \in String /\ none \in Seq(String) /\ Len(none) = 0
    <3>1. own \in String
      BY OneCharString, Zenon
    <3>2. <<>> \in Seq(Chars) /\ <<>> \in Seq(String) /\ Len(<<>>) = 0
      OBVIOUS
    <3> HIDE DEF own
    <3> QED BY <3>1, <3>2 DEF String
  <2>2. own \in Seq(Chars)
    BY <2>1 DEF String
  <2> HIDE DEF own
  <2>3. <<>> \o own = own /\ own \o <<>> = own
    BY <2>2, ConcatEmptySeq
  <2> QED BY <2>1, <2>3
<1> SUFFICES ASSUME NEW b \in Seq(String)
             PROVE  Filled(Append(args, own) \o b, Append(places, place), argv, name)
                      = (written \o argv) \o b
  BY DEF NoWord
<1> DEFINE all == (args \o <<own>>) \o b
<1>3. ReplacePlaceholder(all, place, argv, name) = (args \o argv) \o b
  <2>1. WithChar(args, none, ch, none, b) = all
    BY <1>1 DEF WithText, WithChar
  <2> HIDE DEF none, all
  <2>2. none \in String
    BY <1>1
  <2>3. IsPlace(place, args, none)
    BY DEF none
  <2>4. ReplacePlaceholder(WithChar(args, none, ch, none, b), place, argv, name)
          = (args \o argv) \o b
    BY <2>2, <2>3, PlaceReplaced, SMTT(30)
  <2> QED BY <2>1, <2>4
<1> HIDE DEF own
<1>4. Append(args, own) \o b = all
  BY <1>1, AppendIsConcat
<1> HIDE DEF all
<1>5. Filled(all, Append(places, place), argv, name)
        = Filled(ReplacePlaceholder(all, place, argv, name), places, argv, name)
  BY LastPlaceFirst
<1>6. argv \o b \in Seq(String)
  BY Pieces
<1>7. (args \o argv) \o b = args \o (argv \o b) /\ (written \o argv) \o b = written \o (argv \o b)
  <2>1. (args \o argv) \o b = args \o (argv \o b)
    BY ConcatAssociative
  <2>2. (written \o argv) \o b = written \o (argv \o b)
    BY ConcatAssociative, SMTT(30)
  <2> QED BY <2>1, <2>2
<1>8. Filled(args \o (argv \o b), places, argv, name) = written \o (argv \o b)
  BY <1>6 DEF NoWord
<1> QED
  BY <1>3, <1>4, <1>5, <1>7, <1>8

\* The states of the three readers of --term
TermStates == [escaped: BOOLEAN, had_space: BOOLEAN, valid: BOOLEAN]
ParseStates == [args: Seq(String), curr: String, escaped: BOOLEAN, placeholders: Seq(Places),
                aborted: BOOLEAN]
WrittenStates == [args: Seq(String), curr: String, open: BOOLEAN, escaped: BOOLEAN]

LEMMA ValidateTermCharType ==
    ASSUME NEW s \in TermStates, NEW term, NEW i
    PROVE  ValidateTermChar(s, term, i) \in TermStates
BY DEF TermStates, ValidateTermChar

\* Where the next character of an argument is
NextPlace(s) == [arg |-> Len(s.args) + 1, pos |-> Len(s.curr) + 1]

LEMMA NextPlaceType ==
    ASSUME NEW s \in ParseStates
    PROVE  NextPlace(s) \in Places /\ IsPlace(NextPlace(s), s.args, s.curr)
<1>1. Len(s.args) \in Nat /\ Len(s.curr) \in Nat
  BY LenProperties DEF ParseStates, String
<1> QED
  BY <1>1 DEF NextPlace, Places, IsPlace

LEMMA ParseTermCharType ==
    ASSUME NEW s \in ParseStates, NEW ch \in Chars
    PROVE  ParseTermChar(s, ch) \in ParseStates
<1> DEFINE place == [arg |-> Len(s.args) + 1, pos |-> Len(s.curr) + 1]
<1>1. place \in Places
  BY NextPlaceType DEF NextPlace
<1> HIDE DEF place
<1>2. /\ Append(s.curr, ch) \in String /\ Append(s.args, s.curr) \in Seq(String)
      /\ <<>> \in String /\ Append(s.placeholders, place) \in Seq(Places)
  BY <1>1, AppendProperties DEF ParseStates, String
<1> DEFINE Add == [s EXCEPT !.curr = Append(@, ch), !.escaped = FALSE]
<1>3. /\ Add \in ParseStates
      /\ [s EXCEPT !.aborted = TRUE] \in ParseStates
      /\ [s EXCEPT !.escaped = TRUE] \in ParseStates
      /\ [s EXCEPT !.args = Append(@, s.curr), !.curr = <<>>] \in ParseStates
      /\ [Add EXCEPT !.placeholders = Append(@, place)] \in ParseStates
  BY <1>2 DEF ParseStates
<1>4. ParseTermChar(s, ch) \in {Add, [s EXCEPT !.aborted = TRUE], [s EXCEPT !.escaped = TRUE], s,
         [s EXCEPT !.args = Append(@, s.curr), !.curr = <<>>],
         [Add EXCEPT !.placeholders = Append(@, place)]}
  BY DEF ParseTermChar, place
<1> QED
  BY <1>3, <1>4

LEMMA WrittenCharType ==
    ASSUME NEW s \in WrittenStates, NEW ch \in Chars, NEW argv \in Seq(String), app.name \in String
    PROVE  WrittenChar(s, ch, argv) \in WrittenStates
<1> DEFINE text == convert_argv_to_string(argv)
           Add(string) == [s EXCEPT !.curr = @ \o string, !.escaped = FALSE, !.open = TRUE]
<1>1. text \in String /\ <<ch>> \in String /\ <<"script">> \in String
  <2>1. text \in String
    BY StartIsFresh, CommandLineRead
  <2>2. "script" \in Chars
    BY LiteralChars
  <2>3. <<ch>> \in String
    BY OneCharString, Zenon
  <2>4. <<"script">> \in String
    BY <2>2, OneCharString, Zenon
  <2> QED BY <2>1, <2>3, <2>4
<1>2. \A t \in String : Add(t) \in WrittenStates
  <2> TAKE t \in String
  <2>1. s.curr \o t \in String
    BY Pieces DEF WrittenStates, String
  <2> QED BY <2>1 DEF WrittenStates
<1>3. [s EXCEPT !.escaped = TRUE] \in WrittenStates
  BY DEF WrittenStates
<1>4. [s EXCEPT !.args = Append(@, s.curr), !.curr = <<>>, !.open = FALSE] \in WrittenStates
  <2>1. Append(s.args, s.curr) \in Seq(String) /\ <<>> \in String
    BY AppendProperties DEF WrittenStates, String
  <2> QED BY <2>1 DEF WrittenStates
<1>5. [s EXCEPT !.args = @ \o argv] \in WrittenStates
  <2>1. s.args \o argv \in Seq(String)
    BY Pieces DEF WrittenStates
  <2> QED BY <2>1 DEF WrittenStates
<1>6. WrittenChar(s, ch, argv) \in {Add(<<ch>>), Add(app.name), Add(text), Add(<<"script">>), s,
         [s EXCEPT !.escaped = TRUE], [s EXCEPT !.args = @ \o argv],
         [s EXCEPT !.args = Append(@, s.curr), !.curr = <<>>, !.open = FALSE]}
  BY DEF WrittenChar, text
<1> HIDE DEF Add, text
<1> QED
  BY <1>1, <1>2, <1>3, <1>4, <1>5, <1>6

-----------------------------------------------------------------------------
\* What a valid character makes of the three states

ParsedMore(p, q, ch, places) ==
    /\ q.args = p.args /\ q.curr = p.curr \o <<ch>> /\ q.placeholders = places
    /\ q.escaped = FALSE /\ q.aborted = p.aborted

WrittenMore(w, x, t) ==
    /\ x.args = w.args /\ x.curr = w.curr \o t /\ x.open = TRUE /\ x.escaped = FALSE

\* A character that stands for itself
Itself(v, p, w, v1, p1, w1, ch) ==
    /\ v.escaped \/ (ch # SP /\ ~IsCommand(ch))
    /\ v1.escaped = FALSE /\ v1.had_space = FALSE
    /\ ParsedMore(p, p1, ch, p.placeholders) /\ WrittenMore(w, w1, <<ch>>)

Escapes(v, p, w, v1, p1, w1, ch) ==
    /\ v.escaped = FALSE /\ ch = BS
    /\ v1.escaped = TRUE /\ v1.had_space = FALSE
    /\ p1 = [p EXCEPT !.escaped = TRUE] /\ w1 = [w EXCEPT !.escaped = TRUE]

Ends(v, p, w, v1, p1, w1, ch) ==
    /\ v.escaped = FALSE /\ ch = SP
    /\ v1.escaped = FALSE /\ v1.had_space = TRUE
    /\ p1 = IF p.curr = <<>> THEN p ELSE [p EXCEPT !.args = Append(@, p.curr), !.curr = <<>>]
    /\ w1 = IF w.open THEN [w EXCEPT !.args = Append(@, w.curr), !.curr = <<>>, !.open = FALSE] ELSE w

Stands(v, p, w, v1, p1, w1, ch, argv) ==
    /\ v.escaped = FALSE /\ ch \in TextPlaceholders
    /\ v1.escaped = FALSE /\ v1.had_space = FALSE
    /\ ParsedMore(p, p1, ch, Append(p.placeholders, NextPlace(p)))
    /\ WrittenMore(w, w1, PlaceholderText(ch, argv, app.name))

Spreads(v, p, w, v1, p1, w1, ch, argv, term, n) ==
    /\ v.escaped = FALSE /\ IsCommand(ch) /\ Separate(term, n, v.had_space)
    /\ v1.escaped = FALSE /\ v1.had_space = FALSE
    /\ ParsedMore(p, p1, ch, Append(p.placeholders, NextPlace(p)))
    /\ w1 = [w EXCEPT !.args = @ \o argv]

LEMMA TermCharCases ==
    ASSUME NEW v \in TermStates, NEW p \in ParseStates, NEW w \in WrittenStates, NEW term \in String,
           NEW n \in 1 .. Len(term), NEW argv \in Seq(String), app.name \in String,
           NEW ch \in Chars, ch = term[n], NEW v1, NEW p1, NEW w1,
           v1 = ValidateTermChar(v, term, n), p1 = ParseTermChar(p, ch), w1 = WrittenChar(w, ch, argv),
           v1.valid, p.escaped = v.escaped, w.escaped = v.escaped
    PROVE  /\ v.valid
           /\ \/ Itself(v, p, w, v1, p1, w1, ch) \/ Escapes(v, p, w, v1, p1, w1, ch)
              \/ Ends(v, p, w, v1, p1, w1, ch) \/ Stands(v, p, w, v1, p1, w1, ch, argv)
              \/ Spreads(v, p, w, v1, p1, w1, ch, argv, term, n)
<1> DEFINE text == convert_argv_to_string(argv)
           name == app.name
           u == p.curr \o <<ch>>
           place == [arg |-> Len(p.args) + 1, pos |-> Len(p.curr) + 1]
           P == p.placeholders
           Q == Append(p.placeholders, place)
<1>1. p.escaped = v.escaped /\ w.escaped = v.escaped /\ v.escaped \in BOOLEAN
  BY DEF TermStates
<1>2. /\ v1.valid => v.valid
      /\ v.escaped => /\ v1.escaped = FALSE /\ v1.had_space = FALSE
                      /\ v1.valid => ch \in {BS, SP, "{"} \cup Placeholders
      /\ ~v.escaped => /\ v1.escaped = (ch = BS) /\ v1.had_space = (ch = SP)
                       /\ v1.valid => ch # "{" /\ (ch = "{cmdline@}" => Separate(term, n, v.had_space))
  BY DEF ValidateTermChar, TermStates
<1>3. Append(p.curr, ch) = u
  BY AppendIsConcat DEF ParseStates, String
<1>4. /\ p.escaped /\ ch \in {BS, SP, "{"} \cup Placeholders => ParsedMore(p, p1, ch, P)
      /\ ~p.escaped /\ ch = BS => p1 = [p EXCEPT !.escaped = TRUE]
      /\ ~p.escaped /\ ch = SP =>
            p1 = IF p.curr = <<>> THEN p ELSE [p EXCEPT !.args = Append(@, p.curr), !.curr = <<>>]
      /\ ~p.escaped /\ ch \in Placeholders => ParsedMore(p, p1, ch, Q)
      /\ ~p.escaped /\ ch \notin {BS, SP, "{"} \cup Placeholders => ParsedMore(p, p1, ch, P)
  <2> DEFINE Add == [p EXCEPT !.curr = Append(@, ch), !.escaped = FALSE]
             More == [Add EXCEPT !.placeholders = Append(@, place)]
  <2>1. ParsedMore(p, Add, ch, P) /\ ParsedMore(p, More, ch, Q)
    <3>1. /\ Add.args = p.args /\ Add.curr = Append(p.curr, ch) /\ Add.placeholders = P
          /\ Add.escaped = FALSE /\ Add.aborted = p.aborted
      BY DEF ParseStates
    <3>2. /\ More.args = p.args /\ More.curr = Append(p.curr, ch) /\ More.placeholders = Q
          /\ More.escaped = FALSE /\ More.aborted = p.aborted
      BY DEF ParseStates
    <3> HIDE DEF Add, More, Q, P, u
    <3>3. /\ Add.curr = u /\ More.curr = u
      BY <1>3, <3>1, <3>2
    <3> QED BY <3>1, <3>2, <3>3 DEF ParsedMore, u
  <2>2. /\ p.escaped /\ ch \in {BS, SP, "{"} \cup Placeholders => p1 = Add
        /\ ~p.escaped /\ ch = BS => p1 = [p EXCEPT !.escaped = TRUE]
        /\ ~p.escaped /\ ch = SP =>
              p1 = IF p.curr = <<>> THEN p ELSE [p EXCEPT !.args = Append(@, p.curr), !.curr = <<>>]
        /\ ~p.escaped /\ ch \in Placeholders => p1 = More
        /\ ~p.escaped /\ ch \notin {BS, SP, "{"} \cup Placeholders => p1 = Add
    BY DEF ParseTermChar, Placeholders, BS, SP
  <2> HIDE DEF Add, More, Q, P
  <2> QED BY <2>1, <2>2
<1>5. /\ w.escaped => WrittenMore(w, w1, <<ch>>)
      /\ ~w.escaped /\ ch = BS => w1 = [w EXCEPT !.escaped = TRUE]
      /\ ~w.escaped /\ ch = SP =>
            w1 = IF w.open THEN [w EXCEPT !.args = Append(@, w.curr), !.curr = <<>>, !.open = FALSE] ELSE w
      /\ ~w.escaped /\ ch \in TextPlaceholders => WrittenMore(w, w1, PlaceholderText(ch, argv, app.name))
      /\ ~w.escaped /\ ch = "{cmdline@}" => w1 = [w EXCEPT !.args = @ \o argv]
      /\ ~w.escaped /\ ch \notin {BS, SP} \cup Placeholders => WrittenMore(w, w1, <<ch>>)
  <2> DEFINE Add(s) == [w EXCEPT !.curr = @ \o s, !.escaped = FALSE, !.open = TRUE]
  <2>1. \A s : WrittenMore(w, Add(s), s)
    BY DEF WrittenMore, WrittenStates
  <2>2. /\ ch = "{name}" => PlaceholderText(ch, argv, app.name) = name
        /\ ch = "{cmdline*}" => PlaceholderText(ch, argv, app.name) = text
        /\ ch = "{script}" => PlaceholderText(ch, argv, app.name) = <<"script">>
    BY DEF PlaceholderText
  <2>3. /\ w.escaped => w1 = Add(<<ch>>)
        /\ ~w.escaped /\ ch = BS => w1 = [w EXCEPT !.escaped = TRUE]
        /\ ~w.escaped /\ ch = SP =>
            w1 = IF w.open THEN [w EXCEPT !.args = Append(@, w.curr), !.curr = <<>>, !.open = FALSE] ELSE w
        /\ ~w.escaped /\ ch = "{name}" => w1 = Add(name)
        /\ ~w.escaped /\ ch = "{cmdline*}" => w1 = Add(text)
        /\ ~w.escaped /\ ch = "{script}" => w1 = Add(<<"script">>)
        /\ ~w.escaped /\ ch = "{cmdline@}" => w1 = [w EXCEPT !.args = @ \o argv]
        /\ ~w.escaped /\ ch \notin {BS, SP} \cup Placeholders => w1 = Add(<<ch>>)
    BY DEF WrittenChar, Placeholders, BS, SP
  <2> HIDE DEF Add, text, name
  <2> QED BY <2>1, <2>2, <2>3, ZenonT(40) DEF TextPlaceholders
<1>6. Q = Append(p.placeholders, NextPlace(p))
  BY DEF NextPlace
<1> HIDE DEF u, place, P, Q, text, name
<1>7. CASE v.escaped
  <2>1. Itself(v, p, w, v1, p1, w1, ch)
    BY <1>1, <1>2, <1>4, <1>5, <1>7 DEF Itself, P
  <2> QED BY <1>2, <2>1
<1>8. CASE ~v.escaped /\ ch = BS
  <2>1. (ch = BS) = TRUE /\ (ch = SP) = FALSE
    BY <1>8 DEF BS, SP
  <2>2. Escapes(v, p, w, v1, p1, w1, ch)
    BY <1>1, <1>2, <1>4, <1>5, <1>8, <2>1 DEF Escapes
  <2> QED BY <1>2, <2>2
<1>9. CASE ~v.escaped /\ ch = SP
  <2>1. (ch = BS) = FALSE /\ (ch = SP) = TRUE
    BY <1>9 DEF BS, SP
  <2>2. Ends(v, p, w, v1, p1, w1, ch)
    BY <1>1, <1>2, <1>4, <1>5, <1>9, <2>1 DEF Ends
  <2> QED BY <1>2, <2>2
<1>10. CASE ~v.escaped /\ ch \in TextPlaceholders
  <2>1. (ch = BS) = FALSE /\ (ch = SP) = FALSE /\ ch \in Placeholders
    BY <1>10 DEF BS, SP, TextPlaceholders, Placeholders
  <2>2. Stands(v, p, w, v1, p1, w1, ch, argv)
    BY <1>1, <1>2, <1>4, <1>5, <1>6, <1>10, <2>1 DEF Stands
  <2> QED BY <1>2, <2>2
<1>11. CASE ~v.escaped /\ ch = "{cmdline@}"
  <2>1. (ch = BS) = FALSE /\ (ch = SP) = FALSE /\ ch \in Placeholders
    BY <1>11 DEF BS, SP, Placeholders
  <2>2. Spreads(v, p, w, v1, p1, w1, ch, argv, term, n)
    BY <1>1, <1>2, <1>4, <1>5, <1>6, <1>11, <2>1 DEF Spreads, IsCommand
  <2> QED BY <1>2, <2>2
<1>12. CASE ~v.escaped /\ ch \notin {BS, SP} \cup Placeholders
  <2>1. /\ (ch = BS) = FALSE /\ (ch = SP) = FALSE /\ ch \notin {BS, SP, "{"} \cup Placeholders
        /\ ~IsCommand(ch)
    BY <1>2, <1>12 DEF IsCommand, Placeholders
  <2>2. Itself(v, p, w, v1, p1, w1, ch)
    BY <1>1, <1>2, <1>4, <1>5, <1>12, <2>1 DEF Itself, P
  <2> QED BY <1>2, <2>2
<1>13. ch \in {BS, SP} \cup Placeholders => ch = BS \/ ch = SP \/ ch \in TextPlaceholders \/ ch = "{cmdline@}"
  BY DEF Placeholders, TextPlaceholders
<1> QED
  BY <1>7, <1>8, <1>9, <1>10, <1>11, <1>12, <1>13

\* The three after n characters of a valid term: the parser has not aborted, and what it has
\* is what is written once its places are filled.
ReadAlike(v, p, w, term, n, argv) ==
    /\ p.aborted = FALSE /\ p.escaped = v.escaped /\ w.escaped = v.escaped
    /\ v.had_space \/ n = 0 => p.curr = <<>>
    /\ p.curr = <<>> => /\ w.open = FALSE /\ w.curr = <<>>
                        /\ NoWord(p.placeholders, p.args, w.args, argv, app.name)
    /\ p.curr # <<>> /\ w.open => InWord(p.placeholders, p.args, p.curr, w.args, w.curr, argv, app.name)
    /\ p.curr # <<>> /\ ~w.open =>
          /\ w.curr = <<>> /\ v.escaped = FALSE /\ (n = Len(term) \/ term[n + 1] = SP)
          /\ NoWord(p.placeholders, Append(p.args, p.curr), w.args, argv, app.name)

LEMMA TermCharAlike ==
    ASSUME NEW v \in TermStates, NEW p \in ParseStates, NEW w \in WrittenStates, NEW term \in String,
           NEW n \in 1 .. Len(term), NEW argv \in Seq(String), app.name \in String,
           ReadAlike(v, p, w, term, n - 1, argv), ValidateTermChar(v, term, n).valid
    PROVE  ReadAlike(ValidateTermChar(v, term, n), ParseTermChar(p, term[n]),
                     WrittenChar(w, term[n], argv), term, n, argv)
<1> DEFINE ch == term[n]
           v1 == ValidateTermChar(v, term, n)
           p1 == ParseTermChar(p, ch)
           w1 == WrittenChar(w, ch, argv)
           name == app.name
<1>1. ch \in Chars /\ Len(term) \in Nat
  BY LenProperties DEF String
<1>2. v1 \in TermStates /\ p1 \in ParseStates /\ w1 \in WrittenStates
  BY <1>1, ValidateTermCharType, ParseTermCharType, WrittenCharType
<1>3. n # 0 /\ n - 1 # Len(term) /\ (n - 1) + 1 = n
  BY <1>1
<1>4. \/ Itself(v, p, w, v1, p1, w1, ch) \/ Escapes(v, p, w, v1, p1, w1, ch)
      \/ Ends(v, p, w, v1, p1, w1, ch) \/ Stands(v, p, w, v1, p1, w1, ch, argv)
      \/ Spreads(v, p, w, v1, p1, w1, ch, argv, term, n)
  <2>1. v1 = ValidateTermChar(v, term, n) /\ p1 = ParseTermChar(p, ch) /\ w1 = WrittenChar(w, ch, argv)
        /\ ch = term[n] /\ v1.valid
    OBVIOUS
  <2>2. p.escaped = v.escaped /\ w.escaped = v.escaped
    BY DEF ReadAlike
  <2> HIDE DEF ch, v1, p1, w1
  <2> QED BY <1>1, <2>1, <2>2, TermCharCases
<1> HIDE DEF v1, p1, w1
\* what is known of the states before
<1>5. /\ p.aborted = FALSE /\ p.escaped = v.escaped /\ w.escaped = v.escaped
      /\ v.had_space \/ n - 1 = 0 => p.curr = <<>>
      /\ p.curr = <<>> => /\ w.open = FALSE /\ w.curr = <<>>
                          /\ NoWord(p.placeholders, p.args, w.args, argv, name)
      /\ p.curr # <<>> /\ w.open =>
            InWord(p.placeholders, p.args, p.curr, w.args, w.curr, argv, name)
      /\ p.curr # <<>> /\ ~w.open =>
            /\ w.curr = <<>> /\ v.escaped = FALSE /\ ch = SP
            /\ NoWord(p.placeholders, Append(p.args, p.curr), w.args, argv, name)
  BY <1>3 DEF ReadAlike
<1>6. /\ p.args \in Seq(String) /\ p.curr \in String /\ p.placeholders \in Seq(Places)
      /\ w.args \in Seq(String) /\ w.curr \in String /\ w.open \in BOOLEAN /\ name \in String
  BY DEF ParseStates, WrittenStates
<1> HIDE DEF ch, name
<1> SUFFICES ReadAlike(v1, p1, w1, term, n, argv)
  BY DEF v1, p1, w1, ch
<1>7. p.curr = <<>> \/ w.open => InWord(p.placeholders, p.args, p.curr, w.args, w.curr, argv, name)
  <2>1. CASE p.curr = <<>>
    <3>1. /\ w.curr = <<>> /\ NoWord(p.placeholders, p.args, w.args, argv, name)
      BY <1>5, <2>1
    <3>2. InWord(p.placeholders, p.args, <<>>, w.args, <<>>, argv, name)
      <4> DEFINE P == p.placeholders
                 a == p.args
                 b == w.args
      <4>1. a \in Seq(String) /\ b \in Seq(String) /\ NoWord(P, a, b, argv, name)
        BY <1>6, <3>1
      <4> HIDE DEF P, a, b
      <4>2. InWord(P, a, <<>>, b, <<>>, argv, name)
        BY <4>1, WordBegun
      <4> QED BY <4>2 DEF P, a, b
    <3> QED BY <2>1, <3>1, <3>2
  <2>2. CASE p.curr # <<>> /\ w.open
    BY <1>5, <2>2
  <2> QED BY <2>1, <2>2
\* a word has begun or goes on
<1>8. ASSUME NEW places, NEW t, v1.escaped = FALSE, v1.had_space = FALSE,
             ParsedMore(p, p1, ch, places), WrittenMore(w, w1, t),
             InWord(places, p.args, p.curr \o <<ch>>, w.args, w.curr \o t, argv, name)
      PROVE  ReadAlike(v1, p1, w1, term, n, argv)
  <2>1. p.curr \o <<ch>> # <<>>
    <3> DEFINE one == <<ch>>
    <3>1. one \in Seq(Chars) /\ Len(one) = 1 /\ Len(<<>>) = 0
      BY <1>1
    <3> HIDE DEF one
    <3> DEFINE u == p.curr
    <3>2. u \in Seq(Chars)
      BY <1>6 DEF String
    <3> HIDE DEF u
    <3>3. Len(u \o one) = Len(u) + Len(one) /\ Len(u) \in Nat
      BY <3>1, <3>2, Pieces, SMTT(30)
    <3>4. Len(u \o one) # 0
      BY <3>1, <3>3
    <3>5. u \o one # <<>>
      BY <3>1, <3>4
    <3> QED BY <3>5 DEF one, u
  <2>2. /\ p1.args = p.args /\ p1.curr = p.curr \o <<ch>> /\ p1.placeholders = places
        /\ p1.escaped = FALSE /\ p1.aborted = FALSE
        /\ w1.args = w.args /\ w1.curr = w.curr \o t /\ w1.open = TRUE /\ w1.escaped = FALSE
    BY <1>5, <1>8 DEF ParsedMore, WrittenMore
  <2>3. p1.curr # <<>> /\ InWord(p1.placeholders, p1.args, p1.curr, w1.args, w1.curr, argv, name)
    BY <1>8, <2>1, <2>2
  <2> QED BY <1>3, <1>8, <2>2, <2>3 DEF ReadAlike, name
<1>9. CASE Itself(v, p, w, v1, p1, w1, ch)
  <2> DEFINE one == <<ch>>
  <2>1. one \in String
    BY <1>1, OneCharString, Zenon
  <2>2. p.curr = <<>> \/ w.open
    BY <1>5, <1>9 DEF Itself
  <2>3. InWord(p.placeholders, p.args, p.curr, w.args, w.curr, argv, name)
    BY <1>7, <2>2
  <2>4. InWord(p.placeholders, p.args, p.curr \o one, w.args, w.curr \o one, argv, name)
    <3> HIDE DEF one
    <3> QED BY <1>6, <2>1, <2>3, WordGrown
  <2> QED BY <1>8, <1>9, <2>4 DEF Itself
<1>10. CASE Escapes(v, p, w, v1, p1, w1, ch)
  <2>1. ch # SP
    BY <1>10 DEF Escapes, BS, SP
  <2>2. /\ v1.escaped = TRUE /\ v1.had_space = FALSE
        /\ p1.args = p.args /\ p1.curr = p.curr /\ p1.placeholders = p.placeholders
        /\ p1.escaped = TRUE /\ p1.aborted = p.aborted
        /\ w1.args = w.args /\ w1.curr = w.curr /\ w1.open = w.open /\ w1.escaped = TRUE
    BY <1>10 DEF Escapes, ParseStates, WrittenStates
  <2>3. p.curr = <<>> \/ w.open
    BY <1>5, <2>1
  <2> QED BY <1>3, <1>5, <2>2, <2>3 DEF ReadAlike, name
<1>11. CASE Ends(v, p, w, v1, p1, w1, ch)
  <2>1. v1.escaped = FALSE /\ v1.had_space = TRUE /\ v.escaped = FALSE
    BY <1>11 DEF Ends
  <2>2. CASE p.curr = <<>>
    <3>1. p1 = p /\ w1 = w
      BY <1>5, <1>11, <2>2 DEF Ends
    <3> QED BY <1>3, <1>5, <2>1, <2>2, <3>1 DEF ReadAlike, name
  <2>3. CASE p.curr # <<>>
    <3>1. /\ p1.args = Append(p.args, p.curr) /\ p1.curr = <<>> /\ p1.placeholders = p.placeholders
          /\ p1.escaped = p.escaped /\ p1.aborted = p.aborted
      BY <1>11, <2>3 DEF Ends, ParseStates
    <3>2. /\ w1.curr = <<>> /\ w1.open = FALSE /\ w1.escaped = w.escaped
          /\ w1.args = IF w.open THEN Append(w.args, w.curr) ELSE w.args
      BY <1>5, <1>11, <2>3 DEF Ends, WrittenStates
    <3>3. NoWord(p1.placeholders, p1.args, w1.args, argv, name)
      <4>1. CASE w.open
        <5>1. InWord(p.placeholders, p.args, p.curr, w.args, w.curr, argv, name)
          BY <1>7, <4>1
        <5>2. NoWord(p.placeholders, Append(p.args, p.curr), Append(w.args, w.curr), argv, name)
          BY <1>6, <5>1, WordEnded
        <5> QED BY <3>1, <3>2, <4>1, <5>2
      <4>2. CASE ~w.open
        BY <1>5, <2>3, <3>1, <3>2, <4>2
      <4> QED BY <4>1, <4>2
    <3> QED BY <1>3, <1>5, <2>1, <3>1, <3>2, <3>3 DEF ReadAlike, name
  <2> QED BY <2>2, <2>3
<1>12. CASE Stands(v, p, w, v1, p1, w1, ch, argv)
  <2> DEFINE text == PlaceholderText(ch, argv, name)
             place == NextPlace(p)
  <2>1. ch \in TextPlaceholders /\ ch # SP
    BY <1>12 DEF Stands, TextPlaceholders, SP
  <2>2. place \in Places /\ IsPlace(place, p.args, p.curr)
    BY NextPlaceType
  <2>3. InWord(p.placeholders, p.args, p.curr, w.args, w.curr, argv, name)
    BY <1>5, <1>7, <2>1
  <2> HIDE DEF place
  <2>4. InWord(Append(p.placeholders, place), p.args, p.curr \o <<ch>>, w.args, w.curr \o text, argv, name)
    BY <1>1, <1>6, <2>1, <2>2, <2>3, WordFilled
  <2>5. /\ v1.escaped = FALSE /\ v1.had_space = FALSE
        /\ ParsedMore(p, p1, ch, Append(p.placeholders, place)) /\ WrittenMore(w, w1, text)
    BY <1>12 DEF Stands, place, name
  <2> HIDE DEF text
  <2> QED BY <1>8, <2>4, <2>5
<1>13. CASE Spreads(v, p, w, v1, p1, w1, ch, argv, term, n)
  <2> DEFINE place == NextPlace(p)
             own == <<ch>>
  <2>1. /\ IsCommand(ch) /\ v.escaped = FALSE /\ Separate(term, n, v.had_space)
        /\ v1.escaped = FALSE /\ v1.had_space = FALSE
    BY <1>13 DEF Spreads
  <2>2. (v.had_space \/ n = 1) /\ (n = Len(term) \/ term[n + 1] = SP)
    BY <2>1 DEF Separate
  <2>3. p.curr = <<>>
    <3>1. n = 1 => n - 1 = 0
      OBVIOUS
    <3> QED BY <1>5, <2>2, <3>1
  <2>4. /\ w.open = FALSE /\ w.curr = <<>> /\ NoWord(p.placeholders, p.args, w.args, argv, name)
    BY <1>5, <2>3
  <2>5. place \in Places /\ IsPlace(place, p.args, <<>>)
    BY <2>3, NextPlaceType
  <2>6. ParsedMore(p, p1, ch, Append(p.placeholders, place))
    BY <1>13 DEF Spreads
  <2>7. /\ w1.args = w.args \o argv /\ w1.curr = w.curr /\ w1.open = w.open /\ w1.escaped = w.escaped
    BY <1>13 DEF Spreads, WrittenStates
  <2> HIDE DEF place
  <2>8. NoWord(Append(p.placeholders, place), Append(p.args, <<ch>>), w.args \o argv, argv, name)
    BY <1>1, <1>6, <2>1, <2>4, <2>5, CommandFilled
  <2>9. <<>> \o own = own /\ own # <<>>
    <3>1. own \in Seq(Chars) /\ own # <<>>
      BY <1>1
    <3> HIDE DEF own
    <3> QED BY <3>1, ConcatEmptySeq
  <2>10. /\ p1.args = p.args /\ p1.curr = own /\ p1.placeholders = Append(p.placeholders, place)
         /\ p1.escaped = FALSE /\ p1.aborted = FALSE
    BY <1>5, <2>3, <2>6, <2>9 DEF ParsedMore
  <2>11. p1.curr # <<>> /\ NoWord(p1.placeholders, Append(p1.args, p1.curr), w1.args, argv, name)
    BY <2>7, <2>8, <2>9, <2>10
  <2>12. w1.open = FALSE /\ w1.curr = <<>> /\ w1.escaped = FALSE
    BY <1>5, <2>1, <2>4, <2>7
  <2> QED BY <1>3, <2>1, <2>2, <2>10, <2>11, <2>12 DEF ReadAlike, name
<1> QED
  BY <1>4, <1>9, <1>10, <1>11, <1>12, <1>13

-----------------------------------------------------------------------------
(* The checks of a DEBUG build *)

NoCommand(s) == \A k \in 1 .. Len(s) : ~IsCommand(s[k])

\* {cmdline@} is all of an argument or not in it.
Bare(s) == NoCommand(s) \/ s = <<"{cmdline@}">>

LEMMA BareStandsAlone ==
    ASSUME NEW arg, Bare(arg)
    PROVE  CommandStandsAlone(arg)
<1> DEFINE where == SelectInSeq(arg, LAMBDA ch : ch = "{cmdline@}")
<1>1. CASE NoCommand(arg)
  <2>1. where = 0
    BY <1>1 DEF SelectInSeq, NoCommand, IsCommand
  <2> QED BY <2>1 DEF CommandStandsAlone
<1>2. CASE arg = <<"{cmdline@}">>
  BY <1>2 DEF CommandStandsAlone
<1> QED BY <1>1, <1>2 DEF Bare

LEMMA NoCommandMore ==
    ASSUME NEW s \in String, NoCommand(s), NEW ch \in Chars, ~IsCommand(ch)
    PROVE  NoCommand(s \o <<ch>>) /\ s \o <<ch>> \in String
<1> DEFINE one == <<ch>>
           t == s \o one
<1>1. one \in String /\ Len(one) = 1 /\ one[1] = ch
  BY OneCharString, Zenon
<1>2. one \in Seq(Chars) /\ Len(one) = 1 /\ one[1] = ch /\ s \in Seq(Chars)
  BY <1>1 DEF String
<1> HIDE DEF one
<1>3. /\ t \in Seq(Chars) /\ Len(t) = Len(s) + Len(one) /\ Len(s) \in Nat
      /\ \A k \in 1 .. Len(s) : t[k] = s[k]
      /\ \A k \in 1 .. Len(one) : t[Len(s) + k] = one[k]
  <2>1. s \in Seq(Chars) /\ one \in Seq(Chars)
    BY <1>2
  <2> QED BY <2>1, Pieces
<1> HIDE DEF t
<1>4. ASSUME NEW k \in 1 .. Len(t) PROVE ~IsCommand(t[k])
  <2> DEFINE l == Len(s)
  <2>1. l \in Nat /\ k \in 1 .. l + 1
    BY <1>2, <1>3
  <2>2. k \in 1 .. l \/ k = l + 1
    <3> HIDE DEF l
    <3> QED BY <2>1
  <2>3. t[Len(s) + 1] = ch
    <3>1. 1 \in 1 .. Len(one)
      BY <1>2
    <3> QED BY <1>2, <1>3, <3>1
  <2> QED BY <1>3, <2>2, <2>3 DEF NoCommand
<1> QED
  BY <1>3, <1>4 DEF NoCommand, String, t, one

\* What has been parsed of a valid term without an escaped {cmdline@}
AllBare(v, p, w, term, n) ==
    /\ v.escaped => n # 0 /\ term[n] = BS
    /\ \A i \in 1 .. Len(p.args) : Bare(p.args[i])
    /\ Bare(p.curr) /\ (p.curr = <<>> \/ w.open => NoCommand(p.curr))

LEMMA TermCharBare ==
    ASSUME NEW v \in TermStates, NEW p \in ParseStates, NEW w \in WrittenStates, NEW term \in String,
           NEW n \in 1 .. Len(term), NEW argv \in Seq(String), app.name \in String,
           ReadAlike(v, p, w, term, n - 1, argv), ~CommandEscaped(term),
           AllBare(v, p, w, term, n - 1),
           NEW v1, NEW p1, NEW w1, v1 = ValidateTermChar(v, term, n),
           p1 = ParseTermChar(p, term[n]), w1 = WrittenChar(w, term[n], argv), v1.valid
    PROVE  AllBare(v1, p1, w1, term, n)
<1> DEFINE ch == term[n]
<1>1. ch \in Chars /\ Len(term) \in Nat /\ n # 0
  BY LenProperties DEF String
<1>2. \/ Itself(v, p, w, v1, p1, w1, ch) \/ Escapes(v, p, w, v1, p1, w1, ch)
      \/ Ends(v, p, w, v1, p1, w1, ch) \/ Stands(v, p, w, v1, p1, w1, ch, argv)
      \/ Spreads(v, p, w, v1, p1, w1, ch, argv, term, n)
  <2>1. p1 = ParseTermChar(p, ch) /\ w1 = WrittenChar(w, ch, argv) /\ ch = term[n]
    OBVIOUS
  <2>2. p.escaped = v.escaped /\ w.escaped = v.escaped
    BY DEF ReadAlike
  <2> HIDE DEF ch
  <2> QED BY <1>1, <2>1, <2>2, TermCharCases
<1>3. /\ p.args \in Seq(String) /\ p.curr \in String /\ w.open \in BOOLEAN /\ Len(p.args) \in Nat
  BY LenProperties DEF ParseStates, WrittenStates
<1>4. /\ \A i \in 1 .. Len(p.args) : Bare(p.args[i])
      /\ Bare(p.curr) /\ (p.curr = <<>> \/ w.open => NoCommand(p.curr))
  BY DEF AllBare
<1>5. p.curr # <<>> /\ ~w.open => ch = SP /\ v.escaped = FALSE
  <2>1. n - 1 # Len(term) /\ (n - 1) + 1 = n
    BY <1>1
  <2> QED BY <2>1 DEF ReadAlike
\* an escaped character is not {cmdline@}
<1>6. v.escaped => ~IsCommand(ch)
  <2> SUFFICES ASSUME v.escaped, IsCommand(ch) PROVE FALSE
    OBVIOUS
  <2>1. n - 1 # 0 /\ term[n - 1] = BS
    BY DEF AllBare
  <2>2. n \in 2 .. Len(term)
    <3> DEFINE l == Len(term)
    <3>1. l \in Nat /\ n \in 1 .. l /\ n - 1 # 0
      BY <1>1, <2>1
    <3> HIDE DEF l
    <3>2. n \in 2 .. l
      BY <3>1
    <3> QED BY <3>2 DEF l
  <2> QED BY <2>1, <2>2 DEF CommandEscaped, IsCommand
<1> HIDE DEF ch
\* a character is added to the word
<1>7. ASSUME NEW places, ~IsCommand(ch), ch # SP \/ v.escaped, v1.escaped = FALSE,
             ParsedMore(p, p1, ch, places), w1.open = TRUE
      PROVE  AllBare(v1, p1, w1, term, n)
  <2>1. NoCommand(p.curr)
    BY <1>3, <1>4, <1>5, <1>7
  <2>2. NoCommand(p.curr \o <<ch>>)
    BY <1>1, <1>3, <1>7, <2>1, NoCommandMore
  <2>3. p1.args = p.args /\ p1.curr = p.curr \o <<ch>>
    BY <1>7 DEF ParsedMore
  <2>4. NoCommand(p1.curr) /\ Bare(p1.curr)
    BY <2>2, <2>3 DEF Bare
  <2> QED BY <1>4, <1>7, <2>3, <2>4 DEF AllBare
<1>8. CASE Itself(v, p, w, v1, p1, w1, ch)
  <2>1. v1.escaped = FALSE /\ (v.escaped \/ ch # SP) /\ ParsedMore(p, p1, ch, p.placeholders) /\ w1.open = TRUE
    BY <1>8 DEF Itself, WrittenMore
  <2>2. ~IsCommand(ch)
    BY <1>6, <1>8 DEF Itself
  <2> QED BY <1>7, <2>1, <2>2
<1>9. CASE Escapes(v, p, w, v1, p1, w1, ch)
  <2>1. p1.args = p.args /\ p1.curr = p.curr /\ w1.open = w.open /\ ch = BS
    BY <1>9 DEF Escapes, ParseStates, WrittenStates
  <2> QED BY <1>1, <1>4, <2>1 DEF AllBare, ch
<1>10. CASE Ends(v, p, w, v1, p1, w1, ch)
  <2>1. v1.escaped = FALSE
    BY <1>10 DEF Ends
  <2>2. NoCommand(<<>>) /\ Bare(<<>>)
    BY DEF NoCommand, Bare
  <2>3. CASE p.curr = <<>>
    <3>1. p1 = p
      BY <1>10, <2>3 DEF Ends
    <3> QED BY <1>4, <2>1, <2>2, <2>3, <3>1 DEF AllBare
  <2>4. CASE p.curr # <<>>
    <3>1. p1.args = Append(p.args, p.curr) /\ p1.curr = <<>>
      BY <1>10, <2>4 DEF Ends, ParseStates
    <3>2. ASSUME NEW i \in 1 .. Len(p1.args) PROVE Bare(p1.args[i])
      <4>1. /\ Len(p1.args) = Len(p.args) + 1 /\ p1.args[Len(p.args) + 1] = p.curr
            /\ \A k \in 1 .. Len(p.args) : p1.args[k] = p.args[k]
        BY <1>3, <3>1, AppendProperties
      <4>2. i \in 1 .. Len(p.args) \/ i = Len(p.args) + 1
        BY <1>3, <4>1
      <4> QED BY <1>4, <4>1, <4>2
    <3> QED BY <2>1, <2>2, <3>1, <3>2 DEF AllBare
  <2> QED BY <2>3, <2>4
<1>11. CASE Stands(v, p, w, v1, p1, w1, ch, argv)
  <2>1. /\ v1.escaped = FALSE /\ w1.open = TRUE
        /\ ParsedMore(p, p1, ch, Append(p.placeholders, NextPlace(p)))
    BY <1>11 DEF Stands, WrittenMore
  <2>2. ~IsCommand(ch) /\ ch # SP
    BY <1>11 DEF Stands, TextPlaceholders, SP, IsCommand
  <2> QED BY <1>7, <2>1, <2>2
<1>12. CASE Spreads(v, p, w, v1, p1, w1, ch, argv, term, n)
  <2>1. v1.escaped = FALSE /\ ch = "{cmdline@}" /\ p1.args = p.args /\ p1.curr = p.curr \o <<ch>>
        /\ w1.open = w.open
    BY <1>12 DEF Spreads, IsCommand, ParsedMore, WrittenStates
  <2>2. p.curr = <<>> /\ w.open = FALSE
    <3>1. v.had_space \/ n = 1
      BY <1>12 DEF Spreads, Separate
    <3>2. n = 1 => n - 1 = 0
      OBVIOUS
    <3> QED BY <3>1, <3>2 DEF ReadAlike
  <2> DEFINE own == <<ch>>
  <2>3. <<>> \o own = own /\ own # <<>>
    <3>1. own \in Seq(Chars) /\ own # <<>>
      BY <1>1
    <3> HIDE DEF own
    <3> QED BY <3>1, ConcatEmptySeq
  <2>4. p1.curr = <<"{cmdline@}">> /\ p1.curr # <<>>
    BY <2>1, <2>2, <2>3
  <2> QED BY <1>4, <2>1, <2>2, <2>4 DEF AllBare, Bare
<1> QED
  BY <1>2, <1>8, <1>9, <1>10, <1>11, <1>12

\* The places found so far are sorted and before the next character.
Before(place, p) ==
    place.arg < Len(p.args) + 1 \/ (place.arg = Len(p.args) + 1 /\ place.pos < Len(p.curr) + 1)

AllSorted(p) ==
    /\ PlacesSorted(p.placeholders)
    /\ \A i \in 1 .. Len(p.placeholders) : Before(p.placeholders[i], p)

LEMMA TermCharSorted ==
    ASSUME NEW p \in ParseStates, NEW ch \in Chars, AllSorted(p)
    PROVE  AllSorted(ParseTermChar(p, ch))
<1> DEFINE q == ParseTermChar(p, ch)
           P == p.placeholders
           place == NextPlace(p)
           a == Len(p.args)
           c == Len(p.curr)
<1>1. /\ P \in Seq(Places) /\ Len(P) \in Nat /\ a \in Nat /\ c \in Nat
      /\ p.args \in Seq(String) /\ p.curr \in Seq(Chars)
  BY LenProperties DEF ParseStates, String
<1>2. \A i \in 1 .. Len(P) : P[i].arg \in Nat /\ P[i].pos \in Nat
  <2> TAKE i \in 1 .. Len(P)
  <2>1. P[i] \in Places
    <3> HIDE DEF P
    <3> QED BY <1>1, ElementOfSeq
  <2> QED BY <2>1 DEF Places
<1>3. PlacesSorted(P) /\ \A i \in 1 .. Len(P) : P[i].arg < a + 1 \/ (P[i].arg = a + 1 /\ P[i].pos < c + 1)
  BY DEF AllSorted, Before
<1>4. \/ q.placeholders = P /\ Len(q.args) = a /\ Len(q.curr) \in {c, c + 1}
      \/ q.placeholders = P /\ Len(q.args) = a + 1 /\ Len(q.curr) = 0
      \/ q.placeholders = Append(P, place) /\ Len(q.args) = a /\ Len(q.curr) = c + 1
  <2> DEFINE Add == [p EXCEPT !.curr = Append(@, ch), !.escaped = FALSE]
             More == [Add EXCEPT !.placeholders = Append(@, place)]
             End == [p EXCEPT !.args = Append(@, p.curr), !.curr = <<>>]
  <2>1. q \in {Add, [p EXCEPT !.aborted = TRUE], [p EXCEPT !.escaped = TRUE], p, End, More}
    BY DEF ParseTermChar, NextPlace
  <2>2. Len(Append(p.curr, ch)) = c + 1 /\ Len(Append(p.args, p.curr)) = a + 1 /\ Len(<<>>) = 0
    BY <1>1, AppendProperties DEF ParseStates, String
  <2>3. /\ Add.args = p.args /\ Add.curr = Append(p.curr, ch) /\ Add.placeholders = P
        /\ More.args = p.args /\ More.curr = Append(p.curr, ch) /\ More.placeholders = Append(P, place)
        /\ End.args = Append(p.args, p.curr) /\ End.curr = <<>> /\ End.placeholders = P
    BY DEF ParseStates
  <2>4. ASSUME NEW x \in {[p EXCEPT !.aborted = TRUE], [p EXCEPT !.escaped = TRUE], p}
        PROVE  x.args = p.args /\ x.curr = p.curr /\ x.placeholders = P
    BY DEF ParseStates
  <2> HIDE DEF Add, More, End, q, place
  <2> QED BY <2>1, <2>2, <2>3, <2>4
<1> HIDE DEF q
<1> SUFFICES AllSorted(q)
  BY DEF q
<1>5. CASE q.placeholders = P
  <2>1. ASSUME NEW i \in 1 .. Len(P) PROVE Before(P[i], q)
    <3> DEFINE pa == P[i].arg
               pp == P[i].pos
               qa == Len(q.args)
               qc == Len(q.curr)
    <3>1. pa \in Nat /\ pp \in Nat /\ (pa < a + 1 \/ (pa = a + 1 /\ pp < c + 1))
      BY <1>2, <1>3
    <3>2. (qa = a /\ qc \in {c, c + 1}) \/ (qa = a + 1 /\ qc = 0) \/ (qa = a /\ qc = c + 1)
      BY <1>4, <1>5
    <3> HIDE DEF pa, pp, qa, qc, a, c
    <3>3. pa < qa + 1 \/ (pa = qa + 1 /\ pp < qc + 1)
      BY <1>1, <3>1, <3>2
    <3> QED BY <3>3 DEF Before, pa, pp, qa, qc
  <2> QED BY <1>3, <1>5, <2>1 DEF AllSorted
<1>6. CASE q.placeholders = Append(P, place) /\ Len(q.args) = a /\ Len(q.curr) = c + 1
  <2> DEFINE Q == Append(P, place)
             m == Len(P)
  <2>1. place.arg = a + 1 /\ place.pos = c + 1 /\ place \in Places
    BY NextPlaceType DEF NextPlace
  <2> HIDE DEF place
  <2>2. Len(Q) = m + 1 /\ Q[m + 1] = place /\ \A k \in 1 .. m : Q[k] = P[k]
    BY <1>1, <2>1, AppendProperties
  <2> HIDE DEF Q
  <2>3. ASSUME NEW i \in 1 .. m + 1 PROVE Before(Q[i], q)
    <3>1. CASE i \in 1 .. m
      <4> DEFINE pa == P[i].arg
                 pp == P[i].pos
      <4>1. pa \in Nat /\ pp \in Nat /\ (pa < a + 1 \/ (pa = a + 1 /\ pp < c + 1))
        BY <1>2, <1>3, <3>1
      <4> HIDE DEF pa, pp, a, c
      <4>2. pa < a + 1 \/ (pa = a + 1 /\ pp < (c + 1) + 1)
        BY <1>1, <4>1
      <4> QED BY <1>6, <2>2, <3>1, <4>2 DEF Before, pa, pp
    <3>2. CASE i = m + 1
      <4>1. c + 1 < (c + 1) + 1
        BY <1>1
      <4> QED BY <1>6, <2>1, <2>2, <3>2, <4>1 DEF Before
    <3>3. i \in 1 .. m \/ i = m + 1
      BY <1>1
    <3> QED BY <3>1, <3>2, <3>3
  <2>4. ASSUME NEW i \in 2 .. m + 1
        PROVE  Q[i - 1].arg < Q[i].arg \/ (Q[i - 1].arg = Q[i].arg /\ Q[i - 1].pos < Q[i].pos)
    <3>1. CASE i = m + 1
      <4>1. i - 1 \in 1 .. m /\ Q[i - 1] = P[i - 1] /\ Q[i] = place
        <5>1. i - 1 \in 1 .. m
          BY <1>1, <3>1
        <5> QED BY <2>2, <3>1, <5>1
      <4>2. P[i - 1].arg < a + 1 \/ (P[i - 1].arg = a + 1 /\ P[i - 1].pos < c + 1)
        BY <1>3, <4>1
      <4> QED BY <2>1, <4>1, <4>2
    <3>2. CASE i \in 2 .. m
      <4>1. Q[i - 1] = P[i - 1] /\ Q[i] = P[i]
        <5>1. i - 1 \in 1 .. m /\ i \in 1 .. m
          BY <1>1, <3>2
        <5> QED BY <2>2, <5>1
      <4> QED BY <1>3, <3>2, <4>1 DEF PlacesSorted
    <3>3. i \in 2 .. m \/ i = m + 1
      BY <1>1
    <3> QED BY <3>1, <3>2, <3>3
  <2>5. PlacesSorted(Q)
    BY <2>2, <2>4 DEF PlacesSorted
  <2>6. q.placeholders = Q
    BY <1>6 DEF Q
  <2> QED BY <2>2, <2>3, <2>5, <2>6 DEF AllSorted
<1> QED
  BY <1>4, <1>5, <1>6

LEMMA ValidBefore ==
    ASSUME NEW s \in TermStates, NEW term, NEW i, ValidateTermChar(s, term, i).valid
    PROVE  s.valid
BY DEF ValidateTermChar, TermStates

\* What the three make of their last state
Parsed(end) == [end EXCEPT !.args = IF end.curr = <<>> THEN @ ELSE Append(@, end.curr)]

Written(end) == IF end.open THEN Append(end.args, end.curr) ELSE end.args

\* The states of the three
LEMMA TermSteps ==
    ASSUME NEW term \in String, term = opt.term, NEW argv \in Seq(String), app.name \in String
    PROVE  \E v \in [0 .. Len(term) -> TermStates], p \in [0 .. Len(term) -> ParseStates],
              w \in [0 .. Len(term) -> WrittenStates] :
              /\ v[0] = [escaped |-> FALSE, had_space |-> FALSE, valid |-> TRUE]
              /\ \A n \in 1 .. Len(term) : v[n] = ValidateTermChar(v[n - 1], term, n)
              /\ validate_custom_term(term) = (term # <<>> /\ v[Len(term)].valid)
              /\ p[0] = [args |-> <<>>, curr |-> <<>>, escaped |-> FALSE, placeholders |-> <<>>,
                         aborted |-> FALSE]
              /\ \A n \in 1 .. Len(term) : p[n] = ParseTermChar(p[n - 1], term[n])
              /\ parse_escaped_term(term) = Parsed(p[Len(term)])
              /\ w[0] = [args |-> <<>>, curr |-> <<>>, open |-> FALSE, escaped |-> FALSE]
              /\ \A n \in 1 .. Len(term) : w[n] = WrittenChar(w[n - 1], term[n], argv)
              /\ TermAsWritten(argv) = Written(w[Len(term)])
<1> DEFINE N == Len(term)
<1>1. N \in Nat /\ \A n \in 1 .. N : term[n] \in Chars
  BY LenProperties DEF String
<1>2. \E v \in [0 .. N -> TermStates] :
         /\ v[0] = [escaped |-> FALSE, had_space |-> FALSE, valid |-> TRUE]
         /\ \A n \in 1 .. N : v[n] = ValidateTermChar(v[n - 1], term, n)
         /\ validate_custom_term(term) = (term # <<>> /\ v[N].valid)
  <2> DEFINE X == TermStates
             b == [escaped |-> FALSE, had_space |-> FALSE, valid |-> TRUE]
             F(x, n) == ValidateTermChar(x, term, n)
             Solves(g) == g = [n \in 0 .. N |-> IF n = 0 THEN b ELSE F(g[n - 1], n)]
             f == CHOOSE g : Solves(g)
  <2>1. validate_custom_term(term) = (term # <<>> /\ f[N].valid)
    BY DEF validate_custom_term
  <2>2. b \in X /\ \A n \in 1 .. N, x \in X : F(x, n) \in X
    <3>1. b \in X
      BY DEF TermStates
    <3>2. \A n \in 1 .. N, x \in X : F(x, n) \in X
      BY <1>1, ValidateTermCharType
    <3> QED BY <3>1, <3>2
  <2> HIDE DEF b, F, X
<2>3. /\ f[0] = b /\ (\A n \in 1 .. N : f[n] = F(f[n - 1], n))
      /\ \A n \in 0 .. N : f[n] \in X
  <3> DEFINE step == [n \in 1 .. N |-> [x \in X |-> F(x, n)]]
  <3>1. \A n \in 1 .. N, x \in X : step[n][x] = F(x, n)
    OBVIOUS
  <3>2. \A n \in 1 .. N, x \in X : step[n][x] \in X
    BY <1>1, <2>2, <3>1
  <3> HIDE DEF step
  <3>3. PICK g : g \in Recursion(N, X, b, step)
    BY <1>1, <2>2, <3>2, RecursionExists
  <3>4. /\ g \in [0 .. N -> X] /\ g[0] = b
        /\ \A n \in 1 .. N : g[n] = step[n][g[n - 1]]
    BY <3>3 DEF Recursion
  <3>5. ASSUME NEW n \in 0 .. N, n # 0 PROVE g[n] = F(g[n - 1], n)
    <4>1. n \in 1 .. N /\ n - 1 \in 0 .. N
      BY <1>1, <2>2, <3>5
    <4> QED BY <3>1, <3>4, <4>1
  <3>6. Solves(g)
    BY <3>4, <3>5
  <3>7. Solves(f)
    <4> HIDE DEF Solves
    <4> QED BY <3>6
  <3> HIDE DEF f
  <3>8. f[0] = b /\ \A n \in 1 .. N : f[n] = F(f[n - 1], n)
    BY <1>1, <3>7
  <3> DEFINE S == {n \in 0 .. N : f[n] \in X}
  <3>9. 0 \in S
    BY <1>1, <2>2, <3>8
  <3>10. ASSUME NEW n \in 1 .. N, n - 1 \in S PROVE n \in S
    BY <1>1, <2>2, <3>8, <3>10
  <3> HIDE DEF S
  <3>11. 0 .. N \subseteq S
    BY <1>1, <2>2, <3>9, <3>10, BoundedInduction
  <3> QED BY <3>8, <3>11 DEF S
  <2> HIDE DEF f
  <2> DEFINE v == [n \in 0 .. N |-> f[n]]
  <2>4. v \in [0 .. N -> X] /\ v[0] = b /\ v[N] = f[N]
    BY <1>1, <2>3
  <2>5. ASSUME NEW n \in 1 .. N PROVE v[n] = F(v[n - 1], n)
    <3>1. n \in 0 .. N /\ n - 1 \in 0 .. N
      BY <1>1
    <3> QED BY <2>3, <3>1
  <2> HIDE DEF v
  <2> QED BY <2>1, <2>4, <2>5 DEF X, b, F
<1>3. \E p \in [0 .. N -> ParseStates] :
         /\ p[0] = [args |-> <<>>, curr |-> <<>>, escaped |-> FALSE, placeholders |-> <<>>, aborted |-> FALSE]
         /\ \A n \in 1 .. N : p[n] = ParseTermChar(p[n - 1], term[n])
         /\ parse_escaped_term(term) = Parsed(p[N])
  <2> DEFINE X == ParseStates
             b == [args |-> <<>>, curr |-> <<>>, escaped |-> FALSE, placeholders |-> <<>>, aborted |-> FALSE]
             F(x, n) == ParseTermChar(x, term[n])
             Solves(g) == g = [n \in 0 .. N |-> IF n = 0 THEN b ELSE F(g[n - 1], n)]
             f == CHOOSE g : Solves(g)
  <2>1. parse_escaped_term(term) = Parsed(f[N])
    BY DEF parse_escaped_term, Parsed
  <2>2. b \in X /\ \A n \in 1 .. N, x \in X : F(x, n) \in X
    <3>1. b \in X
      BY DEF ParseStates, String
    <3>2. \A n \in 1 .. N, x \in X : F(x, n) \in X
      BY <1>1, ParseTermCharType
    <3> QED BY <3>1, <3>2
  <2> HIDE DEF b, F, X
<2>3. /\ f[0] = b /\ (\A n \in 1 .. N : f[n] = F(f[n - 1], n))
      /\ \A n \in 0 .. N : f[n] \in X
  <3> DEFINE step == [n \in 1 .. N |-> [x \in X |-> F(x, n)]]
  <3>1. \A n \in 1 .. N, x \in X : step[n][x] = F(x, n)
    OBVIOUS
  <3>2. \A n \in 1 .. N, x \in X : step[n][x] \in X
    BY <1>1, <2>2, <3>1
  <3> HIDE DEF step
  <3>3. PICK g : g \in Recursion(N, X, b, step)
    BY <1>1, <2>2, <3>2, RecursionExists
  <3>4. /\ g \in [0 .. N -> X] /\ g[0] = b
        /\ \A n \in 1 .. N : g[n] = step[n][g[n - 1]]
    BY <3>3 DEF Recursion
  <3>5. ASSUME NEW n \in 0 .. N, n # 0 PROVE g[n] = F(g[n - 1], n)
    <4>1. n \in 1 .. N /\ n - 1 \in 0 .. N
      BY <1>1, <2>2, <3>5
    <4> QED BY <3>1, <3>4, <4>1
  <3>6. Solves(g)
    BY <3>4, <3>5
  <3>7. Solves(f)
    <4> HIDE DEF Solves
    <4> QED BY <3>6
  <3> HIDE DEF f
  <3>8. f[0] = b /\ \A n \in 1 .. N : f[n] = F(f[n - 1], n)
    BY <1>1, <3>7
  <3> DEFINE S == {n \in 0 .. N : f[n] \in X}
  <3>9. 0 \in S
    BY <1>1, <2>2, <3>8
  <3>10. ASSUME NEW n \in 1 .. N, n - 1 \in S PROVE n \in S
    BY <1>1, <2>2, <3>8, <3>10
  <3> HIDE DEF S
  <3>11. 0 .. N \subseteq S
    BY <1>1, <2>2, <3>9, <3>10, BoundedInduction
  <3> QED BY <3>8, <3>11 DEF S
  <2> HIDE DEF f
  <2> DEFINE p == [n \in 0 .. N |-> f[n]]
  <2>4. p \in [0 .. N -> X] /\ p[0] = b /\ p[N] = f[N]
    BY <1>1, <2>3
  <2>5. ASSUME NEW n \in 1 .. N PROVE p[n] = F(p[n - 1], n)
    <3>1. n \in 0 .. N /\ n - 1 \in 0 .. N
      BY <1>1
    <3> QED BY <2>3, <3>1
  <2> HIDE DEF p
  <2> QED BY <2>1, <2>4, <2>5 DEF X, b, F
<1>4. \E w \in [0 .. N -> WrittenStates] :
         /\ w[0] = [args |-> <<>>, curr |-> <<>>, open |-> FALSE, escaped |-> FALSE]
         /\ \A n \in 1 .. N : w[n] = WrittenChar(w[n - 1], term[n], argv)
         /\ TermAsWritten(argv) = Written(w[N])
  <2> DEFINE X == WrittenStates
             b == [args |-> <<>>, curr |-> <<>>, open |-> FALSE, escaped |-> FALSE]
             F(x, n) == WrittenChar(x, term[n], argv)
             Solves(g) == g = [n \in 0 .. N |-> IF n = 0 THEN b ELSE F(g[n - 1], n)]
             f == CHOOSE g : Solves(g)
  <2>1. TermAsWritten(argv) = Written(f[N])
    BY DEF TermAsWritten, Written
  <2>2. b \in X /\ \A n \in 1 .. N, x \in X : F(x, n) \in X
    <3>1. b \in X
      BY DEF WrittenStates, String
    <3>2. \A n \in 1 .. N, x \in X : F(x, n) \in X
      BY <1>1, WrittenCharType
    <3> QED BY <3>1, <3>2
  <2> HIDE DEF b, F, X
<2>3. /\ f[0] = b /\ (\A n \in 1 .. N : f[n] = F(f[n - 1], n))
      /\ \A n \in 0 .. N : f[n] \in X
  <3> DEFINE step == [n \in 1 .. N |-> [x \in X |-> F(x, n)]]
  <3>1. \A n \in 1 .. N, x \in X : step[n][x] = F(x, n)
    OBVIOUS
  <3>2. \A n \in 1 .. N, x \in X : step[n][x] \in X
    BY <1>1, <2>2, <3>1
  <3> HIDE DEF step
  <3>3. PICK g : g \in Recursion(N, X, b, step)
    BY <1>1, <2>2, <3>2, RecursionExists
  <3>4. /\ g \in [0 .. N -> X] /\ g[0] = b
        /\ \A n \in 1 .. N : g[n] = step[n][g[n - 1]]
    BY <3>3 DEF Recursion
  <3>5. ASSUME NEW n \in 0 .. N, n # 0 PROVE g[n] = F(g[n - 1], n)
    <4>1. n \in 1 .. N /\ n - 1 \in 0 .. N
      BY <1>1, <2>2, <3>5
    <4> QED BY <3>1, <3>4, <4>1
  <3>6. Solves(g)
    BY <3>4, <3>5
  <3>7. Solves(f)
    <4> HIDE DEF Solves
    <4> QED BY <3>6
  <3> HIDE DEF f
  <3>8. f[0] = b /\ \A n \in 1 .. N : f[n] = F(f[n - 1], n)
    BY <1>1, <3>7
  <3> DEFINE S == {n \in 0 .. N : f[n] \in X}
  <3>9. 0 \in S
    BY <1>1, <2>2, <3>8
  <3>10. ASSUME NEW n \in 1 .. N, n - 1 \in S PROVE n \in S
    BY <1>1, <2>2, <3>8, <3>10
  <3> HIDE DEF S
  <3>11. 0 .. N \subseteq S
    BY <1>1, <2>2, <3>9, <3>10, BoundedInduction
  <3> QED BY <3>8, <3>11 DEF S
  <2> HIDE DEF f
  <2> DEFINE w == [n \in 0 .. N |-> f[n]]
  <2>4. w \in [0 .. N -> X] /\ w[0] = b /\ w[N] = f[N]
    BY <1>1, <2>3
  <2>5. ASSUME NEW n \in 1 .. N PROVE w[n] = F(w[n - 1], n)
    <3>1. n \in 0 .. N /\ n - 1 \in 0 .. N
      BY <1>1
    <3> QED BY <2>3, <3>1
  <2> HIDE DEF w
  <2> QED BY <2>1, <2>4, <2>5 DEF X, b, F
<1> QED
  BY <1>2, <1>3, <1>4

\* A valid --term is assembled as written, and a DEBUG build finds nothing wrong in it unless
\* {cmdline@} is escaped.
LEMMA TermAssembled ==
    ASSUME NEW term \in String, term = opt.term, NEW argv \in Seq(String), app.name \in String,
           validate_custom_term(term)
    PROVE  /\ \A debug \in BOOLEAN : TermAborts(term, debug) => debug /\ CommandEscaped(term)
           /\ custom_term_assembler(argv, term, app.name) = TermAsWritten(argv)
           /\ custom_term_assembler(argv, term, app.name) \in Seq(String)
<1> DEFINE N == Len(term)
           name == app.name
<1>1. N \in Nat /\ \A n \in 1 .. N : term[n] \in Chars
  BY LenProperties DEF String
<1>2. PICK v \in [0 .. N -> TermStates], p \in [0 .. N -> ParseStates], w \in [0 .. N -> WrittenStates] :
         /\ v[0] = [escaped |-> FALSE, had_space |-> FALSE, valid |-> TRUE]
         /\ \A n \in 1 .. N : v[n] = ValidateTermChar(v[n - 1], term, n)
         /\ validate_custom_term(term) = (term # <<>> /\ v[N].valid)
         /\ p[0] = [args |-> <<>>, curr |-> <<>>, escaped |-> FALSE, placeholders |-> <<>>,
                    aborted |-> FALSE]
         /\ \A n \in 1 .. N : p[n] = ParseTermChar(p[n - 1], term[n])
         /\ parse_escaped_term(term) = Parsed(p[N])
         /\ w[0] = [args |-> <<>>, curr |-> <<>>, open |-> FALSE, escaped |-> FALSE]
         /\ \A n \in 1 .. N : w[n] = WrittenChar(w[n - 1], term[n], argv)
         /\ TermAsWritten(argv) = Written(w[N])
  BY TermSteps, ZenonT(40)
<1>3. v[N].valid
  BY <1>2
<1> DEFINE S == {n \in 0 .. N : v[n].valid => ReadAlike(v[n], p[n], w[n], term, n, argv)}
<1>4. 0 \in S
  <2>1. NoWord(<<>>, <<>>, <<>>, argv, app.name)
    <3> SUFFICES ASSUME NEW b \in Seq(String)
                 PROVE  Filled(<<>> \o b, <<>>, argv, app.name) = <<>> \o b
      BY DEF NoWord
    <3> DEFINE all == <<>> \o b
               none == <<>>
    <3>1. none \in Seq(Places) /\ [arg |-> 0, pos |-> 0] \in Places
      BY DEF Places
    <3> HIDE DEF all, none
    <3>2. Filled(all, <<>>, argv, name) = all
      BY <3>1, LastPlaceFirst
    <3> QED BY <3>2 DEF all
  <2>2. /\ p[0].aborted = FALSE /\ p[0].escaped = v[0].escaped /\ w[0].escaped = v[0].escaped
        /\ p[0].curr = <<>> /\ w[0].open = FALSE /\ w[0].curr = <<>>
        /\ p[0].placeholders = <<>> /\ p[0].args = <<>> /\ w[0].args = <<>>
    BY <1>2
  <2>3. ReadAlike(v[0], p[0], w[0], term, 0, argv)
    BY <2>1, <2>2 DEF ReadAlike
  <2>4. 0 \in 0 .. N
    BY <1>1
  <2> QED BY <2>3, <2>4
<1>5. ASSUME NEW n \in 1 .. N, n - 1 \in S PROVE n \in S
  <2>1. n \in 0 .. N /\ n - 1 \in 0 .. N
    BY <1>1
  <2>2. /\ v[n] = ValidateTermChar(v[n - 1], term, n) /\ p[n] = ParseTermChar(p[n - 1], term[n])
        /\ w[n] = WrittenChar(w[n - 1], term[n], argv)
        /\ v[n - 1] \in TermStates /\ p[n - 1] \in ParseStates /\ w[n - 1] \in WrittenStates
    BY <1>2, <2>1
  <2>3. v[n - 1].valid => ReadAlike(v[n - 1], p[n - 1], w[n - 1], term, n - 1, argv)
    BY <1>5
  <2>4. v[n].valid => v[n - 1].valid
    BY <2>2, ValidBefore
  <2> DEFINE v0 == v[n - 1]
             p0 == p[n - 1]
             w0 == w[n - 1]
  <2>5. ASSUME v[n].valid PROVE ReadAlike(v[n], p[n], w[n], term, n, argv)
    <3>1. /\ v0 \in TermStates /\ p0 \in ParseStates /\ w0 \in WrittenStates
          /\ ReadAlike(v0, p0, w0, term, n - 1, argv) /\ ValidateTermChar(v0, term, n).valid
      BY <2>2, <2>3, <2>4, <2>5
    <3> HIDE DEF v0, p0, w0
    <3>2. ReadAlike(ValidateTermChar(v0, term, n), ParseTermChar(p0, term[n]),
                    WrittenChar(w0, term[n], argv), term, n, argv)
      BY <3>1, TermCharAlike
    <3> QED BY <2>2, <3>2 DEF v0, p0, w0
  <2> QED BY <2>1, <2>5
<1>6. /\ ReadAlike(v[N], p[N], w[N], term, N, argv)
      /\ \A n \in 0 .. N : v[n].valid => ReadAlike(v[n], p[n], w[n], term, n, argv)
  <2> HIDE DEF S
  <2>1. 0 .. N \subseteq S
    BY <1>1, <1>4, <1>5, BoundedInduction
  <2>2. N \in S
    BY <1>1, <2>1
  <2> QED BY <1>3, <2>1, <2>2 DEF S
\* what a DEBUG build looks at
<1>14. ~CommandEscaped(term) => AllBare(v[N], p[N], w[N], term, N)
  <2> SUFFICES ASSUME ~CommandEscaped(term) PROVE AllBare(v[N], p[N], w[N], term, N)
    OBVIOUS
  <2> DEFINE B == {n \in 0 .. N : v[n].valid => AllBare(v[n], p[n], w[n], term, n)}
  <2>1. 0 \in B
    <3>1. v[0].escaped = FALSE /\ p[0].args = <<>> /\ p[0].curr = <<>> /\ 0 \in 0 .. N
      BY <1>1, <1>2
    <3>2. NoCommand(<<>>) /\ Bare(<<>>) /\ Len(<<>>) = 0
      BY DEF NoCommand, Bare
    <3>3. AllBare(v[0], p[0], w[0], term, 0)
      BY <3>1, <3>2 DEF AllBare
    <3> QED BY <3>1, <3>3
  <2>2. ASSUME NEW n \in 1 .. N, n - 1 \in B PROVE n \in B
    <3> SUFFICES ASSUME v[n].valid PROVE AllBare(v[n], p[n], w[n], term, n)
      BY <1>1
    <3> DEFINE v0 == v[n - 1]
               p0 == p[n - 1]
               w0 == w[n - 1]
               v1 == v[n]
               p1 == p[n]
               w1 == w[n]
    <3>1. n \in 0 .. N /\ n - 1 \in 0 .. N
      BY <1>1
    <3>2. /\ v1 = ValidateTermChar(v0, term, n) /\ p1 = ParseTermChar(p0, term[n])
          /\ w1 = WrittenChar(w0, term[n], argv) /\ v1.valid
          /\ v0 \in TermStates /\ p0 \in ParseStates /\ w0 \in WrittenStates
      BY <1>2, <3>1
    <3>3. v0.valid
      BY <3>2, ValidBefore
    <3>4. ReadAlike(v0, p0, w0, term, n - 1, argv) /\ AllBare(v0, p0, w0, term, n - 1)
      BY <1>6, <2>2, <3>1, <3>3
    <3> HIDE DEF v0, p0, w0, v1, p1, w1
    <3>5. AllBare(v1, p1, w1, term, n)
      BY <3>2, <3>4, TermCharBare
    <3> QED BY <3>5 DEF v1, p1, w1
  <2> HIDE DEF B
  <2>3. 0 .. N \subseteq B
    BY <1>1, <2>1, <2>2, BoundedInduction
  <2>4. N \in B
    BY <1>1, <2>3
  <2> QED BY <1>3, <2>4 DEF B
<1>15. AllSorted(p[N])
  <2> DEFINE B == {n \in 0 .. N : AllSorted(p[n])}
  <2>1. 0 \in B
    <3>1. p[0].placeholders = <<>> /\ 0 \in 0 .. N /\ Len(<<>>) = 0
      BY <1>1, <1>2
    <3>2. AllSorted(p[0])
      BY <3>1 DEF AllSorted, PlacesSorted
    <3> QED BY <3>1, <3>2
  <2>2. ASSUME NEW n \in 1 .. N, n - 1 \in B PROVE n \in B
    <3> DEFINE p0 == p[n - 1]
    <3>1. /\ n \in 0 .. N /\ p0 \in ParseStates /\ AllSorted(p0) /\ term[n] \in Chars
          /\ p[n] = ParseTermChar(p0, term[n])
      <4>1. n \in 0 .. N /\ n - 1 \in 0 .. N
        BY <1>1
      <4> QED BY <1>1, <1>2, <2>2, <4>1
    <3> HIDE DEF p0
    <3>2. AllSorted(p[n])
      BY <3>1, TermCharSorted
    <3> QED BY <3>1, <3>2
  <2> HIDE DEF B
  <2>3. 0 .. N \subseteq B
    BY <1>1, <2>1, <2>2, BoundedInduction
  <2> QED BY <1>1, <2>3 DEF B
<1> DEFINE e == p[N]
           o == w[N]
           P == e.placeholders
           all == IF e.curr = <<>> THEN e.args ELSE Append(e.args, e.curr)
<1>7. e \in ParseStates /\ o \in WrittenStates /\ parse_escaped_term(term) = Parsed(e) /\ TermAsWritten(argv) = Written(o)
  <2>1. N \in 0 .. N
    BY <1>1
  <2> QED BY <1>2, <2>1
<1>8. /\ e.aborted = FALSE
      /\ e.curr = <<>> => o.open = FALSE /\ NoWord(P, e.args, o.args, argv, name)
      /\ e.curr # <<>> /\ o.open => InWord(P, e.args, e.curr, o.args, o.curr, argv, name)
      /\ e.curr # <<>> /\ ~o.open => NoWord(P, Append(e.args, e.curr), o.args, argv, name)
  BY <1>6 DEF ReadAlike
<1> HIDE DEF e, o
<1>9. /\ e.args \in Seq(String) /\ e.curr \in String /\ o.args \in Seq(String) /\ o.curr \in String
      /\ o.open \in BOOLEAN
  BY <1>7 DEF ParseStates, WrittenStates
<1>10. /\ parse_escaped_term(term).args = all /\ parse_escaped_term(term).placeholders = P
       /\ parse_escaped_term(term).aborted = FALSE
  BY <1>7, <1>8 DEF Parsed, ParseStates
<1>16. PlacesSorted(P) /\ (~CommandEscaped(term) => \A i \in DOMAIN all : CommandStandsAlone(all[i]))
  <2>1. PlacesSorted(P)
    BY <1>15 DEF AllSorted, e
  <2>2. ASSUME ~CommandEscaped(term), NEW i \in DOMAIN all PROVE CommandStandsAlone(all[i])
    <3>1. /\ \A k \in 1 .. Len(e.args) : Bare(e.args[k])
          /\ Bare(e.curr) /\ Len(e.args) \in Nat /\ DOMAIN e.args = 1 .. Len(e.args)
      BY <1>9, <1>14, <2>2, LenProperties DEF AllBare, e
    <3>2. CASE e.curr = <<>>
      <4>1. all = e.args
        BY <3>2
      <4>2. Bare(all[i])
        BY <3>1, <4>1
      <4> QED BY <4>2, BareStandsAlone
    <3>3. CASE e.curr # <<>>
      <4>1. all = Append(e.args, e.curr)
        BY <3>3
      <4> HIDE DEF all
      <4>2. /\ all \in Seq(String) /\ Len(all) = Len(e.args) + 1 /\ all[Len(e.args) + 1] = e.curr
            /\ \A k \in 1 .. Len(e.args) : all[k] = e.args[k]
        BY <1>9, <4>1, AppendProperties
      <4>3. i \in 1 .. Len(all)
        BY <4>2, LenProperties
      <4>4. i \in 1 .. Len(e.args) \/ i = Len(e.args) + 1
        BY <3>1, <4>2, <4>3
      <4>5. Bare(all[i])
        BY <3>1, <4>2, <4>4
      <4> QED BY <4>5, BareStandsAlone
    <3> QED BY <3>2, <3>3
  <2> QED BY <2>1, <2>2
<1>17. ASSUME NEW debug \in BOOLEAN, TermAborts(term, debug) PROVE debug /\ CommandEscaped(term)
  <2> DEFINE parsed == parse_escaped_term(term)
  <2>1. /\ parsed.args = all /\ parsed.placeholders = P /\ parsed.aborted = FALSE
    BY <1>10
  <2>2. \/ parsed.aborted
        \/ debug /\ \E i \in DOMAIN parsed.args : ~CommandStandsAlone(parsed.args[i])
        \/ debug /\ ~PlacesSorted(parsed.placeholders)
    BY <1>17 DEF TermAborts
  <2> HIDE DEF parsed, all, P
  <2> QED BY <1>16, <2>1, <2>2
<1> HIDE DEF all, P, name
<1>11. NoWord(P, all, Written(o), argv, name) /\ Written(o) \in Seq(String) /\ all \in Seq(String)
  <2>1. Append(e.args, e.curr) \in Seq(String) /\ Append(o.args, o.curr) \in Seq(String)
    BY <1>9, AppendProperties
  <2>2. CASE e.curr = <<>>
    BY <1>8, <1>9, <2>2 DEF all, Written
  <2>3. CASE e.curr # <<>> /\ o.open
    <3>1. NoWord(P, Append(e.args, e.curr), Append(o.args, o.curr), argv, name)
      <4>1. InWord(P, e.args, e.curr, o.args, o.curr, argv, name)
        BY <1>8, <2>3
      <4> QED BY <1>9, <4>1, WordEnded
    <3> QED BY <2>1, <2>3, <3>1 DEF all, Written
  <2>4. CASE e.curr # <<>> /\ ~o.open
    BY <1>8, <1>9, <2>1, <2>4 DEF all, Written
  <2> QED BY <2>2, <2>3, <2>4
<1>12. custom_term_assembler(argv, term, app.name) = Filled(all, P, argv, name)
  <2>1. custom_term_assembler(argv, term, app.name)
          = Filled(parse_escaped_term(term).args, parse_escaped_term(term).placeholders, argv, app.name)
    BY DEF custom_term_assembler, Filled
  <2> QED BY <1>10, <2>1 DEF name
<1>13. Filled(all, P, argv, name) = Written(o)
  <2> DEFINE none == <<>>
             r == Written(o)
  <2>1. none \in Seq(String)
    OBVIOUS
  <2>2. Filled(all \o none, P, argv, name) = Written(o) \o none
    <3> HIDE DEF none
    <3> QED BY <1>11, <2>1 DEF NoWord
  <2>3. all \o <<>> = all
    BY <1>11, ConcatEmptySeq
  <2>4. r \in Seq(String)
    BY <1>11
  <2> HIDE DEF r
  <2>5. r \o <<>> = r
    BY <2>4, ConcatEmptySeq
  <2> QED BY <2>2, <2>3, <2>5 DEF r
<1> QED
  BY <1>7, <1>11, <1>12, <1>13, <1>17

-----------------------------------------------------------------------------
\* A custom terminal has been validated.
TermInv ==
    /\ CommandInv
    /\ opt.term_mode = "custom" => validate_custom_term(opt.term)

LEMMA TermInit == Init => TermInv
<1> SUFFICES ASSUME Init PROVE TermInv
  OBVIOUS
<1>1. opt.term_mode = "custom" => validate_custom_term(opt.term)
  BY DEF Init
<1> QED
  BY <1>1, CommandInit DEF TermInv

LEMMA TermNext == TermInv /\ [Next]_vars => TermInv'
<1> SUFFICES ASSUME TermInv, [Next]_vars PROVE TermInv'
  OBVIOUS
<1>1. CommandInv'
  BY CommandNext DEF TermInv
<1>2. opt' = opt
  BY DEF Next, lookup_name, custom_command, chdir_fails, convert, expand, expand_done,
     assemble_aborts, execute_normal, execute_fake, execute_i3, vars
<1>3. opt.term_mode = "custom" => validate_custom_term(opt.term)
  BY DEF TermInv
<1>4. opt'.term_mode = "custom" => validate_custom_term(opt'.term)
  BY <1>2, <1>3
<1> QED
  BY <1>1, <1>4 DEF TermInv

LEMMA TermCorrect == TermInv => CustomTermAssembled
<1> SUFFICES ASSUME TermInv, pc = "assemble", opt.term_mode = "custom"
             PROVE  /\ TermAborts(opt.term, opt.debug) => opt.debug /\ CommandEscaped(opt.term)
                    /\ custom_term_assembler(command, opt.term, app.name) = TermAsWritten(command)
  BY DEF CustomTermAssembled
<1> DEFINE term == opt.term
           argv == command
<1>1. /\ argv \in Seq(String) /\ app.name \in String /\ term \in String
      /\ validate_custom_term(term) /\ term = opt.term /\ opt.debug \in BOOLEAN
  BY DEF TermInv, CommandInv, Chosen, MenuApps, Opts
<1> HIDE DEF term, argv
<1>2. /\ \A debug \in BOOLEAN : TermAborts(term, debug) => debug /\ CommandEscaped(term)
      /\ custom_term_assembler(argv, term, app.name) = TermAsWritten(argv)
  BY <1>1, TermAssembled
<1> QED
  BY <1>1, <1>2 DEF term, argv

\* For every --term that validate_custom_term() accepts, every command and every name: filling
\* in the placeholders from right to left gives the arguments as written, no abort() of the
\* functions that use it is met, and of the checks of a DEBUG build only the one for {cmdline@}
\* may fail, and only where the user has escaped {cmdline@}.
THEOREM AlwaysCustomTermAssembled == Spec => []CustomTermAssembled
BY TermInit, TermNext, TermCorrect, PTL DEF Spec

-----------------------------------------------------------------------------
(* The types of all that is put together *)

\* The argv of a terminal emulator and of the wrapper
LEMMA ArgvType ==
    ASSUME TermInv, app \in MenuApps, NEW argv \in Seq(String)
    PROVE  wrapped(argv) \in Seq(String) /\ in_terminal(argv) \in Seq(String)
<1> DEFINE text == create_term_emulator_temp_script(argv)
           entry == app
           options == opt
<1>1. options \in Opts /\ entry \in MenuApps
  BY DEF TermInv, CommandInv, Chosen
<1>2. wrapped(argv) = Wrapper(options, argv) /\ in_terminal(argv) = Terminal(entry, options, argv)
  BY DEF in_terminal, term_assembler, Terminal, wrapped, Wrapper
<1>3. CASE ~(entry.terminal /\ options.term_mode = "custom")
  <2>1. entry.terminal /\ options.term_mode = "default" => text = create_term_emulator_temp_script(argv)
    OBVIOUS
  <2>2. ~(entry.terminal /\ options.term_mode = "custom")
    BY <1>3
  <2> HIDE DEF text, entry, options
  <2>3. Terminal(entry, options, argv) \in Seq(String)
    BY <1>1, <2>1, <2>2, TerminalUndone
  <2> QED BY <1>1, <1>2, <2>3, WrapperUndone
<1>4. CASE entry.terminal /\ options.term_mode = "custom"
  <2> DEFINE term == opt.term
  <2>1. term \in String /\ term = opt.term /\ validate_custom_term(term) /\ app.name \in String
    BY <1>1, <1>4 DEF TermInv, Opts, MenuApps
  <2> HIDE DEF term
  <2>2. custom_term_assembler(argv, term, app.name) \in Seq(String)
    BY <2>1, TermAssembled
  <2>3. in_terminal(argv) = custom_term_assembler(argv, term, app.name)
    BY <1>4 DEF in_terminal, term_assembler, term
  <2> QED BY <1>1, <1>2, <2>2, <2>3, WrapperUndone
<1> QED
  BY <1>3, <1>4

\* A command for a shell
LEMMA ShellArgvType ==
    ASSUME NEW line \in String
    PROVE  wrap_cmdstring_in_shell(line) \in Seq(String) /\ wrap_cmdstring_in_shell(line)[3] = line
<1> DEFINE a == <<"/bin/sh">>
           b == <<"-c">>
<1>1. "/bin/sh" \in Chars /\ "-c" \in Chars
  BY LiteralChars
<1>2. a \in String /\ b \in String
  BY <1>1, ShortCommands
<1>3. wrap_cmdstring_in_shell(line) = <<a, b, line>>
  BY DEF wrap_cmdstring_in_shell
<1> HIDE DEF a, b
<1>4. <<a, b, line>> \in Seq(String)
  BY <1>2, ShortCommands
<1> QED BY <1>3, <1>4

LEMMA CommandLineType ==
    ASSUME NEW argv \in Seq(String)
    PROVE  convert_argv_to_string(argv) \in String
BY StartIsFresh, CommandLineRead

TypeInv == TermInv /\ TypeOK

LEMMA TypeInit == Init => TypeInv
<1> SUFFICES ASSUME Init PROVE TypeInv
  OBVIOUS
<1>1. TermInv
  BY TermInit
<1>2. /\ pc = "lookup" /\ script = <<>> /\ out = <<>>
  BY DEF Init
<1>3. <<>> \in String /\ <<>> \in Seq(String)
  BY DEF String
<1>4. /\ menu \in Seq([shown: String, app: MenuApps]) /\ query \in String /\ opt \in Opts
      /\ choice \in [app: MenuApps \cup CustomApps, args: String]
      /\ command \in Seq(String) /\ iter \in 1 .. Len(command) + 1
  BY <1>1 DEF TermInv, CommandInv, Chosen
<1>5. script \in String /\ out \in IF opt.mode = "normal" THEN Seq(String) ELSE String
  BY <1>2, <1>3
<1> QED
  BY <1>1, <1>2, <1>4, <1>5 DEF TypeInv, TypeOK

\* The steps that write the result
LEMMA ResultType ==
    ASSUME TypeInv, custom_command \/ execute_normal \/ execute_fake \/ execute_i3
    PROVE  script' \in String /\ out' \in IF opt.mode = "normal" THEN Seq(String) ELSE String
<1>1. /\ opt \in Opts /\ command \in Seq(String) /\ script \in String /\ app.exec \in String
      /\ TermInv /\ (pc = "assemble" => app \in MenuApps)
  BY DEF TypeInv, TypeOK, TermInv, CommandInv, Chosen, app, MenuApps, CustomApps
<1>2. ASSUME NEW argv \in Seq(String), write_script(argv) PROVE script' \in String
  <2>1. create_term_emulator_temp_script(argv) \in String
    BY ShellRunsScript
  <2> QED BY <1>1, <1>2, <2>1 DEF write_script
<1>3. CASE custom_command
  <2> DEFINE shell == wrap_cmdstring_in_shell(app.exec)
             argv == wrapped(shell)
  <2>1. shell \in Seq(String)
    BY <1>1, ShellArgvType
  <2>2. argv = Wrapper(opt, shell)
    BY DEF wrapped, Wrapper
  <2>3. out' = (CASE opt.mode = "i3" -> app.exec
                  [] opt.mode = "no_exec" -> convert_argv_to_string(argv)
                  [] opt.mode = "normal" -> argv)
        /\ script' = script
    BY <1>3 DEF custom_command
  <2> HIDE DEF shell, argv
  <2>4. argv \in Seq(String)
    BY <1>1, <2>1, <2>2, WrapperUndone
  <2>5. convert_argv_to_string(argv) \in String
    BY <2>4, CommandLineType
  <2>6. opt.mode \in {"normal", "no_exec", "i3"}
    BY <1>1 DEF Opts, Modes
  <2>7. CASE opt.mode = "normal"
    BY <1>1, <2>3, <2>4, <2>7
  <2>8. CASE opt.mode = "no_exec"
    BY <1>1, <2>3, <2>5, <2>8
  <2>9. CASE opt.mode = "i3"
    BY <1>1, <2>3, <2>9
  <2> QED BY <2>6, <2>7, <2>8, <2>9
<1>4. CASE execute_normal \/ execute_fake
  <2> DEFINE inner == in_terminal(command)
             argv == wrapped(inner)
  <2>1. pc = "assemble" /\ write_script(command)
    BY <1>4 DEF execute_normal, execute_fake
  <2>2. inner \in Seq(String)
    BY <1>1, <2>1, ArgvType
  <2>3. \/ opt.mode = "normal" /\ out' = argv
        \/ opt.mode = "no_exec" /\ out' = convert_argv_to_string(argv)
    BY <1>4 DEF execute_normal, execute_fake
  <2> HIDE DEF inner
  <2>4. argv \in Seq(String)
    BY <1>1, <2>1, <2>2, ArgvType
  <2> HIDE DEF argv
  <2>5. convert_argv_to_string(argv) \in String
    BY <2>4, CommandLineType
  <2>6. script' \in String
    BY <1>1, <1>2, <2>1
  <2> QED BY <2>3, <2>4, <2>5, <2>6
<1>5. CASE execute_i3
  <2> DEFINE line == CdLine(app.path, command)
             argv == IF app.path = <<>> THEN command ELSE cd_to_path(command)
  <2>1. /\ pc = "assemble" /\ opt.mode = "i3" /\ write_script(argv)
        /\ out' = IF app.path # <<>> /\ ~app.terminal THEN argv[3] ELSE convert_argv_to_string(in_terminal(argv))
    BY <1>5 DEF execute_i3
  <2>2. line \in String
    BY <1>1, <2>1, ShellRunsCd DEF MenuApps
  <2>3. cd_to_path(command) = wrap_cmdstring_in_shell(line)
    BY DEF cd_to_path, CdLine
  <2> HIDE DEF line
  <2>4. argv \in Seq(String) /\ (app.path # <<>> => argv[3] \in String)
    BY <1>1, <2>2, <2>3, ShellArgvType
  <2> HIDE DEF argv
  <2> DEFINE inner == in_terminal(argv)
  <2>5. inner \in Seq(String)
    BY <1>1, <2>1, <2>4, ArgvType
  <2> HIDE DEF inner
  <2>6. convert_argv_to_string(inner) \in String
    BY <2>5, CommandLineType
  <2>7. script' \in String
    BY <1>2, <2>1, <2>4
  <2> QED BY <2>1, <2>4, <2>6, <2>7 DEF inner
<1> QED
  BY <1>3, <1>4, <1>5

LEMMA TypeNext == TypeInv /\ [Next]_vars => TypeInv'
<1> SUFFICES ASSUME TypeInv, [Next]_vars PROVE TypeInv'
  OBVIOUS
<1>1. TermInv'
  BY TermNext DEF TypeInv
<1>2. /\ (menu \in Seq([shown: String, app: MenuApps]) /\ query \in String /\ opt \in Opts)'
      /\ (choice \in [app: MenuApps \cup CustomApps, args: String])'
      /\ (command \in Seq(String) /\ iter \in 1 .. Len(command) + 1)'
  BY <1>1 DEF TermInv, CommandInv, Chosen
<1>3. pc' \in {"lookup", "start", "expand", "assemble", "done", "exit", "terminate", "abort"} /\ opt' = opt
  BY DEF TypeInv, TypeOK, Next, vars, lookup_name, custom_command, chdir_fails, convert, expand,
     expand_done, assemble_aborts, execute_normal, execute_fake, execute_i3
<1>4. script' \in String /\ out' \in IF opt.mode = "normal" THEN Seq(String) ELSE String
  <2>1. CASE custom_command \/ execute_normal \/ execute_fake \/ execute_i3
    BY <2>1, ResultType
  <2>2. CASE \/ lookup_name \/ chdir_fails \/ convert \/ expand \/ expand_done \/ assemble_aborts
             \/ UNCHANGED vars
    <3>1. script' = script /\ out' = out
      BY <2>2 DEF lookup_name, chdir_fails, convert, expand, expand_done, assemble_aborts, vars
    <3>2. script \in String /\ out \in IF opt.mode = "normal" THEN Seq(String) ELSE String
      BY DEF TypeInv, TypeOK
    <3> QED BY <3>1, <3>2
  <2> QED BY <2>1, <2>2 DEF Next
<1>5. (out \in IF opt.mode = "normal" THEN Seq(String) ELSE String)'
  BY <1>3, <1>4
<1>6. TypeOK'
  BY <1>2, <1>3, <1>4, <1>5 DEF TypeOK
<1> QED
  BY <1>1, <1>6 DEF TypeInv

\* What is executed is a sequence of strings and what is printed or sent is a string,
\* whatever the Exec key, the terminal and the user's input are.
THEOREM TypeCorrect == Spec => []TypeOK
<1>1. TypeInv => TypeOK
  BY DEF TypeInv
<1> QED
  BY <1>1, TypeInit, TypeNext, PTL DEF Spec

-----------------------------------------------------------------------------
(* The conversation with i3 *)

\* What is sent, what comes back, and what a response consists of; the provers do not know
\* that a literal is a string.
Units ==
    Chars \cup String \cup Nat \cup {"i3-", "ipc", "exec "}
    \cup {DQ, "success", "error", ":", "true", "false", "nul"}

\* How much of the reply is left: readn() asks for no more than that.
ReplyLeft ==
    \/ /\ field = 1 /\ tot \in 0 .. 1
       /\ stream[3 - tot] \in Nat /\ Len(stream) = 4 - tot + stream[3 - tot]
    \/ field = 2 /\ tot = 0 /\ stream[1] \in Nat /\ Len(stream) = 2 + stream[1]
    \/ field = 3 /\ tot = 0 /\ message_length \in Nat /\ Len(stream) = 1 + message_length
    \/ /\ field = 4 /\ tot \in Nat /\ message_length \in Nat
       /\ tot < message_length /\ Len(stream) = message_length - tot

ConnInv ==
    /\ stream \in Seq(Units)
    /\ opt.mode # "i3" => conn = "none"
    /\ conn \in {"none", "path", "long_path"} => inbox = <<>> /\ tot = 0
    /\ conn = "writen" => tot \in 0 .. Len(Message) - 1 /\ inbox = SubSeq(Message, 1, tot)
    /\ I3GetsCommand
    /\ conn \in {"none", "path", "long_path", "writen"} => field = 1 /\ i3 # "answered"
    /\ i3 = "up" => stream = <<>> /\ (conn = "readn" => field = 1 /\ tot = 0)
    /\ conn = "readn" /\ i3 = "answered" => ReplyLeft

\* A header in front of a payload
LEMMA HeaderAndPayload ==
    ASSUME NEW U, NEW a \in U, NEW b \in U, NEW c \in U, NEW d \in U, NEW e \in U,
           NEW p \in Seq(U)
    PROVE  /\ <<a, b, c, d, e>> \o p \in Seq(U)
           /\ Len(<<a, b, c, d, e>> \o p) = 5 + Len(p)
           /\ (<<a, b, c, d, e>> \o p)[3] = c
<1> DEFINE h == <<a, b, c, d, e>>
<1>1. h \in Seq(U) /\ Len(h) = 5 /\ h[3] = c
  OBVIOUS
<1> HIDE DEF h
<1>2. Len(p) \in Nat
  BY LenProperties
<1>3. /\ h \o p \in Seq(U) /\ Len(h \o p) = Len(h) + Len(p)
      /\ \A i \in 1 .. Len(h) + Len(p) : (h \o p)[i] = IF i <= Len(h) THEN h[i] ELSE p[i - Len(h)]
  BY <1>1, ConcatProperties
<1>4. 3 \in 1 .. Len(h) + Len(p) /\ 3 <= Len(h)
  BY <1>1, <1>2
<1>5. h \o p \in Seq(U) /\ Len(h \o p) = 5 + Len(p) /\ (h \o p)[3] = c
  BY <1>1, <1>3, <1>4
<1> QED
  BY <1>5 DEF h

\* The message is a sequence, with its length in the header.
LEMMA MessageOf ==
    ASSUME NEW o \in Seq(Chars) \cup Seq(String)
    PROVE  LET m == <<"i3-", "ipc", 1 + Len(o), 0, "exec ">> \o o
           IN  m \in Seq(Units) /\ Len(m) = 5 + Len(o) /\ Len(o) \in Nat /\ m[3] = 1 + Len(o)
<1>1. Len(o) \in Nat
  BY LenProperties
<1>2. /\ Chars \subseteq Units /\ String \subseteq Units /\ Nat \subseteq Units
      /\ {"i3-", "ipc", "exec "} \subseteq Units
  BY Zenon DEF Units
<1>3. o \in Seq(Units)
  BY <1>2, SeqMonotonic
<1>4. 1 + Len(o) \in Nat /\ 0 \in Nat
  BY <1>1
<1>5. /\ "i3-" \in Units /\ "ipc" \in Units /\ 1 + Len(o) \in Units /\ 0 \in Units
      /\ "exec " \in Units
  BY <1>2, <1>4, Zenon
<1> DEFINE a == "i3-"
           b == "ipc"
           length == 1 + Len(o)
           d == 0
           e == "exec "
           m == <<a, b, length, d, e>> \o o
<1>7. a \in Units /\ b \in Units /\ length \in Units /\ d \in Units /\ e \in Units
  BY <1>5
<1>8. length = 1 + Len(o)
  OBVIOUS
<1> HIDE DEF a, b, length, d, e
<1>9. m \in Seq(Units) /\ Len(m) = 5 + Len(o) /\ m[3] = length
  BY <1>3, <1>7, HeaderAndPayload
<1> QED
  BY <1>1, <1>8, <1>9 DEF a, b, length, d, e

\* An empty inbox is the beginning of any message, and so is a part of it.
LEMMA PrefixOfMessage ==
    ASSUME NEW s \in Seq(Units), NEW n \in 0 .. Len(s)
    PROVE  /\ SubSeq(s, 1, n) \in Seq(Units) /\ Len(SubSeq(s, 1, n)) = n
           /\ \A i \in 1 .. n : SubSeq(s, 1, n)[i] = s[i]
           /\ IsPrefix(SubSeq(s, 1, n), s)
           /\ n = Len(s) => SubSeq(s, 1, n) = s
           /\ n = 0 => SubSeq(s, 1, n) = <<>>
<1> DEFINE t == SubSeq(s, 1, n)
<1>1. Len(s) \in Nat /\ n \in Nat /\ n <= Len(s)
  BY LenProperties
<1>2. t \in Seq(Units) /\ Len(t) = n /\ \A i \in 1 .. n : t[i] = s[i]
  BY <1>1
<1> HIDE DEF t
<1>3. SubSeq(t, 1, n) = t
  <2>1. SubSeq(t, 1, n) \in Seq(Units) /\ Len(SubSeq(t, 1, n)) = n
        /\ \A i \in 1 .. n : SubSeq(t, 1, n)[i] = t[i]
    BY <1>1, <1>2
  <2> QED BY <1>1, <1>2, <2>1, SeqEqual
<1>4. n = Len(s) => t = s
  BY <1>1, <1>2, SeqEqual
<1>5. n = 0 => t = <<>>
  BY <1>2, EmptySeq
<1> QED
  BY <1>1, <1>2, <1>3, <1>4, <1>5 DEF IsPrefix, t

\* A write() goes on where the last one ended.
LEMMA NextPart ==
    ASSUME NEW s \in Seq(Units), NEW m \in 0 .. Len(s), NEW n \in Nat, m + n <= Len(s)
    PROVE  SubSeq(s, 1, m) \o SubSeq(s, m + 1, m + n) = SubSeq(s, 1, m + n)
<1> DEFINE a == SubSeq(s, 1, m)
           b == SubSeq(s, m + 1, m + n)
           c == SubSeq(s, 1, m + n)
<1>1. Len(s) \in Nat /\ m \in Nat
  BY LenProperties
<1>2. a \in Seq(Units) /\ Len(a) = m /\ \A i \in 1 .. m : a[i] = s[i]
  BY <1>1
<1>3. b \in Seq(Units) /\ Len(b) = n /\ \A i \in 1 .. n : b[i] = s[m + i]
  BY <1>1
<1>4. c \in Seq(Units) /\ Len(c) = m + n /\ \A i \in 1 .. m + n : c[i] = s[i]
  BY <1>1
<1> HIDE DEF a, b, c
<1>5. /\ a \o b \in Seq(Units) /\ Len(a \o b) = Len(a) + Len(b)
      /\ \A i \in 1 .. Len(a) + Len(b) : (a \o b)[i] = IF i <= Len(a) THEN a[i] ELSE b[i - Len(a)]
  BY <1>2, <1>3, ConcatProperties
<1>6. ASSUME NEW i \in 1 .. m + n PROVE (a \o b)[i] = c[i]
  <2>1. (a \o b)[i] = IF i <= m THEN a[i] ELSE b[i - m]
    BY <1>2, <1>3, <1>5
  <2>2. CASE i <= m
    BY <1>1, <1>2, <1>4, <2>1, <2>2
  <2>3. CASE i > m
    <3> DEFINE k == i - m
    <3>1. k \in 1 .. n /\ m + k = i
      BY <1>1, <2>3
    <3>2. (a \o b)[i] = b[k]
      BY <1>1, <2>1, <2>3
    <3> HIDE DEF k
    <3>3. b[k] = s[m + k]
      BY <1>3, <3>1
    <3>4. c[i] = s[i]
      BY <1>4
    <3> QED BY <3>1, <3>2, <3>3, <3>4
  <2>4. i <= m \/ i > m
    BY <1>1
  <2> QED BY <2>2, <2>3, <2>4
<1>7. a \o b = c
  BY <1>1, <1>2, <1>3, <1>4, <1>5, <1>6, SeqEqual
<1> QED
  BY <1>7 DEF a, b, c

\* The message, now and after a step
LEMMA MessageFacts ==
    ASSUME TypeOK
    PROVE  /\ Message \in Seq(Units) /\ Len(Message) = 5 + Len(out) /\ Len(out) \in Nat
           /\ Message[3] = 1 + Len(out)
<1>1. out \in Seq(Chars) \cup Seq(String)
  BY DEF TypeOK, String
<1> QED
  BY <1>1, MessageOf DEF Message

LEMMA ConnInit == I3Init /\ TypeOK => ConnInv
<1> SUFFICES ASSUME I3Init, TypeOK PROVE ConnInv
  OBVIOUS
<1>1. Message \in Seq(Units) /\ Len(Message) \in Nat
  BY MessageFacts
<1>2. IsPrefix(<<>>, Message)
  <2>1. 0 \in 0 .. Len(Message)
    BY <1>1
  <2> QED BY <1>1, <2>1, PrefixOfMessage
<1>3. <<>> \in Seq(Units)
  OBVIOUS
<1> QED
  BY <1>2, <1>3 DEF I3Init, ConnInv, I3GetsCommand

\* The command is put together before anything is sent.
LEMMA PreparingKeeps ==
    ASSUME TypeOK', ConnInv, Next, opt.mode = "i3" => conn \in {"path", "long_path"},
           UNCHANGED conn_vars
    PROVE  ConnInv'
<1>1. Message' \in Seq(Units) /\ Len(Message') \in Nat
  <2>1. out' \in Seq(Chars) \cup Seq(String)
    BY DEF TypeOK, String
  <2>2. Len(out') \in Nat
    BY <2>1, LenProperties
  <2> DEFINE m == <<"i3-", "ipc", 1 + Len(out'), 0, "exec ">> \o out'
  <2>3. m \in Seq(Units) /\ Len(m) = 5 + Len(out')
    BY <2>1, MessageOf
  <2>4. Message' = m
    BY DEF Message
  <2> HIDE DEF m
  <2> QED BY <2>2, <2>3, <2>4
<1>2. IsPrefix(<<>>, Message')
  <2>1. 0 \in 0 .. Len(Message')
    BY <1>1
  <2> QED BY <1>1, <2>1, PrefixOfMessage
<1>3. opt' = opt
  BY DEF Next, lookup_name, custom_command, chdir_fails, convert, expand, expand_done,
     assemble_aborts, execute_normal, execute_fake, execute_i3
<1>4. conn \in {"none", "path", "long_path"} /\ inbox = <<>> /\ conn' = conn
  BY DEF ConnInv, conn_vars
<1> QED
  BY <1>2, <1>3, <1>4 DEF ConnInv, I3GetsCommand, conn_vars

\* A write() of any part of the message
LEMMA WriteKeeps ==
    ASSUME TypeOK, ConnInv, NEW n \in 1 .. Len(Message), write(n)
    PROVE  ConnInv'
<1> DEFINE M == Message
<1>1. M \in Seq(Units) /\ Len(M) \in Nat /\ Message' = M /\ opt' = opt
  <2>1. M \in Seq(Units) /\ Len(M) = 5 + Len(out) /\ Len(out) \in Nat
    BY MessageFacts
  <2>2. out' = out /\ opt' = opt
    BY DEF write, vars
  <2>3. Message' = M
    BY <2>2 DEF Message
  <2> HIDE DEF M
  <2> QED BY <2>1, <2>2, <2>3
<1>2. /\ conn = "writen" /\ tot \in 0 .. Len(M) - 1 /\ inbox = SubSeq(M, 1, tot)
      /\ field = 1 /\ i3 # "answered"
  BY DEF write, ConnInv
<1>3. /\ inbox' = inbox \o SubSeq(M, tot + 1, tot + n) /\ n <= Len(M) - tot
      /\ tot' = (IF tot + n = Len(M) THEN 0 ELSE tot + n)
      /\ conn' = (IF tot + n = Len(M) THEN "readn" ELSE "writen")
      /\ UNCHANGED <<i3, stream, field>>
  BY DEF write
<1> HIDE DEF M
<1>4. tot \in 0 .. Len(M) /\ n \in Nat /\ tot + n <= Len(M) /\ tot + n \in 0 .. Len(M) /\ tot + n \in Nat
  BY <1>1, <1>2, <1>3 DEF M
<1>5. inbox' = SubSeq(M, 1, tot + n)
  BY <1>1, <1>2, <1>3, <1>4, NextPart
<1>6. IsPrefix(inbox', M) /\ (tot + n = Len(M) => inbox' = M)
  BY <1>1, <1>4, <1>5, PrefixOfMessage
<1>7. CASE tot + n = Len(M)
  BY <1>1, <1>2, <1>3, <1>6, <1>7 DEF ConnInv, I3GetsCommand
<1>8. CASE tot + n # Len(M)
  <2>1. tot' = tot + n /\ conn' = "writen" /\ tot' \in 0 .. Len(M) - 1
    BY <1>1, <1>3, <1>4, <1>8
  <2> QED BY <1>1, <1>2, <1>3, <1>5, <1>6, <2>1 DEF ConnInv, I3GetsCommand
<1> QED
  BY <1>7, <1>8

\* i3 answers when it has the whole message, and not before.
LEMMA AnswerKeeps ==
    ASSUME TypeOK, ConnInv, NEW reply \in Replies, i3_answer(reply)
    PROVE  ConnInv'
<1> DEFINE M == Message
           L == Len(reply.text)
<1>1. /\ M \in Seq(Units) /\ Len(M) = 5 + Len(out) /\ Len(out) \in Nat /\ M[3] = 1 + Len(out)
  BY MessageFacts
<1>2. Message' = M /\ opt' = opt
  BY DEF i3_answer, vars, Message
<1>3. conn \notin {"none", "path", "long_path", "writen"}
  <2>1. i3 = "up" /\ Len(inbox) >= 4 /\ Len(inbox) = 4 + inbox[3]
    BY DEF i3_answer
  <2>2. ASSUME conn \in {"none", "path", "long_path"} PROVE FALSE
    <3>1. inbox = <<>>
      BY <2>2 DEF ConnInv
    <3> QED BY <2>1, <3>1
  <2>3. ASSUME conn = "writen" PROVE FALSE
    <3>1. tot \in 0 .. Len(M) - 1 /\ inbox = SubSeq(M, 1, tot)
      BY <2>3 DEF ConnInv
    <3> HIDE DEF M
    <3>2. tot \in 0 .. Len(M)
      BY <1>1, <3>1
    <3>3. Len(inbox) = tot /\ \A i \in 1 .. tot : inbox[i] = M[i]
      BY <1>1, <3>1, <3>2, PrefixOfMessage
    <3>4. 3 \in 1 .. tot
      BY <1>1, <2>1, <3>2, <3>3
    <3>5. inbox[3] = 1 + Len(out)
      BY <1>1, <3>3, <3>4
    <3>6. tot = 4 + (1 + Len(out))
      BY <2>1, <3>3, <3>5
    <3> QED BY <1>1, <3>1, <3>6
  <2> QED BY <2>2, <2>3
<1>4. L \in Nat /\ stream' \in Seq(Units) /\ Len(stream') = 4 + L /\ stream'[3] = L
  <2>1. reply.text \in Seq(Chars) /\ L \in Nat
    BY I3Assumption, LenProperties DEF String
  <2>2. Chars \subseteq Units /\ Nat \subseteq Units /\ {"i3-", "ipc", "exec "} \subseteq Units
    BY Zenon DEF Units
  <2>3. reply.text \in Seq(Units)
    BY <2>1, <2>2, SeqMonotonic
  <2>4. "i3-" \in Units /\ "ipc" \in Units /\ L \in Units
    BY <2>1, <2>2, Zenon
  <2>5. 0 \in Nat
    OBVIOUS
  <2>6. 0 \in Units
    BY <2>2, <2>5, Zenon
  <2> DEFINE a == "i3-"
             b == "ipc"
             d == 0
             p == reply.text
             h == <<a, b, L, d>>
  <2>7. a \in Units /\ b \in Units /\ d \in Units
    BY <2>4, <2>6
  <2>8. stream' = h \o p
    BY DEF i3_answer
  <2>9. p \in Seq(Units) /\ Len(p) = L
    BY <2>3
  <2> HIDE DEF a, b, d, p, L
  <2>10. h \in Seq(Units) /\ Len(h) = 4 /\ h[3] = L
    BY <2>4, <2>7
  <2> HIDE DEF h
  <2>11. /\ h \o p \in Seq(Units) /\ Len(h \o p) = Len(h) + Len(p)
         /\ \A i \in 1 .. Len(h) + Len(p) : (h \o p)[i] = IF i <= Len(h) THEN h[i] ELSE p[i - Len(h)]
    BY <2>9, <2>10, ConcatProperties
  <2>12. 3 \in 1 .. Len(h) + Len(p) /\ 3 <= Len(h)
    BY <2>1, <2>9, <2>10
  <2> QED BY <2>1, <2>8, <2>9, <2>10, <2>11, <2>12
<1>5. /\ i3 = "up" /\ i3' = "answered" /\ UNCHANGED <<conn, tot, inbox, field, message_length>>
  BY DEF i3_answer
<1> HIDE DEF M, L
<1>6. ASSUME conn' = "readn" PROVE ReplyLeft'
  <2>1. field' = 1 /\ tot' = 0
    BY <1>5, <1>6 DEF ConnInv
  <2>2. stream'[3 - tot'] = L /\ Len(stream') = 4 - tot' + L
    BY <1>4, <2>1
  <2> QED BY <1>4, <2>1, <2>2 DEF ReplyLeft
<1>7. I3GetsCommand'
  BY <1>2, <1>5 DEF ConnInv, I3GetsCommand, M
<1> QED
  BY <1>2, <1>3, <1>4, <1>5, <1>6, <1>7 DEF ConnInv

\* A read() never takes more than is left, and leaves what the next ones ask for.
LEMMA ReadLeaves ==
    ASSUME ConnInv, NEW n \in 1 .. Len(stream), read(n), i3 = "answered"
    PROVE  conn' = "parse" \/ (conn' = "readn" /\ ReplyLeft')
<1>1. /\ conn = "readn" /\ ReplyLeft /\ stream \in Seq(Units) /\ Len(stream) \in Nat
      /\ n <= Len(stream) /\ n \in Nat /\ n > 0
  BY LenProperties DEF read, ConnInv
<1>2. /\ n <= Wanted[field] - tot /\ stream' = SubSeq(stream, n + 1, Len(stream))
      /\ message_length' = IF field = 2 THEN Head(stream) ELSE message_length
      /\ IF tot + n = Wanted[field] THEN NextField(message_length')
         ELSE tot' = tot + n /\ UNCHANGED <<conn, field>>
  BY DEF read
<1>3. stream' \in Seq(Units) /\ Len(stream') = Len(stream) - n
      /\ \A i \in 1 .. Len(stream) - n : stream'[i] = stream[n + i]
  <2> DEFINE s == stream
             t == SubSeq(s, n + 1, Len(s))
  <2>1. s \in Seq(Units) /\ Len(s) \in Nat
    BY <1>1
  <2> HIDE DEF s
  <2>2. t \in Seq(Units) /\ Len(t) = Len(s) - n /\ \A i \in 1 .. Len(s) - n : t[i] = s[n + i]
    BY <2>1 DEF s
  <2> HIDE DEF t
  <2>3. stream' = t
    BY <1>2 DEF s, t
  <2> QED BY <2>2, <2>3 DEF s
<1>4. CASE field = 1
  <2>1. /\ tot \in 0 .. 1 /\ stream[3 - tot] \in Nat /\ Len(stream) = 4 - tot + stream[3 - tot]
    BY <1>1, <1>4 DEF ReplyLeft
  <2>2. Wanted[field] = 2
    BY <1>4 DEF Wanted
  <2>3. CASE tot + n = 2
    <3>1. tot' = 0 /\ conn' = "readn" /\ field' = 2
      BY <1>1, <1>2, <1>4, <2>2, <2>3 DEF NextField
    <3>2. n + 1 = 3 - tot /\ 1 \in 1 .. Len(stream) - n
      BY <1>1, <2>1, <2>3
    <3>3. stream'[1] = stream[3 - tot]
      BY <1>3, <3>2
    <3>4. stream'[1] \in Nat /\ Len(stream') = 2 + stream'[1]
      BY <1>1, <1>3, <2>1, <2>3, <3>3
    <3> QED BY <3>1, <3>4 DEF ReplyLeft
  <2>4. CASE tot + n # 2
    <3>1. tot = 0 /\ n = 1
      BY <1>1, <1>2, <2>1, <2>2, <2>4
    <3>2. tot' = 1 /\ conn' = "readn" /\ field' = 1
      BY <1>1, <1>2, <1>4, <2>2, <3>1
    <3>3. 2 \in 1 .. Len(stream) - n /\ n + 2 = 3
      BY <1>1, <2>1, <3>1
    <3>4. stream'[2] = stream[3]
      BY <1>3, <3>3
    <3>5. stream'[2] \in Nat /\ Len(stream') = 3 + stream'[2]
      BY <1>1, <1>3, <2>1, <3>1, <3>4
    <3>6. 3 - tot' = 2 /\ 4 - tot' = 3
      BY <3>2
    <3> QED BY <3>2, <3>5, <3>6 DEF ReplyLeft
  <2> QED BY <2>3, <2>4
<1>5. CASE field = 2
  <2>1. tot = 0 /\ stream[1] \in Nat /\ Len(stream) = 2 + stream[1]
    BY <1>1, <1>5 DEF ReplyLeft
  <2>2. Wanted[field] = 1
    BY <1>5 DEF Wanted
  <2>3. n = 1
    BY <1>1, <1>2, <2>1, <2>2
  <2>4. message_length' = stream[1]
    BY <1>1, <1>2, <1>5
  <2>5. tot' = 0 /\ conn' = "readn" /\ field' = 3
    BY <1>1, <1>2, <1>5, <2>1, <2>2, <2>3 DEF NextField
  <2>6. Len(stream') = 1 + message_length'
    BY <1>1, <1>3, <2>1, <2>3, <2>4
  <2> QED BY <2>1, <2>4, <2>5, <2>6 DEF ReplyLeft
<1>6. CASE field = 3
  <2>1. tot = 0 /\ message_length \in Nat /\ Len(stream) = 1 + message_length
    BY <1>1, <1>6 DEF ReplyLeft
  <2>2. Wanted[field] = 1
    BY <1>6 DEF Wanted
  <2>3. n = 1 /\ message_length' = message_length
    BY <1>1, <1>2, <1>6, <2>1, <2>2
  <2>4. NextField(message_length)
    BY <1>2, <2>1, <2>2, <2>3
  <2>5. CASE message_length = 0
    BY <1>6, <2>4, <2>5 DEF NextField
  <2>6. CASE message_length # 0
    <3>1. tot' = 0 /\ conn' = "readn" /\ field' = 4
      BY <1>1, <1>6, <2>4, <2>6 DEF NextField
    <3>2. Len(stream') = message_length' - tot' /\ tot' < message_length'
      BY <1>1, <1>3, <2>1, <2>3, <2>6, <3>1
    <3> QED BY <2>1, <2>3, <3>1, <3>2 DEF ReplyLeft
  <2> QED BY <2>5, <2>6
<1>7. CASE field = 4
  <2>1. /\ tot \in Nat /\ message_length \in Nat /\ tot < message_length
        /\ Len(stream) = message_length - tot
    BY <1>1, <1>7 DEF ReplyLeft
  <2>2. Wanted[field] = message_length /\ message_length' = message_length
    BY <1>2, <1>7 DEF Wanted
  <2>3. CASE tot + n = message_length
    BY <1>2, <1>7, <2>2, <2>3 DEF NextField
  <2>4. CASE tot + n # message_length
    <3>1. tot' = tot + n /\ conn' = "readn" /\ field' = 4
      BY <1>1, <1>2, <1>7, <2>2, <2>4
    <3>2. tot' \in Nat /\ tot' < message_length' /\ Len(stream') = message_length' - tot'
      BY <1>1, <1>2, <1>3, <2>1, <2>2, <2>4, <3>1
    <3> QED BY <2>1, <2>2, <3>1, <3>2 DEF ReplyLeft
  <2> QED BY <2>3, <2>4
<1> QED
  BY <1>1, <1>4, <1>5, <1>6, <1>7 DEF ReplyLeft

LEMMA ReadKeeps ==
    ASSUME ConnInv, NEW n \in 1 .. Len(stream), read(n)
    PROVE  ConnInv'
<1>1. /\ conn = "readn" /\ UNCHANGED <<vars, inbox, i3, results>>
      /\ stream' = SubSeq(stream, n + 1, Len(stream)) /\ n <= Len(stream)
      /\ conn' \in {"parse", "readn"}
  BY DEF read, NextField
<1>2. stream \in Seq(Units) /\ Len(stream) \in Nat
  BY LenProperties DEF ConnInv
<1>3. stream' \in Seq(Units)
  BY <1>1, <1>2
<1>4. i3 # "up"
  <2> SUFFICES ASSUME i3 = "up" PROVE FALSE
    OBVIOUS
  <2>1. Len(stream) = 0
    BY DEF ConnInv
  <2> QED BY <2>1
<1>5. out' = out /\ opt' = opt /\ Message' = Message
  BY <1>1 DEF vars, Message
<1>6. conn' = "readn" /\ i3' = "answered" => ReplyLeft'
  BY <1>1, ReadLeaves
<1>7. I3GetsCommand' /\ opt.mode = "i3"
  BY <1>1, <1>5 DEF ConnInv, I3GetsCommand
<1> QED
  BY <1>1, <1>3, <1>4, <1>5, <1>6, <1>7 DEF ConnInv

\* connect() is at the beginning of the message.
LEMMA ConnectKeeps ==
    ASSUME TypeOK, ConnInv, connect
    PROVE  ConnInv'
<1>1. Message \in Seq(Units) /\ Len(Message) = 5 + Len(out) /\ Len(out) \in Nat
  BY MessageFacts
<1>2. Message' = Message /\ opt' = opt
  BY DEF connect, vars, Message
<1>3. /\ conn \in {"path", "long_path"} /\ conn' \in {"writen", "exit"}
      /\ UNCHANGED <<tot, inbox, i3, stream, field>>
  BY DEF connect
<1>4. 0 \in 0 .. Len(Message) /\ 0 \in 0 .. Len(Message) - 1
  BY <1>1
<1>5. inbox = SubSeq(Message, 1, 0) /\ tot = 0
  <2>1. SubSeq(Message, 1, 0) = <<>>
    BY <1>1, <1>4, PrefixOfMessage
  <2> QED BY <1>3, <2>1 DEF ConnInv
<1> QED
  BY <1>2, <1>3, <1>4, <1>5 DEF ConnInv, I3GetsCommand

\* Fetching the path, the errors, the end of i3, of the stream and of the conversation
\* send nothing.
LEMMA SilentKeeps ==
    ASSUME ConnInv,
           \/ \E result \in SocketPaths : get_ipc_socket_path(result)
           \/ write_fails \/ i3_close \/ read_eof \/ read_fails \/ parse
           \/ UNCHANGED i3_vars
    PROVE  ConnInv'
<1>1. UNCHANGED <<out, opt, inbox>>
  BY DEF get_ipc_socket_path, write_fails, i3_close, read_eof, read_fails, parse, i3_vars, vars,
     conn_vars
<1>2. Message' = Message
  BY <1>1 DEF Message
<1>3. CASE \E result \in SocketPaths : get_ipc_socket_path(result)
  <2>1. /\ opt.mode = "i3" /\ conn = "none" /\ conn' \in {"exit", "long_path", "path"}
        /\ UNCHANGED <<tot, i3, stream, field>>
    BY <1>3 DEF get_ipc_socket_path
  <2> QED BY <1>1, <1>2, <2>1 DEF ConnInv, I3GetsCommand
<1>4. CASE write_fails \/ read_fails
  <2>1. conn \in {"writen", "readn"} /\ conn' = "exit" /\ UNCHANGED <<tot, i3, stream, field>>
    BY <1>4 DEF write_fails, read_fails
  <2> QED BY <1>1, <1>2, <2>1 DEF ConnInv, I3GetsCommand
<1>5. CASE i3_close
  <2>1. i3' = "closed" /\ stream' = <<>> /\ UNCHANGED <<conn, tot, field>>
    BY <1>5 DEF i3_close
  <2>2. <<>> \in Seq(Units)
    OBVIOUS
  <2> QED BY <1>1, <1>2, <2>1, <2>2 DEF ConnInv, I3GetsCommand
<1>6. CASE read_eof
  <2>1. /\ conn = "readn" /\ i3 = "closed" /\ conn' \in {"parse", "readn"}
        /\ UNCHANGED <<i3, stream>>
    BY <1>6 DEF read_eof, NextField
  <2> QED BY <1>1, <1>2, <2>1 DEF ConnInv, I3GetsCommand
<1>7. CASE parse
  <2>1. conn = "parse" /\ conn' \in {"returned", "refused", "abort"} /\ UNCHANGED <<tot, i3, stream, field>>
    BY <1>7 DEF parse
  <2> QED BY <1>1, <1>2, <2>1 DEF ConnInv, I3GetsCommand
<1>8. CASE UNCHANGED i3_vars
  BY <1>1, <1>2, <1>8 DEF ConnInv, I3GetsCommand, ReplyLeft, i3_vars, conn_vars
<1> QED
  BY <1>3, <1>4, <1>5, <1>6, <1>7, <1>8

LEMMA ConnNext == TypeOK /\ TypeOK' /\ ConnInv /\ [I3Next]_i3_vars => ConnInv'
<1> SUFFICES ASSUME TypeOK, TypeOK', ConnInv, [I3Next]_i3_vars PROVE ConnInv'
  OBVIOUS
<1>1. CASE Next /\ (opt.mode = "i3" => conn \in {"path", "long_path"}) /\ UNCHANGED conn_vars
  BY <1>1, PreparingKeeps
<1>2. CASE connect
  BY <1>2, ConnectKeeps
<1>3. CASE \E n \in 1 .. Len(Message) : write(n)
  BY <1>3, WriteKeeps
<1>4. CASE \E reply \in Replies : i3_answer(reply)
  BY <1>4, AnswerKeeps
<1>5. CASE \E n \in 1 .. Len(stream) : read(n)
  BY <1>5, ReadKeeps
<1>6. CASE \/ \E result \in SocketPaths : get_ipc_socket_path(result)
           \/ write_fails \/ i3_close \/ read_eof \/ read_fails \/ parse
           \/ UNCHANGED i3_vars
  BY <1>6, SilentKeeps
<1> QED
  BY <1>1, <1>2, <1>3, <1>4, <1>5, <1>6 DEF I3Next

\* The conversation leaves what is sent alone.
LEMMA I3Type == I3Spec => []TypeOK
<1>1. I3Init => TypeInv
  BY TypeInit DEF I3Init
<1>2. TypeInv /\ [I3Next]_i3_vars => TypeInv'
  <2> SUFFICES ASSUME TypeInv, [I3Next]_i3_vars PROVE TypeInv'
    OBVIOUS
  <2>1. Next \/ UNCHANGED vars
    BY DEF I3Next, i3_vars, get_ipc_socket_path, connect, write, write_fails, i3_answer, i3_close,
       read, read_eof, read_fails, parse
  <2> QED BY <2>1, TypeNext
<1>3. TypeInv => TypeOK
  BY DEF TypeInv
<1> QED
  BY <1>1, <1>2, <1>3, PTL DEF I3Spec

LEMMA ConnInvariant == I3Spec => []ConnInv
<1>1. I3Spec /\ []TypeOK => []ConnInv
  BY ConnInit, ConnNext, PTL DEF I3Spec
<1> QED
  BY <1>1, I3Type, PTL

\* However write() cuts the message up, i3 gets the command once, whole and in order, and
\* the program waits for the reply only when it has sent all of it.
THEOREM AlwaysI3GetsCommand == I3Spec => []I3GetsCommand
<1>1. ConnInv => I3GetsCommand
  BY DEF ConnInv
<1> QED
  BY <1>1, ConnInvariant, PTL

\* However read() cuts the reply up, readn() asks for as many bytes as are left in it: the
\* program does not wait for a byte that i3 will not send.
THEOREM AlwaysNeverWaitsForMore == I3Spec => []NeverWaitsForMore
<1>1. ConnInv => NeverWaitsForMore
  <2> SUFFICES ASSUME ConnInv, conn = "readn", i3 = "answered", stream = <<>> PROVE FALSE
    BY DEF NeverWaitsForMore
  <2>1. ReplyLeft /\ Len(stream) = 0
    BY DEF ConnInv
  <2> QED BY <2>1 DEF ReplyLeft
<1> QED
  BY <1>1, ConnInvariant, PTL

-----------------------------------------------------------------------------
(* What i3 answers *)

LexStates == {"outside", "string", "escape"}

LEMMA LexCharType ==
    ASSUME NEW x \in LexStates, NEW ch
    PROVE  LexChar(x, ch) \in LexStates
BY DEF LexStates, LexChar

\* The strings of a text, character by character
LEMMA LexedIs ==
    ASSUME NEW T, NEW text \in Seq(T)
    PROVE  /\ Lexed(text)[0] = "outside"
           /\ \A n \in 1 .. Len(text) : Lexed(text)[n] = LexChar(Lexed(text)[n - 1], text[n])
           /\ \A n \in 0 .. Len(text) : Lexed(text)[n] \in LexStates
<1> DEFINE N == Len(text)
           X == LexStates
           b == "outside"
           F(x, n) == LexChar(x, text[n])
           Solves(g) == g = [n \in 0 .. N |-> IF n = 0 THEN b ELSE F(g[n - 1], n)]
           f == CHOOSE g : Solves(g)
<1>1. N \in Nat
  BY LenProperties
<1>2. Lexed(text) = f
  BY DEF Lexed
<1>3. b \in X /\ \A n \in 1 .. N, x \in X : F(x, n) \in X
  BY LexCharType DEF LexStates
<1> HIDE DEF b, F, X
<1>4. /\ f[0] = b /\ (\A n \in 1 .. N : f[n] = F(f[n - 1], n))
      /\ \A n \in 0 .. N : f[n] \in X
  <2> DEFINE step == [n \in 1 .. N |-> [x \in X |-> F(x, n)]]
  <2>1. \A n \in 1 .. N, x \in X : step[n][x] = F(x, n)
    OBVIOUS
  <2>2. \A n \in 1 .. N, x \in X : step[n][x] \in X
    BY <1>3, <2>1
  <2> HIDE DEF step
  <2>3. PICK g : g \in Recursion(N, X, b, step)
    BY <1>1, <1>3, <2>2, RecursionExists
  <2>4. g \in [0 .. N -> X] /\ g[0] = b /\ \A n \in 1 .. N : g[n] = step[n][g[n - 1]]
    BY <2>3 DEF Recursion
  <2>5. ASSUME NEW n \in 0 .. N, n # 0 PROVE g[n] = F(g[n - 1], n)
    <3>1. n \in 1 .. N /\ n - 1 \in 0 .. N
      BY <1>1, <2>5
    <3> QED BY <2>1, <2>4, <3>1
  <2>6. Solves(g)
    BY <2>4, <2>5
  <2>7. Solves(f)
    <3> HIDE DEF Solves
    <3> QED BY <2>6
  <2> HIDE DEF f
  <2>8. f[0] = b /\ \A n \in 1 .. N : f[n] = F(f[n - 1], n)
    BY <1>1, <2>7
  <2> DEFINE S == {n \in 0 .. N : f[n] \in X}
  <2>9. 0 \in S
    BY <1>1, <1>3, <2>8
  <2>10. ASSUME NEW n \in 1 .. N, n - 1 \in S PROVE n \in S
    BY <1>1, <1>3, <2>8, <2>10
  <2> HIDE DEF S
  <2>11. 0 .. N \subseteq S
    BY <1>1, <2>9, <2>10, BoundedInduction
  <2> QED BY <2>8, <2>11 DEF S
<1> HIDE DEF f
<1> QED
  BY <1>2, <1>4 DEF X, b, F

TrimStates(T) == [result: Seq(T), in_quotes: BOOLEAN, escaped: BOOLEAN]

LEMMA TrimCharType ==
    ASSUME NEW T, NEW s \in TrimStates(T), NEW ch \in T
    PROVE  TrimChar(s, ch) \in TrimStates(T)
<1>1. Append(s.result, ch) \in Seq(T)
  BY DEF TrimStates
<1>2. (ch = DQ) \in BOOLEAN /\ (ch # DQ) \in BOOLEAN /\ (ch = BS) \in BOOLEAN
  OBVIOUS
<1> QED
  BY <1>1, <1>2 DEF TrimStates, TrimChar

TrimStart == [result |-> <<>>, in_quotes |-> FALSE, escaped |-> FALSE]

\* The states of trim_spaces()
LEMMA TrimSteps ==
    ASSUME NEW T, NEW text \in Seq(T)
    PROVE  \E s \in [0 .. Len(text) -> TrimStates(T)] :
              /\ s[0] = TrimStart
              /\ \A n \in 1 .. Len(text) : s[n] = TrimChar(s[n - 1], text[n])
              /\ trim_spaces(text) = s[Len(text)].result
<1> DEFINE N == Len(text)
           X == TrimStates(T)
           b == [result |-> <<>>, in_quotes |-> FALSE, escaped |-> FALSE]
           F(x, n) == TrimChar(x, text[n])
           Solves(g) == g = [n \in 0 .. N |-> IF n = 0 THEN b ELSE F(g[n - 1], n)]
           f == CHOOSE g : Solves(g)
<1>1. N \in Nat /\ \A n \in 1 .. N : text[n] \in T
  BY LenProperties
<1>2. trim_spaces(text) = f[N].result
  BY DEF trim_spaces
<1>3. b \in X /\ \A n \in 1 .. N, x \in X : F(x, n) \in X
  <2>1. b \in X
    BY DEF TrimStates
  <2> QED BY <1>1, <2>1, TrimCharType
<1> HIDE DEF b, F, X
<1>4. /\ f[0] = b /\ (\A n \in 1 .. N : f[n] = F(f[n - 1], n))
      /\ \A n \in 0 .. N : f[n] \in X
  <2> DEFINE step == [n \in 1 .. N |-> [x \in X |-> F(x, n)]]
  <2>1. \A n \in 1 .. N, x \in X : step[n][x] = F(x, n)
    OBVIOUS
  <2>2. \A n \in 1 .. N, x \in X : step[n][x] \in X
    BY <1>3, <2>1
  <2> HIDE DEF step
  <2>3. PICK g : g \in Recursion(N, X, b, step)
    BY <1>1, <1>3, <2>2, RecursionExists
  <2>4. g \in [0 .. N -> X] /\ g[0] = b /\ \A n \in 1 .. N : g[n] = step[n][g[n - 1]]
    BY <2>3 DEF Recursion
  <2>5. ASSUME NEW n \in 0 .. N, n # 0 PROVE g[n] = F(g[n - 1], n)
    <3>1. n \in 1 .. N /\ n - 1 \in 0 .. N
      BY <1>1, <2>5
    <3> QED BY <2>1, <2>4, <3>1
  <2>6. Solves(g)
    BY <2>4, <2>5
  <2>7. Solves(f)
    <3> HIDE DEF Solves
    <3> QED BY <2>6
  <2> HIDE DEF f
  <2>8. f[0] = b /\ \A n \in 1 .. N : f[n] = F(f[n - 1], n)
    BY <1>1, <2>7
  <2> DEFINE S == {n \in 0 .. N : f[n] \in X}
  <2>9. 0 \in S
    BY <1>1, <1>3, <2>8
  <2>10. ASSUME NEW n \in 1 .. N, n - 1 \in S PROVE n \in S
    BY <1>1, <1>3, <2>8, <2>10
  <2> HIDE DEF S
  <2>11. 0 .. N \subseteq S
    BY <1>1, <2>9, <2>10, BoundedInduction
  <2> QED BY <2>8, <2>11 DEF S
<1> HIDE DEF f
<1> DEFINE s == [n \in 0 .. N |-> f[n]]
<1>5. s \in [0 .. N -> X] /\ s[0] = b /\ s[N] = f[N]
  BY <1>1, <1>4
<1>6. ASSUME NEW n \in 1 .. N PROVE s[n] = F(s[n - 1], n)
  <2>1. n \in 0 .. N /\ n - 1 \in 0 .. N
    BY <1>1
  <2> QED BY <1>4, <2>1
<1> HIDE DEF s
<1> QED
  BY <1>2, <1>5, <1>6 DEF X, b, F, TrimStart

\* The sequence is the first n characters of the text without blanks: src tells where each
\* one comes from.
IsSource(src, text, n, t) ==
    /\ src \in [1 .. Len(t) -> 1 .. n]
    /\ \A k, l \in 1 .. Len(t) : k < l => src[k] < src[l]
    /\ \A k \in 1 .. Len(t) : t[k] = text[src[k]]
    /\ \A i \in 1 .. n : ~Blank(text, i) <=> \E k \in 1 .. Len(t) : src[k] = i

LEMMA SourceKept ==
    ASSUME NEW T, NEW text \in Seq(T), NEW n \in 1 .. Len(text), NEW t \in Seq(T), NEW src,
           IsSource(src, text, n - 1, t)
    PROVE  /\ Blank(text, n) => IsSource(src, text, n, t)
           /\ ~Blank(text, n) => \E new : IsSource(new, text, n, Append(t, text[n]))
<1> DEFINE L == Len(t)
           u == Append(t, text[n])
<1>1. L \in Nat /\ Len(text) \in Nat /\ n \in Nat /\ text[n] \in T
  BY LenProperties
<1>2. /\ u \in Seq(T) /\ Len(u) = L + 1 /\ u[L + 1] = text[n]
      /\ \A k \in 1 .. L : u[k] = t[k]
  BY <1>1, AppendProperties
<1> HIDE DEF u
<1>3. /\ src \in [1 .. L -> 1 .. n - 1]
      /\ \A k, l \in 1 .. L : k < l => src[k] < src[l]
      /\ \A k \in 1 .. L : t[k] = text[src[k]]
      /\ \A i \in 1 .. n - 1 : ~Blank(text, i) <=> \E k \in 1 .. L : src[k] = i
  BY DEF IsSource
<1> HIDE DEF L
<1>4. \A k \in 1 .. L : src[k] \in 1 .. n - 1
  BY <1>3
<1>5. ASSUME Blank(text, n) PROVE IsSource(src, text, n, t)
  <2>1. src \in [1 .. L -> 1 .. n]
    BY <1>1, <1>3, <1>4
  <2>2. ASSUME NEW i \in 1 .. n PROVE ~Blank(text, i) <=> \E k \in 1 .. L : src[k] = i
    <3>1. CASE i = n
      BY <1>1, <1>4, <1>5, <3>1
    <3>2. CASE i # n
      <4>1. i \in 1 .. n - 1
        BY <1>1, <3>2
      <4> QED BY <1>3, <4>1
    <3> QED BY <3>1, <3>2
  <2> QED BY <1>3, <2>1, <2>2 DEF IsSource, L
<1>6. ASSUME ~Blank(text, n) PROVE \E new : IsSource(new, text, n, u)
  <2> DEFINE new == [k \in 1 .. L + 1 |-> IF k <= L THEN src[k] ELSE n]
  <2>1. \A k \in 1 .. L : new[k] = src[k] /\ new[k] \in 1 .. n - 1 /\ new[k] < n
    BY <1>1, <1>4
  <2>2. new[L + 1] = n
    BY <1>1
  <2>3. new \in [1 .. L + 1 -> 1 .. n]
    BY <1>1, <1>4
  <2> HIDE DEF new
  <2>4. \A k \in 1 .. L + 1 : k \in 1 .. L \/ k = L + 1
    BY <1>1
  <2>5. \A k, l \in 1 .. L + 1 : k < l => new[k] < new[l]
    <3> SUFFICES ASSUME NEW k \in 1 .. L + 1, NEW l \in 1 .. L + 1, k < l PROVE new[k] < new[l]
      OBVIOUS
    <3>1. k \in 1 .. L
      BY <1>1
    <3>2. CASE l \in 1 .. L
      BY <1>3, <2>1, <3>1, <3>2
    <3>3. CASE l = L + 1
      BY <2>1, <2>2, <3>1, <3>3
    <3> QED BY <2>4, <3>2, <3>3
  <2>6. \A k \in 1 .. L + 1 : u[k] = text[new[k]]
    BY <1>2, <1>3, <2>1, <2>2, <2>4
  <2>7. ASSUME NEW i \in 1 .. n PROVE ~Blank(text, i) <=> \E k \in 1 .. L + 1 : new[k] = i
    <3>1. CASE i = n
      <4>1. L + 1 \in 1 .. L + 1
        BY <1>1
      <4> QED BY <1>6, <2>2, <3>1, <4>1
    <3>2. CASE i # n
      <4>1. i \in 1 .. n - 1
        BY <1>1, <3>2
      <4>2. (\E k \in 1 .. L + 1 : new[k] = i) <=> \E k \in 1 .. L : src[k] = i
        <5>1. ASSUME NEW k \in 1 .. L + 1, new[k] = i PROVE \E j \in 1 .. L : src[j] = i
          BY <2>1, <2>2, <2>4, <3>2, <5>1
        <5>2. ASSUME NEW k \in 1 .. L, src[k] = i PROVE \E j \in 1 .. L + 1 : new[j] = i
          <6>1. k \in 1 .. L + 1
            BY <1>1
          <6> QED BY <2>1, <5>2, <6>1
        <5> QED BY <5>1, <5>2
      <4> QED BY <1>3, <4>1, <4>2
    <3> QED BY <3>1, <3>2
  <2>8. IsSource(new, text, n, u)
    BY <1>2, <2>3, <2>5, <2>6, <2>7 DEF IsSource
  <2> QED BY <2>8
<1> QED
  BY <1>5, <1>6 DEF u

\* One character: trim_spaces() is in a string where the text is.
LEMMA TrimCharIs ==
    ASSUME NEW T, NEW s \in TrimStates(T), NEW x \in LexStates, NEW ch,
           s.in_quotes <=> x # "outside", s.escaped <=> x = "escape"
    PROVE  /\ TrimChar(s, ch).in_quotes <=> LexChar(x, ch) # "outside"
           /\ TrimChar(s, ch).escaped <=> LexChar(x, ch) = "escape"
           /\ TrimChar(s, ch).result =
                IF x = "outside" /\ ch = SP THEN s.result ELSE Append(s.result, ch)
<1>1. DQ # BS /\ SP # DQ /\ SP # BS
  BY DEF DQ, BS, SP
<1>2. s = [result |-> s.result, in_quotes |-> s.in_quotes, escaped |-> s.escaped]
      /\ s.in_quotes \in BOOLEAN /\ s.escaped \in BOOLEAN
  BY DEF TrimStates
<1>3. CASE x = "outside"
  <2>1. LexChar(x, ch) = IF ch = DQ THEN "string" ELSE "outside"
    BY <1>3 DEF LexChar
  <2>2. s.in_quotes = FALSE /\ s.escaped = FALSE
    BY <1>2, <1>3
  <2>3. CASE ch = SP
    <3>1. TrimChar(s, ch) = s
      BY <2>2, <2>3 DEF TrimChar
    <3> QED BY <1>1, <1>3, <2>1, <2>2, <2>3, <3>1
  <2>4. CASE ch # SP
    <3>1. TrimChar(s, ch) = [s EXCEPT !.result = Append(@, ch), !.in_quotes = (ch = DQ)]
      BY <2>2, <2>4 DEF TrimChar
    <3>2. /\ TrimChar(s, ch).result = Append(s.result, ch)
          /\ TrimChar(s, ch).in_quotes = (ch = DQ) /\ TrimChar(s, ch).escaped = FALSE
      BY <2>2, <3>1 DEF TrimStates
    <3> QED BY <2>1, <2>4, <3>2
  <2> QED BY <2>3, <2>4
<1>4. CASE x = "string"
  <2>1. LexChar(x, ch) = IF ch = DQ THEN "outside" ELSE IF ch = BS THEN "escape" ELSE "string"
    BY <1>4 DEF LexChar
  <2>2. s.in_quotes = TRUE /\ s.escaped = FALSE
    BY <1>2, <1>4
  <2>3. TrimChar(s, ch)
          = [s EXCEPT !.result = Append(@, ch), !.escaped = (ch = BS), !.in_quotes = (ch # DQ)]
    BY <2>2 DEF TrimChar
  <2>4. /\ TrimChar(s, ch).result = Append(s.result, ch)
        /\ TrimChar(s, ch).in_quotes = (ch # DQ) /\ TrimChar(s, ch).escaped = (ch = BS)
    BY <2>3 DEF TrimStates
  <2> QED BY <1>1, <1>4, <2>1, <2>4
<1>5. CASE x = "escape"
  <2>1. LexChar(x, ch) = "string"
    BY <1>5 DEF LexChar
  <2>2. s.in_quotes = TRUE /\ s.escaped = TRUE
    BY <1>2, <1>5
  <2>3. TrimChar(s, ch) = [s EXCEPT !.result = Append(@, ch), !.escaped = FALSE]
    BY <2>2 DEF TrimChar
  <2>4. /\ TrimChar(s, ch).result = Append(s.result, ch)
        /\ TrimChar(s, ch).in_quotes = TRUE /\ TrimChar(s, ch).escaped = FALSE
    BY <2>2, <2>3 DEF TrimStates
  <2> QED BY <1>5, <2>1, <2>4
<1> QED
  BY <1>3, <1>4, <1>5 DEF LexStates

\* trim_spaces() leaves out the blanks and nothing else.
LEMMA TrimIs ==
    ASSUME NEW T, NEW text \in Seq(T)
    PROVE  /\ trim_spaces(text) \in Seq(T)
           /\ \E src : IsSource(src, text, Len(text), trim_spaces(text))
<1> DEFINE N == Len(text)
           a == Lexed(text)
<1>1. N \in Nat /\ \A n \in 1 .. N : text[n] \in T
  BY LenProperties
<1>2. /\ a[0] = "outside" /\ (\A n \in 1 .. N : a[n] = LexChar(a[n - 1], text[n]))
      /\ \A n \in 0 .. N : a[n] \in LexStates
  BY LexedIs
<1>3. PICK s \in [0 .. N -> TrimStates(T)] :
         /\ s[0] = TrimStart
         /\ \A n \in 1 .. N : s[n] = TrimChar(s[n - 1], text[n])
         /\ trim_spaces(text) = s[N].result
  BY TrimSteps
<1> HIDE DEF N
<1> DEFINE Good(n) == /\ s[n].in_quotes <=> a[n] # "outside"
                      /\ s[n].escaped <=> a[n] = "escape"
                      /\ \E src : IsSource(src, text, n, s[n].result)
           S == {n \in 0 .. N : Good(n)}
<1>4. 0 \in S
  <2>1. s[0].result = <<>> /\ s[0].in_quotes = FALSE /\ s[0].escaped = FALSE
    BY <1>3 DEF TrimStart
  <2> DEFINE src == [k \in 1 .. 0 |-> k]
  <2>2. IsSource(src, text, 0, <<>>)
    BY DEF IsSource
  <2>3. \E x : IsSource(x, text, 0, <<>>)
    BY <2>2
  <2> QED BY <1>1, <1>2, <2>1, <2>3
<1>5. ASSUME NEW n \in 1 .. N, n - 1 \in S PROVE n \in S
  <2> DEFINE t == s[n - 1]
             x == a[n - 1]
             ch == text[n]
  <2>1. n - 1 \in 0 .. N /\ n \in 0 .. N
    BY <1>1
  <2>2. t \in TrimStates(T) /\ t.result \in Seq(T) /\ x \in LexStates /\ ch \in T
    BY <1>1, <1>2, <1>3, <2>1 DEF TrimStates
  <2>3. Good(n - 1)
    BY <1>5
  <2>4. (t.in_quotes <=> x # "outside") /\ (t.escaped <=> x = "escape")
    BY <2>3
  <2>5. PICK src : IsSource(src, text, n - 1, t.result)
    BY <2>3
  <2>6. s[n] = TrimChar(t, ch) /\ a[n] = LexChar(x, ch)
    BY <1>2, <1>3
  <2>7. Blank(text, n) <=> ch = SP /\ x = "outside"
    BY DEF Blank
  <2> HIDE DEF t, x, ch, a
  <2>8. /\ s[n].in_quotes <=> a[n] # "outside"
        /\ s[n].escaped <=> a[n] = "escape"
        /\ s[n].result = IF x = "outside" /\ ch = SP THEN t.result ELSE Append(t.result, ch)
    BY <2>2, <2>4, <2>6, TrimCharIs
  <2>9. /\ Blank(text, n) => IsSource(src, text, n, t.result)
        /\ ~Blank(text, n) => \E new : IsSource(new, text, n, Append(t.result, ch))
    BY <2>2, <2>5, SourceKept DEF N, ch
  <2>10. \E new : IsSource(new, text, n, s[n].result)
    BY <2>7, <2>8, <2>9
  <2> QED BY <2>1, <2>8, <2>10
<1> HIDE DEF S
<1>6. 0 .. N \subseteq S
  BY <1>1, <1>4, <1>5, BoundedInduction
<1>7. N \in S /\ N \in 0 .. N
  BY <1>1, <1>6
<1>8. \E src : IsSource(src, text, N, s[N].result)
  BY <1>7 DEF S
<1>9. s[N].result \in Seq(T)
  BY <1>3, <1>7 DEF TrimStates
<1> QED
  BY <1>3, <1>8, <1>9 DEF N

\* Neighbours in what is left are those with blanks between them.
LEMMA Neighbours ==
    ASSUME NEW T, NEW text \in Seq(T), NEW t \in Seq(T), NEW src, IsSource(src, text, Len(text), t)
    PROVE  /\ \A k \in 1 .. Len(t) - 1 : Follows(text, src[k], src[k + 1])
           /\ \A k \in 1 .. Len(t), j \in 1 .. Len(text) :
                 Follows(text, src[k], j) => k + 1 \in 1 .. Len(t) /\ src[k + 1] = j
<1> DEFINE L == Len(t)
           N == Len(text)
<1>1. L \in Nat /\ N \in Nat
  BY LenProperties
<1>2. /\ \A k \in 1 .. L : src[k] \in 1 .. N
      /\ \A k, l \in 1 .. L : k < l => src[k] < src[l]
      /\ \A i \in 1 .. N : ~Blank(text, i) <=> \E k \in 1 .. L : src[k] = i
  BY DEF IsSource
<1> HIDE DEF L, N
<1>3. ASSUME NEW k \in 1 .. L - 1 PROVE Follows(text, src[k], src[k + 1])
  <2>1. k \in 1 .. L /\ k + 1 \in 1 .. L /\ k < k + 1
    BY <1>1
  <2>2. src[k] \in 1 .. N /\ src[k + 1] \in 1 .. N /\ src[k] < src[k + 1] /\ ~Blank(text, src[k + 1])
    BY <1>2, <2>1
  <2>3. ASSUME NEW i \in src[k] + 1 .. src[k + 1] - 1, ~Blank(text, i) PROVE FALSE
    <3>1. i \in 1 .. N /\ src[k] < i /\ i < src[k + 1]
      BY <1>1, <2>2
    <3>2. PICK l \in 1 .. L : src[l] = i
      BY <1>2, <2>3, <3>1
    <3>3. k < l
      <4> SUFFICES ASSUME ~(k < l) PROVE FALSE
        OBVIOUS
      <4>1. l = k \/ l < k
        BY <2>1
      <4>2. src[l] = src[k] \/ src[l] < src[k]
        BY <1>2, <2>1, <4>1
      <4> QED BY <2>2, <3>1, <3>2, <4>2
    <3>4. l < k + 1
      <4> SUFFICES ASSUME ~(l < k + 1) PROVE FALSE
        OBVIOUS
      <4>1. l = k + 1 \/ k + 1 < l
        BY <2>1
      <4>2. src[l] = src[k + 1] \/ src[k + 1] < src[l]
        BY <1>2, <2>1, <4>1
      <4> QED BY <2>2, <3>1, <3>2, <4>2
    <3> QED BY <2>1, <3>3, <3>4
  <2> QED BY <2>2, <2>3 DEF Follows
<1>4. ASSUME NEW k \in 1 .. L, NEW j \in 1 .. N, Follows(text, src[k], j)
      PROVE  k + 1 \in 1 .. L /\ src[k + 1] = j
  <2>1. src[k] < j /\ ~Blank(text, j) /\ src[k] \in 1 .. N
    BY <1>2, <1>4 DEF Follows
  <2>2. PICK l \in 1 .. L : src[l] = j
    BY <1>2, <2>1
  <2>3. k < l
    <3> SUFFICES ASSUME ~(k < l) PROVE FALSE
      OBVIOUS
    <3>1. l = k \/ l < k
      OBVIOUS
    <3>2. src[l] = src[k] \/ src[l] < src[k]
      BY <1>2, <3>1
    <3> QED BY <2>1, <2>2, <3>2
  <2>4. k + 1 \in 1 .. L
    BY <1>1, <2>3
  <2>5. ASSUME l # k + 1 PROVE FALSE
    <3>1. k + 1 < l /\ k < k + 1
      BY <1>1, <2>3, <2>5
    <3>2. src[k] < src[k + 1] /\ src[k + 1] < j /\ src[k + 1] \in 1 .. N
      BY <1>2, <2>2, <2>4, <3>1
    <3>3. src[k + 1] \in src[k] + 1 .. j - 1
      BY <2>1, <3>2
    <3>4. Blank(text, src[k + 1])
      BY <1>4, <3>3 DEF Follows
    <3> QED BY <1>2, <2>4, <3>2, <3>4
  <2> QED BY <2>2, <2>4, <2>5
<1> QED
  BY <1>3, <1>4 DEF L, N

-----------------------------------------------------------------------------
\* The first m characters of a reply, and zeros where the rest was to be
CutAt(r, text, m) ==
    /\ m \in 0 .. Len(text) /\ m <= Len(r)
    /\ \A i \in 1 .. m : r[i] = text[i]
    /\ \A i \in m + 1 .. Len(r) : r[i] = "nul"

LEMMA LexedCut ==
    ASSUME NEW T, NEW text \in Seq(T), NEW r \in Seq(T), NEW m, CutAt(r, text, m)
    PROVE  \A n \in 0 .. m : Lexed(r)[n] = Lexed(text)[n]
<1> DEFINE a == Lexed(r)
           b == Lexed(text)
           S == {n \in 0 .. m : a[n] = b[n]}
<1>1. Len(text) \in Nat /\ Len(r) \in Nat /\ m \in Nat /\ m <= Len(text) /\ m <= Len(r)
  BY LenProperties DEF CutAt
<1>2. a[0] = "outside" /\ \A n \in 1 .. Len(r) : a[n] = LexChar(a[n - 1], r[n])
  BY LexedIs
<1>3. b[0] = "outside" /\ \A n \in 1 .. Len(text) : b[n] = LexChar(b[n - 1], text[n])
  BY LexedIs
<1> HIDE DEF a, b
<1>4. 0 \in S
  BY <1>1, <1>2, <1>3
<1>5. ASSUME NEW n \in 1 .. m, n - 1 \in S PROVE n \in S
  <2>1. n \in 1 .. Len(r) /\ n \in 1 .. Len(text) /\ n \in 0 .. m /\ r[n] = text[n]
    BY <1>1 DEF CutAt
  <2>2. a[n - 1] = b[n - 1]
    BY <1>5
  <2> QED BY <1>2, <1>3, <2>1, <2>2
<1> HIDE DEF S
<1>6. 0 .. m \subseteq S
  BY <1>1, <1>4, <1>5, BoundedInduction
<1> QED
  BY <1>6 DEF S, a, b

LEMMA FollowsCut ==
    ASSUME NEW T, NEW text \in Seq(T), NEW r \in Seq(T), NEW m, CutAt(r, text, m),
           NEW i \in Nat, NEW j \in 1 .. m
    PROVE  Follows(r, i, j) <=> Follows(text, i, j)
<1>1. m \in Nat
  BY LenProperties DEF CutAt
<1>2. \A k \in 1 .. m : Blank(r, k) <=> Blank(text, k)
  <2> SUFFICES ASSUME NEW k \in 1 .. m PROVE Blank(r, k) <=> Blank(text, k)
    OBVIOUS
  <2>1. k - 1 \in 0 .. m /\ r[k] = text[k]
    BY <1>1 DEF CutAt
  <2>2. Lexed(r)[k - 1] = Lexed(text)[k - 1]
    BY <2>1, LexedCut
  <2> QED BY <2>1, <2>2 DEF Blank
<1>3. \A k \in i + 1 .. j - 1 : k \in 1 .. m
  BY <1>1
<1> QED
  BY <1>2, <1>3 DEF Follows

-----------------------------------------------------------------------------
(* The members of the objects in a reply *)

\* What comes next is outside of strings if it was before the blanks.
LEMMA FollowsOutside ==
    ASSUME NEW T, NEW text \in Seq(T), NEW i \in 1 .. Len(text), NEW j \in 1 .. Len(text),
           Follows(text, i, j)
    PROVE  /\ Lexed(text)[i] = "outside" => Lexed(text)[j - 1] = "outside"
           /\ Lexed(text)[i] # "outside" => j = i + 1
<1>1. Len(text) \in Nat
  BY LenProperties
<1>2. /\ \A n \in 1 .. Len(text) : Lexed(text)[n] = LexChar(Lexed(text)[n - 1], text[n])
  BY LexedIs
<1>3. i < j /\ \A k \in i + 1 .. j - 1 : Blank(text, k)
  BY DEF Follows
<1>4. CASE j = i + 1
  BY <1>1, <1>4
<1>5. CASE j # i + 1
  <2>1. i + 1 \in i + 1 .. j - 1 /\ j - 1 \in i + 1 .. j - 1 /\ (i + 1) - 1 = i /\ j - 1 \in 1 .. Len(text)
    BY <1>1, <1>3, <1>5
  <2>2. Lexed(text)[i] = "outside"
    BY <1>3, <2>1 DEF Blank
  <2>3. text[j - 1] = SP /\ Lexed(text)[(j - 1) - 1] = "outside"
    BY <1>3, <2>1 DEF Blank
  <2>4. LexChar("outside", SP) = "outside"
    BY DEF LexChar, SP, DQ
  <2>5. Lexed(text)[j - 1] = "outside"
    BY <1>2, <2>1, <2>3, <2>4
  <2> QED BY <2>2, <2>5
<1> QED
  BY <1>4, <1>5

\* There is one place that follows.
LEMMA FollowsOnce ==
    ASSUME NEW text, NEW i \in Nat, NEW j \in Nat, NEW k \in Nat, Follows(text, i, j), Follows(text, i, k)
    PROVE  j = k
<1>1. i < j /\ i < k /\ ~Blank(text, j) /\ ~Blank(text, k)
  BY DEF Follows
<1>2. ASSUME j < k PROVE FALSE
  <2>1. j \in i + 1 .. k - 1
    BY <1>1, <1>2
  <2> QED BY <1>1, <2>1 DEF Follows
<1>3. ASSUME k < j PROVE FALSE
  <2>1. k \in i + 1 .. j - 1
    BY <1>1, <1>3
  <2> QED BY <1>1, <2>1 DEF Follows
<1> QED
  BY <1>2, <1>3

-----------------------------------------------------------------------------
(* What is searched for, and where it is found *)

\* A key and its value in what is left of a text
FoundAt(t, k, value) ==
    /\ k \in 1 .. Len(t) - 4
    /\ t[k] = DQ /\ t[k + 1] = "success" /\ t[k + 2] = DQ /\ t[k + 3] = ":" /\ t[k + 4] = value

\* The name of a member is not the end of a longer string, and not outside of one.
LEMMA NameBegins ==
    ASSUME NEW T, NEW text \in Seq(T), NEW oks, IsReply(oks, text),
           NEW i \in 1 .. Len(text), NEW j \in 1 .. Len(text), NEW l \in 1 .. Len(text), NEW c \in 1 .. Len(text),
           Follows(text, i, j), Follows(text, j, l), Follows(text, l, c),
           text[i] = DQ, text[j] = "success", text[l] = DQ, text[c] = ":"
    PROVE  j = i + 1 /\ l = i + 2 /\ SuccessAt(text, i)
<1> DEFINE a == Lexed(text)
<1>1. Len(text) \in Nat /\ DOMAIN text = 1 .. Len(text)
  BY LenProperties
<1>2. /\ \A n \in 1 .. Len(text) : a[n] = LexChar(a[n - 1], text[n])
      /\ \A n \in 0 .. Len(text) : a[n] \in LexStates
  BY LexedIs
<1>3. /\ \A n \in DOMAIN text : a[n - 1] = "outside" => text[n] # "success"
      /\ \A n, m \in DOMAIN text : Closes(text, n) /\ Colon(text, n, m) => Opens(text, n - 2)
  BY DEF IsReply
<1>4. i - 1 \in 0 .. Len(text) /\ a[i - 1] \in LexStates /\ a[i] = LexChar(a[i - 1], DQ)
  BY <1>1, <1>2
<1>5. /\ a[i] = "outside" => a[j - 1] = "outside"
      /\ a[i] # "outside" => j = i + 1
      /\ a[j] # "outside" => l = j + 1
  BY FollowsOutside
<1> HIDE DEF a
<1>6. a[i - 1] # "string"
  <2> SUFFICES ASSUME a[i - 1] = "string" PROVE FALSE
    OBVIOUS
  <2>1. LexChar("string", DQ) = "outside"
    BY DEF LexChar
  <2>2. a[j - 1] = "outside"
    BY <1>4, <1>5, <2>1
  <2> QED BY <1>1, <1>3, <2>2
<1>7. a[i] = "string"
  <2>1. LexChar("outside", DQ) = "string"
    BY DEF LexChar
  <2>2. LexChar("escape", DQ) = "string"
    BY DEF LexChar
  <2> QED BY <1>4, <1>6, <2>1, <2>2 DEF LexStates
<1>8. j = i + 1 /\ a[j] = "string"
  <2>1. j = i + 1
    BY <1>5, <1>7
  <2>2. LexChar("string", "success") = "string"
    BY DEF LexChar, DQ, BS
  <2>3. a[j] = LexChar(a[j - 1], "success") /\ j - 1 = i
    BY <1>1, <1>2, <2>1
  <2> QED BY <1>7, <2>1, <2>2, <2>3
<1>9. l = i + 2 /\ Closes(text, i + 2) /\ l - 2 = i
  <2>1. l = j + 1
    BY <1>5, <1>8
  <2>2. l = i + 2 /\ l - 1 = j /\ l - 2 = i
    BY <1>1, <1>8, <2>1
  <2> QED BY <1>8, <2>2 DEF Closes, a
<1>10. Colon(text, i + 2, c)
  BY <1>9 DEF Colon
<1>11. Opens(text, i)
  <2>1. Closes(text, l) /\ Colon(text, l, c)
    BY <1>9, <1>10
  <2>2. Opens(text, l - 2)
    BY <1>1, <1>3, <2>1
  <2> QED BY <1>9, <2>2
<1> QED
  BY <1>1, <1>8, <1>9, <1>10, <1>11 DEF SuccessAt

\* What is found is a member of the reply and its value, before the reply was cut.
LEMMA FoundIsMember ==
    ASSUME NEW T, NEW text \in Seq(T), NEW oks, IsReply(oks, text), NEW r \in Seq(T),
           NEW m, CutAt(r, text, m), NEW value \in {"true", "false"}, NEW k,
           FoundAt(trim_spaces(r), k, value)
    PROVE  \E i, c, v \in 1 .. m : /\ SuccessAt(text, i) /\ Colon(text, i + 2, c)
                                   /\ Follows(text, c, v) /\ text[v] = value
<1> DEFINE t == trim_spaces(r)
           N == Len(r)
<1>1. t \in Seq(T) /\ Len(t) \in Nat /\ N \in Nat /\ Len(text) \in Nat
  BY TrimIs, LenProperties
<1>2. PICK src : IsSource(src, r, N, t)
  BY TrimIs
<1>3. k \in 1 .. Len(t) - 4
  BY DEF FoundAt
<1>4. t[k] = DQ /\ t[k + 1] = "success" /\ t[k + 2] = DQ /\ t[k + 3] = ":" /\ t[k + 4] = value
  BY DEF FoundAt
<1>5. /\ \A n \in 1 .. Len(t) - 1 : Follows(r, src[n], src[n + 1])
  BY <1>1, <1>2, Neighbours
<1>6. /\ \A n \in 1 .. Len(t) : src[n] \in 1 .. N /\ t[n] = r[src[n]]
      /\ \A n, l \in 1 .. Len(t) : n < l => src[n] < src[l]
  BY <1>2 DEF IsSource
<1> HIDE DEF t, N
<1>7. /\ k \in 1 .. Len(t) /\ k + 1 \in 1 .. Len(t) /\ k + 2 \in 1 .. Len(t) /\ k + 3 \in 1 .. Len(t)
      /\ k + 4 \in 1 .. Len(t)
      /\ k \in 1 .. Len(t) - 1 /\ k + 1 \in 1 .. Len(t) - 1 /\ k + 2 \in 1 .. Len(t) - 1 /\ k + 3 \in 1 .. Len(t) - 1
      /\ (k + 1) + 1 = k + 2 /\ (k + 2) + 1 = k + 3 /\ (k + 3) + 1 = k + 4
      /\ k < k + 1 /\ k + 1 < k + 2 /\ k + 2 < k + 3 /\ k + 3 < k + 4
  BY <1>1, <1>3
<1> DEFINE i == src[k]
           j == src[k + 1]
           l == src[k + 2]
           c == src[k + 3]
           v == src[k + 4]
<1>8. /\ Follows(r, i, j) /\ Follows(r, j, l) /\ Follows(r, l, c) /\ Follows(r, c, v)
  BY <1>5, <1>7
<1>9. /\ r[i] = DQ /\ r[j] = "success" /\ r[l] = DQ /\ r[c] = ":" /\ r[v] = value
      /\ i \in 1 .. N /\ j \in 1 .. N /\ l \in 1 .. N /\ c \in 1 .. N /\ v \in 1 .. N
  BY <1>4, <1>6, <1>7
<1>10. i < j /\ j < l /\ l < c /\ c < v
  BY <1>6, <1>7
<1> HIDE DEF i, j, l, c, v
<1>11. m \in Nat /\ m <= Len(text) /\ m <= N
  BY <1>1 DEF CutAt, N
<1>12. v \in 1 .. m
  <2> SUFFICES ASSUME v \notin 1 .. m PROVE FALSE
    OBVIOUS
  <2>1. v \in m + 1 .. N
    BY <1>9, <1>11
  <2>2. r[v] = "nul"
    BY <2>1 DEF CutAt, N
  <2> QED BY <1>9, <2>2
<1>13. i \in 1 .. m /\ j \in 1 .. m /\ l \in 1 .. m /\ c \in 1 .. m
  BY <1>9, <1>10, <1>11, <1>12
<1>14. /\ Follows(text, i, j) /\ Follows(text, j, l) /\ Follows(text, l, c) /\ Follows(text, c, v)
  <2>1. i \in Nat /\ j \in Nat /\ l \in Nat /\ c \in Nat
    BY <1>9
  <2> QED BY <1>8, <1>12, <1>13, <2>1, FollowsCut
<1>15. text[i] = DQ /\ text[j] = "success" /\ text[l] = DQ /\ text[c] = ":" /\ text[v] = value
  BY <1>9, <1>12, <1>13 DEF CutAt
<1>16. \A n \in 1 .. m : n \in 1 .. Len(text)
  BY <1>1, <1>11
<1>17. l = i + 2 /\ SuccessAt(text, i)
  BY <1>13, <1>14, <1>15, <1>16, NameBegins
<1>18. Colon(text, i + 2, c)
  BY <1>14, <1>15, <1>17 DEF Colon
<1> QED
  BY <1>12, <1>13, <1>14, <1>15, <1>17, <1>18

\* A member whose value was read is found.
LEMMA MemberIsFound ==
    ASSUME NEW T, NEW text \in Seq(T), NEW r \in Seq(T), NEW m, CutAt(r, text, m),
           NEW i \in 1 .. Len(text), NEW c \in 1 .. Len(text), NEW v \in 1 .. m,
           SuccessAt(text, i), Colon(text, i + 2, c), Follows(text, c, v)
    PROVE  \E k : FoundAt(trim_spaces(r), k, text[v])
<1> DEFINE t == trim_spaces(r)
           N == Len(r)
           a == Lexed(text)
<1>1. t \in Seq(T) /\ Len(t) \in Nat /\ N \in Nat /\ Len(text) \in Nat
  BY TrimIs, LenProperties
<1>2. PICK src : IsSource(src, r, N, t)
  BY TrimIs
<1>3. \A n \in 1 .. Len(t), j \in 1 .. N : Follows(r, src[n], j) => n + 1 \in 1 .. Len(t) /\ src[n + 1] = j
  BY <1>1, <1>2, Neighbours
<1>4. /\ \A n \in 1 .. Len(t) : t[n] = r[src[n]]
      /\ \A n \in 1 .. N : ~Blank(r, n) <=> \E k \in 1 .. Len(t) : src[k] = n
  BY <1>2 DEF IsSource
<1>5. m \in Nat /\ m <= Len(text) /\ m <= N /\ \A n \in 1 .. m : r[n] = text[n]
  BY <1>1 DEF CutAt
<1>6. /\ text[i] = DQ /\ a[i - 1] = "outside" /\ text[i + 1] = "success"
      /\ text[i + 2] = DQ /\ a[(i + 2) - 1] = "string" /\ text[c] = ":"
      /\ Follows(text, i + 2, c) /\ i + 2 < c /\ c < v
  BY DEF SuccessAt, Opens, Closes, Colon, Follows
<1> HIDE DEF t, N
<1>7. /\ i \in 1 .. m /\ i + 1 \in 1 .. m /\ i + 2 \in 1 .. m /\ c \in 1 .. m
      /\ i \in Nat /\ i + 1 \in Nat /\ i + 2 \in Nat /\ c \in Nat
  BY <1>1, <1>5, <1>6
<1>8. a[i] = "string"
  <2>1. a[i] = LexChar(a[i - 1], text[i])
    BY LexedIs
  <2>2. LexChar("outside", DQ) = "string"
    BY DEF LexChar
  <2> QED BY <1>6, <2>1, <2>2
<1>9. Follows(text, i, i + 1) /\ Follows(text, i + 1, i + 2)
  <2>1. (i + 1) - 1 = i /\ (i + 2) - 1 = i + 1 /\ i < i + 1 /\ i + 1 < i + 2
    BY <1>7
  <2>2. ~Blank(text, i + 1)
    BY <1>8, <2>1 DEF Blank, a
  <2>3. ~Blank(text, i + 2)
    BY <1>6 DEF Blank, a
  <2>4. (i + 1 .. (i + 1) - 1) = {} /\ ((i + 1) + 1 .. (i + 2) - 1) = {}
    BY <1>7
  <2> QED BY <2>1, <2>2, <2>3, <2>4 DEF Follows
<1>10. Follows(r, i, i + 1) /\ Follows(r, i + 1, i + 2) /\ Follows(r, i + 2, c) /\ Follows(r, c, v)
  BY <1>6, <1>7, <1>9, FollowsCut
<1>11. r[i] = DQ /\ r[i + 1] = "success" /\ r[i + 2] = DQ /\ r[c] = ":" /\ r[v] = text[v]
  BY <1>5, <1>6, <1>7
<1>12. \A n \in 1 .. m : n \in 1 .. N
  BY <1>1, <1>5
<1>13. ~Blank(r, i)
  BY <1>11 DEF Blank, SP, DQ
<1>14. PICK k \in 1 .. Len(t) : src[k] = i
  BY <1>4, <1>7, <1>12, <1>13
<1>15. k + 1 \in 1 .. Len(t) /\ src[k + 1] = i + 1
  BY <1>3, <1>7, <1>10, <1>12, <1>14
<1>16. (k + 1) + 1 \in 1 .. Len(t) /\ src[(k + 1) + 1] = i + 2
  BY <1>3, <1>7, <1>10, <1>12, <1>15
<1>17. (k + 1) + 1 = k + 2 /\ (k + 2) + 1 = k + 3 /\ (k + 3) + 1 = k + 4
  BY <1>14
<1>18. k + 2 \in 1 .. Len(t) /\ src[k + 2] = i + 2
  BY <1>16, <1>17
<1>19. k + 3 \in 1 .. Len(t) /\ src[k + 3] = c
  BY <1>3, <1>7, <1>10, <1>12, <1>17, <1>18
<1>20. k + 4 \in 1 .. Len(t) /\ src[k + 4] = v
  BY <1>3, <1>7, <1>10, <1>12, <1>17, <1>19
<1>21. t[k] = DQ /\ t[k + 1] = "success" /\ t[k + 2] = DQ /\ t[k + 3] = ":" /\ t[k + 4] = text[v]
  BY <1>4, <1>11, <1>14, <1>15, <1>18, <1>19, <1>20
<1>22. k \in 1 .. Len(t) - 4
  BY <1>1, <1>14, <1>20
<1>23. FoundAt(t, k, text[v])
  BY <1>21, <1>22 DEF FoundAt
<1> QED
  BY <1>23 DEF t

\* Finding a sequence is finding its elements next to each other.
LEMMA FindIs ==
    ASSUME NEW T, NEW string \in Seq(T), NEW what \in Seq(T), what # <<>>
    PROVE  /\ Find(string, what) # 0 <=>
                \E k \in 1 .. Len(string) - Len(what) + 1 :
                    \A j \in 1 .. Len(what) : string[k + j - 1] = what[j]
           /\ Find(string, what) # 0 =>
                /\ Find(string, what) \in 1 .. Len(string) - Len(what) + 1
                /\ \A j \in 1 .. Len(what) : string[Find(string, what) + j - 1] = what[j]
<1> DEFINE N == Len(string)
           n == Len(what)
           Part(k) == SubSeq(string, k, k + n - 1)
           found == {k \in 1 .. N - n + 1 : Part(k) = what}
<1>1. N \in Nat /\ n \in Nat /\ n # 0
  BY LenProperties, EmptySeq
<1>2. ASSUME NEW k \in 1 .. N - n + 1
      PROVE  Part(k) = what <=> \A j \in 1 .. n : string[k + j - 1] = what[j]
  <2> DEFINE p == SubSeq(string, k, k + n - 1)
  <2>1. k \in Nat /\ k >= 1 /\ k + n - 1 \in Nat /\ k + n - 1 <= N
    BY <1>1, <1>2
  <2>2. p \in Seq(T) /\ Len(p) = n /\ \A j \in 1 .. n : p[j] = string[k + j - 1]
    <3> HIDE DEF n
    <3>1. p \in Seq(T) /\ Len(p) = (k + n - 1) - k + 1 /\ \A j \in 1 .. (k + n - 1) - k + 1 : p[j] = string[k + j - 1]
      BY <1>1, <2>1
    <3>2. (k + n - 1) - k + 1 = n
      BY <1>1, <2>1
    <3> HIDE DEF p
    <3> QED BY <3>1, <3>2
  <2> HIDE DEF p
  <2>3. ASSUME \A j \in 1 .. n : p[j] = what[j] PROVE p = what
    BY <2>2, <2>3, SeqEqual
  <2>4. p = what <=> \A j \in 1 .. n : p[j] = what[j]
    BY <2>3
  <2>5. p = what <=> \A j \in 1 .. n : string[k + j - 1] = what[j]
    BY <2>2, <2>4
  <2> QED BY <2>5 DEF p
<1>3. Find(string, what) = IF found = {} THEN 0 ELSE Min(found)
  BY DEF Find
<1> HIDE DEF N, n, Part
<1>4. found # {} => Min(found) \in found
  <2>1. N + 1 \in Nat /\ found \in SUBSET (1 .. N + 1)
    BY <1>1
  <2> HIDE DEF found
  <2> QED BY <2>1, MinOfIndices
<1>5. \A k \in found : k # 0 /\ k \in 1 .. N - n + 1
  BY <1>1
<1>6. \A k \in 1 .. N - n + 1 : k \in found <=> \A j \in 1 .. n : string[k + j - 1] = what[j]
  BY <1>2
<1> HIDE DEF found
<1>7. Find(string, what) # 0 <=> \E k \in 1 .. N - n + 1 : k \in found
  BY <1>3, <1>4, <1>5
<1>8. Find(string, what) # 0 => Find(string, what) \in found
  BY <1>3, <1>4
<1>9. Find(string, what) # 0 <=> \E k \in 1 .. N - n + 1 : \A j \in 1 .. n : string[k + j - 1] = what[j]
  BY <1>6, <1>7
<1>10. Find(string, what) # 0 =>
           /\ Find(string, what) \in 1 .. N - n + 1
           /\ \A j \in 1 .. n : string[Find(string, what) + j - 1] = what[j]
  BY <1>5, <1>6, <1>8
<1> QED
  BY <1>9, <1>10 DEF N, n

\* A key is four characters.
LEMMA KeyIs ==
    ASSUME NEW T, NEW name \in T, NEW value \in T, DQ \in T, ":" \in T
    PROVE  /\ Key(name) \in Seq(T) /\ Len(Key(name)) = 4 /\ Key(name)[4] = ":"
           /\ Append(Key(name), value) \in Seq(T) /\ Len(Append(Key(name), value)) = 5
           /\ Append(Key(name), value)[1] = DQ /\ Append(Key(name), value)[2] = name
           /\ Append(Key(name), value)[3] = DQ /\ Append(Key(name), value)[4] = ":"
           /\ Append(Key(name), value)[5] = value
<1> DEFINE a == DQ
           b == ":"
           key == <<a, name, a, b>>
           all == Append(key, value)
<1>1. a \in T /\ b \in T /\ name \in T /\ value \in T
  OBVIOUS
<1> HIDE DEF a, b
<1>2. key \in Seq(T) /\ Len(key) = 4 /\ key[1] = a /\ key[2] = name /\ key[3] = a /\ key[4] = b
  BY <1>1
<1> HIDE DEF key
<1>3. all \in Seq(T) /\ Len(all) = 5 /\ all[5] = value /\ \A i \in 1 .. 4 : all[i] = key[i]
  <2>1. /\ all \in Seq(T) /\ Len(all) = Len(key) + 1 /\ all[Len(key) + 1] = value
        /\ \A i \in 1 .. Len(key) : all[i] = key[i]
    <3>1. key \in Seq(T) /\ value \in T
      BY <1>1, <1>2
    <3> QED BY <3>1, AppendProperties
  <2>2. Len(key) + 1 = 5
    BY <1>2
  <2> HIDE DEF all
  <2> QED BY <1>2, <2>1, <2>2
<1> HIDE DEF all
<1>4. all[1] = a /\ all[2] = name /\ all[3] = a /\ all[4] = b
  BY <1>2, <1>3
<1> QED
  BY <1>2, <1>3, <1>4 DEF Key, a, b, key, all

LEMMA FindsValue ==
    ASSUME NEW T, NEW string \in Seq(T), NEW value, {DQ, "success", ":", value} \subseteq T
    PROVE  Find(string, Append(Key("success"), value)) # 0 <=> \E k : FoundAt(string, k, value)
<1> DEFINE name == "success"
           w == Append(Key(name), value)
           N == Len(string)
<1>1. /\ w \in Seq(T) /\ Len(w) = 5
      /\ w[1] = DQ /\ w[2] = name /\ w[3] = DQ /\ w[4] = ":" /\ w[5] = value
  <2>1. name \in T /\ value \in T /\ DQ \in T /\ ":" \in T
    OBVIOUS
  <2> HIDE DEF name
  <2> QED BY <2>1, KeyIs
<1>2. N \in Nat
  BY LenProperties
<1> HIDE DEF w, N
<1>3. w # <<>>
  BY <1>1
<1>4. Find(string, w) # 0 <=>
         \E k \in 1 .. N - Len(w) + 1 : \A j \in 1 .. Len(w) : string[k + j - 1] = w[j]
  <2>1. w \in Seq(T)
    BY <1>1
  <2> QED BY <1>3, <2>1, FindIs, SMTT(60) DEF N
<1>5. N - Len(w) + 1 = N - 4
  BY <1>1, <1>2
<1>6. ASSUME NEW k \in 1 .. N - 4
      PROVE  (\A j \in 1 .. 5 : string[k + j - 1] = w[j]) <=> FoundAt(string, k, value)
  <2>1. k + 1 - 1 = k /\ k + 2 - 1 = k + 1 /\ k + 3 - 1 = k + 2 /\ k + 4 - 1 = k + 3 /\ k + 5 - 1 = k + 4
    BY <1>2
  <2>2. \A j \in 1 .. 5 : j = 1 \/ j = 2 \/ j = 3 \/ j = 4 \/ j = 5
    OBVIOUS
  <2>3. 1 \in 1 .. 5 /\ 2 \in 1 .. 5 /\ 3 \in 1 .. 5 /\ 4 \in 1 .. 5 /\ 5 \in 1 .. 5
    OBVIOUS
  <2>4. FoundAt(string, k, value) <=>
           string[k] = w[1] /\ string[k + 1] = w[2] /\ string[k + 2] = w[3] /\ string[k + 3] = w[4]
           /\ string[k + 4] = w[5]
    BY <1>1, <1>6 DEF FoundAt, N
  <2>5. ASSUME \A j \in 1 .. 5 : string[k + j - 1] = w[j] PROVE FoundAt(string, k, value)
    BY <2>1, <2>3, <2>4, <2>5
  <2>6. ASSUME FoundAt(string, k, value), NEW j \in 1 .. 5 PROVE string[k + j - 1] = w[j]
    BY <2>1, <2>2, <2>4, <2>6
  <2> QED BY <2>5, <2>6
<1>7. \A k : FoundAt(string, k, value) => k \in 1 .. N - 4
  BY DEF FoundAt, N
<1>8. Find(string, w) # 0 <=> \E k \in 1 .. N - 4 : \A j \in 1 .. 5 : string[k + j - 1] = w[j]
  BY <1>1, <1>4, <1>5
<1> QED
  BY <1>6, <1>7, <1>8 DEF w

\* The value of a member comes before the next one.
LEMMA ValueBefore ==
    ASSUME NEW T, NEW text \in Seq(T), NEW i \in 1 .. Len(text), NEW j \in 1 .. Len(text), i < j,
           SuccessAt(text, i), SuccessAt(text, j), NEW c \in 1 .. Len(text), NEW v \in 1 .. Len(text),
           Colon(text, i + 2, c), Follows(text, c, v), text[v] \in {"true", "false"}
    PROVE  v < j
<1>1. Len(text) \in Nat
  BY LenProperties
<1>2. /\ text[i + 1] = "success" /\ Lexed(text)[(i + 2) - 1] = "string"
      /\ Follows(text, i + 2, c) /\ text[c] = ":"
  BY DEF SuccessAt, Closes, Colon
<1>3. text[j] = DQ /\ Lexed(text)[j - 1] = "outside"
  BY DEF SuccessAt, Opens
<1>4. ~Blank(text, j)
  BY <1>3 DEF Blank, SP, DQ
<1>5. j # i + 1 /\ j # i + 2 /\ j # c /\ j # v
  BY <1>2, <1>3 DEF DQ
<1>6. i + 2 < c /\ c < v
  BY <1>2 DEF Follows
<1>7. j \notin (i + 2) + 1 .. c - 1
  BY <1>2, <1>4 DEF Follows
<1>8. j \notin c + 1 .. v - 1
  BY <1>4 DEF Follows
<1> QED
  BY <1>1, <1>5, <1>6, <1>7, <1>8

FindsFalse(r) == Find(trim_spaces(r), Append(Key("success"), "false")) # 0
FindsTrue(r) == Find(trim_spaces(r), Append(Key("success"), "true")) # 0
\* read_JSON_string() is given nothing to read.
EndsAtError(r) ==
    LET where == Find(trim_spaces(r), Key("error"))
    IN  where # 0 /\ where + 5 = Len(trim_spaces(r)) + 1

\* A whole reply does not end behind a name.
LEMMA WholeReply ==
    ASSUME NEW T, {DQ, "error", ":"} \subseteq T, NEW text \in Seq(T), NEW oks, IsReply(oks, text)
    PROVE  ~EndsAtError(text)
<1> SUFFICES ASSUME EndsAtError(text) PROVE FALSE
  OBVIOUS
<1> DEFINE t == trim_spaces(text)
           N == Len(text)
           L == Len(t)
           error == "error"
           key == Key(error)
           where == Find(t, key)
<1>1. t \in Seq(T) /\ L \in Nat /\ N \in Nat /\ DOMAIN text = 1 .. N
  BY TrimIs, LenProperties
<1>2. PICK src : IsSource(src, text, N, t)
  BY TrimIs
<1>3. PICK i \in 1 .. N : text[i] = "}" /\ Follows(text, i, N) /\ text[N] = "]"
  BY <1>1 DEF IsReply
<1>4. \A n \in 1 .. L, j \in 1 .. N : Follows(text, src[n], j) => n + 1 \in 1 .. L /\ src[n + 1] = j
  BY <1>1, <1>2, Neighbours
<1>5. /\ \A n \in 1 .. L : src[n] \in 1 .. N /\ t[n] = text[src[n]]
      /\ \A n, l \in 1 .. L : n < l => src[n] < src[l]
      /\ \A n \in 1 .. N : ~Blank(text, n) <=> \E k \in 1 .. L : src[k] = n
  BY <1>2 DEF IsSource
<1>6. where # 0 /\ where + 5 = L + 1
  BY DEF EndsAtError
<1>7. key \in Seq(T) /\ Len(key) = 4 /\ key[4] = ":"
  <2>1. error \in T /\ DQ \in T /\ ":" \in T
    OBVIOUS
  <2> HIDE DEF error
  <2> QED BY <2>1, KeyIs
<1> HIDE DEF key, t, N, L
<1>8. where \in 1 .. Len(t) - Len(key) + 1 /\ \A j \in 1 .. Len(key) : t[where + j - 1] = key[j]
  <2>1. key # <<>> /\ key \in Seq(T)
    <3>1. Len(key) # 0
      BY <1>7
    <3> QED BY <1>7, <3>1, EmptySeq
  <2> HIDE DEF where
  <2> QED BY <1>1, <1>6, <2>1, FindIs, SMTT(30) DEF where
<1> HIDE DEF where
<1>9. t[where + 4 - 1] = ":"
  <2>1. 4 \in 1 .. Len(key)
    BY <1>7
  <2> QED BY <1>7, <1>8, <2>1
<1>10. where \in Nat /\ where + 4 - 1 = L - 1
  BY <1>1, <1>6, <1>8
<1>11. ~Blank(text, i)
  BY <1>3 DEF Blank, SP
<1>12. PICK n \in 1 .. L : src[n] = i
  BY <1>5, <1>11
<1>13. N \in 1 .. N
  BY <1>1
<1>14. n + 1 \in 1 .. L /\ src[n + 1] = N
  BY <1>3, <1>4, <1>12, <1>13
<1>15. n + 1 = L
  <2> SUFFICES ASSUME n + 1 # L PROVE FALSE
    OBVIOUS
  <2>1. n + 1 < L /\ L \in 1 .. L
    BY <1>1, <1>14
  <2>2. src[n + 1] < src[L] /\ src[L] \in 1 .. N
    BY <1>5, <1>14, <2>1
  <2> QED BY <1>1, <1>14, <2>2
<1>16. n = L - 1
  BY <1>1, <1>15
<1>17. t[n] = text[src[n]]
  BY <1>5
<1>18. t[n] = "}"
  BY <1>3, <1>12, <1>17
<1> QED
  BY <1>9, <1>10, <1>16, <1>18

\* What exec() finds in a reply, or in the part of it that has arrived
LEMMA Understood ==
    ASSUME NEW T, {DQ, "success", "error", ":", "true", "false"} \subseteq T, NEW text \in Seq(T),
           NEW oks \in Seq(BOOLEAN), IsReply(oks, text), NEW r \in Seq(T), NEW m, CutAt(r, text, m)
    PROVE  /\ FindsFalse(r) => \E k \in DOMAIN oks : ~oks[k]
           /\ FindsTrue(r) /\ ~FindsFalse(r) => oks[1]
           /\ r = text /\ m = Len(text) =>
                 /\ FindsFalse(r) \/ FindsTrue(r)
                 /\ ~FindsFalse(r) => \A k \in DOMAIN oks : oks[k]
<1> DEFINE N == Len(text)
           Val(k) == IF oks[k] THEN "true" ELSE "false"
<1>1. N \in Nat /\ DOMAIN text = 1 .. N /\ DOMAIN oks = 1 .. Len(oks) /\ Len(oks) \in Nat
      /\ \A k \in DOMAIN oks : oks[k] \in BOOLEAN
  BY LenProperties
<1>2. 1 \in DOMAIN oks
  <2>1. oks # <<>>
    BY DEF IsReply
  <2>2. Len(oks) # 0
    BY <2>1, EmptySeq
  <2> QED BY <1>1, <2>2
<1>3. PICK at \in [DOMAIN oks -> DOMAIN text] : AreResults(at, oks, text)
  BY DEF IsReply
<1>4. \A k \in DOMAIN oks : at[k] \in 1 .. N /\ SuccessAt(text, at[k])
  BY <1>1, <1>3 DEF AreResults
<1>5. \A k \in DOMAIN oks : HasValue(text, at[k], Val(k))
  BY <1>3 DEF AreResults
<1>6. \A i \in 1 .. N : SuccessAt(text, i) => \E k \in DOMAIN oks : at[k] = i
  BY <1>1, <1>3 DEF AreResults
<1>7. \A k, l \in DOMAIN oks : k < l => at[k] < at[l]
  BY <1>3 DEF AreResults
<1>8. m \in 0 .. N
  BY DEF CutAt
<1>9. trim_spaces(r) \in Seq(T)
  BY TrimIs
<1>10. /\ FindsFalse(r) <=> \E k : FoundAt(trim_spaces(r), k, "false")
       /\ FindsTrue(r) <=> \E k : FoundAt(trim_spaces(r), k, "true")
  <2> DEFINE t == trim_spaces(r)
             yes == "true"
             no == "false"
  <2>1. {DQ, "success", ":", yes} \subseteq T /\ {DQ, "success", ":", no} \subseteq T
    OBVIOUS
  <2> HIDE DEF t, yes, no
  <2>2. /\ Find(t, Append(Key("success"), yes)) # 0 <=> \E k : FoundAt(t, k, yes)
        /\ Find(t, Append(Key("success"), no)) # 0 <=> \E k : FoundAt(t, k, no)
    BY <1>9, <2>1, FindsValue DEF t
  <2> QED BY <2>2 DEF FindsTrue, FindsFalse, t, yes, no
<1> HIDE DEF N
<1>11. \A k \in DOMAIN oks : Val(k) \in {"true", "false"} /\ (oks[k] <=> Val(k) = "true")
  BY <1>1
<1> HIDE DEF Val
<1>12. ASSUME NEW value \in {"true", "false"}, \E k : FoundAt(trim_spaces(r), k, value)
       PROVE  \E k \in DOMAIN oks : Val(k) = value /\ at[k] \in 1 .. m
  <2>1. PICK i \in 1 .. m, c \in 1 .. m, v \in 1 .. m :
            /\ SuccessAt(text, i) /\ Colon(text, i + 2, c)
            /\ Follows(text, c, v) /\ text[v] = value
    BY <1>12, FoundIsMember, ZenonT(40)
  <2>2. i \in 1 .. N /\ c \in Nat /\ v \in Nat /\ i + 2 \in Nat
    BY <1>1, <1>8
  <2>3. PICK k \in DOMAIN oks : at[k] = i
    BY <1>6, <2>1, <2>2
  <2>4. PICK d \in DOMAIN text, w \in DOMAIN text :
            Colon(text, i + 2, d) /\ Follows(text, d, w) /\ text[w] = Val(k)
    BY <1>5, <2>3 DEF HasValue
  <2>5. d \in Nat /\ w \in Nat
    BY <1>1
  <2>6. d = c
    BY <2>1, <2>2, <2>4, <2>5, FollowsOnce DEF Colon
  <2>7. w = v
    BY <2>1, <2>2, <2>4, <2>5, <2>6, FollowsOnce
  <2> QED BY <2>1, <2>3, <2>4, <2>7
<1>13. ASSUME NEW k \in DOMAIN oks, NEW c \in 1 .. N, NEW v \in 1 .. m,
              Colon(text, at[k] + 2, c), Follows(text, c, v), text[v] = Val(k)
       PROVE  \E n : FoundAt(trim_spaces(r), n, Val(k))
  <2>1. at[k] \in 1 .. Len(text) /\ SuccessAt(text, at[k])
    BY <1>4 DEF N
  <2>2. \E n : FoundAt(trim_spaces(r), n, text[v])
    BY <1>13, <2>1, MemberIsFound DEF N
  <2> QED BY <1>13, <2>2
<1>14. \A k \in DOMAIN oks : \E c, v \in 1 .. N :
          Colon(text, at[k] + 2, c) /\ Follows(text, c, v) /\ text[v] = Val(k)
  BY <1>1, <1>5 DEF HasValue
<1>15. FindsFalse(r) => \E k \in DOMAIN oks : ~oks[k]
  BY <1>10, <1>11, <1>12
<1>16. ASSUME FindsTrue(r), ~FindsFalse(r), ~oks[1] PROVE FALSE
  <2>1. PICK k \in DOMAIN oks : Val(k) = "true" /\ at[k] \in 1 .. m
    BY <1>10, <1>12, <1>16
  <2>2. Val(1) = "false"
    BY <1>2, <1>11, <1>16
  <2>3. 1 < k
    BY <1>1, <2>1, <2>2
  <2>4. PICK c \in 1 .. N, v \in 1 .. N :
            Colon(text, at[1] + 2, c) /\ Follows(text, c, v) /\ text[v] = "false"
    BY <1>2, <1>14, <2>2
  <2>5. at[1] < at[k]
    BY <1>2, <1>7, <2>3
  <2>6. v < at[k]
    <3>1. at[1] \in 1 .. N /\ at[k] \in 1 .. N /\ SuccessAt(text, at[1]) /\ SuccessAt(text, at[k])
      BY <1>2, <1>4
    <3> QED BY <2>4, <2>5, <3>1, ValueBefore DEF N
  <2>7. v \in 1 .. m
    BY <1>1, <1>8, <2>1, <2>6
  <2>8. \E n : FoundAt(trim_spaces(r), n, Val(1))
    BY <1>2, <1>13, <2>2, <2>4, <2>7
  <2> QED BY <1>10, <1>16, <2>2, <2>8
<1>17. ASSUME m = N, NEW k \in DOMAIN oks PROVE \E n : FoundAt(trim_spaces(r), n, Val(k))
  BY <1>13, <1>14, <1>17
<1>18. ASSUME m = N PROVE FindsFalse(r) \/ FindsTrue(r)
  BY <1>2, <1>10, <1>11, <1>17, <1>18
<1>19. ASSUME m = N, ~FindsFalse(r), NEW k \in DOMAIN oks PROVE oks[k]
  BY <1>10, <1>11, <1>17, <1>19
<1> QED
  BY <1>15, <1>16, <1>18, <1>19 DEF N

\* What has not been read ends in what is left of the text, behind a part of the header.
Rest(s, text, header, off) ==
    /\ Len(s) = header + (Len(text) - off)
    /\ \A i \in 1 .. Len(text) - off : s[header + i] = text[off + i]

TextLeft(text) ==
    \/ field = 1 /\ tot \in 0 .. 1 /\ stream[3 - tot] = Len(text) /\ Rest(stream, text, 4 - tot, 0)
    \/ field = 2 /\ tot = 0 /\ stream[1] = Len(text) /\ Rest(stream, text, 2, 0)
    \/ field = 3 /\ tot = 0 /\ message_length = Len(text) /\ Rest(stream, text, 1, 0)
    \/ field = 4 /\ message_length = Len(text) /\ tot \in 0 .. Len(text) /\ Rest(stream, text, 0, tot)

\* What readn() has read by now
Arrived(text) ==
    /\ field \in 1 .. 4
    /\ field # 4 => response = <<>>
    /\ field = 3 => message_length \in Nat
    /\ field = 4 => /\ message_length \in Nat /\ tot \in 0 .. message_length
                    /\ tot \in 0 .. Len(text) /\ response = SubSeq(text, 1, tot)
    /\ i3 = "answered" => TextLeft(text)

\* There is no text without an answer.
Said(text) ==
    \/ results = <<>> /\ text = <<>> /\ i3 # "answered"
    \/ i3 # "up" /\ \E r \in Replies : r.results = results /\ r.text = text

\* The response is the text, or its beginning and zeros.
Complete(text) ==
    /\ response \in Seq(Units) /\ i3 # "up"
    /\ \E m : CutAt(response, text, m) /\ (i3 = "answered" => m = Len(text) /\ response = text)

AtEnd == {"parse", "returned", "refused", "abort"}

HasRead(text) ==
    /\ Said(text)
    /\ conn \in {"none", "path", "long_path", "writen"} => response = <<>>
    /\ conn = "readn" => Arrived(text)
    /\ conn \in AtEnd => Complete(text)

ReadInv ==
    /\ i3 \in {"up", "answered", "closed"} /\ (i3 = "closed" => stream = <<>>)
    /\ \E text : HasRead(text)
    /\ ReportedTruthfully

LEMMA ReplyIs ==
    ASSUME NEW reply \in Replies
    PROVE  /\ reply.text \in Seq(Units) /\ reply.results \in Seq(BOOLEAN)
           /\ IsReply(reply.results, reply.text) /\ reply.results # <<>>
<1>1. /\ reply.text \in String /\ reply.results \in Seq(BOOLEAN) /\ IsReply(reply.results, reply.text)
  BY I3Assumption
<1>2. Chars \subseteq Units
  BY Zenon DEF Units
<1>3. reply.text \in Seq(Units)
  BY <1>1, <1>2, SeqMonotonic DEF String
<1> QED
  BY <1>1, <1>3 DEF IsReply

LEMMA SaidType ==
    ASSUME NEW text, Said(text)
    PROVE  text \in Seq(Units) /\ Len(text) \in Nat
<1>1. text \in Seq(Units)
  <2>1. <<>> \in Seq(Units)
    OBVIOUS
  <2> QED BY <2>1, ReplyIs DEF Said
<1> QED
  BY <1>1, LenProperties

\* In nothing but zeros nothing is found.
LEMMA NothingFound ==
    ASSUME NEW r \in Seq(Units), NEW m, CutAt(r, <<>>, m)
    PROVE  ~FindsFalse(r) /\ ~FindsTrue(r)
<1> DEFINE t == trim_spaces(r)
           yes == "true"
           no == "false"
<1>1. t \in Seq(Units) /\ Len(t) \in Nat /\ Len(r) \in Nat
  BY TrimIs, LenProperties
<1>2. PICK src : IsSource(src, r, Len(r), t)
  BY TrimIs
<1>3. m = 0 /\ \A i \in 1 .. Len(r) : r[i] = "nul"
  <2>1. m \in 0 .. 0 /\ \A i \in m + 1 .. Len(r) : r[i] = "nul"
    BY DEF CutAt
  <2>2. m = 0
    BY <2>1
  <2> QED BY <2>1, <2>2
<1>4. \A k \in 1 .. Len(t) : t[k] = "nul"
  BY <1>2, <1>3 DEF IsSource
<1>5. {DQ, "success", ":", yes} \subseteq Units /\ {DQ, "success", ":", no} \subseteq Units
  BY DEF Units
<1> HIDE DEF t, yes, no
<1>6. \A k, value : ~FoundAt(t, k, value)
  <2> SUFFICES ASSUME NEW k, NEW value, FoundAt(t, k, value) PROVE FALSE
    OBVIOUS
  <2>1. k \in 1 .. Len(t) - 4 /\ t[k] = DQ
    BY DEF FoundAt
  <2>2. k \in 1 .. Len(t)
    BY <1>1, <2>1
  <2> QED BY <1>4, <2>1, <2>2 DEF DQ
<1>7. Find(t, Append(Key("success"), yes)) = 0 /\ Find(t, Append(Key("success"), no)) = 0
  BY <1>1, <1>5, <1>6, FindsValue
<1> QED
  BY <1>7 DEF FindsTrue, FindsFalse, t, yes, no

\* What exec() makes of the response is what i3 has said.
LEMMA ParseKeeps ==
    ASSUME ReadInv, parse
    PROVE  ReadInv'
<1>1. conn = "parse" /\ UNCHANGED <<i3, results, stream, response>>
  BY DEF parse
<1>2. conn' = IF FindsFalse(response) THEN IF EndsAtError(response) THEN "abort" ELSE "refused"
              ELSE IF FindsTrue(response) THEN "returned" ELSE "abort"
  BY DEF parse, FindsFalse, FindsTrue, EndsAtError
<1>3. PICK text : HasRead(text)
  BY DEF ReadInv
<1>4. Said(text) /\ Complete(text)
  BY <1>1, <1>3 DEF HasRead, AtEnd
<1>5. i3 \in {"answered", "closed"} /\ text \in Seq(Units) /\ response \in Seq(Units)
  BY <1>4, SaidType DEF ReadInv, Complete
<1>6. PICK m : CutAt(response, text, m) /\ (i3 = "answered" => m = Len(text) /\ response = text)
  BY <1>4 DEF Complete
<1>7. ReportedTruthfully'
  <2>1. CASE results = <<>> /\ text = <<>> /\ i3 # "answered"
    <3>1. conn' = "abort"
      BY <1>2, <1>5, <1>6, <2>1, NothingFound
    <3> QED BY <1>1, <1>5, <2>1, <3>1 DEF ReportedTruthfully
  <2>2. CASE \E r \in Replies : r.results = results /\ r.text = text
    <3>1. results \in Seq(BOOLEAN) /\ IsReply(results, text)
      BY <2>2, ReplyIs
    <3>2. /\ FindsFalse(response) => \E k \in DOMAIN results : ~results[k]
          /\ FindsTrue(response) /\ ~FindsFalse(response) => results[1]
          /\ response = text /\ m = Len(text) =>
                /\ FindsFalse(response) \/ FindsTrue(response)
                /\ ~FindsFalse(response) => \A k \in DOMAIN results : results[k]
      <4> DEFINE T == Units
      <4>1. /\ {DQ, "success", "error", ":", "true", "false"} \subseteq T /\ text \in Seq(T)
            /\ response \in Seq(T) /\ CutAt(response, text, m)
        BY <1>5, <1>6 DEF Units
      <4> HIDE DEF T
      <4> QED BY <3>1, <4>1, Understood
    <3>3. ~EndsAtError(text)
      <4> DEFINE T == Units
      <4>1. {DQ, "error", ":"} \subseteq T /\ text \in Seq(T)
        BY <1>5 DEF Units
      <4> HIDE DEF T
      <4> QED BY <3>1, <4>1, WholeReply
    <3>4. i3 = "answered" => response = text /\ m = Len(text)
      BY <1>6
    <3>5. conn' = "returned" => FindsTrue(response) /\ ~FindsFalse(response)
      BY <1>2
    <3>6. conn' = "refused" => FindsFalse(response)
      BY <1>2
    <3>7. conn' = "abort" => EndsAtError(response) \/ (~FindsFalse(response) /\ ~FindsTrue(response))
      BY <1>2
    <3>8. conn' = "abort" => i3 # "answered"
      BY <3>2, <3>3, <3>4, <3>7
    <3>9. conn' = "returned" => results[1] /\ (i3 = "answered" => \A i \in DOMAIN results : results[i])
      BY <3>2, <3>4, <3>5
    <3> QED BY <1>1, <1>5, <3>2, <3>6, <3>8, <3>9 DEF ReportedTruthfully
  <2> QED BY <1>4, <2>1, <2>2 DEF Said
<1>8. conn' \in {"returned", "refused", "abort"}
  BY <1>2
<1>9. HasRead(text)'
  BY <1>1, <1>4, <1>8 DEF HasRead, Said, Complete, AtEnd
<1> QED
  BY <1>1, <1>7, <1>9 DEF ReadInv

\* A read() of n units takes them off the beginning of the stream.
LEMMA StreamShorter ==
    ASSUME NEW s \in Seq(Units), NEW n \in 1 .. Len(s), NEW t, t = SubSeq(s, n + 1, Len(s))
    PROVE  /\ Len(s) \in Nat /\ n \in Nat /\ n > 0 /\ Len(t) = Len(s) - n
           /\ \A i \in 1 .. Len(s) - n : t[i] = s[n + i]
<1>1. Len(s) \in Nat
  BY LenProperties
<1> QED
  BY <1>1

\* What is left of the text is still the end of it.
LEMMA RestMoves ==
    ASSUME NEW s \in Seq(Units), NEW n \in 1 .. Len(s), NEW t, t = SubSeq(s, n + 1, Len(s)),
           NEW text, Len(text) \in Nat, NEW header \in Nat, NEW off \in 0 .. Len(text),
           Rest(s, text, header, off)
    PROVE  /\ n <= header => Rest(t, text, header - n, off)
           /\ header = 0 => off + n \in 0 .. Len(text) /\ Rest(t, text, 0, off + n)
<1>1. /\ Len(s) \in Nat /\ n \in Nat /\ Len(t) = Len(s) - n
      /\ \A i \in 1 .. Len(s) - n : t[i] = s[n + i]
  BY StreamShorter
<1>2. /\ Len(s) = header + (Len(text) - off)
      /\ \A i \in 1 .. Len(text) - off : s[header + i] = text[off + i]
  BY DEF Rest
<1>3. ASSUME n <= header PROVE Rest(t, text, header - n, off)
  <2>1. Len(t) = (header - n) + (Len(text) - off)
    BY <1>1, <1>2
  <2>2. ASSUME NEW i \in 1 .. Len(text) - off PROVE t[(header - n) + i] = text[off + i]
    <3>1. (header - n) + i \in 1 .. Len(s) - n /\ n + ((header - n) + i) = header + i
      BY <1>1, <1>2, <1>3
    <3>2. t[(header - n) + i] = s[n + ((header - n) + i)]
      BY <1>1, <3>1
    <3> QED BY <1>2, <3>1, <3>2
  <2> QED BY <2>1, <2>2 DEF Rest
<1>4. ASSUME header = 0 PROVE off + n \in 0 .. Len(text) /\ Rest(t, text, 0, off + n)
  <2>1. off + n \in 0 .. Len(text) /\ Len(t) = 0 + (Len(text) - (off + n))
    BY <1>1, <1>2, <1>4
  <2>2. ASSUME NEW i \in 1 .. Len(text) - (off + n) PROVE t[0 + i] = text[(off + n) + i]
    <3>1. /\ i \in 1 .. Len(s) - n /\ n + i \in 1 .. Len(text) - off
          /\ off + (n + i) = (off + n) + i /\ 0 + i = i /\ header + (n + i) = n + i
      BY <1>1, <1>2, <1>4
    <3>2. t[i] = s[n + i]
      BY <1>1, <3>1
    <3>3. s[header + (n + i)] = text[off + (n + i)]
      BY <1>2, <3>1
    <3> QED BY <3>1, <3>2, <3>3
  <2> QED BY <2>1, <2>2 DEF Rest
<1> QED
  BY <1>3, <1>4

\* A response that is all of the text
LEMMA WholeText ==
    ASSUME NEW text \in Seq(Units)
    PROVE  CutAt(text, text, Len(text)) /\ SubSeq(text, 1, Len(text)) = text
<1>1. Len(text) \in Nat
  BY LenProperties
<1>2. Len(text) \in 0 .. Len(text)
  BY <1>1
<1> QED
  BY <1>1, <1>2, PrefixOfMessage DEF CutAt

\* However the reply is cut up, the response is the beginning of its text.
LEMMA ReadArrives ==
    ASSUME ConnInv, ReadInv, NEW n \in 1 .. Len(stream), read(n)
    PROVE  ReadInv'
<1>1. /\ conn = "readn" /\ n <= Wanted[field] - tot
      /\ stream' = SubSeq(stream, n + 1, Len(stream))
      /\ message_length' = IF field = 2 THEN Head(stream) ELSE message_length
      /\ response' = IF field = 4 THEN response \o SubSeq(stream, 1, n) ELSE response
      /\ IF tot + n = Wanted[field] THEN NextField(message_length')
         ELSE tot' = tot + n /\ UNCHANGED <<conn, field>>
      /\ UNCHANGED <<i3, results>>
  BY DEF read
<1>2. i3 = "answered"
  <2>1. stream # <<>>
    <3> SUFFICES ASSUME stream = <<>> PROVE FALSE
      OBVIOUS
    <3>1. Len(stream) = 0
      OBVIOUS
    <3> QED BY <3>1
  <2> QED BY <2>1 DEF ReadInv, ConnInv
<1>3. PICK text : HasRead(text)
  BY DEF ReadInv
<1>4. /\ text \in Seq(Units) /\ Len(text) \in Nat /\ Said(text) /\ Said(text)'
      /\ TextLeft(text) /\ Arrived(text)
  BY <1>1, <1>2, <1>3, SaidType DEF HasRead, Arrived, Said
<1>5. /\ Len(stream) \in Nat /\ n \in Nat /\ n > 0 /\ Len(stream') = Len(stream) - n
      /\ \A i \in 1 .. Len(stream) - n : stream'[i] = stream[n + i]
  <2>1. stream \in Seq(Units)
    BY DEF ConnInv
  <2> QED BY <1>1, <2>1, StreamShorter
<1>6. 0 \in 0 .. Len(text)
  BY <1>4
<1>7. \A header \in Nat, off \in 0 .. Len(text) : Rest(stream, text, header, off) =>
         /\ n <= header => Rest(stream', text, header - n, off)
         /\ header = 0 => off + n \in 0 .. Len(text) /\ Rest(stream', text, 0, off + n)
  <2>1. stream \in Seq(Units)
    BY DEF ConnInv
  <2> QED BY <1>1, <1>4, <2>1, RestMoves
<1>8. CASE field = 1
  <2>1. /\ tot \in 0 .. 1 /\ stream[3 - tot] = Len(text) /\ Rest(stream, text, 4 - tot, 0)
        /\ Wanted[field] = 2 /\ response = <<>> /\ response' = <<>>
    BY <1>1, <1>4, <1>8 DEF TextLeft, Arrived, Wanted
  <2>2. 4 - tot \in Nat /\ n <= 4 - tot /\ Len(stream) = (4 - tot) + Len(text)
    BY <1>1, <1>4, <1>5, <2>1 DEF Rest
  <2>3. Rest(stream', text, (4 - tot) - n, 0)
    BY <1>6, <1>7, <2>1, <2>2
  <2>4. CASE tot + n = 2
    <3>1. tot' = 0 /\ conn' = "readn" /\ field' = 2
      BY <1>1, <1>8, <2>1, <2>4 DEF NextField
    <3>2. n + 1 = 3 - tot /\ 1 \in 1 .. Len(stream) - n /\ (4 - tot) - n = 2
      BY <1>4, <1>5, <2>1, <2>2, <2>4
    <3>3. stream'[1] = Len(text)
      BY <1>5, <2>1, <3>2
    <3>4. Rest(stream', text, 2, 0)
      BY <2>3, <3>2
    <3>5. Arrived(text)'
      BY <2>1, <3>1, <3>3, <3>4 DEF Arrived, TextLeft
    <3> QED BY <1>1, <1>2, <1>4, <3>1, <3>5 DEF ReadInv, HasRead, AtEnd, ReportedTruthfully
  <2>5. CASE tot + n # 2
    <3>1. tot = 0 /\ n = 1
      BY <1>1, <1>5, <2>1, <2>5
    <3>2. tot' = 1 /\ conn' = "readn" /\ field' = 1
      BY <1>1, <1>8, <2>1, <3>1
    <3>3. 2 \in 1 .. Len(stream) - n /\ n + 2 = 3 /\ 3 - tot = 3 /\ 3 - tot' = 2
          /\ (4 - tot) - n = 4 - tot'
      BY <1>4, <1>5, <2>2, <3>1, <3>2
    <3>4. stream'[3 - tot'] = Len(text)
      BY <1>5, <2>1, <3>3
    <3>5. Rest(stream', text, 4 - tot', 0)
      BY <2>3, <3>3
    <3>6. Arrived(text)'
      BY <2>1, <3>2, <3>4, <3>5 DEF Arrived, TextLeft
    <3> QED BY <1>1, <1>2, <1>4, <3>2, <3>6 DEF ReadInv, HasRead, AtEnd, ReportedTruthfully
  <2> QED BY <2>4, <2>5
<1>9. CASE field = 2
  <2>1. /\ tot = 0 /\ stream[1] = Len(text) /\ Rest(stream, text, 2, 0)
        /\ Wanted[field] = 1 /\ response' = <<>>
    BY <1>1, <1>4, <1>9 DEF TextLeft, Arrived, Wanted
  <2>2. n = 1 /\ message_length' = Len(text)
    BY <1>1, <1>5, <1>9, <2>1
  <2>3. tot' = 0 /\ conn' = "readn" /\ field' = 3
    BY <1>1, <1>9, <2>1, <2>2 DEF NextField
  <2>4. Rest(stream', text, 2 - n, 0) /\ 2 - n = 1
    BY <1>6, <1>7, <2>1, <2>2
  <2>5. Rest(stream', text, 1, 0)
    BY <2>4
  <2>6. Arrived(text)'
    BY <1>4, <2>1, <2>2, <2>3, <2>5 DEF Arrived, TextLeft
  <2> QED BY <1>1, <1>2, <1>4, <2>3, <2>6 DEF ReadInv, HasRead, AtEnd, ReportedTruthfully
<1>10. CASE field = 3
  <2>1. /\ tot = 0 /\ message_length = Len(text) /\ Rest(stream, text, 1, 0)
        /\ Wanted[field] = 1 /\ response' = <<>> /\ message_length' = Len(text)
    BY <1>1, <1>4, <1>10 DEF TextLeft, Arrived, Wanted
  <2>2. n = 1
    BY <1>1, <1>5, <2>1
  <2>3. NextField(message_length')
    BY <1>1, <2>1, <2>2
  <2>4. Rest(stream', text, 1 - n, 0) /\ 1 - n = 0
    BY <1>6, <1>7, <2>1, <2>2
  <2>5. SubSeq(text, 1, 0) = <<>>
    BY <1>4, <1>6, PrefixOfMessage
  <2>6. CASE message_length' = 0
    <3>1. conn' = "parse"
      BY <1>10, <2>3, <2>6 DEF NextField
    <3>2. text = <<>>
      BY <1>4, <2>1, <2>6, EmptySeq
    <3>3. Complete(text)'
      BY <1>1, <1>2, <1>4, <2>1, <3>2, WholeText DEF Complete
    <3> QED BY <1>1, <1>2, <1>4, <3>1, <3>3 DEF ReadInv, HasRead, AtEnd, ReportedTruthfully
  <2>7. CASE message_length' # 0
    <3>1. conn' = "readn" /\ field' = 4 /\ tot' = 0
      BY <1>1, <1>10, <2>3, <2>7 DEF NextField
    <3>2. Rest(stream', text, 0, 0)
      BY <2>4
    <3>3. Arrived(text)'
      BY <1>4, <1>6, <2>1, <2>5, <3>1, <3>2 DEF Arrived, TextLeft
    <3> QED BY <1>1, <1>2, <1>4, <3>1, <3>3 DEF ReadInv, HasRead, AtEnd, ReportedTruthfully
  <2> QED BY <2>6, <2>7
<1>11. CASE field = 4
  <2>1. /\ tot \in 0 .. Len(text) /\ message_length = Len(text) /\ Rest(stream, text, 0, tot)
        /\ Wanted[field] = Len(text) /\ response = SubSeq(text, 1, tot)
        /\ response' = response \o SubSeq(stream, 1, n) /\ message_length' = Len(text)
    BY <1>1, <1>4, <1>11 DEF TextLeft, Arrived, Wanted
  <2>2. tot + n \in 0 .. Len(text) /\ Rest(stream', text, 0, tot + n)
    <3>1. 0 \in Nat
      OBVIOUS
    <3> QED BY <1>7, <2>1, <3>1
  <2>3. SubSeq(stream, 1, n) = SubSeq(text, tot + 1, tot + n)
    <3> DEFINE a == SubSeq(stream, 1, n)
               b == SubSeq(text, tot + 1, tot + n)
    <3>1. stream \in Seq(Units)
      BY DEF ConnInv
    <3>2. a \in Seq(Units) /\ Len(a) = n /\ \A i \in 1 .. n : a[i] = stream[i]
      BY <1>5, <3>1
    <3>3. b \in Seq(Units) /\ Len(b) = n /\ \A i \in 1 .. n : b[i] = text[tot + i]
      BY <1>4, <1>5, <2>1, <2>2
    <3> HIDE DEF a, b
    <3>4. \A i \in 1 .. n : stream[i] = text[tot + i]
      <4>1. \A i \in 1 .. Len(text) - tot : stream[0 + i] = text[tot + i]
        BY <2>1 DEF Rest
      <4>2. \A i \in 1 .. n : i \in 1 .. Len(text) - tot /\ 0 + i = i
        BY <1>4, <1>5, <2>1, <2>2
      <4> QED BY <4>1, <4>2
    <3>5. a = b
      BY <1>5, <3>2, <3>3, <3>4, SeqEqual
    <3> QED BY <3>5 DEF a, b
  <2>4. response' = SubSeq(text, 1, tot + n)
    <3>1. tot + n <= Len(text)
      BY <1>4, <2>2
    <3> QED BY <1>4, <1>5, <2>1, <2>3, <3>1, NextPart
  <2>5. CASE tot + n = Len(text)
    <3>1. conn' = "parse"
      BY <1>1, <1>11, <2>1, <2>5 DEF NextField
    <3>2. response' = text
      BY <1>4, <2>4, <2>5, WholeText
    <3>3. Complete(text)'
      BY <1>1, <1>2, <1>4, <3>2, WholeText DEF Complete
    <3> QED BY <1>1, <1>2, <1>4, <3>1, <3>3 DEF ReadInv, HasRead, AtEnd, ReportedTruthfully
  <2>6. CASE tot + n # Len(text)
    <3>1. conn' = "readn" /\ field' = 4 /\ tot' = tot + n
      BY <1>1, <1>11, <2>1, <2>6
    <3>2. Arrived(text)'
      BY <1>4, <2>1, <2>2, <2>4, <3>1 DEF Arrived, TextLeft
    <3> QED BY <1>1, <1>2, <1>4, <3>1, <3>2 DEF ReadInv, HasRead, AtEnd, ReportedTruthfully
  <2> QED BY <2>5, <2>6
<1> QED
  BY <1>4, <1>8, <1>9, <1>10, <1>11 DEF TextLeft

\* At the end of the stream the rest of the response is zero.
LEMMA EofArrives ==
    ASSUME ReadInv, read_eof
    PROVE  ReadInv'
<1>1. /\ conn = "readn" /\ i3 = "closed" /\ UNCHANGED <<i3, results, stream>>
      /\ message_length' \in IF field = 2 THEN Garbage ELSE {message_length}
      /\ response' = IF field = 4 THEN response \o Zeros(message_length - tot) ELSE response
      /\ NextField(message_length')
  BY DEF read_eof
<1>2. PICK text : HasRead(text)
  BY DEF ReadInv
<1>3. text \in Seq(Units) /\ Len(text) \in Nat /\ Said(text) /\ Said(text)' /\ Arrived(text)
  BY <1>1, <1>2, SaidType DEF HasRead, Said
<1>4. 0 \in 0 .. Len(text)
  BY <1>3
<1>5. SubSeq(text, 1, 0) = <<>>
  BY <1>3, <1>4, PrefixOfMessage
<1>6. CASE field = 4
  <2> DEFINE r == SubSeq(text, 1, tot)
             k == message_length - tot
             z == Zeros(k)
  <2>1. conn' = "parse"
    BY <1>1, <1>6 DEF NextField
  <2>2. /\ tot \in 0 .. Len(text) /\ tot \in Nat /\ k \in Nat /\ response' = r \o z
    <3>1. /\ tot \in 0 .. Len(text) /\ message_length \in Nat /\ tot \in 0 .. message_length
          /\ response = SubSeq(text, 1, tot)
      BY <1>3, <1>6 DEF Arrived
    <3>2. tot \in Nat /\ message_length - tot \in Nat
      BY <3>1
    <3>3. response' = response \o Zeros(message_length - tot)
      BY <1>1, <1>6
    <3> QED BY <3>1, <3>2, <3>3
  <2>3. r \in Seq(Units) /\ Len(r) = tot /\ \A i \in 1 .. tot : r[i] = text[i]
    BY <1>3, <2>2, PrefixOfMessage
  <2>4. z \in Seq(Units) /\ Len(z) = k /\ \A i \in 1 .. k : z[i] = "nul"
    <3>1. "nul" \in Units
      BY DEF Units
    <3> HIDE DEF k
    <3> QED BY <2>2, <3>1 DEF Zeros
  <2> HIDE DEF r, k, z
  <2>5. /\ r \o z \in Seq(Units) /\ Len(r \o z) = tot + k
        /\ \A i \in 1 .. tot + k : (r \o z)[i] = IF i <= tot THEN r[i] ELSE z[i - tot]
    <3>1. /\ r \o z \in Seq(Units) /\ Len(r \o z) = Len(r) + Len(z)
          /\ \A i \in 1 .. Len(r) + Len(z) : (r \o z)[i] = IF i <= Len(r) THEN r[i] ELSE z[i - Len(r)]
      BY <2>3, <2>4, ConcatProperties
    <3> QED BY <2>3, <2>4, <3>1
  <2>6. ASSUME NEW i \in 1 .. tot PROVE (r \o z)[i] = text[i]
    <3>1. i \in 1 .. tot + k /\ i <= tot
      BY <2>2
    <3> QED BY <2>3, <2>5, <3>1
  <2>7. ASSUME NEW i \in tot + 1 .. Len(r \o z) PROVE (r \o z)[i] = "nul"
    <3>1. i \in 1 .. tot + k /\ ~(i <= tot) /\ i - tot \in 1 .. k
      BY <2>2, <2>5
    <3>2. (r \o z)[i] = z[i - tot]
      BY <2>5, <3>1
    <3> QED BY <2>4, <3>1, <3>2
  <2>8. tot <= Len(r \o z)
    BY <2>2, <2>5
  <2>9. CutAt(r \o z, text, tot)
    BY <2>2, <2>6, <2>7, <2>8 DEF CutAt
  <2>10. Complete(text)'
    <3>1. CutAt(response', text, tot) /\ response' \in Seq(Units) /\ i3' = "closed"
      BY <1>1, <2>2, <2>5, <2>9
    <3> QED BY <3>1 DEF Complete
  <2> QED BY <1>1, <1>3, <2>1, <2>10 DEF ReadInv, HasRead, AtEnd, ReportedTruthfully
<1>7. CASE field = 3 /\ message_length' = 0
  <2>1. conn' = "parse" /\ response' = <<>>
    BY <1>1, <1>3, <1>7 DEF NextField, Arrived
  <2>2. CutAt(<<>>, text, 0) /\ <<>> \in Seq(Units)
    BY <1>4 DEF CutAt
  <2>3. Complete(text)'
    <3>1. CutAt(response', text, 0) /\ response' \in Seq(Units) /\ i3' = "closed"
      BY <1>1, <2>1, <2>2
    <3> QED BY <3>1 DEF Complete
  <2> QED BY <1>1, <1>3, <2>1, <2>3 DEF ReadInv, HasRead, AtEnd, ReportedTruthfully
<1>8. CASE field # 4 /\ ~(field = 3 /\ message_length' = 0)
  <2>1. /\ conn' = "readn" /\ tot' = 0 /\ field' = field + 1 /\ field \in 1 .. 3 /\ response' = <<>>
    BY <1>1, <1>3, <1>8 DEF NextField, Arrived
  <2>2. field \in {2, 3} => message_length' \in Nat
    BY <1>1, <1>3 DEF Arrived, Garbage
  <2>3. field' = 3 => message_length' \in Nat
    BY <2>1, <2>2
  <2>4. field' = 4 => message_length' \in Nat
    BY <2>1, <2>2
  <2>5. field' \in 1 .. 4
    BY <2>1
  <2>6. response' = SubSeq(text, 1, tot') /\ tot' \in 0 .. Len(text)
    BY <1>4, <1>5, <2>1
  <2>7. field' = 4 => tot' \in 0 .. message_length'
    BY <2>1, <2>4
  <2>8. Arrived(text)'
    BY <1>1, <2>1, <2>3, <2>4, <2>5, <2>6, <2>7 DEF Arrived
  <2> QED BY <1>1, <1>3, <2>1, <2>8 DEF ReadInv, HasRead, AtEnd, ReportedTruthfully
<1> QED
  BY <1>6, <1>7, <1>8

\* The answer is on its way.
LEMMA AnswerArrives ==
    ASSUME ConnInv, ConnInv', ReadInv, NEW reply \in Replies, i3_answer(reply)
    PROVE  ReadInv'
<1> DEFINE text == reply.text
           h == <<"i3-", "ipc", Len(text), 0>>
<1>1. /\ i3 = "up" /\ i3' = "answered" /\ results' = reply.results /\ stream' = h \o text
      /\ UNCHANGED <<conn, tot, field, message_length, response>>
  BY DEF i3_answer
<1>2. /\ text \in Seq(Units) /\ Len(text) \in Nat /\ results' # <<>>
  BY <1>1, ReplyIs, LenProperties
<1>3. PICK old : HasRead(old)
  BY DEF ReadInv
<1>4. Said(text)'
  BY <1>1 DEF Said
<1>5. conn \notin AtEnd
  BY <1>1, <1>3 DEF HasRead, Complete
<1>6. ASSUME conn = "readn" PROVE Arrived(text)'
  <2>1. field = 1 /\ tot = 0
    BY <1>1, <1>6 DEF ConnInv
  <2>2. response' = <<>> /\ field' = 1 /\ tot' = 0
    BY <1>1, <1>3, <1>6, <2>1 DEF HasRead, Arrived
  <2>3. stream'[3] = Len(text) /\ Rest(stream', text, 4, 0)
    <3> DEFINE p == text
               a == "i3-"
               b == "ipc"
               c == Len(p)
               d == 0
    <3>1. a \in Units /\ b \in Units
      BY DEF Units
    <3>2. c \in Units /\ d \in Units
      <4>1. Nat \subseteq Units
        BY Zenon DEF Units
      <4>2. c \in Nat /\ d \in Nat
        BY <1>2
      <4> QED BY <4>1, <4>2
    <3>3. h = <<a, b, c, d>>
      OBVIOUS
    <3> HIDE DEF a, b, c, d, text
    <3>4. <<a, b, c, d>> \in Seq(Units) /\ Len(<<a, b, c, d>>) = 4 /\ <<a, b, c, d>>[3] = c
      BY <3>1, <3>2
    <3>5. h \in Seq(Units) /\ Len(h) = 4 /\ h[3] = Len(text)
      BY <3>3, <3>4 DEF c
    <3> HIDE DEF h
    <3>6. /\ Len(h \o text) = 4 + Len(text)
          /\ \A i \in 1 .. 4 + Len(text) : (h \o text)[i] = IF i <= 4 THEN h[i] ELSE text[i - 4]
      <4>1. text \in Seq(Units) /\ h \in Seq(Units)
        BY <1>2, <3>5
      <4>2. /\ Len(h \o text) = Len(h) + Len(text)
            /\ \A i \in 1 .. Len(h) + Len(text) :
                  (h \o text)[i] = IF i <= Len(h) THEN h[i] ELSE text[i - Len(h)]
        BY <4>1, ConcatProperties
      <4> QED BY <3>5, <4>2
    <3>7. 3 \in 1 .. 4 + Len(text) /\ 3 <= 4
      BY <1>2
    <3>8. stream'[3] = Len(text)
      BY <1>1, <3>5, <3>6, <3>7
    <3>9. ASSUME NEW i \in 1 .. Len(text) - 0 PROVE stream'[4 + i] = text[0 + i]
      <4>1. 4 + i \in 1 .. 4 + Len(text) /\ ~(4 + i <= 4) /\ (4 + i) - 4 = 0 + i
        BY <1>2
      <4> QED BY <1>1, <3>6, <4>1
    <3>10. Len(stream') = 4 + (Len(text) - 0)
      BY <1>1, <1>2, <3>6
    <3> QED BY <3>8, <3>9, <3>10 DEF Rest
  <2>4. stream'[3 - tot'] = Len(text) /\ Rest(stream', text, 4 - tot', 0) /\ tot' \in 0 .. 1
    BY <2>2, <2>3
  <2> HIDE DEF text
  <2>5. TextLeft(text)'
    BY <2>2, <2>4 DEF TextLeft
  <2>6. field' \in 1 .. 4
    BY <2>2
  <2> QED BY <2>2, <2>5, <2>6 DEF Arrived
<1>7. HasRead(text)'
  BY <1>1, <1>3, <1>4, <1>5, <1>6 DEF HasRead, AtEnd
<1>8. ReportedTruthfully'
  BY <1>1, <1>5 DEF ReportedTruthfully, AtEnd
<1> QED
  BY <1>1, <1>7, <1>8 DEF ReadInv

\* i3 may go while it is being read from, but not while its reply is looked at.
LEMMA CloseArrives ==
    ASSUME ReadInv, i3_close
    PROVE  ReadInv'
<1>1. /\ i3' = "closed" /\ stream' = <<>> /\ conn \in {"path", "writen", "readn"}
      /\ UNCHANGED <<conn, tot, results, field, message_length, response>>
  BY DEF i3_close
<1>2. PICK text : HasRead(text)
  BY DEF ReadInv
<1>3. Said(text)'
  BY <1>1, <1>2 DEF HasRead, Said
<1>4. conn = "readn" => Arrived(text)'
  BY <1>1, <1>2 DEF HasRead, Arrived
<1>5. HasRead(text)'
  BY <1>1, <1>2, <1>3, <1>4 DEF HasRead, AtEnd
<1> QED
  BY <1>1, <1>5 DEF ReadInv, ReportedTruthfully

\* Nothing is read while the message is put together and sent, and nothing after an error.
LEMMA SilentArrives ==
    ASSUME ReadInv, UNCHANGED <<i3, results, stream, response>>,
           \/ /\ conn \in {"none", "path", "long_path", "writen"}
              /\ conn' \in {"none", "path", "long_path", "writen", "exit"}
           \/ conn = "writen" /\ conn' = "readn" /\ i3 # "answered" /\ field' = 1
           \/ conn' = "exit"
           \/ UNCHANGED conn_vars
    PROVE  ReadInv'
<1>1. PICK text : HasRead(text)
  BY DEF ReadInv
<1>2. Said(text)'
  BY <1>1 DEF HasRead, Said
<1>3. CASE conn' \in {"none", "path", "long_path", "writen", "exit"}
           /\ (conn' # "exit" => conn \in {"none", "path", "long_path", "writen"})
  BY <1>1, <1>2, <1>3 DEF ReadInv, HasRead, AtEnd, ReportedTruthfully
<1>4. CASE conn = "writen" /\ conn' = "readn" /\ i3 # "answered" /\ field' = 1
  <2>1. response' = <<>>
    BY <1>1, <1>4 DEF HasRead
  <2>2. Arrived(text)'
    BY <1>4, <2>1 DEF Arrived
  <2> QED BY <1>1, <1>2, <1>4, <2>2 DEF ReadInv, HasRead, AtEnd, ReportedTruthfully
<1>5. CASE UNCHANGED conn_vars
  BY <1>5 DEF conn_vars, ReadInv, HasRead, Said, Arrived, Complete, TextLeft, ReportedTruthfully
<1> QED
  BY <1>3, <1>4, <1>5

LEMMA ReadNext == ConnInv /\ ConnInv' /\ ReadInv /\ [I3Next]_i3_vars => ReadInv'
<1> SUFFICES ASSUME ConnInv, ConnInv', ReadInv, [I3Next]_i3_vars PROVE ReadInv'
  OBVIOUS
<1>1. CASE Next /\ (opt.mode = "i3" => conn \in {"path", "long_path"}) /\ UNCHANGED conn_vars
  BY <1>1, SilentArrives DEF conn_vars
<1>2. CASE \E result \in SocketPaths : get_ipc_socket_path(result)
  <2>1. /\ conn = "none" /\ conn' \in {"path", "long_path", "exit"}
        /\ UNCHANGED <<i3, results, stream, response>>
    BY <1>2 DEF get_ipc_socket_path
  <2> QED BY <2>1, SilentArrives
<1>3. CASE connect
  <2>1. /\ conn \in {"path", "long_path"} /\ conn' \in {"writen", "exit"}
        /\ UNCHANGED <<i3, results, stream, response>>
    BY <1>3 DEF connect
  <2> QED BY <2>1, SilentArrives
<1>4. CASE \E n \in 1 .. Len(Message) : write(n)
  <2>1. /\ conn = "writen" /\ conn' \in {"writen", "readn"}
        /\ UNCHANGED <<i3, results, stream, field, response>>
    BY <1>4 DEF write
  <2>2. field = 1 /\ i3 # "answered"
    BY <2>1 DEF ConnInv
  <2> QED BY <2>1, <2>2, SilentArrives
<1>5. CASE write_fails \/ read_fails
  <2>1. conn' = "exit" /\ UNCHANGED <<i3, results, stream, response>>
    BY <1>5 DEF write_fails, read_fails
  <2> QED BY <2>1, SilentArrives
<1>6. CASE \E reply \in Replies : i3_answer(reply)
  BY <1>6, AnswerArrives
<1>7. CASE i3_close
  BY <1>7, CloseArrives
<1>8. CASE \E n \in 1 .. Len(stream) : read(n)
  BY <1>8, ReadArrives
<1>9. CASE read_eof
  BY <1>9, EofArrives
<1>10. CASE parse
  BY <1>10, ParseKeeps
<1>11. CASE UNCHANGED i3_vars
  BY <1>11, SilentArrives DEF i3_vars, conn_vars
<1> QED
  BY <1>1, <1>2, <1>3, <1>4, <1>5, <1>6, <1>7, <1>8, <1>9, <1>10, <1>11 DEF I3Next

LEMMA ReadInit == I3Init => ReadInv
<1> SUFFICES ASSUME I3Init PROVE ReadInv
  OBVIOUS
<1>1. HasRead(<<>>)
  BY DEF I3Init, HasRead, Said, AtEnd
<1> QED
  BY <1>1 DEF I3Init, ReadInv, ReportedTruthfully

\* For replies of any length, however they are cut up: the program goes on only if i3 has
\* reported a success, ends with an error only if it has reported a failure, and aborts only
\* if the reply broke off.
THEOREM AlwaysReportedTruthfully == I3Spec => []ReportedTruthfully
<1>1. I3Spec /\ []ConnInv => []ReadInv
  BY ReadInit, ReadNext, PTL DEF I3Spec
<1>2. ReadInv => ReportedTruthfully
  BY DEF ReadInv
<1> QED
  BY <1>1, <1>2, ConnInvariant, PTL

=============================================================================
