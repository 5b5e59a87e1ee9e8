--------------------------- MODULE BoundedRecursion ---------------------------
(***************************************************************************)
(* Induction and recursion over 0 .. N, stated with sets and functions:    *)
(* what the proofs about loops over a container of the program rest on.    *)
(***************************************************************************)
EXTENDS Integers, WellFoundedInduction, TLAPS

\* A non-empty set of natural numbers has a least element.
LEMMA LeastExists ==
    ASSUME NEW T \in SUBSET Nat, T # {}
    PROVE  \E x \in T : \A y \in T : x <= y
<1> DEFINE R == OpToRel(<, Nat)
<1>1. IsWellFoundedOn(R, Nat)
  BY NatLessThanWellFounded
<1> HIDE DEF R
<1>2. \E x \in T : \A y \in T : ~(<<y, x>> \in R)
  BY <1>1, WFMin
<1>3. PICK x \in T : \A y \in T : ~(<<y, x>> \in R)
  BY <1>2
<1>4. \A y \in T : ~(y < x)
  BY <1>3 DEF R, OpToRel
<1>5. \A y \in T : x <= y
  <2>1. x \in Nat /\ \A y \in T : y \in Nat
    OBVIOUS
  <2> QED BY <1>4, <2>1
<1> QED
  BY <1>5

\* A set that has 0 and every successor is all of 0 .. N: a loop that starts in a
\* good state and keeps it good ends in one.
LEMMA BoundedInduction ==
    ASSUME NEW N \in Nat, NEW S, 0 \in S, \A n \in 1 .. N : n - 1 \in S => n \in S
    PROVE  0 .. N \subseteq S
<1> SUFFICES ASSUME (0 .. N) \ S # {} PROVE FALSE
  OBVIOUS
<1> DEFINE T == (0 .. N) \ S
<1>1. T \in SUBSET Nat /\ T # {}
  OBVIOUS
<1>2. PICK x \in T : \A y \in T : x <= y
  <2> HIDE DEF T
  <2> QED BY <1>1, LeastExists
<1>3. x \in 1 .. N /\ x - 1 \in 0 .. N /\ x \notin S
  BY <1>2
<1>4. x - 1 \in S
  BY <1>2, <1>3
<1> QED
  BY <1>3, <1>4

\* The functions a recursive definition over 0 .. N may stand for: b for 0, and
\* step[n] applied to the value for n - 1
Recursion(N, X, b, step) ==
    {g \in [0 .. N -> X] : g[0] = b /\ \A n \in 1 .. N : g[n] = step[n][g[n - 1]]}

\* There is one.
LEMMA RecursionExists ==
    ASSUME NEW N \in Nat, NEW X, NEW b \in X, NEW step,
           \A n \in 1 .. N, x \in X : step[n][x] \in X
    PROVE  Recursion(N, X, b, step) # {}
<1> DEFINE Upto(m, g) == g[0] = b /\ \A n \in 1 .. m : g[n] = step[n][g[n - 1]]
           S == {m \in 0 .. N : \E g \in [0 .. m -> X] : Upto(m, g)}
<1>1. 0 \in S
  <2> DEFINE g == [n \in 0 .. 0 |-> b]
  <2>1. g \in [0 .. 0 -> X] /\ g[0] = b /\ \A n \in 1 .. 0 : g[n] = step[n][g[n - 1]]
    OBVIOUS
  <2>2. g \in [0 .. 0 -> X] /\ Upto(0, g)
    BY <2>1
  <2> HIDE DEF g, Upto
  <2>3. \E f \in [0 .. 0 -> X] : Upto(0, f)
    BY <2>2
  <2> QED BY <2>3
<1>2. ASSUME NEW m \in 1 .. N, m - 1 \in S
      PROVE  m \in S
  <2>1. PICK g \in [0 .. m - 1 -> X] :
            g[0] = b /\ \A n \in 1 .. m - 1 : g[n] = step[n][g[n - 1]]
    BY <1>2
  <2> DEFINE h == [n \in 0 .. m |-> IF n < m THEN g[n] ELSE step[m][g[m - 1]]]
  <2>2. g[m - 1] \in X /\ step[m][g[m - 1]] \in X
    BY <2>1
  <2>3. \A n \in 0 .. m : n < m => n \in 0 .. m - 1
    OBVIOUS
  <2>4. h \in [0 .. m -> X]
    BY <2>1, <2>2, <2>3
  <2>5. h[0] = b
    BY <2>1
  <2>6. ASSUME NEW n \in 1 .. m PROVE h[n] = step[n][h[n - 1]]
    <3>1. n - 1 \in 0 .. m /\ n - 1 < m /\ h[n - 1] = g[n - 1]
      OBVIOUS
    <3>2. CASE n < m
      <4>1. n \in 1 .. m - 1 /\ h[n] = g[n]
        BY <3>2
      <4> QED BY <2>1, <3>1, <4>1
    <3>3. CASE n = m
      BY <3>1, <3>3
    <3> QED BY <3>2, <3>3
  <2>7. Upto(m, h)
    BY <2>5, <2>6
  <2> HIDE DEF h, Upto
  <2>8. \E f \in [0 .. m -> X] : Upto(m, f)
    BY <2>4, <2>7
  <2> QED
    BY <2>8
<1>3. N \in S
  <2> HIDE DEF S
  <2>1. 0 .. N \subseteq S
    BY <1>1, <1>2, BoundedInduction
  <2> QED BY <2>1
<1> QED
  BY <1>3 DEF Recursion

=============================================================================
