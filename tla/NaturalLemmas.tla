---------------------------- MODULE NaturalLemmas ----------------------------
(***************************************************************************)
(* Induction and recursion over the naturals, stated with sets and         *)
(* functions in place of predicates.                                       *)
(***************************************************************************)
EXTENDS Integers, WellFoundedInduction, TLAPS

LEMMA LeastNatural ==
    ASSUME NEW S \in SUBSET Nat, S # {}
    PROVE  \E m \in S : \A j \in S : m <= j
<1>1. PICK m \in S : \A j \in S : <<j, m>> \notin OpToRel(<, Nat)
  BY NatLessThanWellFounded, WFMin, Zenon
<1>2. \A j \in S : ~(j < m)
  BY <1>1 DEF OpToRel
<1> QED
  BY <1>2

LEMMA Induction ==
    ASSUME NEW S, 0 \in S, \A n \in Nat : n \in S => n + 1 \in S
    PROVE  Nat \subseteq S
<1> DEFINE U == Nat \ S
<1> SUFFICES ASSUME U # {} PROVE FALSE
  OBVIOUS
<1>1. PICK m \in U : \A j \in U : m <= j
  BY LeastNatural
<1>2. m # 0 /\ m - 1 \in Nat /\ m - 1 \notin U
  BY <1>1
<1> QED
  BY <1>1, <1>2

\* The functions that give the next value of such a sequence, f one they give, and
\* one whose values depend on the ones before as g's do.
Steps(n, T) == [(1..n) \X T -> T]
Follows(f, n, base, next) == f[0] = base /\ \A i \in 1..n : f[i] = next[<<i, f[i-1]>>]
GoesOnLike(f, n, g) == f[0] = g[0] /\ \A i \in 1..n : f[i-1] = g[i-1] => f[i] = g[i]

\* A function on 0..n whose values each come from the one before exists.
LEMMA RecursionExists ==
    ASSUME NEW n \in Nat, NEW T, NEW base \in T, NEW next \in Steps(n, T)
    PROVE  \E f \in [0..n -> T] : Follows(f, n, base, next)
<1> USE DEF Steps
<1> DEFINE Upto(f, m) == \A i \in 0..n : i <= m =>
                            f[i] = IF i = 0 THEN base ELSE next[<<i, f[i-1]>>]
           S == {m \in Nat : \E f \in [0..n -> T] : Upto(f, m)}
<1>1. 0 \in S
  <2>1. Upto([i \in 0..n |-> base], 0)
    OBVIOUS
  <2> QED
    BY <2>1
<1>2. ASSUME NEW m \in Nat, m \in S PROVE m + 1 \in S
  <2>1. PICK f \in [0..n -> T] : Upto(f, m)
    BY <1>2
  <2> DEFINE g == [i \in 0..n |-> IF i = m + 1 THEN next[<<i, f[i-1]>>] ELSE f[i]]
  <2>2. \A i \in 1..n : i - 1 \in 0..n /\ next[<<i, f[i-1]>>] \in T
    OBVIOUS
  <2>3. g \in [0..n -> T]
    BY <2>2
  <2>4. ASSUME NEW i \in 0..n, i <= m + 1
        PROVE  g[i] = IF i = 0 THEN base ELSE next[<<i, g[i-1]>>]
    <3>1. i # 0 => i - 1 \in 0..n /\ g[i-1] = f[i-1]
      BY <2>4
    <3>2. CASE i = m + 1
      BY <3>1, <3>2
    <3>3. CASE i # m + 1
      <4>1. g[i] = f[i] /\ i <= m
        BY <2>4, <3>3
      <4> QED
        BY <2>1, <3>1, <4>1
    <3> QED
      BY <3>2, <3>3
  <2>5. Upto(g, m + 1)
    BY <2>4
  <2> HIDE DEF g, Upto
  <2> QED
    BY <2>3, <2>5
<1>3. n \in S
  <2> HIDE DEF S
  <2> QED
    BY <1>1, <1>2, Induction
<1>4. PICK f \in [0..n -> T] : Upto(f, n)
  BY <1>3
<1>5. \A i \in 0..n : f[i] = IF i = 0 THEN base ELSE next[<<i, f[i-1]>>]
  BY <1>4
<1>6. 0 \in 0..n /\ \A i \in 1..n : i \in 0..n /\ i # 0
  OBVIOUS
<1>7. f[0] = base
  BY <1>5, <1>6
<1>8. \A i \in 1..n : f[i] = next[<<i, f[i-1]>>]
  BY <1>5, <1>6
<1> QED
  BY <1>7, <1>8 DEF Follows

\* Functions on 0..n that start alike and go on alike are alike.
LEMMA RecursionAgrees ==
    ASSUME NEW n \in Nat, NEW f, NEW g, GoesOnLike(f, n, g)
    PROVE  \A i \in 0..n : f[i] = g[i]
<1> DEFINE S == {i \in Nat : i <= n => f[i] = g[i]}
<1>1. 0 \in S
  BY DEF GoesOnLike
<1>2. ASSUME NEW i \in Nat, i \in S PROVE i + 1 \in S
  <2> SUFFICES ASSUME i + 1 <= n PROVE f[i+1] = g[i+1]
    OBVIOUS
  <2>1. i + 1 \in 1..n /\ (i + 1) - 1 = i /\ f[i] = g[i]
    BY <1>2
  <2> QED
    BY <2>1 DEF GoesOnLike
<1>3. Nat \subseteq S
  <2> HIDE DEF S
  <2> QED
    BY <1>1, <1>2, Induction
<1> QED
  BY <1>3
=============================================================================
