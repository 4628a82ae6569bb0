---------------------------- MODULE SequenceLemmas ----------------------------
(***************************************************************************)
(* What Append, Tail and Head do to a queue or a buffer, and that numbers  *)
(* have a least element: the facts about data the proofs share.            *)
(***************************************************************************)
EXTENDS Integers, Sequences, WellFoundedInduction, TLAPS

LEMMA AppendOne ==
    ASSUME NEW S, NEW s \in Seq(S), NEW e \in S
    PROVE  /\ Append(s, e) \in Seq(S) /\ Len(Append(s, e)) = Len(s) + 1 /\ Len(s) \in Nat
           /\ \A i \in 1 .. Len(s) + 1 : Append(s, e)[i] = IF i <= Len(s) THEN s[i] ELSE e
OBVIOUS

LEMMA TailShifts ==
    ASSUME NEW S, NEW s \in Seq(S), s # <<>>
    PROVE  /\ Tail(s) \in Seq(S) /\ Len(Tail(s)) = Len(s) - 1 /\ Len(s) \in Nat \ {0}
           /\ \A i \in 1 .. Len(s) - 1 : Tail(s)[i] = s[i + 1]
           /\ Head(s) = s[1] /\ Head(s) \in S
OBVIOUS

LEMMA SmallestOf ==
    ASSUME NEW S \in SUBSET Nat, S # {}
    PROVE  \E m \in S : \A x \in S : m <= x
<1> DEFINE R == {p \in Nat \X Nat : p[1] < p[2]}
<1>1. IsWellFoundedOn(R, Nat)
  <2>1. R = OpToRel(<, Nat)
    BY Zenon DEF OpToRel
  <2> QED
    BY <2>1, NatLessThanWellFounded
<1>2. PICK m \in S : \A y \in S : ~ (<<y, m>> \in R)
  BY <1>1, WFMin
<1>3. \A y \in S : ~ (y < m)
  BY <1>2
<1> QED
  BY <1>3

\* Counting from 0 to n.
LEMMA CountUp ==
    ASSUME NEW n \in Nat, NEW I, 0 \in I, \A i \in 0 .. n - 1 : i \in I => i + 1 \in I
    PROVE  \A i \in 0 .. n : i \in I
<1> DEFINE S == {i \in 0 .. n : i \notin I}
<1> SUFFICES ASSUME S # {} PROVE FALSE
  OBVIOUS
<1>1. PICK m \in S : \A x \in S : m <= x
  <2>1. S \in SUBSET Nat
    OBVIOUS
  <2> HIDE DEF S
  <2> QED
    BY <2>1, SmallestOf
<1>2. m \in 0 .. n /\ m # 0 /\ m - 1 \in 0 .. n - 1
  OBVIOUS
<1>3. m - 1 \in I
  BY <1>1, <1>2
<1> QED
  BY <1>2, <1>3

\* What is computed step by step, the i-th step from the result of the one before, exists.
Computations(S, a, n, F) ==
    {g \in [0 .. n -> S] : g[0] = a /\ \A i \in 1 .. n : g[i] = F[i][g[i - 1]]}

LEMMA StepByStep ==
    ASSUME NEW S, NEW a \in S, NEW n \in Nat, NEW F \in [1 .. n -> [S -> S]]
    PROVE  Computations(S, a, n, F) # {}
<1> DEFINE Upto(k, g) == g[0] = a /\ \A i \in 1 .. k : g[i] = F[i][g[i - 1]]
           Has(k) == \E g \in [0 .. k -> S] : Upto(k, g)
           I == {k \in 0 .. n : Has(k)}
<1>1. Has(0)
  <2>1. [i \in 0 .. 0 |-> a] \in [0 .. 0 -> S] /\ Upto(0, [i \in 0 .. 0 |-> a])
    OBVIOUS
  <2> HIDE DEF Upto
  <2> QED
    BY <2>1, Zenon
<1>2. ASSUME NEW k \in 0 .. n - 1, Has(k) PROVE Has(k + 1)
  <2>1. PICK g \in [0 .. k -> S] : Upto(k, g)
    BY <1>2
  <2> DEFINE h == [i \in 0 .. k + 1 |-> IF i = k + 1 THEN F[k + 1][g[k]] ELSE g[i]]
  <2>2. k + 1 \in 1 .. n /\ k \in 0 .. k /\ g[k] \in S
    OBVIOUS
  <2>3. h \in [0 .. k + 1 -> S]
    BY <2>2
  <2>4. Upto(k + 1, h)
    <3>1. h[0] = a
      BY <2>1
    <3>2. ASSUME NEW i \in 1 .. k + 1 PROVE h[i] = F[i][h[i - 1]]
      <4>1. CASE i = k + 1
        <5>1. h[k + 1] = F[k + 1][g[k]] /\ h[k] = g[k] /\ i - 1 = k
          BY <4>1
        <5> QED
          BY <4>1, <5>1
      <4>2. CASE i # k + 1
        <5>1. i \in 1 .. k /\ i - 1 \in 0 .. k
          BY <4>2
        <5>2. h[i] = g[i] /\ h[i - 1] = g[i - 1]
          BY <5>1
        <5> QED
          BY <2>1, <5>1, <5>2
      <4> QED
        BY <4>1, <4>2
    <3> QED
      BY <3>1, <3>2
  <2> HIDE DEF Upto, h
  <2> QED
    BY <2>3, <2>4, Zenon
<1> HIDE DEF Has
<1>3. 0 \in I /\ \A i \in 0 .. n - 1 : i \in I => i + 1 \in I
  BY <1>1, <1>2
<1> HIDE DEF I
<1>4. \A i \in 0 .. n : i \in I
  BY <1>3, CountUp
<1>5. Has(n)
  BY <1>4 DEF I
<1> QED
  BY <1>5 DEF Has, Computations

\* What is computed step by step is determined by its steps.
LEMMA SameSteps ==
    ASSUME NEW n \in Nat, NEW f, NEW g, f[0] = g[0],
           \A i \in 1 .. n : f[i - 1] = g[i - 1] => f[i] = g[i]
    PROVE  \A i \in 0 .. n : f[i] = g[i]
<1> DEFINE I == {j \in 0 .. n : f[j] = g[j]}
<1>1. 0 \in I
  OBVIOUS
<1>2. ASSUME NEW i \in 0 .. n - 1, i \in I PROVE i + 1 \in I
  <2>1. i + 1 \in 1 .. n /\ (i + 1) - 1 = i /\ i + 1 \in 0 .. n
    OBVIOUS
  <2>2. f[i + 1] = g[i + 1]
    BY <1>2, <2>1
  <2> QED
    BY <2>1, <2>2
<1> HIDE DEF I
<1>3. \A i \in 0 .. n : i \in I
  BY <1>1, <1>2, CountUp
<1> QED
  BY <1>3 DEF I
=============================================================================
