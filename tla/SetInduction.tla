---------------------------- MODULE SetInduction ----------------------------
(***************************************************************************)
(* Induction over the natural numbers stated about sets, so that the       *)
(* proofs of the other modules can cite it by name: a set that holds zero  *)
(* and the successor of each of its members is the set of all numbers, a   *)
(* nonempty set of numbers has a least element, and a step from one value  *)
(* to the next defines a sequence of values.                               *)
(***************************************************************************)
EXTENDS Integers, FiniteSets, FiniteSetTheorems, TLAPS

\* Were j the exception, adding one would map the members of X up to j one to
\* one to those of them that are not zero: a finite set to a smaller one.
LEMMA NatSetInduction ==
  ASSUME NEW X \in SUBSET Nat, 0 \in X, \A n \in X : n + 1 \in X
  PROVE  X = Nat
<1>1. SUFFICES ASSUME NEW j \in Nat, j \notin X PROVE FALSE
  OBVIOUS
<1> DEFINE T == {x \in X : x <= j}
           h == [x \in T |-> x + 1]
<1>2. IsFiniteSet(T)
  <2>1. T \in SUBSET Nat /\ \A t \in T : t <= j
    OBVIOUS
  <2>. QED
    BY <2>1, FS_BoundedSetOfNaturals
<1>3. h \in Injection(T, T \ {0})
  <2>1. \A x \in T : x + 1 \in T \ {0}
    BY <1>1
  <2>2. h \in [T -> T \ {0}]
    BY <2>1
  <2>3. \A x, y \in T : h[x] = h[y] => x = y
    OBVIOUS
  <2>. QED
    BY <2>2, <2>3 DEF Injection, IsInjective
<1>4. IsFiniteSet(T \ {0}) /\ Cardinality(T \ {0}) = Cardinality(T) - 1
  BY <1>2, 0 \in T, FS_RemoveElement
<1>5. Cardinality(T) <= Cardinality(T \ {0})
  BY <1>3, <1>4, FS_Injection
<1>. QED
  BY <1>2, <1>4, <1>5, FS_CardinalityType

\* A nonempty set of numbers has a least element.
LEMMA LeastElement ==
  ASSUME NEW S \in SUBSET Nat, S # {}
  PROVE  \E m \in S : \A n \in S : m <= n
<1>1. SUFFICES ASSUME \A m \in S : \E n \in S : n < m PROVE FALSE
  OBVIOUS
<1> DEFINE X == {x \in Nat : \A m \in 0 .. x : m \notin S}
<1>2. 0 \in X
  BY <1>1
<1>3. \A x \in X : x + 1 \in X
  <2>1. SUFFICES ASSUME NEW x \in X, x + 1 \in S PROVE FALSE
    OBVIOUS
  <2>. QED
    BY <1>1, <2>1
<1>4. X = Nat
  BY <1>2, <1>3, NatSetInduction
<1>5. PICK m \in S : TRUE
  OBVIOUS
<1>6. m \in X /\ m \in 0 .. m
  BY <1>4
<1>. QED
  BY <1>6

\* The sequence that begins with a and goes on as step says.
Follows(f, a, step) == f[0] = a /\ \A n \in Nat : f[n + 1] = step[n][f[n]]

\* What a step of a recursive definition says determines a sequence of values.
LEMMA RecursiveSequence ==
  ASSUME NEW S, NEW a \in S, NEW step \in [Nat -> [S -> S]]
  PROVE  \E f \in [Nat -> S] : Follows(f, a, step)
<1> DEFINE Upto(n, h) == /\ h \in [0 .. n -> S] /\ h[0] = a
                         /\ \A i \in 0 .. n - 1 : h[i + 1] = step[i][h[i]]
           Has == {n \in Nat : \E h \in [0 .. n -> S] : Upto(n, h)}
           One == {n \in Nat : \A i, j \in Nat : \A g \in [0 .. i -> S], h \in [0 .. j -> S] :
                     n <= i /\ n <= j /\ Upto(i, g) /\ Upto(j, h) => g[n] = h[n]}
<1>1. Has = Nat
  <2>1. 0 \in Has
    <3>1. Upto(0, [i \in 0 .. 0 |-> a])
      OBVIOUS
    <3>. QED
      BY <3>1
  <2>2. ASSUME NEW n \in Has PROVE n + 1 \in Has
    <3>1. PICK h : Upto(n, h)
      OBVIOUS
    <3> DEFINE k == [i \in 0 .. n + 1 |-> IF i <= n THEN h[i] ELSE step[n][h[n]]]
    <3>2. n \in Nat /\ n \in 0 .. n /\ \A i \in 0 .. n + 1 : i <= n => i \in 0 .. n
      OBVIOUS
    <3>3. h[n] \in S /\ step[n][h[n]] \in S
      BY <3>1, <3>2
    <3>4. k \in [0 .. n + 1 -> S] /\ k[0] = a
      BY <3>1, <3>2, <3>3
    <3>5. ASSUME NEW i \in 0 .. n PROVE k[i + 1] = step[i][k[i]]
      <4>1. CASE i = n
        <5>1. n + 1 \in 0 .. n + 1 /\ ~(n + 1 <= n) /\ n \in 0 .. n + 1 /\ n <= n
          BY <3>2
        <5>2. k[n + 1] = step[n][h[n]] /\ k[n] = h[n]
          BY <5>1
        <5> HIDE DEF k
        <5>. QED
          BY <4>1, <5>2
      <4>2. CASE i # n
        <5>1. i \in 0 .. n - 1 /\ i + 1 \in 0 .. n /\ i \in 0 .. n
          BY <3>2, <4>2
        <5>. QED
          BY <3>1, <3>2, <5>1
      <4>. QED
        BY <4>1, <4>2
    <3>6. (n + 1) - 1 = n
      BY <3>2
    <3> HIDE DEF k
    <3>7. Upto(n + 1, k)
      BY <3>4, <3>5, <3>6
    <3>8. n + 1 \in Nat
      BY <3>2
    <3> HIDE DEF Upto
    <3>. QED
      BY <3>4, <3>7, <3>8
  <2>. QED
    BY <2>1, <2>2, NatSetInduction
<1>2. One = Nat
  <2>1. 0 \in One
    OBVIOUS
  <2>2. ASSUME NEW n \in One PROVE n + 1 \in One
    <3>1. ASSUME NEW i \in Nat, NEW j \in Nat, n + 1 <= i, n + 1 <= j,
                 NEW g \in [0 .. i -> S], NEW h \in [0 .. j -> S], Upto(i, g), Upto(j, h)
          PROVE  g[n + 1] = h[n + 1]
      <4>1. n \in Nat /\ n <= i /\ n <= j /\ n \in 0 .. i - 1 /\ n \in 0 .. j - 1
        BY <3>1
      <4>2. g[n] = h[n]
        BY <3>1, <4>1
      <4>3. g[n + 1] = step[n][g[n]] /\ h[n + 1] = step[n][h[n]]
        BY <3>1, <4>1
      <4>. QED
        BY <4>2, <4>3
    <3>2. n + 1 \in Nat
      OBVIOUS
    <3> HIDE DEF Upto
    <3>. QED
      BY <3>1, <3>2
  <2>. QED
    BY <2>1, <2>2, NatSetInduction
<1> DEFINE Some(n) == CHOOSE h \in [0 .. n -> S] : Upto(n, h)
           f == [n \in Nat |-> Some(n)[n]]
<1>3. ASSUME NEW n \in Nat PROVE Upto(n, Some(n))
  BY <1>1
<1>4. f \in [Nat -> S]
  <2>1. ASSUME NEW n \in Nat PROVE Some(n)[n] \in S
    <3> HIDE DEF Some
    <3>. QED
      BY <1>3
  <2>. QED
    BY <2>1
<1>5. f[0] = a
  BY <1>3
<1>6. ASSUME NEW n \in Nat PROVE f[n + 1] = step[n][f[n]]
  <2> DEFINE g == Some(n + 1)
             h == Some(n)
  <2>1. n + 1 \in Nat /\ Upto(n + 1, g) /\ Upto(n, h)
    <3> HIDE DEF Upto, Some
    <3>1. n + 1 \in Nat
      OBVIOUS
    <3>. QED
      BY <1>3, <3>1
  <2>2. f[n + 1] = g[n + 1] /\ f[n] = h[n]
    BY <2>1
  <2> HIDE DEF g, h, f
  <2>3. n <= n + 1 /\ n <= n /\ n \in 0 .. (n + 1) - 1
    OBVIOUS
  <2>4. g[n] = h[n]
    <3>1. n \in One
      BY <1>2
    <3>. QED
      BY <2>1, <2>3, <3>1
  <2>5. g[n + 1] = step[n][g[n]]
    BY <2>1, <2>3
  <2>. QED
    BY <2>2, <2>4, <2>5
<1> HIDE DEF f
<1>. QED
  BY <1>4, <1>5, <1>6 DEF Follows

=============================================================================
