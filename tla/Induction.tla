----------------------------- MODULE Induction -----------------------------
(* Induction along a sequence, as an argument from the least counterexample. *)
EXTENDS Integers, WellFoundedInduction, TLAPS

\* A set of natural numbers that is not empty has a least element.
LEMMA LeastNatural ==
  ASSUME NEW S \in SUBSET Nat, S # {}
  PROVE  \E n \in S : \A m \in S : n <= m
PROOF
<1> DEFINE R == OpToRel(<, Nat)
<1>1. IsWellFoundedOn(R, Nat)
  BY NatLessThanWellFounded, Zenon
<1>2. PICK n \in S : \A m \in S : <<m, n>> \notin R
  <2> HIDE DEF R
  <2> QED
    BY <1>1, WFMin, Zenon
<1>3. \A m \in S : ~(m < n)
  BY <1>2 DEF OpToRel
<1> QED
  BY <1>3

\* What holds of 0, and of k + 1 if it does of k, holds of all numbers up to n.
LEMMA UpTo ==
  ASSUME NEW n \in Nat, NEW S, 0 \in S, \A k \in 0..(n - 1) : k \in S => k + 1 \in S
  PROVE  \A k \in 0..n : k \in S
PROOF
<1> DEFINE T == {k \in 0..n : k \notin S}
<1>1. SUFFICES ASSUME T # {} PROVE FALSE
  OBVIOUS
<1>2. T \in SUBSET Nat
  OBVIOUS
<1>3. PICK k \in T : \A m \in T : k <= m
  <2> HIDE DEF T
  <2> QED
    BY <1>1, <1>2, LeastNatural
<1>4. k \in 0..n /\ k \notin S
  BY <1>3
<1>5. k # 0 /\ k - 1 \in 0..(n - 1) /\ (k - 1) + 1 = k
  BY <1>4
<1>6. k - 1 \notin T
  BY <1>3, <1>5
<1>7. k - 1 \in S
  BY <1>5, <1>6
<1> QED
  BY <1>4, <1>5, <1>7

\* The values f has up to n begin with a, and each comes from the one before by its step.
Stepwise(f, n, a, s) == \A i \in 1..n : f[i] = IF i = 1 THEN a ELSE s[i][f[i - 1]]

\* Whatever the steps are, such values exist.
LEMMA Recursion ==
  ASSUME NEW n \in Nat, NEW V, NEW a \in V, NEW s \in [1..n -> [V -> V]]
  PROVE  \E f \in [1..n -> V] : Stepwise(f, n, a, s)
PROOF
<1> DEFINE P(f, k) == \A i \in 1..k : f[i] = IF i = 1 THEN a ELSE s[i][f[i - 1]]
           S == {k \in 0..n : \E f \in [1..k -> V] : P(f, k)}
<1>1. 0 \in S
  <2>1. P([i \in 1..0 |-> a], 0) /\ [i \in 1..0 |-> a] \in [1..0 -> V] /\ 0 \in 0..n
    OBVIOUS
  <2> QED
    BY <2>1
<1>2. ASSUME NEW k \in 0..(n - 1), k \in S PROVE k + 1 \in S
  <2>1. PICK f \in [1..k -> V] : P(f, k)
    BY <1>2
  <2> DEFINE last == IF k = 0 THEN a ELSE s[k + 1][f[k]]
             g == [i \in 1..(k + 1) |-> IF i = k + 1 THEN last ELSE f[i]]
  <2>2. k \in Nat /\ k + 1 \in 1..n /\ k + 1 \in 0..n
    OBVIOUS
  <2>3. last \in V
    <3>1. CASE k = 0
      BY <3>1
    <3>2. CASE k # 0
      <4>1. f[k] \in V /\ s[k + 1] \in [V -> V]
        BY <2>2, <3>2
      <4> QED
        BY <3>2, <4>1
    <3> QED
      BY <3>1, <3>2
  <2> HIDE DEF last
  <2>4. g \in [1..(k + 1) -> V]
    BY <2>2, <2>3
  <2>5. ASSUME NEW i \in 1..(k + 1)
        PROVE  g[i] = IF i = 1 THEN a ELSE s[i][g[i - 1]]
    <3>1. CASE i = k + 1
      <4>1. g[i] = last
        BY <2>2, <3>1
      <4>2. CASE k = 0
        BY <3>1, <4>1, <4>2 DEF last
      <4>3. CASE k # 0
        <5>1. i - 1 = k /\ i # 1 /\ k \in 1..(k + 1) /\ k # k + 1
          BY <2>2, <3>1, <4>3
        <5>2. g[k] = f[k]
          BY <5>1
        <5> QED
          BY <3>1, <4>1, <4>3, <5>1, <5>2 DEF last
      <4> QED
        BY <4>2, <4>3
    <3>2. CASE i # k + 1
      <4>1. i \in 1..k /\ (i # 1 => i - 1 \in 1..k)
        BY <2>2, <3>2
      <4>2. g[i] = f[i] /\ (i # 1 => g[i - 1] = f[i - 1])
        BY <2>2, <4>1
      <4> QED
        BY <2>1, <4>1, <4>2
    <3> QED
      BY <3>1, <3>2
  <2>6. \E h \in [1..(k + 1) -> V] : P(h, k + 1)
    <3> HIDE DEF g
    <3> QED
      BY <2>4, <2>5
  <2> QED
    BY <2>2, <2>6
<1>3. n \in 0..n
  OBVIOUS
<1>4. n \in S
  <2> HIDE DEF S
  <2> QED
    BY <1>1, <1>2, <1>3, UpTo
<1> QED
  BY <1>4 DEF Stepwise

\* f begins with a at 0, and each value comes from the one before by its step.
Iterates(f, n, a, s) == f[0] = a /\ \A i \in 1..n : f[i] = s[i][f[i - 1]]

\* Such a function exists.
LEMMA StepsExist ==
  ASSUME NEW n \in Nat, NEW V, NEW a \in V, NEW s \in [1..n -> [V -> V]]
  PROVE  \E f \in [0..n -> V] : Iterates(f, n, a, s)
PROOF
<1> DEFINE P(f, k) == f[0] = a /\ \A i \in 1..k : f[i] = s[i][f[i - 1]]
           S == {k \in 0..n : \E f \in [0..k -> V] : P(f, k)}
<1>1. 0 \in S
  <2>1. P([i \in 0..0 |-> a], 0) /\ [i \in 0..0 |-> a] \in [0..0 -> V] /\ 0 \in 0..n
    OBVIOUS
  <2> QED
    BY <2>1
<1>2. ASSUME NEW k \in 0..(n - 1), k \in S PROVE k + 1 \in S
  <2>1. PICK f \in [0..k -> V] : P(f, k)
    BY <1>2
  <2> DEFINE last == s[k + 1][f[k]]
             g == [i \in 0..(k + 1) |-> IF i = k + 1 THEN last ELSE f[i]]
  <2>2. k \in Nat /\ k + 1 \in 1..n /\ k + 1 \in 0..n /\ k \in 0..k
    OBVIOUS
  <2>3. last \in V
    <3>1. f[k] \in V /\ s[k + 1] \in [V -> V]
      BY <2>2
    <3> QED
      BY <3>1
  <2> HIDE DEF last
  <2>4. g \in [0..(k + 1) -> V]
    BY <2>2, <2>3
  <2>5. ASSUME NEW i \in 1..(k + 1)
        PROVE  g[i] = s[i][g[i - 1]]
    <3>1. CASE i = k + 1
      <4>1. g[i] = last
        BY <2>2, <3>1
      <4>2. i - 1 = k /\ k \in 0..(k + 1) /\ k # k + 1
        BY <2>2, <3>1
      <4>3. g[k] = f[k]
        BY <4>2
      <4> QED
        BY <3>1, <4>1, <4>2, <4>3 DEF last
    <3>2. CASE i # k + 1
      <4>1. i \in 1..k /\ i - 1 \in 0..k /\ i - 1 # k + 1
        BY <2>2, <3>2
      <4>2. g[i] = f[i] /\ g[i - 1] = f[i - 1]
        BY <2>2, <4>1
      <4> QED
        BY <2>1, <4>1, <4>2
    <3> QED
      BY <3>1, <3>2
  <2>6. g[0] = a
    <3>1. 0 \in 0..(k + 1) /\ 0 # k + 1
      BY <2>2
    <3> QED
      BY <2>1, <3>1
  <2>7. \E h \in [0..(k + 1) -> V] : P(h, k + 1)
    <3> HIDE DEF g
    <3> QED
      BY <2>4, <2>5, <2>6
  <2> QED
    BY <2>2, <2>7
<1>3. n \in 0..n
  OBVIOUS
<1>4. n \in S
  <2> HIDE DEF S
  <2> QED
    BY <1>1, <1>2, <1>3, UpTo
<1> QED
  BY <1>4 DEF Iterates

\* h takes the steps as long as its values are in V.
TakesSteps(h, n, V, a, s) == h[0] = a /\ \A i \in 1..n : h[i - 1] \in V => h[i] = s[i][h[i - 1]]

\* What takes the same steps has the same values.
LEMMA StepsAgree ==
  ASSUME NEW n \in Nat, NEW V, NEW a, NEW s, NEW f \in [0..n -> V], Iterates(f, n, a, s),
         NEW h, TakesSteps(h, n, V, a, s)
  PROVE  \A k \in 0..n : h[k] = f[k]
PROOF
<1> DEFINE S == {k \in 0..n : h[k] = f[k]}
<1>1. 0 \in S
  BY DEF Iterates, TakesSteps
<1>2. ASSUME NEW k \in 0..(n - 1), k \in S PROVE k + 1 \in S
  <2>1. k + 1 \in 1..n /\ k \in 0..n /\ k + 1 \in 0..n /\ k + 1 - 1 = k
    OBVIOUS
  <2>2. h[k] = f[k] /\ f[k] \in V
    BY <1>2, <2>1
  <2>3. h[k + 1] = s[k + 1][h[k]]
    BY <2>1, <2>2 DEF TakesSteps
  <2>4. f[k + 1] = s[k + 1][f[k]]
    BY <2>1 DEF Iterates
  <2> QED
    BY <2>1, <2>2, <2>3, <2>4
<1>3. \A k \in 0..n : k \in S
  <2> HIDE DEF S
  <2> QED
    BY <1>1, <1>2, UpTo
<1> QED
  BY <1>3
=============================================================================
