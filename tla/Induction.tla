------------------------------ MODULE Induction ------------------------------
(***************************************************************************)
(* Induction over the natural numbers, stated for sets, and what it shows  *)
(* of running sums.                                                        *)
(***************************************************************************)
EXTENDS RunningSums, WellFoundedInduction, TLAPS

\* A set of numbers that has 0 and, with each number, the next one has them all: of
\* those it lacks there would be a least one.
LEMMA SetInduction ==
    ASSUME NEW S, 0 \in S, \A n \in Nat : n \in S => n + 1 \in S
    PROVE  Nat \subseteq S
<1> DEFINE Less == {p \in Nat \X Nat : p[1] < p[2]}
           T == {n \in Nat : n \notin S}
<1>1. Less = OpToRel(<, Nat)
  BY DEF OpToRel
<1>2. IsWellFoundedOn(Less, Nat)
  BY <1>1, NatLessThanWellFounded
<1>3. SUFFICES ASSUME T # {} PROVE FALSE
  OBVIOUS
<1>4. PICK x \in T : \A y \in T : ~ (<<y, x>> \in Less)
  <2>1. T \subseteq Nat
    OBVIOUS
  <2> HIDE DEF Less, T
  <2> QED BY <1>2, <1>3, <2>1, WFMin
<1>5. x \in Nat /\ x # 0 /\ x - 1 \in Nat
  OBVIOUS
<1>6. x - 1 \in T
  BY <1>5
<1>7. <<x - 1, x>> \in Less
  BY <1>5
<1> QED BY <1>4, <1>6, <1>7

-----------------------------------------------------------------------------
\* There is a function that satisfies the equation of RunningSum.
LEMMA RunningSumExists ==
    ASSUME NEW n \in Nat, NEW v \in [1..n -> Nat]
    PROVE  \E s \in [0..n -> Nat] : s = [i \in 0..n |-> IF i = 0 THEN 0 ELSE s[i - 1] + v[i]]
<1> DEFINE Sums(k, s) == s[0] = 0 /\ \A i \in 1..k : s[i] = s[i - 1] + v[i]
           Has(k) == \E s \in [0..k -> Nat] : Sums(k, s)
           S == {k \in Nat : k <= n => Has(k)}
<1>1. 0 \in S
  <2>1. [i \in 0..0 |-> 0] \in [0..0 -> Nat] /\ Sums(0, [i \in 0..0 |-> 0])
    OBVIOUS
  <2>2. Has(0)
    BY <2>1
  <2> HIDE DEF Has
  <2> QED BY <2>2
<1>2. ASSUME NEW k \in Nat, k \in S PROVE k + 1 \in S
  <2> SUFFICES ASSUME k + 1 <= n PROVE Has(k + 1)
    <3> HIDE DEF Has
    <3> QED OBVIOUS
  <2>0. Has(k)
    <3> HIDE DEF Has
    <3> QED BY <1>2
  <2>1. PICK s \in [0..k -> Nat] : Sums(k, s)
    BY <2>0
  <2> DEFINE r == [i \in 0..(k + 1) |-> IF i = k + 1 THEN s[k] + v[k + 1] ELSE s[i]]
  <2>2. v[k + 1] \in Nat
    OBVIOUS
  <2>3. r \in [0..(k + 1) -> Nat]
    BY <2>2
  <2>4. Sums(k + 1, r)
    <3>1. r[0] = 0
      BY <2>1
    <3>2. ASSUME NEW i \in 1..(k + 1) PROVE r[i] = r[i - 1] + v[i]
      <4>1. CASE i = k + 1
        BY <4>1
      <4>2. CASE i # k + 1
        <5>1. i \in 1..k /\ i - 1 \in 0..k /\ r[i] = s[i] /\ r[i - 1] = s[i - 1]
          BY <4>2
        <5> QED BY <2>1, <5>1
      <4> QED BY <4>1, <4>2
    <3> HIDE DEF r
    <3> QED BY <3>1, <3>2
  <2> HIDE DEF r
  <2> QED BY <2>3, <2>4
<1>3. n \in S
  <2> HIDE DEF S
  <2> QED BY <1>1, <1>2, SetInduction
<1>4. PICK s \in [0..n -> Nat] : Sums(n, s)
  <2>1. Has(n)
    <3> HIDE DEF Has
    <3> QED BY <1>3
  <2> QED BY <2>1
<1>5. s = [i \in 0..n |-> IF i = 0 THEN 0 ELSE s[i - 1] + v[i]]
  <2> DEFINE r == [i \in 0..n |-> IF i = 0 THEN 0 ELSE s[i - 1] + v[i]]
  <2>1. ASSUME NEW i \in 0..n PROVE s[i] = r[i]
    BY <1>4
  <2>2. s = [i \in 0..n |-> s[i]] /\ r = [i \in 0..n |-> r[i]]
    OBVIOUS
  <2> HIDE DEF r
  <2>3. s = r
    BY <2>1, <2>2
  <2> QED BY <2>3 DEF r
<1> QED BY <1>5

\* A running sum starts at 0 and adds one number after the other.
LEMMA RunningSumStep ==
    ASSUME NEW n \in Nat, NEW v \in [1..n -> Nat]
    PROVE  /\ RunningSum(v, n) \in [0..n -> Nat]
           /\ RunningSum(v, n)[0] = 0
           /\ \A i \in 1..n : RunningSum(v, n)[i] = RunningSum(v, n)[i - 1] + v[i]
<1> DEFINE Is(s) == s = [i \in 0..n |-> IF i = 0 THEN 0 ELSE s[i - 1] + v[i]]
           r == RunningSum(v, n)
<1>1. PICK s \in [0..n -> Nat] : Is(s)
  BY RunningSumExists
<1>2. r = CHOOSE t : Is(t)
  BY DEF RunningSum
<1>3. Is(r)
  <2> HIDE DEF Is, r
  <2> QED BY <1>1, <1>2
<1>4. \A i \in 0..n : r[i] = IF i = 0 THEN 0 ELSE r[i - 1] + v[i]
  <2> HIDE DEF r
  <2> QED BY <1>3
<1>5. r[0] = 0 /\ \A i \in 1..n : r[i] = r[i - 1] + v[i]
  <2> HIDE DEF r, Is
  <2> QED BY <1>4
<1>6. DOMAIN r = 0..n /\ r = [i \in 0..n |-> r[i]]
  <2> HIDE DEF r
  <2>1. DOMAIN r = 0..n
    BY <1>3
  <2>2. r = [i \in 0..n |-> r[i]]
    BY <1>3, <1>4
  <2> QED BY <2>1, <2>2
<1>7. \A i \in 0..n : r[i] \in Nat
  <2> HIDE DEF r, Is
  <2> DEFINE S == {k \in Nat : k <= n => r[k] \in Nat}
  <2>1. 0 \in S
    BY <1>5
  <2>2. ASSUME NEW k \in Nat, k \in S PROVE k + 1 \in S
    <3> SUFFICES ASSUME k + 1 <= n PROVE r[k + 1] \in Nat
      OBVIOUS
    <3>1. k + 1 \in 1..n /\ (k + 1) - 1 = k /\ r[k] \in Nat /\ v[k + 1] \in Nat
      BY <2>2
    <3> QED BY <1>5, <3>1
  <2> HIDE DEF S
  <2>3. Nat \subseteq S
    BY <2>1, <2>2, SetInduction
  <2> QED BY <2>3 DEF S
<1> HIDE DEF r, Is
<1>8. r \in [0..n -> Nat]
  BY <1>6, <1>7
<1> QED BY <1>5, <1>8 DEF r

\* It never goes down.
LEMMA RunningSumGrows ==
    ASSUME NEW n \in Nat, NEW v \in [1..n -> Nat], NEW i \in 0..n, NEW j \in 0..n, i <= j
    PROVE  RunningSum(v, n)[i] <= RunningSum(v, n)[j]
<1> DEFINE r == RunningSum(v, n)
           S == {k \in Nat : i + k <= n => r[i] <= r[i + k]}
<1>0. r \in [0..n -> Nat] /\ \A k \in 1..n : r[k] = r[k - 1] + v[k]
  BY RunningSumStep
<1> HIDE DEF r
<1>1. 0 \in S
  BY <1>0
<1>2. ASSUME NEW k \in Nat, k \in S PROVE k + 1 \in S
  <2> SUFFICES ASSUME i + (k + 1) <= n PROVE r[i] <= r[i + (k + 1)]
    OBVIOUS
  <2>1. i + (k + 1) \in 1..n /\ i + (k + 1) - 1 = i + k /\ i + k \in 0..n
    OBVIOUS
  <2>2. r[i + (k + 1)] = r[i + k] + v[i + (k + 1)] /\ v[i + (k + 1)] \in Nat
    BY <1>0, <2>1
  <2>3. r[i] <= r[i + k] /\ r[i] \in Nat /\ r[i + k] \in Nat
    BY <1>0, <1>2, <2>1
  <2> QED BY <2>2, <2>3
<1>3. j - i \in Nat /\ i + (j - i) = j
  OBVIOUS
<1>4. j - i \in S
  <2> HIDE DEF S
  <2> QED BY <1>1, <1>2, <1>3, SetInduction
<1> QED BY <1>3, <1>4 DEF r

\* What comes later has no part in it.
LEMMA RunningSumAgrees ==
    ASSUME NEW n \in Nat, NEW m \in Nat, n <= m,
           NEW v \in [1..n -> Nat], NEW w \in [1..m -> Nat], \A i \in 1..n : v[i] = w[i]
    PROVE  \A i \in 0..n : RunningSum(v, n)[i] = RunningSum(w, m)[i]
<1> DEFINE r == RunningSum(v, n)
           q == RunningSum(w, m)
           S == {k \in Nat : k <= n => r[k] = q[k]}
<1>1. r[0] = 0 /\ \A k \in 1..n : r[k] = r[k - 1] + v[k]
  BY RunningSumStep
<1>2. q[0] = 0 /\ \A k \in 1..m : q[k] = q[k - 1] + w[k]
  BY RunningSumStep
<1> HIDE DEF r, q
<1>3. 0 \in S
  BY <1>1, <1>2
<1>4. ASSUME NEW k \in Nat, k \in S PROVE k + 1 \in S
  <2> SUFFICES ASSUME k + 1 <= n PROVE r[k + 1] = q[k + 1]
    OBVIOUS
  <2>1. k + 1 \in 1..n /\ k + 1 \in 1..m /\ (k + 1) - 1 = k /\ r[k] = q[k]
    BY <1>4
  <2> QED BY <1>1, <1>2, <2>1
<1>5. Nat \subseteq S
  <2> HIDE DEF S
  <2> QED BY <1>3, <1>4, SetInduction
<1> QED BY <1>5 DEF r, q
=============================================================================
