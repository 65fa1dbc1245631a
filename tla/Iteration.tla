----------------------------- MODULE Iteration ------------------------------
(***************************************************************************)
(* Induction on the natural numbers without a predicate as parameter: the  *)
(* least element of a set of numbers, sets closed under successor, and the *)
(* functions that are defined from their own earlier values.               *)
(***************************************************************************)
EXTENDS Integers, FiniteSets, FiniteSetTheorems, WellFoundedInduction, TLAPS

(* Every set of numbers with an element has a least one.                   *)
LEMMA LeastOfNat ==
  ASSUME NEW T \in SUBSET Nat, T # {}
  PROVE  \E x \in T : \A y \in T : x <= y
<1>1. PICK R : IsWellFoundedOn(R, Nat) /\ \A x, y \in Nat : y < x => <<y, x>> \in R
  <2> DEFINE R == OpToRel(<, Nat)
  <2>1. IsWellFoundedOn(R, Nat)
    BY NatLessThanWellFounded
  <2>2. \A x, y \in Nat : y < x => <<y, x>> \in R
    BY DEF OpToRel
  <2> HIDE DEF R
  <2> QED BY <2>1, <2>2
<1>2. PICK x \in T : \A y \in T : <<y, x>> \notin R
  BY <1>1, WFMin
<1>3. ASSUME NEW y \in T PROVE x <= y
  <2>1. x \in Nat /\ y \in Nat
    OBVIOUS
  <2>2. ~(y < x)
    BY <1>1, <1>2, <2>1
  <2> QED BY <2>1, <2>2
<1> QED BY <1>3

(* A set of numbers that has 0 and the successor of each of its elements   *)
(* has every number.                                                       *)
LEMMA SetInduction ==
  ASSUME NEW S \in SUBSET Nat, 0 \in S, \A n \in S : n + 1 \in S
  PROVE  S = Nat
<1> SUFFICES ASSUME Nat \ S # {} PROVE FALSE
  OBVIOUS
<1>1. PICK x \in Nat \ S : \A y \in Nat \ S : x <= y
  BY LeastOfNat
<1>2. x - 1 \in Nat
  BY <1>1
<1>3. x - 1 \in S
  BY <1>1, <1>2
<1> QED BY <1>1, <1>2, <1>3

(* The same up to a number.                                                *)
LEMMA UpToInduction ==
  ASSUME NEW n \in Nat, NEW S, 0 \in S, \A i \in 0..n : i \in S /\ i < n => i + 1 \in S
  PROVE  \A i \in 0..n : i \in S
<1> DEFINE R == {i \in Nat : i <= n => i \in S}
<1>1. 0 \in R
  OBVIOUS
<1>2. ASSUME NEW i \in R PROVE i + 1 \in R
  <2> SUFFICES ASSUME i + 1 <= n PROVE i + 1 \in S
    OBVIOUS
  <2>1. i \in 0..n /\ i < n /\ i \in S
    OBVIOUS
  <2> QED BY <2>1
<1>3. R = Nat
  <2>1. R \in SUBSET Nat
    OBVIOUS
  <2> HIDE DEF R
  <2> QED BY <1>1, <1>2, <2>1, SetInduction
<1> QED BY <1>3

(* The values of a function on a finite set are finitely many, ...         *)
LEMMA FiniteValues ==
  ASSUME NEW S, IsFiniteSet(S), NEW f
  PROVE  IsFiniteSet({f[x] : x \in S})
<1> DEFINE T == {f[x] : x \in S}
           g == [x \in S |-> f[x]]
<1>1. g \in Surjection(S, T)
  BY DEF Surjection
<1> QED BY <1>1, FS_Surjection

(* ... and if they are finite sets so is their union.                      *)
LEMMA FiniteUnion ==
  ASSUME NEW S, IsFiniteSet(S), NEW f, \A x \in S : IsFiniteSet(f[x])
  PROVE  IsFiniteSet(UNION {f[x] : x \in S})
<1> DEFINE n == Cardinality(S)
<1>1. n \in Nat /\ ExistsBijection(1..n, S)
  BY FS_CardinalityType
<1>2. PICK g \in [1..n -> S] : \A x \in S : \E i \in 1..n : g[i] = x
  BY <1>1 DEF ExistsBijection, Bijection, Surjection
<1> HIDE DEF n
<1> DEFINE U == [m \in 0..n |-> UNION {f[g[i]] : i \in 1..m}]
           R == {m \in 0..n : IsFiniteSet(U[m])}
<1>3. 0 \in R
  <2>1. U[0] = {}
    BY <1>1
  <2> HIDE DEF U
  <2>2. IsFiniteSet({})
    BY FS_EmptySet
  <2>3. IsFiniteSet(U[0])
    BY <2>1, <2>2
  <2> QED BY <1>1, <2>3
<1>4. ASSUME NEW m \in 0..n, m \in R, m < n PROVE m + 1 \in R
  <2>1. m + 1 \in 1..n /\ g[m + 1] \in S
    BY <1>1, <1>2, <1>4
  <2>2. U[m + 1] = U[m] \cup f[g[m + 1]]
    <3>1. \A i \in 1..(m + 1) : i = m + 1 \/ i \in 1..m
      OBVIOUS
    <3>2. \A i \in 1..m : i \in 1..(m + 1)
      OBVIOUS
    <3>3. m + 1 \in 1..(m + 1) /\ m + 1 \in 0..n
      BY <2>1
    <3> QED BY <3>1, <3>2, <3>3
  <2>3. IsFiniteSet(U[m]) /\ IsFiniteSet(f[g[m + 1]])
    BY <1>4, <2>1
  <2> HIDE DEF U
  <2>4. IsFiniteSet(U[m + 1])
    BY <2>2, <2>3, FS_Union
  <2> QED BY <1>1, <2>1, <2>4
<1>5. n \in R
  <2> HIDE DEF R
  <2>1. \A i \in 0..n : i \in R /\ i < n => i + 1 \in R
    BY <1>4
  <2>2. \A i \in 0..n : i \in R
    BY <1>1, <1>3, <2>1, UpToInduction
  <2> QED BY <1>1, <2>2
<1>6. UNION {f[x] : x \in S} = U[n]
  <2>1. U[n] = UNION {f[g[i]] : i \in 1..n}
    BY <1>1
  <2> HIDE DEF U
  <2>2. {f[x] : x \in S} = {f[g[i]] : i \in 1..n}
    BY <1>2
  <2> QED BY <2>1, <2>2
<1> QED BY <1>5, <1>6

(* From a value and a step for each number there is the function that      *)
(* starts at the value and goes on by the steps.                           *)
StepsWithin(X, n, step) == \A k \in 1..n : \A x \in X : step[k][x] \in X
IsIteration(f, X, first, n, step) ==
    /\ f \in [0..n -> X]
    /\ f[0] = first
    /\ \A k \in 1..n : f[k] = step[k][f[k - 1]]

LEMMA Iterates ==
  ASSUME NEW X, NEW first \in X, NEW n \in Nat, NEW step, StepsWithin(X, n, step)
  PROVE  \E f : IsIteration(f, X, first, n, step)
<1> USE DEF StepsWithin, IsIteration
<1> DEFINE Upto(m, f) == f[0] = first /\ \A k \in 1..m : f[k] = step[k][f[k - 1]]
           S == {m \in Nat : m <= n => \E f \in [0..m -> X] : Upto(m, f)}
<1>1. 0 \in S
  <2>1. [i \in 0..0 |-> first] \in [0..0 -> X] /\ Upto(0, [i \in 0..0 |-> first])
    OBVIOUS
  <2> QED BY <2>1
<1>2. ASSUME NEW m \in S PROVE m + 1 \in S
  <2> SUFFICES ASSUME m + 1 <= n PROVE \E f \in [0..(m + 1) -> X] : Upto(m + 1, f)
    OBVIOUS
  <2>1. PICK f \in [0..m -> X] : Upto(m, f)
    OBVIOUS
  <2> DEFINE g == [i \in 0..(m + 1) |-> IF i = m + 1 THEN step[m + 1][f[m]] ELSE f[i]]
  <2>2. step[m + 1][f[m]] \in X
    OBVIOUS
  <2>3. g \in [0..(m + 1) -> X]
    BY <2>2
  <2>4. ASSUME NEW k \in 1..(m + 1) PROVE g[k] = step[k][g[k - 1]]
    <3>1. CASE k = m + 1
      BY <3>1
    <3>2. CASE k # m + 1
      <4>1. k \in 1..m /\ k \in 0..(m + 1) /\ k - 1 \in 0..m
        BY <3>2
      <4>2. g[k] = f[k] /\ g[k - 1] = f[k - 1]
        BY <4>1, <3>2
      <4> QED BY <2>1, <4>1, <4>2
    <3> QED BY <3>1, <3>2
  <2>5. g[0] = first
    BY <2>1
  <2> HIDE DEF g
  <2> QED BY <2>3, <2>4, <2>5
<1>3. S = Nat
  <2> HIDE DEF S
  <2>1. S \in SUBSET Nat
    BY DEF S
  <2> QED BY <1>1, <1>2, <2>1, SetInduction
<1> QED BY <1>3
-----------------------------------------------------------------------------
(* A walk from a along the function next, n steps long.                    *)
IsWalk(w, next, a, n) == w = [i \in 0..n |-> IF i = 0 THEN a ELSE next[w[i - 1]]]

LEMMA WalkExists ==
  ASSUME NEW X, NEW next \in [X -> X], NEW a \in X, NEW n \in Nat
  PROVE  \E w : IsWalk(w, next, a, n)
<1> DEFINE step == [k \in 1..n |-> next]
<1>1. StepsWithin(X, n, step)
  BY DEF StepsWithin
<1> HIDE DEF step
<1>2. PICK w : IsIteration(w, X, a, n, step)
  BY <1>1, Iterates
<1>3. w = [i \in 0..n |-> w[i]]
  BY <1>2 DEF IsIteration
<1>4. \A i \in 0..n : w[i] = IF i = 0 THEN a ELSE next[w[i - 1]]
  BY <1>2 DEF IsIteration, step
<1> QED BY <1>3, <1>4 DEF IsWalk

LEMMA WalkSteps ==
  ASSUME NEW next, NEW a, NEW n \in Nat, NEW w, IsWalk(w, next, a, n)
  PROVE  w[0] = a /\ \A i \in 0..n : i < n => w[i + 1] = next[w[i]]
<1>1. \A i \in 0..n : w[i] = IF i = 0 THEN a ELSE next[w[i - 1]]
  BY DEF IsWalk
<1>2. ASSUME NEW i \in 0..n, i < n PROVE w[i + 1] = next[w[i]]
  <2>1. i + 1 \in 0..n /\ i + 1 # 0 /\ (i + 1) - 1 = i
    BY <1>2
  <2> QED BY <1>1, <2>1
<1> QED BY <1>1, <1>2

(* It stays in any set that it starts in and that next does not leave.     *)
LEMMA WalkStays ==
  ASSUME NEW next, NEW A, \A x \in A : next[x] \in A, NEW a \in A,
         NEW n \in Nat, NEW w, IsWalk(w, next, a, n)
  PROVE  \A i \in 0..n : w[i] \in A
<1>0. w[0] = a /\ \A i \in 0..n : i < n => w[i + 1] = next[w[i]]
  BY WalkSteps
<1> DEFINE S == {i \in Nat : i <= n => w[i] \in A}
<1>1. 0 \in S
  BY <1>0
<1>2. ASSUME NEW i \in S PROVE i + 1 \in S
  <2> SUFFICES ASSUME i + 1 <= n PROVE w[i + 1] \in A
    OBVIOUS
  <2>1. i \in 0..n /\ i < n /\ w[i] \in A
    OBVIOUS
  <2> QED BY <1>0, <2>1
<1>3. S = Nat
  <2>1. S \in SUBSET Nat
    OBVIOUS
  <2> HIDE DEF S
  <2> QED BY <1>1, <1>2, <2>1, SetInduction
<1> QED BY <1>3

(* Once it is at a place that next leaves alone it stays there.            *)
LEMMA WalkRests ==
  ASSUME NEW next, NEW a, NEW n \in Nat, NEW w, IsWalk(w, next, a, n),
         NEW i \in 0..n, next[w[i]] = w[i]
  PROVE  \A j \in i..n : w[j] = w[i]
<1>0. w[0] = a /\ \A k \in 0..n : k < n => w[k + 1] = next[w[k]]
  BY WalkSteps
<1> DEFINE S == {k \in Nat : i + k <= n => w[i + k] = w[i]}
<1>1. 0 \in S
  OBVIOUS
<1>2. ASSUME NEW k \in S PROVE k + 1 \in S
  <2> SUFFICES ASSUME i + (k + 1) <= n PROVE w[i + (k + 1)] = w[i]
    OBVIOUS
  <2>1. i + k \in 0..n /\ i + k < n /\ w[i + k] = w[i] /\ i + (k + 1) = (i + k) + 1
    OBVIOUS
  <2>2. w[(i + k) + 1] = next[w[i + k]]
    BY <1>0, <2>1
  <2> QED BY <2>1, <2>2
<1>3. S = Nat
  <2>1. S \in SUBSET Nat
    OBVIOUS
  <2> HIDE DEF S
  <2> QED BY <1>1, <1>2, <2>1, SetInduction
<1>4. ASSUME NEW j \in i..n PROVE w[j] = w[i]
  <2>1. j - i \in Nat /\ i + (j - i) = j /\ j <= n
    OBVIOUS
  <2>2. j - i \in S
    BY <1>3, <2>1
  <2> QED BY <2>1, <2>2
<1> QED BY <1>4

(* In a finite set in which next makes no cycle the walk comes to rest     *)
(* within as many steps as the set has elements.                           *)
LEMMA WalkEnds ==
  ASSUME NEW next, NEW A, IsFiniteSet(A), \A x \in A : next[x] \in A,
         \A C \in (SUBSET A) \ {{}} : \E x \in C : next[x] = x \/ next[x] \notin C,
         NEW a \in A, NEW w, IsWalk(w, next, a, Cardinality(A))
  PROVE  next[w[Cardinality(A)]] = w[Cardinality(A)]
<1> DEFINE n == Cardinality(A)
<1>1. n \in Nat
  BY FS_CardinalityType
<1> HIDE DEF n
<1>2. IsWalk(w, next, a, n)
  BY DEF n
<1>3. \A i \in 0..n : w[i] \in A
  BY <1>1, <1>2, WalkStays
<1> SUFFICES ASSUME next[w[n]] # w[n] PROVE FALSE
  BY DEF n
<1>4. \A i \in 0..n : next[w[i]] # w[i]
  BY <1>1, <1>2, WalkRests
<1>5. PICK i \in 0..n, j \in 0..n : i < j /\ w[i] = w[j]
  <2>1. w \in [0..n -> A]
    BY <1>2, <1>3 DEF IsWalk
  <2>2. IsFiniteSet(0..n) /\ Cardinality(0..n) = n + 1
    BY <1>1, FS_Interval
  <2>3. \E x, y \in 0..n : x # y /\ w[x] = w[y]
    BY <1>1, <2>1, <2>2, FS_PigeonHole DEF n
  <2>4. PICK x \in 0..n, y \in 0..n : x # y /\ w[x] = w[y]
    BY <2>3
  <2>5. x < y \/ y < x
    BY <1>1, <2>4
  <2> QED BY <2>4, <2>5
<1> DEFINE C == {w[k] : k \in i..(j - 1)}
<1>6. C \in (SUBSET A) \ {{}}
  <2>1. i \in i..(j - 1)
    BY <1>1, <1>5
  <2>2. \A k \in i..(j - 1) : w[k] \in A
    BY <1>1, <1>3, <1>5
  <2> QED BY <2>1, <2>2
<1>7. ASSUME NEW k \in i..(j - 1) PROVE next[w[k]] \in C
  <2>1. k \in 0..n /\ k < n /\ next[w[k]] = w[k + 1]
    BY <1>1, <1>2, <1>5, WalkSteps
  <2>2. CASE k + 1 = j
    <3>1. next[w[k]] = w[i] /\ i \in i..(j - 1)
      BY <1>1, <1>5, <2>1, <2>2
    <3> QED BY <3>1
  <2>3. CASE k + 1 # j
    <3>1. k + 1 \in i..(j - 1)
      BY <1>1, <1>5, <2>3
    <3> QED BY <2>1, <3>1
  <2> QED BY <2>2, <2>3
<1>8. ASSUME NEW x \in C PROVE next[x] # x /\ next[x] \in C
  <2>1. PICK k \in i..(j - 1) : x = w[k]
    OBVIOUS
  <2>2. k \in 0..n
    BY <1>1, <1>5
  <2> QED BY <1>4, <1>7, <2>1, <2>2
<1> HIDE DEF C
<1> QED BY <1>6, <1>8

(* A walk that comes to rest comes to rest where the walk that starts one  *)
(* step later does.                                                        *)
LEMMA WalkShift ==
  ASSUME NEW next, NEW a, NEW n \in Nat, NEW w, NEW v,
         IsWalk(w, next, a, n), IsWalk(v, next, next[a], n), next[w[n]] = w[n]
  PROVE  v[n] = w[n]
<1>1. w[0] = a /\ \A i \in 0..n : i < n => w[i + 1] = next[w[i]]
  BY WalkSteps
<1>2. v[0] = next[a] /\ \A i \in 0..n : i < n => v[i + 1] = next[v[i]]
  BY WalkSteps
<1> DEFINE S == {i \in Nat : i <= n => v[i] = next[w[i]]}
<1>3. 0 \in S
  BY <1>1, <1>2
<1>4. ASSUME NEW i \in S PROVE i + 1 \in S
  <2> SUFFICES ASSUME i + 1 <= n PROVE v[i + 1] = next[w[i + 1]]
    OBVIOUS
  <2>1. i \in 0..n /\ i < n /\ v[i] = next[w[i]]
    OBVIOUS
  <2>2. v[i + 1] = next[v[i]] /\ w[i + 1] = next[w[i]]
    BY <1>1, <1>2, <2>1
  <2> QED BY <2>1, <2>2
<1>5. S = Nat
  <2>1. S \in SUBSET Nat
    OBVIOUS
  <2> HIDE DEF S
  <2> QED BY <1>3, <1>4, <2>1, SetInduction
<1>6. n \in S
  BY <1>5
<1> QED BY <1>6
=============================================================================
