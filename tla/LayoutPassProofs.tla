-------------------------- MODULE LayoutPassProofs --------------------------
(***************************************************************************)
(* Proofs about the layout pass, for all atoms and all references that do  *)
(* not go round: the tables are chains whatever is joined to what, every   *)
(* search finds its target, and the order made of the tables is total and  *)
(* keeps what can be kept.                                                 *)
(***************************************************************************)
EXTENDS LayoutPass, Iteration

-----------------------------------------------------------------------------
(***************************************************************************)
(* A walk along a map of successors.                                       *)
(***************************************************************************)

Closed(f, S) == \A x \in S : x \in DOMAIN f => f[x] \in S

\* Every set that has a and, with an atom, its successor, has b.
Reaches(f, a, b) == \A S \in SUBSET Atoms : a \in S /\ Closed(f, S) => b \in S

Without(f, a) == [x \in DOMAIN f \ {a} |-> f[x]]

Within(f, g) == \A x \in DOMAIN f : x \in DOMAIN g /\ g[x] = f[x]

\* No set of atoms goes round.
IsAcyclic(h) == \A cycle \in SUBSET Atoms : cycle = {} \/ \E a \in cycle : h[a] \notin cycle

LEMMA ReachSelf == ASSUME NEW f, NEW a PROVE Reaches(f, a, a)
  BY DEF Reaches

LEMMA ReachStep ==
  ASSUME NEW f, NEW a, NEW b \in DOMAIN f, Reaches(f, a, b) PROVE Reaches(f, a, f[b])
  BY DEF Reaches, Closed

LEMMA ReachTrans ==
  ASSUME NEW f, NEW a, NEW b, NEW c, Reaches(f, a, b), Reaches(f, b, c) PROVE Reaches(f, a, c)
  BY DEF Reaches

LEMMA ReachMore ==
  ASSUME NEW f, NEW g, Within(f, g), NEW a, NEW b, Reaches(f, a, b) PROVE Reaches(g, a, b)
<1> SUFFICES ASSUME NEW S \in SUBSET Atoms, a \in S, Closed(g, S) PROVE b \in S
  BY DEF Reaches
<1>1. Closed(f, S)
  BY DEF Closed, Within
<1> QED BY <1>1 DEF Reaches

\* The first step of a walk, ...
LEMMA ReachFirst ==
  ASSUME NEW f, Subset(f, Atoms), NEW a \in Atoms, NEW b, Reaches(f, a, b), a # b
  PROVE  a \in DOMAIN f /\ Reaches(f, f[a], b)
<1>1. a \in DOMAIN f
  <2> SUFFICES ASSUME a \notin DOMAIN f PROVE FALSE
    OBVIOUS
  <2>1. Closed(f, {a})
    BY DEF Closed
  <2> QED BY <2>1 DEF Reaches
<1>2. ASSUME NEW S \in SUBSET Atoms, f[a] \in S, Closed(f, S) PROVE b \in S
  <2>1. Closed(f, S \cup {a})
    BY <1>1, <1>2 DEF Closed
  <2>2. b \in S \cup {a}
    BY <2>1 DEF Reaches
  <2> QED BY <2>2
<1> QED BY <1>1, <1>2 DEF Reaches

\* ... and the last one.
LEMMA ReachLast ==
  ASSUME NEW f, Subset(f, Atoms), NEW a \in Atoms, NEW b, Reaches(f, a, b), a # b
  PROVE  \E x \in DOMAIN f : f[x] = b
<1> SUFFICES ASSUME \A x \in DOMAIN f : f[x] # b PROVE FALSE
  OBVIOUS
<1>1. Closed(f, Atoms \ {b})
  BY DEF Closed, Subset
<1>2. a \in Atoms \ {b} /\ Atoms \ {b} \in SUBSET Atoms
  OBVIOUS
<1> QED BY <1>1, <1>2 DEF Reaches

\* Of two atoms that are reached from one, one is reached from the other.
LEMMA ReachFork ==
  ASSUME NEW f, Subset(f, Atoms), NEW r \in Atoms, NEW a \in Atoms, NEW b \in Atoms,
         Reaches(f, r, a), Reaches(f, r, b)
  PROVE  Reaches(f, a, b) \/ Reaches(f, b, a)
<1> DEFINE S == {x \in Atoms : Reaches(f, x, a) \/ Reaches(f, a, x)}
<1>1. ASSUME NEW x \in S, x \in DOMAIN f PROVE f[x] \in S
  <2>1. f[x] \in Atoms
    BY <1>1 DEF Subset
  <2>2. CASE Reaches(f, a, x)
    BY <1>1, <2>1, <2>2, ReachStep
  <2>3. CASE Reaches(f, x, a)
    <3>1. CASE x = a
      BY <1>1, <2>1, <3>1, ReachStep, ReachSelf
    <3>2. CASE x # a
      BY <1>1, <2>1, <2>3, <3>2, ReachFirst
    <3> QED BY <3>1, <3>2
  <2> QED BY <1>1, <2>2, <2>3
<1>2. r \in S
  OBVIOUS
<1> HIDE DEF S
<1>3. b \in S
  <2>1. Closed(f, S)
    BY <1>1 DEF Closed
  <2>2. S \in SUBSET Atoms
    BY DEF S
  <2> QED BY <1>2, <2>1, <2>2 DEF Reaches
<1> QED BY <1>3 DEF S

\* Where nothing goes round no walk leads back.
LEMMA NoWayBack ==
  ASSUME NEW h, IsAcyclic(h), NEW f, Subset(f, Atoms), Within(f, h), NEW a \in DOMAIN f
  PROVE  ~Reaches(f, f[a], a)
<1> SUFFICES ASSUME Reaches(f, f[a], a) PROVE FALSE
  OBVIOUS
<1> DEFINE cycle == {x \in Atoms : Reaches(f, f[a], x) /\ Reaches(f, x, a)}
<1>1. a \in cycle
  BY ReachSelf DEF Subset
<1>2. ASSUME NEW x \in cycle PROVE h[x] \in cycle
  <2>1. x \in DOMAIN f /\ Reaches(f, f[x], a)
    <3>1. CASE x = a
      BY <3>1
    <3>2. CASE x # a
      BY <3>2, ReachFirst
    <3> QED BY <3>1, <3>2
  <2>2. h[x] = f[x] /\ f[x] \in Atoms
    BY <2>1 DEF Within, Subset
  <2>3. Reaches(f, f[a], f[x])
    BY <2>1, ReachStep
  <2> QED BY <2>1, <2>2, <2>3
<1>3. cycle \in SUBSET Atoms
  OBVIOUS
<1> HIDE DEF cycle
<1> QED BY <1>1, <1>2, <1>3 DEF IsAcyclic

LEMMA PutIs ==
  ASSUME NEW m, NEW a, NEW b
  PROVE  /\ DOMAIN Put(m, a, b) = DOMAIN m \cup {a}
         /\ Put(m, a, b)[a] = b
         /\ \A x \in DOMAIN m : x # a => Put(m, a, b)[x] = m[x]
  BY DEF Put

LEMMA PutSubset ==
  ASSUME NEW m, Subset(m, Atoms), NEW a \in Atoms, NEW b \in Atoms
  PROVE  Subset(Put(m, a, b), Atoms)
  BY DEF Put, Subset

LEMMA PutMore ==
  ASSUME NEW m, NEW a, NEW b, a \notin DOMAIN m
  PROVE  Within(m, Put(m, a, b))
  BY DEF Put, Within

-----------------------------------------------------------------------------
(***************************************************************************)
(* The invariant.                                                          *)
(***************************************************************************)

\* f takes no two atoms of r to one, and none to a root; every atom is reached
\* from its root, which is its own. (f: successors, r: roots)
Forest(f, r) ==
  /\ Subset(f, Atoms) /\ Subset(r, Atoms)
  /\ DOMAIN f \subseteq DOMAIN r
  /\ \A x \in DOMAIN f : f[x] \in DOMAIN r /\ r[f[x]] # f[x]
  /\ \A a \in DOMAIN r : r[a] \in DOMAIN r /\ r[r[a]] = r[a] /\ Reaches(f, r[a], a)

\* Where an atom leads or will lead.
Pending == [a \in Atoms |-> IF a \in DOMAIN nexts THEN nexts[a] ELSE after[a]]

Building == {"reference", "setChainRoot", "findAtomFollowedBy", "checkAllPrevAtomsZeroSize"}
Searching == {"findAtomFollowedBy", "checkAllPrevAtomsZeroSize"}

InputInv == \E i \in Inputs : after = i.after /\ zero = i.zero /\ rank = i.rank

\* The atoms that have a successor are those whose reference was looked at.
Looked(k) == IF pc \in Building THEN k < index \/ (k = index /\ pc # "reference") ELSE TRUE
LookedInv ==
  /\ pc \in Building \ {"reference"} => index \in DOMAIN AtomRange
  /\ \A k \in DOMAIN AtomRange :
       AtomRange[k] \in DOMAIN nexts <=> after[AtomRange[k]] # NoAtom /\ Looked(k)

\* A search looks at the chain as it was before the atom at hand was linked.
Before1 == Without(nexts, atom)
SearchInv ==
  pc \in Searching =>
    /\ Forest(Before1, roots)
    /\ atom \in DOMAIN nexts /\ atom \in DOMAIN roots /\ nexts[atom] = target
    /\ target \in DOMAIN roots /\ roots[target] # target
    /\ cursor \in Atoms /\ Reaches(Before1, cursor, target)
    /\ pc = "findAtomFollowedBy" => cursor # target /\ atom \in zero

\* The chain that starts behind the atom at hand gets the root of that atom; what
\* has the old root still is behind the cursor.
RootInv ==
  pc = "setChainRoot" =>
    LET head == nexts[atom] IN
    /\ Subset(nexts, Atoms) /\ Subset(roots, Atoms)
    /\ DOMAIN nexts \subseteq DOMAIN roots /\ atom \in DOMAIN nexts
    /\ \A x \in DOMAIN nexts : nexts[x] \in DOMAIN roots /\ (x = atom \/ roots[nexts[x]] # nexts[x])
    /\ root \in DOMAIN roots /\ roots[root] = root /\ Reaches(nexts, root, atom)
    /\ cursor \in DOMAIN roots /\ Reaches(nexts, head, cursor)
    /\ \/ cursor = head
       \/ roots[head] = root /\ \E x \in DOMAIN nexts : x # atom /\ nexts[x] = cursor
    /\ \A a \in DOMAIN roots :
         /\ roots[a] \in DOMAIN roots /\ Reaches(nexts, roots[a], a)
         /\ \/ roots[roots[a]] = roots[a]
            \/ roots[a] = head /\ Reaches(nexts, cursor, a)

\* The ordinals given are the first numbers, no two the same; the atoms looked at
\* have one, but for the one at hand, which is behind the cursor.
OrdinalInv ==
  IF pc \in Building THEN override = <<>>
  ELSE
    /\ DOMAIN override \subseteq DOMAIN roots
    /\ \A a \in DOMAIN override : override[a] \in Nat /\ override[a] < Cardinality(DOMAIN override)
    /\ \A a, b \in DOMAIN override : override[a] = override[b] => a = b
    /\ \A k \in DOMAIN AtomRange :
         k < index /\ AtomRange[k] \in DOMAIN roots => AtomRange[k] \in DOMAIN override
    /\ pc = "chain" =>
         /\ index \in DOMAIN AtomRange /\ atom \in DOMAIN roots /\ cursor \in DOMAIN roots
         /\ atom \in DOMAIN override \/ Reaches(nexts, cursor, atom)
    /\ pc = "sorted" => index > Len(AtomRange)

LayoutInv ==
  /\ TypeOK /\ InputInv /\ LookedInv
  /\ IsAcyclic(Pending)
  /\ pc \notin Searching \cup {"setChainRoot"} => Forest(nexts, roots)
  /\ SearchInv /\ RootInv /\ OrdinalInv

\* What the references of the input leave to do: those that share a target can
\* all come before it.
Fair == \A a \in Shared : \A b \in Before(a) : b \in zero /\ Before(b) = {}

\* No two atoms have one successor, which is the target or an atom of size zero
\* with the same target.
Line(f) ==
  /\ \A x, y \in DOMAIN f : f[x] = f[y] => x = y
  /\ \A x \in DOMAIN f :
       \/ f[x] = after[x]
       \/ f[x] \in zero /\ Before(f[x]) = {} /\ f[x] \in DOMAIN f /\ after[f[x]] = after[x]

\* The ordinals count along the chains.
CountInv ==
  LET n == Cardinality(DOMAIN override) IN
  /\ \A x \in DOMAIN nexts : nexts[x] \in DOMAIN override =>
       x \in DOMAIN override /\ override[nexts[x]] = override[x] + 1
  /\ \A x \in DOMAIN nexts : x \in DOMAIN override =>
       \/ nexts[x] \in DOMAIN override
       \/ pc = "chain" /\ nexts[x] = cursor
  /\ pc = "chain" =>
       /\ cursor \notin DOMAIN override
       /\ \A x \in DOMAIN nexts : nexts[x] = cursor =>
            x \in DOMAIN override /\ override[x] + 1 = n

KeptInv ==
  Fair =>
    /\ pc # "checkAllPrevAtomsZeroSize"
    /\ IF pc \in Searching
         THEN Line(Before1) /\ \A x \in DOMAIN Before1 : roots[Before1[x]] = roots[x]
         ELSE /\ Line(nexts)
              /\ \A x \in DOMAIN nexts :
                   IF pc = "setChainRoot" /\ nexts[x] = cursor
                     THEN roots[x] = root ELSE roots[nexts[x]] = roots[x]
    /\ pc \notin Building => CountInv

-----------------------------------------------------------------------------
(***************************************************************************)
(* What the assumptions say.                                               *)
(***************************************************************************)

LEMMA Positions ==
  /\ Cardinality(Atoms) \in Nat /\ Len(AtomRange) = Cardinality(Atoms)
  /\ DOMAIN AtomRange = 1 .. Len(AtomRange)
  /\ \A k \in DOMAIN AtomRange : AtomRange[k] \in Atoms
  /\ \A j, k \in DOMAIN AtomRange : AtomRange[j] = AtomRange[k] => j = k
  /\ \A a \in Atoms : \E k \in DOMAIN AtomRange : AtomRange[k] = a
<1> DEFINE n == Cardinality(Atoms)
<1>1. n \in Nat
  BY LayoutAssumption, FS_CardinalityType
<1>2. AtomRange \in [1 .. n -> Atoms]
  BY LayoutAssumption
<1>3. Len(AtomRange) = n /\ DOMAIN AtomRange = 1 .. n
  <2>1. AtomRange \in Seq(Atoms)
    BY <1>1, <1>2
  <2> QED BY <1>1, <1>2, <2>1
<1>4. AtomRange \in Surjection(1 .. n, Atoms)
  BY <1>2, <1>3, LayoutAssumption DEF Surjection
<1>5. IsFiniteSet(1 .. n) /\ Cardinality(1 .. n) = n
  BY <1>1, FS_Interval
<1>6. AtomRange \in Injection(1 .. n, Atoms)
  BY <1>4, <1>5, LayoutAssumption, FS_SurjSameCardinalityImpliesInj
<1>7. \A j, k \in 1 .. n : AtomRange[j] = AtomRange[k] => j = k
  BY <1>6 DEF Injection, IsInjective
<1> HIDE DEF n
<1> QED BY <1>1, <1>2, <1>3, <1>7, LayoutAssumption DEF n

LEMMA InputFacts ==
  ASSUME InputInv
  PROVE  /\ after \in [Atoms -> Atoms \cup {NoAtom}]
         /\ IsAcyclic(after)
         /\ rank \in [Atoms -> Nat]
         /\ \A a, b \in Atoms : rank[a] = rank[b] => a = b
  BY InputsAssumption DEF InputInv, IsAcyclic

LEMMA LayoutInit == Init => LayoutInv
<1> SUFFICES ASSUME Init PROVE LayoutInv
  OBVIOUS
<1>1. /\ pc = "reference" /\ index = 1 /\ cursor = NoAtom /\ root = NoAtom
      /\ nexts = <<>> /\ roots = <<>> /\ override = <<>> /\ InputInv
  BY DEF Init, InputInv
<1>2. DOMAIN nexts = {} /\ DOMAIN roots = {} /\ DOMAIN override = {}
  BY <1>1
<1>3. TypeOK
  BY <1>1, <1>2, Positions DEF TypeOK, Subset
<1>4. LookedInv
  BY <1>1, <1>2, Positions DEF LookedInv, Looked, Building
<1>5. IsAcyclic(Pending)
  <2>1. Pending = after
    BY <1>1, <1>2, InputFacts DEF Pending
  <2> QED BY <1>1, <2>1, InputFacts
<1>6. Forest(nexts, roots)
  BY <1>2 DEF Forest, Subset
<1>7. SearchInv /\ RootInv /\ OrdinalInv
  BY <1>1 DEF SearchInv, RootInv, OrdinalInv, Searching, Building
<1> QED BY <1>1, <1>3, <1>4, <1>5, <1>6, <1>7 DEF LayoutInv

-----------------------------------------------------------------------------
(***************************************************************************)
(* Steps that go on to the next atom, or look at the reference of this.    *)
(***************************************************************************)

LEMMA LookedOn ==
  ASSUME LookedInv, pc \in Building, after' = after, index' = index + 1, pc' = "reference",
         index \in DOMAIN AtomRange,
         IF pc = "reference"
         THEN DOMAIN nexts' = DOMAIN nexts \cup (IF target = NoAtom THEN {} ELSE {atom})
         ELSE DOMAIN nexts' = DOMAIN nexts
  PROVE  LookedInv'
<1>1. index \in Nat
  BY Positions
<1>2. ASSUME NEW k \in DOMAIN AtomRange
      PROVE  AtomRange[k] \in DOMAIN nexts' <=> after[AtomRange[k]] # NoAtom /\ k < index + 1
  <2>1. k \in Nat /\ (k < index + 1 <=> k < index \/ k = index)
    BY <1>1, Positions
  <2>2. AtomRange[k] = atom <=> k = index
    BY Positions DEF atom
  <2>3. AtomRange[k] \in DOMAIN nexts <=>
          after[AtomRange[k]] # NoAtom /\ (k < index \/ (k = index /\ pc # "reference"))
    BY DEF LookedInv, Looked
  <2>4. CASE pc = "reference"
    BY <2>1, <2>2, <2>3, <2>4 DEF target
  <2>5. CASE pc # "reference"
    BY <2>1, <2>3, <2>5
  <2> QED BY <2>4, <2>5
<1> QED BY <1>2 DEF LookedInv, Looked, Building

LEMMA LookedAt ==
  ASSUME LookedInv, pc = "reference", after' = after, index' = index, pc' \in Building \ {"reference"},
         index \in DOMAIN AtomRange, target # NoAtom, DOMAIN nexts' = DOMAIN nexts \cup {atom}
  PROVE  LookedInv'
<1>1. index \in Nat
  BY Positions
<1>2. ASSUME NEW k \in DOMAIN AtomRange
      PROVE  AtomRange[k] \in DOMAIN nexts' <=>
               after[AtomRange[k]] # NoAtom /\ (k < index \/ k = index)
  <2>1. AtomRange[k] = atom <=> k = index
    BY Positions DEF atom
  <2>2. AtomRange[k] \in DOMAIN nexts <=> after[AtomRange[k]] # NoAtom /\ k < index
    BY DEF LookedInv, Looked, Building
  <2> QED BY <2>1, <2>2 DEF target
<1> QED BY <1>2 DEF LookedInv, Looked, Building

LEMMA LookedStays ==
  ASSUME LookedInv, after' = after, index' = index, DOMAIN nexts' = DOMAIN nexts,
         pc \in Building \ {"reference"}, pc' \in Building \ {"reference"}
  PROVE  LookedInv'
  BY DEF LookedInv, Looked, Building

LEMMA ForestSame ==
  ASSUME NEW f, NEW g, NEW r, Forest(f, r), DOMAIN g = DOMAIN f, \A x \in DOMAIN f : g[x] = f[x]
  PROVE  Forest(g, r)
<1>1. Within(f, g)
  BY DEF Within
<1> QED BY <1>1, ReachMore DEF Forest, Subset

\* What is known when an atom with a target comes up.
LEMMA Linking ==
  ASSUME LayoutInv, Referring, target # NoAtom
  PROVE  /\ index \in DOMAIN AtomRange /\ pc = "reference"
         /\ atom \in Atoms /\ target \in Atoms /\ atom # target
         /\ atom \notin DOMAIN nexts
         /\ Forest(nexts, Rooted) /\ atom \in DOMAIN Rooted
         /\ Subset(Linked, Atoms) /\ Within(nexts, Linked)
         /\ DOMAIN Linked = DOMAIN nexts \cup {atom} /\ Linked[atom] = target
         /\ Within(nexts, Without(Linked, atom)) /\ Forest(Without(Linked, atom), Rooted)
         /\ nexts' = Linked /\ after' = after => Pending' = Pending
<1>1. index \in DOMAIN AtomRange /\ pc = "reference"
  BY Positions DEF LayoutInv, TypeOK, Referring
<1>2. atom \in Atoms /\ target \in Atoms
  BY <1>1, Positions, InputFacts DEF LayoutInv, atom, target
<1>3. atom \notin DOMAIN nexts
  BY <1>1, Positions DEF LayoutInv, LookedInv, Looked, atom, Building
<1>4. Pending[atom] = target
  BY <1>2, <1>3 DEF Pending, target
<1>5. atom # target
  <2>1. \E a \in {atom} : Pending[a] \notin {atom}
    BY <1>2 DEF LayoutInv, IsAcyclic
  <2> QED BY <1>4, <2>1
<1>6. Forest(nexts, roots)
  BY <1>1 DEF LayoutInv, Searching
<1>7. Forest(nexts, Rooted) /\ atom \in DOMAIN Rooted
  <2>1. CASE atom \in DOMAIN roots
    BY <1>6, <2>1 DEF Rooted
  <2>2. CASE atom \notin DOMAIN roots
    <3>1. /\ DOMAIN Rooted = DOMAIN roots \cup {atom} /\ Rooted[atom] = atom
          /\ \A a \in DOMAIN roots : Rooted[a] = roots[a]
      BY <2>2 DEF Rooted, Put
    <3> HIDE DEF Rooted
    <3>2. \A a \in DOMAIN roots : roots[a] # atom /\ roots[a] \in DOMAIN roots
      BY <1>6, <2>2 DEF Forest
    <3>3. Subset(Rooted, Atoms)
      BY <1>2, <1>6, <3>1 DEF Subset, Forest
    <3>4. DOMAIN nexts \subseteq DOMAIN Rooted
      BY <1>6, <3>1 DEF Forest
    <3>5. \A x \in DOMAIN nexts : nexts[x] \in DOMAIN Rooted /\ Rooted[nexts[x]] # nexts[x]
      BY <1>6, <3>1 DEF Forest
    <3>6. ASSUME NEW a \in DOMAIN Rooted
          PROVE  Rooted[a] \in DOMAIN Rooted /\ Rooted[Rooted[a]] = Rooted[a]
                 /\ Reaches(nexts, Rooted[a], a)
      <4>1. CASE a = atom
        BY <3>1, <4>1, ReachSelf
      <4>2. CASE a \in DOMAIN roots
        BY <1>6, <3>1, <3>2, <4>2 DEF Forest
      <4> QED BY <3>1, <4>1, <4>2
    <3> QED BY <1>6, <3>1, <3>3, <3>4, <3>5, <3>6 DEF Forest
  <2> QED BY <2>1, <2>2
<1>8. /\ DOMAIN Linked = DOMAIN nexts \cup {atom} /\ Linked[atom] = target
      /\ Within(nexts, Linked)
  BY <1>3 DEF Linked, Put, Within
<1>9. Subset(Linked, Atoms)
  BY <1>2, <1>6, PutSubset DEF Linked, Forest
<1>10. Within(nexts, Without(Linked, atom)) /\ Forest(Without(Linked, atom), Rooted)
  <2>1. /\ DOMAIN Without(Linked, atom) = DOMAIN nexts
        /\ \A x \in DOMAIN nexts : Without(Linked, atom)[x] = nexts[x]
    BY <1>3, <1>8 DEF Without, Within
  <2> QED BY <1>7, <2>1, ForestSame DEF Within
<1>11. ASSUME nexts' = Linked, after' = after PROVE Pending' = Pending
  <2>1. \A a \in Atoms : (IF a \in DOMAIN nexts' THEN nexts'[a] ELSE after'[a]) = Pending[a]
    BY <1>8, <1>11, <1>4 DEF Pending, Within
  <2> QED BY <2>1 DEF Pending
<1> QED BY <1>1, <1>2, <1>3, <1>5, <1>7, <1>8, <1>9, <1>10, <1>11

LEMMA BackToReference ==
  ASSUME LayoutInv, pc \in Building, index \in DOMAIN AtomRange, UNCHANGED <<input, override>>,
         pc' = "reference", index' = index + 1, LookedInv', IsAcyclic(Pending)', Forest(nexts, roots)',
         cursor' \in Atoms \cup {NoAtom}, root' \in Atoms \cup {NoAtom}
  PROVE  LayoutInv'
<1>1. InputInv'
  BY DEF LayoutInv, InputInv, input
<1>2. override' = <<>>
  BY DEF LayoutInv, OrdinalInv
<1>3. TypeOK'
  <2>1. index' \in 1 .. Len(AtomRange) + 1
    BY Positions
  <2>2. Subset(nexts, Atoms)' /\ Subset(roots, Atoms)'
    BY DEF Forest
  <2>3. DOMAIN override' = {}
    BY <1>2
  <2> QED BY <2>1, <2>2, <2>3 DEF TypeOK
<1>4. SearchInv' /\ RootInv' /\ OrdinalInv'
  BY <1>2 DEF SearchInv, RootInv, OrdinalInv, Searching, Building
<1> QED BY <1>1, <1>3, <1>4 DEF LayoutInv

LEMMA NoReferenceKeeps == LayoutInv /\ NoReference => LayoutInv'
<1> SUFFICES ASSUME LayoutInv, NoReference PROVE LayoutInv'
  OBVIOUS
<1>1. /\ pc = "reference" /\ target = NoAtom /\ pc' = "reference" /\ index' = index + 1
      /\ UNCHANGED <<input, cursor, root, nexts, roots, override>>
  BY DEF NoReference, Referring, ToNextAtom
<1>2. index \in DOMAIN AtomRange
  BY Positions DEF NoReference, Referring, LayoutInv, TypeOK
<1>3. LookedInv'
  <2>1. after' = after /\ DOMAIN nexts' = DOMAIN nexts /\ LookedInv /\ pc \in Building
    BY <1>1 DEF input, LayoutInv, Building
  <2> QED BY <1>1, <1>2, <2>1, LookedOn
<1>4. IsAcyclic(Pending)'
  <2>1. Pending' = Pending
    BY <1>1 DEF Pending, input
  <2> QED BY <2>1 DEF LayoutInv
<1>5. Forest(nexts, roots)'
  BY <1>1 DEF LayoutInv, Searching
<1>6. cursor' \in Atoms \cup {NoAtom} /\ root' \in Atoms \cup {NoAtom}
  BY <1>1 DEF LayoutInv, TypeOK
<1> QED BY <1>1, <1>2, <1>3, <1>4, <1>5, <1>6, BackToReference DEF Building

\* The target becomes the last of the chain.
LEMMA ForestGrows ==
  ASSUME NEW f, NEW r, Forest(f, r), NEW a \in DOMAIN r, a \notin DOMAIN f,
         NEW b \in Atoms, b \notin DOMAIN r
  PROVE  Forest(Put(f, a, b), Put(r, b, r[a]))
<1> DEFINE g == Put(f, a, b)
           q == Put(r, b, r[a])
<1>1. /\ DOMAIN g = DOMAIN f \cup {a} /\ g[a] = b /\ \A x \in DOMAIN f : g[x] = f[x]
      /\ DOMAIN q = DOMAIN r \cup {b} /\ q[b] = r[a] /\ \A x \in DOMAIN r : q[x] = r[x]
  BY DEF Put
<1>2. Within(f, g)
  BY <1>1 DEF Within
<1> HIDE DEF g, q
<1>3. a \in Atoms /\ Subset(g, Atoms) /\ Subset(q, Atoms)
  BY <1>1 DEF Forest, Subset
<1>4. DOMAIN g \subseteq DOMAIN q /\ \A x \in DOMAIN g : g[x] \in DOMAIN q /\ q[g[x]] # g[x]
  BY <1>1 DEF Forest
<1>5. ASSUME NEW x \in DOMAIN q
      PROVE  q[x] \in DOMAIN q /\ q[q[x]] = q[x] /\ Reaches(g, q[x], x)
  <2>1. CASE x = b
    <3>1. Reaches(g, r[a], a)
      BY <1>2, ReachMore DEF Forest
    <3>2. Reaches(g, r[a], g[a])
      BY <1>1, <3>1, ReachStep
    <3> QED BY <1>1, <2>1, <3>2 DEF Forest
  <2>2. CASE x \in DOMAIN r
    <3>1. Reaches(g, r[x], x)
      BY <1>2, <2>2, ReachMore DEF Forest
    <3> QED BY <1>1, <2>2, <3>1 DEF Forest
  <2> QED BY <1>1, <2>1, <2>2
<1> QED BY <1>3, <1>4, <1>5 DEF Forest, g, q

LEMMA NewTargetKeeps == LayoutInv /\ NewTarget => LayoutInv'
<1> SUFFICES ASSUME LayoutInv, NewTarget PROVE LayoutInv'
  OBVIOUS
<1>1. /\ Referring /\ target # NoAtom /\ target \notin DOMAIN Rooted
      /\ nexts' = Linked /\ roots' = Put(Rooted, target, Rooted[atom])
      /\ pc' = "reference" /\ index' = index + 1
      /\ UNCHANGED <<input, cursor, root, override>>
  BY DEF NewTarget, ToNextAtom
<1>2. after' = after
  BY <1>1 DEF input
<1>3. /\ index \in DOMAIN AtomRange /\ pc = "reference"
      /\ atom \in Atoms /\ target \in Atoms /\ atom \notin DOMAIN nexts
      /\ Forest(nexts, Rooted) /\ atom \in DOMAIN Rooted
      /\ DOMAIN Linked = DOMAIN nexts \cup {atom} /\ Pending' = Pending
  BY <1>1, <1>2, Linking
<1>4. LookedInv'
  BY <1>1, <1>2, <1>3, LookedOn DEF LayoutInv, Building
<1>5. IsAcyclic(Pending)'
  BY <1>3 DEF LayoutInv
<1>6. Forest(nexts, roots)'
  BY <1>1, <1>3, ForestGrows DEF Linked
<1>7. cursor' \in Atoms \cup {NoAtom} /\ root' \in Atoms \cup {NoAtom}
  BY <1>1 DEF LayoutInv, TypeOK
<1> QED BY <1>1, <1>3, <1>4, <1>5, <1>6, <1>7, BackToReference DEF Building

LEMMA TargetKnown ==
  ASSUME LayoutInv, Referring, target \in DOMAIN Rooted PROVE target # NoAtom
<1>1. index \in DOMAIN AtomRange
  BY Positions DEF LayoutInv, TypeOK, Referring
<1>2. atom \in Atoms /\ NoAtom \notin Atoms
  BY <1>1, Positions, LayoutAssumption DEF atom
<1>3. DOMAIN roots \subseteq Atoms
  BY DEF LayoutInv, TypeOK, Subset
<1> QED BY <1>2, <1>3 DEF Rooted, Put

LEMMA RootTargetKeeps == LayoutInv /\ RootTarget => LayoutInv'
<1> SUFFICES ASSUME LayoutInv, RootTarget PROVE LayoutInv'
  OBVIOUS
<1>1. /\ Referring /\ target \in DOMAIN Rooted /\ Rooted[target] = target
      /\ nexts' = Linked /\ roots' = Rooted /\ cursor' = target /\ root' = Rooted[atom]
      /\ pc' = "setChainRoot"
      /\ UNCHANGED <<input, index, override>>
  BY DEF RootTarget
<1>2. after' = after /\ InputInv' /\ atom' = atom
  BY <1>1 DEF input, InputInv, LayoutInv, atom
<1>3. target # NoAtom
  BY <1>1, TargetKnown
<1>4. /\ index \in DOMAIN AtomRange /\ pc = "reference"
      /\ atom \in Atoms /\ target \in Atoms /\ atom \notin DOMAIN nexts
      /\ Forest(nexts, Rooted) /\ atom \in DOMAIN Rooted
      /\ Subset(Linked, Atoms) /\ Within(nexts, Linked)
      /\ DOMAIN Linked = DOMAIN nexts \cup {atom} /\ Linked[atom] = target /\ Pending' = Pending
  BY <1>1, <1>2, <1>3, Linking
<1>5. LookedInv'
  BY <1>1, <1>2, <1>3, <1>4, LookedAt DEF LayoutInv, Building
<1>6. IsAcyclic(Pending)'
  BY <1>4 DEF LayoutInv
<1>7. override' = <<>> /\ OrdinalInv'
  BY <1>1, <1>4 DEF LayoutInv, OrdinalInv, Building
<1>8. root' \in Atoms /\ cursor' \in Atoms
  BY <1>1, <1>4 DEF Forest, Subset
<1>9. TypeOK'
  <2>1. DOMAIN override' = {}
    BY <1>7
  <2>2. index' \in 1 .. Len(AtomRange) + 1
    BY <1>1 DEF LayoutInv, TypeOK
  <2> QED BY <1>1, <1>4, <1>8, <2>1, <2>2 DEF TypeOK, Forest
<1>10. RootInv'
  <2>1. \A x \in DOMAIN nexts : Linked[x] = nexts[x]
    BY <1>4 DEF Within
  <2>2. DOMAIN Linked \subseteq DOMAIN Rooted
    BY <1>4 DEF Forest
  <2>3. \A x \in DOMAIN Linked : Linked[x] \in DOMAIN Rooted
                                 /\ (x = atom \/ Rooted[Linked[x]] # Linked[x])
    BY <1>1, <1>4, <2>1 DEF Forest
  <2>4. \A a \in DOMAIN Rooted : /\ Rooted[a] \in DOMAIN Rooted /\ Reaches(Linked, Rooted[a], a)
                                 /\ Rooted[Rooted[a]] = Rooted[a]
    BY <1>4, ReachMore DEF Forest
  <2>5. Reaches(Linked, target, target)
    BY ReachSelf
  <2> HIDE DEF Linked, Rooted
  <2> QED BY <1>1, <1>2, <1>4, <2>2, <2>3, <2>4, <2>5 DEF RootInv, Forest
<1>11. SearchInv' /\ pc' \in {"setChainRoot"}
  BY <1>1 DEF SearchInv, Searching
<1> QED BY <1>2, <1>5, <1>6, <1>7, <1>9, <1>10, <1>11 DEF LayoutInv

LEMMA InnerTargetKeeps == LayoutInv /\ InnerTarget => LayoutInv'
<1> SUFFICES ASSUME LayoutInv, InnerTarget PROVE LayoutInv'
  OBVIOUS
<1>1. /\ Referring /\ target \in DOMAIN Rooted /\ Rooted[target] # target
      /\ nexts' = Linked /\ roots' = Rooted /\ cursor' = Rooted[target]
      /\ pc' \in Searching /\ (pc' = "findAtomFollowedBy" => atom \in zero)
      /\ UNCHANGED <<input, index, root, override>>
  BY DEF InnerTarget, Searching
<1>2. after' = after /\ zero' = zero /\ InputInv' /\ atom' = atom /\ target' = target
  BY <1>1 DEF input, InputInv, LayoutInv, atom, target
<1>3. target # NoAtom
  BY <1>1, TargetKnown
<1>4. /\ index \in DOMAIN AtomRange /\ pc = "reference"
      /\ atom \in Atoms /\ target \in Atoms
      /\ Forest(nexts, Rooted) /\ atom \in DOMAIN Rooted
      /\ Subset(Linked, Atoms)
      /\ Within(nexts, Without(Linked, atom)) /\ Forest(Without(Linked, atom), Rooted)
      /\ DOMAIN Linked = DOMAIN nexts \cup {atom} /\ Linked[atom] = target /\ Pending' = Pending
  BY <1>1, <1>2, <1>3, Linking
<1>5. LookedInv'
  BY <1>1, <1>2, <1>3, <1>4, LookedAt DEF LayoutInv, Building, Searching
<1>6. IsAcyclic(Pending)'
  BY <1>4 DEF LayoutInv
<1>7. override' = <<>> /\ OrdinalInv'
  BY <1>1, <1>4 DEF LayoutInv, OrdinalInv, Building, Searching
<1>8. cursor' \in Atoms /\ Reaches(Without(Linked, atom), cursor', target)
  BY <1>1, <1>4 DEF Forest, Subset
<1>9. TypeOK'
  <2>1. DOMAIN override' = {}
    BY <1>7
  <2>2. index' \in 1 .. Len(AtomRange) + 1 /\ root' \in Atoms \cup {NoAtom}
    BY <1>1 DEF LayoutInv, TypeOK
  <2> QED BY <1>1, <1>4, <1>8, <2>1, <2>2 DEF TypeOK, Forest, Searching
<1>10. SearchInv'
  <2>1. Before1' = Without(Linked, atom)
    BY <1>1, <1>2 DEF Before1
  <2>2. cursor' # target
    BY <1>1
  <2> HIDE DEF Linked, Rooted
  <2> QED BY <1>1, <1>2, <1>4, <1>8, <2>1, <2>2 DEF SearchInv
<1>11. RootInv' /\ pc' \in Searching
  BY <1>1 DEF RootInv, Searching
<1> QED BY <1>2, <1>5, <1>6, <1>7, <1>9, <1>10, <1>11 DEF LayoutInv

LEMMA NextsArePending ==
  ASSUME LayoutInv PROVE Subset(nexts, Atoms) /\ Subset(roots, Atoms) /\ Within(nexts, Pending)
<1>1. Subset(nexts, Atoms) /\ Subset(roots, Atoms)
  BY DEF LayoutInv, TypeOK
<1> QED BY <1>1 DEF Subset, Within, Pending

\* The root of the chain is not in what gets it.
LEMMA SetChainRootKeeps == LayoutInv /\ SetChainRoot => LayoutInv'
<1> SUFFICES ASSUME LayoutInv, SetChainRoot PROVE LayoutInv'
  OBVIOUS
<1> DEFINE head == nexts[atom]
           q == Put(roots, cursor, root)
<1>1. /\ pc = "setChainRoot" /\ roots' = q
      /\ UNCHANGED <<input, root, nexts, override>>
      /\ \/ /\ cursor \in DOMAIN nexts /\ cursor' = nexts[cursor] /\ pc' = pc /\ index' = index
         \/ /\ cursor \notin DOMAIN nexts /\ cursor' = cursor
            /\ pc' = "reference" /\ index' = index + 1
  BY DEF SetChainRoot, ToNextAtom
<1>2. after' = after /\ InputInv'
  BY <1>1 DEF input, InputInv, LayoutInv
<1>3. index \in DOMAIN AtomRange
  BY <1>1 DEF LayoutInv, LookedInv, Building
<1>4. Subset(nexts, Atoms) /\ Subset(roots, Atoms) /\ Within(nexts, Pending)
  BY NextsArePending
<1>5. /\ DOMAIN nexts \subseteq DOMAIN roots /\ atom \in DOMAIN nexts
      /\ \A x \in DOMAIN nexts : nexts[x] \in DOMAIN roots
                                 /\ (x = atom \/ roots[nexts[x]] # nexts[x])
      /\ root \in DOMAIN roots /\ roots[root] = root /\ Reaches(nexts, root, atom)
      /\ cursor \in DOMAIN roots /\ Reaches(nexts, head, cursor)
      /\ \/ cursor = head
         \/ roots[head] = root /\ \E x \in DOMAIN nexts : x # atom /\ nexts[x] = cursor
      /\ \A a \in DOMAIN roots :
           /\ roots[a] \in DOMAIN roots /\ Reaches(nexts, roots[a], a)
           /\ \/ roots[roots[a]] = roots[a]
              \/ roots[a] = head /\ Reaches(nexts, cursor, a)
  BY <1>1 DEF LayoutInv, RootInv
<1>6. ~Reaches(nexts, head, atom)
  BY <1>4, <1>5, NoWayBack DEF LayoutInv
<1> HIDE DEF head
<1>7. cursor # atom /\ root # cursor /\ root # head
  <2>1. ~Reaches(nexts, head, root)
    BY <1>5, <1>6, ReachTrans
  <2> QED BY <1>5, <1>6, <2>1, ReachSelf
<1>8. /\ DOMAIN q = DOMAIN roots /\ q[cursor] = root
      /\ \A a \in DOMAIN roots : a # cursor => q[a] = roots[a]
  BY <1>5 DEF Put
<1> HIDE DEF q
<1>9. q[head] = root
  BY <1>5, <1>8 DEF head
<1>10. \A x \in DOMAIN nexts : nexts[x] \in DOMAIN q /\ (x = atom \/ q[nexts[x]] # nexts[x])
  BY <1>5, <1>7, <1>8
<1>11. ASSUME NEW a \in DOMAIN q PROVE q[a] \in DOMAIN q /\ Reaches(nexts, q[a], a)
  <2>1. CASE a = cursor
    <3>1. Reaches(nexts, root, head)
      BY <1>5, ReachStep DEF head
    <3> QED BY <1>5, <1>8, <2>1, <3>1, ReachTrans
  <2> QED BY <1>5, <1>8, <2>1
<1>12. ASSUME NEW a \in DOMAIN q, q[q[a]] # q[a]
       PROVE  q[a] = head /\ cursor \in DOMAIN nexts /\ Reaches(nexts, nexts[cursor], a)
  <2>1. a # cursor /\ q[a] = roots[a] /\ cursor \in Atoms
    BY <1>4, <1>5, <1>7, <1>8, <1>12 DEF Subset
  <2>2. CASE roots[roots[a]] = roots[a]
    <3>1. roots[a] = cursor
      BY <1>5, <1>8, <1>12, <2>1, <2>2
    <3>2. cursor = head
      BY <1>5, <2>2, <3>1
    <3>3. Reaches(nexts, cursor, a)
      BY <1>5, <1>8, <3>1
    <3> QED BY <1>4, <2>1, <3>1, <3>2, <3>3, ReachFirst
  <2>3. CASE roots[a] = head /\ Reaches(nexts, cursor, a)
    BY <1>4, <2>1, <2>3, ReachFirst
  <2> QED BY <1>5, <1>8, <2>2, <2>3
<1>13. Subset(q, Atoms)
  BY <1>4, <1>5, PutSubset DEF q, Subset
<1>14. IsAcyclic(Pending)'
  <2>1. Pending' = Pending
    BY <1>1, <1>2 DEF Pending
  <2> QED BY <2>1 DEF LayoutInv
<1>15. CASE cursor \in DOMAIN nexts
  <2>1. cursor' = nexts[cursor] /\ pc' = "setChainRoot" /\ index' = index /\ atom' = atom
        /\ nexts' = nexts /\ root' = root
    BY <1>1, <1>15 DEF atom
  <2>2. LookedInv'
    BY <1>1, <1>2, <2>1, LookedStays DEF Building, LayoutInv
  <2>3. Reaches(nexts, head, nexts[cursor])
    BY <1>5, <1>15, ReachStep
  <2>4. RootInv'
    <3>1. cursor' \in DOMAIN q /\ root \in DOMAIN q /\ q[root] = root
      BY <1>5, <1>7, <1>8, <1>15, <2>1
    <3>2. head' = head
      BY <2>1 DEF head
    <3> SUFFICES
         /\ Subset(nexts, Atoms) /\ Subset(q, Atoms)
         /\ DOMAIN nexts \subseteq DOMAIN q /\ atom \in DOMAIN nexts
         /\ \A x \in DOMAIN nexts : nexts[x] \in DOMAIN q
                                    /\ (x = atom \/ q[nexts[x]] # nexts[x])
         /\ root \in DOMAIN q /\ q[root] = root /\ Reaches(nexts, root, atom)
         /\ cursor' \in DOMAIN q /\ Reaches(nexts, head, cursor')
         /\ \/ cursor' = head
            \/ q[head] = root /\ \E x \in DOMAIN nexts : x # atom /\ nexts[x] = cursor'
         /\ \A a \in DOMAIN q :
              /\ q[a] \in DOMAIN q /\ Reaches(nexts, q[a], a)
              /\ \/ q[q[a]] = q[a]
                 \/ q[a] = head /\ Reaches(nexts, cursor', a)
      BY <1>1, <2>1 DEF RootInv, head
    <3> QED BY <1>4, <1>5, <1>7, <1>8, <1>9, <1>10, <1>11, <1>12, <1>13, <1>15, <2>1, <2>3, <3>1
  <2>5. SearchInv' /\ override' = <<>> /\ OrdinalInv'
    BY <1>1, <2>1 DEF SearchInv, Searching, OrdinalInv, Building, LayoutInv
  <2>6. TypeOK'
    <3>1. DOMAIN override' = {}
      BY <2>5
    <3>2. index' \in 1 .. Len(AtomRange) + 1 /\ root' \in Atoms \cup {NoAtom}
      BY <2>1 DEF LayoutInv, TypeOK
    <3>3. cursor' \in Atoms
      BY <1>4, <1>15, <2>1 DEF Subset
    <3> QED BY <1>1, <1>4, <1>13, <2>1, <3>1, <3>2, <3>3 DEF TypeOK
  <2> QED BY <1>2, <1>14, <2>1, <2>2, <2>4, <2>5, <2>6 DEF LayoutInv
<1>16. CASE cursor \notin DOMAIN nexts
  <2>1. pc' = "reference" /\ index' = index + 1 /\ cursor' = cursor /\ nexts' = nexts
    BY <1>1, <1>16
  <2>2. LookedInv'
    BY <1>1, <1>2, <1>3, <2>1, LookedOn DEF LayoutInv, Building
  <2>3. Forest(nexts, q)
    <3>1. \A x \in DOMAIN nexts : nexts[x] \in DOMAIN q /\ q[nexts[x]] # nexts[x]
      BY <1>7, <1>9, <1>10 DEF head
    <3> QED BY <1>4, <1>5, <1>8, <1>11, <1>12, <1>13, <1>16, <3>1 DEF Forest
  <2>4. cursor' \in Atoms \cup {NoAtom} /\ root' \in Atoms \cup {NoAtom}
    BY <1>1, <2>1 DEF LayoutInv, TypeOK
  <2> QED BY <1>1, <1>3, <1>14, <2>1, <2>2, <2>3, <2>4, BackToReference DEF Building
<1> QED BY <1>15, <1>16

\* What a search is in the middle of.
LEMMA SearchFacts ==
  ASSUME LayoutInv, pc \in Searching
  PROVE  /\ index \in DOMAIN AtomRange /\ pc \in Building \ {"reference"}
         /\ Subset(nexts, Atoms) /\ Subset(roots, Atoms) /\ Subset(Before1, Atoms)
         /\ atom \in DOMAIN nexts /\ atom \notin DOMAIN Before1
         /\ DOMAIN Before1 = DOMAIN nexts \ {atom}
         /\ \A x \in DOMAIN Before1 : Before1[x] = nexts[x]
         /\ Forest(Before1, roots) /\ atom \in DOMAIN roots /\ nexts[atom] = target
         /\ target \in DOMAIN roots /\ roots[target] # target /\ target # atom
         /\ cursor \in Atoms /\ Reaches(Before1, cursor, target)
         /\ override = <<>>
<1>1. SearchInv /\ pc \in Building \ {"reference"} /\ LookedInv
  BY DEF LayoutInv, Searching, Building
<1>2. index \in DOMAIN AtomRange
  BY <1>1 DEF LookedInv
<1>3. Subset(nexts, Atoms) /\ Subset(roots, Atoms) /\ Within(nexts, Pending)
  BY NextsArePending
<1>4. DOMAIN Before1 = DOMAIN nexts \ {atom} /\ \A x \in DOMAIN Before1 : Before1[x] = nexts[x]
  BY DEF Before1, Without
<1>5. atom \in DOMAIN nexts /\ nexts[atom] = target
  BY <1>1 DEF SearchInv
<1>6. target # atom
  BY <1>3, <1>5, NoWayBack, ReachSelf DEF LayoutInv
<1>7. override = <<>>
  BY <1>1 DEF LayoutInv, OrdinalInv
<1> QED BY <1>1, <1>2, <1>3, <1>4, <1>5, <1>6, <1>7 DEF SearchInv, Forest

\* The search goes on behind the cursor.
LEMMA SearchGoesOn ==
  ASSUME LayoutInv, pc \in Searching, cursor # target
  PROVE  cursor \in DOMAIN Before1 /\ Reaches(Before1, nexts[cursor], target)
<1>1. /\ Subset(Before1, Atoms) /\ cursor \in Atoms /\ Reaches(Before1, cursor, target)
      /\ \A x \in DOMAIN Before1 : Before1[x] = nexts[x]
  BY SearchFacts
<1> HIDE DEF Before1
<1>2. cursor \in DOMAIN Before1 /\ Reaches(Before1, Before1[cursor], target)
  BY <1>1, ReachFirst
<1> QED BY <1>1, <1>2

LEMMA SearchStepKeeps ==
  ASSUME LayoutInv, pc \in Searching, cursor # target, cursor' = nexts[cursor],
         pc = "findAtomFollowedBy" => nexts[cursor] # target,
         UNCHANGED <<input, pc, index, root, nexts, roots, override>>
  PROVE  LayoutInv'
<1>1. cursor \in DOMAIN Before1 /\ Reaches(Before1, nexts[cursor], target)
  BY SearchGoesOn
<1>2. /\ after' = after /\ zero' = zero /\ atom' = atom /\ target' = target
      /\ Before1' = Before1 /\ Pending' = Pending /\ pc' = pc
  BY DEF input, atom, target, Before1, Pending
<1>3. cursor \in DOMAIN nexts /\ nexts[cursor] \in Atoms /\ pc \in Building \ {"reference"}
  BY <1>1, SearchFacts DEF Subset
<1>4. InputInv'
  BY DEF LayoutInv, InputInv, input
<1>5. LookedInv'
  BY <1>2, <1>3, LookedStays DEF LayoutInv
<1>6. SearchInv'
  <2>1. pc \in Searching /\ SearchInv
    BY DEF LayoutInv
  <2>2. /\ Forest(Before1, roots)
        /\ atom \in DOMAIN nexts /\ atom \in DOMAIN roots /\ nexts[atom] = target
        /\ target \in DOMAIN roots /\ roots[target] # target
        /\ pc = "findAtomFollowedBy" => atom \in zero
    BY <2>1 DEF SearchInv
  <2> HIDE DEF Before1
  <2> QED BY <1>1, <1>2, <1>3, <2>2 DEF SearchInv
<1>7. RootInv' /\ OrdinalInv' /\ override' = <<>>
  BY <1>2, <1>3, SearchFacts DEF RootInv, OrdinalInv, Searching
<1>8. TypeOK'
  <2>1. DOMAIN override' = {}
    BY <1>7
  <2> QED BY <1>3, <2>1 DEF LayoutInv, TypeOK, Searching
<1> QED BY <1>2, <1>4, <1>5, <1>6, <1>7, <1>8 DEF LayoutInv

LEMMA CheckPrevAtomKeeps == LayoutInv /\ CheckPrevAtom => LayoutInv'
  BY SearchStepKeeps DEF CheckPrevAtom, Searching

LEMMA ImpossibleLayoutKeeps == LayoutInv /\ ImpossibleLayout => LayoutInv'
<1> SUFFICES ASSUME LayoutInv, ImpossibleLayout PROVE LayoutInv'
  OBVIOUS
<1>1. /\ pc \in Searching /\ pc # "reference" /\ pc' = "reference" /\ index' = index + 1
      /\ UNCHANGED <<input, cursor, root, nexts, roots, override>>
  BY DEF ImpossibleLayout, ToNextAtom, Searching
<1>2. after' = after /\ Pending' = Pending
  BY <1>1 DEF input, Pending
<1>3. /\ index \in DOMAIN AtomRange /\ pc \in Building /\ Forest(Before1, roots)
      /\ Subset(nexts, Atoms) /\ atom \in DOMAIN roots /\ atom \in DOMAIN nexts
      /\ DOMAIN Before1 = DOMAIN nexts \ {atom}
      /\ \A x \in DOMAIN Before1 : Before1[x] = nexts[x]
      /\ nexts[atom] = target /\ target \in DOMAIN roots /\ roots[target] # target
  BY <1>1, SearchFacts
<1>4. LookedInv'
  BY <1>1, <1>2, <1>3, LookedOn DEF LayoutInv
<1>5. Forest(nexts, roots)
  <2> HIDE DEF Before1
  <2>1. Within(Before1, nexts)
    BY <1>3 DEF Within
  <2>2. DOMAIN nexts \subseteq DOMAIN roots
        /\ \A x \in DOMAIN nexts : nexts[x] \in DOMAIN roots /\ roots[nexts[x]] # nexts[x]
    BY <1>3 DEF Forest
  <2> QED BY <1>3, <2>1, <2>2, ReachMore DEF Forest
<1>6. cursor' \in Atoms \cup {NoAtom} /\ root' \in Atoms \cup {NoAtom}
  BY <1>1 DEF LayoutInv, TypeOK
<1> QED BY <1>1, <1>2, <1>3, <1>4, <1>5, <1>6, BackToReference DEF LayoutInv

\* The atom at hand comes between the cursor and the target.
LEMMA ForestInserted ==
  ASSUME NEW f, NEW r, Forest(f, r), NEW a \in DOMAIN r, a \notin DOMAIN f,
         NEW c \in DOMAIN f, f[c] # a, r[f[c]] # f[c]
  PROVE  Forest([x \in DOMAIN f \cup {a} |-> IF x = c THEN a ELSE IF x = a THEN f[c] ELSE f[x]],
                Put(r, a, r[c]))
<1> DEFINE g == [x \in DOMAIN f \cup {a} |-> IF x = c THEN a ELSE IF x = a THEN f[c] ELSE f[x]]
           q == Put(r, a, r[c])
<1>1. /\ DOMAIN g = DOMAIN f \cup {a} /\ g[c] = a /\ g[a] = f[c]
      /\ \A x \in DOMAIN f : x # c => g[x] = f[x]
      /\ DOMAIN q = DOMAIN r /\ q[a] = r[c] /\ \A x \in DOMAIN r : x # a => q[x] = r[x]
  BY DEF Put
<1> HIDE DEF g, q
<1>2. ASSUME NEW x, NEW y, Reaches(f, x, y) PROVE Reaches(g, x, y)
  <2> SUFFICES ASSUME NEW S \in SUBSET Atoms, x \in S, Closed(g, S) PROVE y \in S
    BY DEF Reaches
  <2>1. \A z \in S : z \in DOMAIN f => f[z] \in S
    BY <1>1 DEF Closed
  <2> QED BY <1>2, <2>1 DEF Closed, Reaches
<1>3. Subset(f, Atoms) /\ a \in Atoms /\ c \in DOMAIN r
  BY DEF Forest, Subset
<1>4. \A x \in DOMAIN r : Reaches(f, a, x) => x = a
  BY <1>3, ReachFirst
<1>5. r[c] # a
  BY <1>3, <1>4 DEF Forest
<1>6. Subset(g, Atoms) /\ Subset(q, Atoms) /\ DOMAIN g \subseteq DOMAIN q
  BY <1>1, <1>3 DEF Forest, Subset
<1>7. \A x \in DOMAIN g : g[x] \in DOMAIN q /\ q[g[x]] # g[x]
  BY <1>1, <1>5 DEF Forest
<1>8. ASSUME NEW x \in DOMAIN q PROVE q[x] \in DOMAIN q /\ q[q[x]] = q[x] /\ Reaches(g, q[x], x)
  <2>1. CASE x = a
    <3>1. Reaches(g, r[c], c)
      BY <1>2, <1>3 DEF Forest
    <3>2. Reaches(g, r[c], g[c])
      BY <1>1, <3>1, ReachStep
    <3> QED BY <1>1, <1>3, <1>5, <2>1, <3>2 DEF Forest
  <2>2. CASE x # a
    <3>1. q[x] = r[x] /\ r[x] \in DOMAIN r /\ r[r[x]] = r[x] /\ Reaches(f, r[x], x)
      BY <1>1, <2>2 DEF Forest
    <3>2. r[x] # a
      BY <1>1, <1>4, <2>2, <3>1
    <3> QED BY <1>1, <1>2, <3>1, <3>2
  <2> QED BY <2>1, <2>2
<1>9. Forest(g, q)
  BY <1>6, <1>7, <1>8 DEF Forest
<1> QED BY <1>9 DEF g, q

LEMMA FindAtomFollowedByKeeps == LayoutInv /\ FindAtomFollowedBy => LayoutInv'
<1> SUFFICES ASSUME LayoutInv, FindAtomFollowedBy PROVE LayoutInv'
  OBVIOUS
<1>1. /\ pc = "findAtomFollowedBy" /\ pc \in Searching /\ pc # "reference"
      /\ UNCHANGED <<input, root, override>>
  BY DEF FindAtomFollowedBy, Searching
<1>2. cursor # target
  BY <1>1 DEF LayoutInv, SearchInv
<1>3. /\ index \in DOMAIN AtomRange /\ pc \in Building
      /\ Forest(Before1, roots) /\ atom \notin DOMAIN Before1 /\ atom \in DOMAIN nexts
      /\ DOMAIN Before1 = DOMAIN nexts \ {atom}
      /\ \A x \in DOMAIN Before1 : Before1[x] = nexts[x]
      /\ Subset(nexts, Atoms) /\ Subset(roots, Atoms)
      /\ atom \in DOMAIN roots /\ nexts[atom] = target /\ target # atom /\ roots[target] # target
      /\ cursor \in DOMAIN Before1
  BY <1>1, <1>2, SearchFacts, SearchGoesOn
<1>4. CASE nexts[cursor] # target
  <2>1. UNCHANGED <<pc, index, nexts, roots>> /\ cursor' = nexts[cursor]
    BY <1>4 DEF FindAtomFollowedBy
  <2> QED BY <1>1, <1>2, <1>4, <2>1, SearchStepKeeps
<1>5. CASE nexts[cursor] = target
  <2>1. /\ nexts' = Put(nexts, cursor, atom) /\ roots' = Put(roots, atom, roots[cursor])
        /\ pc' = "reference" /\ index' = index + 1 /\ cursor' = cursor
    BY <1>5 DEF FindAtomFollowedBy, ToNextAtom
  <2>2. after' = after
    BY <1>1 DEF input
  <2>3. /\ DOMAIN nexts' = DOMAIN nexts /\ nexts'[cursor] = atom
        /\ \A x \in DOMAIN nexts : x # cursor => nexts'[x] = nexts[x]
    BY <1>3, <2>1 DEF Put
  <2>4. LookedInv'
    BY <1>1, <1>3, <2>1, <2>2, <2>3, LookedOn DEF LayoutInv
  <2>5. Forest(nexts, roots)'
    <3> DEFINE f == Before1
               g == [x \in DOMAIN f \cup {atom} |->
                       IF x = cursor THEN atom ELSE IF x = atom THEN f[cursor] ELSE f[x]]
    <3>1. nexts' = g
      <4>1. /\ DOMAIN g = DOMAIN nexts
            /\ \A x \in DOMAIN nexts : g[x] = IF x = cursor THEN atom ELSE nexts[x]
        BY <1>3, <1>5
      <4>2. DOMAIN nexts \cup {cursor} = DOMAIN nexts
        BY <1>3
      <4> HIDE DEF f
      <4>3. g = [x \in DOMAIN nexts |-> IF x = cursor THEN atom ELSE nexts[x]]
        BY <4>1
      <4> QED BY <2>1, <4>2, <4>3 DEF Put
    <3>2. f[cursor] # atom /\ roots[f[cursor]] # f[cursor]
      BY <1>3, <1>5
    <3> HIDE DEF f
    <3>3. Forest(g, roots')
      BY <1>3, <2>1, <3>2, ForestInserted DEF f
    <3> QED BY <3>1, <3>3
  <2>6. IsAcyclic(Pending)'
    <3>1. /\ \A x \in Atoms : x # cursor => Pending'[x] = Pending[x]
          /\ Pending'[cursor] = atom /\ Pending[cursor] = target /\ Pending[atom] = target
          /\ atom # cursor /\ atom \in Atoms /\ cursor \in Atoms
      BY <1>3, <1>5, <2>2, <2>3 DEF Pending, Subset
    <3> SUFFICES ASSUME NEW cycle \in SUBSET Atoms, cycle # {},
                        \A x \in cycle : Pending'[x] \in cycle
                 PROVE  FALSE
      BY DEF IsAcyclic
    <3>2. \A x \in cycle : Pending[x] \in cycle
      BY <3>1
    <3> QED BY <3>2 DEF LayoutInv, IsAcyclic
  <2>7. cursor' \in Atoms \cup {NoAtom} /\ root' \in Atoms \cup {NoAtom}
    BY <1>1, <2>1 DEF LayoutInv, TypeOK
  <2> QED BY <1>1, <1>3, <2>1, <2>4, <2>5, <2>6, <2>7, BackToReference
<1> QED BY <1>4, <1>5

\* The atom at hand comes before the head of the chain of its target.
LEMMA InsertAtHeadKeeps == LayoutInv /\ InsertAtHead => LayoutInv'
<1> SUFFICES ASSUME LayoutInv, InsertAtHead PROVE LayoutInv'
  OBVIOUS
<1> DEFINE head == roots[target]
<1>1. /\ pc \in Searching /\ pc # "reference" /\ pc' = "setChainRoot" /\ index' = index
      /\ nexts' = Put(nexts, atom, head) /\ cursor' = head /\ root' = roots[atom]
      /\ UNCHANGED <<input, roots, override>>
  BY DEF InsertAtHead, Searching
<1>2. after' = after /\ InputInv' /\ atom' = atom
  BY <1>1 DEF input, InputInv, LayoutInv, atom
<1>3. /\ index \in DOMAIN AtomRange /\ pc \in Building \ {"reference"}
      /\ Forest(Before1, roots) /\ atom \notin DOMAIN Before1 /\ atom \in DOMAIN nexts
      /\ DOMAIN Before1 = DOMAIN nexts \ {atom}
      /\ \A x \in DOMAIN Before1 : Before1[x] = nexts[x]
      /\ Subset(nexts, Atoms) /\ Subset(roots, Atoms)
      /\ atom \in DOMAIN roots /\ nexts[atom] = target /\ target \in DOMAIN roots
      /\ override = <<>>
  BY <1>1, SearchFacts
<1>4. head \in DOMAIN roots /\ Reaches(Before1, head, target)
  BY <1>3 DEF Forest
<1> HIDE DEF head
<1>5. /\ DOMAIN nexts' = DOMAIN nexts /\ nexts'[atom] = head
      /\ \A x \in DOMAIN nexts : x # atom => nexts'[x] = nexts[x]
  BY <1>1, <1>3 DEF Put
<1>6. Within(Before1, nexts')
  BY <1>3, <1>5 DEF Within
<1>7. LookedInv'
  <2>1. LookedInv /\ pc' \in Building \ {"reference"}
    BY <1>1 DEF LayoutInv, Building
  <2> QED BY <1>1, <1>2, <1>3, <1>5, <2>1, LookedStays
<1>8. IsAcyclic(Pending)'
  <2>1. /\ \A x \in Atoms : x # atom => Pending'[x] = Pending[x]
        /\ Pending'[atom] = head /\ Pending[atom] = target /\ atom \in Atoms
        /\ \A x \in DOMAIN Before1 : Pending'[x] = Before1[x]
    BY <1>2, <1>3, <1>5 DEF Pending, Subset
  <2> SUFFICES ASSUME NEW cycle \in SUBSET Atoms, cycle # {},
                      \A x \in cycle : Pending'[x] \in cycle
               PROVE  FALSE
    BY DEF IsAcyclic
  <2>2. Closed(Before1, cycle)
    <3> HIDE DEF Before1
    <3> QED BY <2>1 DEF Closed
  <2>3. atom \in cycle => target \in cycle
    BY <1>4, <2>1, <2>2 DEF Reaches
  <2>4. \A x \in cycle : Pending[x] \in cycle
    BY <2>1, <2>3
  <2> QED BY <2>4 DEF LayoutInv, IsAcyclic
<1>9. Subset(nexts', Atoms) /\ head \in Atoms /\ roots[atom] \in Atoms
  BY <1>3, <1>4, <1>5 DEF Subset
<1>10. RootInv'
  <2> HIDE DEF Before1
  <2>1. /\ DOMAIN nexts' \subseteq DOMAIN roots
        /\ \A x \in DOMAIN nexts' : nexts'[x] \in DOMAIN roots
                                    /\ (x = atom \/ roots[nexts'[x]] # nexts'[x])
    BY <1>3, <1>4, <1>5 DEF Forest
  <2>2. \A a \in DOMAIN roots : /\ roots[a] \in DOMAIN roots /\ roots[roots[a]] = roots[a]
                                /\ Reaches(nexts', roots[a], a)
    BY <1>3, <1>6, ReachMore DEF Forest
  <2>3. Reaches(nexts', head, head)
    BY ReachSelf
  <2> QED BY <1>1, <1>2, <1>3, <1>4, <1>5, <1>9, <2>1, <2>2, <2>3 DEF RootInv
<1>11. SearchInv' /\ OrdinalInv' /\ override' = <<>>
  BY <1>1, <1>3 DEF SearchInv, OrdinalInv, Searching, Building
<1>12. TypeOK'
  <2>1. DOMAIN override' = {}
    BY <1>11
  <2>2. index' \in 1 .. Len(AtomRange) + 1
    BY <1>1 DEF LayoutInv, TypeOK
  <2> QED BY <1>1, <1>3, <1>9, <2>1, <2>2 DEF TypeOK
<1> QED BY <1>1, <1>2, <1>7, <1>8, <1>10, <1>11, <1>12 DEF LayoutInv

-----------------------------------------------------------------------------
(***************************************************************************)
(* The second loop: every chain gets its ordinals.                         *)
(***************************************************************************)

LEMMA TablesBuiltKeeps == LayoutInv /\ TablesBuilt => LayoutInv'
<1> SUFFICES ASSUME LayoutInv, TablesBuilt PROVE LayoutInv'
  OBVIOUS
<1>1. /\ pc = "reference" /\ index > Len(AtomRange) /\ pc' = "ordinal" /\ index' = 1
      /\ UNCHANGED <<input, cursor, root, nexts, roots, override>>
  BY DEF TablesBuilt
<1>2. /\ after' = after /\ zero' = zero /\ rank' = rank /\ InputInv' /\ Pending' = Pending
      /\ override = <<>>
  BY <1>1 DEF input, InputInv, LayoutInv, Pending, OrdinalInv, Building
<1>3. LookedInv'
  <2>1. \A k \in DOMAIN AtomRange : k < index
    BY <1>1, Positions DEF LayoutInv, TypeOK
  <2> QED BY <1>1, <1>2, <2>1 DEF LayoutInv, LookedInv, Looked, Building
<1>4. Forest(nexts, roots)
  BY <1>1 DEF LayoutInv, Searching
<1>5. OrdinalInv'
  <2>1. DOMAIN override' = {} /\ \A k \in DOMAIN AtomRange : ~(k < index')
    BY <1>1, <1>2, Positions
  <2> QED BY <1>1, <2>1 DEF OrdinalInv, Building
<1>6. SearchInv' /\ RootInv' /\ pc' \notin Searching \cup {"setChainRoot"}
  BY <1>1 DEF SearchInv, RootInv, Searching
<1>7. TypeOK'
  BY <1>1, Positions DEF LayoutInv, TypeOK
<1> QED BY <1>1, <1>2, <1>3, <1>4, <1>5, <1>6, <1>7 DEF LayoutInv

\* The tables stay as they are.
LEMMA OrdinalStepKeeps ==
  ASSUME LayoutInv, pc \notin Building, pc' \in {"ordinal", "chain", "sorted"},
         UNCHANGED <<input, root, nexts, roots>>, OrdinalInv', TypeOK'
  PROVE  LayoutInv'
<1>1. InputInv' /\ after' = after /\ Pending' = Pending
  BY DEF input, InputInv, LayoutInv, Pending
<1>2. LookedInv'
  BY <1>1 DEF LayoutInv, LookedInv, Looked, Building
<1>3. Forest(nexts, roots)
  BY DEF LayoutInv, Searching, Building
<1>4. SearchInv' /\ RootInv'
  BY DEF SearchInv, RootInv, Searching
<1> QED BY <1>1, <1>2, <1>3, <1>4 DEF LayoutInv

\* The atoms up to the one at hand have their ordinals.
LEMMA AtomDone ==
  ASSUME LayoutInv, pc \notin Building, pc' \notin Building, index \in DOMAIN AtomRange,
         NEW S, DOMAIN override \subseteq S, atom \in DOMAIN roots => atom \in S
  PROVE  \A k \in DOMAIN AtomRange :
           k < index + 1 /\ AtomRange[k] \in DOMAIN roots => AtomRange[k] \in S
<1> TAKE k \in DOMAIN AtomRange
<1>1. k \in Nat /\ index \in Nat
  BY Positions
<1>2. k < index + 1 <=> k < index \/ k = index
  BY <1>1
<1>3. CASE k = index
  BY <1>3 DEF atom
<1>4. CASE k < index
  BY <1>4 DEF LayoutInv, OrdinalInv
<1> QED BY <1>2, <1>3, <1>4

LEMMA SkipAtomKeeps == LayoutInv /\ SkipAtom => LayoutInv'
<1> SUFFICES ASSUME LayoutInv, SkipAtom PROVE LayoutInv'
  OBVIOUS
<1>1. /\ pc = "ordinal" /\ pc \notin Building /\ index <= Len(AtomRange) /\ pc' = pc
      /\ index' = index + 1 /\ (atom \in DOMAIN override \/ atom \notin DOMAIN roots)
      /\ UNCHANGED <<input, cursor, root, nexts, roots, override>>
  BY DEF SkipAtom, Building
<1>2. index \in DOMAIN AtomRange
  BY <1>1, Positions DEF LayoutInv, TypeOK
<1>3. \A k \in DOMAIN AtomRange :
        k < index' /\ AtomRange[k] \in DOMAIN roots => AtomRange[k] \in DOMAIN override
  BY <1>1, <1>2, AtomDone
<1>4. OrdinalInv'
  BY <1>1, <1>3 DEF LayoutInv, OrdinalInv
<1>5. TypeOK'
  BY <1>1, <1>2, Positions DEF LayoutInv, TypeOK
<1> QED BY <1>1, <1>4, <1>5, OrdinalStepKeeps

LEMMA StartChainKeeps == LayoutInv /\ StartChain => LayoutInv'
<1> SUFFICES ASSUME LayoutInv, StartChain PROVE LayoutInv'
  OBVIOUS
<1>1. /\ pc = "ordinal" /\ pc \notin Building /\ index <= Len(AtomRange) /\ pc' = "chain"
      /\ cursor' = roots[atom] /\ atom \in DOMAIN roots
      /\ UNCHANGED <<input, index, root, nexts, roots, override>>
  BY DEF StartChain, Building
<1>2. index \in DOMAIN AtomRange
  BY <1>1, Positions DEF LayoutInv, TypeOK
<1>3. Forest(nexts, roots)
  BY <1>1 DEF LayoutInv, Searching
<1>4. roots[atom] \in DOMAIN roots /\ roots[atom] \in Atoms /\ Reaches(nexts, roots[atom], atom)
  BY <1>1, <1>3 DEF Forest, Subset
<1>5. OrdinalInv'
  <2>1. atom' = atom
    BY <1>1 DEF atom
  <2> QED BY <1>1, <1>2, <1>4, <2>1 DEF LayoutInv, OrdinalInv, Building
<1>6. TypeOK'
  BY <1>1, <1>4 DEF LayoutInv, TypeOK
<1> QED BY <1>1, <1>5, <1>6, OrdinalStepKeeps

LEMMA SortKeeps == LayoutInv /\ Sort => LayoutInv'
<1> SUFFICES ASSUME LayoutInv, Sort PROVE LayoutInv'
  OBVIOUS
<1>1. /\ pc = "ordinal" /\ pc \notin Building /\ index > Len(AtomRange) /\ pc' = "sorted"
      /\ UNCHANGED <<input, index, cursor, root, nexts, roots, override>>
  BY DEF Sort, Building
<1>2. OrdinalInv'
  BY <1>1 DEF LayoutInv, OrdinalInv, Building
<1>3. TypeOK'
  BY <1>1 DEF LayoutInv, TypeOK
<1> QED BY <1>1, <1>2, <1>3, OrdinalStepKeeps

\* Different numbers below the size of the map.
Numbers(m) ==
  /\ \A a \in DOMAIN m : m[a] \in Nat /\ m[a] < Cardinality(DOMAIN m)
  /\ \A a, b \in DOMAIN m : m[a] = m[b] => a = b

LEMMA NumberGiven ==
  ASSUME NEW m, IsFiniteSet(DOMAIN m), Numbers(m), NEW a, a \notin DOMAIN m
  PROVE  LET n == Cardinality(DOMAIN m) IN
         /\ n \in Nat /\ Numbers(Put(m, a, n))
         /\ Cardinality(DOMAIN Put(m, a, n)) = n + 1
<1> DEFINE n == Cardinality(DOMAIN m)
           q == Put(m, a, n)
<1>1. n \in Nat /\ Cardinality(DOMAIN m \cup {a}) = n + 1
  BY FS_CardinalityType, FS_AddElement
<1>2. /\ DOMAIN q = DOMAIN m \cup {a} /\ q[a] = n
      /\ \A x \in DOMAIN m : q[x] = m[x] /\ m[x] \in Nat /\ m[x] < n
      /\ \A x, y \in DOMAIN m : m[x] = m[y] => x = y
  BY DEF Put, Numbers
<1> HIDE DEF n, q
<1>3. \A x \in DOMAIN q : q[x] \in Nat /\ q[x] < n + 1
  BY <1>1, <1>2
<1>4. \A x, y \in DOMAIN q : q[x] = q[y] => x = y
  BY <1>1, <1>2
<1>5. Numbers(q)
  BY <1>1, <1>2, <1>3, <1>4 DEF Numbers
<1> QED BY <1>1, <1>2, <1>5 DEF n, q

LEMMA Ordinals ==
  ASSUME LayoutInv, pc \notin Building
  PROVE  /\ DOMAIN override \subseteq DOMAIN roots /\ DOMAIN override \subseteq Atoms
         /\ IsFiniteSet(DOMAIN override) /\ Numbers(override)
<1>1. DOMAIN override \subseteq DOMAIN roots /\ Numbers(override)
  BY DEF LayoutInv, OrdinalInv, Numbers
<1>2. DOMAIN override \subseteq Atoms
  BY DEF LayoutInv, TypeOK
<1> QED BY <1>1, <1>2, LayoutAssumption, FS_Subset

\* What one turn of the inner loop does to the map.
LEMMA Walked ==
  ASSUME LayoutInv, WalkChain
  PROVE  /\ pc = "chain" /\ pc \notin Building /\ cursor \in DOMAIN roots /\ cursor \in Atoms
         /\ Forest(nexts, roots)
         /\ Cardinality(DOMAIN override) \in Nat
         /\ DOMAIN override' = DOMAIN override \cup {cursor}
         /\ \A a \in DOMAIN override : override'[a] = override[a]
         /\ Numbers(override')
         /\ cursor \notin DOMAIN override =>
              /\ override'[cursor] = Cardinality(DOMAIN override)
              /\ Cardinality(DOMAIN override') = Cardinality(DOMAIN override) + 1
<1>1. pc = "chain" /\ pc \notin Building
  BY DEF WalkChain, Building
<1>2. /\ DOMAIN override \subseteq DOMAIN roots /\ IsFiniteSet(DOMAIN override)
      /\ Numbers(override)
  BY <1>1, Ordinals
<1>3. Forest(nexts, roots) /\ cursor \in DOMAIN roots
  BY <1>1 DEF LayoutInv, Searching, OrdinalInv, Building
<1>4. CASE cursor \in DOMAIN override
  <2>1. override' = override
    BY <1>4 DEF WalkChain
  <2> QED BY <1>1, <1>2, <1>3, <1>4, <2>1, FS_CardinalityType DEF Forest, Subset
<1>5. CASE cursor \notin DOMAIN override
  <2>1. override' = Put(override, cursor, Cardinality(DOMAIN override))
    BY <1>5 DEF WalkChain
  <2>2. /\ Cardinality(DOMAIN override) \in Nat /\ Numbers(override')
        /\ Cardinality(DOMAIN override') = Cardinality(DOMAIN override) + 1
    BY <1>2, <1>5, <2>1, NumberGiven
  <2>3. /\ DOMAIN override' = DOMAIN override \cup {cursor}
        /\ override'[cursor] = Cardinality(DOMAIN override)
        /\ \A a \in DOMAIN override : override'[a] = override[a]
    BY <1>5, <2>1 DEF Put
  <2> QED BY <1>1, <1>3, <2>2, <2>3 DEF Forest, Subset
<1> QED BY <1>4, <1>5

LEMMA WalkChainKeeps == LayoutInv /\ WalkChain => LayoutInv'
<1> SUFFICES ASSUME LayoutInv, WalkChain PROVE LayoutInv'
  OBVIOUS
<1>1. /\ pc = "chain" /\ pc \notin Building /\ cursor \in DOMAIN roots /\ cursor \in Atoms
      /\ Forest(nexts, roots)
      /\ DOMAIN override' = DOMAIN override \cup {cursor}
      /\ Numbers(override')
  BY Walked
<1>2. /\ UNCHANGED <<input, root, nexts, roots>>
      /\ \/ /\ cursor \in DOMAIN nexts /\ cursor' = nexts[cursor] /\ pc' = "chain" /\ index' = index
         \/ /\ cursor \notin DOMAIN nexts /\ cursor' = NoAtom /\ pc' = "ordinal"
            /\ index' = index + 1
  BY <1>1 DEF WalkChain
<1>3. /\ index \in DOMAIN AtomRange /\ atom \in DOMAIN roots
      /\ atom \in DOMAIN override \/ Reaches(nexts, cursor, atom)
  BY <1>1 DEF LayoutInv, OrdinalInv
<1>4. DOMAIN override' \subseteq DOMAIN roots /\ DOMAIN override \subseteq DOMAIN override'
  BY <1>1, Ordinals
<1>5. /\ \A a \in DOMAIN override' : override'[a] \in Nat
                                     /\ override'[a] < Cardinality(DOMAIN override')
      /\ \A a, b \in DOMAIN override' : override'[a] = override'[b] => a = b
  BY <1>1 DEF Numbers
<1>6. Subset(nexts, Atoms) /\ Subset(roots, Atoms)
  BY <1>1 DEF Forest
<1>7. atom \in DOMAIN override' \/ (cursor \in DOMAIN nexts /\ Reaches(nexts, nexts[cursor], atom))
  BY <1>1, <1>3, <1>6, ReachFirst
<1>8. TypeOK'
  <2>1. DOMAIN override' \subseteq Atoms
    BY <1>4, <1>6 DEF Subset
  <2>2. cursor' \in Atoms \cup {NoAtom}
    BY <1>2, <1>6 DEF Subset
  <2>3. index' \in 1 .. Len(AtomRange) + 1
    BY <1>2, <1>3, Positions
  <2>4. root' \in Atoms \cup {NoAtom}
    BY <1>2 DEF LayoutInv, TypeOK
  <2> QED BY <1>2, <1>5, <1>6, <2>1, <2>2, <2>3, <2>4 DEF TypeOK
<1>9. CASE cursor \in DOMAIN nexts
  <2>1. cursor' = nexts[cursor] /\ pc' = "chain" /\ index' = index /\ atom' = atom
    BY <1>2, <1>9 DEF atom
  <2>2. nexts[cursor] \in DOMAIN roots
    BY <1>1, <1>9 DEF Forest
  <2>3. \A k \in DOMAIN AtomRange :
          k < index /\ AtomRange[k] \in DOMAIN roots => AtomRange[k] \in DOMAIN override'
    BY <1>1, <1>4 DEF LayoutInv, OrdinalInv
  <2>4. OrdinalInv'
    BY <1>2, <1>3, <1>4, <1>5, <1>7, <2>1, <2>2, <2>3 DEF OrdinalInv, Building
  <2> QED BY <1>1, <1>2, <1>8, <2>1, <2>4, OrdinalStepKeeps
<1>10. CASE cursor \notin DOMAIN nexts
  <2>1. pc' = "ordinal" /\ index' = index + 1 /\ pc' \notin Building
    BY <1>2, <1>10 DEF Building
  <2>2. \A k \in DOMAIN AtomRange :
          k < index + 1 /\ AtomRange[k] \in DOMAIN roots => AtomRange[k] \in DOMAIN override'
    BY <1>1, <1>3, <1>4, <1>7, <1>10, <2>1, AtomDone
  <2>3. OrdinalInv'
    BY <1>2, <1>4, <1>5, <2>1, <2>2 DEF OrdinalInv
  <2> QED BY <1>1, <1>2, <1>8, <2>1, <2>3, OrdinalStepKeeps
<1> QED BY <1>9, <1>10

LEMMA LayoutNext == LayoutInv /\ [Next]_vars => LayoutInv'
<1> SUFFICES ASSUME LayoutInv, [Next]_vars PROVE LayoutInv'
  OBVIOUS
<1>1. CASE NoReference
  BY <1>1, NoReferenceKeeps
<1>2. CASE NewTarget
  BY <1>2, NewTargetKeeps
<1>3. CASE RootTarget
  BY <1>3, RootTargetKeeps
<1>4. CASE InnerTarget
  BY <1>4, InnerTargetKeeps
<1>5. CASE SetChainRoot
  BY <1>5, SetChainRootKeeps
<1>6. CASE FindAtomFollowedBy
  BY <1>6, FindAtomFollowedByKeeps
<1>7. CASE CheckPrevAtom
  BY <1>7, CheckPrevAtomKeeps
<1>8. CASE ImpossibleLayout
  BY <1>8, ImpossibleLayoutKeeps
<1>9. CASE InsertAtHead
  BY <1>9, InsertAtHeadKeeps
<1>10. CASE TablesBuilt
  BY <1>10, TablesBuiltKeeps
<1>11. CASE SkipAtom
  BY <1>11, SkipAtomKeeps
<1>12. CASE StartChain
  BY <1>12, StartChainKeeps
<1>13. CASE WalkChain
  BY <1>13, WalkChainKeeps
<1>14. CASE Sort
  BY <1>14, SortKeeps
<1>15. CASE UNCHANGED vars
  BY <1>15 DEF vars, LayoutInv, TypeOK, InputInv, LookedInv, Looked, Building, IsAcyclic, Pending,
     Forest, Subset, Reaches, Closed, SearchInv, Searching, Before1, Without, atom, target,
     RootInv, OrdinalInv
<1> QED BY <1>1, <1>2, <1>3, <1>4, <1>5, <1>6, <1>7, <1>8, <1>9, <1>10, <1>11, <1>12, <1>13,
           <1>14, <1>15 DEF Next, Done

-----------------------------------------------------------------------------
(***************************************************************************)
(* What follows for the properties.                                        *)
(***************************************************************************)

LEMMA SearchesFind == LayoutInv => TargetInChain /\ RootIsItsOwn
<1> SUFFICES ASSUME LayoutInv PROVE TargetInChain /\ RootIsItsOwn
  OBVIOUS
<1>1. ASSUME pc \in Searching, cursor # target PROVE cursor \in DOMAIN nexts
  BY <1>1, SearchGoesOn, SearchFacts
<1>2. pc = "findAtomFollowedBy" => cursor # target
  BY DEF LayoutInv, SearchInv, Searching
<1>3. RootIsItsOwn
  BY DEF LayoutInv, RootIsItsOwn, Forest, Searching
<1> QED BY <1>1, <1>2, <1>3 DEF TargetInChain, Searching

\* How two atoms compare when all is done.
LEMMA Sorted ==
  ASSUME LayoutInv, pc = "sorted"
  PROVE  /\ Forest(nexts, roots) /\ DOMAIN override = DOMAIN roots
         /\ \A a \in Atoms : /\ RootOf(a) \in Atoms /\ OverrideOf(a) \in Nat
                             /\ a \notin DOMAIN roots => RootOf(a) = a
                             /\ rank[RootOf(a)] \in Nat
         /\ \A a, b \in Atoms : RootOf(a) = RootOf(b) /\ a # b =>
              a \in DOMAIN roots /\ b \in DOMAIN roots /\ OverrideOf(a) # OverrideOf(b)
         /\ \A a, b \in Atoms : rank[RootOf(a)] = rank[RootOf(b)] => RootOf(a) = RootOf(b)
<1>1. pc \notin Building /\ Forest(nexts, roots)
  BY DEF LayoutInv, Searching, Building
<1>2. DOMAIN override \subseteq DOMAIN roots /\ Numbers(override)
  BY <1>1, Ordinals
<1>3. Subset(roots, Atoms) /\ \A a \in DOMAIN roots : roots[a] \in DOMAIN roots /\ roots[roots[a]] = roots[a]
  BY <1>1 DEF Forest
<1>4. ASSUME NEW a \in DOMAIN roots PROVE a \in DOMAIN override
  <2>1. PICK k \in DOMAIN AtomRange : AtomRange[k] = a
    BY <1>3, Positions DEF Subset
  <2>2. index > Len(AtomRange)
    BY DEF LayoutInv, OrdinalInv, Building
  <2>3. index \in Nat
    BY Positions DEF LayoutInv, TypeOK
  <2>4. k < index
    BY <2>2, <2>3, Positions
  <2> QED BY <1>1, <2>1, <2>4 DEF LayoutInv, OrdinalInv
<1>5. DOMAIN override = DOMAIN roots
  BY <1>2, <1>4
<1>6. rank \in [Atoms -> Nat] /\ \A a, b \in Atoms : rank[a] = rank[b] => a = b
  BY InputFacts DEF LayoutInv
<1>7. \A a \in Atoms : /\ RootOf(a) \in Atoms /\ OverrideOf(a) \in Nat
                       /\ a \notin DOMAIN roots => RootOf(a) = a
                       /\ rank[RootOf(a)] \in Nat
  BY <1>2, <1>3, <1>6 DEF RootOf, OverrideOf, Subset, Numbers
<1>8. ASSUME NEW a \in Atoms, NEW b \in Atoms, RootOf(a) = RootOf(b), a # b
      PROVE  a \in DOMAIN roots /\ b \in DOMAIN roots /\ OverrideOf(a) # OverrideOf(b)
  <2>1. a \in DOMAIN roots /\ b \in DOMAIN roots
    BY <1>3, <1>8 DEF RootOf
  <2> QED BY <1>2, <1>5, <1>8, <2>1 DEF OverrideOf, Numbers
<1> QED BY <1>1, <1>5, <1>6, <1>7, <1>8

\* The atoms that compare before one are finitely many, ...
LEMMA PlaceIsNat ==
  ASSUME NEW a PROVE Place(a) \in Nat
<1> DEFINE S == {b \in Atoms : b = a \/ CompareAtoms(b, a)}
<1>1. IsFiniteSet(S)
  BY LayoutAssumption, FS_Subset
<1> QED BY <1>1, FS_CardinalityType DEF Place

\* ... and the comparison is by the rank of the root and then by the ordinal.
LEMMA CompareIs ==
  ASSUME LayoutInv, pc = "sorted", NEW a \in Atoms, NEW b \in Atoms
  PROVE  CompareAtoms(a, b) <=>
           \/ rank[RootOf(a)] < rank[RootOf(b)]
           \/ RootOf(a) = RootOf(b) /\ OverrideOf(a) < OverrideOf(b)
<1>1. OverrideOf(a) \in Nat /\ OverrideOf(b) \in Nat /\ rank[RootOf(a)] \in Nat /\ rank[RootOf(b)] \in Nat
  BY Sorted
<1>2. CASE RootOf(a) = RootOf(b)
  <2>1. ~(rank[RootOf(a)] < rank[RootOf(b)])
    BY <1>1, <1>2
  <2>2. OverrideOf(a) < OverrideOf(b) => a # b
    BY <1>1
  <2> QED BY <1>2, <2>1, <2>2 DEF CompareAtoms
<1>3. CASE RootOf(a) # RootOf(b)
  BY <1>3 DEF CompareAtoms
<1> QED BY <1>2, <1>3

LEMMA CompareOneWay ==
  ASSUME LayoutInv, pc = "sorted", NEW a \in Atoms, NEW b \in Atoms
  PROVE  /\ ~(CompareAtoms(a, b) /\ CompareAtoms(b, a))
         /\ a # b => CompareAtoms(a, b) \/ CompareAtoms(b, a)
<1>1. /\ OverrideOf(a) \in Nat /\ OverrideOf(b) \in Nat
      /\ rank[RootOf(a)] \in Nat /\ rank[RootOf(b)] \in Nat
      /\ RootOf(a) = RootOf(b) /\ a # b => OverrideOf(a) # OverrideOf(b)
      /\ rank[RootOf(a)] = rank[RootOf(b)] => RootOf(a) = RootOf(b)
  BY Sorted
<1>2. /\ CompareAtoms(a, b) <=>
           \/ rank[RootOf(a)] < rank[RootOf(b)]
           \/ RootOf(a) = RootOf(b) /\ OverrideOf(a) < OverrideOf(b)
      /\ CompareAtoms(b, a) <=>
           \/ rank[RootOf(b)] < rank[RootOf(a)]
           \/ RootOf(b) = RootOf(a) /\ OverrideOf(b) < OverrideOf(a)
  BY CompareIs
<1> QED BY <1>1, <1>2

LEMMA CompareTrans ==
  ASSUME LayoutInv, pc = "sorted", NEW a \in Atoms, NEW b \in Atoms, NEW c \in Atoms,
         CompareAtoms(a, b), CompareAtoms(b, c)
  PROVE  CompareAtoms(a, c)
<1>1. \A x \in {a, b, c} : OverrideOf(x) \in Nat /\ rank[RootOf(x)] \in Nat
  BY Sorted
<1>2. /\ \/ rank[RootOf(a)] < rank[RootOf(b)]
         \/ RootOf(a) = RootOf(b) /\ OverrideOf(a) < OverrideOf(b)
      /\ \/ rank[RootOf(b)] < rank[RootOf(c)]
         \/ RootOf(b) = RootOf(c) /\ OverrideOf(b) < OverrideOf(c)
  BY CompareIs
<1>3. \/ rank[RootOf(a)] < rank[RootOf(c)]
      \/ RootOf(a) = RootOf(c) /\ OverrideOf(a) < OverrideOf(c)
  BY <1>1, <1>2
<1> QED BY <1>3, CompareIs

\* What compares before has the smaller place.
LEMMA PlaceLess ==
  ASSUME LayoutInv, pc = "sorted", NEW a \in Atoms, NEW b \in Atoms, CompareAtoms(a, b)
  PROVE  Place(a) < Place(b)
<1> DEFINE S(x) == {y \in Atoms : y = x \/ CompareAtoms(y, x)}
<1>1. ~CompareAtoms(b, a)
  BY CompareOneWay
<1>2. a # b
  BY <1>1
<1>3. S(a) \cup {b} \subseteq S(b) /\ b \notin S(a)
  BY <1>1, <1>2, CompareTrans
<1>4. IsFiniteSet(S(a)) /\ IsFiniteSet(S(b))
  BY LayoutAssumption, FS_Subset
<1>5. Place(a) = Cardinality(S(a)) /\ Place(b) = Cardinality(S(b))
  BY DEF Place
<1> HIDE DEF S
<1>6. Cardinality(S(a)) \in Nat /\ Cardinality(S(b)) \in Nat
  BY <1>4, FS_CardinalityType
<1>7. Cardinality(S(a) \cup {b}) = Cardinality(S(a)) + 1
  BY <1>3, <1>4, FS_AddElement
<1>8. Cardinality(S(a) \cup {b}) <= Cardinality(S(b))
  BY <1>3, <1>4, FS_Subset
<1> QED BY <1>5, <1>6, <1>7, <1>8

LEMMA PlaceOrders ==
  ASSUME LayoutInv, pc = "sorted", NEW a \in Atoms, NEW b \in Atoms
  PROVE  /\ Place(a) < Place(b) <=> CompareAtoms(a, b)
         /\ Place(a) = Place(b) => a = b
<1>1. Place(a) \in Nat /\ Place(b) \in Nat
  BY PlaceIsNat
<1>2. a = b \/ CompareAtoms(a, b) \/ CompareAtoms(b, a)
  BY CompareOneWay
<1>3. CompareAtoms(a, b) => Place(a) < Place(b)
  BY PlaceLess
<1>4. CompareAtoms(b, a) => Place(b) < Place(a)
  BY PlaceLess
<1> QED BY <1>1, <1>2, <1>3, <1>4

LEMMA OrderIsTotal == LayoutInv => TotalOrder
  BY CompareOneWay, PlaceLess DEF TotalOrder

\* Nothing comes between two atoms of a chain whose ordinals follow each other.
LEMMA Adjacent ==
  ASSUME LayoutInv, pc = "sorted", NEW a \in Atoms, NEW b \in Atoms,
         RootOf(b) = RootOf(a), OverrideOf(b) = OverrideOf(a) + 1
  PROVE  Place(b) = Place(a) + 1
<1> DEFINE S(x) == {y \in Atoms : y = x \/ CompareAtoms(y, x)}
<1>1. OverrideOf(a) \in Nat
  BY Sorted
<1>2. CompareAtoms(a, b)
  BY <1>1, CompareIs
<1>3. b \notin S(a)
  <2>1. a # b /\ ~CompareAtoms(b, a)
    BY <1>1, <1>2, CompareOneWay
  <2> QED BY <2>1
<1>4. ASSUME NEW x \in Atoms, CompareAtoms(x, b) PROVE x = a \/ CompareAtoms(x, a)
  <2>1. OverrideOf(x) \in Nat
    BY Sorted
  <2>2. \/ rank[RootOf(x)] < rank[RootOf(b)]
        \/ RootOf(x) = RootOf(b) /\ OverrideOf(x) < OverrideOf(b)
    BY <1>4, CompareIs
  <2>3. CASE rank[RootOf(x)] < rank[RootOf(b)]
    BY <2>3, CompareIs
  <2>4. CASE RootOf(x) = RootOf(b) /\ OverrideOf(x) < OverrideOf(b)
    <3>1. RootOf(x) = RootOf(a) /\ (OverrideOf(x) < OverrideOf(a) \/ OverrideOf(x) = OverrideOf(a))
      BY <1>1, <2>1, <2>4
    <3> QED BY <3>1, CompareIs, Sorted
  <2> QED BY <2>2, <2>3, <2>4
<1>5. S(b) = S(a) \cup {b}
  <2>1. \A x \in Atoms : CompareAtoms(x, a) => CompareAtoms(x, b)
    BY <1>2, CompareTrans
  <2> QED BY <1>2, <1>4, <2>1
<1>6. IsFiniteSet(S(a))
  BY LayoutAssumption, FS_Subset
<1>7. Place(a) = Cardinality(S(a)) /\ Place(b) = Cardinality(S(b))
  BY DEF Place
<1> HIDE DEF S
<1> QED BY <1>3, <1>5, <1>6, <1>7, FS_AddElement

\* If no link of a chain is lost and each is to the target or to an atom of size
\* zero with the same target, then the target is met with only those between.
LEMMA TargetIsMet ==
  ASSUME LayoutInv, pc = "sorted", Line(nexts),
         \A x \in DOMAIN nexts : Place(nexts[x]) = Place(x) + 1,
         NEW a \in DOMAIN nexts
  PROVE  LaidOut(a)
<1> DEFINE t == after[a]
           Between(x) == \A b \in Atoms : Place(a) < Place(b) /\ Place(b) <= Place(x) => b \in zero
           Met(n, x) == /\ x \in DOMAIN nexts /\ after[x] = t /\ Place(x) = Place(a) + n
                        /\ Between(x)
           R == {n \in Nat : \E x : Met(n, x)}
<1>1. Subset(nexts, Atoms) /\ a \in Atoms
  BY NextsArePending DEF Subset
<1>2. \A x \in Atoms : Place(x) \in Nat /\ Place(x) <= Cardinality(Atoms)
  <2> TAKE x \in Atoms
  <2> DEFINE S == {b \in Atoms : b = x \/ CompareAtoms(b, x)}
  <2>1. Cardinality(S) <= Cardinality(Atoms)
    BY LayoutAssumption, FS_Subset
  <2> QED BY <2>1, PlaceIsNat DEF Place
<1>3. \A x, y \in Atoms : Place(x) = Place(y) => x = y
  BY PlaceOrders
<1>4. \E n \in Nat : \E x : Met(n, x) /\ nexts[x] = t
  <2> SUFFICES ASSUME \A n \in Nat : \A x : Met(n, x) => nexts[x] # t PROVE FALSE
    OBVIOUS
  <2>1. 0 \in R
    <3>1. Place(a) + 0 = Place(a)
      BY <1>1, <1>2
    <3>2. Between(a)
      BY <1>1, <1>2
    <3>3. Met(0, a)
      BY <3>1, <3>2
    <3> QED BY <3>3
  <2>2. ASSUME NEW n \in R PROVE n + 1 \in R
    <3>1. PICK x : Met(n, x)
      OBVIOUS
    <3>2. n \in Nat /\ nexts[x] # t
      BY <3>1
    <3> DEFINE y == nexts[x]
    <3>3. /\ x \in DOMAIN nexts /\ after[x] = t /\ Place(x) = Place(a) + n /\ Between(x)
          /\ x \in Atoms
      BY <1>1, <3>1 DEF Subset
    <3>4. /\ y \in zero /\ y \in DOMAIN nexts /\ after[y] = t /\ y \in Atoms
          /\ Place(y) = Place(x) + 1
      BY <1>1, <3>2, <3>3 DEF Line, Subset
    <3> HIDE DEF y
    <3>5. Place(y) = Place(a) + (n + 1)
      BY <1>1, <1>2, <3>2, <3>3, <3>4
    <3>6. Between(y)
      <4> SUFFICES ASSUME NEW b \in Atoms, Place(a) < Place(b), Place(b) <= Place(y)
                   PROVE  b \in zero
        OBVIOUS
      <4>1. Place(b) <= Place(x) \/ Place(b) = Place(y)
        BY <1>2, <3>3, <3>4
      <4> QED BY <1>3, <3>3, <3>4, <4>1
    <3>7. Met(n + 1, y)
      BY <3>4, <3>5, <3>6
    <3> QED BY <3>2, <3>7
  <2>3. R = Nat
    <3>1. R \in SUBSET Nat
      OBVIOUS
    <3> HIDE DEF R
    <3> QED BY <2>1, <2>2, <3>1, SetInduction
  <2>4. Cardinality(Atoms) + 1 \in Nat
    BY Positions
  <2>5. PICK x : Met(Cardinality(Atoms) + 1, x)
    BY <2>3, <2>4
  <2>6. x \in Atoms /\ Place(x) = Place(a) + (Cardinality(Atoms) + 1)
    BY <1>1, <2>5 DEF Subset
  <2> QED BY <1>1, <1>2, <2>6, Positions
<1>5. PICK n \in Nat : \E y : Met(n, y) /\ nexts[y] = t
  BY <1>4
<1>6. PICK x : Met(n, x) /\ nexts[x] = t
  BY <1>5
<1>7. /\ x \in Atoms /\ t \in Atoms /\ Place(x) = Place(a) + n /\ Place(t) = Place(x) + 1 /\ Between(x)
  BY <1>1, <1>6 DEF Subset
<1>8. Place(a) < Place(t)
  BY <1>1, <1>2, <1>7
<1>9. \A b \in Atoms : Place(a) < Place(b) /\ Place(b) < Place(t) => b \in zero
  <2> TAKE b \in Atoms
  <2>1. Place(b) < Place(t) => Place(b) <= Place(x)
    BY <1>2, <1>7
  <2> QED BY <1>7, <2>1
<1> HIDE DEF t
<1>10. t = after[a]
  BY DEF t
<1> QED BY <1>8, <1>9, <1>10 DEF LaidOut

LEMMA KeptAtTheEnd == LayoutInv /\ KeptInv => LayoutKept
<1> SUFFICES ASSUME LayoutInv, KeptInv, pc = "sorted", Fair
             PROVE  /\ \A a \in Atoms : after[a] # NoAtom => LaidOut(a)
                    /\ \A a \in DOMAIN nexts : Place(nexts[a]) = Place(a) + 1
  BY DEF LayoutKept, Fair
<1>1. /\ Line(nexts) /\ CountInv
      /\ \A x \in DOMAIN nexts : roots[nexts[x]] = roots[x]
  BY DEF KeptInv, Searching, Building
<1>2. Forest(nexts, roots) /\ DOMAIN override = DOMAIN roots
  BY Sorted
<1>3. ASSUME NEW a \in DOMAIN nexts PROVE Place(nexts[a]) = Place(a) + 1
  <2>1. a \in DOMAIN roots /\ nexts[a] \in DOMAIN roots /\ a \in Atoms /\ nexts[a] \in Atoms
    BY <1>2 DEF Forest, Subset
  <2>2. override[nexts[a]] = override[a] + 1
    BY <1>1, <1>2, <2>1 DEF CountInv
  <2>3. RootOf(nexts[a]) = RootOf(a) /\ OverrideOf(nexts[a]) = OverrideOf(a) + 1
    BY <1>1, <1>2, <2>1, <2>2 DEF RootOf, OverrideOf
  <2> QED BY <2>1, <2>3, Adjacent
<1>4. ASSUME NEW a \in Atoms, after[a] # NoAtom PROVE LaidOut(a)
  <2>1. a \in DOMAIN nexts
    <3>1. PICK k \in DOMAIN AtomRange : AtomRange[k] = a
      BY Positions
    <3> QED BY <1>4, <3>1 DEF LayoutInv, LookedInv, Looked, Building
  <2> QED BY <1>1, <1>3, <2>1, TargetIsMet
<1> QED BY <1>3, <1>4

-----------------------------------------------------------------------------
(***************************************************************************)
(* What is kept: that the links lead where the references ask.             *)
(***************************************************************************)

LEMMA FairStays == ASSUME UNCHANGED input, Fair' PROVE Fair
  BY DEF Fair, Shared, Before, input

LEMMA LineSame ==
  ASSUME NEW f, NEW g, Line(f), DOMAIN g = DOMAIN f, \A x \in DOMAIN f : g[x] = f[x]
  PROVE  Line(g)
  BY DEF Line

LEMMA LineStays ==
  ASSUME UNCHANGED input
  PROVE  (Line(nexts') => Line(nexts)') /\ (Line(Before1') => Line(Before1)')
<1>1. after' = after /\ zero' = zero
  BY DEF input
<1> HIDE DEF Before1
<1> QED BY <1>1 DEF Line, Before

\* Of two atoms with one target each can come first.
LEMMA TwoBefore ==
  ASSUME Fair, NEW a \in Atoms, NEW b \in Atoms, a # b, after[a] = after[b], after[b] \in Atoms
  PROVE  b \in zero /\ Before(b) = {}
<1> DEFINE S == Before(after[b])
<1>1. {a, b} \subseteq S /\ IsFiniteSet(S)
  BY LayoutAssumption, FS_Subset DEF Before
<1> HIDE DEF S
<1>2. Cardinality({a, b}) = 2
  <2>1. IsFiniteSet({a}) /\ Cardinality({a}) = 1
    BY FS_Singleton
  <2>2. {a, b} = {a} \cup {b} /\ b \notin {a}
    OBVIOUS
  <2> HIDE DEF S
  <2>3. Cardinality({a} \cup {b}) = 1 + 1
    BY <2>1, <2>2, FS_AddElement
  <2> QED BY <2>2, <2>3
<1>3. Cardinality(S) \in Nat /\ 2 <= Cardinality(S)
  BY <1>1, <1>2, FS_Subset, FS_CardinalityType
<1>4. after[b] \in Shared
  BY <1>3 DEF Shared, S
<1> QED BY <1>1, <1>4 DEF Fair, S

LEMMA KeptInit == Init => KeptInv
<1> SUFFICES ASSUME Init PROVE KeptInv
  OBVIOUS
<1>1. DOMAIN nexts = {} /\ pc = "reference"
  BY DEF Init
<1> QED BY <1>1 DEF KeptInv, Line, Searching, Building

\* What a step to or from the plain loop over the references has to show.
LEMMA KeptReference ==
  ASSUME UNCHANGED input, pc' = "reference",
         Line(nexts'), \A x \in DOMAIN nexts' : roots'[nexts'[x]] = roots'[x]
  PROVE  KeptInv'
<1>1. Line(nexts)'
  BY LineStays
<1> QED BY <1>1 DEF KeptInv, Searching, Building

LEMMA NoReferenceKept == LayoutInv /\ KeptInv /\ NoReference => KeptInv'
<1> SUFFICES ASSUME LayoutInv, KeptInv, NoReference, Fair' PROVE KeptInv'
  BY DEF KeptInv
<1>1. /\ pc = "reference" /\ pc' = "reference" /\ UNCHANGED input
      /\ nexts' = nexts /\ roots' = roots
  BY DEF NoReference, Referring, ToNextAtom
<1>2. Line(nexts) /\ \A x \in DOMAIN nexts : roots[nexts[x]] = roots[x]
  BY <1>1, FairStays DEF KeptInv, Searching
<1> QED BY <1>1, <1>2, KeptReference

\* What is known of the links when an atom with a target comes up.
LEMMA KeptLinking ==
  ASSUME LayoutInv, KeptInv, Fair, Referring, target # NoAtom
  PROVE  /\ Line(nexts) /\ \A x \in DOMAIN nexts : nexts[x] \in DOMAIN roots
         /\ \A x \in DOMAIN nexts : Rooted[nexts[x]] = Rooted[x]
         /\ \A x \in DOMAIN nexts : x # atom /\ Linked[x] = nexts[x]
<1>1. pc = "reference" /\ atom \notin DOMAIN nexts /\ Within(nexts, Linked)
  BY Linking
<1>2. Line(nexts) /\ \A x \in DOMAIN nexts : roots[nexts[x]] = roots[x]
  BY <1>1 DEF KeptInv, Searching
<1>3. \A x \in DOMAIN nexts : x \in DOMAIN roots /\ nexts[x] \in DOMAIN roots
  BY <1>1 DEF LayoutInv, Forest, Searching
<1>4. \A x \in DOMAIN roots : Rooted[x] = roots[x]
  BY DEF Rooted, Put
<1> HIDE DEF Linked, Rooted
<1> QED BY <1>1, <1>2, <1>3, <1>4 DEF Within

\* Linking the atom to a target that nothing leads to keeps the line.
LEMMA LineGrows ==
  ASSUME NEW f, Line(f), NEW g, NEW a, a \notin DOMAIN f,
         DOMAIN g = DOMAIN f \cup {a}, g[a] = after[a],
         \A x \in DOMAIN f : g[x] = f[x] /\ f[x] # after[a]
  PROVE  Line(g)
<1>1. \A x, y \in DOMAIN g : g[x] = g[y] => x = y
  BY DEF Line
<1>2. \A x \in DOMAIN g :
        \/ g[x] = after[x]
        \/ g[x] \in zero /\ Before(g[x]) = {} /\ g[x] \in DOMAIN g /\ after[g[x]] = after[x]
  BY DEF Line
<1> QED BY <1>1, <1>2 DEF Line

LEMMA NewTargetKept == LayoutInv /\ KeptInv /\ NewTarget => KeptInv'
<1> SUFFICES ASSUME LayoutInv, KeptInv, NewTarget, Fair' PROVE KeptInv'
  BY DEF KeptInv
<1>1. /\ Referring /\ target # NoAtom /\ target \notin DOMAIN Rooted
      /\ nexts' = Linked /\ roots' = Put(Rooted, target, Rooted[atom])
      /\ pc' = "reference" /\ UNCHANGED input
  BY DEF NewTarget, ToNextAtom
<1>2. Fair
  BY <1>1, FairStays
<1>3. /\ atom \notin DOMAIN nexts /\ atom # target /\ atom \in DOMAIN Rooted
      /\ Forest(nexts, Rooted)
      /\ DOMAIN Linked = DOMAIN nexts \cup {atom} /\ Linked[atom] = target
  BY <1>1, Linking
<1>4. /\ Line(nexts) /\ \A x \in DOMAIN nexts : Rooted[nexts[x]] = Rooted[x]
      /\ \A x \in DOMAIN nexts : x # atom /\ Linked[x] = nexts[x]
  BY <1>1, <1>2, KeptLinking
<1>5. \A x \in DOMAIN nexts : x \in DOMAIN Rooted /\ nexts[x] \in DOMAIN Rooted
  BY <1>3 DEF Forest
<1> HIDE DEF Linked, Rooted
<1>6. Line(nexts')
  BY <1>1, <1>3, <1>4, <1>5, LineGrows DEF target
<1>7. /\ roots'[target] = Rooted[atom]
      /\ \A x \in DOMAIN Rooted : roots'[x] = Rooted[x]
  BY <1>1 DEF Put
<1>8. \A x \in DOMAIN nexts' : roots'[nexts'[x]] = roots'[x]
  BY <1>1, <1>3, <1>4, <1>5, <1>7
<1> QED BY <1>1, <1>6, <1>8, KeptReference

LEMMA RootTargetKept == LayoutInv /\ KeptInv /\ RootTarget => KeptInv'
<1> SUFFICES ASSUME LayoutInv, KeptInv, RootTarget, Fair' PROVE KeptInv'
  BY DEF KeptInv
<1>1. /\ Referring /\ target \in DOMAIN Rooted /\ Rooted[target] = target
      /\ nexts' = Linked /\ roots' = Rooted /\ cursor' = target /\ root' = Rooted[atom]
      /\ pc' = "setChainRoot" /\ UNCHANGED input
  BY DEF RootTarget
<1>2. Fair /\ target # NoAtom
  BY <1>1, FairStays, TargetKnown
<1>3. /\ atom \notin DOMAIN nexts /\ Forest(nexts, Rooted)
      /\ DOMAIN Linked = DOMAIN nexts \cup {atom} /\ Linked[atom] = target
  BY <1>1, <1>2, Linking
<1>4. /\ Line(nexts) /\ \A x \in DOMAIN nexts : Rooted[nexts[x]] = Rooted[x]
      /\ \A x \in DOMAIN nexts : x # atom /\ Linked[x] = nexts[x]
  BY <1>1, <1>2, KeptLinking
<1> HIDE DEF Linked, Rooted
<1>5. \A x \in DOMAIN nexts : nexts[x] # target
  BY <1>1, <1>3 DEF Forest
<1>6. Line(nexts)'
  <2>1. Line(nexts')
    BY <1>1, <1>3, <1>4, <1>5, LineGrows DEF target
  <2> QED BY <1>1, <2>1, LineStays
<1>7. \A x \in DOMAIN nexts' : IF nexts'[x] = cursor' THEN roots'[x] = root'
                               ELSE roots'[nexts'[x]] = roots'[x]
  BY <1>1, <1>3, <1>4, <1>5
<1> QED BY <1>1, <1>6, <1>7 DEF KeptInv, Searching, Building

\* An atom that shares its target with the one before that goes in between.
LEMMA InnerTargetKept == LayoutInv /\ KeptInv /\ InnerTarget => KeptInv'
<1> SUFFICES ASSUME LayoutInv, KeptInv, InnerTarget, Fair' PROVE KeptInv'
  BY DEF KeptInv
<1>1. /\ Referring /\ target \in DOMAIN Rooted /\ Rooted[target] # target
      /\ nexts' = Linked /\ roots' = Rooted
      /\ pc' = IF atom \in zero THEN "findAtomFollowedBy" ELSE "checkAllPrevAtomsZeroSize"
      /\ UNCHANGED <<input, index>>
  BY DEF InnerTarget
<1>2. Fair /\ target # NoAtom /\ atom' = atom
  BY <1>1, FairStays, TargetKnown DEF atom
<1>3. /\ atom \notin DOMAIN nexts /\ atom \in Atoms /\ target \in Atoms /\ Forest(nexts, Rooted)
      /\ DOMAIN Linked = DOMAIN nexts \cup {atom}
  BY <1>1, <1>2, Linking
<1>4. /\ Line(nexts) /\ \A x \in DOMAIN nexts : Rooted[nexts[x]] = Rooted[x]
      /\ \A x \in DOMAIN nexts : x # atom /\ Linked[x] = nexts[x]
  BY <1>1, <1>2, KeptLinking
<1> HIDE DEF Linked, Rooted
<1>5. atom \in zero
  <2>1. /\ Subset(nexts, Atoms) /\ Reaches(nexts, Rooted[target], target)
        /\ Rooted[target] \in Atoms
    BY <1>1, <1>3 DEF Forest, Subset
  <2>2. PICK x \in DOMAIN nexts : nexts[x] = target
    BY <1>1, <2>1, ReachLast
  <2>3. atom \in Before(target)
    BY <1>3 DEF Before, target
  <2>4. after[x] = target
    BY <1>4, <2>2, <2>3 DEF Line
  <2>5. x \in Atoms /\ x # atom /\ after[x] = after[atom] /\ after[atom] \in Atoms
    BY <1>3, <2>1, <2>2, <2>4 DEF Subset, target
  <2> QED BY <1>2, <1>3, <2>5, TwoBefore
<1>6. pc' = "findAtomFollowedBy"
  BY <1>1, <1>5
<1>7. DOMAIN Before1' = DOMAIN nexts /\ \A x \in DOMAIN nexts : Before1'[x] = nexts[x]
  BY <1>1, <1>2, <1>3, <1>4 DEF Before1, Without
<1> HIDE DEF Before1
<1>8. Line(Before1)'
  <2>1. Line(Before1')
    BY <1>4, <1>7, LineSame
  <2> QED BY <1>1, <2>1, LineStays
<1>9. \A x \in DOMAIN Before1' : roots'[Before1'[x]] = roots'[x]
  BY <1>1, <1>4, <1>7
<1> QED BY <1>6, <1>8, <1>9 DEF KeptInv, Searching, Building

LEMMA FindAtomFollowedByKept == LayoutInv /\ KeptInv /\ FindAtomFollowedBy => KeptInv'
<1> SUFFICES ASSUME LayoutInv, KeptInv, FindAtomFollowedBy, Fair' PROVE KeptInv'
  BY DEF KeptInv
<1>1. /\ pc = "findAtomFollowedBy" /\ pc \in Searching /\ UNCHANGED input
  BY DEF FindAtomFollowedBy, Searching
<1>2. Fair /\ cursor # target /\ after' = after
  BY <1>1, FairStays DEF LayoutInv, SearchInv, input
<1>3. /\ index \in DOMAIN AtomRange
      /\ atom \notin DOMAIN Before1 /\ atom \in DOMAIN nexts
      /\ DOMAIN Before1 = DOMAIN nexts \ {atom}
      /\ \A x \in DOMAIN Before1 : Before1[x] = nexts[x]
      /\ Subset(Before1, Atoms) /\ atom \in DOMAIN roots
      /\ nexts[atom] = target /\ target # atom /\ target \in DOMAIN roots
      /\ cursor \in DOMAIN Before1
      /\ DOMAIN Before1 \subseteq DOMAIN roots
  BY <1>1, <1>2, SearchFacts, SearchGoesOn DEF Forest
<1>4. Line(Before1) /\ \A x \in DOMAIN Before1 : roots[Before1[x]] = roots[x]
  BY <1>1, <1>2 DEF KeptInv
<1>5. CASE nexts[cursor] # target
  <2>1. pc' = pc /\ index' = index /\ nexts' = nexts /\ roots' = roots
    BY <1>5 DEF FindAtomFollowedBy
  <2>2. Before1' = Before1
    BY <2>1 DEF Before1, atom
  <2> HIDE DEF Before1
  <2>3. Line(Before1)'
    BY <1>1, <1>4, <2>2, LineStays
  <2> QED BY <1>1, <1>4, <2>1, <2>2, <2>3 DEF KeptInv, Searching, Building
<1>6. CASE nexts[cursor] = target
  <2>1. /\ nexts' = Put(nexts, cursor, atom) /\ roots' = Put(roots, atom, roots[cursor])
        /\ pc' = "reference"
    BY <1>6 DEF FindAtomFollowedBy, ToNextAtom
  <2>2. /\ DOMAIN nexts' = DOMAIN Before1 \cup {atom}
        /\ nexts'[cursor] = atom /\ nexts'[atom] = target
        /\ \A x \in DOMAIN Before1 : x # cursor => nexts'[x] = Before1[x]
    BY <1>3, <2>1 DEF Put
  <2>3. /\ roots'[atom] = roots[cursor]
        /\ \A x \in DOMAIN roots : x # atom => roots'[x] = roots[x]
    BY <2>1 DEF Put
  <2> DEFINE f == Before1
  <2>4. /\ atom \notin DOMAIN f /\ cursor \in DOMAIN f /\ f[cursor] = target
        /\ Line(f) /\ \A x \in DOMAIN f : roots[f[x]] = roots[x]
        /\ Subset(f, Atoms)
    BY <1>3, <1>4, <1>6
  <2> HIDE DEF f
  <2>5. atom \in Atoms /\ cursor \in Atoms /\ target \in Atoms
    BY <1>3, <2>4, Positions DEF atom, Subset
  <2>6. atom \in Before(target)
    BY <2>5 DEF Before, target
  <2>7. after[cursor] = target
    BY <2>4, <2>6 DEF Line
  <2>8. atom \in zero /\ Before(atom) = {}
    <3>1. cursor # atom /\ after[cursor] = after[atom] /\ after[atom] \in Atoms
      BY <2>4, <2>5, <2>7 DEF target
    <3> QED BY <1>2, <2>5, <3>1, TwoBefore
  <2>9. \A x \in DOMAIN f : f[x] # atom
    <3> SUFFICES ASSUME NEW x \in DOMAIN f, f[x] = atom PROVE FALSE
      OBVIOUS
    <3>1. after[x] = atom
      BY <2>4 DEF Line
    <3>2. x \in Before(atom)
      BY <2>4, <3>1 DEF Before, Subset
    <3> QED BY <2>8, <3>2
  <2>10. Line(nexts')
    <3>1. \A x, y \in DOMAIN nexts' : nexts'[x] = nexts'[y] => x = y
      <4>1. \A x, y \in DOMAIN f : f[x] = f[y] => x = y
        BY <2>4 DEF Line
      <4>2. /\ DOMAIN nexts' = DOMAIN f \cup {atom}
            /\ \A x \in DOMAIN f : x # cursor => nexts'[x] = f[x]
        BY <2>2 DEF f
      <4> QED BY <1>3, <2>2, <2>4, <2>9, <4>1, <4>2
    <3>2. ASSUME NEW x \in DOMAIN nexts'
          PROVE  \/ nexts'[x] = after[x]
                 \/ /\ nexts'[x] \in zero /\ Before(nexts'[x]) = {}
                    /\ nexts'[x] \in DOMAIN nexts' /\ after[nexts'[x]] = after[x]
      <4>1. CASE x = atom
        BY <2>2, <4>1 DEF target
      <4>2. CASE x = cursor
        BY <2>2, <2>7, <2>8, <4>2 DEF target
      <4>3. CASE x \in DOMAIN f /\ x # cursor
        <5>1. nexts'[x] = f[x] /\ DOMAIN f \subseteq DOMAIN nexts'
          BY <2>2, <4>3 DEF f
        <5> QED BY <2>4, <4>3, <5>1 DEF Line
      <4> QED BY <2>2, <4>1, <4>2, <4>3 DEF f
    <3> QED BY <3>1, <3>2 DEF Line
  <2>11. \A x \in DOMAIN nexts' : roots'[nexts'[x]] = roots'[x]
    <3>1. \A x \in DOMAIN f : x # atom /\ x \in DOMAIN roots /\ roots'[x] = roots[x]
      BY <1>3, <2>3 DEF f
    <3>2. \A x \in DOMAIN f : f[x] \in DOMAIN roots
      BY <1>1, SearchFacts DEF Forest, f
    <3>3. roots'[target] = roots[cursor]
      BY <1>3, <2>3, <2>4
    <3> QED BY <2>2, <2>3, <2>4, <2>9, <3>1, <3>2, <3>3 DEF f
  <2> QED BY <1>1, <2>1, <2>10, <2>11, KeptReference
<1> QED BY <1>5, <1>6

\* The head of a chain is looked at only for a target that not all can come before.
LEMMA NeverChecked ==
  ASSUME KeptInv, UNCHANGED input, pc = "checkAllPrevAtomsZeroSize"
  PROVE  KeptInv'
<1> SUFFICES ASSUME Fair' PROVE FALSE
  BY DEF KeptInv
<1> QED BY FairStays DEF KeptInv

LEMMA SetChainRootKept == LayoutInv /\ KeptInv /\ SetChainRoot => KeptInv'
<1> SUFFICES ASSUME LayoutInv, KeptInv, SetChainRoot, Fair' PROVE KeptInv'
  BY DEF KeptInv
<1>1. /\ pc = "setChainRoot" /\ UNCHANGED input
      /\ roots' = Put(roots, cursor, root) /\ root' = root /\ nexts' = nexts
      /\ \/ cursor \in DOMAIN nexts /\ cursor' = nexts[cursor] /\ pc' = "setChainRoot"
         \/ cursor \notin DOMAIN nexts /\ pc' = "reference"
  BY DEF SetChainRoot, ToNextAtom
<1>2. Fair
  BY <1>1, FairStays
<1>3. /\ Line(nexts)
      /\ \A x \in DOMAIN nexts : IF nexts[x] = cursor THEN roots[x] = root
                                 ELSE roots[nexts[x]] = roots[x]
  BY <1>1, <1>2 DEF KeptInv, Searching
<1>4. cursor \in DOMAIN nexts => nexts[cursor] # cursor
  BY NextsArePending, NoWayBack, ReachSelf DEF LayoutInv
<1>5. /\ roots'[cursor] = root
      /\ \A x \in DOMAIN roots : x # cursor => roots'[x] = roots[x]
  BY <1>1 DEF Put
<1>6. \A x \in DOMAIN nexts : x \in DOMAIN roots /\ nexts[x] \in DOMAIN roots
  BY <1>1 DEF LayoutInv, RootInv
<1>7. \A x \in DOMAIN nexts : x # cursor => roots'[nexts[x]] = roots'[x]
  BY <1>3, <1>5, <1>6
<1>8. Line(nexts)'
  BY <1>1, <1>3, LineStays
<1>9. CASE cursor \in DOMAIN nexts
  <2>1. cursor' = nexts[cursor] /\ pc' = "setChainRoot"
    BY <1>1, <1>9
  <2>2. \A x \in DOMAIN nexts : nexts[x] = cursor' => x = cursor
    BY <1>3, <1>9, <2>1 DEF Line
  <2>3. \A x \in DOMAIN nexts : IF nexts[x] = cursor' THEN roots'[x] = root
                                ELSE roots'[nexts[x]] = roots'[x]
    BY <1>5, <1>7, <2>1, <2>2
  <2> QED BY <1>1, <1>8, <2>1, <2>3 DEF KeptInv, Searching, Building
<1>10. CASE cursor \notin DOMAIN nexts
  BY <1>1, <1>7, <1>8, <1>10 DEF KeptInv, Searching, Building
<1> QED BY <1>9, <1>10

LEMMA TablesBuiltKept == LayoutInv /\ KeptInv /\ TablesBuilt => KeptInv'
<1> SUFFICES ASSUME LayoutInv, KeptInv, TablesBuilt, Fair' PROVE KeptInv'
  BY DEF KeptInv
<1>1. /\ pc = "reference" /\ pc' = "ordinal"
      /\ UNCHANGED <<input, cursor, nexts, roots, override>>
  BY DEF TablesBuilt
<1>2. DOMAIN override = {}
  BY <1>1 DEF LayoutInv, OrdinalInv, Building
<1>3. Line(nexts) /\ \A x \in DOMAIN nexts : roots[nexts[x]] = roots[x]
  BY <1>1, FairStays DEF KeptInv, Searching
<1>4. Line(nexts)'
  BY <1>1, <1>3, LineStays
<1>5. CountInv'
  BY <1>1, <1>2 DEF CountInv
<1> QED BY <1>1, <1>3, <1>4, <1>5 DEF KeptInv, Searching

\* The links stay as they are.
LEMMA KeptOrdinal ==
  ASSUME LayoutInv, KeptInv, pc \notin Building, pc' \in {"ordinal", "chain", "sorted"},
         UNCHANGED <<input, nexts, roots>>, Fair' => CountInv'
  PROVE  KeptInv'
<1> SUFFICES ASSUME Fair' PROVE KeptInv'
  BY DEF KeptInv
<1>1. Line(nexts) /\ \A x \in DOMAIN nexts : roots[nexts[x]] = roots[x]
  BY FairStays DEF KeptInv, Searching, Building
<1>2. Line(nexts)'
  BY <1>1, LineStays
<1> QED BY <1>1, <1>2 DEF KeptInv, Searching

LEMMA SkipAndSortKept == LayoutInv /\ KeptInv /\ (SkipAtom \/ Sort) => KeptInv'
<1> SUFFICES ASSUME LayoutInv, KeptInv, SkipAtom \/ Sort PROVE KeptInv'
  OBVIOUS
<1>1. /\ pc = "ordinal" /\ pc \notin Building /\ pc' \in {"ordinal", "sorted"}
      /\ UNCHANGED <<input, cursor, nexts, roots, override>>
  BY DEF SkipAtom, Sort, Building
<1>2. Fair' => CountInv'
  <2> SUFFICES ASSUME Fair' PROVE CountInv'
    OBVIOUS
  <2>1. CountInv
    BY <1>1, FairStays DEF KeptInv
  <2> QED BY <1>1, <2>1 DEF CountInv
<1> QED BY <1>1, <1>2, KeptOrdinal

\* A chain is walked once, from its root.
LEMMA StartChainKept == LayoutInv /\ KeptInv /\ StartChain => KeptInv'
<1> SUFFICES ASSUME LayoutInv, KeptInv, StartChain PROVE KeptInv'
  OBVIOUS
<1>1. /\ pc = "ordinal" /\ pc \notin Building /\ pc' = "chain"
      /\ cursor' = roots[atom] /\ atom \in DOMAIN roots /\ atom \notin DOMAIN override
      /\ UNCHANGED <<input, nexts, roots, override>>
  BY DEF StartChain, Building
<1>2. Fair' => CountInv'
  <2> SUFFICES ASSUME Fair' PROVE CountInv'
    OBVIOUS
  <2>1. CountInv
    BY <1>1, FairStays DEF KeptInv
  <2>2. Forest(nexts, roots)
    BY <1>1 DEF LayoutInv, Searching
  <2>3. roots[atom] \notin DOMAIN override
    <3> SUFFICES ASSUME roots[atom] \in DOMAIN override PROVE FALSE
      OBVIOUS
    <3>1. Closed(nexts, DOMAIN override)
      BY <1>1, <2>1 DEF CountInv, Closed
    <3>2. DOMAIN override \in SUBSET Atoms
      BY <1>1, Ordinals
    <3>3. Reaches(nexts, roots[atom], atom)
      BY <1>1, <2>2 DEF Forest
    <3> QED BY <1>1, <3>1, <3>2, <3>3 DEF Reaches
  <2>4. \A x \in DOMAIN nexts : nexts[x] # roots[atom]
    BY <1>1, <2>2 DEF Forest
  <2> QED BY <1>1, <2>1, <2>3, <2>4 DEF CountInv
<1> QED BY <1>1, <1>2, KeptOrdinal

LEMMA WalkChainKept == LayoutInv /\ KeptInv /\ WalkChain => KeptInv'
<1> SUFFICES ASSUME LayoutInv, KeptInv, WalkChain PROVE KeptInv'
  OBVIOUS
<1>1. /\ pc = "chain" /\ pc \notin Building /\ pc' \in {"ordinal", "chain"}
      /\ UNCHANGED <<input, nexts, roots>>
      /\ \/ cursor \in DOMAIN nexts /\ cursor' = nexts[cursor] /\ pc' = "chain"
         \/ cursor \notin DOMAIN nexts /\ pc' = "ordinal"
  BY DEF WalkChain, Building
<1>2. Fair' => CountInv'
  <2> SUFFICES ASSUME Fair' PROVE CountInv'
    OBVIOUS
  <2> DEFINE n == Cardinality(DOMAIN override)
  <2>1. Fair /\ CountInv
    BY <1>1, FairStays DEF KeptInv
  <2>2. /\ cursor \notin DOMAIN override
        /\ \A x \in DOMAIN nexts : nexts[x] = cursor => x \in DOMAIN override /\ override[x] + 1 = n
    BY <1>1, <2>1 DEF CountInv
  <2>3. /\ \A x \in DOMAIN nexts : nexts[x] \in DOMAIN override =>
             x \in DOMAIN override /\ override[nexts[x]] = override[x] + 1
        /\ \A x \in DOMAIN nexts : x \in DOMAIN override =>
             nexts[x] \in DOMAIN override \/ nexts[x] = cursor
    BY <2>1 DEF CountInv
  <2>4. /\ DOMAIN override' = DOMAIN override \cup {cursor}
        /\ \A a \in DOMAIN override : override'[a] = override[a]
        /\ override'[cursor] = n /\ Cardinality(DOMAIN override') = n + 1
    BY <2>2, Walked
  <2> HIDE DEF n
  <2>5. \A x \in DOMAIN nexts : nexts[x] \in DOMAIN override' =>
          x \in DOMAIN override' /\ override'[nexts[x]] = override'[x] + 1
    BY <2>2, <2>3, <2>4
  <2>6. \A x \in DOMAIN nexts : x \in DOMAIN override' =>
          nexts[x] \in DOMAIN override' \/ (pc' = "chain" /\ nexts[x] = cursor')
    BY <1>1, <2>3, <2>4
  <2>7. ASSUME pc' = "chain"
        PROVE  /\ cursor' \notin DOMAIN override'
               /\ \A x \in DOMAIN nexts : nexts[x] = cursor' =>
                    x \in DOMAIN override' /\ override'[x] + 1 = n + 1
    <3>1. cursor \in DOMAIN nexts /\ cursor' = nexts[cursor]
      BY <1>1, <2>7
    <3>2. nexts[cursor] # cursor
      BY <3>1, NextsArePending, NoWayBack, ReachSelf DEF LayoutInv
    <3>3. \A x \in DOMAIN nexts : nexts[x] = cursor' => x = cursor
      BY <1>1, <2>1, <3>1 DEF KeptInv, Line, Searching
    <3> QED BY <2>2, <2>3, <2>4, <3>1, <3>2, <3>3
  <2> QED BY <1>1, <2>4, <2>5, <2>6, <2>7 DEF CountInv
<1> QED BY <1>1, <1>2, KeptOrdinal

LEMMA KeptNext == LayoutInv /\ KeptInv /\ [Next]_vars => KeptInv'
<1> SUFFICES ASSUME LayoutInv, KeptInv, [Next]_vars PROVE KeptInv'
  OBVIOUS
<1>1. CASE NoReference
  BY <1>1, NoReferenceKept
<1>2. CASE NewTarget
  BY <1>2, NewTargetKept
<1>3. CASE RootTarget
  BY <1>3, RootTargetKept
<1>4. CASE InnerTarget
  BY <1>4, InnerTargetKept
<1>5. CASE SetChainRoot
  BY <1>5, SetChainRootKept
<1>6. CASE FindAtomFollowedBy
  BY <1>6, FindAtomFollowedByKept
<1>7. CASE CheckPrevAtom \/ ImpossibleLayout \/ InsertAtHead
  BY <1>7, NeverChecked DEF CheckPrevAtom, ImpossibleLayout, InsertAtHead
<1>8. CASE TablesBuilt
  BY <1>8, TablesBuiltKept
<1>9. CASE SkipAtom \/ Sort
  BY <1>9, SkipAndSortKept
<1>10. CASE StartChain
  BY <1>10, StartChainKept
<1>11. CASE WalkChain
  BY <1>11, WalkChainKept
<1>12. CASE UNCHANGED vars
  <2> SUFFICES ASSUME Fair' PROVE KeptInv'
    BY DEF KeptInv
  <2>1. UNCHANGED <<input, pc, index, cursor, root, nexts, roots, override>>
    BY <1>12 DEF vars, input
  <2>2. Fair /\ Before1' = Before1
    BY <2>1, FairStays DEF Before1, atom
  <2>3. Line(nexts) => Line(nexts)'
    BY <2>1, LineStays
  <2>4. Line(Before1) => Line(Before1)'
    BY <2>1, <2>2, LineStays
  <2>5. CountInv => CountInv'
    BY <2>1 DEF CountInv
  <2> HIDE DEF Before1
  <2> QED BY <2>1, <2>2, <2>3, <2>4, <2>5 DEF KeptInv
<1> QED BY <1>1, <1>2, <1>3, <1>4, <1>5, <1>6, <1>7, <1>8, <1>9, <1>10, <1>11, <1>12 DEF Next, Done

-----------------------------------------------------------------------------
(***************************************************************************)
(* The theorem.                                                            *)
(***************************************************************************)

(* Whatever the references between the atoms, as long as they do not go    *)
(* round: no search of buildFollowOnTable leaves the chain it walks        *)
(* without its target, every root is its own when the tables are built,    *)
(* the order of compareAtoms is one for all atoms, and references that can *)
(* hold together all hold in it.                                           *)
THEOREM LayoutIsRightInEveryLink == Spec => []LayoutIsRight
<1>1. Init => LayoutInv /\ KeptInv
  BY LayoutInit, KeptInit
<1>2. LayoutInv /\ KeptInv /\ [Next]_vars => (LayoutInv /\ KeptInv)'
  BY LayoutNext, KeptNext
<1>3. LayoutInv /\ KeptInv => LayoutIsRight
  <2>1. LayoutInv => TypeOK
    BY DEF LayoutInv
  <2> QED BY <2>1, SearchesFind, OrderIsTotal, KeptAtTheEnd DEF LayoutIsRight
<1> QED BY <1>1, <1>2, <1>3, PTL DEF Spec
=============================================================================
