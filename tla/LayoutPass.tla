----------------------------- MODULE LayoutPass -----------------------------
(***************************************************************************)
(* LayoutPass (lib/ReaderWriter/MachO/LayoutPass.cpp): the atoms of the    *)
(* merged file are sorted, and those that layout-after references join     *)
(* into a chain stay together. One step is one reference, or one turn of   *)
(* an inner loop, so that a loop without an end is a behaviour.            *)
(*                                                                         *)
(* An atom has at most one layout-after reference, as the Mach-O reader    *)
(* makes them. Permissions, content type, custom sorter, file and ordinal  *)
(* of an atom are one number, its rank.                                    *)
(***************************************************************************)
EXTENDS Naturals, Sequences, FiniteSets

CONSTANTS
  Atoms,
  NoAtom,
  AtomRange,   \* the defined atoms, in the order of the merged file
  Inputs   \* the references, sizes and ranks to start from

ASSUME LayoutAssumption ==
  /\ IsFiniteSet(Atoms)
  /\ NoAtom \notin Atoms
  /\ AtomRange \in [1 .. Cardinality(Atoms) -> Atoms]
  /\ \A a \in Atoms : \E i \in DOMAIN AtomRange : AtomRange[i] = a

\* No references go round ("There's a cycle in a follow-on chain!"), and no two
\* atoms rank the same ("Atoms with Same Ordinal!").
ASSUME InputsAssumption ==
  \A i \in Inputs :
    /\ i.after \in [Atoms -> Atoms \cup {NoAtom}]
    /\ \A cycle \in SUBSET Atoms : cycle = {} \/ \E a \in cycle : i.after[a] \notin cycle
    /\ i.rank \in [Atoms -> Nat]
    /\ \A a, b \in Atoms : i.rank[a] = i.rank[b] => a = b

VARIABLES
  after,     \* the target of an atom's layout-after reference
  zero,      \* the atoms of size zero
  rank,      \* of an atom, by permissions, type, file and ordinal
  pc,
  index,     \* into AtomRange
  cursor,    \* of an inner loop
  root,      \* the argument of setChainRoot
  nexts,     \* _followOnNexts
  roots,     \* _followOnRoots
  override   \* _ordinalOverrideMap

vars == <<after, zero, rank, pc, index, cursor, root, nexts, roots, override>>

input == <<after, zero, rank>>

\* m[a] = b, where m is a DenseMap.
Put(m, a, b) == [x \in DOMAIN m \cup {a} |-> IF x = a THEN b ELSE m[x]]

Init ==
  /\ \E i \in Inputs : after = i.after /\ zero = i.zero /\ rank = i.rank
  /\ pc = "reference"
  /\ index = 1
  /\ cursor = NoAtom
  /\ root = NoAtom
  /\ nexts = <<>>
  /\ roots = <<>>
  /\ override = <<>>

-----------------------------------------------------------------------------
(***************************************************************************)
(* buildFollowOnTable                                                      *)
(***************************************************************************)

atom == AtomRange[index]
target == after[atom]

\* _followOnNexts[ai] = targetAtom, and an atom first seen is its own root.
Linked == Put(nexts, atom, target)
Rooted == IF atom \in DOMAIN roots THEN roots ELSE Put(roots, atom, atom)

Referring == pc = "reference" /\ index <= Len(AtomRange)

ToNextAtom == pc' = "reference" /\ index' = index + 1

NoReference ==
  /\ Referring
  /\ target = NoAtom
  /\ ToNextAtom
  /\ UNCHANGED <<input, cursor, root, nexts, roots, override>>

\* The target becomes part of this chain.
NewTarget ==
  /\ Referring
  /\ target # NoAtom
  /\ target \notin DOMAIN Rooted
  /\ nexts' = Linked
  /\ roots' = Put(Rooted, target, Rooted[atom])
  /\ ToNextAtom
  /\ UNCHANGED <<input, cursor, root, override>>

\* The target is the root of a chain, which becomes part of this one.
RootTarget ==
  /\ Referring
  /\ target \in DOMAIN Rooted
  /\ Rooted[target] = target
  /\ nexts' = Linked
  /\ roots' = Rooted
  /\ cursor' = target
  /\ root' = Rooted[atom]
  /\ pc' = "setChainRoot"
  /\ UNCHANGED <<input, index, override>>

\* Mutant: the search starts at the target, not at the root of its chain.
InnerTargetFromTarget ==
  /\ Referring
  /\ target \in DOMAIN Rooted
  /\ Rooted[target] # target
  /\ nexts' = Linked
  /\ roots' = Rooted
  /\ cursor' = target
  /\ pc' = IF atom \in zero THEN "findAtomFollowedBy" ELSE "checkAllPrevAtomsZeroSize"
  /\ UNCHANGED <<input, index, root, override>>

\* The target is inside a chain: an atom of size zero goes right before it, and
\* any other at the head of the chain, if that starts with atoms of size zero.
InnerTarget ==
  /\ Referring
  /\ target \in DOMAIN Rooted
  /\ Rooted[target] # target
  /\ nexts' = Linked
  /\ roots' = Rooted
  /\ cursor' = Rooted[target]
  /\ pc' = IF atom \in zero THEN "findAtomFollowedBy" ELSE "checkAllPrevAtomsZeroSize"
  /\ UNCHANGED <<input, index, root, override>>

\* Mutant: the rest of the chain keeps its root.
SetChainRootOnce ==
  /\ pc = "setChainRoot"
  /\ roots' = Put(roots, cursor, root)
  /\ ToNextAtom
  /\ UNCHANGED <<input, cursor, root, nexts, override>>

SetChainRoot ==
  /\ pc = "setChainRoot"
  /\ roots' = Put(roots, cursor, root)
  /\ IF cursor \in DOMAIN nexts
       THEN /\ cursor' = nexts[cursor]
            /\ UNCHANGED <<pc, index>>
       ELSE /\ UNCHANGED cursor
            /\ ToNextAtom
  /\ UNCHANGED <<input, root, nexts, override>>

\* Mutant: the atom is inserted after the target.
FindAtomInsertsAfter ==
  /\ pc = "findAtomFollowedBy"
  /\ cursor \in DOMAIN nexts
  /\ IF nexts[cursor] = target
       THEN /\ nexts' = Put(nexts, target, atom)
            /\ roots' = Put(roots, atom, roots[cursor])
            /\ ToNextAtom
            /\ UNCHANGED cursor
       ELSE /\ cursor' = nexts[cursor]
            /\ UNCHANGED <<pc, index, nexts, roots>>
  /\ UNCHANGED <<input, root, override>>

\* The assertion that the target is in the chain of its root is the invariant
\* TargetInChain.
FindAtomFollowedBy ==
  /\ pc = "findAtomFollowedBy"
  /\ cursor \in DOMAIN nexts
  /\ IF nexts[cursor] = target
       THEN /\ nexts' = Put(nexts, cursor, atom)
            /\ roots' = Put(roots, atom, roots[cursor])
            /\ ToNextAtom
            /\ UNCHANGED cursor
       ELSE /\ cursor' = nexts[cursor]
            /\ UNCHANGED <<pc, index, nexts, roots>>
  /\ UNCHANGED <<input, root, override>>

CheckPrevAtom ==
  /\ pc = "checkAllPrevAtomsZeroSize"
  /\ cursor # target
  /\ cursor \in zero
  /\ cursor \in DOMAIN nexts
  /\ cursor' = nexts[cursor]
  /\ UNCHANGED <<input, pc, index, root, nexts, roots, override>>

\* The loop over the references of this atom is left; its entry in
\* _followOnNexts stays.
ImpossibleLayout ==
  /\ pc = "checkAllPrevAtomsZeroSize"
  /\ cursor # target
  /\ cursor \notin zero
  /\ ToNextAtom
  /\ UNCHANGED <<input, cursor, root, nexts, roots, override>>

InsertAtHead ==
  /\ pc = "checkAllPrevAtomsZeroSize"
  /\ cursor = target
  /\ nexts' = Put(nexts, atom, roots[target])
  /\ cursor' = roots[target]
  /\ root' = roots[atom]
  /\ pc' = "setChainRoot"
  /\ UNCHANGED <<input, index, roots, override>>

\* Mutant: the second loop starts before the first atom.
TablesBuiltFromZero ==
  /\ pc = "reference" /\ index > Len(AtomRange)
  /\ pc' = "ordinal"
  /\ index' = 0
  /\ UNCHANGED <<input, cursor, root, nexts, roots, override>>

TablesBuilt ==
  /\ pc = "reference" /\ index > Len(AtomRange)
  /\ pc' = "ordinal"
  /\ index' = 1
  /\ UNCHANGED <<input, cursor, root, nexts, roots, override>>

-----------------------------------------------------------------------------
(***************************************************************************)
(* buildOrdinalOverrideMap, and the order that decorate() and compareAtoms *)
(* make of it.                                                             *)
(***************************************************************************)

SkipAtom ==
  /\ pc = "ordinal" /\ index <= Len(AtomRange)
  /\ atom \in DOMAIN override \/ atom \notin DOMAIN roots
  /\ index' = index + 1
  /\ UNCHANGED <<input, pc, cursor, root, nexts, roots, override>>

StartChain ==
  /\ pc = "ordinal" /\ index <= Len(AtomRange)
  /\ atom \notin DOMAIN override /\ atom \in DOMAIN roots
  /\ cursor' = roots[atom]
  /\ pc' = "chain"
  /\ UNCHANGED <<input, index, root, nexts, roots, override>>

\* The map grows by one at a time, so its size is the next ordinal.
WalkChain ==
  /\ pc = "chain"
  /\ override' = IF cursor \in DOMAIN override THEN override
                 ELSE Put(override, cursor, Cardinality(DOMAIN override))
  /\ IF cursor \in DOMAIN nexts
       THEN cursor' = nexts[cursor] /\ UNCHANGED <<pc, index>>
       ELSE cursor' = NoAtom /\ pc' = "ordinal" /\ index' = index + 1
  /\ UNCHANGED <<input, root, nexts, roots>>

Sort ==
  /\ pc = "ordinal" /\ index > Len(AtomRange)
  /\ pc' = "sorted"
  /\ UNCHANGED <<input, index, cursor, root, nexts, roots, override>>

RootOf(a) == IF a \in DOMAIN roots THEN roots[a] ELSE a
OverrideOf(a) == IF a \in DOMAIN override THEN override[a] ELSE 0

\* Mutant: atoms of two chains are compared themselves, not by their roots.
CompareOwnRanks(a, b) ==
  IF RootOf(a) = RootOf(b)
    THEN a # b /\ OverrideOf(a) < OverrideOf(b)
    ELSE rank[a] < rank[b]

CompareAtoms(a, b) ==
  IF RootOf(a) = RootOf(b)
    THEN a # b /\ OverrideOf(a) < OverrideOf(b)
    ELSE rank[RootOf(a)] < rank[RootOf(b)]

\* Where the sorting puts an atom: behind all that compare before it.
Place(a) == Cardinality({b \in Atoms : b = a \/ CompareAtoms(b, a)})

Done == pc = "sorted" /\ UNCHANGED vars

Next ==
  \/ NoReference \/ NewTarget \/ RootTarget \/ InnerTarget
  \/ SetChainRoot \/ FindAtomFollowedBy
  \/ CheckPrevAtom \/ ImpossibleLayout \/ InsertAtHead
  \/ TablesBuilt
  \/ SkipAtom \/ StartChain \/ WalkChain \/ Sort
  \/ Done

Spec == Init /\ [][Next]_vars /\ WF_vars(Next)

-----------------------------------------------------------------------------
(***************************************************************************)
(* Properties.                                                             *)
(***************************************************************************)

Subset(f, S) == DOMAIN f \subseteq S /\ \A a \in DOMAIN f : f[a] \in S

TypeOK ==
  /\ pc \in {"reference", "setChainRoot", "findAtomFollowedBy", "checkAllPrevAtomsZeroSize",
             "ordinal", "chain", "sorted"}
  /\ index \in 1 .. Len(AtomRange) + 1
  /\ cursor \in Atoms \cup {NoAtom}
  /\ root \in Atoms \cup {NoAtom}
  /\ Subset(nexts, Atoms)
  /\ Subset(roots, Atoms)
  /\ DOMAIN override \subseteq Atoms /\ \A a \in DOMAIN override : override[a] \in Nat

\* Both searches of a chain meet the target they look for before the chain ends:
\* "The target atom must be in the chain of its root", the assertions of
\* findAtomFollowedBy and checkAllPrevAtomsZeroSize.
TargetInChain ==
  /\ pc = "findAtomFollowedBy" => cursor \in DOMAIN nexts
  /\ pc = "checkAllPrevAtomsZeroSize" => cursor = target \/ cursor \in DOMAIN nexts

\* When the tables are built every root is its own root, so that two atoms of a
\* chain are compared by their place in it (checkReachabilityFromRoot).
RootIsItsOwn ==
  pc = "ordinal" =>
    \A a \in DOMAIN roots : roots[a] \in DOMAIN roots /\ roots[roots[a]] = roots[a]

\* The comparison that the atoms are sorted by orders any two of them in one way,
\* and the places in the output agree with it, neighbours or not
\* (checkTransitivity).
TotalOrder ==
  pc = "sorted" =>
    \A a, b \in Atoms : a # b =>
      /\ CompareAtoms(a, b) <=> ~CompareAtoms(b, a)
      /\ CompareAtoms(a, b) => Place(a) < Place(b)

Before(a) == {b \in Atoms : after[b] = a}

Shared == {a \in Atoms : Cardinality(Before(a)) > 1}

\* a comes before the atom it was laid out before, and only atoms of size zero
\* come between.
LaidOut(a) ==
  /\ Place(a) < Place(after[a])
  /\ \A b \in Atoms : Place(a) < Place(b) /\ Place(b) < Place(after[a]) => b \in zero

\* If the atoms that share a target are of size zero and start their chains, then
\* every reference holds in the output, and so does every entry of
\* _followOnNexts: "X will be located immediately before Y" (LayoutPass.h).
LayoutKept ==
  pc = "sorted" /\ (\A a \in Shared : \A b \in Before(a) : b \in zero /\ Before(b) = {}) =>
    /\ \A a \in Atoms : after[a] # NoAtom => LaidOut(a)
    /\ \A a \in DOMAIN nexts : Place(nexts[a]) = Place(a) + 1

\* The tables stay chains while they are joined, every search of one ends at what
\* it looks for, and the sorted atoms are in the order that the references ask
\* for.
LayoutIsRight == TypeOK /\ TargetInChain /\ RootIsItsOwn /\ TotalOrder /\ LayoutKept

\* The pass comes to an end: no chain is walked round and round.
Termination == <>(pc = "sorted")
=============================================================================
