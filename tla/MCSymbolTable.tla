--------------------------- MODULE MCSymbolTable ---------------------------
(***************************************************************************)
(* Instances of SymbolTable for TLC. A behaviour draws its atoms from one   *)
(* pool, built from a small set of attributes, in any order; bound limits  *)
(* how many atoms of the pool it adds.                                     *)
(***************************************************************************)
EXTENDS SymbolTable

CONSTANT Pools
VARIABLE pool

Atom(definition, name, file) ==
  [definition |-> definition, name |-> name, scope |-> "global",
   merge |-> "no", size |-> 0, canBeNull |-> 0, fallback |-> NoAtom,
   content |-> "c1", readOnly |-> TRUE, file |-> file, group |-> "none"]

Regular(name, merge, size, file) ==
  [Atom("regular", name, file) EXCEPT !.merge = merge, !.size = size]

Undefined(name, canBeNull, file) ==
  [Atom("undefined", name, file) EXCEPT !.canBeNull = canBeNull]

WeakExternal(name, fallbackName, file) ==
  [Undefined(name, 0, file) EXCEPT !.fallback = Undefined(fallbackName, 0, file)]

\* One name, every kind of definition and every merge attribute, two sizes.
MergeAtoms ==
  {Regular("x", m, 1, 1) : m \in Merges \ {"byContent"}}
  \cup {Regular("x", m, 2, 2) : m \in {"no", "tentative", "sameNameAndSize", "largest"}}
  \cup {Undefined("x", c, 1) : c \in 0 .. 2}
  \cup {Undefined("x", c, 9) : c \in 0 .. 1}
  \cup {Atom("sharedLibrary", "x", f) : f \in 8 .. 9}
  \cup {Atom("absolute", "x", 1)}

\* Weak externals whose fallbacks lead from foo to bar to baz, with definitions
\* and a shared library atom to resolve them.
FallbackAtoms ==
  UNION {{WeakExternal("foo", "bar", f), Undefined("bar", 0, f)} : f \in 1 .. 2}
  \cup {WeakExternal("bar", "baz", 1), Undefined("baz", 0, 1)}
  \cup {Undefined("foo", 1, 3), Regular("foo", "weak", 0, 1),
        Regular("bar", "no", 0, 1), Atom("sharedLibrary", "baz", 9), Undefined("foo", 0, 9)}

\* Group parents, mergeable constants and file-static atoms beside global ones.
OtherAtoms ==
  {[Regular("x", "no", 0, f) EXCEPT !.group = g] :
     f \in 1 .. 2, g \in {"groupComdat", "gnuLinkOnce"}}
  \cup {[Regular(NoName, "byContent", 0, f) EXCEPT !.content = c, !.readOnly = r] :
          f \in 1 .. 2, c \in {"c1", "c2"}, r \in BOOLEAN}
  \cup {[Regular("x", "no", 0, f) EXCEPT !.scope = "translationUnit"] : f \in 1 .. 2}
  \cup {Regular("x", "weak", 0, 1), Regular("x", "no", 0, 1)}

\* Two files whose weak externals name each other's fallback.
MutualFallbackAtoms ==
  {WeakExternal("foo", "bar", 1), Undefined("bar", 0, 1),
   WeakExternal("bar", "foo", 2), Undefined("foo", 0, 2)}

PoolOf(atoms, bound, duplicates) ==
  [atoms |-> atoms, bound |-> bound, duplicates |-> duplicates]

MergePools == {PoolOf(MergeAtoms, 4, FALSE), PoolOf(MergeAtoms, 3, TRUE)}
ChainPools == {PoolOf(FallbackAtoms, 10, FALSE)}
OtherPools == {PoolOf(OtherAtoms, 5, FALSE)}
AllPools == MergePools \cup ChainPools \cup OtherPools
CyclePools == {PoolOf(MutualFallbackAtoms, 4, FALSE)}

EveryAtom == MergeAtoms \cup FallbackAtoms \cup OtherAtoms \cup MutualFallbackAtoms

MCInit ==
  /\ Init
  /\ pool \in Pools
  /\ allowDuplicates = pool.duplicates

MayDraw(a) == Cardinality(added \cup {a}) <= pool.bound

MCNext ==
  /\ UNCHANGED <<pool, allowDuplicates>>
  /\ \E a \in pool.atoms : MayDraw(a) /\ ( \/ AddByName(a)
                                          \/ AddByContent(a)
                                          \/ AddUntracked(a)
                                          \/ AddGroup(a)
                                          \/ AddReplacement(a) )

MCSpec == MCInit /\ [][MCNext]_<<vars, pool>>
=============================================================================
