------------------------- MODULE SymbolTableProofs -------------------------
(***************************************************************************)
(* Proofs about the symbol table, for every set of atoms.                  *)
(***************************************************************************)
EXTENDS SymbolTable, Iteration

\* An atom that goes to the name table has a name (the assertion of addByName,
\* SymbolTable.cpp:138).
LEMMA NamedAtom ==
  ASSUME NEW a \in Atoms, GoesByName(a)
  PROVE  a.name \in Names
  BY SymbolTableAssumption DEF AtomAssumption, AtomType, GoesByName

\* So has a group parent (the assertion of addGroup, SymbolTable.cpp:67).
LEMMA NamedGroup ==
  ASSUME NEW a \in Atoms, a.group # "none"
  PROVE  a.name \in Names
  BY SymbolTableAssumption DEF AtomAssumption

\* The empty tables are well typed.
LEMMA InitTypeOK == Init => TypeOK
  BY SymbolTableAssumption DEF Init, TypeOK, IsCoalescedAway

\* addByName keeps the tables well typed.
LEMMA AddByNameTypeOK ==
  ASSUME TypeOK, NEW a \in Atoms, AddByName(a), UNCHANGED allowDuplicates
  PROVE  TypeOK'
<1> DEFINE existing == nameTable[a.name]
<1>1. a.name \in Names
  BY NamedAtom DEF AddByName
<1>2. /\ added' = added \cup {a}
      /\ groupTable' = groupTable
      /\ contentTable' = contentTable
  BY DEF AddByName
<1>3. existing \in added \cup {NoAtom}
  BY <1>1 DEF TypeOK
<1>4. CASE AddNewName(a)
  BY <1>1, <1>2, <1>4 DEF TypeOK, AddNewName, IsCoalescedAway
<1>5. CASE AddSameAtom(a) \/ AddConflicting(a)
  BY <1>1, <1>2, <1>5 DEF TypeOK, AddSameAtom, AddConflicting, IsCoalescedAway
<1>6. CASE AddWinner(a)
  <2>1. /\ existing \in added
        /\ nameTable' = [nameTable EXCEPT ![a.name] = a]
        /\ replacedAtoms' = [replacedAtoms EXCEPT ![existing] = a]
        /\ fatal' = fatal
    BY <1>3, <1>6 DEF AddWinner
  <2> QED
    BY <1>1, <1>2, <2>1 DEF TypeOK, IsCoalescedAway
<1>7. CASE AddLoser(a)
  <2>1. /\ existing \in added
        /\ replacedAtoms' = [replacedAtoms EXCEPT ![a] = existing]
        /\ nameTable' = nameTable
        /\ fatal' = fatal
    BY <1>3, <1>7 DEF AddLoser
  <2> QED
    BY <1>1, <1>2, <2>1 DEF TypeOK, IsCoalescedAway
<1> QED
  BY <1>4, <1>5, <1>6, <1>7 DEF AddByName

\* Every other operation keeps them well typed.
LEMMA OtherTypeOK ==
  ASSUME TypeOK, NEW a \in Atoms, UNCHANGED allowDuplicates,
         AddByContent(a) \/ AddUntracked(a) \/ AddGroup(a) \/ AddReplacement(a)
  PROVE  TypeOK'
<1>1. CASE AddByContent(a)
  <2>1. a.content \in Contents
    BY SymbolTableAssumption DEF AtomAssumption, AtomType
  <2> QED
    BY <1>1, <2>1 DEF TypeOK, AddByContent, IsCoalescedAway
<1>2. CASE AddUntracked(a)
  BY <1>2 DEF TypeOK, AddUntracked, IsCoalescedAway
<1>3. CASE AddGroup(a)
  <2>1. a.name \in Names
    BY <1>3, NamedGroup DEF AddGroup
  <2> QED
    BY <1>3, <2>1 DEF TypeOK, AddGroup, IsCoalescedAway
<1>4. CASE AddReplacement(a)
  BY <1>4 DEF TypeOK, AddReplacement, IsCoalescedAway
<1> QED
  BY <1>1, <1>2, <1>3, <1>4

LEMMA NextTypeOK ==
  ASSUME TypeOK, [Next]_vars
  PROVE  TypeOK'
<1>1. CASE UNCHANGED vars
  BY <1>1 DEF TypeOK, vars, IsCoalescedAway
<1>2. CASE Next
  BY <1>2, AddByNameTypeOK, OtherTypeOK DEF Next
<1> QED
  BY <1>1, <1>2

\* The tables only ever hold atoms that were added, under a key that exists,
\* and no atom is replaced before it was added or by one that was not.
THEOREM TypeCorrect == Spec => []TypeOK
<1>1. Init => TypeOK
  BY InitTypeOK
<1>2. TypeOK /\ [Next]_vars => TypeOK'
  BY NextTypeOK
<1> QED
  BY <1>1, <1>2, PTL DEF Spec

-----------------------------------------------------------------------------
(***************************************************************************)
(* Which atom of a name is kept. The table stands for one of the atoms     *)
(* added under the name, and an undefined atom stands for a name only if   *)
(* all of them are undefined and none is stricter.                         *)
(***************************************************************************)

\* A name has an entry when, and only when, an atom of the name was added.
EntryInv ==
  \A n \in Names : IF nameTable[n] = NoAtom
                     THEN AddedByName(n) = {}
                     ELSE nameTable[n] \in AddedByName(n)

\* An undefined entry says that nothing has defined the name yet.
UndefinedInv ==
  \A n \in Names :
    nameTable[n] # NoAtom /\ nameTable[n].definition = "undefined" =>
      \A a \in AddedByName(n) :
        /\ a.definition = "undefined"
        /\ nameTable[n].canBeNull <= a.canBeNull

\* The entry of a name is replaced only by its own fallback.
FallbackInv ==
  \A n \in Names :
    nameTable[n] # NoAtom /\ IsCoalescedAway(nameTable[n]) =>
      nameTable[n].fallback # NoAtom

NameInv == TypeOK /\ EntryInv /\ UndefinedInv /\ FallbackInv

\* A defined entry is neither replaced by an undefined atom nor in conflict
\* with one.
LEMMA UndefinedLoses ==
  ASSUME NEW existing \in Atoms, existing.definition # "undefined",
         NEW a \in Atoms, a.definition = "undefined"
  PROVE  ~UseNew(existing, a) /\ ~Conflict(existing, a)
<1>1. existing.definition \in {"regular", "absolute", "sharedLibrary"}
  BY SymbolTableAssumption DEF AtomAssumption, AtomType, Definitions
<1>2. Collide[existing.definition][a.definition] = "First"
  BY <1>1 DEF Collide
<1> QED
  BY <1>2 DEF UseNew, Conflict

\* An undefined entry gives way to every definition.
LEMMA UndefinedYields ==
  ASSUME NEW existing \in Atoms, existing.definition = "undefined",
         NEW a \in Atoms, a.definition # "undefined"
  PROVE  UseNew(existing, a) /\ ~Conflict(existing, a)
<1>1. a.definition \in {"regular", "absolute", "sharedLibrary"}
  BY SymbolTableAssumption DEF AtomAssumption, AtomType, Definitions
<1>2. Collide[existing.definition][a.definition] = "Second"
  BY <1>1 DEF Collide
<1> QED
  BY <1>2 DEF UseNew, Conflict

\* Two undefined atoms are compared by UndefUseNew.
LEMMA UndefinedAgain ==
  ASSUME NEW existing \in Atoms, existing.definition = "undefined",
         NEW a \in Atoms, a.definition = "undefined"
  PROVE  (UseNew(existing, a) <=> UndefUseNew(existing, a)) /\ ~Conflict(existing, a)
<1>1. Collide[existing.definition][a.definition] = "DupUndef"
  BY DEF Collide
<1> QED
  BY <1>1 DEF UseNew, Conflict

\* A shared library atom wins only over an undefined one.
LEMMA SharedWins ==
  ASSUME NEW existing \in Atoms, NEW a \in Atoms,
         a.definition = "sharedLibrary", UseNew(existing, a)
  PROVE  existing.definition = "undefined"
<1>1. existing.definition \in Definitions
  BY SymbolTableAssumption DEF AtomAssumption, AtomType
<1> SUFFICES ASSUME existing.definition \in {"regular", "absolute", "sharedLibrary"}
             PROVE  FALSE
  BY <1>1 DEF Definitions
<1>2. Collide[existing.definition][a.definition] \in {"First", "DupShLib"}
  BY DEF Collide
<1> QED
  BY <1>2 DEF UseNew

\* The entry of a name and a new atom of the name are atoms of that name.
LEMMA EntryIsAdded ==
  ASSUME NameInv, NEW n \in Names, nameTable[n] # NoAtom
  PROVE  /\ nameTable[n] \in added
         /\ nameTable[n] \in Atoms
         /\ GoesByName(nameTable[n])
         /\ nameTable[n].name = n
  BY DEF NameInv, TypeOK, EntryInv, AddedByName

\* An atom that wins a name was never added before: the atoms of a shared
\* library, which are, do not win a second time.
LEMMA WinnerIsNew ==
  ASSUME NameInv, NEW a \in Atoms, GoesByName(a),
         NEW existing, existing = nameTable[a.name], existing # NoAtom,
         MayAdd(a), UseNew(existing, a)
  PROVE  a \notin added
<1>1. a.name \in Names
  BY NamedAtom
<1>2. existing \in Atoms
  BY <1>1, EntryIsAdded
<1> SUFFICES ASSUME a \in added PROVE FALSE
  OBVIOUS
<1>3. a.file \in SharedLibraries /\ a \in AddedByName(a.name)
  BY DEF MayAdd, AddedByName
<1>4. /\ a.definition \in {"undefined", "sharedLibrary"}
      /\ a.fallback = NoAtom
      /\ a.canBeNull \in Nat /\ existing.canBeNull \in Nat
  BY <1>2, <1>3, SymbolTableAssumption DEF AtomAssumption, AtomType
<1>5. CASE a.definition = "sharedLibrary"
  BY <1>1, <1>2, <1>3, <1>5, SharedWins DEF NameInv, UndefinedInv
<1>6. CASE a.definition = "undefined"
  <2>1. existing.definition = "undefined"
    BY <1>2, <1>6, UndefinedLoses
  <2>2. existing.canBeNull <= a.canBeNull
    BY <1>1, <1>3, <2>1 DEF NameInv, UndefinedInv
  <2>3. UndefUseNew(existing, a)
    BY <1>2, <1>6, <2>1, UndefinedAgain
  <2> QED
    BY <1>4, <2>2, <2>3 DEF UndefUseNew
<1> QED
  BY <1>4, <1>5, <1>6

\* An atom added by name belongs to its own name and to no other.
LEMMA AddedByNameStep ==
  ASSUME NEW a, GoesByName(a), added' = added \cup {a}
  PROVE  \A n : AddedByName(n)' = IF n = a.name THEN AddedByName(n) \cup {a}
                                                ELSE AddedByName(n)
  BY DEF AddedByName

\* addByName leaves every other name alone, and afterwards the name stands for
\* what it stood for or, if that is allowed to win, for the new atom.
LEMMA EntryStep ==
  ASSUME NameInv, NEW a \in Atoms, AddByName(a)
  PROVE  /\ \A n \in Names \ {a.name} : nameTable'[n] = nameTable[n]
         /\ \/ nameTable[a.name] = NoAtom /\ nameTable'[a.name] = a
            \/ /\ nameTable[a.name] # NoAtom
               /\ \/ nameTable'[a.name] = nameTable[a.name]
                  \/ /\ nameTable'[a.name] = a
                     /\ ~Conflict(nameTable[a.name], a)
                     /\ UseNew(nameTable[a.name], a)
<1>1. a.name \in Names /\ a # NoAtom
  BY NamedAtom, SymbolTableAssumption DEF AddByName
<1>2. nameTable \in [Names -> added \cup {NoAtom}]
  BY DEF NameInv, TypeOK
<1>3. CASE AddNewName(a)
  BY <1>1, <1>2, <1>3 DEF AddNewName
<1>4. CASE AddSameAtom(a)
  BY <1>1, <1>4 DEF AddSameAtom
<1>5. CASE AddConflicting(a)
  BY <1>5 DEF AddConflicting
<1>6. CASE AddWinner(a)
  BY <1>1, <1>2, <1>6 DEF AddWinner
<1>7. CASE AddLoser(a)
  BY <1>7 DEF AddLoser
<1> QED
  BY <1>3, <1>4, <1>5, <1>6, <1>7 DEF AddByName

LEMMA AddByNameEntry ==
  ASSUME NameInv, NEW a \in Atoms, AddByName(a)
  PROVE  EntryInv'
<1>1. a.name \in Names /\ a # NoAtom /\ GoesByName(a) /\ added' = added \cup {a}
  BY NamedAtom, SymbolTableAssumption DEF AddByName
<1>2. \A n : AddedByName(n)' = IF n = a.name THEN AddedByName(n) \cup {a}
                                             ELSE AddedByName(n)
  BY <1>1, AddedByNameStep
<1> QED
  BY <1>1, <1>2, EntryStep DEF EntryInv, NameInv

LEMMA AddByNameUndefined ==
  ASSUME NameInv, NEW a \in Atoms, AddByName(a)
  PROVE  UndefinedInv'
<1> DEFINE existing == nameTable[a.name]
           entry == nameTable'[a.name]
<1>1. a.name \in Names /\ a # NoAtom /\ GoesByName(a) /\ added' = added \cup {a}
  BY NamedAtom, SymbolTableAssumption DEF AddByName
<1>2. \A n : AddedByName(n)' = IF n = a.name THEN AddedByName(n) \cup {a}
                                             ELSE AddedByName(n)
  BY <1>1, AddedByNameStep
<1>3. \A b \in Atoms : b.canBeNull \in Nat
  BY SymbolTableAssumption DEF AtomAssumption, AtomType
<1>4. AddedByName(a.name) \subseteq Atoms
  BY DEF AddedByName, NameInv, TypeOK
<1> SUFFICES ASSUME entry.definition = "undefined",
                    NEW b \in AddedByName(a.name) \cup {a}
             PROVE  b.definition = "undefined" /\ entry.canBeNull <= b.canBeNull
  BY <1>1, <1>2, EntryStep DEF UndefinedInv, NameInv
<1>5. CASE existing = NoAtom
  <2>1. entry = a /\ b = a
    BY <1>1, <1>5, EntryStep DEF NameInv, EntryInv
  <2> QED
    BY <1>3, <2>1
<1>6. CASE existing # NoAtom /\ entry = existing
  <2>1. existing \in Atoms
    BY <1>1, <1>6, EntryIsAdded
  <2>2. \A c \in AddedByName(a.name) :
          c.definition = "undefined" /\ existing.canBeNull <= c.canBeNull
    BY <1>1, <1>6 DEF NameInv, UndefinedInv
  <2>3. CASE b = a /\ a # existing
    <3>1. AddLoser(a)
      BY <1>1, <1>6, <2>1, <2>3, UndefinedYields, UndefinedAgain
      DEF AddByName, AddNewName, AddSameAtom, AddConflicting, AddWinner, NameInv, TypeOK
    <3>2. ~UseNew(existing, a)
      BY <3>1 DEF AddLoser
    <3>3. a.definition = "undefined"
      BY <1>6, <2>1, <3>2, UndefinedYields
    <3>4. ~UndefUseNew(existing, a)
      BY <1>6, <2>1, <3>2, <3>3, UndefinedAgain
    <3> QED
      BY <1>3, <1>6, <2>1, <2>3, <3>3, <3>4 DEF UndefUseNew
  <2>4. CASE b = a /\ a = existing
    BY <1>3, <1>6, <2>4
  <2> QED
    BY <1>6, <2>2, <2>3, <2>4
<1>7. CASE existing # NoAtom /\ entry = a /\ UseNew(existing, a)
  <2>1. existing \in Atoms
    BY <1>1, <1>7, EntryIsAdded
  <2>2. existing.definition = "undefined"
    BY <1>7, <2>1, UndefinedLoses
  <2>3. \A c \in AddedByName(a.name) :
          c.definition = "undefined" /\ existing.canBeNull <= c.canBeNull
    BY <1>1, <1>7, <2>2 DEF NameInv, UndefinedInv
  <2>4. UndefUseNew(existing, a)
    BY <1>7, <2>1, <2>2, UndefinedAgain
  <2>5. a.canBeNull <= existing.canBeNull
    BY <1>3, <2>1, <2>4 DEF UndefUseNew
  <2> QED
    BY <1>3, <1>4, <1>7, <2>1, <2>3, <2>5
<1> QED
  BY <1>5, <1>6, <1>7, EntryStep

LEMMA AddByNameFallback ==
  ASSUME NameInv, NEW a \in Atoms, AddByName(a)
  PROVE  FallbackInv'
<1> DEFINE existing == nameTable[a.name]
<1>1. a.name \in Names /\ a # NoAtom /\ GoesByName(a) /\ MayAdd(a)
  BY NamedAtom, SymbolTableAssumption DEF AddByName
<1>2. \A n \in Names : nameTable[n] # NoAtom =>
        nameTable[n] \in added /\ nameTable[n] \in Atoms /\ nameTable[n].name = n
  BY EntryIsAdded
<1>3. replacedAtoms \in [Atoms -> added \cup {NoAtom}]
  BY DEF NameInv, TypeOK
<1>4. CASE replacedAtoms' = replacedAtoms /\ nameTable' = nameTable
  BY <1>4 DEF FallbackInv, NameInv, IsCoalescedAway
<1>5. CASE AddNewName(a)
  <2>1. a \notin added
    BY <1>1, <1>5 DEF AddNewName, NameInv, EntryInv, AddedByName
  <2>2. ~IsCoalescedAway(a)
    BY <2>1 DEF NameInv, TypeOK
  <2> QED
    BY <1>1, <1>5, <2>2 DEF AddNewName, FallbackInv, NameInv, TypeOK, IsCoalescedAway
<1>6. CASE AddWinner(a)
  <2>1. existing # NoAtom /\ existing # a /\ UseNew(existing, a)
    BY <1>6 DEF AddWinner
  <2>2. ~IsCoalescedAway(a)
    BY <1>1, <2>1, WinnerIsNew DEF NameInv, TypeOK
  <2>3. /\ nameTable' = [nameTable EXCEPT ![a.name] = a]
        /\ replacedAtoms' = [replacedAtoms EXCEPT ![existing] = a]
    BY <1>6 DEF AddWinner
  <2>4. \A n \in Names \ {a.name} : nameTable'[n] = nameTable[n] /\ nameTable[n] # existing
    BY <1>1, <1>2, <2>1, <2>3 DEF NameInv, TypeOK
  <2>5. nameTable'[a.name] = a
    BY <1>1, <2>3 DEF NameInv, TypeOK
  <2>6. \A b \in Atoms : b # existing => replacedAtoms'[b] = replacedAtoms[b]
    BY <1>3, <2>3
  <2> QED
    BY <1>2, <2>1, <2>2, <2>4, <2>5, <2>6 DEF FallbackInv, NameInv, IsCoalescedAway
<1>7. CASE AddLoser(a)
  <2>1. existing # NoAtom /\ existing # a
    BY <1>7 DEF AddLoser
  <2>2. \A n \in Names : nameTable'[n] = nameTable[n] /\ nameTable[n] # a
    BY <1>1, <1>2, <1>7, <2>1 DEF AddLoser
  <2>3. \A b \in Atoms : b # a => replacedAtoms'[b] = replacedAtoms[b]
    BY <1>3, <1>7 DEF AddLoser
  <2> QED
    BY <1>2, <2>2, <2>3 DEF FallbackInv, NameInv, IsCoalescedAway
<1> QED
  BY <1>4, <1>5, <1>6, <1>7 DEF AddByName, AddSameAtom, AddConflicting

\* Group parents, mergeable constants and file-static atoms never enter the
\* name table, and an atom is redirected only if it has a fallback.
LEMMA OtherNameInv ==
  ASSUME NameInv, NEW a \in Atoms,
         AddByContent(a) \/ AddUntracked(a) \/ AddGroup(a) \/ AddReplacement(a)
  PROVE  EntryInv' /\ UndefinedInv' /\ FallbackInv'
<1>1. nameTable' = nameTable
  BY DEF AddByContent, AddUntracked, AddGroup, AddReplacement
<1>2. added' = added \/ (added' = added \cup {a} /\ ~GoesByName(a))
  BY DEF AddByContent, AddUntracked, AddGroup, AddReplacement, GoesByName, GoesByContent
<1>3. \A n : AddedByName(n)' = AddedByName(n)
  BY <1>2 DEF AddedByName
<1>4. EntryInv' /\ UndefinedInv'
  BY <1>1, <1>3 DEF EntryInv, UndefinedInv, NameInv
<1>5. replacedAtoms \in [Atoms -> added \cup {NoAtom}]
  BY DEF NameInv, TypeOK
<1>6. CASE AddReplacement(a)
  BY <1>1, <1>4, <1>5, <1>6 DEF AddReplacement, FallbackInv, NameInv, IsCoalescedAway
<1>7. CASE AddByContent(a) \/ AddUntracked(a) \/ AddGroup(a)
  <2>1. ~GoesByName(a)
    BY <1>7 DEF AddByContent, AddUntracked, AddGroup, GoesByName, GoesByContent
  <2>2. \A n \in Names : nameTable[n] # NoAtom => nameTable[n] # a
    BY <2>1, EntryIsAdded
  <2>3. \A b \in Atoms : b # a => replacedAtoms'[b] = replacedAtoms[b]
    BY <1>5, <1>7 DEF AddByContent, AddUntracked, AddGroup
  <2> QED
    BY <1>1, <1>4, <2>2, <2>3, EntryIsAdded DEF FallbackInv, NameInv, IsCoalescedAway
<1> QED
  BY <1>6, <1>7

LEMMA InitNameInv == Init => NameInv
  BY InitTypeOK
  DEF NameInv, Init, EntryInv, UndefinedInv, FallbackInv, AddedByName, IsCoalescedAway

LEMMA NextNameInv ==
  ASSUME NameInv, [Next]_vars
  PROVE  NameInv'
<1>1. TypeOK'
  BY NextTypeOK DEF NameInv
<1>2. CASE UNCHANGED vars
  BY <1>1, <1>2
  DEF vars, NameInv, EntryInv, UndefinedInv, FallbackInv, AddedByName, IsCoalescedAway
<1>3. ASSUME NEW a \in Atoms, AddByName(a)
      PROVE  NameInv'
  BY <1>1, <1>3, AddByNameEntry, AddByNameUndefined, AddByNameFallback DEF NameInv
<1>4. ASSUME NEW a \in Atoms,
             AddByContent(a) \/ AddUntracked(a) \/ AddGroup(a) \/ AddReplacement(a)
      PROVE  NameInv'
  BY <1>1, <1>4, OtherNameInv DEF NameInv
<1> QED
  BY <1>2, <1>3, <1>4 DEF Next

\* The invariant of the name table.
THEOREM NameInvariant == Spec => []NameInv
<1>1. Init => NameInv
  BY InitNameInv
<1>2. NameInv /\ [Next]_vars => NameInv'
  BY NextNameInv
<1> QED
  BY <1>1, <1>2, PTL DEF Spec

\* Whatever references the files make and in whatever order, the entry of an
\* undefined name is as strict as the strictest of them.
THEOREM StrictestIsKept == Spec => []UndefinedIsStrictest
<1>1. NameInv => UndefinedIsStrictest
  BY DEF NameInv, UndefinedInv, UndefinedIsStrictest
<1> QED
  BY <1>1, NameInvariant, PTL

\* An entry that is defined, or was redirected to its fallback, is followed
\* only by one that is, or by an atom with a fallback of its own.
LEMMA AddByNameResolved ==
  ASSUME NameInv, NEW a \in Atoms, AddByName(a), NEW n \in Names, Resolved(n)
  PROVE  \/ Resolved(n)'
         \/ nameTable'[n].definition = "undefined" /\ nameTable'[n].fallback # NoAtom
<1> DEFINE existing == nameTable[n]
<1>1. /\ existing # NoAtom
      /\ existing \in Atoms
      /\ existing \in added
      /\ existing.name = n
  BY EntryIsAdded DEF Resolved
<1>2. a # NoAtom /\ a.name \in Names /\ a.canBeNull \in Nat /\ existing.canBeNull \in Nat
  BY <1>1, NamedAtom, SymbolTableAssumption DEF AddByName, AtomAssumption, AtomType
<1>3. CASE nameTable'[n] = existing
  <2>1. IsCoalescedAway(existing) => replacedAtoms'[existing] # NoAtom
    BY <1>1, <1>2, SymbolTableAssumption
    DEF AddByName, AddNewName, AddSameAtom, AddConflicting, AddWinner, AddLoser,
        IsCoalescedAway, NameInv, TypeOK
  <2> QED
    BY <1>3, <2>1 DEF Resolved, IsCoalescedAway
<1>4. CASE n = a.name /\ nameTable'[n] = a /\ UseNew(existing, a)
  <2> SUFFICES ASSUME a.definition = "undefined" PROVE a.fallback # NoAtom
    BY <1>2, <1>4 DEF Resolved
  <2>1. existing.definition = "undefined"
    BY <1>1, <1>4, UndefinedLoses
  <2>2. existing.fallback # NoAtom
    BY <1>1, <2>1 DEF Resolved, NameInv, FallbackInv
  <2>3. existing.canBeNull = 0
    BY <1>1, <2>2, SymbolTableAssumption DEF AtomAssumption
  <2>4. UndefUseNew(existing, a)
    BY <1>1, <1>4, <2>1, UndefinedAgain
  <2> QED
    BY <1>2, <2>3, <2>4 DEF UndefUseNew
<1> QED
  BY <1>1, <1>3, <1>4, EntryStep

\* No name that a file, a fallback or a library has resolved ever becomes
\* unresolved again, so that the resolver may forget it (Resolver.cpp:57-61).
THEOREM ResolvedStays == Spec => ResolvedForever
<1> DEFINE Kept == \A n \in Names :
                     Resolved(n) =>
                       \/ Resolved(n)'
                       \/ nameTable'[n].definition = "undefined"
                          /\ nameTable'[n].fallback # NoAtom
<1>1. NameInv /\ Next => Kept
  <2> SUFFICES ASSUME NameInv, Next, NEW n \in Names, Resolved(n)
               PROVE  \/ Resolved(n)'
                      \/ nameTable'[n].definition = "undefined"
                         /\ nameTable'[n].fallback # NoAtom
    OBVIOUS
  <2>1. ASSUME NEW a \in Atoms,
               AddByContent(a) \/ AddUntracked(a) \/ AddGroup(a) \/ AddReplacement(a)
        PROVE  Resolved(n)'
    <3>1. nameTable' = nameTable
      BY <2>1 DEF AddByContent, AddUntracked, AddGroup, AddReplacement
    <3>2. \A b \in Atoms : IsCoalescedAway(b) => replacedAtoms'[b] # NoAtom
      BY <2>1, SymbolTableAssumption
      DEF AddByContent, AddUntracked, AddGroup, AddReplacement, IsCoalescedAway,
          NameInv, TypeOK
    <3> QED
      BY <3>1, <3>2, EntryIsAdded DEF Resolved, IsCoalescedAway
  <2> QED
    BY <2>1, AddByNameResolved DEF Next
<1>2. NameInv /\ [Next]_vars => [Kept]_vars
  BY <1>1
<1> QED
  BY <1>2, NameInvariant, PTL DEF Spec, ResolvedForever
-----------------------------------------------------------------------------
(***************************************************************************)
(* The strongest definition. Comparisons of two atoms first, by the        *)
(* decision tables, then the table.                                        *)
(***************************************************************************)

\* What is known of an atom that goes by name.
LEMMA SimpleAtom ==
  ASSUME NEW a \in Atoms, GoesByName(a), Simple(a)
  PROVE  /\ a.definition \in Definitions
         /\ a.size \in Nat
         /\ a.definition = "regular" => a.merge \in {"no", "tentative", "weak", "weakAddress"}
         /\ Strength(a) \in 0 .. 5
         /\ a.definition = "undefined" => Strength(a) = 0
         /\ a.definition = "sharedLibrary" => Strength(a) = 1
         /\ a.definition = "absolute" => Strength(a) = 5
         /\ a.definition = "regular" => Strength(a) \in 2 .. 5
<1>1. /\ a.definition \in Definitions
      /\ a.size \in Nat
      /\ a.definition = "regular" => a.merge \in {"no", "tentative", "weak", "weakAddress"}
  BY SymbolTableAssumption
  DEF AtomAssumption, AtomType, GoesByName, Simple, Definitions, Merges
<1> QED
  BY <1>1 DEF Strength, Definitions

\* The tables never replace an atom by a weaker one, or a common symbol by a
\* smaller one ...
LEMMA WinnerIsStronger ==
  ASSUME NEW existing \in Atoms, GoesByName(existing), Simple(existing),
         NEW a \in Atoms, GoesByName(a), Simple(a),
         UseNew(existing, a)
  PROVE  /\ Strength(existing) <= Strength(a)
         /\ Strength(existing) = 2 /\ Strength(a) = 2 => existing.size <= a.size
<1>1. CASE existing.definition = "regular" /\ a.definition = "regular"
  <2>1. DefUseNew(existing, a)
    BY <1>1 DEF UseNew, Collide
  <2> QED
    BY <1>1, <2>1, SimpleAtom DEF DefUseNew, MergeSelect, MergeCases, Strength
<1>2. CASE ~(existing.definition = "regular" /\ a.definition = "regular")
  <2>1. \/ existing.definition = "undefined"
        \/ existing.definition = "sharedLibrary" /\ a.definition \in {"regular", "absolute"}
    BY <1>2, SimpleAtom DEF UseNew, Collide, Definitions
  <2> QED
    BY <2>1, SimpleAtom
<1> QED
  BY <1>1, <1>2

\* ... and never keep an atom where a stronger or a larger one came.
LEMMA LoserIsWeaker ==
  ASSUME NEW existing \in Atoms, GoesByName(existing), Simple(existing),
         NEW a \in Atoms, GoesByName(a), Simple(a),
         ~UseNew(existing, a), ~Conflict(existing, a)
  PROVE  /\ Strength(a) <= Strength(existing)
         /\ Strength(existing) = 2 /\ Strength(a) = 2 => a.size <= existing.size
<1>1. CASE existing.definition = "regular" /\ a.definition = "regular"
  <2>1. ~DefUseNew(existing, a)
    BY <1>1 DEF UseNew, Collide
  <2> QED
    BY <1>1, <2>1, SimpleAtom DEF DefUseNew, MergeSelect, MergeCases, Strength
<1>2. CASE ~(existing.definition = "regular" /\ a.definition = "regular")
  <2>1. \/ a.definition = "undefined"
        \/ a.definition = "sharedLibrary" /\ existing.definition # "undefined"
    BY <1>2, SimpleAtom DEF UseNew, Conflict, Collide, Definitions
  <2> QED
    BY <2>1, SimpleAtom DEF Definitions
<1> QED
  BY <1>1, <1>2

\* Two strong definitions are in conflict, unless they are regular ones and
\* duplicates are allowed.
LEMMA StrongConflict ==
  ASSUME NEW existing \in Atoms, GoesByName(existing), Simple(existing),
         NEW a \in Atoms, GoesByName(a), Simple(a),
         Strength(existing) = 5, Strength(a) = 5, ~Conflict(existing, a)
  PROVE  /\ allowDuplicates
         /\ existing.definition = "regular"
         /\ a.definition = "regular"
<1>1. existing.definition \in {"regular", "absolute"} /\ a.definition \in {"regular", "absolute"}
  BY SimpleAtom DEF Strength, Definitions
<1>2. existing.definition = "regular" /\ a.definition = "regular"
  BY <1>1 DEF Conflict, Collide
<1>3. existing.merge = "no" /\ a.merge = "no"
  BY <1>2, SimpleAtom DEF Strength
<1>4. DefConflict(existing, a)
  BY <1>3 DEF DefConflict, MergeSelect, MergeCases
<1> QED
  BY <1>2, <1>4 DEF Conflict, Collide

\* What a step of addByName that is not fatal does to the entry of the name.
LEMMA EntryCompared ==
  ASSUME NameInv, NEW a \in Atoms, AddByName(a), ~fatal'
  PROVE  LET existing == nameTable[a.name]
             entry == nameTable'[a.name]
         IN  \/ existing = NoAtom /\ AddedByName(a.name) = {} /\ entry = a
             \/ existing = a /\ entry = a /\ a \in AddedByName(a.name)
             \/ /\ existing \notin {NoAtom, a}
                /\ existing \in Atoms
                /\ GoesByName(existing)
                /\ existing \in AddedByName(a.name)
                /\ ~Conflict(existing, a)
                /\ entry = IF UseNew(existing, a) THEN a ELSE existing
<1> DEFINE existing == nameTable[a.name]
<1>1. /\ a.name \in Names
      /\ a # NoAtom
      /\ nameTable \in [Names -> added \cup {NoAtom}]
  BY NamedAtom, SymbolTableAssumption DEF AddByName, NameInv, TypeOK
<1>2. CASE existing = NoAtom
  BY <1>1, <1>2
  DEF AddByName, AddNewName, AddSameAtom, AddConflicting, AddWinner, AddLoser, NameInv, EntryInv
<1>3. CASE existing = a
  BY <1>1, <1>3
  DEF AddByName, AddNewName, AddSameAtom, AddConflicting, AddWinner, AddLoser, NameInv, EntryInv
<1>4. CASE existing \notin {NoAtom, a}
  <2>1. /\ existing \in Atoms
        /\ GoesByName(existing)
        /\ existing \in AddedByName(a.name)
    BY <1>1, <1>4, EntryIsAdded DEF NameInv, EntryInv
  <2>2. AddWinner(a) \/ AddLoser(a)
    BY <1>4 DEF AddByName, AddNewName, AddSameAtom, AddConflicting
  <2> QED
    BY <1>1, <1>4, <2>1, <2>2 DEF AddWinner, AddLoser
<1> QED
  BY <1>2, <1>3, <1>4

LEMMA AddByNameStrongest ==
  ASSUME NameInv, StrongestWins, NEW a \in Atoms, AddByName(a)
  PROVE  StrongestWins'
<1> DEFINE existing == nameTable[a.name]
           entry == nameTable'[a.name]
<1>1. a.name \in Names /\ GoesByName(a) /\ added' = added \cup {a} /\ ~fatal
  BY NamedAtom DEF AddByName, MayAdd
<1>2. \A n : AddedByName(n)' = IF n = a.name THEN AddedByName(n) \cup {a}
                                             ELSE AddedByName(n)
  BY <1>1, AddedByNameStep
<1>3. \A n \in Names \ {a.name} : nameTable'[n] = nameTable[n]
  BY EntryStep
<1>4. \A n \in Names : SimpleName(n)' => SimpleName(n)
  BY <1>2 DEF SimpleName
<1> SUFFICES ASSUME ~fatal', SimpleName(a.name)', NEW b \in AddedByName(a.name) \cup {a}
             PROVE  /\ Strength(b) <= Strength(entry)
                    /\ Strength(b) = 2 /\ Strength(entry) = 2 => b.size <= entry.size
  BY <1>1, <1>2, <1>3, <1>4 DEF StrongestWins
<1>5. /\ b \in Atoms /\ GoesByName(b)
      /\ Simple(a) /\ Simple(b)
      /\ existing \in AddedByName(a.name) => Simple(existing)
  BY <1>1, <1>2 DEF SimpleName, AddedByName, NameInv, TypeOK
<1>6. /\ Strength(a) \in Nat /\ Strength(b) \in Nat
      /\ a.size \in Nat /\ b.size \in Nat
  BY <1>1, <1>5, SimpleAtom
<1>7. b # a => /\ Strength(b) <= Strength(existing)
               /\ Strength(b) = 2 /\ Strength(existing) = 2 => b.size <= existing.size
  BY <1>1, <1>4 DEF StrongestWins
<1>8. CASE existing = NoAtom /\ AddedByName(a.name) = {} /\ entry = a
  BY <1>6, <1>8
<1>9. CASE existing = a /\ entry = a
  BY <1>6, <1>7, <1>9
<1>10. CASE /\ existing \notin {NoAtom, a}
            /\ existing \in Atoms
            /\ GoesByName(existing)
            /\ existing \in AddedByName(a.name)
            /\ ~Conflict(existing, a)
            /\ entry = IF UseNew(existing, a) THEN a ELSE existing
  <2>1. Simple(existing) /\ Strength(existing) \in Nat /\ existing.size \in Nat
    BY <1>5, <1>10, SimpleAtom
  <2>2. CASE UseNew(existing, a)
    <3>1. /\ Strength(existing) <= Strength(a)
          /\ Strength(existing) = 2 /\ Strength(a) = 2 => existing.size <= a.size
      BY <1>1, <1>5, <1>10, <2>1, <2>2, WinnerIsStronger
    <3>2. CASE b # a
      <4>1. Strength(b) = 2 /\ Strength(a) = 2 => Strength(existing) = 2
        BY <1>6, <1>7, <2>1, <3>1, <3>2
      <4> QED
        BY <1>6, <1>7, <1>10, <2>1, <2>2, <3>1, <3>2, <4>1
    <3> QED
      BY <1>6, <1>10, <2>2, <3>2
  <2>3. CASE ~UseNew(existing, a)
    <3>1. /\ Strength(a) <= Strength(existing)
          /\ Strength(existing) = 2 /\ Strength(a) = 2 => a.size <= existing.size
      BY <1>1, <1>5, <1>10, <2>1, <2>3, LoserIsWeaker
    <3> QED
      BY <1>7, <1>10, <2>3, <3>1
  <2> QED
    BY <2>2, <2>3
<1> QED
  BY <1>8, <1>9, <1>10, EntryCompared

LEMMA AddByNameNoDuplicate ==
  ASSUME NameInv, StrongestWins, NoDuplicateDefinition,
         NEW a \in Atoms, AddByName(a), UNCHANGED allowDuplicates
  PROVE  NoDuplicateDefinition'
<1> DEFINE existing == nameTable[a.name]
<1>1. a.name \in Names /\ GoesByName(a) /\ added' = added \cup {a} /\ ~fatal
  BY NamedAtom DEF AddByName, MayAdd
<1>2. \A n : AddedByName(n)' = IF n = a.name THEN AddedByName(n) \cup {a}
                                             ELSE AddedByName(n)
  BY <1>1, AddedByNameStep
<1>3. \A n \in Names : SimpleName(n)' => SimpleName(n)
  BY <1>2 DEF SimpleName
<1>4. \A n \in Names : SimpleName(n)' =>
        \A b, c \in AddedByName(n) :
          b # c /\ Strength(b) = 5 /\ Strength(c) = 5 =>
            allowDuplicates /\ "absolute" \notin {b.definition, c.definition}
  BY <1>1, <1>3 DEF NoDuplicateDefinition
<1>5. ASSUME ~fatal', SimpleName(a.name)', a \notin AddedByName(a.name),
             NEW b \in AddedByName(a.name), Strength(a) = 5, Strength(b) = 5
      PROVE  allowDuplicates /\ "absolute" \notin {a.definition, b.definition}
  <2>1. /\ existing \notin {NoAtom, a}
        /\ existing \in Atoms
        /\ GoesByName(existing)
        /\ existing \in AddedByName(a.name)
        /\ ~Conflict(existing, a)
    BY <1>5, EntryCompared
  <2>2. Simple(existing) /\ Simple(a)
    BY <1>1, <1>2, <1>5, <2>1 DEF SimpleName
  <2>3. Strength(existing) \in 0 .. 5
    BY <2>1, <2>2, SimpleAtom
  <2>4. Strength(b) <= Strength(existing)
    BY <1>1, <1>3, <1>5 DEF StrongestWins
  <2>5. Strength(existing) = 5
    BY <1>5, <2>3, <2>4
  <2>6. allowDuplicates /\ existing.definition = "regular" /\ a.definition = "regular"
    BY <1>1, <1>5, <2>1, <2>2, <2>5, StrongConflict
  <2>7. b # existing => "absolute" \notin {b.definition, existing.definition}
    BY <1>1, <1>4, <1>5, <2>1, <2>5
  <2> QED
    BY <2>6, <2>7
<1> QED
  BY <1>1, <1>2, <1>3, <1>4, <1>5 DEF NoDuplicateDefinition

\* The other operations add no atom by name.
LEMMA OtherStrongest ==
  ASSUME NEW a \in Atoms, StrongestWins, NoDuplicateDefinition, UNCHANGED allowDuplicates,
         AddByContent(a) \/ AddUntracked(a) \/ AddGroup(a) \/ AddReplacement(a)
  PROVE  StrongestWins' /\ NoDuplicateDefinition'
<1>1. nameTable' = nameTable /\ fatal' = fatal
  BY DEF AddByContent, AddUntracked, AddGroup, AddReplacement
<1>2. added' = added \/ (added' = added \cup {a} /\ ~GoesByName(a))
  BY DEF AddByContent, AddUntracked, AddGroup, AddReplacement, GoesByName, GoesByContent
<1>3. \A n : AddedByName(n)' = AddedByName(n)
  BY <1>2 DEF AddedByName
<1> QED
  BY <1>1, <1>3 DEF StrongestWins, NoDuplicateDefinition, SimpleName

DefinitionInv == NameInv /\ StrongestWins /\ NoDuplicateDefinition

LEMMA NextDefinitionInv ==
  ASSUME DefinitionInv, [Next]_vars
  PROVE  DefinitionInv'
<1>1. NameInv'
  BY NextNameInv DEF DefinitionInv
<1>2. CASE UNCHANGED vars
  BY <1>1, <1>2
  DEF vars, DefinitionInv, StrongestWins, NoDuplicateDefinition, SimpleName, AddedByName
<1>3. CASE Next
  BY <1>1, <1>3, AddByNameStrongest, AddByNameNoDuplicate, OtherStrongest
  DEF Next, DefinitionInv
<1> QED
  BY <1>2, <1>3

LEMMA DefinitionInvariant == Spec => []DefinitionInv
<1>1. Init => DefinitionInv
  BY InitNameInv
  DEF Init, DefinitionInv, StrongestWins, NoDuplicateDefinition, AddedByName
<1>2. DefinitionInv /\ [Next]_vars => DefinitionInv'
  BY NextDefinitionInv
<1> QED
  BY <1>1, <1>2, PTL DEF Spec

\* In whatever order the files come, a name stands for a strongest atom of
\* those added, and for a largest one among common symbols.
THEOREM StrongestIsKept == Spec => []StrongestWins
<1>1. DefinitionInv => StrongestWins
  BY DEF DefinitionInv
<1> QED
  BY <1>1, DefinitionInvariant, PTL

\* Two strong definitions of a name never come together in a link that goes on,
\* unless duplicates are allowed and neither is absolute.
THEOREM DuplicatesAreFound == Spec => []NoDuplicateDefinition
<1>1. DefinitionInv => NoDuplicateDefinition
  BY DEF DefinitionInv
<1> QED
  BY <1>1, DefinitionInvariant, PTL
-----------------------------------------------------------------------------
(***************************************************************************)
(* Where the losers lead. replacement() follows the redirections until it  *)
(* is at an atom without one, so they must not form a cycle. What the code *)
(* adds itself cannot: a redirection within a name ends at the entry of    *)
(* the name. Fallbacks lead from one name to another; if they lead back,   *)
(* so that two weak externals are each other's alternatives, there is a    *)
(* cycle, and nothing in the code forbids it. The theorems below are       *)
(* about inputs whose fallbacks do not: there is a ranking of the names in *)
(* which a fallback has a higher rank.                                     *)
(***************************************************************************)

FallbacksLeadUp(rank) ==
  /\ rank \in [Names -> Nat]
  /\ \A a \in Atoms : a.fallback # NoAtom => rank[a.name] < rank[a.fallback.name]

\* Every key of an added atom has an atom, and the content and group tables
\* hold atoms of their keys.
RepresentativeInv ==
  /\ \A x \in added : CurrentAtom(x) # NoAtom
  /\ \A c \in Contents : contentTable[c] # NoAtom =>
       GoesByContent(contentTable[c]) /\ contentTable[c].content = c
  /\ \A n \in Names : groupTable[n] # NoAtom =>
       groupTable[n].group # "none" /\ groupTable[n].name = n

\* A redirection stays within the name or leads to the atom's fallback.
EdgeInv ==
  \A x \in added : IsCoalescedAway(x) =>
    /\ GoesByName(x) => GoesByName(replacedAtoms[x])
    /\ GoesByName(x) => replacedAtoms[x].name = x.name \/ replacedAtoms[x] = x.fallback

\* An atom that its key does not stand for is redirected to another atom of
\* the key, and one that its key does stand for at most to its fallback.
KeyInv ==
  ~fatal => \A x \in added : x # CurrentAtom(x) =>
    IsCoalescedAway(x) /\ CurrentAtom(replacedAtoms[x]) = CurrentAtom(x)

CurrentInv ==
  \A x \in added : x = CurrentAtom(x) /\ IsCoalescedAway(x) =>
    x.fallback # NoAtom /\ replacedAtoms[x] = x.fallback

ChainInv ==
  /\ NameInv /\ RepresentativeInv /\ EdgeInv /\ KeyInv /\ CurrentInv
  /\ IsFiniteSet(added)
  /\ NoReplacementCycle

-----------------------------------------------------------------------------
(* What replacement() computes when there is no cycle.                     *)

NextInChain == [b \in Atoms |-> IF IsCoalescedAway(b) THEN replacedAtoms[b] ELSE b]

LEMMA ReplacementWalks ==
  ASSUME TypeOK, IsFiniteSet(added), NoReplacementCycle, NEW a \in added
  PROVE  LET n == Cardinality(added)
         IN  \E w : /\ IsWalk(w, NextInChain, a, n)
                    /\ Replacement(a) = w[n]
                    /\ NextInChain[w[n]] = w[n]
<1> DEFINE n == Cardinality(added)
           w == CHOOSE f : IsWalk(f, NextInChain, a, n)
<1>1. n \in Nat
  BY FS_CardinalityType
<1>2. \A x \in added : NextInChain[x] \in added
  BY DEF TypeOK, NextInChain, IsCoalescedAway
<1>3. NextInChain \in [Atoms -> Atoms]
  BY DEF TypeOK, NextInChain, IsCoalescedAway
<1>4. IsWalk(w, NextInChain, a, n)
  <2>1. a \in Atoms
    BY DEF TypeOK
  <2> HIDE DEF n
  <2>2. \E f : IsWalk(f, NextInChain, a, n)
    BY <1>1, <1>3, <2>1, WalkExists
  <2> QED BY <2>2
<1>5. Replacement(a) = w[n]
  BY DEF Replacement, NextInChain, IsWalk
<1>6. \A C \in (SUBSET added) \ {{}} :
        \E x \in C : NextInChain[x] = x \/ NextInChain[x] \notin C
  BY DEF NoReplacementCycle, NextInChain, TypeOK
<1> HIDE DEF w
<1>7. NextInChain[w[n]] = w[n]
  BY <1>2, <1>4, <1>6, WalkEnds
<1> QED BY <1>4, <1>5, <1>7

\* An atom that is not redirected replaces itself, and one that is redirected
\* has the replacement of the atom it is redirected to.
LEMMA ReplacementOfLoser ==
  ASSUME TypeOK, IsFiniteSet(added), NoReplacementCycle, NEW a \in added
  PROVE  /\ Replacement(a) \in added
         /\ ~IsCoalescedAway(Replacement(a))
         /\ Replacement(a) = IF IsCoalescedAway(a) THEN Replacement(replacedAtoms[a]) ELSE a
<1> DEFINE n == Cardinality(added)
<1>1. n \in Nat
  BY FS_CardinalityType
<1>2. \A x \in added : x \in Atoms /\ NextInChain[x] \in added
  BY DEF TypeOK, NextInChain, IsCoalescedAway
<1>3. PICK w : /\ IsWalk(w, NextInChain, a, n)
               /\ Replacement(a) = w[n]
               /\ NextInChain[w[n]] = w[n]
  BY ReplacementWalks
<1> HIDE DEF n
<1>4. w[n] \in added
  <2>1. \A x \in added : NextInChain[x] \in added
    BY <1>2
  <2>2. IsWalk(w, NextInChain, a, n)
    BY <1>3
  <2>3. \A i \in 0..n : w[i] \in added
    BY <1>1, <2>1, <2>2, WalkStays
  <2> QED BY <1>1, <2>3
<1>5. ~IsCoalescedAway(Replacement(a))
  <2>1. IsCoalescedAway(w[n]) => replacedAtoms[w[n]] = w[n]
    BY <1>2, <1>3, <1>4 DEF NextInChain
  <2>2. replacedAtoms[w[n]] # w[n]
    <3>1. {w[n]} \in (SUBSET added) \ {{}}
      BY <1>4
    <3> QED BY <3>1 DEF NoReplacementCycle
  <2> QED BY <1>3, <2>1, <2>2
<1>6. CASE ~IsCoalescedAway(a)
  <2>1. NextInChain[a] = a
    BY <1>2, <1>6 DEF NextInChain
  <2>2. w[0] = a
    BY <1>1, <1>3, WalkSteps
  <2>3. w[n] = w[0]
    <3>1. 0 \in 0..n /\ n \in 0..n
      BY <1>1
    <3> QED BY <1>1, <1>3, <2>1, <2>2, <3>1, WalkRests
  <2> QED BY <1>3, <1>4, <1>5, <1>6, <2>2, <2>3
<1>7. CASE IsCoalescedAway(a)
  <2>1. NextInChain[a] = replacedAtoms[a] /\ replacedAtoms[a] \in added
    BY <1>2, <1>7 DEF NextInChain
  <2>2. PICK v : IsWalk(v, NextInChain, replacedAtoms[a], n) /\ Replacement(replacedAtoms[a]) = v[n]
    BY <2>1, ReplacementWalks DEF n
  <2>3. v[n] = w[n]
    BY <1>1, <1>3, <2>1, <2>2, WalkShift
  <2> QED BY <1>3, <1>4, <1>5, <1>7, <2>2, <2>3
<1> QED BY <1>6, <1>7

\* So does one that was never added.
LEMMA ReplacementOfItself ==
  ASSUME TypeOK, IsFiniteSet(added), NEW a \in Atoms, ~IsCoalescedAway(a)
  PROVE  Replacement(a) = a
<1> DEFINE n == Cardinality(added)
           w == CHOOSE f : IsWalk(f, NextInChain, a, n)
<1>1. n \in Nat
  BY FS_CardinalityType
<1>2. NextInChain \in [Atoms -> Atoms] /\ NextInChain[a] = a
  BY DEF TypeOK, NextInChain, IsCoalescedAway
<1>3. Replacement(a) = w[n]
  BY DEF Replacement, NextInChain, IsWalk
<1> HIDE DEF n
<1>4. IsWalk(w, NextInChain, a, n)
  <2>1. \E f : IsWalk(f, NextInChain, a, n)
    BY <1>1, <1>2, WalkExists
  <2> QED BY <2>1
<1> HIDE DEF w
<1>5. w[0] = a
  BY <1>1, <1>4, WalkSteps
<1>6. 0 \in 0..n /\ n \in 0..n /\ NextInChain[w[0]] = w[0]
  BY <1>1, <1>2, <1>5
<1>7. w[n] = w[0]
  BY <1>1, <1>4, <1>6, WalkRests
<1> QED BY <1>3, <1>5, <1>7
-----------------------------------------------------------------------------
(* What a step does to the keys and the redirections.                      *)

\* The atom of a key is an atom of that key.
LEMMA CurrentOfCurrent ==
  ASSUME NameInv, RepresentativeInv, NEW x \in added
  PROVE  LET c == CurrentAtom(x)
         IN  /\ c \in added
             /\ CurrentAtom(c) = c
             /\ GoesByName(x) <=> GoesByName(c)
             /\ GoesByName(x) => c.name = x.name
<1>1. x \in Atoms /\ CurrentAtom(x) # NoAtom
  BY DEF NameInv, TypeOK, RepresentativeInv
<1>2. CASE x.group # "none"
  <2>1. x.name \in Names /\ CurrentAtom(x) = groupTable[x.name]
    BY <1>1, <1>2, NamedGroup DEF CurrentAtom
  <2>2. groupTable[x.name] \in added
    BY <1>1, <2>1 DEF NameInv, TypeOK
  <2>3. groupTable[x.name].group # "none" /\ groupTable[x.name].name = x.name
    BY <1>1, <2>1 DEF RepresentativeInv
  <2> QED
    BY <1>2, <2>1, <2>2, <2>3 DEF CurrentAtom, GoesByName
<1>3. CASE x.group = "none" /\ GoesByName(x)
  <2>1. x.name \in Names /\ CurrentAtom(x) = nameTable[x.name]
    BY <1>1, <1>3, NamedAtom DEF CurrentAtom
  <2>2. /\ nameTable[x.name] \in added
        /\ GoesByName(nameTable[x.name])
        /\ nameTable[x.name].name = x.name
    BY <1>1, <2>1, EntryIsAdded
  <2>3. nameTable[x.name].group = "none"
    BY <2>2 DEF GoesByName
  <2> QED
    BY <1>3, <2>1, <2>2, <2>3 DEF CurrentAtom
<1>4. CASE x.group = "none" /\ ~GoesByName(x) /\ GoesByContent(x)
  <2>1. x.content \in Contents /\ CurrentAtom(x) = contentTable[x.content]
    BY <1>1, <1>4, SymbolTableAssumption DEF CurrentAtom, AtomAssumption, AtomType
  <2>2. contentTable[x.content] \in added
    BY <1>1, <2>1 DEF NameInv, TypeOK
  <2>3. /\ GoesByContent(contentTable[x.content])
        /\ contentTable[x.content].content = x.content
    BY <1>1, <2>1 DEF RepresentativeInv
  <2>4. contentTable[x.content].group = "none" /\ ~GoesByName(contentTable[x.content])
    BY <2>3 DEF GoesByContent
  <2> QED
    BY <1>4, <2>1, <2>2, <2>3, <2>4 DEF CurrentAtom
<1>5. CASE x.group = "none" /\ ~GoesByName(x) /\ ~GoesByContent(x)
  BY <1>5 DEF CurrentAtom
<1> QED
  BY <1>2, <1>3, <1>4, <1>5

\* The atoms are added in one of five ways: under a key that nothing had, where
\* nothing changes, ahead of the atom of the key, behind it, or redirected to
\* the fallback.
NewKey(a) ==
  /\ a \notin added
  /\ added' = added \cup {a}
  /\ replacedAtoms' = replacedAtoms
  /\ fatal' = fatal
  /\ CurrentAtom(a)' = a
  /\ \A x \in added : CurrentAtom(x)' = CurrentAtom(x)

OldKey(a) ==
  /\ added' = added \cup {a}
  /\ replacedAtoms' = replacedAtoms
  /\ fatal' \/ (a \in added /\ fatal' = fatal)
  /\ CurrentAtom(a) # NoAtom
  /\ \A x \in Atoms : CurrentAtom(x)' = CurrentAtom(x)

Ahead(a, e) ==
  /\ a \notin added
  /\ e \in added
  /\ CurrentAtom(e) = e
  /\ added' = added \cup {a}
  /\ GoesByName(a) /\ e.name = a.name
  /\ replacedAtoms' = [replacedAtoms EXCEPT ![e] = a]
  /\ fatal' = fatal
  /\ CurrentAtom(a)' = a
  /\ \A x \in added : CurrentAtom(x)' = IF CurrentAtom(x) = e THEN a ELSE CurrentAtom(x)

Behind(a, e) ==
  /\ a \notin added \/ GoesByName(a)
  /\ e \in added /\ e # a
  /\ CurrentAtom(a) = e /\ CurrentAtom(e) = e
  /\ GoesByName(a) => GoesByName(e) /\ e.name = a.name
  /\ added' = added \cup {a}
  /\ replacedAtoms' = [replacedAtoms EXCEPT ![a] = e]
  /\ fatal' = fatal
  /\ \A x \in Atoms : CurrentAtom(x)' = CurrentAtom(x)

ToFallback(a) ==
  /\ a \in added
  /\ CurrentAtom(a) = a
  /\ a.fallback \in added
  /\ GoesByName(a) /\ GoesByName(a.fallback)
  /\ added' = added
  /\ replacedAtoms' = [replacedAtoms EXCEPT ![a] = a.fallback]
  /\ fatal' = fatal
  /\ \A x \in Atoms : CurrentAtom(x)' = CurrentAtom(x)

Step(a) ==
  \/ NewKey(a) \/ OldKey(a) \/ ToFallback(a)
  \/ \E e \in added : Ahead(a, e) \/ Behind(a, e)

\* Only shared libraries are visited again, and their atoms have names.
LEMMA ReaddedByName ==
  ASSUME NEW a \in Atoms, MayAdd(a), ~GoesByName(a)
  PROVE  a \notin added
<1>1. a.definition = "regular"
  <2>1. a.group # "none" => a.definition = "regular"
    BY SymbolTableAssumption DEF AtomAssumption
  <2> QED BY <2>1 DEF GoesByName
<1>2. a.file \notin SharedLibraries
  BY <1>1, SymbolTableAssumption DEF AtomAssumption
<1> QED BY <1>2 DEF MayAdd

LEMMA CurrentStep ==
  ASSUME NEW x
  PROVE  CurrentAtom(x)' =
           IF x.group # "none" THEN groupTable'[x.name]
           ELSE IF GoesByName(x) THEN nameTable'[x.name]
           ELSE IF GoesByContent(x) THEN contentTable'[x.content]
           ELSE x
  BY DEF CurrentAtom, GoesByName, GoesByContent

LEMMA AddByNameStep ==
  ASSUME NameInv, RepresentativeInv, NEW a \in Atoms, AddByName(a)
  PROVE  Step(a)
<1> DEFINE existing == nameTable[a.name]
<1>1. /\ a.name \in Names /\ a # NoAtom
      /\ GoesByName(a) /\ a.group = "none"
      /\ added' = added \cup {a}
      /\ groupTable' = groupTable /\ contentTable' = contentTable
      /\ MayAdd(a)
  BY NamedAtom, SymbolTableAssumption DEF AddByName, GoesByName
<1>2. CurrentAtom(a) = existing
  BY <1>1 DEF CurrentAtom
<1>3. \A x \in added : x \in Atoms /\ CurrentAtom(x) # NoAtom
  BY DEF NameInv, TypeOK, RepresentativeInv
<1>4. existing # NoAtom => /\ existing \in added
                           /\ GoesByName(existing) /\ existing.name = a.name
                           /\ CurrentAtom(existing) = existing
  <2>1. existing # NoAtom => /\ existing \in added
                             /\ GoesByName(existing) /\ existing.name = a.name
    BY <1>1, EntryIsAdded
  <2> QED BY <2>1 DEF CurrentAtom, GoesByName
<1>5. CASE AddNewName(a)
  <2>1. /\ existing = NoAtom
        /\ nameTable' = [nameTable EXCEPT ![a.name] = a]
        /\ replacedAtoms' = replacedAtoms /\ fatal' = fatal
    BY <1>5 DEF AddNewName
  <2>2. a \notin added
    BY <1>1, <1>2, <1>3, <2>1
  <2>3. CurrentAtom(a)' = a
    <3>1. nameTable'[a.name] = a
      BY <1>1, <2>1 DEF NameInv, TypeOK
    <3> QED BY <1>1, <3>1, CurrentStep
  <2>4. ASSUME NEW x \in added PROVE CurrentAtom(x)' = CurrentAtom(x)
    <3>1. x.group = "none" /\ GoesByName(x) => x.name \in Names /\ x.name # a.name
      BY <1>3, <2>1, NamedAtom DEF CurrentAtom
    <3>2. x.group = "none" /\ GoesByName(x) => nameTable'[x.name] = nameTable[x.name]
      BY <2>1, <3>1 DEF NameInv, TypeOK
    <3> QED BY <1>1, <3>2, CurrentStep DEF CurrentAtom
  <2> QED BY <1>1, <2>1, <2>2, <2>3, <2>4 DEF Step, NewKey
<1>6. CASE AddSameAtom(a)
  <2>1. /\ existing = a /\ nameTable' = nameTable
        /\ replacedAtoms' = replacedAtoms /\ fatal' = fatal
    BY <1>6 DEF AddSameAtom
  <2>2. a \in added
    BY <1>1, <1>4, <2>1
  <2>3. \A x \in Atoms : CurrentAtom(x)' = CurrentAtom(x)
    BY <1>1, <2>1, CurrentStep DEF CurrentAtom
  <2> QED BY <1>1, <1>2, <2>1, <2>2, <2>3 DEF Step, OldKey
<1>7. CASE AddConflicting(a)
  <2>1. /\ existing # NoAtom /\ nameTable' = nameTable
        /\ replacedAtoms' = replacedAtoms /\ fatal' = TRUE
    BY <1>7 DEF AddConflicting
  <2>2. \A x \in Atoms : CurrentAtom(x)' = CurrentAtom(x)
    BY <1>1, <2>1, CurrentStep DEF CurrentAtom
  <2> QED BY <1>1, <1>2, <2>1, <2>2 DEF Step, OldKey
<1>8. CASE AddWinner(a)
  <2>1. /\ existing \notin {NoAtom, a} /\ UseNew(existing, a)
        /\ nameTable' = [nameTable EXCEPT ![a.name] = a]
        /\ replacedAtoms' = [replacedAtoms EXCEPT ![existing] = a] /\ fatal' = fatal
    BY <1>8 DEF AddWinner
  <2>2. a \notin added
    BY <1>1, <2>1, WinnerIsNew
  <2>3. CurrentAtom(a)' = a
    <3>1. nameTable'[a.name] = a
      BY <1>1, <2>1 DEF NameInv, TypeOK
    <3> QED BY <1>1, <3>1, CurrentStep
  <2>4. ASSUME NEW x \in added
        PROVE  CurrentAtom(x)' = IF CurrentAtom(x) = existing THEN a ELSE CurrentAtom(x)
    <3>1. GoesByName(x) <=> GoesByName(CurrentAtom(x))
      BY CurrentOfCurrent
    <3>2. GoesByName(x) => CurrentAtom(x).name = x.name
      BY CurrentOfCurrent
    <3>3. CASE GoesByName(x)
      <4>1. x.group = "none" /\ x.name \in Names
        BY <1>3, <3>3, NamedAtom DEF GoesByName
      <4>2. CurrentAtom(x) = nameTable[x.name]
        BY <3>3, <4>1 DEF CurrentAtom
      <4>3. CurrentAtom(x) = existing <=> x.name = a.name
        BY <1>4, <2>1, <3>2, <3>3, <4>2
      <4>4. nameTable'[x.name] = IF x.name = a.name THEN a ELSE nameTable[x.name]
        BY <2>1, <4>1 DEF NameInv, TypeOK
      <4> QED BY <3>3, <4>1, <4>2, <4>3, <4>4, CurrentStep
    <3>4. CASE ~GoesByName(x)
      <4>1. CurrentAtom(x) # existing
        BY <1>4, <2>1, <3>1, <3>4
      <4>2. CurrentAtom(x)' = CurrentAtom(x)
        BY <1>1, <3>4, CurrentStep DEF CurrentAtom
      <4> QED BY <4>1, <4>2
    <3> QED BY <3>3, <3>4
  <2>5. Ahead(a, existing)
    BY <1>1, <1>4, <2>1, <2>2, <2>3, <2>4 DEF Ahead
  <2> QED BY <1>4, <2>1, <2>5 DEF Step
<1>9. CASE AddLoser(a)
  <2>1. /\ existing \notin {NoAtom, a} /\ nameTable' = nameTable
        /\ replacedAtoms' = [replacedAtoms EXCEPT ![a] = existing] /\ fatal' = fatal
    BY <1>9 DEF AddLoser
  <2>2. \A x \in Atoms : CurrentAtom(x)' = CurrentAtom(x)
    BY <1>1, <2>1, CurrentStep DEF CurrentAtom
  <2>3. Behind(a, existing)
    BY <1>1, <1>2, <1>4, <2>1, <2>2 DEF Behind
  <2> QED BY <1>4, <2>1, <2>3 DEF Step
<1> QED
  BY <1>5, <1>6, <1>7, <1>8, <1>9 DEF AddByName
LEMMA OtherStep ==
  ASSUME NameInv, RepresentativeInv, NEW a \in Atoms,
         AddByContent(a) \/ AddUntracked(a) \/ AddGroup(a) \/ AddReplacement(a)
  PROVE  Step(a)
<1>1. a # NoAtom
  BY SymbolTableAssumption
<1>2. \A x \in added : x \in Atoms /\ CurrentAtom(x) # NoAtom
  BY DEF NameInv, TypeOK, RepresentativeInv
<1>3. CASE AddByContent(a)
  <2> DEFINE e == contentTable[a.content]
  <2>1. /\ a.group = "none" /\ ~GoesByName(a) /\ GoesByContent(a) /\ MayAdd(a)
        /\ a.content \in Contents
        /\ added' = added \cup {a}
        /\ nameTable' = nameTable /\ groupTable' = groupTable /\ fatal' = fatal
    BY <1>3, SymbolTableAssumption DEF AddByContent, GoesByContent, AtomAssumption, AtomType
  <2>2. a \notin added /\ CurrentAtom(a) = e
    BY <2>1, ReaddedByName DEF CurrentAtom
  <2>3. CASE e = NoAtom
    <3>1. /\ contentTable' = [contentTable EXCEPT ![a.content] = a]
          /\ replacedAtoms' = replacedAtoms
      BY <1>3, <2>3 DEF AddByContent
    <3>2. CurrentAtom(a)' = a
      <4>1. contentTable'[a.content] = a
        BY <2>1, <3>1 DEF NameInv, TypeOK
      <4> QED BY <2>1, <4>1, CurrentStep
    <3>3. ASSUME NEW x \in added PROVE CurrentAtom(x)' = CurrentAtom(x)
      <4>1. ~GoesByName(x) /\ GoesByContent(x) => x.content # a.content
        BY <1>2, <2>3 DEF CurrentAtom, GoesByContent
      <4>2. ~GoesByName(x) /\ GoesByContent(x) =>
              contentTable'[x.content] = contentTable[x.content]
        <5>1. x.content \in Contents
          BY <1>2, SymbolTableAssumption DEF AtomAssumption, AtomType
        <5> QED BY <3>1, <4>1, <5>1 DEF NameInv, TypeOK
      <4> QED BY <2>1, <4>2, CurrentStep DEF CurrentAtom
    <3> QED BY <2>1, <2>2, <3>1, <3>2, <3>3 DEF Step, NewKey
  <2>4. CASE e # NoAtom
    <3>1. /\ contentTable' = contentTable
          /\ replacedAtoms' = [replacedAtoms EXCEPT ![a] = e]
      BY <1>3, <2>4 DEF AddByContent
    <3>2. e \in added /\ GoesByContent(e) /\ e.content = a.content
      BY <2>1, <2>4 DEF NameInv, TypeOK, RepresentativeInv
    <3>3. CurrentAtom(e) = e
      BY <3>2 DEF CurrentAtom, GoesByContent
    <3>4. \A x \in Atoms : CurrentAtom(x)' = CurrentAtom(x)
      BY <2>1, <3>1, CurrentStep DEF CurrentAtom
    <3>5. Behind(a, e)
      BY <2>1, <2>2, <3>1, <3>2, <3>3, <3>4 DEF Behind
    <3> QED BY <3>2, <3>5 DEF Step
  <2> QED BY <2>3, <2>4
<1>4. CASE AddUntracked(a)
  <2>1. /\ a.group = "none" /\ ~GoesByName(a) /\ ~GoesByContent(a) /\ MayAdd(a)
        /\ added' = added \cup {a}
        /\ nameTable' = nameTable /\ groupTable' = groupTable /\ contentTable' = contentTable
        /\ replacedAtoms' = replacedAtoms /\ fatal' = fatal
    BY <1>4 DEF AddUntracked
  <2>2. a \notin added
    BY <2>1, ReaddedByName
  <2>3. \A x : CurrentAtom(x)' = CurrentAtom(x)
    BY <2>1, CurrentStep DEF CurrentAtom
  <2>4. CurrentAtom(a) = a
    BY <2>1 DEF CurrentAtom
  <2> QED BY <2>1, <2>2, <2>3, <2>4 DEF Step, NewKey
<1>5. CASE AddGroup(a)
  <2> DEFINE e == groupTable[a.name]
  <2>1. /\ a.group # "none" /\ ~GoesByName(a) /\ MayAdd(a)
        /\ a.name \in Names
        /\ added' = added \cup {a}
        /\ nameTable' = nameTable /\ contentTable' = contentTable /\ fatal' = fatal
    BY <1>5, NamedGroup DEF AddGroup, GoesByName
  <2>2. a \notin added /\ CurrentAtom(a) = e
    BY <2>1, ReaddedByName DEF CurrentAtom
  <2>3. CASE e = NoAtom
    <3>1. /\ groupTable' = [groupTable EXCEPT ![a.name] = a]
          /\ replacedAtoms' = replacedAtoms
      BY <1>5, <2>3 DEF AddGroup
    <3>2. CurrentAtom(a)' = a
      <4>1. groupTable'[a.name] = a
        BY <2>1, <3>1 DEF NameInv, TypeOK
      <4> QED BY <2>1, <4>1, CurrentStep
    <3>3. ASSUME NEW x \in added PROVE CurrentAtom(x)' = CurrentAtom(x)
      <4>1. x.group # "none" => x.name \in Names /\ x.name # a.name
        BY <1>2, <2>3, NamedGroup DEF CurrentAtom
      <4>2. x.group # "none" => groupTable'[x.name] = groupTable[x.name]
        BY <3>1, <4>1 DEF NameInv, TypeOK
      <4> QED BY <2>1, <4>2, CurrentStep DEF CurrentAtom
    <3> QED BY <2>1, <2>2, <3>1, <3>2, <3>3 DEF Step, NewKey
  <2>4. CASE e # NoAtom
    <3>1. /\ groupTable' = groupTable
          /\ replacedAtoms' = [replacedAtoms EXCEPT ![a] = e]
      BY <1>5, <2>4 DEF AddGroup
    <3>2. e \in added /\ e.group # "none" /\ e.name = a.name
      BY <2>1, <2>4 DEF NameInv, TypeOK, RepresentativeInv
    <3>3. CurrentAtom(e) = e
      BY <3>2 DEF CurrentAtom
    <3>4. \A x \in Atoms : CurrentAtom(x)' = CurrentAtom(x)
      BY <2>1, <3>1, CurrentStep DEF CurrentAtom
    <3>5. Behind(a, e)
      BY <2>1, <2>2, <3>1, <3>2, <3>3, <3>4 DEF Behind
    <3> QED BY <3>2, <3>5 DEF Step
  <2> QED BY <2>3, <2>4
<1>6. CASE AddReplacement(a)
  <2>1. /\ a.fallback # NoAtom /\ a \in added /\ a.fallback \in added
        /\ nameTable[a.name] = a
        /\ replacedAtoms' = [replacedAtoms EXCEPT ![a] = a.fallback]
        /\ nameTable' = nameTable /\ groupTable' = groupTable /\ contentTable' = contentTable
        /\ fatal' = fatal /\ added' = added
    BY <1>6 DEF AddReplacement
  <2>2. a.definition = "undefined" /\ a.fallback.definition = "undefined"
    BY <2>1, SymbolTableAssumption DEF AtomAssumption
  <2>3. \A x \in {a, a.fallback} : x.group = "none"
    BY <1>2, <2>1, <2>2, SymbolTableAssumption DEF AtomAssumption
  <2>4. GoesByName(a) /\ GoesByName(a.fallback)
    BY <2>2, <2>3 DEF GoesByName
  <2>5. CurrentAtom(a) = a
    BY <2>1, <2>3, <2>4 DEF CurrentAtom
  <2>6. \A x : CurrentAtom(x)' = CurrentAtom(x)
    BY <2>1, CurrentStep DEF CurrentAtom
  <2> QED BY <2>1, <2>4, <2>5, <2>6 DEF Step, ToFallback
<1> QED
  BY <1>3, <1>4, <1>5, <1>6

\* The keys of the atoms stay what they are.
LEMMA StepRepresentative ==
  ASSUME NameInv, RepresentativeInv, NEW a \in Atoms, Step(a),
         \/ AddByName(a) \/ AddByContent(a) \/ AddUntracked(a) \/ AddGroup(a) \/ AddReplacement(a)
  PROVE  RepresentativeInv'
<1>1. a # NoAtom /\ NoAtom \notin added
  BY SymbolTableAssumption DEF NameInv, TypeOK
<1>2. ASSUME NEW x \in added' PROVE CurrentAtom(x)' # NoAtom
  <2>1. added \subseteq Atoms /\ \A y \in added : CurrentAtom(y) # NoAtom
    BY DEF NameInv, TypeOK, RepresentativeInv
  <2>2. CASE NewKey(a)
    BY <1>1, <1>2, <2>1, <2>2 DEF NewKey
  <2>3. CASE OldKey(a)
    BY <1>1, <1>2, <2>1, <2>3 DEF OldKey
  <2>4. CASE ToFallback(a)
    BY <1>1, <1>2, <2>1, <2>4 DEF ToFallback
  <2>5. ASSUME NEW e \in added, Ahead(a, e) PROVE CurrentAtom(x)' # NoAtom
    BY <1>1, <1>2, <2>1, <2>5 DEF Ahead
  <2>6. ASSUME NEW e \in added, Behind(a, e) PROVE CurrentAtom(x)' # NoAtom
    BY <1>1, <1>2, <2>1, <2>6 DEF Behind
  <2> QED BY <2>2, <2>3, <2>4, <2>5, <2>6 DEF Step
<1>3. ASSUME NEW c \in Contents, contentTable'[c] # NoAtom
      PROVE  GoesByContent(contentTable'[c]) /\ contentTable'[c].content = c
  <2>1. \/ contentTable'[c] = contentTable[c]
        \/ contentTable'[c] = a /\ GoesByContent(a) /\ a.content = c
    BY DEF AddByName, AddByContent, AddUntracked, AddGroup, AddReplacement, NameInv, TypeOK
  <2> QED BY <1>3, <2>1 DEF RepresentativeInv
<1>4. ASSUME NEW n \in Names, groupTable'[n] # NoAtom
      PROVE  groupTable'[n].group # "none" /\ groupTable'[n].name = n
  <2>1. \/ groupTable'[n] = groupTable[n]
        \/ groupTable'[n] = a /\ a.group # "none" /\ a.name = n
    BY DEF AddByName, AddByContent, AddUntracked, AddGroup, AddReplacement, NameInv, TypeOK
  <2> QED BY <1>4, <2>1 DEF RepresentativeInv
<1> QED
  BY <1>2, <1>3, <1>4 DEF RepresentativeInv, GoesByContent, GoesByName
LEMMA StepEdges ==
  ASSUME TypeOK, EdgeInv, NEW a \in Atoms, Step(a)
  PROVE  EdgeInv'
<1>1. replacedAtoms \in [Atoms -> added \cup {NoAtom}] /\ added \subseteq Atoms
  BY DEF TypeOK
<1>2. SUFFICES ASSUME NEW x \in added', replacedAtoms'[x] # NoAtom, GoesByName(x)
               PROVE  /\ GoesByName(replacedAtoms'[x])
                      /\ \/ replacedAtoms'[x].name = x.name
                         \/ replacedAtoms'[x] = x.fallback
  BY DEF EdgeInv, IsCoalescedAway, GoesByName
<1>3. x \in Atoms
  BY <1>1, <1>2 DEF Step, NewKey, OldKey, ToFallback, Ahead, Behind
<1>4. ASSUME replacedAtoms'[x] = replacedAtoms[x] PROVE x \in added
  BY <1>2, <1>3, <1>4 DEF TypeOK, IsCoalescedAway
<1>5. ASSUME replacedAtoms'[x] = replacedAtoms[x]
      PROVE  /\ GoesByName(replacedAtoms'[x])
             /\ replacedAtoms'[x].name = x.name \/ replacedAtoms'[x] = x.fallback
  BY <1>2, <1>4, <1>5 DEF EdgeInv, IsCoalescedAway
<1>6. CASE NewKey(a) \/ OldKey(a)
  BY <1>5, <1>6 DEF NewKey, OldKey
<1>7. CASE ToFallback(a)
  BY <1>1, <1>3, <1>5, <1>7 DEF ToFallback
<1>8. ASSUME NEW e \in added, Ahead(a, e)
      PROVE  /\ GoesByName(replacedAtoms'[x])
             /\ replacedAtoms'[x].name = x.name \/ replacedAtoms'[x] = x.fallback
  BY <1>1, <1>3, <1>5, <1>8 DEF Ahead
<1>9. ASSUME NEW e \in added, Behind(a, e)
      PROVE  /\ GoesByName(replacedAtoms'[x])
             /\ replacedAtoms'[x].name = x.name \/ replacedAtoms'[x] = x.fallback
  BY <1>1, <1>2, <1>3, <1>5, <1>9 DEF Behind
<1> QED
  BY <1>6, <1>7, <1>8, <1>9 DEF Step

LEMMA StepCurrent ==
  ASSUME NameInv, RepresentativeInv, CurrentInv, NEW a \in Atoms, Step(a)
  PROVE  CurrentInv'
<1>1. /\ replacedAtoms \in [Atoms -> added \cup {NoAtom}] /\ added \subseteq Atoms
      /\ \A x \in Atoms : replacedAtoms[x] # NoAtom => x \in added
      /\ NoAtom \notin added
  BY SymbolTableAssumption DEF NameInv, TypeOK, IsCoalescedAway
<1>2. SUFFICES ASSUME NEW x \in added', x = CurrentAtom(x)', replacedAtoms'[x] # NoAtom
               PROVE  x.fallback # NoAtom /\ replacedAtoms'[x] = x.fallback
  BY DEF CurrentInv, IsCoalescedAway
<1>3. \A y \in added : y = CurrentAtom(y) /\ replacedAtoms[y] # NoAtom =>
        y.fallback # NoAtom /\ replacedAtoms[y] = y.fallback
  BY DEF CurrentInv, IsCoalescedAway
<1>4. CASE NewKey(a)
  BY <1>1, <1>2, <1>3, <1>4 DEF NewKey
<1>5. CASE OldKey(a)
  BY <1>1, <1>2, <1>3, <1>5 DEF OldKey
<1>6. CASE ToFallback(a)
  BY <1>1, <1>2, <1>3, <1>6 DEF ToFallback
<1>7. ASSUME NEW e \in added, Ahead(a, e)
      PROVE  x.fallback # NoAtom /\ replacedAtoms'[x] = x.fallback
  <2>1. x # a
    BY <1>1, <1>2, <1>7 DEF Ahead
  <2>2. x \in added /\ x # e
    BY <1>2, <1>7, <2>1 DEF Ahead
  <2>3. x = CurrentAtom(x)
    BY <1>2, <1>7, <2>1, <2>2 DEF Ahead
  <2>4. replacedAtoms'[x] = replacedAtoms[x]
    BY <1>1, <1>7, <2>2 DEF Ahead
  <2> QED BY <1>2, <1>3, <2>2, <2>3, <2>4
<1>8. ASSUME NEW e \in added, Behind(a, e)
      PROVE  x.fallback # NoAtom /\ replacedAtoms'[x] = x.fallback
  <2>1. x # a
    BY <1>2, <1>8 DEF Behind
  <2> QED BY <1>1, <1>2, <1>3, <1>8, <2>1 DEF Behind
<1> QED
  BY <1>4, <1>5, <1>6, <1>7, <1>8 DEF Step

\* The same as an operator of the tables, to speak of the tables after a step.
KeyAtom(groups, names, contents, y) ==
  IF y.group # "none" THEN groups[y.name]
  ELSE IF GoesByName(y) THEN names[y.name]
  ELSE IF GoesByContent(y) THEN contents[y.content]
  ELSE y

LEMMA StepKeys ==
  ASSUME NameInv, RepresentativeInv, KeyInv, ~fatal, NEW a \in Atoms, Step(a)
  PROVE  KeyInv'
<1> DEFINE next(y) == KeyAtom(groupTable', nameTable', contentTable', y)
<1>0. \A y : CurrentAtom(y)' = next(y)
  BY CurrentStep DEF KeyAtom
<1>1. /\ replacedAtoms \in [Atoms -> added \cup {NoAtom}] /\ added \subseteq Atoms
      /\ NoAtom \notin added /\ a # NoAtom
  BY SymbolTableAssumption DEF NameInv, TypeOK
<1>2. SUFFICES ASSUME NEW x \in added', x # next(x), ~fatal'
               PROVE  replacedAtoms'[x] # NoAtom /\ next(replacedAtoms'[x]) = next(x)
  BY DEF KeyInv, IsCoalescedAway, CurrentAtom, KeyAtom, GoesByName, GoesByContent
<1>3. \A y \in added : y # CurrentAtom(y) =>
        /\ replacedAtoms[y] \in added
        /\ CurrentAtom(replacedAtoms[y]) = CurrentAtom(y)
  BY <1>1 DEF KeyInv, IsCoalescedAway
<1> HIDE DEF next
<1>4. CASE NewKey(a)
  <2>1. next(a) = a /\ \A y \in added : next(y) = CurrentAtom(y)
    BY <1>0, <1>4 DEF NewKey
  <2>2. x \in added /\ x # CurrentAtom(x)
    BY <1>2, <1>4, <2>1 DEF NewKey
  <2> QED BY <1>1, <1>3, <1>4, <2>1, <2>2 DEF NewKey
<1>5. CASE OldKey(a) \/ ToFallback(a)
  <2>1. \A y \in Atoms : next(y) = CurrentAtom(y)
    BY <1>0, <1>5 DEF OldKey, ToFallback
  <2>2. x \in added
    BY <1>2, <1>5 DEF OldKey, ToFallback
  <2>3. x # CurrentAtom(x)
    BY <1>1, <1>2, <2>1, <2>2
  <2>4. replacedAtoms'[x] = replacedAtoms[x]
    BY <1>1, <1>5, <2>2, <2>3 DEF OldKey, ToFallback
  <2> QED BY <1>1, <1>3, <2>1, <2>2, <2>3, <2>4
<1>6. ASSUME NEW e \in added, Ahead(a, e)
      PROVE  replacedAtoms'[x] # NoAtom /\ next(replacedAtoms'[x]) = next(x)
  <2>1. /\ next(a) = a
        /\ \A y \in added : next(y) = IF CurrentAtom(y) = e THEN a ELSE CurrentAtom(y)
    BY <1>0, <1>6 DEF Ahead
  <2>2. x # a /\ x \in added
    BY <1>2, <1>6, <2>1 DEF Ahead
  <2>3. CASE x = e
    <3>1. replacedAtoms'[x] = a /\ CurrentAtom(x) = e
      BY <1>1, <1>6, <2>3 DEF Ahead
    <3> QED BY <1>1, <2>1, <2>2, <3>1
  <2>4. CASE x # e
    <3>1. replacedAtoms'[x] = replacedAtoms[x]
      BY <1>1, <1>6, <2>2, <2>4 DEF Ahead
    <3>2. x # CurrentAtom(x)
      BY <1>2, <2>1, <2>2, <2>4
    <3> QED BY <1>1, <1>3, <2>1, <2>2, <3>1, <3>2
  <2> QED BY <2>3, <2>4
<1>7. ASSUME NEW e \in added, Behind(a, e)
      PROVE  replacedAtoms'[x] # NoAtom /\ next(replacedAtoms'[x]) = next(x)
  <2>1. \A y \in Atoms : next(y) = CurrentAtom(y)
    BY <1>0, <1>7 DEF Behind
  <2>2. CASE x = a
    <3>1. replacedAtoms'[x] = e /\ CurrentAtom(e) = CurrentAtom(x)
      BY <1>1, <1>7, <2>2 DEF Behind
    <3> QED BY <1>1, <2>1, <2>2, <3>1
  <2>3. CASE x # a
    <3>1. x \in added /\ x # CurrentAtom(x)
      BY <1>1, <1>2, <1>7, <2>1, <2>3 DEF Behind
    <3>2. replacedAtoms'[x] = replacedAtoms[x]
      BY <1>1, <1>7, <2>3, <3>1 DEF Behind
    <3> QED BY <1>1, <1>3, <2>1, <3>1, <3>2
  <2> QED BY <2>2, <2>3
<1> QED
  BY <1>4, <1>5, <1>6, <1>7 DEF Step
\* A set of atoms that the redirections do not leave.
Closed(S, replaced) == \A z \in S : replaced[z] \in S

\* The redirections of the atoms of one name all stay in the name or go up in
\* rank, so that those above the rank of a name never come back to it.
LEMMA NothingAbove ==
  ASSUME NEW rank, FallbacksLeadUp(rank), TypeOK, EdgeInv, NoReplacementCycle,
         NEW r \in Nat,
         NEW S \in SUBSET added,
         \A z \in S : GoesByName(z) /\ rank[z.name] > r => replacedAtoms[z] \in S
  PROVE  \A z \in S : ~(GoesByName(z) /\ rank[z.name] > r)
<1> DEFINE T == {z \in S : GoesByName(z) /\ rank[z.name] > r}
<1>1. ASSUME NEW z \in T PROVE replacedAtoms[z] \in T
  <2>1. z \in Atoms /\ z \in added /\ GoesByName(z) /\ rank[z.name] > r
    BY DEF TypeOK
  <2>2. replacedAtoms[z] \in S /\ replacedAtoms[z] \in added
    OBVIOUS
  <2>3. IsCoalescedAway(z)
    BY <2>2, SymbolTableAssumption DEF IsCoalescedAway, TypeOK
  <2>4. /\ GoesByName(replacedAtoms[z])
        /\ replacedAtoms[z].name = z.name \/ replacedAtoms[z] = z.fallback
    BY <2>1, <2>3 DEF EdgeInv
  <2>5. z.name \in Names /\ replacedAtoms[z].name \in Names
    BY <2>1, <2>2, <2>4, NamedAtom DEF TypeOK
  <2>6. replacedAtoms[z] = z.fallback => rank[z.name] < rank[replacedAtoms[z].name]
    BY <2>1, <2>3 DEF FallbacksLeadUp, IsCoalescedAway
  <2>7. rank[z.name] \in Nat /\ rank[replacedAtoms[z].name] \in Nat
    BY <2>5 DEF FallbacksLeadUp
  <2> QED BY <2>1, <2>2, <2>4, <2>6, <2>7
<1>2. T = {}
  <2>1. T \in SUBSET added
    OBVIOUS
  <2> HIDE DEF T
  <2> QED BY <1>1, <2>1 DEF NoReplacementCycle
<1> QED BY <1>2

LEMMA StepNoCycle ==
  ASSUME NEW rank, FallbacksLeadUp(rank),
         NameInv, RepresentativeInv, EdgeInv, CurrentInv, NoReplacementCycle,
         NEW a \in Atoms, Step(a)
  PROVE  NoReplacementCycle'
<1>1. /\ replacedAtoms \in [Atoms -> added \cup {NoAtom}] /\ added \subseteq Atoms
      /\ \A x \in Atoms : replacedAtoms[x] # NoAtom => x \in added
      /\ NoAtom \notin Atoms
  BY SymbolTableAssumption DEF NameInv, TypeOK, IsCoalescedAway
<1>2. added' = added \cup {a} \/ added' = added
  BY DEF Step, NewKey, OldKey, Ahead, Behind, ToFallback
<1>3. SUFFICES ASSUME NEW S \in SUBSET added', Closed(S, replacedAtoms') PROVE S = {}
  BY DEF NoReplacementCycle, Closed
<1>4. ASSUME NEW T \in SUBSET added, Closed(T, replacedAtoms) PROVE T = {}
  BY <1>4 DEF NoReplacementCycle, Closed
\* An atom that is not redirected is in no cycle.
<1>5. ASSUME a \notin added, replacedAtoms'[a] = NoAtom PROVE S \in SUBSET added
  BY <1>1, <1>2, <1>3, <1>5 DEF Closed
<1>6. CASE NewKey(a) \/ OldKey(a)
  <2>1. replacedAtoms' = replacedAtoms
    BY <1>6 DEF NewKey, OldKey
  <2>2. S \in SUBSET added
    BY <1>1, <1>2, <1>5, <2>1
  <2> QED BY <1>3, <1>4, <2>1, <2>2
<1>7. ASSUME NEW e \in added, Ahead(a, e) PROVE S = {}
  <2>1. /\ a \notin added /\ a # e
        /\ replacedAtoms' = [replacedAtoms EXCEPT ![e] = a]
    BY <1>7 DEF Ahead
  <2>2. replacedAtoms'[a] = NoAtom
    BY <1>1, <2>1
  <2>3. S \in SUBSET added /\ a \notin S
    BY <1>5, <2>1, <2>2
  <2>4. e \notin S
    BY <1>1, <1>3, <2>1, <2>3 DEF Closed
  <2>5. Closed(S, replacedAtoms)
    BY <1>1, <1>3, <2>1, <2>3, <2>4 DEF Closed
  <2> QED BY <1>4, <2>3, <2>5
\* An atom t that is new or of the name of a, where a is now redirected to t.
<1>8. ASSUME NEW t \in added, t # a,
             replacedAtoms' = [replacedAtoms EXCEPT ![a] = t],
             a \in S
      PROVE  /\ t \in S
             /\ a \in added
             /\ \A z \in S \ {a} : replacedAtoms[z] \in S
  <2>1. \A z \in S \ {a} : replacedAtoms[z] \in S
    BY <1>1, <1>2, <1>3, <1>8 DEF Closed
  <2>2. t \in S
    BY <1>1, <1>3, <1>8 DEF Closed
  <2>3. ASSUME a \notin added PROVE FALSE
    <3>1. S \ {a} \in SUBSET added
      BY <1>2
    <3>2. Closed(S \ {a}, replacedAtoms)
      BY <1>1, <2>1, <2>3, <3>1 DEF Closed
    <3>3. S \ {a} = {}
      BY <1>4, <3>1, <3>2
    <3> QED BY <1>8, <2>2, <3>3
  <2> QED BY <2>1, <2>2, <2>3
<1>9. ASSUME NEW t \in added, replacedAtoms' = [replacedAtoms EXCEPT ![a] = t], a \notin S
      PROVE  S = {}
  <2>1. S \in SUBSET added
    BY <1>2, <1>9
  <2>2. Closed(S, replacedAtoms)
    BY <1>1, <1>3, <1>9, <2>1 DEF Closed
  <2> QED BY <1>4, <2>1, <2>2
\* If a comes back to itself, so does an atom above its name.
<1>10. ASSUME GoesByName(a), a \in added, a \in S,
              \A z \in S \ {a} : replacedAtoms[z] \in S,
              NEW z0 \in S, GoesByName(z0), rank[a.name] < rank[z0.name]
       PROVE  FALSE
  <2>1. a.name \in Names /\ rank[a.name] \in Nat
    BY <1>10, NamedAtom DEF FallbacksLeadUp
  <2>2. S \in SUBSET added
    BY <1>2, <1>10
  <2>3. \A z \in S : GoesByName(z) /\ rank[z.name] > rank[a.name] => replacedAtoms[z] \in S
    BY <1>10, <2>1
  <2>4. TypeOK
    BY DEF NameInv
  <2>5. \A z \in S : ~(GoesByName(z) /\ rank[z.name] > rank[a.name])
    BY <2>1, <2>2, <2>3, <2>4, NothingAbove
  <2>6. z0.name \in Names /\ rank[z0.name] \in Nat
    BY <1>1, <1>10, <2>2, NamedAtom DEF FallbacksLeadUp
  <2> QED BY <1>10, <2>1, <2>5, <2>6
<1>11. CASE ToFallback(a)
  <2>1. /\ a \in added /\ GoesByName(a)
        /\ a.fallback \in added /\ GoesByName(a.fallback)
        /\ replacedAtoms' = [replacedAtoms EXCEPT ![a] = a.fallback]
    BY <1>11 DEF ToFallback
  <2>2. a.fallback # NoAtom
    BY <1>1, <2>1
  <2>3. rank[a.name] < rank[a.fallback.name]
    BY <2>2 DEF FallbacksLeadUp
  <2>4. a.fallback # a
    BY <2>2, SymbolTableAssumption DEF AtomAssumption
  <2>5. a \notin S
    BY <1>8, <1>10, <2>1, <2>3, <2>4
  <2> QED BY <1>9, <2>1, <2>5
<1>12. ASSUME NEW e \in added, Behind(a, e) PROVE S = {}
  <2>1. /\ e # a /\ CurrentAtom(e) = e
        /\ a \notin added \/ GoesByName(a)
        /\ GoesByName(a) => GoesByName(e) /\ e.name = a.name
        /\ replacedAtoms' = [replacedAtoms EXCEPT ![a] = e]
    BY <1>12 DEF Behind
  <2>2. ASSUME a \in S PROVE FALSE
    <3>1. e \in S /\ a \in added /\ \A z \in S \ {a} : replacedAtoms[z] \in S
      BY <1>8, <2>1, <2>2
    <3>2. replacedAtoms[e] \in S /\ replacedAtoms[e] # NoAtom
      BY <1>1, <1>2, <2>1, <3>1
    <3>3. replacedAtoms[e] = e.fallback /\ e.fallback # NoAtom
      BY <2>1, <3>2 DEF CurrentInv, IsCoalescedAway
    <3>4. e \in Atoms /\ GoesByName(e) /\ e.name = a.name
      BY <1>1, <2>1, <3>1
    <3>5. rank[a.name] < rank[e.fallback.name]
      BY <3>3, <3>4 DEF FallbacksLeadUp
    <3>6. GoesByName(e.fallback)
      BY <3>2, <3>3, <3>4 DEF EdgeInv, IsCoalescedAway
    <3> QED BY <1>10, <2>1, <2>2, <3>1, <3>2, <3>3, <3>5, <3>6
  <2> QED BY <1>9, <2>1, <2>2
<1> QED
  BY <1>6, <1>7, <1>11, <1>12 DEF Step

LEMMA NextChainInv ==
  ASSUME NEW rank, FallbacksLeadUp(rank), ChainInv, [Next]_vars
  PROVE  ChainInv'
<1>1. NameInv'
  BY NextNameInv DEF ChainInv
<1>2. CASE UNCHANGED vars
  BY <1>1, <1>2
  DEF vars, ChainInv, RepresentativeInv, EdgeInv, KeyInv, CurrentInv, NoReplacementCycle,
      CurrentAtom, IsCoalescedAway
<1>3. CASE Next
  <2>1. PICK a \in Atoms :
          AddByName(a) \/ AddByContent(a) \/ AddUntracked(a) \/ AddGroup(a) \/ AddReplacement(a)
    BY <1>3 DEF Next
  <2>2. Step(a)
    BY <2>1, AddByNameStep, OtherStep DEF ChainInv
  <2>3. ~fatal
    BY <2>1 DEF AddByName, AddByContent, AddUntracked, AddGroup, AddReplacement, MayAdd
  <2>4. RepresentativeInv'
    BY <2>1, <2>2, StepRepresentative DEF ChainInv
  <2>5. EdgeInv'
    BY <2>2, StepEdges DEF ChainInv, NameInv
  <2>6. KeyInv'
    BY <2>2, <2>3, StepKeys DEF ChainInv
  <2>7. CurrentInv'
    BY <2>2, StepCurrent DEF ChainInv
  <2>8. NoReplacementCycle'
    BY <2>2, StepNoCycle DEF ChainInv
  <2>9. IsFiniteSet(added)'
    <3>1. added' = added \cup {a} \/ added' = added
      BY <2>2 DEF Step, NewKey, OldKey, Ahead, Behind, ToFallback
    <3> QED BY <3>1, FS_AddElement DEF ChainInv
  <2> QED BY <1>1, <2>4, <2>5, <2>6, <2>7, <2>8, <2>9 DEF ChainInv
<1> QED BY <1>2, <1>3

LEMMA ChainIsCurrent ==
  ASSUME ChainInv
  PROVE  ReplacementIsCurrent
<1> SUFFICES ASSUME ~fatal PROVE ReplacementIsCurrent
  BY DEF ReplacementIsCurrent
<1> DEFINE Astray == {x \in added : Replacement(x) # Replacement(CurrentAtom(x))}
<1>1. Astray = {}
  <2> SUFFICES ASSUME Astray # {} PROVE FALSE
    OBVIOUS
  <2>1. Astray \in (SUBSET added) \ {{}}
    OBVIOUS
  <2>2. PICK x \in Astray : replacedAtoms[x] \notin Astray
    BY <2>1 DEF ChainInv, NoReplacementCycle
  <2>3. x \in added /\ x # CurrentAtom(x)
    OBVIOUS
  <2>4. IsCoalescedAway(x) /\ CurrentAtom(replacedAtoms[x]) = CurrentAtom(x)
    BY <2>3 DEF ChainInv, KeyInv
  <2>5. replacedAtoms[x] \in added
    BY <2>3, <2>4 DEF ChainInv, NameInv, TypeOK, IsCoalescedAway
  <2>6. Replacement(x) = Replacement(replacedAtoms[x])
    BY <2>3, <2>4, ReplacementOfLoser DEF ChainInv, NameInv
  <2>7. Replacement(replacedAtoms[x]) = Replacement(CurrentAtom(replacedAtoms[x]))
    BY <2>2, <2>5
  <2> QED BY <2>2, <2>4, <2>6, <2>7
<1>2. ASSUME NEW x \in added, IsCoalescedAway(CurrentAtom(x))
      PROVE  /\ CurrentAtom(x).fallback # NoAtom
             /\ replacedAtoms[CurrentAtom(x)] = CurrentAtom(x).fallback
  <2>1. CurrentAtom(x) \in added /\ CurrentAtom(CurrentAtom(x)) = CurrentAtom(x)
    BY CurrentOfCurrent DEF ChainInv
  <2> QED BY <1>2, <2>1 DEF ChainInv, CurrentInv
<1> QED
  BY <1>1, <1>2 DEF ReplacementIsCurrent

LEMMA InitChainInv == Init => ChainInv
<1> SUFFICES ASSUME Init PROVE ChainInv
  OBVIOUS
<1>1. NameInv
  BY InitNameInv
<1>2. IsFiniteSet(added)
  BY FS_EmptySet DEF Init
<1> QED
  BY <1>1, <1>2
  DEF Init, ChainInv, RepresentativeInv, EdgeInv, KeyInv, CurrentInv, NoReplacementCycle

\* All references to a name, a group or a content end at one atom, whichever
\* loser they start from and however often the winner has changed, if no chain
\* of fallbacks comes back to a name.
THEOREM LosersAreRedirected ==
  ASSUME NEW CONSTANT rank, FallbacksLeadUp(rank)
  PROVE  Spec => []LosersLeadToTheWinner
<1>1. ChainInv /\ [Next]_vars => ChainInv'
  BY NextChainInv
<1>2. ChainInv => LosersLeadToTheWinner
  BY ChainIsCurrent DEF ChainInv, NameInv, LosersLeadToTheWinner
<1> QED
  BY <1>1, <1>2, InitChainInv, PTL DEF Spec
=============================================================================
