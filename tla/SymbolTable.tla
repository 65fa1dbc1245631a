---------------------------- MODULE SymbolTable ----------------------------
(***************************************************************************)
(* The symbol table of the core linker (lib/Core/SymbolTable.cpp): it      *)
(* coalesces atoms by name, by content and by section group, and remembers *)
(* for every atom that lost the atom that replaced it.                     *)
(*                                                                         *)
(* Atoms are records. The fields a property can tell apart are kept:       *)
(*   definition  one of Definitions (Atom::Definition)                     *)
(*   name        a member of Names, or NoName for an anonymous atom        *)
(*   scope       "global" or "translationUnit" (file-static)               *)
(*   merge       one of Merges (DefinedAtom::Merge)                        *)
(*   size        DefinedAtom::sectionSize()                                *)
(*   canBeNull   0..2, canBeNullNever < AtRuntime < AtBuildtime            *)
(*   fallback    the alternative UndefinedAtom, or NoAtom                  *)
(*   content     the class of AtomMappingInfo::isEqual                     *)
(*   readOnly    permissions() = permR__                                   *)
(*   file        tells apart equal atoms of different files                *)
(*   group       "none", "groupComdat" or "gnuLinkOnce": contentType of a  *)
(*               group parent                                              *)
(***************************************************************************)
EXTENDS Naturals, FiniteSets

CONSTANTS
  Atoms,           \* every atom that an input file can hold
  Names,           \* the symbol names
  Contents,        \* classes of equal content
  NoName,          \* the empty StringRef
  NoAtom,          \* nullptr
  SharedLibraries  \* the values of file that are shared libraries

Definitions == {"regular", "absolute", "undefined", "sharedLibrary"}

Merges == {"no", "tentative", "weak", "weakAddress", "sameNameAndSize",
           "largest", "byContent"}

AtomType(a) ==
  /\ a.definition \in Definitions
  /\ a.name \in Names \cup {NoName}
  /\ a.scope \in {"global", "translationUnit"}
  /\ a.merge \in Merges
  /\ a.size \in Nat
  /\ a.canBeNull \in 0 .. 2
  /\ a.fallback \in Atoms \cup {NoAtom}
  /\ a.content \in Contents
  /\ a.readOnly \in BOOLEAN
  /\ a.group \in {"none", "groupComdat", "gnuLinkOnce"}

(***************************************************************************)
(* What the readers guarantee of the atoms they build: the assertions of   *)
(* SymbolTable::add, addGroup and addByName, and a fallback that is itself *)
(* an undefined atom of another name (ReaderCOFF.cpp pairs the two symbols *)
(* of a weak external, SymbolRenameFile the two names it maps). The atoms  *)
(* that carry a fallback are COFFUndefinedAtoms, which are canBeNullNever. *)
(* No reader gives a shared library defined or absolute atoms.             *)
(***************************************************************************)
AtomAssumption(a) ==
  /\ AtomType(a)
  /\ a.definition # "regular" => a.name \in Names
  /\ a.group # "none" => a.definition = "regular" /\ a.name \in Names
  /\ a.definition = "regular" /\ a.merge = "byContent" => a.name = NoName
  /\ a.fallback # NoAtom =>
        /\ a.definition = "undefined"
        /\ a.fallback.definition = "undefined"
        /\ a.fallback.fallback = NoAtom
        /\ a.fallback.name # a.name
        /\ a.canBeNull = 0
        /\ a.file \notin SharedLibraries
  /\ a.file \in SharedLibraries => a.definition \in {"undefined", "sharedLibrary"}

ASSUME SymbolTableAssumption ==
  /\ NoAtom \notin Atoms
  /\ NoName \notin Names
  /\ \A a \in Atoms : AtomAssumption(a)

VARIABLES
  nameTable,      \* _nameTable: the atom a name currently stands for
  groupTable,     \* _groupTable: the first group of a name
  contentTable,   \* _contentTable: the representative of a content class
  replacedAtoms,  \* _replacedAtoms: loser -> winner
  fatal,          \* report_fatal_error was called: the process has exited
  added,          \* history: the atoms handed to the table so far
  allowDuplicates \* LinkingContext::getAllowDuplicates(), an option of the link

vars ==
  <<nameTable, groupTable, contentTable, replacedAtoms, fatal, added, allowDuplicates>>

Init ==
  /\ nameTable = [n \in Names |-> NoAtom]
  /\ groupTable = [n \in Names |-> NoAtom]
  /\ contentTable = [c \in Contents |-> NoAtom]
  /\ replacedAtoms = [a \in Atoms |-> NoAtom]
  /\ fatal = FALSE
  /\ added = {}
  /\ allowDuplicates \in BOOLEAN

-----------------------------------------------------------------------------
(***************************************************************************)
(* The decision tables, as data.                                           *)
(***************************************************************************)

\* cases[first][second]: who wins when two atoms have the same name.
Collide == [
  regular       |-> [regular |-> "DupDef", absolute |-> "Error",
                     undefined |-> "First", sharedLibrary |-> "First"],
  absolute      |-> [regular |-> "Error", absolute |-> "Error",
                     undefined |-> "First", sharedLibrary |-> "First"],
  undefined     |-> [regular |-> "Second", absolute |-> "Second",
                     undefined |-> "DupUndef", sharedLibrary |-> "Second"],
  sharedLibrary |-> [regular |-> "Second", absolute |-> "Second",
                     undefined |-> "First", sharedLibrary |-> "DupShLib"]]

\* mergeCases[first][second]: who wins between two regular definitions.
MergeCases == [
  no          |-> [no |-> "Error", tentative |-> "First", weak |-> "First",
                   weakAddress |-> "First", sameNameAndSize |-> "SameSize",
                   largest |-> "Largest"],
  tentative   |-> [no |-> "Second", tentative |-> "Largest", weak |-> "Second",
                   weakAddress |-> "Second", sameNameAndSize |-> "SameSize",
                   largest |-> "Largest"],
  weak        |-> [no |-> "Second", tentative |-> "First", weak |-> "First",
                   weakAddress |-> "Second", sameNameAndSize |-> "SameSize",
                   largest |-> "Largest"],
  weakAddress |-> [no |-> "Second", tentative |-> "First", weak |-> "First",
                   weakAddress |-> "First", sameNameAndSize |-> "SameSize",
                   largest |-> "Largest"],
  sameNameAndSize |-> [m \in Merges \ {"byContent"} |-> "SameSize"],
  largest     |-> [m \in Merges \ {"byContent"} |->
                     IF m = "sameNameAndSize" THEN "SameSize" ELSE "Largest"]]

\* Mutant: the table is indexed by the new atom first.
MergeSelectSwapped(first, second) == MergeCases[second.merge][first.merge]

MergeSelect(first, second) == MergeCases[first.merge][second.merge]

\* Two regular definitions: the new one is kept.
DefUseNew(existing, new) ==
  LET select == MergeSelect(existing, new) IN
  \/ select = "Second"
  \/ select = "Largest" /\ new.size >= existing.size
  \/ select = "SameSize" /\ new.size = existing.size

\* Two regular definitions that may not coexist (a size mismatch falls
\* through to the duplicate symbol error).
DefConflict(existing, new) ==
  LET select == MergeSelect(existing, new) IN
  \/ select = "Error"
  \/ select = "SameSize" /\ new.size # existing.size

\* Mutant: the comparison of the two weaknesses is the wrong way round.
UndefUseNewWeaker(existing, new) ==
  IF existing.canBeNull = new.canBeNull
    THEN new.fallback # NoAtom
    ELSE new.canBeNull > existing.canBeNull

\* Two undefined atoms: the stricter one is kept, and among equally strict
\* ones the new one if it brings a fallback.
UndefUseNew(existing, new) ==
  IF existing.canBeNull = new.canBeNull
    THEN new.fallback # NoAtom
    ELSE new.canBeNull < existing.canBeNull

\* Mutant: collide() is called with its arguments swapped.
UseNewSwapped(existing, new) ==
  LET resolution == Collide[new.definition][existing.definition] IN
  \/ resolution = "Second"
  \/ resolution = "DupDef" /\ DefUseNew(existing, new)
  \/ resolution = "DupUndef" /\ UndefUseNew(existing, new)

\* The switch of addByName: whether the new atom is kept ...
UseNew(existing, new) ==
  LET resolution == Collide[existing.definition][new.definition] IN
  \/ resolution = "Second"
  \/ resolution = "DupDef" /\ DefUseNew(existing, new)
  \/ resolution = "DupUndef" /\ UndefUseNew(existing, new)

\* Mutant: NCR_Error is excused by allowDuplicates, as MCR_Error is.
ConflictAllExcused(existing, new) ==
  LET resolution == Collide[existing.definition][new.definition] IN
  /\ ~allowDuplicates
  /\ \/ resolution = "Error"
     \/ resolution = "DupDef" /\ DefConflict(existing, new)

\* ... and whether it ends in report_fatal_error instead.
Conflict(existing, new) ==
  LET resolution == Collide[existing.definition][new.definition] IN
  \/ resolution = "Error"
  \/ /\ resolution = "DupDef"
     /\ DefConflict(existing, new)
     /\ ~allowDuplicates
-----------------------------------------------------------------------------
(***************************************************************************)
(* Queries.                                                                *)
(***************************************************************************)

FindByName(n) == nameTable[n]

IsDefined(n) == nameTable[n] # NoAtom /\ nameTable[n].definition # "undefined"

IsCoalescedAway(a) == replacedAtoms[a] # NoAtom

\* replacement() walks the chain from atom to atom. The walk is given as many
\* steps as there are atoms, which is enough for any chain without a cycle.
Replacement(a) ==
  LET next == [b \in Atoms |-> IF IsCoalescedAway(b) THEN replacedAtoms[b] ELSE b]
      walk[i \in 0 .. Cardinality(added)] == IF i = 0 THEN a ELSE next[walk[i - 1]]
  IN  walk[Cardinality(added)]

\* undefines(): the names still standing for an undefined atom in its own right.
Undefines ==
  {nameTable[n] : n \in {m \in Names :
     /\ nameTable[m] # NoAtom
     /\ nameTable[m].definition = "undefined"
     /\ ~IsCoalescedAway(nameTable[m])}}

TentativeDefinitions ==
  {n \in Names : /\ nameTable[n] # NoAtom
                 /\ nameTable[n].definition = "regular"
                 /\ nameTable[n].merge = "tentative"}

-----------------------------------------------------------------------------
(***************************************************************************)
(* add(): which of the tables an atom goes to.                             *)
(***************************************************************************)

GoesByName(a) ==
  /\ a.group = "none"
  /\ a.definition = "regular" => a.name # NoName /\ a.scope = "global"

GoesByContent(a) ==
  /\ a.group = "none"
  /\ ~GoesByName(a)
  /\ a.merge = "byContent"
  /\ a.readOnly

\* The resolver hands every atom to the table once; only a shared library is
\* visited again, and its atoms with it.
MayAdd(a) ==
  /\ ~fatal
  /\ a \in added => a.file \in SharedLibraries

AddNewName(a) ==
  /\ nameTable[a.name] = NoAtom
  /\ nameTable' = [nameTable EXCEPT ![a.name] = a]
  /\ UNCHANGED <<replacedAtoms, fatal>>

\* Mutant: addByName lacks its early return for an atom that is added again.
AddSameAtomAsLoser(a) ==
  /\ nameTable[a.name] = a
  /\ replacedAtoms' = [replacedAtoms EXCEPT ![a] = a]
  /\ UNCHANGED <<nameTable, fatal>>

AddSameAtom(a) ==
  /\ nameTable[a.name] = a
  /\ UNCHANGED <<nameTable, replacedAtoms, fatal>>

AddConflicting(a) ==
  /\ nameTable[a.name] \notin {NoAtom, a}
  /\ Conflict(nameTable[a.name], a)
  /\ fatal' = TRUE
  /\ UNCHANGED <<nameTable, replacedAtoms>>

\* Mutant: the atom that loses its name is not recorded as replaced.
AddWinnerUnrecorded(a) ==
  LET existing == nameTable[a.name] IN
  /\ existing \notin {NoAtom, a}
  /\ ~Conflict(existing, a)
  /\ UseNew(existing, a)
  /\ nameTable' = [nameTable EXCEPT ![a.name] = a]
  /\ UNCHANGED <<replacedAtoms, fatal>>

AddWinner(a) ==
  LET existing == nameTable[a.name] IN
  /\ existing \notin {NoAtom, a}
  /\ ~Conflict(existing, a)
  /\ UseNew(existing, a)
  /\ nameTable' = [nameTable EXCEPT ![a.name] = a]
  /\ replacedAtoms' = [replacedAtoms EXCEPT ![existing] = a]
  /\ UNCHANGED fatal

AddLoser(a) ==
  LET existing == nameTable[a.name] IN
  /\ existing \notin {NoAtom, a}
  /\ ~Conflict(existing, a)
  /\ ~UseNew(existing, a)
  /\ replacedAtoms' = [replacedAtoms EXCEPT ![a] = existing]
  /\ UNCHANGED <<nameTable, fatal>>

AddByName(a) ==
  /\ MayAdd(a)
  /\ GoesByName(a)
  /\ added' = added \cup {a}
  /\ UNCHANGED <<groupTable, contentTable>>
  /\ \/ AddNewName(a)
     \/ AddSameAtom(a)
     \/ AddConflicting(a)
     \/ AddWinner(a)
     \/ AddLoser(a)

AddByContent(a) ==
  /\ MayAdd(a)
  /\ GoesByContent(a)
  /\ added' = added \cup {a}
  /\ UNCHANGED <<nameTable, groupTable, fatal>>
  /\ IF contentTable[a.content] = NoAtom
       THEN /\ contentTable' = [contentTable EXCEPT ![a.content] = a]
            /\ UNCHANGED replacedAtoms
       ELSE /\ replacedAtoms' =
                 [replacedAtoms EXCEPT ![a] = contentTable[a.content]]
            /\ UNCHANGED contentTable

\* A file-static atom, or an anonymous one that may not be merged.
AddUntracked(a) ==
  /\ MayAdd(a)
  /\ a.group = "none"
  /\ ~GoesByName(a)
  /\ ~GoesByContent(a)
  /\ added' = added \cup {a}
  /\ UNCHANGED <<nameTable, groupTable, contentTable, replacedAtoms, fatal>>

AddGroup(a) ==
  /\ MayAdd(a)
  /\ a.group # "none"
  /\ added' = added \cup {a}
  /\ UNCHANGED <<nameTable, contentTable, fatal>>
  /\ IF groupTable[a.name] = NoAtom
       THEN /\ groupTable' = [groupTable EXCEPT ![a.name] = a]
            /\ UNCHANGED replacedAtoms
       ELSE /\ replacedAtoms' =
                 [replacedAtoms EXCEPT ![a] = groupTable[a.name]]
            /\ UNCHANGED groupTable

\* Mutant: the atom is redirected before its fallback is in the table.
AddReplacementEarly(a) ==
  /\ ~fatal
  /\ a.fallback # NoAtom
  /\ a \in added
  /\ nameTable[a.name] = a
  /\ replacedAtoms' = [replacedAtoms EXCEPT ![a] = a.fallback]
  /\ UNCHANGED <<nameTable, groupTable, contentTable, fatal, added>>

\* Resolver::doUndefinedAtom adds the fallback right after the atom and then
\* redirects the atom to it. It does so only while the name has no definition,
\* when an atom with a fallback has just won the name (UndefUseNew).
AddReplacement(a) ==
  /\ ~fatal
  /\ a.fallback # NoAtom
  /\ {a, a.fallback} \subseteq added
  /\ nameTable[a.name] = a
  /\ replacedAtoms' = [replacedAtoms EXCEPT ![a] = a.fallback]
  /\ UNCHANGED <<nameTable, groupTable, contentTable, fatal, added>>

Next ==
  /\ UNCHANGED allowDuplicates
  /\ \E a \in Atoms : \/ AddByName(a)
                      \/ AddByContent(a)
                      \/ AddUntracked(a)
                      \/ AddGroup(a)
                      \/ AddReplacement(a)

Spec == Init /\ [][Next]_vars

-----------------------------------------------------------------------------
(***************************************************************************)
(* Properties.                                                             *)
(***************************************************************************)

\* Every table holds only atoms of the right key that were added, and a
\* replaced atom was added and is replaced by an atom that was added.
TypeOK ==
  /\ added \subseteq Atoms
  /\ fatal \in BOOLEAN
  /\ allowDuplicates \in BOOLEAN
  /\ nameTable \in [Names -> added \cup {NoAtom}]
  /\ groupTable \in [Names -> added \cup {NoAtom}]
  /\ contentTable \in [Contents -> added \cup {NoAtom}]
  /\ replacedAtoms \in [Atoms -> added \cup {NoAtom}]
  /\ \A a \in Atoms : IsCoalescedAway(a) => a \in added

\* The atom that the key of a (its name, group name or content) stands for.
CurrentAtom(a) ==
  IF a.group # "none" THEN groupTable[a.name]
  ELSE IF GoesByName(a) THEN nameTable[a.name]
  ELSE IF GoesByContent(a) THEN contentTable[a.content]
  ELSE a

\* replacement() follows _replacedAtoms until an atom that has no entry
\* (SymbolTable.cpp:350-359), so the table must never hold a cycle: every
\* non-empty set of atoms has a member whose replacement is outside the set.
NoReplacementCycle ==
  \A S \in (SUBSET added) \ {{}} : \E a \in S : replacedAtoms[a] \notin S

\* Every atom added resolves to what its name, group or content stands for
\* now, however many times the winner has changed since; and a current atom is
\* itself replaced only by its own fallback. updateReferences relies on it: all
\* references to one name end at one atom.
ReplacementIsCurrent ==
  ~fatal =>
    \A a \in added :
      LET current == CurrentAtom(a) IN
      /\ Replacement(a) = Replacement(current)
      /\ IsCoalescedAway(current) =>
           /\ current.fallback # NoAtom
           /\ replacedAtoms[current] = current.fallback

\* All references to a name end at one atom, from whichever loser they start
\* and after however many changes of the winner.
LosersLeadToTheWinner == TypeOK /\ NoReplacementCycle /\ ReplacementIsCurrent

AddedByName(n) == {a \in added : GoesByName(a) /\ a.name = n}

\* No COMDAT selection by size.
Simple(a) == a.definition = "regular" => a.merge \notin {"sameNameAndSize", "largest"}

SimpleName(n) == \A a \in AddedByName(n) : Simple(a)

Strength(a) ==
  LET byMerge == [tentative |-> 2, weak |-> 3, weakAddress |-> 4, no |-> 5,
                  sameNameAndSize |-> 5, largest |-> 5]
      byDefinition == [undefined |-> 0, sharedLibrary |-> 1, absolute |-> 5]
  IN  IF a.definition = "regular" THEN byMerge[a.merge] ELSE byDefinition[a.definition]

\* Whatever the order of the files, a name stands for a strongest atom of those
\* added, and for a largest one among tentative (ANSI C common) definitions.
StrongestWins ==
  ~fatal =>
    \A n \in Names : SimpleName(n) =>
      \A a \in AddedByName(n) :
        /\ Strength(a) <= Strength(nameTable[n])
        /\ Strength(a) = 2 /\ Strength(nameTable[n]) = 2 =>
             a.size <= nameTable[n].size

\* Two strong definitions of a name are never merged silently: the second one
\* ends the link unless duplicates are allowed, and an absolute one always.
NoDuplicateDefinition ==
  ~fatal =>
    \A n \in Names : SimpleName(n) =>
      \A a, b \in AddedByName(n) :
        /\ a # b
        /\ Strength(a) = 5
        /\ Strength(b) = 5
        => /\ allowDuplicates
           /\ "absolute" \notin {a.definition, b.definition}

\* One strict reference to an undefined name is enough to make the name
\* required (checkUndefines asks the atom in the table only).
UndefinedIsStrictest ==
  \A n \in Names :
    nameTable[n] # NoAtom /\ nameTable[n].definition = "undefined" =>
      \A a \in AddedByName(n) : nameTable[n].canBeNull <= a.canBeNull

\* Once a name is resolved it stays so. Resolver::forEachUndefines forgets a
\* name for good as soon as it sees it resolved (Resolver.cpp:57-61). A new
\* atom with a fallback is about to be resolved by AddReplacement.
Resolved(n) ==
  /\ nameTable[n] # NoAtom
  /\ nameTable[n].definition # "undefined" \/ IsCoalescedAway(nameTable[n])

ResolvedForever ==
  [][\A n \in Names :
       Resolved(n) =>
         \/ Resolved(n)'
         \/ nameTable'[n].definition = "undefined"
            /\ nameTable'[n].fallback # NoAtom]_vars
=============================================================================
