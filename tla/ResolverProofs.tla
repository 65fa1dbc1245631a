--------------------------- MODULE ResolverProofs ---------------------------
(***************************************************************************)
(* Proofs about the resolver, for every set of atoms and files and every   *)
(* input that satisfies the assumptions of Resolver. The table first: the  *)
(* resolver refines it, and T imports what is proved of it. Then the       *)
(* search of libraries, the walk over the nodes, what dead stripping       *)
(* keeps, and at last what becomes of every atom.                          *)
(***************************************************************************)
EXTENDS Resolver, Iteration, SequenceTheorems

T == INSTANCE SymbolTableProofs WITH allowDuplicates <- Has("allowDuplicates")

LEMMA TableAssumption == T!SymbolTableAssumption
  BY ResolverAssumption
  DEF ST!SymbolTableAssumption, T!SymbolTableAssumption, ST!AtomAssumption,
      T!AtomAssumption, ST!AtomType, T!AtomType, ST!Definitions, T!Definitions,
      ST!Merges, T!Merges

\* The steps that hand nothing to the table.
LEMMA OtherSteps ==
  ASSUME Next
  PROVE  \/ UNCHANGED <<table, input>>
         \/ \E a \in Atoms : \/ DoDefinedAtom(a)
                             \/ DoGroupParent(a)
                             \/ DoGroupChild(a)
                             \/ DoUndefinedAtom("undefined", a)
                             \/ DoUndefinedAtom("fallback", a)
                             \/ AddReplacement(a)
                             \/ DoSharedLibraryAtom(a)
                             \/ DoAbsoluteAtom(a)
<1>1. CASE GroupAgain \/ GroupLeave \/ LeaveFile \/ LastFile
  BY <1>1 DEF GroupAgain, GroupLeave, LeaveFile, LastFile
<1>2. CASE \E f \in Files : ParseFails(f) \/ VisitObject(f) \/ VisitLibrary(f)
  BY <1>2 DEF ParseFails, VisitObject, VisitLibrary
<1>3. CASE SearchUndefine \/ SkipUndefine \/ SearchTentatives
  BY <1>3 DEF SearchUndefine, SkipUndefine, SearchTentatives
<1>4. CASE SearchAgain \/ SearchEnds \/ \E n \in Names : SearchTentative(n)
  BY <1>4 DEF SearchAgain, SearchEnds, SearchTentative
<1>5. CASE UpdateReferences \/ DeadStripOptimize \/ CheckUndefines
  BY <1>5 DEF UpdateReferences, DeadStripOptimize, CheckUndefines
<1>6. CASE RemoveCoalescedAwayAtoms \/ UNCHANGED vars
  BY <1>6 DEF RemoveCoalescedAwayAtoms, vars
<1> QED
  BY <1>1, <1>2, <1>3, <1>4, <1>5, <1>6 DEF Next

\* What a step on an atom does to the table.
LEMMA AtomStep ==
  ASSUME NEW a \in Atoms,
         \/ DoDefinedAtom(a)
         \/ DoGroupParent(a)
         \/ DoGroupChild(a)
         \/ DoUndefinedAtom("undefined", a)
         \/ DoUndefinedAtom("fallback", a)
         \/ AddReplacement(a)
         \/ DoSharedLibraryAtom(a)
         \/ DoAbsoluteAtom(a)
  PROVE  /\ input' = input
         /\ \/ AddToTable(a)
            \/ ST!AddGroup(a)
            \/ ST!AddReplacement(a)
            \/ UNCHANGED table
  BY DEF DoDefinedAtom, DoGroupParent, DoGroupChild, DoUndefinedAtom, AddReplacement,
         DoSharedLibraryAtom, DoAbsoluteAtom, Known

\* Every step of the resolver is a step of the table or none.
LEMMA TableStep ==
  ASSUME [Next]_vars
  PROVE  /\ input' = input
         /\ [ST!Next]_(ST!vars)
<1>1. CASE UNCHANGED <<table, input>>
  BY <1>1 DEF table, ST!vars, Has
<1>2. ASSUME NEW a \in Atoms,
             input' = input,
             AddToTable(a) \/ ST!AddGroup(a) \/ ST!AddReplacement(a)
      PROVE  ST!Next
  BY <1>2 DEF AddToTable, ST!Next, Has
<1>3. CASE UNCHANGED vars
  BY <1>1, <1>3 DEF vars
<1> QED
  BY <1>1, <1>2, <1>3, OtherSteps, AtomStep

LEMMA TableInit == Init => ST!Init
  BY DEF Init, ST!Init, Has

\* The resolver uses the table as module SymbolTable specifies it, whatever
\* files it is given: all that is proved of the table holds in every link.
THEOREM TableRefined == Spec => TableSpec
<1> QED
  BY TableInit, TableStep, PTL DEF Spec, TableSpec, ST!Spec

\* T and ST are the same module.
LEMMA SameInit == ST!Init <=> T!Init
  BY DEF ST!Init, T!Init

LEMMA SameQueries ==
  /\ \A a : ST!GoesByName(a) <=> T!GoesByName(a)
  /\ \A a : ST!IsCoalescedAway(a) <=> T!IsCoalescedAway(a)
  BY DEF ST!GoesByName, T!GoesByName, ST!IsCoalescedAway, T!IsCoalescedAway

LEMMA SameDecisions ==
  /\ \A a, b : ST!UseNew(a, b) <=> T!UseNew(a, b)
  /\ \A a, b : ST!Conflict(a, b) <=> T!Conflict(a, b)
  BY DEF ST!UseNew, T!UseNew, ST!Conflict, T!Conflict, ST!Collide, T!Collide,
         ST!DefUseNew, T!DefUseNew, ST!DefConflict, T!DefConflict, ST!UndefUseNew,
         T!UndefUseNew, ST!MergeSelect, T!MergeSelect, ST!MergeCases, T!MergeCases,
         ST!Merges, T!Merges

LEMMA SameActions ==
  /\ \A a : ST!AddByName(a) <=> T!AddByName(a)
  /\ \A a : ST!AddByContent(a) <=> T!AddByContent(a)
  /\ \A a : ST!AddUntracked(a) <=> T!AddUntracked(a)
  /\ \A a : ST!AddGroup(a) <=> T!AddGroup(a)
  /\ \A a : ST!AddReplacement(a) <=> T!AddReplacement(a)
<1>1. \A a : ST!MayAdd(a) <=> T!MayAdd(a)
  BY DEF ST!MayAdd, T!MayAdd
<1>2. \A a : ST!GoesByContent(a) <=> T!GoesByContent(a)
  BY SameQueries DEF ST!GoesByContent, T!GoesByContent
<1>3. \A a : ST!AddByName(a) <=> T!AddByName(a)
  BY <1>1, SameQueries, SameDecisions
  DEF ST!AddByName, T!AddByName, ST!AddNewName, T!AddNewName, ST!AddSameAtom,
      T!AddSameAtom, ST!AddConflicting, T!AddConflicting, ST!AddWinner, T!AddWinner,
      ST!AddLoser, T!AddLoser
<1> QED
  BY <1>1, <1>2, <1>3, SameQueries
  DEF ST!AddByContent, T!AddByContent, ST!AddUntracked, T!AddUntracked, ST!AddGroup,
      T!AddGroup, ST!AddReplacement, T!AddReplacement

LEMMA SameStep == [ST!Next]_(ST!vars) <=> [T!Next]_(T!vars)
  BY SameActions DEF ST!Next, T!Next, ST!vars, T!vars

LEMMA TableBehaves == Spec => T!Spec
  BY TableInit, TableStep, SameInit, SameStep, PTL DEF Spec, T!Spec

\* In every link, whatever the order of the files and the libraries searched:
\* a name stands for a strongest of its atoms, strong duplicates are not merged
\* silently, and an undefined name is as strict as its strictest use.
THEOREM TableInEveryLink ==
  Spec => [](T!StrongestWins /\ T!NoDuplicateDefinition /\ T!UndefinedIsStrictest)
<1>1. T!Spec => []T!StrongestWins
  BY TableAssumption, T!StrongestIsKept
<1>2. T!Spec => []T!NoDuplicateDefinition
  BY TableAssumption, T!DuplicatesAreFound
<1>3. T!Spec => []T!UndefinedIsStrictest
  BY TableAssumption, T!StrictestIsKept
<1> QED
  BY <1>1, <1>2, <1>3, TableBehaves, PTL

\* In every link the coalesced atoms lead to the atom that their name stands for,
\* along fallbacks and replacements, if the fallbacks of the input form no cycle:
\* this is what updateReferences() follows.
THEOREM LosersAreRedirectedInEveryLink ==
  ASSUME NEW CONSTANT rank, T!FallbacksLeadUp(rank)
  PROVE  Spec => []T!LosersLeadToTheWinner
<1>1. T!Spec => []T!LosersLeadToTheWinner
  BY TableAssumption, T!LosersAreRedirected
<1> QED
  BY <1>1, TableBehaves, PTL

-----------------------------------------------------------------------------
(***************************************************************************)
(* Sequences, for todo and for the list of undefined names.                *)
(***************************************************************************)

IsSeq(s) == s \in Seq(ToSet(s))

LEMMA FunctionIsSeq ==
  ASSUME NEW n \in Nat, NEW s, s = [i \in 1 .. n |-> s[i]]
  PROVE  IsSeq(s)
<1>1. \A i \in 1 .. n : s[i] \in ToSet(s)
  BY DEF ToSet
<1> QED
  BY <1>1 DEF IsSeq

LEMMA SeqIsSeq ==
  ASSUME NEW S, NEW s \in Seq(S)
  PROVE  IsSeq(s)
<1>1. Len(s) \in Nat /\ s = [i \in 1 .. Len(s) |-> s[i]]
  OBVIOUS
<1> QED
  BY <1>1, FunctionIsSeq

LEMMA ConcatIsSeq ==
  ASSUME NEW s, IsSeq(s), NEW t, IsSeq(t)
  PROVE  IsSeq(s \o t) /\ ToSet(t) \subseteq ToSet(s \o t) /\ ToSet(s) \subseteq ToSet(s \o t)
<1> DEFINE U == ToSet(s) \cup ToSet(t)
<1>1. s \in Seq(U) /\ t \in Seq(U)
  BY DEF IsSeq
<1>2. s \o t \in Seq(U)
  BY <1>1
<1>3. IsSeq(s \o t)
  BY <1>2, SeqIsSeq
<1>4. /\ Len(s \o t) = Len(s) + Len(t)
      /\ \A i \in 1 .. Len(s) : (s \o t)[i] = s[i]
      /\ \A i \in 1 .. Len(t) : (s \o t)[Len(s) + i] = t[i]
      /\ DOMAIN t = 1 .. Len(t) /\ DOMAIN s = 1 .. Len(s)
      /\ DOMAIN (s \o t) = 1 .. Len(s) + Len(t)
      /\ Len(s) \in Nat /\ Len(t) \in Nat
  BY <1>1, <1>2
<1>5. ASSUME NEW i \in DOMAIN t PROVE t[i] \in ToSet(s \o t)
  BY <1>4 DEF ToSet
<1>6. ASSUME NEW i \in DOMAIN s PROVE s[i] \in ToSet(s \o t)
  BY <1>4 DEF ToSet
<1> QED
  BY <1>3, <1>5, <1>6 DEF ToSet

LEMMA TailIsSeq ==
  ASSUME NEW s, IsSeq(s), s # <<>>
  PROVE  IsSeq(Tail(s)) /\ \A q \in ToSet(s) : q = Head(s) \/ q \in ToSet(Tail(s))
<1>1. s \in Seq(ToSet(s))
  BY DEF IsSeq
<1>2. Tail(s) \in Seq(ToSet(s)) /\ Head(s) = s[1] /\ Len(Tail(s)) = Len(s) - 1
  BY <1>1
<1>3. \A i \in 1 .. Len(s) : i # 1 => i - 1 \in 1 .. Len(Tail(s)) /\ Tail(s)[i - 1] = s[i]
  BY <1>1, <1>2
<1>4. DOMAIN Tail(s) = 1 .. Len(Tail(s)) /\ DOMAIN s = 1 .. Len(s)
  BY <1>1, <1>2
<1>5. IsSeq(Tail(s))
  BY <1>2, SeqIsSeq
<1>6. ASSUME NEW i \in DOMAIN s PROVE s[i] = Head(s) \/ s[i] \in ToSet(Tail(s))
  <2>1. CASE i = 1
    BY <1>2, <2>1
  <2>2. CASE i # 1
    <3>1. i - 1 \in DOMAIN Tail(s) /\ Tail(s)[i - 1] = s[i]
      BY <1>3, <1>4, <2>2
    <3> QED
      BY <3>1 DEF ToSet
  <2> QED
    BY <2>1, <2>2
<1> QED
  BY <1>5, <1>6 DEF ToSet

LEMMA PairIsSeq ==
  ASSUME NEW p, NEW q
  PROVE  IsSeq(<<p, q>>) /\ q \in ToSet(<<p, q>>) /\ IsSeq(<<p>>)
<1>1. <<p, q>> \in Seq({p, q}) /\ <<p>> \in Seq({p})
  OBVIOUS
<1>2. q = <<p, q>>[2] /\ 2 \in DOMAIN <<p, q>>
  OBVIOUS
<1> QED
  BY <1>1, <1>2, SeqIsSeq DEF ToSet

LEMMA CallsIsSeq ==
  ASSUME NEW op, NEW S, NEW t \in Seq(S)
  PROVE  IsSeq(Calls(op, t))
<1>1. Len(t) \in Nat /\ t = [i \in 1 .. Len(t) |-> t[i]]
  OBVIOUS
<1> DEFINE s == Calls(op, t)
<1>2. s = [i \in 1 .. Len(t) |-> s[i]]
  BY DEF Calls
<1> QED
  BY <1>1, <1>2, FunctionIsSeq

LEMMA HandleFileIsSeq ==
  ASSUME NEW f \in Files, LinkAssumption(input)
  PROVE  IsSeq(HandleFile(f))
<1> DEFINE content == input.file[f]
<1>1. {content.defined, content.undefined, content.sharedLibrary, content.absolute}
        \subseteq Seq(Atoms)
  BY DEF LinkAssumption
<1>2. /\ IsSeq(Calls("defined", content.defined))
      /\ IsSeq(Calls("undefined", content.undefined))
      /\ IsSeq(Calls("sharedLibrary", content.sharedLibrary))
      /\ IsSeq(Calls("absolute", content.absolute))
  BY <1>1, CallsIsSeq
<1> QED
  BY <1>2, ConcatIsSeq DEF HandleFile

LEMMA ToSetOfSeq ==
  ASSUME NEW X, NEW s \in Seq(X)
  PROVE  /\ ToSet(s) = {s[i] : i \in 1 .. Len(s)}
         /\ ToSet(s) \subseteq X
         /\ IsFiniteSet(ToSet(s))
<1>1. DOMAIN s = 1 .. Len(s) /\ Len(s) \in Nat /\ \A i \in 1 .. Len(s) : s[i] \in X
  OBVIOUS
<1>2. ToSet(s) = {s[i] : i \in 1 .. Len(s)}
  BY <1>1 DEF ToSet
<1>3. IsFiniteSet(1 .. Len(s))
  BY <1>1, FS_Interval
<1>4. IsFiniteSet({s[i] : i \in 1 .. Len(s)})
  BY <1>3, FiniteValues
<1> QED
  BY <1>1, <1>2, <1>4

LEMMA ToSetOfAppend ==
  ASSUME NEW X, NEW s \in Seq(X), NEW x \in X
  PROVE  Append(s, x) \in Seq(X) /\ ToSet(Append(s, x)) = ToSet(s) \cup {x}
<1> DEFINE t == Append(s, x)
<1>1. t \in Seq(X) /\ Len(t) = Len(s) + 1 /\ Len(s) \in Nat
  OBVIOUS
<1>2. t[Len(s) + 1] = x /\ \A i \in 1 .. Len(s) : t[i] = s[i]
  OBVIOUS
<1>3. ToSet(t) = {t[i] : i \in 1 .. Len(s) + 1} /\ ToSet(s) = {s[i] : i \in 1 .. Len(s)}
  BY <1>1, ToSetOfSeq
<1>4. \A i \in 1 .. Len(s) + 1 : i = Len(s) + 1 \/ i \in 1 .. Len(s)
  BY <1>1
<1>5. Len(s) + 1 \in 1 .. Len(s) + 1 /\ \A i \in 1 .. Len(s) : i \in 1 .. Len(s) + 1
  BY <1>1
<1> HIDE DEF t
<1>6. ToSet(t) \subseteq ToSet(s) \cup {x}
  BY <1>2, <1>3, <1>4
<1>7. ToSet(s) \cup {x} \subseteq ToSet(t)
  BY <1>2, <1>3, <1>5
<1> QED
  BY <1>1, <1>6, <1>7 DEF t

LEMMA ToSetOfConcat ==
  ASSUME NEW s, IsSeq(s), NEW t, IsSeq(t)
  PROVE  ToSet(s \o t) = ToSet(s) \cup ToSet(t)
<1> DEFINE U == ToSet(s) \cup ToSet(t)
<1>1. s \in Seq(U) /\ t \in Seq(U)
  BY DEF IsSeq
<1>2. s \o t \in Seq(U)
  BY <1>1
<1> HIDE DEF U
<1>3. ToSet(s \o t) \subseteq U
  BY <1>2, ToSetOfSeq
<1> QED
  BY <1>3, ConcatIsSeq DEF U

\* A sublist has the elements of the list that are in the set.
LEMMA SublistHas ==
  ASSUME NEW X, NEW s \in Seq(X), NEW S
  PROVE  Sublist(s, S) \in Seq(X) /\ ToSet(Sublist(s, S)) = ToSet(s) \cap S
<1> DEFINE n == Len(s)
           next(k, t) == IF s[k] \in S THEN Append(t, s[k]) ELSE t
           step == [k \in 1 .. n |-> [t \in Seq(X) |-> next(k, t)]]
           IsUpTo(f) == f = [i \in 0 .. n |->
                               IF i = 0 THEN <<>>
                               ELSE IF s[i] \in S THEN Append(f[i - 1], s[i]) ELSE f[i - 1]]
           u == CHOOSE f : IsUpTo(f)
<1>1. n \in Nat /\ \A k \in 1 .. n : s[k] \in X
  OBVIOUS
<1>2. Sublist(s, S) = u[n]
  BY DEF Sublist
<1>3. \E f : IsUpTo(f)
  <2>1. StepsWithin(Seq(X), n, step)
    BY <1>1 DEF StepsWithin
  <2>2. <<>> \in Seq(X)
    OBVIOUS
  <2>3. \A k \in 1 .. n : \A t \in Seq(X) : step[k][t] = next(k, t)
    OBVIOUS
  <2> HIDE DEF step, n
  <2>4. PICK f : IsIteration(f, Seq(X), <<>>, n, step)
    BY <1>1, <2>1, <2>2, Iterates
  <2>5. f \in [0 .. n -> Seq(X)] /\ f[0] = <<>> /\ \A k \in 1 .. n : f[k] = step[k][f[k - 1]]
    BY <2>4 DEF IsIteration
  <2>6. \A k \in 0 .. n : k # 0 => k \in 1 .. n /\ k - 1 \in 0 .. n
    BY <1>1
  <2>7. \A k \in 0 .. n : k # 0 => f[k] = next(k, f[k - 1])
    BY <2>3, <2>5, <2>6
  <2>8. f = [k \in 0 .. n |-> f[k]]
    BY <2>5
  <2>9. IsUpTo(f)
    BY <2>5, <2>7, <2>8
  <2> QED BY <2>9
<1>4. IsUpTo(u)
  BY <1>3
<1>5. u[0] = <<>> /\ \A i \in 0 .. n : i < n => u[i + 1] = next(i + 1, u[i])
  <2>1. \A i \in 0 .. n : u[i] = IF i = 0 THEN <<>> ELSE next(i, u[i - 1])
    BY <1>4
  <2>2. \A i \in 0 .. n : i < n => i + 1 \in 0 .. n /\ i + 1 # 0 /\ (i + 1) - 1 = i
    BY <1>1
  <2> HIDE DEF u
  <2> QED BY <1>1, <2>1, <2>2
<1> HIDE DEF u
<1> DEFINE Has1(i) == u[i] \in Seq(X) /\ ToSet(u[i]) = {s[j] : j \in 1 .. i} \cap S
           R == {i \in 0 .. n : Has1(i)}
<1>6. 0 \in R
  <2>1. ToSet(<<>>) = {} /\ <<>> \in Seq(X) /\ {s[j] : j \in 1 .. 0} = {}
    BY DEF ToSet
  <2>2. Has1(0)
    BY <1>5, <2>1
  <2> QED BY <1>1, <2>2
<1>7. ASSUME NEW i \in 0 .. n, Has1(i), i < n PROVE Has1(i + 1)
  <2>1. i + 1 \in 1 .. n /\ s[i + 1] \in X
    BY <1>1, <1>7
  <2>2. {s[j] : j \in 1 .. i + 1} = {s[j] : j \in 1 .. i} \cup {s[i + 1]}
    <3>1. \A j \in 1 .. i + 1 : j = i + 1 \/ j \in 1 .. i
      OBVIOUS
    <3>2. i + 1 \in 1 .. i + 1 /\ \A j \in 1 .. i : j \in 1 .. i + 1
      OBVIOUS
    <3> QED BY <3>1, <3>2
  <2>3. CASE s[i + 1] \in S
    <3>1. u[i + 1] = Append(u[i], s[i + 1])
      BY <1>5, <1>7, <2>3
    <3>2. u[i + 1] \in Seq(X) /\ ToSet(u[i + 1]) = ToSet(u[i]) \cup {s[i + 1]}
      BY <1>7, <2>1, <3>1, ToSetOfAppend
    <3> QED BY <1>7, <2>2, <2>3, <3>2
  <2>4. CASE s[i + 1] \notin S
    <3>1. u[i + 1] = u[i]
      BY <1>5, <1>7, <2>4
    <3> QED BY <1>7, <2>2, <2>4, <3>1
  <2> QED BY <2>3, <2>4
<1>8. n \in R
  <2>1. \A i \in 0 .. n : i < n => i + 1 \in 0 .. n
    BY <1>1
  <2>2. \A i \in 0 .. n : i \in R /\ i < n => i + 1 \in R
    BY <1>7, <2>1
  <2> HIDE DEF R, n
  <2>3. \A i \in 0 .. n : i \in R
    BY <1>1, <1>6, <2>2, UpToInduction
  <2> QED BY <1>1, <2>3
<1>9. ToSet(s) = {s[j] : j \in 1 .. n}
  BY ToSetOfSeq
<1> QED
  BY <1>2, <1>8, <1>9

LEMMA ChildrenIsSeq ==
  ASSUME NEW a, RefsAreTyped(input), refs = input.refs
  PROVE  IsSeq(Children(a))
<1> DEFINE R == RefsIn(refs, a)
           child == Sublist(R, {r \in ToSet(R) : r.kind = "groupChild"})
           s == Children(a)
           Refs == [kind : STRING, target : Atoms]
<1>1. R \in Seq(Refs)
  <2>1. <<>> \in Seq(Refs)
    OBVIOUS
  <2>2. a \in DOMAIN refs => refs[a] \in Seq(Refs)
    BY DEF RefsAreTyped
  <2> QED BY <2>1, <2>2 DEF RefsIn
<1>2. Len(child) \in Nat
  <2> HIDE DEF R, Refs
  <2> QED BY <1>1, SublistHas
<1>3. s = [i \in 1 .. Len(child) |-> s[i]]
  BY DEF Children
<1> QED
  BY <1>2, <1>3, FunctionIsSeq

-----------------------------------------------------------------------------
(***************************************************************************)
(* What a step on the table does to the entry of a name.                   *)
(***************************************************************************)

LEMMA CoalescedStays ==
  ASSUME T!NameInv, NEW a \in Atoms, NEW b \in Atoms, replacedAtoms[b] # NoAtom,
         \/ T!AddByName(a) \/ T!AddByContent(a) \/ T!AddUntracked(a)
         \/ T!AddGroup(a) \/ T!AddReplacement(a)
  PROVE  replacedAtoms'[b] # NoAtom
<1>1. replacedAtoms \in [Atoms -> added \cup {NoAtom}]
  BY DEF T!NameInv, T!TypeOK
<1>2. CASE T!AddByName(a)
  BY <1>1, <1>2, TableAssumption
  DEF T!AddByName, T!AddNewName, T!AddSameAtom, T!AddConflicting, T!AddWinner,
      T!AddLoser, T!SymbolTableAssumption
<1>3. CASE T!AddByContent(a) \/ T!AddUntracked(a)
  BY <1>1, <1>3 DEF T!AddByContent, T!AddUntracked
<1>4. CASE T!AddGroup(a)
  BY <1>1, <1>4 DEF T!AddGroup
<1>5. CASE T!AddReplacement(a)
  BY <1>1, <1>5 DEF T!AddReplacement
<1> QED
  BY <1>2, <1>3, <1>4, <1>5

\* What is known of an undefined atom, and of the entry of a name.
LEMMA UndefinedAtom ==
  ASSUME NEW a \in Atoms, a.definition = "undefined"
  PROVE  /\ a.name \in Names
         /\ a # NoAtom
         /\ a.canBeNull \in Nat
         /\ a.fallback # NoAtom => a.canBeNull = 0
         /\ AddToTable(a) => T!AddByName(a)
<1>1. T!AtomAssumption(a) /\ NoAtom \notin Atoms
  BY TableAssumption DEF T!SymbolTableAssumption
<1>2. a.group = "none"
  BY <1>1 DEF T!AtomAssumption, T!AtomType
<1>3. T!GoesByName(a)
  BY <1>2 DEF T!GoesByName
<1>4. AddToTable(a) => T!AddByName(a)
  BY <1>3, SameActions DEF AddToTable, T!AddByContent, T!AddUntracked, T!GoesByContent
<1> QED
  BY <1>1, <1>4 DEF T!AtomAssumption, T!AtomType

LEMMA Entry ==
  ASSUME T!NameInv, NEW n \in Names, nameTable[n] # NoAtom
  PROVE  nameTable[n] \in Atoms /\ nameTable[n].name = n
  BY TableAssumption, T!EntryIsAdded

\* A definition, or an atom of a group, leaves no name unresolved that was not.
LEMMA DefinitionStep ==
  ASSUME T!NameInv, NEW a \in Atoms, a.definition # "undefined",
         AddToTable(a) \/ ST!AddGroup(a),
         NEW n \in Names, nameTable'[n] # NoAtom, UnresolvedName(n)'
  PROVE  nameTable'[n] = nameTable[n] /\ UnresolvedName(n)
<1>1. T!AddByName(a) \/ T!AddByContent(a) \/ T!AddUntracked(a) \/ T!AddGroup(a)
  BY SameActions DEF AddToTable
<1>2. nameTable'[n] = nameTable[n]
  <2>1. CASE T!AddByName(a)
    <3>1. \/ nameTable'[n] = nameTable[n]
          \/ nameTable'[n] = a
      BY <2>1, TableAssumption, T!EntryStep
    <3> QED
      BY <3>1 DEF UnresolvedName
  <2>2. CASE T!AddByContent(a) \/ T!AddUntracked(a) \/ T!AddGroup(a)
    BY <2>2 DEF T!AddByContent, T!AddUntracked, T!AddGroup
  <2> QED
    BY <1>1, <2>1, <2>2
<1>3. nameTable[n] \in Atoms
  BY <1>2, Entry
<1>4. replacedAtoms[nameTable[n]] # NoAtom => replacedAtoms'[nameTable[n]] # NoAtom
  BY <1>1, <1>3, CoalescedStays
<1> QED
  BY <1>2, <1>4 DEF UnresolvedName, ST!IsCoalescedAway

\* An undefined atom takes a name that has an entry only with a fallback of its
\* own, or from an entry that was still unresolved and has none.
LEMMA UndefinedStep ==
  ASSUME T!NameInv, NEW a \in Atoms, a.definition = "undefined", AddToTable(a),
         NEW n \in Names, nameTable[n] # NoAtom, nameTable'[n] # NoAtom, UnresolvedName(n)'
  PROVE  \/ nameTable'[n] = nameTable[n] /\ UnresolvedName(n)
         \/ n = a.name /\ nameTable'[n] = a /\ a.fallback # NoAtom
         \/ /\ n = a.name /\ nameTable'[n] = a
            /\ nameTable[n].fallback = NoAtom /\ UnresolvedName(n)
<1> DEFINE e == nameTable[n]
<1>1. T!AddByName(a) /\ a.canBeNull \in Nat
  BY UndefinedAtom
<1>2. e \in Atoms /\ e.name = n
  BY Entry
<1>3. CASE nameTable'[n] = e
  <2>1. replacedAtoms[e] # NoAtom => replacedAtoms'[e] # NoAtom
    BY <1>1, <1>2, CoalescedStays
  <2> QED
    BY <1>3, <2>1 DEF UnresolvedName, ST!IsCoalescedAway
<1>4. CASE n = a.name /\ nameTable'[n] = a /\ T!UseNew(e, a)
  <2>1. e.definition = "undefined"
    BY <1>2, <1>4, TableAssumption, T!UndefinedLoses
  <2>2. T!UndefUseNew(e, a)
    BY <1>2, <1>4, <2>1, TableAssumption, T!UndefinedAgain
  <2> SUFFICES ASSUME a.fallback = NoAtom
               PROVE  e.fallback = NoAtom /\ UnresolvedName(n)
    BY <1>4
  <2>3. e.fallback = NoAtom
    BY <1>1, <1>2, <2>1, <2>2, UndefinedAtom DEF T!UndefUseNew
  <2>4. replacedAtoms[e] = NoAtom
    BY <2>3 DEF T!NameInv, T!FallbackInv, T!IsCoalescedAway
  <2> QED
    BY <2>1, <2>3, <2>4 DEF UnresolvedName, ST!IsCoalescedAway
<1> QED
  BY <1>1, <1>3, <1>4, TableAssumption, T!EntryStep

\* A name that is defined stays defined ...
LEMMA DefinedStays ==
  ASSUME T!NameInv, [Next]_vars, NEW n \in Names, ST!IsDefined(n)
  PROVE  ST!IsDefined(n)'
<1>1. nameTable[n] # NoAtom /\ nameTable[n].definition # "undefined"
  BY DEF ST!IsDefined
<1>2. CASE nameTable' = nameTable
  BY <1>1, <1>2 DEF ST!IsDefined
<1>3. ASSUME NEW a \in Atoms, T!AddByName(a)
      PROVE  nameTable'[n] # NoAtom /\ nameTable'[n].definition # "undefined"
  <2>1. a # NoAtom /\ nameTable[n] \in Atoms
    BY <1>1, Entry, TableAssumption DEF T!SymbolTableAssumption
  <2>2. a.definition = "undefined" => ~T!UseNew(nameTable[n], a)
    BY <1>1, <2>1, TableAssumption, T!UndefinedLoses
  <2> QED
    BY <1>1, <1>3, <2>1, <2>2, TableAssumption, T!EntryStep
<1>4. ASSUME NEW a \in Atoms,
             T!AddByContent(a) \/ T!AddUntracked(a) \/ T!AddGroup(a) \/ T!AddReplacement(a)
      PROVE  nameTable' = nameTable
  BY <1>4 DEF T!AddByContent, T!AddUntracked, T!AddGroup, T!AddReplacement
<1>5. T!Next \/ nameTable' = nameTable
  BY TableStep, SameStep DEF T!vars
<1> QED
  BY <1>2, <1>3, <1>4, <1>5 DEF T!Next, ST!IsDefined

\* ... and is once an atom of a shared library was added for it.
LEMMA SharedStep ==
  ASSUME T!NameInv, NEW a \in Atoms, a.definition = "sharedLibrary", AddToTable(a)
  PROVE  a.name \in Names /\ ST!IsDefined(a.name)'
<1>1. T!AtomAssumption(a) /\ a # NoAtom
  BY TableAssumption DEF T!SymbolTableAssumption
<1>2. T!GoesByName(a)
  BY <1>1 DEF T!AtomAssumption, T!AtomType, T!GoesByName
<1>3. T!AddByName(a)
  BY <1>2, SameActions DEF AddToTable, T!AddByContent, T!AddUntracked, T!GoesByContent
<1>4. a.name \in Names
  BY <1>1 DEF T!AtomAssumption
<1>5. CASE nameTable[a.name] = NoAtom
  BY <1>1, <1>3, <1>4, <1>5, TableAssumption, T!EntryStep DEF ST!IsDefined
<1>6. CASE nameTable[a.name] # NoAtom
  <2>1. nameTable[a.name] \in Atoms
    BY <1>4, <1>6, Entry
  <2>2. CASE nameTable[a.name].definition # "undefined"
    BY <1>1, <1>3, <1>4, <1>6, <2>2, TableAssumption, T!EntryStep DEF ST!IsDefined
  <2>3. CASE nameTable[a.name].definition = "undefined"
    <3>1. T!UseNew(nameTable[a.name], a) /\ ~T!Conflict(nameTable[a.name], a)
      BY <2>1, <2>3, TableAssumption, T!UndefinedYields
    <3>2. nameTable[a.name] # a
      BY <2>3
    <3>3. T!AddWinner(a)
      BY <1>3, <1>6, <3>1, <3>2
      DEF T!AddByName, T!AddNewName, T!AddSameAtom, T!AddConflicting, T!AddLoser
    <3>4. nameTable \in [Names -> added \cup {NoAtom}]
      BY DEF T!NameInv, T!TypeOK
    <3> QED
      BY <1>1, <1>4, <3>3, <3>4 DEF T!AddWinner, ST!IsDefined
  <2> QED
    BY <2>2, <2>3
<1> QED
  BY <1>4, <1>5, <1>6

-----------------------------------------------------------------------------
(***************************************************************************)
(* The search. The inductive invariant says of every unresolved name that  *)
(* it is on the list, or that the call which redirects its entry to the    *)
(* fallback is pending; and of every name that a library has been asked    *)
(* for that asking again is in vain, for one of three reasons.             *)
(***************************************************************************)

\* The pending calls are a sequence and belong to a file; the positions of the
\* searches are within the list.
ListInv ==
  /\ LinkAssumption(input)
  /\ IsSeq(todo)
  /\ undefines \in Seq(Names \cup {NoName})
  /\ undefineIndex \in [Files -> 1 .. Len(undefines) + 1]
  /\ pos \in 1 .. Len(undefines) + 1
  /\ file \in Files \cup {NoFile}
  /\ file = NoFile => todo = <<>> /\ search = "none"

Waits(n) ==
  /\ nameTable[n].fallback # NoAtom
  /\ [op |-> "replace", atom |-> nameTable[n]] \in ToSet(todo)

ListedInv ==
  \A n \in Names :
    nameTable[n] # NoAtom /\ UnresolvedName(n) => n \in ToSet(undefines) \/ Waits(n)

\* The atom that the library f exports for n is about to go to the table.
Answers(f, n) ==
  /\ input.file[f].exports[n] # NoAtom
  /\ todo = <<[op |-> "sharedLibrary", atom |-> input.file[f].exports[n]]>>

AskedInVain(f, n) ==
  n # NoName => ~Offers(f, n) \/ ST!IsDefined(n) \/ Answers(f, n)

SearchInv ==
  /\ \A f \in Files : \A i \in 1 .. undefineIndex[f] - 1 : AskedInVain(f, undefines[i])
  /\ search # "none" => \A i \in 1 .. pos - 1 : AskedInVain(file, undefines[i])

\* The references are those of the input until updateReferences.
RefsInv == RefsAreTyped(input) /\ (phase = "files" => refs = input.refs)

IInv == T!NameInv /\ RefsInv /\ ListInv /\ ListedInv /\ SearchInv

LEMMA InitIInv == Init => IInv
<1> SUFFICES ASSUME Init PROVE IInv
  OBVIOUS
<1>1. T!NameInv
  BY TableInit, SameInit, TableAssumption, T!InitNameInv
<1>2. LinkAssumption(input) /\ RefsInv
  BY ResolverAssumption, ReadersAssumption DEF Init, ReaderAssumption, RefsInv
<1>3. IsSeq(<<>>)
  BY DEF IsSeq
<1>4. ListInv
  BY <1>2, <1>3 DEF Init, ListInv
<1>5. nameTable = [n \in Names |-> NoAtom]
  BY DEF Init, ST!Init
<1>6. ListedInv
  BY <1>5 DEF ListedInv
<1>7. SearchInv
  BY DEF Init, SearchInv
<1> QED
  BY <1>1, <1>2, <1>4, <1>6, <1>7 DEF IInv

LEMMA NextRefsInv ==
  ASSUME RefsInv, [Next]_vars
  PROVE  RefsInv'
<1>1. input' = input
  BY TableStep
<1>2. CASE UpdateReferences \/ DeadStripOptimize \/ CheckUndefines \/ RemoveCoalescedAwayAtoms
  BY <1>1, <1>2
  DEF UpdateReferences, DeadStripOptimize, CheckUndefines, RemoveCoalescedAwayAtoms,
      RefsInv, At
<1>3. CASE UNCHANGED <<refs, phase>>
  BY <1>1, <1>3 DEF RefsInv
<1>4. CASE GroupAgain \/ GroupLeave \/ LeaveFile \/ UNCHANGED vars
  BY <1>3, <1>4 DEF GroupAgain, GroupLeave, LeaveFile, vars, output
<1>5. CASE LastFile \/ \E f \in Files : ParseFails(f) \/ VisitObject(f) \/ VisitLibrary(f)
  BY <1>1, <1>5 DEF LastFile, ParseFails, VisitObject, VisitLibrary, Walking, RefsInv, output
<1>6. CASE \/ SearchUndefine \/ SkipUndefine \/ SearchTentatives \/ SearchAgain
           \/ SearchEnds \/ \E n \in Names : SearchTentative(n)
  BY <1>3, <1>6
  DEF SearchUndefine, SkipUndefine, SearchTentatives, SearchAgain, SearchEnds,
      SearchTentative, output
<1>7. ASSUME NEW a \in Atoms,
             \/ DoDefinedAtom(a)
             \/ DoGroupParent(a)
             \/ DoGroupChild(a)
             \/ DoUndefinedAtom("undefined", a)
             \/ DoUndefinedAtom("fallback", a)
             \/ AddReplacement(a)
             \/ DoSharedLibraryAtom(a)
             \/ DoAbsoluteAtom(a)
      PROVE  RefsInv'
  <2>1. refs' = refs /\ phase = "files"
    BY <1>7
    DEF DoDefinedAtom, DoGroupParent, DoGroupChild, DoUndefinedAtom, AddReplacement,
        DoSharedLibraryAtom, DoAbsoluteAtom, Known, Handling, output
  <2> QED BY <1>1, <2>1 DEF RefsInv
<1> QED
  BY <1>2, <1>4, <1>5, <1>6, <1>7 DEF Next

\* The steps that only walk over the nodes, or run after the last file.
LEMMA QuietStep ==
  ASSUME IInv, UNCHANGED <<table, work, input>>,
         file' = file \/ (file' = NoFile /\ todo = <<>> /\ search = "none")
  PROVE  ListInv' /\ ListedInv' /\ SearchInv'
<1>1. /\ UNCHANGED <<nameTable, replacedAtoms, todo, search, pos>>
      /\ UNCHANGED <<instantiated, undefines, undefineIndex, input>>
  BY DEF table, work
<1>2. ListInv'
  BY <1>1 DEF IInv, ListInv, LinkAssumption
<1>3. \A n : UnresolvedName(n)' <=> UnresolvedName(n)
  BY <1>1 DEF UnresolvedName, ST!IsCoalescedAway
<1>4. ListedInv'
  BY <1>1, <1>3 DEF IInv, ListedInv, Waits
<1>5. \A f, n : AskedInVain(f, n)' <=> AskedInVain(f, n)
  BY <1>1 DEF AskedInVain, Offers, Finds, ST!IsDefined, Answers
<1>6. SearchInv'
  BY <1>1, <1>5 DEF IInv, SearchInv
<1> QED
  BY <1>2, <1>4, <1>6

\* A library that was asked in vain stays so, if the pending calls see to it.
LEMMA VainStays ==
  ASSUME IInv, [Next]_vars, instantiated \subseteq instantiated',
         NEW f \in Files, NEW n \in Names \cup {NoName}, AskedInVain(f, n),
         Answers(f, n) => Answers(f, n)' \/ ST!IsDefined(n)'
  PROVE  AskedInVain(f, n)'
<1> SUFFICES ASSUME n # NoName
             PROVE  ~Offers(f, n)' \/ ST!IsDefined(n)' \/ Answers(f, n)'
  BY DEF AskedInVain
<1>1. input' = input
  BY TableStep
<1>2. ~Offers(f, n) => ~Offers(f, n)'
  BY <1>1 DEF Offers, Finds
<1>3. ST!IsDefined(n) => ST!IsDefined(n)'
  BY DefinedStays DEF IInv
<1> QED
  BY <1>2, <1>3 DEF AskedInVain

\* So the invariant of the searches is kept by a step that neither moves a
\* position nor writes another name into the list.
LEMMA SearchStep ==
  ASSUME IInv, [Next]_vars, instantiated \subseteq instantiated',
         \A f \in Files : \A n \in Names :
           Answers(f, n) => Answers(f, n)' \/ ST!IsDefined(n)',
         Len(undefines') \in Nat,
         \A i \in 1 .. Len(undefines) : undefines'[i] \in {undefines[i], NoName},
         NEW f \in Files, NEW i \in 1 .. Len(undefines), AskedInVain(f, undefines[i])
  PROVE  AskedInVain(f, undefines[i])'
<1>1. undefines[i] \in Names \cup {NoName}
  BY DEF IInv, ListInv
<1>2. CASE undefines'[i] = NoName
  BY <1>2 DEF AskedInVain
<1>3. ASSUME NEW n \in Names, n = undefines[i], n = undefines'[i]
      PROVE  AskedInVain(f, undefines[i])'
  <2>1. AskedInVain(f, n)
    BY <1>3
  <2>2. AskedInVain(f, n)'
    BY <1>3, <2>1, VainStays
  <2> QED
    BY <1>3, <2>2 DEF AskedInVain, Offers, Finds, ST!IsDefined, Answers
<1> QED
  BY <1>1, <1>2, <1>3

\* A file is visited when nothing is pending.
LEMMA VisitStep ==
  ASSUME IInv, [Next]_vars, NEW f \in Files, VisitObject(f) \/ VisitLibrary(f)
  PROVE  ListInv' /\ ListedInv' /\ SearchInv'
<1>1. /\ file = NoFile /\ todo = <<>> /\ search = "none"
      /\ UNCHANGED <<nameTable, replacedAtoms, undefines, undefineIndex, instantiated, input>>
      /\ file' = f
      /\ todo' = <<>> \/ todo' = HandleFile(f)
      /\ \/ search' = "none" /\ pos' = pos
         \/ pos' = undefineIndex[f]
  BY DEF VisitObject, VisitLibrary, AtFile, Walking, IInv, ListInv, table
<1>2. IsSeq(todo')
  BY <1>1, HandleFileIsSeq DEF IInv, ListInv, IsSeq
<1>3. ListInv'
  BY <1>1, <1>2, ResolverAssumption DEF IInv, ListInv, LinkAssumption
<1>4. ListedInv'
  <2>1. \A n \in Names : ~Waits(n)
    BY <1>1 DEF Waits, ToSet
  <2> QED
    BY <1>1, <2>1 DEF IInv, ListedInv, UnresolvedName, ST!IsCoalescedAway
<1>5. \A g, n : AskedInVain(g, n) => AskedInVain(g, n)'
  BY <1>1 DEF AskedInVain, Answers, Offers, Finds, ST!IsDefined
<1>6. SearchInv'
  BY <1>1, <1>5 DEF IInv, ListInv, SearchInv
<1> QED
  BY <1>3, <1>4, <1>6

LEMMA TodoStep ==
  ASSUME IsSeq(todo), todo # <<>>,
         NEW s, IsSeq(s), todo' = Tail(todo) \/ todo' = s \o Tail(todo)
  PROVE  /\ IsSeq(todo')
         /\ \A q \in ToSet(todo) : q = Head(todo) \/ q \in ToSet(todo')
<1>1. /\ IsSeq(Tail(todo))
      /\ \A q \in ToSet(todo) : q = Head(todo) \/ q \in ToSet(Tail(todo))
  BY TailIsSeq
<1>2. IsSeq(s \o Tail(todo)) /\ ToSet(Tail(todo)) \subseteq ToSet(s \o Tail(todo))
  BY <1>1, ConcatIsSeq
<1> QED
  BY <1>1, <1>2

LEMMA AppendToList ==
  ASSUME undefines \in Seq(Names \cup {NoName}), NEW n,
         undefines' = undefines \/ (n \in Names /\ undefines' = Append(undefines, n))
  PROVE  /\ undefines' \in Seq(Names \cup {NoName})
         /\ Len(undefines') \in Nat /\ Len(undefines') >= Len(undefines)
         /\ \A i \in 1 .. Len(undefines) : undefines'[i] = undefines[i]
         /\ ToSet(undefines) \subseteq ToSet(undefines')
         /\ undefines' # undefines => n \in ToSet(undefines')
<1>1. Len(undefines) \in Nat /\ DOMAIN undefines = 1 .. Len(undefines)
  OBVIOUS
<1>2. CASE undefines' = undefines
  BY <1>1, <1>2
<1>3. CASE n \in Names /\ undefines' = Append(undefines, n)
  <2>1. /\ Len(undefines') = Len(undefines) + 1
        /\ \A i \in 1 .. Len(undefines) : undefines'[i] = undefines[i]
        /\ undefines'[Len(undefines) + 1] = n
        /\ DOMAIN undefines' = 1 .. Len(undefines) + 1
        /\ undefines' \in Seq(Names \cup {NoName})
    BY <1>3
  <2>2. ToSet(undefines) \subseteq ToSet(undefines')
    BY <1>1, <2>1 DEF ToSet
  <2>3. n \in ToSet(undefines')
    BY <1>1, <2>1 DEF ToSet
  <2> QED
    BY <1>1, <2>1, <2>2, <2>3
<1> QED
  BY <1>2, <1>3

\* What the steps on an atom have in common.
LEMMA AtomFrame ==
  ASSUME IInv, [Next]_vars, NEW a \in Atoms,
         \/ DoDefinedAtom(a)
         \/ DoGroupParent(a)
         \/ DoGroupChild(a)
         \/ DoUndefinedAtom("undefined", a)
         \/ DoUndefinedAtom("fallback", a)
         \/ AddReplacement(a)
         \/ DoSharedLibraryAtom(a)
         \/ DoAbsoluteAtom(a)
  PROVE  /\ IsSeq(todo')
         /\ \A q \in ToSet(todo) : q = Head(todo) \/ q \in ToSet(todo')
         /\ ToSet(undefines) \subseteq ToSet(undefines')
         /\ ListInv'
         /\ SearchInv'
<1>1. /\ todo # <<>> /\ Head(todo).atom = a
      /\ UNCHANGED <<file, search, pos, instantiated, undefineIndex, input>>
  BY DEF DoDefinedAtom, DoGroupParent, DoGroupChild, DoUndefinedAtom, AddReplacement,
         DoSharedLibraryAtom, DoAbsoluteAtom, Known, Handling, walk
<1>2. undefines' = undefines \/ (a.name \in Names /\ undefines' = Append(undefines, a.name))
  <2>1. CASE DoUndefinedAtom("undefined", a) \/ DoUndefinedAtom("fallback", a)
    <3>1. a.name \in Names
      BY <2>1, UndefinedAtom DEF DoUndefinedAtom, Handling, Takes
    <3> QED
      BY <2>1, <3>1 DEF DoUndefinedAtom
  <2> QED
    BY <2>1 DEF DoDefinedAtom, DoGroupParent, DoGroupChild, AddReplacement,
         DoSharedLibraryAtom, DoAbsoluteAtom
<1>3. /\ undefines' \in Seq(Names \cup {NoName})
      /\ Len(undefines') \in Nat /\ Len(undefines') >= Len(undefines)
      /\ \A i \in 1 .. Len(undefines) : undefines'[i] = undefines[i]
      /\ ToSet(undefines) \subseteq ToSet(undefines')
  BY <1>2, AppendToList DEF IInv, ListInv
<1>4. PICK s : IsSeq(s) /\ (todo' = Tail(todo) \/ todo' = s \o Tail(todo))
  <2>1. CASE DoGroupParent(a)
    BY <2>1, ChildrenIsSeq DEF DoGroupParent, Handling, IInv, RefsInv
  <2>2. CASE DoUndefinedAtom("undefined", a) \/ DoUndefinedAtom("fallback", a)
    BY <2>2, PairIsSeq DEF DoUndefinedAtom
  <2>3. CASE todo' = Tail(todo)
    BY <2>3, PairIsSeq
  <2> QED
    BY <2>1, <2>2, <2>3 DEF DoDefinedAtom, DoGroupChild, AddReplacement,
         DoSharedLibraryAtom, DoAbsoluteAtom
<1>5. /\ IsSeq(todo')
      /\ \A q \in ToSet(todo) : q = Head(todo) \/ q \in ToSet(todo')
  BY <1>1, <1>4, TodoStep DEF IInv, ListInv
<1>6. ListInv'
  BY <1>1, <1>3, <1>5 DEF IInv, ListInv, LinkAssumption
<1>7. ASSUME NEW f \in Files, NEW n \in Names, Answers(f, n)
      PROVE  ST!IsDefined(n)'
  <2>1. Head(todo) = [op |-> "sharedLibrary", atom |-> input.file[f].exports[n]]
    BY <1>7 DEF Answers
  <2>2. DoSharedLibraryAtom(a)
    BY <2>1 DEF DoDefinedAtom, DoGroupParent, DoGroupChild, DoUndefinedAtom,
                AddReplacement, DoAbsoluteAtom, Handling
  <2>3. a.name = n
    BY <1>1, <1>7, <2>1 DEF Answers, IInv, ListInv, LinkAssumption
  <2> QED
    BY <2>2, <2>3, SharedStep DEF DoSharedLibraryAtom, Handling, Takes, IInv
<1>8. SearchInv'
  <2>1. ASSUME NEW f \in Files, NEW i \in 1 .. Len(undefines), AskedInVain(f, undefines[i])
        PROVE  AskedInVain(f, undefines[i])'
    BY <1>1, <1>3, <1>7, <2>1, SearchStep
  <2>2. ASSUME NEW f \in Files, NEW i \in 1 .. undefineIndex[f] - 1
        PROVE  AskedInVain(f, undefines[i])'
    BY <2>1, <2>2 DEF IInv, ListInv, SearchInv
  <2>3. ASSUME search # "none", NEW i \in 1 .. pos - 1
        PROVE  AskedInVain(file, undefines[i])'
    BY <1>1, <2>1, <2>3 DEF IInv, ListInv, SearchInv
  <2> QED
    BY <1>1, <2>2, <2>3 DEF SearchInv
<1> QED
  BY <1>3, <1>5, <1>6, <1>8

\* A definition resolves a name or leaves it on the list.
LEMMA DefinitionListed ==
  ASSUME IInv, [Next]_vars, NEW a \in Atoms,
         \/ DoDefinedAtom(a)
         \/ DoGroupParent(a)
         \/ DoGroupChild(a)
         \/ DoSharedLibraryAtom(a)
         \/ DoAbsoluteAtom(a)
  PROVE  ListedInv'
<1>1. /\ a.definition # "undefined" /\ Head(todo).op # "replace"
      /\ AddToTable(a) \/ ST!AddGroup(a) \/ UNCHANGED table
  BY DEF DoDefinedAtom, DoGroupParent, DoGroupChild, DoSharedLibraryAtom,
         DoAbsoluteAtom, Handling, Takes
<1>2. /\ \A q \in ToSet(todo) : q = Head(todo) \/ q \in ToSet(todo')
      /\ ToSet(undefines) \subseteq ToSet(undefines')
  BY AtomFrame
<1> SUFFICES ASSUME NEW n \in Names, nameTable'[n] # NoAtom, UnresolvedName(n)'
             PROVE  n \in ToSet(undefines)' \/ Waits(n)'
  BY DEF ListedInv
<1>3. nameTable'[n] = nameTable[n] /\ UnresolvedName(n)
  BY <1>1, DefinitionStep DEF IInv, table, UnresolvedName, ST!IsCoalescedAway
<1>4. n \in ToSet(undefines) \/ Waits(n)
  BY <1>3 DEF IInv, ListedInv
<1>5. Waits(n) => Waits(n)'
  BY <1>1, <1>2, <1>3 DEF Waits
<1> QED
  BY <1>2, <1>4, <1>5

\* An undefined atom puts a new name on the list, and when it takes over a name
\* that may be off the list, it has a fallback, and so it waits.
LEMMA UndefinedListed ==
  ASSUME IInv, [Next]_vars, NEW a \in Atoms, NEW op \in {"undefined", "fallback"},
         DoUndefinedAtom(op, a)
  PROVE  ListedInv'
<1>1. /\ a.definition = "undefined" /\ Head(todo).op # "replace"
      /\ AddToTable(a)
      /\ nameTable[a.name] = NoAtom => undefines' = Append(undefines, a.name)
      /\ a.fallback # NoAtom /\ nameTable'[a.name].definition = "undefined" =>
           todo' = <<[op |-> "fallback", atom |-> a.fallback],
                     [op |-> "replace", atom |-> a]>> \o Tail(todo)
  BY DEF DoUndefinedAtom, Handling, Takes
<1>2. /\ \A q \in ToSet(todo) : q = Head(todo) \/ q \in ToSet(todo')
      /\ ToSet(undefines) \subseteq ToSet(undefines')
  BY AtomFrame
<1>3. a.name \in Names /\ T!AddByName(a)
  BY <1>1, UndefinedAtom
<1>4. IsSeq(todo) /\ todo # <<>> /\ undefines \in Seq(Names \cup {NoName})
  BY DEF IInv, ListInv, DoUndefinedAtom, Handling
<1> SUFFICES ASSUME NEW n \in Names, nameTable'[n] # NoAtom, UnresolvedName(n)'
             PROVE  n \in ToSet(undefines)' \/ Waits(n)'
  BY DEF ListedInv
<1>5. nameTable'[n].definition = "undefined"
  BY DEF UnresolvedName
<1>6. CASE nameTable[n] = NoAtom
  <2>1. n = a.name
    BY <1>3, <1>6, TableAssumption, T!EntryStep DEF IInv
  <2> QED
    BY <1>1, <1>4, <1>6, <2>1, AppendToList
<1>7. CASE nameTable'[n] = nameTable[n] /\ UnresolvedName(n)
  <2>1. n \in ToSet(undefines) \/ Waits(n)
    BY <1>7 DEF IInv, ListedInv
  <2>2. Waits(n) => Waits(n)'
    BY <1>1, <1>2, <1>7 DEF Waits
  <2> QED
    BY <1>2, <2>1, <2>2
<1>8. CASE n = a.name /\ nameTable'[n] = a /\ a.fallback # NoAtom
  <2>1. [op |-> "replace", atom |-> a] \in ToSet(todo')
    BY <1>1, <1>4, <1>5, <1>8, PairIsSeq, TailIsSeq, ConcatIsSeq
  <2> QED
    BY <1>8, <2>1 DEF Waits
<1>9. CASE nameTable[n] # NoAtom /\ nameTable[n].fallback = NoAtom /\ UnresolvedName(n)
  BY <1>2, <1>9 DEF IInv, ListedInv, Waits
<1> QED
  BY <1>1, <1>6, <1>7, <1>8, <1>9, UndefinedStep DEF IInv

\* The call that redirects an entry to its fallback resolves the name.
LEMMA ReplacementListed ==
  ASSUME IInv, [Next]_vars, NEW a \in Atoms, AddReplacement(a)
  PROVE  ListedInv'
<1>1. /\ Head(todo) = [op |-> "replace", atom |-> a]
      /\ a.fallback # NoAtom
      /\ replacedAtoms' = [replacedAtoms EXCEPT ![a] = a.fallback]
      /\ nameTable' = nameTable
      /\ undefines' = undefines
  BY DEF AddReplacement, Handling, ST!AddReplacement
<1>2. \A q \in ToSet(todo) : q = Head(todo) \/ q \in ToSet(todo')
  BY AtomFrame
<1>3. DOMAIN replacedAtoms = Atoms
  BY DEF IInv, T!NameInv, T!TypeOK
<1> SUFFICES ASSUME NEW n \in Names, nameTable'[n] # NoAtom, UnresolvedName(n)'
             PROVE  n \in ToSet(undefines)' \/ Waits(n)'
  BY DEF ListedInv
<1>4. nameTable[n] \in Atoms
  BY <1>1, Entry DEF IInv
<1>5. nameTable[n] # a /\ UnresolvedName(n)
  BY <1>1, <1>3, <1>4 DEF UnresolvedName, ST!IsCoalescedAway
<1>6. n \in ToSet(undefines) \/ Waits(n)
  BY <1>1, <1>5 DEF IInv, ListedInv
<1>7. Waits(n) => Waits(n)'
  <2>1. [op |-> "replace", atom |-> nameTable[n]] # Head(todo)
    BY <1>1, <1>5
  <2> QED
    BY <1>1, <1>2, <2>1 DEF Waits
<1> QED
  BY <1>1, <1>6, <1>7

\* The callback adds calls for the file that was found, and the file counts as
\* returned. What was asked for is then not offered any more or is answered.
LEMMA CallbackStep ==
  ASSUME IInv, NEW n \in Names, NEW dataOnly, todo = <<>>, file \in Files,
         Callback(n, dataOnly)
  PROVE  IsSeq(todo') /\ instantiated \subseteq instantiated'
<1>1. IsSeq(<<>>)
  BY DEF IsSeq
<1>2. CASE input.file[file].kind = "archive"
  <2> DEFINE member == input.file[file].symbols[n]
  <2>1. member # NoFile => IsSeq(HandleFile(member))
    BY HandleFileIsSeq DEF IInv, ListInv, LinkAssumption
  <2> QED
    BY <1>1, <1>2, <2>1 DEF Callback, Finds
<1>3. CASE input.file[file].kind # "archive"
  BY <1>1, <1>3, PairIsSeq DEF Callback
<1> QED
  BY <1>2, <1>3

LEMMA CallbackAnswers ==
  ASSUME NEW n \in Names, Callback(n, FALSE), UNCHANGED <<nameTable, file, input>>
  PROVE  AskedInVain(file, n)'
<1>1. CASE input.file[file].kind = "archive"
  <2> DEFINE member == input.file[file].symbols[n]
  <2>1. CASE Finds(file, n, FALSE)
    BY <1>1, <2>1 DEF Callback, AskedInVain, Offers, Finds
  <2>2. CASE ~Finds(file, n, FALSE)
    BY <1>1, <2>2 DEF Callback, AskedInVain, Offers, Finds
  <2> QED
    BY <2>1, <2>2
<1>2. CASE input.file[file].kind # "archive"
  BY <1>2 DEF Callback, AskedInVain, Offers, Answers
<1> QED
  BY <1>1, <1>2

\* During a search nothing is pending, so every unresolved name is on the list.
LEMMA SearchListed ==
  ASSUME IInv, todo = <<>>, UNCHANGED <<nameTable, replacedAtoms>>,
         \A n \in Names :
           UnresolvedName(n) /\ n \in ToSet(undefines) => n \in ToSet(undefines')
  PROVE  ListedInv'
<1>1. \A n \in Names : ~Waits(n)
  BY DEF Waits, ToSet
<1>2. \A n : UnresolvedName(n)' <=> UnresolvedName(n)
  BY DEF UnresolvedName, ST!IsCoalescedAway
<1> QED
  BY <1>1, <1>2 DEF IInv, ListedInv

\* One name of the list after the other ...
LEMMA UndefineSearched ==
  ASSUME IInv, [Next]_vars, SearchUndefine \/ SkipUndefine
  PROVE  ListInv' /\ ListedInv' /\ SearchInv'
<1> DEFINE name == undefines[pos]
<1>1. /\ todo = <<>> /\ search = "undefines"
      /\ pos <= Len(undefines) /\ pos' = pos + 1
      /\ UNCHANGED <<nameTable, replacedAtoms, file, search, undefineIndex, input>>
  BY DEF SearchUndefine, SkipUndefine, Searching, walk, table
<1>2. /\ undefines \in Seq(Names \cup {NoName}) /\ Len(undefines) \in Nat
      /\ pos \in 1 .. Len(undefines)
      /\ file \in Files
  BY <1>1 DEF IInv, ListInv
<1>3. /\ undefines' \in Seq(Names \cup {NoName})
      /\ Len(undefines') = Len(undefines)
      /\ \A i \in 1 .. Len(undefines) : undefines'[i] \in {undefines[i], NoName}
  <2>1. CASE undefines' = undefines
    BY <1>2, <2>1
  <2>2. CASE undefines' = [undefines EXCEPT ![pos] = NoName]
    BY <1>2, <2>2
  <2> QED
    BY <2>1, <2>2 DEF SearchUndefine, SkipUndefine
<1>4. IsSeq(todo') /\ instantiated \subseteq instantiated'
  <2>1. CASE SearchUndefine
    <3>1. name \in Names
      BY <1>1, <1>2, <2>1 DEF SearchUndefine
    <3> QED
      BY <1>1, <1>2, <2>1, <3>1, CallbackStep DEF SearchUndefine
  <2>2. CASE SkipUndefine
    BY <2>2 DEF SkipUndefine, IInv, ListInv
  <2> QED
    BY <2>1, <2>2
<1>5. ListInv'
  BY <1>1, <1>2, <1>3, <1>4 DEF IInv, ListInv, LinkAssumption
<1>6. ListedInv'
  <2>1. CASE undefines' = undefines
    BY <1>1, <2>1, SearchListed
  <2>2. CASE SkipUndefine
    <3>1. \A i \in 1 .. Len(undefines) : i # pos => undefines'[i] = undefines[i]
      BY <1>1, <1>2, <2>2 DEF SkipUndefine
    <3>2. NoName \notin Names
      BY TableAssumption DEF T!SymbolTableAssumption
    <3>3. \A n \in Names : UnresolvedName(n) => n # undefines[pos]
      BY <2>2, <3>2 DEF SkipUndefine
    <3>4. DOMAIN undefines = 1 .. Len(undefines) /\ DOMAIN undefines' = 1 .. Len(undefines)
      BY <1>2, <1>3
    <3> QED
      BY <1>1, <3>1, <3>3, <3>4, SearchListed DEF ToSet
  <2> QED
    BY <2>1, <2>2 DEF SearchUndefine
<1>7. ASSUME NEW f \in Files, NEW i \in 1 .. Len(undefines), AskedInVain(f, undefines[i])
      PROVE  AskedInVain(f, undefines[i])'
  <2>1. \A g \in Files : \A n \in Names : ~Answers(g, n)
    BY <1>1 DEF Answers
  <2> QED
    BY <1>2, <1>3, <1>4, <1>7, <2>1, SearchStep
<1>8. ASSUME NEW p \in 1 .. Len(undefines), p = pos
      PROVE  AskedInVain(file, undefines[p])'
  <2>1. CASE SkipUndefine
    <3>1. undefines'[p] = NoName
      BY <1>2, <1>8, <2>1 DEF SkipUndefine
    <3> QED
      BY <3>1 DEF AskedInVain
  <2>2. CASE SearchUndefine
    <3> PICK n \in Names : n = name
      BY <1>2, <2>2 DEF SearchUndefine
    <3>1. AskedInVain(file, n)'
      BY <1>1, <2>2, CallbackAnswers DEF SearchUndefine
    <3>2. undefines'[p] = n
      BY <1>8, <2>2 DEF SearchUndefine
    <3> QED
      BY <3>1, <3>2 DEF AskedInVain, Offers, Finds, ST!IsDefined, Answers
  <2> QED
    BY <2>1, <2>2
<1>9. SearchInv'
  <2>1. ASSUME NEW f \in Files, NEW i \in 1 .. undefineIndex[f] - 1
        PROVE  AskedInVain(f, undefines[i])'
    BY <1>7, <2>1 DEF IInv, ListInv, SearchInv
  <2>2. ASSUME NEW i \in 1 .. pos
        PROVE  AskedInVain(file, undefines[i])'
    <3>1. CASE i = pos
      BY <1>2, <1>8, <3>1
    <3>2. CASE i # pos
      BY <1>1, <1>2, <1>7, <3>2 DEF IInv, SearchInv
    <3> QED
      BY <3>1, <3>2
  <2> QED
    BY <1>1, <1>2, <2>1, <2>2 DEF SearchInv
<1> QED
  BY <1>5, <1>6, <1>9

\* ... then the tentative definitions, and the list again.
LEMMA TentativeSearched ==
  ASSUME IInv, [Next]_vars,
         \/ SearchTentatives
         \/ SearchAgain
         \/ SearchEnds
         \/ \E n \in Names : SearchTentative(n)
  PROVE  ListInv' /\ ListedInv' /\ SearchInv'
<1>1. /\ todo = <<>> /\ search # "none"
      /\ UNCHANGED <<nameTable, replacedAtoms, file, pos, undefines, input>>
  BY DEF SearchTentatives, SearchAgain, SearchEnds, SearchTentative, Searching, walk, table
<1>2. /\ file \in Files /\ Len(undefines) \in Nat
  BY <1>1 DEF IInv, ListInv
<1>3. IsSeq(todo') /\ instantiated \subseteq instantiated'
  <2>1. ASSUME NEW n \in Names, SearchTentative(n)
        PROVE  IsSeq(todo') /\ instantiated \subseteq instantiated'
    BY <1>1, <1>2, <2>1, CallbackStep DEF SearchTentative, IInv, ListInv
  <2>2. CASE UNCHANGED <<todo, instantiated>>
    BY <2>2 DEF IInv, ListInv
  <2> QED
    BY <2>1, <2>2 DEF SearchTentatives, SearchAgain, SearchEnds
<1>4. \/ undefineIndex' = undefineIndex
      \/ undefineIndex' = [undefineIndex EXCEPT ![file] = pos]
  BY DEF SearchTentatives, SearchAgain, SearchEnds, SearchTentative
<1>5. ListInv'
  <2>1. undefineIndex' \in [Files -> 1 .. Len(undefines) + 1]
    BY <1>2, <1>4 DEF IInv, ListInv
  <2> QED
    BY <1>1, <1>2, <1>3, <2>1, ResolverAssumption DEF IInv, ListInv, LinkAssumption
<1>6. ListedInv'
  BY <1>1, SearchListed
<1>7. ASSUME NEW f \in Files, NEW i \in 1 .. Len(undefines), AskedInVain(f, undefines[i])
      PROVE  AskedInVain(f, undefines[i])'
  <2>1. \A g \in Files : \A n \in Names : ~Answers(g, n)
    BY <1>1 DEF Answers
  <2> QED
    BY <1>1, <1>2, <1>3, <1>7, <2>1, SearchStep
<1>8. ASSUME NEW i \in 1 .. pos - 1
      PROVE  AskedInVain(file, undefines[i])'
  BY <1>1, <1>2, <1>7, <1>8 DEF IInv, ListInv, SearchInv
<1>9. ASSUME NEW f \in Files, NEW i \in 1 .. undefineIndex'[f] - 1
      PROVE  AskedInVain(f, undefines[i])'
  <2>1. CASE undefineIndex'[f] = undefineIndex[f]
    <3>1. i \in 1 .. undefineIndex[f] - 1 /\ i \in 1 .. Len(undefines)
      BY <1>2, <2>1 DEF IInv, ListInv
    <3> QED
      BY <1>7, <3>1 DEF IInv, SearchInv
  <2>2. CASE f = file /\ undefineIndex'[f] = pos
    BY <1>1, <1>8, <2>2 DEF AskedInVain, Offers, Finds, ST!IsDefined, Answers
  <2> QED
    BY <1>2, <1>4, <2>1, <2>2 DEF IInv, ListInv
<1> QED
  BY <1>1, <1>5, <1>6, <1>8, <1>9 DEF SearchInv

LEMMA NextIInv ==
  ASSUME IInv, [Next]_vars
  PROVE  IInv'
<1>1. T!NameInv'
  BY TableStep, SameStep, TableAssumption, T!NextNameInv DEF IInv
<1>0. RefsInv'
  BY NextRefsInv DEF IInv
<1>2. CASE \/ GroupAgain \/ GroupLeave \/ LeaveFile \/ LastFile
           \/ \E f \in Files : ParseFails(f)
           \/ UpdateReferences \/ DeadStripOptimize \/ CheckUndefines
           \/ RemoveCoalescedAwayAtoms \/ UNCHANGED vars
  <2>1. /\ UNCHANGED <<table, work, input>>
        /\ file' = file \/ (file' = NoFile /\ todo = <<>> /\ search = "none")
    BY <1>2
    DEF GroupAgain, GroupLeave, LeaveFile, LastFile, ParseFails, UpdateReferences,
        DeadStripOptimize, CheckUndefines, RemoveCoalescedAwayAtoms, vars, walk
  <2> QED
    BY <1>0, <1>1, <2>1, QuietStep DEF IInv
<1>3. ASSUME NEW f \in Files, VisitObject(f) \/ VisitLibrary(f)
      PROVE  IInv'
  BY <1>0, <1>1, <1>3, VisitStep DEF IInv
<1>4. ASSUME NEW a \in Atoms,
             \/ DoDefinedAtom(a)
             \/ DoGroupParent(a)
             \/ DoGroupChild(a)
             \/ DoSharedLibraryAtom(a)
             \/ DoAbsoluteAtom(a)
      PROVE  IInv'
  BY <1>0, <1>1, <1>4, AtomFrame, DefinitionListed DEF IInv
<1>5. ASSUME NEW a \in Atoms,
             DoUndefinedAtom("undefined", a) \/ DoUndefinedAtom("fallback", a)
      PROVE  IInv'
  BY <1>0, <1>1, <1>5, AtomFrame, UndefinedListed DEF IInv
<1>6. ASSUME NEW a \in Atoms, AddReplacement(a)
      PROVE  IInv'
  BY <1>0, <1>1, <1>6, AtomFrame, ReplacementListed DEF IInv
<1>7. CASE SearchUndefine \/ SkipUndefine
  BY <1>0, <1>1, <1>7, UndefineSearched DEF IInv
<1>8. CASE \/ SearchTentatives \/ SearchAgain \/ SearchEnds
           \/ \E n \in Names : SearchTentative(n)
  BY <1>0, <1>1, <1>8, TentativeSearched DEF IInv
<1> QED
  BY <1>2, <1>3, <1>4, <1>5, <1>6, <1>7, <1>8 DEF Next

\* The invariant of the search.
THEOREM ResolverInvariant == Spec => []IInv
  BY InitIInv, NextIInv, PTL DEF Spec

\* When no call is pending, an unresolved name is on the list that the libraries
\* search, and no library offers a name before the position where its next
\* search begins ("Searching them again would never succeed", Resolver.h): for
\* any files, any groups and any libraries that are added under the walk.
THEOREM NothingIsForgotten == Spec => []NoNameIsForgotten
<1>1. IInv => UnresolvedIsListed
  BY DEF IInv, ListedInv, Waits, UnresolvedIsListed, ToSet
<1>2. IInv => SearchedInVain
  <2> SUFFICES ASSUME IInv, Idle, NEW f \in Files, NEW i \in 1 .. undefineIndex[f] - 1,
                      undefines[i] # NoName, UnresolvedName(undefines[i])
               PROVE  ~Offers(f, undefines[i])
    BY DEF SearchedInVain
  <2>1. AskedInVain(f, undefines[i])
    BY DEF IInv, SearchInv
  <2>2. ~Answers(f, undefines[i])
    BY DEF Idle, Answers
  <2>3. ~ST!IsDefined(undefines[i])
    BY DEF ST!IsDefined, UnresolvedName
  <2> QED
    BY <2>1, <2>2, <2>3 DEF AskedInVain
<1>3. IInv => NoNameIsForgotten
  BY <1>1, <1>2 DEF NoNameIsForgotten
<1> QED
  BY <1>3, ResolverInvariant, PTL

-----------------------------------------------------------------------------
(***************************************************************************)
(* markLive().                                                             *)
(***************************************************************************)

Grow == [S \in SUBSET Atoms |-> S \cup UNION {Keeps(a) : a \in S}]

LEMMA MarkLiveWalks ==
  ASSUME IsFiniteSet(Reachable), \A a \in Atoms : Keeps(a) \subseteq Atoms,
         NEW roots \in SUBSET Atoms
  PROVE  /\ Cardinality(Reachable) \in Nat
         /\ \E w : /\ IsWalk(w, Grow, roots, Cardinality(Reachable))
                   /\ MarkLive(roots) = w[Cardinality(Reachable)]
<1> DEFINE n == Cardinality(Reachable)
           w == CHOOSE f : IsWalk(f, Grow, roots, n)
<1>1. n \in Nat
  BY FS_CardinalityType
<1>2. Grow \in [SUBSET Atoms -> SUBSET Atoms]
  BY DEF Grow
<1>3. MarkLive(roots) = w[n]
  BY DEF MarkLive, Grow, IsWalk
<1> HIDE DEF n
<1>4. IsWalk(w, Grow, roots, n)
  <2>1. \E f : IsWalk(f, Grow, roots, n)
    BY <1>1, <1>2, WalkExists
  <2> QED BY <2>1
<1> QED BY <1>1, <1>3, <1>4 DEF n

\* What is live: the roots, nothing outside a closed set that has the roots, and
\* nothing that is not kept by something else that is live.
LEMMA MarkLiveIsExact ==
  ASSUME IsFiniteSet(Reachable), \A a \in Atoms : Keeps(a) \subseteq Atoms,
         NEW roots \in SUBSET Atoms
  PROVE  LET live == MarkLive(roots)
         IN  /\ roots \subseteq live
             /\ live \subseteq Atoms
             /\ \A Z \in SUBSET Atoms :
                  roots \subseteq Z /\ (\A a \in Z : Keeps(a) \subseteq Z) => live \subseteq Z
             /\ \A S : S \cap roots = {} /\ S \cap live # {}
                  => \E a \in live \ S : Keeps(a) \cap S # {}
<1> DEFINE n == Cardinality(Reachable)
           live == MarkLive(roots)
<1>1. n \in Nat
  BY MarkLiveWalks
<1>2. PICK w : IsWalk(w, Grow, roots, n) /\ live = w[n]
  BY MarkLiveWalks
<1> HIDE DEF n, live
<1>3. Grow \in [SUBSET Atoms -> SUBSET Atoms]
  BY DEF Grow
<1>4. w[0] = roots /\ \A i \in 0 .. n : i < n => w[i + 1] = Grow[w[i]]
  BY <1>1, <1>2, WalkSteps
<1>5. \A i \in 0 .. n : w[i] \in SUBSET Atoms
  <2>1. \A S \in SUBSET Atoms : Grow[S] \in SUBSET Atoms
    BY <1>3
  <2> QED BY <1>1, <1>2, <2>1, WalkStays
<1>6. \A i \in 0 .. n : i < n => w[i + 1] = w[i] \cup UNION {Keeps(a) : a \in w[i]}
  BY <1>4, <1>5 DEF Grow
<1>7. ASSUME NEW Z \in SUBSET Atoms, roots \subseteq Z, \A a \in Z : Keeps(a) \subseteq Z
      PROVE  live \subseteq Z
  <2>1. \A S \in SUBSET Z : Grow[S] \in SUBSET Z
    <3>1. ASSUME NEW S \in SUBSET Z PROVE Grow[S] \in SUBSET Z
      <4>1. Grow[S] = S \cup UNION {Keeps(a) : a \in S}
        BY <1>7, <3>1 DEF Grow
      <4> QED BY <1>7, <3>1, <4>1
    <3> QED BY <3>1
  <2>2. roots \in SUBSET Z
    BY <1>7
  <2>3. \A i \in 0 .. n : w[i] \in SUBSET Z
    BY <1>1, <1>2, <2>1, <2>2, WalkStays
  <2> QED BY <1>1, <1>2, <2>3
<1>8. \A i \in 0 .. n : w[i] \subseteq live
  <2> DEFINE Down == {k \in 0 .. n : w[n - k] \subseteq live}
  <2>1. 0 \in Down
    BY <1>1, <1>2
  <2>2. ASSUME NEW k \in 0 .. n, k \in Down, k < n PROVE k + 1 \in Down
    <3>1. n - (k + 1) \in 0 .. n /\ n - (k + 1) < n /\ (n - (k + 1)) + 1 = n - k /\ k + 1 \in 0 .. n
      BY <1>1, <2>2
    <3>2. w[n - (k + 1)] \subseteq w[n - k]
      BY <1>6, <3>1
    <3> QED BY <2>2, <3>1, <3>2
  <2>3. \A k \in 0 .. n : k \in Down
    <3> HIDE DEF Down
    <3> QED BY <1>1, <2>1, <2>2, UpToInduction
  <2>4. ASSUME NEW i \in 0 .. n PROVE w[i] \subseteq live
    <3>1. n - i \in 0 .. n /\ n - (n - i) = i
      BY <1>1
    <3> QED BY <2>3, <3>1
  <2> QED BY <2>4
<1>9. ASSUME NEW S, S \cap roots = {}, \A a \in live \ S : Keeps(a) \cap S = {}
      PROVE  S \cap live = {}
  <2> DEFINE Off == {i \in 0 .. n : w[i] \cap S = {}}
  <2>1. 0 \in Off
    BY <1>1, <1>4, <1>9
  <2>2. ASSUME NEW i \in 0 .. n, i \in Off, i < n PROVE i + 1 \in Off
    <3>1. i + 1 \in 0 .. n
      BY <1>1, <2>2
    <3>2. \A a \in w[i] : Keeps(a) \cap S = {}
      BY <1>8, <1>9, <2>2
    <3> QED BY <1>6, <2>2, <3>1, <3>2
  <2>3. \A i \in 0 .. n : i \in Off
    <3> HIDE DEF Off
    <3> QED BY <1>1, <2>1, <2>2, UpToInduction
  <2> QED BY <1>1, <1>2, <2>3
<1>10. roots \subseteq live /\ live \subseteq Atoms
  <2>1. 0 \in 0 .. n /\ n \in 0 .. n
    BY <1>1
  <2> QED BY <1>2, <1>4, <1>5, <1>8, <2>1
<1> QED
  BY <1>7, <1>9, <1>10 DEF live

-----------------------------------------------------------------------------
(***************************************************************************)
(* What has been brought. While the files are visited, the atoms known and *)
(* those of the pending calls are closed under the references of the       *)
(* input, except that only the first group of a name brings its children.  *)
(***************************************************************************)

AtomsIn(calls) == {q.atom : q \in {r \in ToSet(calls) : r.op # "replace"}}

Brought == ToSet(atoms) \cup AtomsIn(todo)

IsFirst(p) == p.group # "none" /\ groupTable[p.name] = p

\* A definition is called for when all of its file is, a child when its parent
\* was the first of its name.
CallsInv ==
  \A q \in ToSet(todo) :
    /\ q.op = "defined" => \E f \in Files : /\ q.atom \in AtomsOf(input.file[f])
                                            /\ AtomsOf(input.file[f]) \subseteq Brought
    /\ q.op = "groupChild" => \E p \in DOMAIN input.refs : q.atom \in GroupChildren(input, p)

ClosureInv ==
  /\ \A a \in Brought \cap DOMAIN input.refs : \A r \in ToSet(input.refs[a]) :
       r.kind # "groupChild" => r.target \in Brought
  /\ \A p \in DOMAIN input.refs :
       /\ IsFirst(p) => GroupChildren(input, p) \subseteq Brought
       /\ GroupChildren(input, p) \cap Brought # {} => IsFirst(p)

\* The atoms that are deadStripNever are among the roots.
RootsInv ==
  /\ deadStripRoots \subseteq input.never \cap added
  /\ Has("deadStrip") => input.never \cap added \subseteq deadStripRoots

GatherInv ==
  /\ refs = input.refs
  /\ liveAtoms = {}
  /\ atoms \in Seq(Atoms)
  /\ added \subseteq ToSet(atoms)
  /\ \A a \in ToSet(atoms) : a.definition = "regular" => a \in added
  /\ CallsInv
  /\ ClosureInv
  /\ RootsInv

LEMMA CallsAre ==
  ASSUME NEW op, NEW S, NEW t \in Seq(S)
  PROVE  ToSet(Calls(op, t)) = {[op |-> op, atom |-> x] : x \in ToSet(t)}
<1>1. DOMAIN Calls(op, t) = 1 .. Len(t)
      /\ \A i \in 1 .. Len(t) : Calls(op, t)[i] = [op |-> op, atom |-> t[i]]
  BY DEF Calls
<1>2. ToSet(t) = {t[i] : i \in 1 .. Len(t)}
  BY ToSetOfSeq
<1> QED
  BY <1>1, <1>2 DEF ToSet

LEMMA HandleFileCalls ==
  ASSUME NEW f \in Files, LinkAssumption(input)
  PROVE  /\ AtomsIn(HandleFile(f)) = AtomsOf(input.file[f])
         /\ \A q \in ToSet(HandleFile(f)) :
              q.op # "groupChild" /\ q.atom \in AtomsOf(input.file[f])
         /\ \A x \in ToSet(input.file[f].defined) :
              [op |-> "defined", atom |-> x] \in ToSet(HandleFile(f))
         /\ \A x \in ToSet(input.file[f].undefined) :
              [op |-> "undefined", atom |-> x] \in ToSet(HandleFile(f))
<1> DEFINE content == input.file[f]
           D == Calls("defined", content.defined)
           U == Calls("undefined", content.undefined)
           L == Calls("sharedLibrary", content.sharedLibrary)
           A == Calls("absolute", content.absolute)
<1>1. /\ content.defined \in Seq(Atoms) /\ content.undefined \in Seq(Atoms)
      /\ content.sharedLibrary \in Seq(Atoms) /\ content.absolute \in Seq(Atoms)
  BY DEF LinkAssumption
<1>2. IsSeq(D) /\ IsSeq(U) /\ IsSeq(L) /\ IsSeq(A)
  BY <1>1, CallsIsSeq
<1>3. /\ ToSet(D) = {[op |-> "defined", atom |-> x] : x \in ToSet(content.defined)}
      /\ ToSet(U) = {[op |-> "undefined", atom |-> x] : x \in ToSet(content.undefined)}
      /\ ToSet(L) = {[op |-> "sharedLibrary", atom |-> x] : x \in ToSet(content.sharedLibrary)}
      /\ ToSet(A) = {[op |-> "absolute", atom |-> x] : x \in ToSet(content.absolute)}
  BY <1>1, CallsAre
<1>4. HandleFile(f) = ((D \o U) \o L) \o A
  BY DEF HandleFile
<1> HIDE DEF D, U, L, A
<1>5. IsSeq(D \o U) /\ ToSet(D \o U) = ToSet(D) \cup ToSet(U)
  BY <1>2, ConcatIsSeq, ToSetOfConcat
<1>6. IsSeq((D \o U) \o L) /\ ToSet((D \o U) \o L) = ToSet(D \o U) \cup ToSet(L)
  BY <1>2, <1>5, ConcatIsSeq, ToSetOfConcat
<1>7. ToSet(HandleFile(f)) = ToSet((D \o U) \o L) \cup ToSet(A)
  BY <1>2, <1>4, <1>6, ToSetOfConcat
<1>8. ToSet(HandleFile(f)) = ToSet(D) \cup ToSet(U) \cup ToSet(L) \cup ToSet(A)
  BY <1>5, <1>6, <1>7
<1>9. ASSUME NEW q \in ToSet(HandleFile(f))
      PROVE  q.op # "groupChild" /\ q.op # "replace" /\ q.atom \in AtomsOf(content)
  BY <1>3, <1>8 DEF AtomsOf
<1>10. ASSUME NEW x \in AtomsOf(content)
       PROVE  x \in AtomsIn(HandleFile(f))
  <2>1. \E op \in {"defined", "undefined", "sharedLibrary", "absolute"} :
          [op |-> op, atom |-> x] \in ToSet(HandleFile(f))
    BY <1>3, <1>8 DEF AtomsOf
  <2> QED BY <1>9, <2>1 DEF AtomsIn
<1>11. /\ \A x \in ToSet(content.defined) :
            [op |-> "defined", atom |-> x] \in ToSet(HandleFile(f))
       /\ \A x \in ToSet(content.undefined) :
            [op |-> "undefined", atom |-> x] \in ToSet(HandleFile(f))
  BY <1>3, <1>8
<1> QED
  BY <1>9, <1>10, <1>11 DEF AtomsIn

LEMMA ChildrenCalls ==
  ASSUME NEW a, RefsAreTyped(input), refs = input.refs
  PROVE  /\ AtomsIn(Children(a)) = GroupChildren(input, a)
         /\ \A q \in ToSet(Children(a)) :
              q.op = "groupChild" /\ q.atom \in GroupChildren(input, a)
<1> DEFINE R == RefsIn(refs, a)
           Refs == [kind : STRING, target : Atoms]
           K == {r \in ToSet(R) : r.kind = "groupChild"}
           child == Sublist(R, K)
<1>1. R \in Seq(Refs)
  <2>1. <<>> \in Seq(Refs)
    OBVIOUS
  <2>2. a \in DOMAIN refs => refs[a] \in Seq(Refs)
    BY DEF RefsAreTyped
  <2> QED BY <2>1, <2>2 DEF RefsIn
<1>2. child \in Seq(Refs) /\ ToSet(child) = K
  <2>1. child \in Seq(Refs) /\ ToSet(child) = ToSet(R) \cap K
    <3> HIDE DEF R, Refs, K
    <3> QED BY <1>1, SublistHas
  <2> QED BY <2>1
<1>3. K = {child[i] : i \in 1 .. Len(child)}
  <2> HIDE DEF child, Refs, K
  <2> QED BY <1>2, ToSetOfSeq
<1>4. GroupChildren(input, a) = {r.target : r \in K}
  BY DEF GroupChildren, Linked
<1>5. /\ DOMAIN Children(a) = 1 .. Len(child)
      /\ \A i \in 1 .. Len(child) : Children(a)[i] = [op |-> "groupChild", atom |-> child[i].target]
  BY DEF Children
<1> HIDE DEF child, K
<1>6. ToSet(Children(a)) = {[op |-> "groupChild", atom |-> r.target] : r \in K}
  BY <1>3, <1>5 DEF ToSet
<1>7. \A q \in ToSet(Children(a)) :
        q.op = "groupChild" /\ q.op # "replace" /\ q.atom \in GroupChildren(input, a)
  BY <1>4, <1>6
<1>8. \A x \in GroupChildren(input, a) :
        [op |-> "groupChild", atom |-> x] \in ToSet(Children(a))
  BY <1>4, <1>6
<1>9. \A x \in GroupChildren(input, a) : \E q \in ToSet(Children(a)) : q.atom = x
  BY <1>8
<1> QED
  BY <1>7, <1>9 DEF AtomsIn

\* A call that is done hands its atom on.
LEMMA CallDone ==
  ASSUME IsSeq(todo), atoms \in Seq(Atoms), NEW op, op # "replace", NEW a \in Atoms,
         Handling(op, a), atoms' = Append(atoms, a),
         NEW extra, IsSeq(extra), todo' = extra \o Tail(todo)
  PROVE  /\ atoms' \in Seq(Atoms)
         /\ ToSet(atoms') = ToSet(atoms) \cup {a}
         /\ Brought' = Brought \cup AtomsIn(extra)
         /\ \A q \in ToSet(todo') : q \in ToSet(todo) \/ q \in ToSet(extra)
<1>1. atoms' \in Seq(Atoms) /\ ToSet(atoms') = ToSet(atoms) \cup {a}
  BY ToSetOfAppend
<1>2. todo # <<>> /\ Head(todo) = [op |-> op, atom |-> a]
  BY DEF Handling
<1>3. ToSet(todo) = {Head(todo)} \cup ToSet(Tail(todo)) /\ IsSeq(Tail(todo))
  <2>1. Head(todo) \in ToSet(todo) /\ ToSet(Tail(todo)) \subseteq ToSet(todo)
    <3>1. todo \in Seq(ToSet(todo))
      BY DEF IsSeq
    <3>2. Head(todo) \in ToSet(todo) /\ Tail(todo) \in Seq(ToSet(todo))
      BY <1>2, <3>1
    <3> QED BY <3>2, ToSetOfSeq
  <2> QED BY <1>2, <2>1, TailIsSeq
<1>4. ToSet(todo') = ToSet(extra) \cup ToSet(Tail(todo))
  BY <1>3, ToSetOfConcat
<1>5. AtomsIn(todo) = {a} \cup AtomsIn(Tail(todo))
  BY <1>2, <1>3 DEF AtomsIn
<1>6. AtomsIn(todo') = AtomsIn(extra) \cup AtomsIn(Tail(todo))
  BY <1>4 DEF AtomsIn
<1>7. Brought' = ToSet(atoms') \cup AtomsIn(todo')
  BY DEF Brought, AtomsIn
<1> QED
  BY <1>1, <1>3, <1>4, <1>5, <1>6, <1>7 DEF Brought

\* What a step brings: atoms that have no references, a file, or the children of
\* a parent that is the first of its name.
Source(X) ==
  \/ \A x \in X : x.definition # "regular"
  \/ \E f \in Files : X = AtomsOf(input.file[f])
  \/ \E p \in DOMAIN input.refs :
       /\ X = GroupChildren(input, p)
       /\ \E f \in Files : p \in AtomsOf(input.file[f]) /\ AtomsOf(input.file[f]) \subseteq Brought

\* What a new call is for.
CalledFor(q, X) ==
  /\ q.op = "defined" => \E f \in Files : X = AtomsOf(input.file[f]) /\ q.atom \in X
  /\ q.op = "groupChild" => \E p \in DOMAIN input.refs : q.atom \in GroupChildren(input, p)

LEMMA BringStep ==
  ASSUME GatherInv, ReaderAssumption(input), input' = input,
         NEW X, Source(X), Brought' = Brought \cup X,
         \A p \in DOMAIN input.refs : IsFirst(p) => IsFirst(p)',
         \A p \in DOMAIN input.refs :
           IsFirst(p)' => IsFirst(p) \/ GroupChildren(input, p) \subseteq X,
         \A p \in DOMAIN input.refs : GroupChildren(input, p) \cap X # {} => IsFirst(p)',
         \A q \in ToSet(todo') : q \in ToSet(todo) \/ CalledFor(q, X)
  PROVE  ClosureInv' /\ CallsInv'
<1>1. ASSUME NEW q \in ToSet(todo')
      PROVE  /\ q.op = "defined" =>
                  \E f \in Files : /\ q.atom \in AtomsOf(input.file[f])
                                   /\ AtomsOf(input.file[f]) \subseteq Brought'
             /\ q.op = "groupChild" =>
                  \E p \in DOMAIN input.refs : q.atom \in GroupChildren(input, p)
  BY DEF GatherInv, CallsInv, CalledFor
<1>2. ASSUME NEW a \in Brought' \cap DOMAIN input.refs, NEW r \in ToSet(input.refs[a]),
             r.kind # "groupChild"
      PROVE  r.target \in Brought'
  <2>1. r \in ToSet(RefsIn(input.refs, a)) /\ r.target \in Targets(input.refs, a)
    BY DEF RefsIn, Targets
  <2>2. CASE a \in Brought
    BY <1>2, <2>2 DEF GatherInv, ClosureInv
  <2>3. CASE a \in X /\ \A x \in X : x.definition # "regular"
    BY <2>3 DEF ReaderAssumption, RefsAreTyped
  <2>4. CASE a \in X /\ \E f \in Files : X = AtomsOf(input.file[f])
    BY <1>2, <2>1, <2>4 DEF ReaderAssumption, FilesAreClosed
  <2>5. ASSUME NEW p \in DOMAIN input.refs, X = GroupChildren(input, p), a \in X,
               NEW f \in Files, p \in AtomsOf(input.file[f]),
               AtomsOf(input.file[f]) \subseteq Brought
        PROVE  r.target \in Brought'
    <3>1. Targets(input.refs, a) \subseteq AtomsOf(input.file[f]) \cup GroupChildren(input, p)
      BY <2>5 DEF ReaderAssumption, FilesAreClosed
    <3> QED BY <2>1, <2>5, <3>1
  <2> QED BY <2>2, <2>3, <2>4, <2>5 DEF Source
<1>3. ASSUME NEW p \in DOMAIN input.refs, IsFirst(p)'
      PROVE  GroupChildren(input, p) \subseteq Brought'
  BY <1>3 DEF GatherInv, ClosureInv
<1>4. ASSUME NEW p \in DOMAIN input.refs, GroupChildren(input, p) \cap Brought' # {}
      PROVE  IsFirst(p)'
  BY <1>4 DEF GatherInv, ClosureInv
<1> QED
  BY <1>1, <1>2, <1>3, <1>4 DEF ClosureInv, CallsInv

\* A step that leaves the tables of groups alone and brings no child.
LEMMA PlainStep ==
  ASSUME GatherInv, ReaderAssumption(input), input' = input, groupTable' = groupTable,
         NEW X, Brought' = Brought \cup X,
         \/ \A x \in X : x.definition # "regular"
         \/ \E f \in Files : X = AtomsOf(input.file[f]),
         \A q \in ToSet(todo') : q \in ToSet(todo) \/ CalledFor(q, X)
  PROVE  ClosureInv' /\ CallsInv'
<1>1. \A p : IsFirst(p)' <=> IsFirst(p)
  BY DEF IsFirst
<1>2. ASSUME NEW p \in DOMAIN input.refs, NEW c \in GroupChildren(input, p)
      PROVE  c \notin X
  <2>1. c.definition = "regular" /\ \A f \in Files : c \notin AtomsOf(input.file[f])
    BY DEF ReaderAssumption, GroupsAreWhole
  <2> QED BY <2>1
<1>3. Source(X)
  BY DEF Source
<1> QED
  BY <1>1, <1>2, <1>3, BringStep

-----------------------------------------------------------------------------
(***************************************************************************)
(* The steps that bring atoms.                                             *)
(***************************************************************************)

LEMMA AtomAdded ==
  ASSUME NEW a, AddToTable(a)
  PROVE  added' = added \cup {a} /\ groupTable' = groupTable
  BY DEF AddToTable, ST!AddByName, ST!AddByContent, ST!AddUntracked

\* The search of a library and the visit of a file find no pending call, and
\* make the calls for a file or for one atom of a shared library.
LEMMA FillStep ==
  ASSUME IInv,
         \/ \E f \in Files : VisitObject(f) \/ VisitLibrary(f)
         \/ SearchUndefine
         \/ \E n \in Names : SearchTentative(n)
  PROVE  /\ todo = <<>>
         /\ UNCHANGED <<table, atoms, deadStripRoots, refs, liveAtoms, input>>
         /\ \/ todo' = <<>>
            \/ \E f \in Files : todo' = HandleFile(f)
            \/ \E x : /\ x.definition = "sharedLibrary"
                      /\ todo' = <<[op |-> "sharedLibrary", atom |-> x]>>
<1>1. CASE \E f \in Files : VisitObject(f) \/ VisitLibrary(f)
  BY <1>1 DEF VisitObject, VisitLibrary, AtFile, Walking, IInv, ListInv, output
<1>2. ASSUME NEW name \in Names, NEW d, Callback(name, d), todo = <<>>, file \in Files
      PROVE  \/ todo' = <<>>
             \/ \E f \in Files : todo' = HandleFile(f)
             \/ \E x : /\ x.definition = "sharedLibrary"
                       /\ todo' = <<[op |-> "sharedLibrary", atom |-> x]>>
  <2> DEFINE member == input.file[file].symbols[name]
             exported == input.file[file].exports[name]
  <2>1. /\ member \in Files \cup {NoFile}
        /\ exported # NoAtom => exported.definition = "sharedLibrary"
    BY <1>2 DEF IInv, ListInv, LinkAssumption
  <2>2. CASE input.file[file].kind = "archive"
    <3>1. todo' = todo \/ (member \in Files /\ todo' = HandleFile(member))
      BY <1>2, <2>1, <2>2 DEF Callback, Finds
    <3> QED BY <1>2, <3>1
  <2>3. CASE input.file[file].kind # "archive"
    <3>1. todo' = IF exported # NoAtom THEN <<[op |-> "sharedLibrary", atom |-> exported]>>
                                       ELSE <<>>
      BY <1>2, <2>3 DEF Callback
    <3> QED BY <2>1, <3>1
  <2> QED BY <2>2, <2>3
<1>3. ASSUME SearchUndefine \/ \E n \in Names : SearchTentative(n)
      PROVE  /\ todo = <<>> /\ file \in Files
             /\ UNCHANGED <<table, atoms, deadStripRoots, refs, liveAtoms, input>>
             /\ todo' = <<>> \/ \E n \in Names, d \in BOOLEAN : Callback(n, d)
  <2>1. /\ todo = <<>> /\ search # "none"
        /\ UNCHANGED <<table, output, input>>
    BY <1>3 DEF SearchUndefine, SearchTentative, Searching
  <2>2. file \in Files
    BY <2>1 DEF IInv, ListInv
  <2>3. CASE SearchUndefine
    <3>1. undefines[pos] \in Names
      BY <2>3 DEF SearchUndefine, IInv, ListInv
    <3> QED BY <2>1, <2>2, <2>3, <3>1 DEF SearchUndefine, output
  <2>4. CASE \E n \in Names : SearchTentative(n)
    BY <2>1, <2>2, <2>4 DEF SearchTentative, output
  <2> QED BY <1>3, <2>3, <2>4
<1> QED
  BY <1>1, <1>2, <1>3

LEMMA FillGather ==
  ASSUME IInv, ReaderAssumption(input), GatherInv,
         \/ \E f \in Files : VisitObject(f) \/ VisitLibrary(f)
         \/ SearchUndefine
         \/ \E n \in Names : SearchTentative(n)
  PROVE  GatherInv'
<1>1. /\ todo = <<>>
      /\ UNCHANGED <<table, atoms, deadStripRoots, refs, liveAtoms, input>>
  BY FillStep
<1>2. /\ groupTable' = groupTable /\ added' = added /\ input' = input
      /\ ToSet(atoms') = ToSet(atoms)
  BY <1>1 DEF table
<1>3. Brought = ToSet(atoms) /\ Brought' = ToSet(atoms) \cup AtomsIn(todo')
  BY <1>1, <1>2 DEF Brought, AtomsIn, ToSet
<1>4. ClosureInv' /\ CallsInv'
  <2>1. CASE todo' = <<>>
    <3>1. AtomsIn(todo') = {} /\ ToSet(todo') = {}
      BY <2>1 DEF AtomsIn, ToSet
    <3> QED BY <1>2, <1>3, <3>1, PlainStep
  <2>2. ASSUME NEW f \in Files, todo' = HandleFile(f)
        PROVE  ClosureInv' /\ CallsInv'
    <3> DEFINE X == AtomsOf(input.file[f])
    <3>1. /\ AtomsIn(todo') = X
          /\ \A q \in ToSet(todo') : q.op # "groupChild" /\ q.atom \in X
      BY <2>2, HandleFileCalls DEF IInv, ListInv
    <3>2. \A q \in ToSet(todo') : CalledFor(q, X)
      BY <3>1 DEF CalledFor
    <3> QED BY <1>2, <1>3, <3>1, <3>2, PlainStep
  <2>3. ASSUME NEW x, x.definition = "sharedLibrary",
               todo' = <<[op |-> "sharedLibrary", atom |-> x]>>
        PROVE  ClosureInv' /\ CallsInv'
    <3>1. ToSet(todo') = {[op |-> "sharedLibrary", atom |-> x]}
      BY <2>3 DEF ToSet
    <3>2. AtomsIn(todo') = {x}
      <4>1. \A q \in ToSet(todo') : q.op # "replace" /\ q.atom = x
        BY <3>1
      <4>2. [op |-> "sharedLibrary", atom |-> x] \in ToSet(todo')
        BY <3>1
      <4>3. \E q \in ToSet(todo') : q.op # "replace" /\ q.atom = x
        BY <4>1, <4>2
      <4> QED BY <4>1, <4>3 DEF AtomsIn
    <3>3. \A q \in ToSet(todo') : CalledFor(q, {x})
      BY <3>1 DEF CalledFor
    <3> QED BY <1>2, <1>3, <2>3, <3>2, <3>3, PlainStep
  <2> QED BY <2>1, <2>2, <2>3, FillStep
<1> QED
  BY <1>1, <1>2, <1>4 DEF GatherInv, RootsInv, Has

-----------------------------------------------------------------------------
(***************************************************************************)
(* One call of an atom.                                                    *)
(***************************************************************************)

LEMMA NoExtra ==
  ASSUME IsSeq(todo), todo # <<>>
  PROVE  IsSeq(<<>>) /\ AtomsIn(<<>>) = {} /\ ToSet(<<>>) = {} /\ <<>> \o Tail(todo) = Tail(todo)
<1>1. IsSeq(Tail(todo))
  BY TailIsSeq
<1>2. <<>> \o Tail(todo) = Tail(todo)
  BY <1>1 DEF IsSeq
<1>3. ToSet(<<>>) = {}
  BY DEF ToSet
<1> QED
  BY <1>2, <1>3 DEF IsSeq, AtomsIn

\* The roots, when the atom need not be one.
LEMMA RootsStep ==
  ASSUME RootsInv, NEW a, input' = input,
         added' = added \cup {a} \/ added' = added,
         a \notin input.never /\ deadStripRoots' = deadStripRoots
  PROVE  RootsInv'
  BY DEF RootsInv, Has

\* What every call of an atom leaves to show: where the calls and the atoms it
\* brings come from.
LEMMA CallGather ==
  ASSUME IInv, ReaderAssumption(input), GatherInv,
         NEW op, op # "replace", NEW a \in Atoms, Handling(op, a), Known(a), RootsInv',
         added' = added \cup {a} \/ (added' = added /\ a.definition # "regular"),
         ClosureInv' /\ CallsInv'
  PROVE  GatherInv'
<1>1. /\ refs' = input'.refs /\ liveAtoms' = {}
      /\ atoms' = Append(atoms, a)
  BY DEF Known, GatherInv
<1>2. atoms' \in Seq(Atoms) /\ ToSet(atoms') = ToSet(atoms) \cup {a}
  BY <1>1, ToSetOfAppend DEF GatherInv
<1>3. added' \subseteq ToSet(atoms') /\ \A b \in ToSet(atoms') : b.definition = "regular" => b \in added'
  BY <1>2 DEF GatherInv
<1> QED
  BY <1>1, <1>2, <1>3 DEF GatherInv

\* The calls that bring nothing.
LEMMA PlainCall ==
  ASSUME IInv, ReaderAssumption(input), GatherInv,
         NEW op, op # "replace", NEW a \in Atoms, Handling(op, a), Known(a),
         todo' = Tail(todo), groupTable' = groupTable
  PROVE  ClosureInv' /\ CallsInv'
<1>1. IsSeq(todo) /\ todo # <<>> /\ atoms \in Seq(Atoms) /\ atoms' = Append(atoms, a) /\ input' = input
  BY DEF IInv, ListInv, Handling, GatherInv, Known
<1>2. IsSeq(<<>>) /\ AtomsIn(<<>>) = {} /\ ToSet(<<>>) = {} /\ todo' = <<>> \o Tail(todo)
  BY <1>1, NoExtra
<1>3. /\ Brought' = Brought \cup {}
      /\ \A q \in ToSet(todo') : q \in ToSet(todo)
  <2>1. /\ Brought' = Brought \cup AtomsIn(<<>>)
        /\ \A q \in ToSet(todo') : q \in ToSet(todo) \/ q \in ToSet(<<>>)
    BY <1>1, <1>2, CallDone
  <2> QED BY <1>2, <2>1
<1> QED
  BY <1>1, <1>3, PlainStep

LEMMA PlainGather ==
  ASSUME IInv, ReaderAssumption(input), GatherInv, NEW a \in Atoms,
         \/ DoDefinedAtom(a)
         \/ DoGroupChild(a)
         \/ DoSharedLibraryAtom(a)
         \/ DoAbsoluteAtom(a)
  PROVE  GatherInv'
<1>1. CASE DoDefinedAtom(a)
  <2>1. /\ Handling("defined", a) /\ Known(a) /\ KeepRoot(a)
        /\ todo' = Tail(todo) /\ AddToTable(a) /\ input' = input
    BY <1>1 DEF DoDefinedAtom, Known
  <2>2. added' = added \cup {a} /\ groupTable' = groupTable
    BY <2>1, AtomAdded
  <2>3. RootsInv'
    <3>1. RootsInv /\ KeepRoot(a) /\ added' = added \cup {a} /\ input' = input
      BY <2>1, <2>2 DEF GatherInv
    <3> QED BY <3>1 DEF RootsInv, KeepRoot, Has
  <2>4. ClosureInv' /\ CallsInv'
    BY <2>1, <2>2, PlainCall
  <2> QED BY <2>1, <2>2, <2>3, <2>4, CallGather
<1>2. CASE DoGroupChild(a)
  <2>1. /\ Handling("groupChild", a) /\ Known(a) /\ deadStripRoots' = deadStripRoots
        /\ todo' = Tail(todo) /\ AddToTable(a) /\ input' = input
    BY <1>2 DEF DoGroupChild, Known
  <2>2. added' = added \cup {a} /\ groupTable' = groupTable
    BY <2>1, AtomAdded
  <2>3. a \notin input.never
    <3>1. Head(todo) \in ToSet(todo) /\ Head(todo) = [op |-> "groupChild", atom |-> a]
      <4>1. IsSeq(todo) /\ todo # <<>> /\ Head(todo) = [op |-> "groupChild", atom |-> a]
        BY <2>1 DEF IInv, ListInv, Handling
      <4>2. todo \in Seq(ToSet(todo))
        BY <4>1 DEF IsSeq
      <4> QED BY <4>1, <4>2
    <3>2. \E p \in DOMAIN input.refs : a \in GroupChildren(input, p)
      BY <3>1 DEF GatherInv, CallsInv
    <3> QED BY <3>2 DEF ReaderAssumption, GroupsAreWhole
  <2>4. RootsInv'
    BY <2>1, <2>2, <2>3, RootsStep DEF GatherInv
  <2>5. ClosureInv' /\ CallsInv'
    BY <2>1, <2>2, PlainCall
  <2> QED BY <2>1, <2>2, <2>4, <2>5, CallGather
<1>3. CASE DoSharedLibraryAtom(a)
  <2>1. /\ Handling("sharedLibrary", a) /\ Known(a) /\ deadStripRoots' = deadStripRoots
        /\ todo' = Tail(todo) /\ AddToTable(a) /\ input' = input
        /\ a.definition = "sharedLibrary"
    BY <1>3 DEF DoSharedLibraryAtom, Known, Handling, Takes
  <2>2. added' = added \cup {a} /\ groupTable' = groupTable
    BY <2>1, AtomAdded
  <2>3. a \notin input.never
    BY <2>1 DEF ReaderAssumption
  <2>4. RootsInv'
    BY <2>1, <2>2, <2>3, RootsStep DEF GatherInv
  <2>5. ClosureInv' /\ CallsInv'
    BY <2>1, <2>2, PlainCall
  <2> QED BY <2>1, <2>2, <2>4, <2>5, CallGather
<1>4. CASE DoAbsoluteAtom(a)
  <2>1. /\ Handling("absolute", a) /\ Known(a) /\ deadStripRoots' = deadStripRoots
        /\ todo' = Tail(todo) /\ input' = input
        /\ AddToTable(a) \/ UNCHANGED table
        /\ a.definition = "absolute"
    BY <1>4 DEF DoAbsoluteAtom, Known, Handling, Takes
  <2>2. (added' = added \cup {a} \/ added' = added) /\ groupTable' = groupTable
    BY <2>1, AtomAdded DEF table
  <2>3. a \notin input.never
    BY <2>1 DEF ReaderAssumption
  <2>4. RootsInv'
    BY <2>1, <2>2, <2>3, RootsStep DEF GatherInv
  <2>5. ClosureInv' /\ CallsInv'
    BY <2>1, <2>2, PlainCall
  <2> QED BY <2>1, <2>2, <2>4, <2>5, CallGather
<1> QED BY <1>1, <1>2, <1>3, <1>4

\* The parent of a group brings the children if it is the first of its name.
LEMMA FirstGroup ==
  ASSUME IInv, ReaderAssumption(input), GatherInv, NEW a \in Atoms, DoGroupParent(a),
         groupTable[a.name] = NoAtom
  PROVE  ClosureInv' /\ CallsInv'
<1> DEFINE X == GroupChildren(input, a)
<1>1. /\ Handling("defined", a) /\ a.group # "none" /\ input' = input
      /\ atoms' = Append(atoms, a) /\ todo' = Children(a) \o Tail(todo)
      /\ groupTable' = [groupTable EXCEPT ![a.name] = a]
  BY DEF DoGroupParent, Known, ST!AddGroup
<1>2. /\ RefsAreTyped(input) /\ refs = input.refs
      /\ IsSeq(todo) /\ todo # <<>> /\ atoms \in Seq(Atoms)
      /\ Head(todo) = [op |-> "defined", atom |-> a]
  BY <1>1 DEF ReaderAssumption, GatherInv, IInv, ListInv, Handling
<1>3. IsSeq(Children(a))
  BY <1>2, ChildrenIsSeq
<1>4. /\ AtomsIn(Children(a)) = X
      /\ \A q \in ToSet(Children(a)) : q.op = "groupChild" /\ q.atom \in X
  BY <1>2, ChildrenCalls
<1>5. /\ Brought' = Brought \cup AtomsIn(Children(a))
      /\ \A q \in ToSet(todo') : q \in ToSet(todo) \/ q \in ToSet(Children(a))
  BY <1>1, <1>2, <1>3, CallDone
<1>6. a \notin DOMAIN input.refs => X = {}
  <2>1. a \notin DOMAIN input.refs => ToSet(RefsIn(input.refs, a)) = {}
    BY DEF RefsIn, ToSet
  <2> QED BY <2>1 DEF GroupChildren, Linked
<1>7. \E f \in Files : a \in AtomsOf(input.file[f]) /\ AtomsOf(input.file[f]) \subseteq Brought
  <2>1. Head(todo) \in ToSet(todo)
    <3>1. todo \in Seq(ToSet(todo))
      BY <1>2 DEF IsSeq
    <3> QED BY <1>2, <3>1
  <2> QED BY <1>2, <2>1 DEF GatherInv, CallsInv
<1>8. Source(X)
  BY <1>6, <1>7 DEF Source
<1>9. a.name \in Names /\ groupTable'[a.name] = a /\ a # NoAtom
      /\ \A n : n # a.name => groupTable'[n] = groupTable[n]
  <2>1. a.name \in Names
    BY <1>1, TableAssumption, T!NamedGroup
  <2>2. groupTable \in [Names -> added \cup {NoAtom}]
    BY DEF IInv, T!NameInv, T!TypeOK
  <2>3. a # NoAtom
    BY TableAssumption DEF T!SymbolTableAssumption
  <2> QED BY <1>1, <2>1, <2>2, <2>3
<1>10. ASSUME NEW p \in DOMAIN input.refs
       PROVE  /\ IsFirst(p) => IsFirst(p)'
              /\ IsFirst(p)' => IsFirst(p) \/ GroupChildren(input, p) \subseteq X
              /\ GroupChildren(input, p) \cap X # {} => IsFirst(p)'
  <2>1. p # NoAtom
    BY TableAssumption DEF ReaderAssumption, RefsAreTyped, T!SymbolTableAssumption
  <2>2. IsFirst(p) => IsFirst(p)'
    BY <1>9, <2>1 DEF IsFirst
  <2>3. IsFirst(p)' => IsFirst(p) \/ p = a
    BY <1>9 DEF IsFirst
  <2>4. GroupChildren(input, p) \cap X # {} => p = a
    BY <1>6 DEF ReaderAssumption, GroupsAreWhole
  <2>5. IsFirst(a)'
    BY <1>1, <1>9 DEF IsFirst
  <2> QED BY <2>2, <2>3, <2>4, <2>5
<1>11. ASSUME NEW q \in ToSet(todo')
       PROVE  q \in ToSet(todo) \/ CalledFor(q, X)
  <2>1. q \in ToSet(Children(a)) => CalledFor(q, X)
    BY <1>4, <1>6 DEF CalledFor
  <2> QED BY <1>5, <2>1
<1> HIDE DEF X
<1> QED
  BY <1>1, <1>4, <1>5, <1>8, <1>10, <1>11, BringStep

LEMMA ParentGather ==
  ASSUME IInv, ReaderAssumption(input), GatherInv, NEW a \in Atoms, DoGroupParent(a)
  PROVE  GatherInv'
<1>1. /\ Handling("defined", a) /\ Known(a) /\ KeepRoot(a) /\ input' = input
      /\ added' = added \cup {a}
      /\ groupTable[a.name] # NoAtom => todo' = Tail(todo) /\ groupTable' = groupTable
  BY DEF DoGroupParent, Known, ST!AddGroup
<1>2. RootsInv'
  <2>1. RootsInv
    BY DEF GatherInv
  <2> QED BY <1>1, <2>1 DEF RootsInv, KeepRoot, Has
<1>3. ClosureInv' /\ CallsInv'
  BY <1>1, FirstGroup, PlainCall
<1> QED
  BY <1>1, <1>2, <1>3, CallGather

\* An undefined atom brings its fallback.
LEMMA UndefinedGather ==
  ASSUME IInv, ReaderAssumption(input), GatherInv, NEW a \in Atoms,
         NEW op \in {"undefined", "fallback"}, DoUndefinedAtom(op, a)
  PROVE  GatherInv'
<1> DEFINE pair == <<[op |-> "fallback", atom |-> a.fallback], [op |-> "replace", atom |-> a]>>
<1>1. /\ Handling(op, a) /\ Known(a) /\ input' = input /\ deadStripRoots' = deadStripRoots
      /\ AddToTable(a) /\ a.definition = "undefined" /\ op # "replace"
      /\ todo' = Tail(todo) \/ (a.fallback # NoAtom /\ todo' = pair \o Tail(todo))
  BY DEF DoUndefinedAtom, Known, Handling, Takes
<1>2. added' = added \cup {a} /\ groupTable' = groupTable
  BY <1>1, AtomAdded
<1>3. RootsInv'
  <2>1. a \notin input.never
    BY <1>1 DEF ReaderAssumption
  <2> QED BY <1>1, <1>2, <2>1, RootsStep DEF GatherInv
<1>4. ASSUME a.fallback # NoAtom, todo' = pair \o Tail(todo)
      PROVE  ClosureInv' /\ CallsInv'
  <2>1. IsSeq(todo) /\ atoms \in Seq(Atoms) /\ atoms' = Append(atoms, a)
    BY <1>1 DEF IInv, ListInv, GatherInv, Known
  <2>2. a.fallback.definition = "undefined"
    BY <1>4, TableAssumption DEF T!SymbolTableAssumption, T!AtomAssumption
  <2>3. IsSeq(pair)
    BY PairIsSeq
  <2>4. ToSet(pair) = {[op |-> "fallback", atom |-> a.fallback], [op |-> "replace", atom |-> a]}
    BY DEF ToSet
  <2>5. \A q \in ToSet(pair) : /\ q.op # "defined" /\ q.op # "groupChild"
                               /\ q.op # "replace" => q.atom = a.fallback
    BY <2>4
  <2>6. [op |-> "fallback", atom |-> a.fallback] \in ToSet(pair)
    BY <2>4
  <2>7. \E q \in ToSet(pair) : q.op # "replace" /\ q.atom = a.fallback
    BY <2>6
  <2> HIDE DEF pair
  <2>8. AtomsIn(pair) = {a.fallback}
    BY <2>5, <2>7 DEF AtomsIn
  <2>9. /\ Brought' = Brought \cup AtomsIn(pair)
        /\ \A q \in ToSet(todo') : q \in ToSet(todo) \/ q \in ToSet(pair)
    BY <1>1, <1>4, <2>1, <2>3, CallDone
  <2>10. \A q \in ToSet(todo') : q \in ToSet(todo) \/ CalledFor(q, {a.fallback})
    BY <2>5, <2>9 DEF CalledFor
  <2>11. Brought' = Brought \cup {a.fallback} /\ \A x \in {a.fallback} : x.definition # "regular"
    BY <2>2, <2>8, <2>9
  <2> QED BY <1>1, <1>2, <2>10, <2>11, PlainStep
<1>5. ClosureInv' /\ CallsInv'
  BY <1>1, <1>2, <1>4, PlainCall
<1> QED
  BY <1>1, <1>2, <1>3, <1>5, CallGather

\* addReplacement() brings nothing.
LEMMA ReplacementGather ==
  ASSUME IInv, ReaderAssumption(input), GatherInv, NEW a \in Atoms, AddReplacement(a)
  PROVE  GatherInv'
<1>1. /\ Head(todo) = [op |-> "replace", atom |-> a] /\ todo # <<>>
      /\ todo' = Tail(todo) /\ groupTable' = groupTable /\ added' = added
      /\ UNCHANGED <<refs, atoms, deadStripRoots, liveAtoms, input>>
  BY DEF AddReplacement, Handling, ST!AddReplacement, output
<1>2. IsSeq(todo)
  BY DEF IInv, ListInv
<1>3. /\ \A q \in ToSet(todo) : q = Head(todo) \/ q \in ToSet(Tail(todo))
      /\ ToSet(Tail(todo)) \subseteq ToSet(todo)
  <2>1. todo \in Seq(ToSet(todo))
    BY <1>2 DEF IsSeq
  <2>2. Tail(todo) \in Seq(ToSet(todo))
    BY <1>1, <2>1
  <2>3. ToSet(Tail(todo)) \subseteq ToSet(todo)
    BY <2>2, ToSetOfSeq
  <2> QED BY <1>1, <1>2, <2>3, TailIsSeq
<1>4. Brought' = Brought
  <2>1. \A q \in ToSet(todo) : q.op # "replace" => q \in ToSet(Tail(todo))
    BY <1>1, <1>3
  <2>2. AtomsIn(todo) = AtomsIn(Tail(todo))
    BY <1>3, <2>1 DEF AtomsIn
  <2>3. Brought' = ToSet(atoms) \cup AtomsIn(Tail(todo))
    BY <1>1 DEF Brought, AtomsIn, ToSet
  <2> QED BY <2>2, <2>3 DEF Brought
<1>5. ClosureInv' /\ CallsInv'
  <2>1. Brought' = Brought \cup {} /\ \A q \in ToSet(todo') : q \in ToSet(todo)
    BY <1>1, <1>3, <1>4
  <2> QED BY <1>1, <2>1, PlainStep
<1>6. RootsInv'
  BY <1>1 DEF GatherInv, RootsInv, Has
<1>7. ToSet(atoms') = ToSet(atoms)
  BY <1>1 DEF ToSet
<1> QED
  BY <1>1, <1>5, <1>6, <1>7 DEF GatherInv

\* The steps that bring nothing: they walk over the nodes and the names, or take
\* the files for handled.
LEMMA FrameGather ==
  ASSUME GatherInv, UNCHANGED <<table, todo, atoms, deadStripRoots, refs, liveAtoms, input>>
  PROVE  GatherInv'
<1>1. /\ UNCHANGED <<groupTable, added, todo, atoms, deadStripRoots, refs, liveAtoms, input>>
  BY DEF table
<1>2. ToSet(atoms') = ToSet(atoms) /\ ToSet(todo') = ToSet(todo) /\ Brought' = Brought
  BY <1>1 DEF ToSet, Brought, AtomsIn
<1>3. \A p : IsFirst(p)' <=> IsFirst(p)
  BY <1>1 DEF IsFirst
<1> QED
  BY <1>1, <1>2, <1>3 DEF GatherInv, CallsInv, ClosureInv, RootsInv, Has

-----------------------------------------------------------------------------
(***************************************************************************)
(* updateReferences().                                                     *)
(***************************************************************************)

\* The parents of groups that lost their name.
Lost == {p \in DOMAIN refs : p.group # "none" /\ ST!IsCoalescedAway(p)}

\* After updateReferences: what is known, without the lost groups, is closed, and
\* nothing that is known is of a lost group.
SettledInv ==
  /\ RefsAreTyped([refs |-> refs])
  /\ DOMAIN refs = DOMAIN input.refs
  /\ atoms \in Seq(Atoms)
  /\ added \subseteq ToSet(atoms)
  /\ \A a \in (ToSet(atoms) \cap DOMAIN refs) \ Lost :
       Targets(refs, a) \subseteq ToSet(atoms) \ Lost
  /\ \A p \in Lost : Targets(refs, p) \cap ToSet(atoms) = {}
  /\ RootsInv

LEMMA SameReplacement == \A a : ST!Replacement(a) = T!Replacement(a)
  BY DEF ST!Replacement, T!Replacement, ST!IsCoalescedAway, T!IsCoalescedAway,
         ST!Cardinality, T!Cardinality

LEMMA SameFinite == \A S : T!IsFiniteSet(S) <=> IsFiniteSet(S)
  BY DEF T!IsFiniteSet, IsFiniteSet

\* Where a reference is redirected to.
LEMMA RedirectedTo ==
  ASSUME T!ChainInv, added \subseteq ToSet(atoms), NEW t \in Atoms
  PROVE  /\ ST!Replacement(t) \in Atoms
         /\ t \in ToSet(atoms) =>
              ST!Replacement(t) \in ToSet(atoms) /\ ~ST!IsCoalescedAway(ST!Replacement(t))
         /\ t \notin added => ST!Replacement(t) = t
<1>1. /\ T!TypeOK /\ T!IsFiniteSet(added) /\ T!NoReplacementCycle
      /\ added \subseteq Atoms /\ (T!IsCoalescedAway(t) => t \in added)
  BY DEF T!ChainInv, T!NameInv, T!TypeOK
<1>2. t \in added => T!Replacement(t) \in added /\ ~T!IsCoalescedAway(T!Replacement(t))
  BY <1>1, TableAssumption, T!ReplacementOfLoser
<1>3. t \notin added => T!Replacement(t) = t
  BY <1>1, TableAssumption, T!ReplacementOfItself
<1>4. t \notin added => ~T!IsCoalescedAway(t)
  BY <1>1
<1> QED
  BY <1>1, <1>2, <1>3, <1>4, SameReplacement, SameQueries

\* Where the references of an atom lead after updateReferences.
LEMMA UpdatedTargets ==
  ASSUME T!ChainInv, RefsAreTyped(input), refs = input.refs, added \subseteq ToSet(atoms),
         UpdateReferences, NEW a \in DOMAIN input.refs
  PROVE  /\ refs'[a] \in Seq([kind : STRING, target : Atoms])
         /\ a \notin ToSet(atoms) => Targets(refs, a)' = Targets(input.refs, a)
         /\ a \in ToSet(atoms) =>
              \A t \in Targets(refs, a)' :
                \E r \in ToSet(input.refs[a]) :
                  t = IF r.kind = "associate" THEN r.target ELSE ST!Replacement(r.target)
<1> DEFINE Refs == [kind : STRING, target : Atoms]
           s == input.refs[a]
           n == Len(s)
<1>0. s \in Seq(Refs)
  BY DEF RefsAreTyped
<1>1. s \in Seq(Refs) /\ DOMAIN s = 1 .. n /\ n \in Nat
  <2> HIDE DEF Refs, s
  <2> QED BY <1>0
<1>2. refs' = [b \in DOMAIN refs |->
                 IF b \in ToSet(atoms)
                   THEN [i \in 1 .. Len(refs[b]) |-> Redirect(refs[b][i])]
                   ELSE refs[b]]
  BY DEF UpdateReferences
<1>3. /\ DOMAIN refs' = DOMAIN input.refs
      /\ a \in ToSet(atoms) => refs'[a] = [i \in 1 .. n |-> Redirect(s[i])]
      /\ a \notin ToSet(atoms) => refs'[a] = s
  BY <1>2
<1>4. ASSUME NEW r \in Refs
      PROVE  /\ Redirect(r) \in Refs
             /\ Redirect(r).target = IF r.kind = "associate" THEN r.target ELSE ST!Replacement(r.target)
  <2>1. ST!Replacement(r.target) \in Atoms
    BY RedirectedTo
  <2> QED BY <2>1 DEF Redirect
<1>5. \A i \in 1 .. n : s[i] \in Refs /\ s[i] \in ToSet(s)
  <2> HIDE DEF Refs, s
  <2> QED BY <1>1 DEF ToSet
<1> HIDE DEF Refs, n
<1>6. refs'[a] \in Seq(Refs)
  <2>1. a \in ToSet(atoms) => refs'[a] \in Seq(Refs)
    <3>1. \A i \in 1 .. n : Redirect(s[i]) \in Refs
      BY <1>4, <1>5
    <3>2. [i \in 1 .. n |-> Redirect(s[i])] \in Seq(Refs)
      BY <1>1, <3>1
    <3> QED BY <1>3, <3>2
  <2> QED BY <1>1, <1>3, <2>1
<1>7. Targets(refs, a)' = {r.target : r \in ToSet(refs'[a])}
  <2>1. RefsIn(refs', a) = refs'[a]
    BY <1>3 DEF RefsIn
  <2> QED BY <2>1 DEF Targets
<1>8. a \notin ToSet(atoms) => Targets(refs, a)' = Targets(input.refs, a)
  BY <1>3, <1>7 DEF Targets, RefsIn
<1>9. ASSUME a \in ToSet(atoms), NEW t \in Targets(refs, a)'
      PROVE  \E r \in ToSet(s) :
               t = IF r.kind = "associate" THEN r.target ELSE ST!Replacement(r.target)
  <2>1. PICK q \in ToSet(refs'[a]) : t = q.target
    BY <1>7, <1>9
  <2>2. PICK i \in 1 .. n : q = Redirect(s[i])
    BY <1>3, <1>9, <2>1 DEF ToSet
  <2> QED BY <1>4, <1>5, <2>1, <2>2
<1> QED
  BY <1>6, <1>8, <1>9 DEF Refs

LEMMA TargetsAreAtoms ==
  ASSUME NEW references, RefsAreTyped([refs |-> references]), NEW a
  PROVE  Targets(references, a) \subseteq Atoms /\ IsFiniteSet(Targets(references, a))
<1>1. CASE a \notin DOMAIN references
  <2>1. Targets(references, a) = {}
    BY <1>1 DEF Targets, RefsIn, ToSet
  <2> QED BY <2>1, FS_EmptySet
<1>2. CASE a \in DOMAIN references
  <2> DEFINE s == references[a]
             Refs == [kind : STRING, target : Atoms]
  <2>1. s \in Seq(Refs)
    BY <1>2 DEF RefsAreTyped
  <2>2. Targets(references, a) = {s[i].target : i \in 1 .. Len(s)}
    BY <1>2, <2>1 DEF Targets, RefsIn, ToSet
  <2>3. Targets(references, a) \subseteq Atoms
    <3>1. \A i \in 1 .. Len(s) : s[i] \in Refs
      <4> HIDE DEF s, Refs
      <4> QED BY <2>1
    <3>2. \A i \in 1 .. Len(s) : s[i].target \in Atoms
      BY <3>1
    <3> QED BY <2>2, <3>2
  <2>4. IsFiniteSet(Targets(references, a))
    <3> DEFINE targets == [i \in 1 .. Len(s) |-> s[i].target]
    <3>1. IsFiniteSet(1 .. Len(s))
      <4>1. Len(s) \in Nat
        BY <2>1
      <4> QED BY <4>1, FS_Interval
    <3>2. Targets(references, a) = {targets[i] : i \in 1 .. Len(s)}
      BY <2>2
    <3> HIDE DEF targets
    <3> QED BY <3>1, <3>2, FiniteValues
  <2> QED BY <2>3, <2>4
<1> QED BY <1>1, <1>2

LEMMA UpdateSettles ==
  ASSUME T!ChainInv, ReaderAssumption(input), GatherInv, todo = <<>>, UpdateReferences
  PROVE  SettledInv'
<1>1. /\ refs = input.refs /\ input' = input /\ RefsAreTyped(input) /\ ~fatal
      /\ added \subseteq ToSet(atoms) /\ atoms \in Seq(Atoms)
      /\ UNCHANGED <<groupTable, replacedAtoms, added, atoms, deadStripRoots, input>>
  BY DEF ReaderAssumption, GatherInv, UpdateReferences, At, table, work
<1>0. \A a : Targets(input.refs, a) \subseteq Atoms
  <2>1. RefsAreTyped([refs |-> input.refs])
    BY <1>1 DEF RefsAreTyped
  <2> QED BY <2>1, TargetsAreAtoms
<1>2. Brought = ToSet(atoms)
  <2>1. AtomsIn(todo) = {}
    BY DEF AtomsIn, ToSet
  <2> QED BY <2>1 DEF Brought
<1>3. DOMAIN refs' = DOMAIN input.refs
  BY <1>1 DEF UpdateReferences
<1>4. RefsAreTyped([refs |-> refs'])
  <2>1. \A a \in DOMAIN input.refs : refs'[a] \in Seq([kind : STRING, target : Atoms])
    BY <1>1, UpdatedTargets
  <2> QED BY <1>1, <1>3, <2>1 DEF RefsAreTyped
<1>5. Lost' = {p \in DOMAIN input.refs : p.group # "none" /\ ST!IsCoalescedAway(p)}
  BY <1>1, <1>3 DEF Lost, ST!IsCoalescedAway
<1> DEFINE Lost1 == {p \in DOMAIN input.refs : p.group # "none" /\ ST!IsCoalescedAway(p)}
\* A group that lost its name is not the first, so that its children are unknown.
<1>6. ASSUME NEW p \in Lost1
      PROVE  /\ p \in added
             /\ Targets(input.refs, p) = GroupChildren(input, p)
             /\ GroupChildren(input, p) \cap ToSet(atoms) = {}
  <2>1. p \in Atoms /\ p.definition = "regular" /\ p.group # "none" /\ T!IsCoalescedAway(p)
    BY <1>1, SameQueries DEF RefsAreTyped
  <2>2. p \in added
    BY <2>1 DEF T!ChainInv, T!NameInv, T!TypeOK
  <2>3. ~IsFirst(p)
    <3>1. p.fallback = NoAtom
      BY <2>1, TableAssumption DEF T!SymbolTableAssumption, T!AtomAssumption
    <3>2. p # T!CurrentAtom(p)
      BY <2>1, <2>2, <3>1 DEF T!ChainInv, T!CurrentInv
    <3> QED BY <2>1, <3>2 DEF T!CurrentAtom, IsFirst
  <2>4. GroupChildren(input, p) \cap Brought = {}
    BY <2>3 DEF GatherInv, ClosureInv
  <2> QED BY <1>2, <2>1, <2>2, <2>4 DEF ReaderAssumption, GroupsAreWhole
<1>7. ASSUME NEW p \in Lost1
      PROVE  Targets(refs, p)' \cap ToSet(atoms) = {}
  <2> SUFFICES ASSUME NEW t \in Targets(refs, p)' PROVE t \notin ToSet(atoms)
    OBVIOUS
  <2>1. p \in ToSet(atoms)
    BY <1>1, <1>6
  <2>2. PICK r \in ToSet(input.refs[p]) :
          t = IF r.kind = "associate" THEN r.target ELSE ST!Replacement(r.target)
    BY <1>1, <2>1, UpdatedTargets
  <2>3. r.target \in Targets(input.refs, p)
    BY DEF Targets, RefsIn
  <2>4. r.target \notin ToSet(atoms) /\ r.target \notin added
    BY <1>1, <1>6, <2>3
  <2>5. r.target \in Atoms
    BY <1>0, <2>3
  <2>6. ST!Replacement(r.target) = r.target
    BY <1>1, <2>4, <2>5, RedirectedTo
  <2> QED BY <2>2, <2>4, <2>6
<1>8. ASSUME NEW a \in (ToSet(atoms) \cap DOMAIN input.refs) \ Lost1, NEW t \in Targets(refs, a)'
      PROVE  t \in ToSet(atoms) \ Lost1
  <2>1. PICK r \in ToSet(input.refs[a]) :
          t = IF r.kind = "associate" THEN r.target ELSE ST!Replacement(r.target)
    BY <1>1, <1>8, UpdatedTargets
  <2>2. r.target \in Targets(input.refs, a) /\ r.target \in Atoms
    <3>1. r.target \in Targets(input.refs, a)
      BY DEF Targets, RefsIn
    <3> QED BY <1>0, <3>1
  <2>3. r.target \in ToSet(atoms)
    <3>1. CASE r.kind # "groupChild"
      BY <1>2, <1>8, <3>1 DEF GatherInv, ClosureInv
    <3>2. CASE r.kind = "groupChild"
      <4>1. r.target \in GroupChildren(input, a)
        BY <3>2 DEF GroupChildren, Linked, RefsIn
      <4>2. a.group # "none" /\ ~T!IsCoalescedAway(a) /\ a \in added
        <5>1. a.group # "none" /\ a.definition = "regular"
          BY <4>1 DEF ReaderAssumption, GroupsAreWhole, RefsAreTyped
        <5> QED BY <1>8, <5>1, SameQueries DEF GatherInv
      <4>3. a = T!CurrentAtom(a)
        BY <1>1, <4>2 DEF T!ChainInv, T!KeyInv
      <4>4. IsFirst(a)
        BY <4>2, <4>3 DEF T!CurrentAtom, IsFirst
      <4> QED BY <1>2, <4>1, <4>4 DEF GatherInv, ClosureInv
    <3> QED BY <3>1, <3>2
  <2>4. CASE r.kind = "associate"
    <3>1. r.target.group = "none"
      <4>1. r.target \in Associates(input, a)
        BY <2>4 DEF Associates, Linked, RefsIn
      <4> QED BY <4>1 DEF ReaderAssumption, GroupsAreWhole
    <3> QED BY <2>1, <2>3, <2>4, <3>1
  <2>5. CASE r.kind # "associate"
    BY <1>1, <2>1, <2>2, <2>3, <2>5, RedirectedTo
  <2> QED BY <2>4, <2>5
<1>9. RootsInv'
  BY <1>1 DEF GatherInv, RootsInv, Has
<1>10. ToSet(atoms') = ToSet(atoms)
  BY <1>1 DEF ToSet
<1>11. \A a \in (ToSet(atoms') \cap DOMAIN refs') \ Lost' :
         Targets(refs, a)' \subseteq ToSet(atoms') \ Lost'
  BY <1>3, <1>5, <1>8, <1>10
<1>12. \A p \in Lost' : Targets(refs, p)' \cap ToSet(atoms') = {}
  BY <1>5, <1>7, <1>10
<1> QED
  BY <1>1, <1>3, <1>4, <1>9, <1>10, <1>11, <1>12 DEF SettledInv

-----------------------------------------------------------------------------
(***************************************************************************)
(* deadStripOptimize(). Without the lost groups, what is known is closed   *)
(* and has the roots, so that what is live is known and not of a lost      *)
(* group.                                                                  *)
(***************************************************************************)

\* After deadStripOptimize: every set of atoms without a root is kept by another
\* atom that is live ...
KeptInv ==
  Has("deadStrip") =>
    \A S \in SUBSET ToSet(atoms) :
      S # {} /\ S \cap DeadStripRoots = {} => \E a \in liveAtoms \ S : Keeps(a) \cap S # {}

\* ... and an undefined atom that is live is a root or is referred to.
UsedInv ==
  Has("deadStrip") =>
    \A u \in liveAtoms : u.definition = "undefined" =>
      \/ \E n \in input.roots : nameTable[n] = u
      \/ \E a \in ToSet(atoms) : u \in Targets(refs, a)

LEMMA RootsAreSettled ==
  ASSUME SettledInv, ReaderAssumption(input), T!NameInv,
         RootsAreKnown, input.roots \subseteq Names, phase = "deadStripOptimize", Has("deadStrip")
  PROVE  DeadStripRoots \subseteq ToSet(atoms) \ Lost
<1>1. /\ RefsAreTyped(input) /\ DOMAIN refs = DOMAIN input.refs
      /\ added \subseteq ToSet(atoms) /\ deadStripRoots \subseteq input.never \cap added
  BY DEF ReaderAssumption, SettledInv, RootsInv
<1>2. \A p \in Lost : /\ p.definition = "regular" /\ p.group # "none" /\ p \notin input.never
                      /\ Has("globalsAreDeadStripRoots") => p.scope # "global"
  BY <1>1 DEF Lost, RefsAreTyped, ReaderAssumption, GroupsAreWhole, Has
<1>3. ASSUME NEW n \in input.roots
      PROVE  nameTable[n] \in ToSet(atoms) \ Lost
  <2>1. n \in Names /\ nameTable[n] # NoAtom
    BY DEF RootsAreKnown
  <2>2. nameTable[n] \in added /\ T!GoesByName(nameTable[n])
    BY <2>1, TableAssumption, T!EntryIsAdded
  <2> QED BY <1>1, <1>2, <2>2 DEF T!GoesByName
<1> QED
  BY <1>1, <1>2, <1>3 DEF DeadStripRoots

LEMMA SettledIsClosed ==
  ASSUME SettledInv
  PROVE  /\ \A a \in Atoms : Keeps(a) \subseteq Atoms
         /\ \A a \in ToSet(atoms) \ Lost : Keeps(a) \subseteq ToSet(atoms) \ Lost
<1>1. ToSet(atoms) \subseteq Atoms
  BY ToSetOfSeq DEF SettledInv
<1>2. \A a : Targets(refs, a) \subseteq Atoms
  BY TargetsAreAtoms DEF SettledInv
<1>3. ASSUME NEW b, NEW a, a \in Linked(refs, b, {"layoutAfter", "groupChild"})
      PROVE  b \in DOMAIN refs /\ a \in Targets(refs, b)
  <2>1. a \in Targets(refs, b)
    BY <1>3 DEF Linked, Targets
  <2>2. b \notin DOMAIN refs => Targets(refs, b) = {}
    BY DEF Targets, RefsIn, ToSet
  <2> QED BY <2>1, <2>2
<1>4. ASSUME NEW a \in ToSet(atoms) \ Lost, NEW t \in Keeps(a)
      PROVE  t \in ToSet(atoms) \ Lost
  <2>1. CASE t \in Targets(refs, a)
    <3>1. a \notin DOMAIN refs => Targets(refs, a) = {}
      BY DEF Targets, RefsIn, ToSet
    <3> QED BY <2>1, <3>1 DEF SettledInv
  <2>2. CASE t \in ToSet(atoms) /\ a \in Linked(refs, t, {"layoutAfter", "groupChild"})
    <3>1. a \in Targets(refs, t)
      BY <1>3, <2>2
    <3> QED BY <2>2, <3>1 DEF SettledInv
  <2> QED BY <2>1, <2>2 DEF Keeps
<1>5. \A a \in Atoms : Keeps(a) \subseteq Atoms
  BY <1>1, <1>2 DEF Keeps
<1> QED
  BY <1>4, <1>5

LEMMA ReachableIsFinite ==
  ASSUME SettledInv
  PROVE  IsFiniteSet(Reachable)
<1>1. IsFiniteSet(ToSet(atoms))
  <2>1. Len(atoms) \in Nat /\ ToSet(atoms) = {atoms[i] : i \in 1 .. Len(atoms)}
    BY ToSetOfSeq DEF SettledInv
  <2>2. IsFiniteSet(1 .. Len(atoms))
    BY <2>1, FS_Interval
  <2> QED BY <2>1, <2>2, FiniteValues
<1> DEFINE targets == [a \in DOMAIN refs |-> Targets(refs, a)]
<1>2. IsFiniteSet(DOMAIN refs)
  BY DEF SettledInv, RefsAreTyped
<1>3. \A a \in DOMAIN refs : IsFiniteSet(targets[a])
  BY TargetsAreAtoms DEF SettledInv
<1>4. UNION {Targets(refs, a) : a \in DOMAIN refs} = UNION {targets[a] : a \in DOMAIN refs}
  OBVIOUS
<1> HIDE DEF targets
<1>5. IsFiniteSet(UNION {targets[a] : a \in DOMAIN refs})
  BY <1>2, <1>3, FiniteUnion
<1> QED
  BY <1>1, <1>4, <1>5, FS_Union DEF Reachable

LEMMA StripKeeps ==
  ASSUME SettledInv, ReaderAssumption(input), T!NameInv,
         RootsAreKnown, input.roots \subseteq Names, phase = "deadStripOptimize",
         Has("deadStrip"), DeadStripOptimize
  PROVE  /\ atoms' \in Seq(Atoms)
         /\ input.never \cap added \subseteq ToSet(atoms')
         /\ KeptInv'
         /\ UsedInv'
<1> DEFINE roots == DeadStripRoots
           live == MarkLive(roots)
           Z == ToSet(atoms) \ Lost
<1>1. /\ liveAtoms' = live /\ atoms' = Sublist(atoms, live)
      /\ UNCHANGED <<table, nameTable, refs, deadStripRoots, input>>
  BY DEF DeadStripOptimize, table
<1>2. atoms \in Seq(Atoms) /\ ToSet(atoms) \subseteq Atoms
  BY ToSetOfSeq DEF SettledInv
<1>3. roots \subseteq Z /\ Z \subseteq Atoms
  BY <1>2, RootsAreSettled
<1>4. /\ roots \subseteq live
      /\ live \subseteq Z
      /\ \A S : S \cap roots = {} /\ S \cap live # {} => \E a \in live \ S : Keeps(a) \cap S # {}
  <2> HIDE DEF roots, Z
  <2>1. /\ roots \in SUBSET Atoms
        /\ \A a \in Atoms : Keeps(a) \subseteq Atoms
        /\ \A a \in Z : Keeps(a) \subseteq Z
    BY <1>3, SettledIsClosed DEF Z
  <2>2. IsFiniteSet(Reachable)
    BY ReachableIsFinite
  <2>3. /\ roots \subseteq live
        /\ \A Y \in SUBSET Atoms :
             roots \subseteq Y /\ (\A a \in Y : Keeps(a) \subseteq Y) => live \subseteq Y
        /\ \A S : S \cap roots = {} /\ S \cap live # {}
             => \E a \in live \ S : Keeps(a) \cap S # {}
    BY <2>1, <2>2, MarkLiveIsExact
  <2> QED BY <1>3, <2>1, <2>3
<1> HIDE DEF live
<1>5. atoms' \in Seq(Atoms) /\ ToSet(atoms') = live
  <2>1. atoms' \in Seq(Atoms) /\ ToSet(atoms') = ToSet(atoms) \cap live
    BY <1>1, <1>2, SublistHas
  <2> QED BY <1>4, <2>1
<1>6. input.never \cap added \subseteq ToSet(atoms')
  BY <1>4, <1>5 DEF SettledInv, RootsInv, DeadStripRoots
<1>7. \A a : Targets(refs, a)' = Targets(refs, a)
  BY <1>1 DEF Targets, RefsIn, ToSet
<1>8. ASSUME NEW S \in SUBSET ToSet(atoms'), S # {}, S \cap DeadStripRoots' = {}
      PROVE  \E a \in liveAtoms' \ S : Keeps(a)' \cap S # {}
  <2>1. S \cap roots = {}
    <3>1. ASSUME NEW x \in S, x \in roots PROVE x \in DeadStripRoots'
      BY <1>1, <3>1 DEF DeadStripRoots, Has
    <3> QED BY <1>8, <3>1
  <2>2. PICK a \in live \ S : Keeps(a) \cap S # {}
    BY <1>4, <1>5, <1>8, <2>1
  <2>3. Keeps(a) \cap S \subseteq Keeps(a)'
    <3>1. \A b : Linked(refs, b, {"layoutAfter", "groupChild"})'
                   = Linked(refs, b, {"layoutAfter", "groupChild"})
      BY <1>1 DEF Linked, RefsIn, ToSet
    <3> QED BY <1>7, <3>1 DEF Keeps
  <2> QED BY <1>1, <2>2, <2>3
<1>9. ASSUME NEW u \in live, u.definition = "undefined"
      PROVE  \/ \E n \in input.roots : nameTable[n] = u
             \/ \E a \in live : u \in Targets(refs, a)
  <2>1. \A b \in DOMAIN refs : b.definition = "regular"
    BY DEF SettledInv, RefsAreTyped
  <2>2. ASSUME NEW a, u \in Keeps(a) PROVE u \in Targets(refs, a)
    <3>1. u \notin DOMAIN refs
      BY <1>9, <2>1
    <3>2. Linked(refs, u, {"layoutAfter", "groupChild"}) = {}
      BY <3>1 DEF Linked, RefsIn, ToSet
    <3> QED BY <2>2, <3>2 DEF Keeps
  <2>3. CASE u \in roots
    <3>1. u \notin deadStripRoots
      BY <1>9 DEF SettledInv, RootsInv, ReaderAssumption
    <3> QED BY <1>9, <2>3, <3>1 DEF DeadStripRoots
  <2>4. CASE u \notin roots
    <3>1. {u} \cap roots = {} /\ {u} \cap live # {}
      BY <2>4
    <3>2. PICK a \in live \ {u} : Keeps(a) \cap {u} # {}
      BY <1>4, <3>1
    <3> QED BY <2>2, <3>2
  <2> QED BY <2>3, <2>4
<1>10. KeptInv'
  BY <1>8 DEF KeptInv
<1>11. UsedInv'
  BY <1>1, <1>5, <1>7, <1>9 DEF UsedInv
<1> QED
  BY <1>5, <1>6, <1>10, <1>11

-----------------------------------------------------------------------------
(***************************************************************************)
(* What holds in each phase of a link.                                     *)
(***************************************************************************)

StripInv ==
  /\ phase \in {"files", "updateReferences"} /\ ~fatal => GatherInv
  /\ phase = "updateReferences" => todo = <<>>
  /\ phase = "deadStripOptimize" => SettledInv
  /\ phase \in {"checkUndefines", "removeCoalescedAwayAtoms"} =>
       /\ atoms \in Seq(Atoms)
       /\ input.never \cap added \subseteq ToSet(atoms)
       /\ KeptInv
  /\ phase \in {"checkUndefines", "failed"} => UsedInv
  /\ phase = "done" => NeverStripped /\ KeptInv

\* The steps while the files are visited.
LEMMA FilesGather ==
  ASSUME IInv, ReaderAssumption(input), GatherInv, Next, phase = "files", ~fatal
  PROVE  /\ GatherInv'
         /\ phase' \in {"files", "updateReferences", "failed"}
         /\ phase' = "updateReferences" => todo' = <<>>
<1>1. CASE \/ GroupAgain \/ GroupLeave \/ LeaveFile \/ LastFile
           \/ \E f \in Files : ParseFails(f)
  <2>1. /\ UNCHANGED <<table, todo, atoms, deadStripRoots, refs, liveAtoms, input>>
        /\ phase' \in {phase, "updateReferences", "failed"}
        /\ phase' = "updateReferences" => Walking
    BY <1>1 DEF GroupAgain, GroupLeave, LeaveFile, LastFile, ParseFails, work, output
  <2>2. Walking => todo = <<>>
    BY DEF Walking, IInv, ListInv
  <2> QED BY <2>1, <2>2, FrameGather
<1>2. CASE \/ SkipUndefine \/ SearchTentatives \/ SearchAgain \/ SearchEnds
  <2>1. UNCHANGED <<table, todo, atoms, deadStripRoots, refs, liveAtoms, input, phase>>
    BY <1>2 DEF SkipUndefine, SearchTentatives, SearchAgain, SearchEnds, output
  <2> QED BY <2>1, FrameGather
<1>3. CASE \/ \E f \in Files : VisitObject(f) \/ VisitLibrary(f)
           \/ SearchUndefine
           \/ \E n \in Names : SearchTentative(n)
  <2>1. phase' = phase
    BY <1>3 DEF VisitObject, VisitLibrary, SearchUndefine, SearchTentative, output
  <2> QED BY <1>3, <2>1, FillGather
<1>4. ASSUME NEW a \in Atoms,
             \/ DoDefinedAtom(a)
             \/ DoGroupChild(a)
             \/ DoSharedLibraryAtom(a)
             \/ DoAbsoluteAtom(a)
      PROVE  GatherInv' /\ phase' = phase
  <2>1. phase' = phase
    BY <1>4 DEF DoDefinedAtom, DoGroupChild, DoSharedLibraryAtom, DoAbsoluteAtom
  <2> QED BY <1>4, <2>1, PlainGather
<1>5. ASSUME NEW a \in Atoms, DoGroupParent(a)
      PROVE  GatherInv' /\ phase' \in {phase, "failed"}
  BY <1>5, ParentGather DEF DoGroupParent
<1>6. ASSUME NEW a \in Atoms, NEW op \in {"undefined", "fallback"}, DoUndefinedAtom(op, a)
      PROVE  GatherInv' /\ phase' = phase
  BY <1>6, UndefinedGather DEF DoUndefinedAtom
<1>7. ASSUME NEW a \in Atoms, AddReplacement(a)
      PROVE  GatherInv' /\ phase' = phase
  BY <1>7, ReplacementGather DEF AddReplacement, output
<1>8. ~(UpdateReferences \/ DeadStripOptimize \/ CheckUndefines \/ RemoveCoalescedAwayAtoms)
  BY DEF UpdateReferences, DeadStripOptimize, CheckUndefines, RemoveCoalescedAwayAtoms, At
<1>9. ~Finished
  BY DEF Finished
<1> QED
  BY <1>1, <1>2, <1>3, <1>4, <1>5, <1>6, <1>7, <1>8, <1>9 DEF Next

\* The steps after that.
LEMMA LateSteps ==
  ASSUME Next, phase # "files" \/ fatal
  PROVE  \/ UNCHANGED vars
         \/ UpdateReferences \/ DeadStripOptimize \/ CheckUndefines \/ RemoveCoalescedAwayAtoms
<1>1. ~Walking
  BY DEF Walking
<1>2. ~(GroupAgain \/ GroupLeave \/ LeaveFile \/ LastFile)
  BY <1>1 DEF GroupAgain, GroupLeave, LeaveFile, LastFile
<1>3. ~ \E f \in Files : ParseFails(f) \/ VisitObject(f) \/ VisitLibrary(f)
  BY <1>1 DEF ParseFails, VisitObject, VisitLibrary, AtFile
<1>4. \A s : ~Searching(s)
  BY DEF Searching
<1>5. ~(\/ SearchUndefine \/ SkipUndefine \/ SearchTentatives \/ SearchAgain \/ SearchEnds
        \/ \E n \in Names : SearchTentative(n))
  BY <1>4
  DEF SearchUndefine, SkipUndefine, SearchTentatives, SearchAgain, SearchEnds, SearchTentative
<1>6. \A op, a : ~Handling(op, a)
  BY DEF Handling
<1>7. ~ \E a \in Atoms : \/ DoDefinedAtom(a)
                         \/ DoGroupParent(a)
                         \/ DoGroupChild(a)
                         \/ DoUndefinedAtom("undefined", a)
                         \/ DoUndefinedAtom("fallback", a)
                         \/ AddReplacement(a)
                         \/ DoSharedLibraryAtom(a)
                         \/ DoAbsoluteAtom(a)
  BY <1>6
  DEF DoDefinedAtom, DoGroupParent, DoGroupChild, DoUndefinedAtom, AddReplacement,
      DoSharedLibraryAtom, DoAbsoluteAtom
<1> QED
  BY <1>2, <1>3, <1>5, <1>7 DEF Next

\* What is kept stays kept when only atoms are dropped.
LEMMA KeptShrinks ==
  ASSUME KeptInv, ToSet(atoms') \subseteq ToSet(atoms),
         UNCHANGED <<nameTable, deadStripRoots, refs, liveAtoms, input>>
  PROVE  KeptInv'
<1>1. ASSUME Has("deadStrip"), NEW S \in SUBSET ToSet(atoms'), S # {}, S \cap DeadStripRoots' = {}
      PROVE  \E a \in liveAtoms' \ S : Keeps(a)' \cap S # {}
  <2>1. S \cap DeadStripRoots = {}
    <3>1. ASSUME NEW x \in S, x \in DeadStripRoots PROVE x \in DeadStripRoots'
      BY <3>1 DEF DeadStripRoots, Has
    <3> QED BY <1>1, <3>1
  <2>2. PICK a \in liveAtoms \ S : Keeps(a) \cap S # {}
    BY <1>1, <2>1 DEF KeptInv
  <2>3. Keeps(a) \cap S \subseteq Keeps(a)'
    <3>1. /\ Targets(refs, a)' = Targets(refs, a)
          /\ \A b : Linked(refs, b, {"layoutAfter", "groupChild"})'
                      = Linked(refs, b, {"layoutAfter", "groupChild"})
      BY DEF Targets, Linked, RefsIn, ToSet
    <3> QED BY <3>1 DEF Keeps
  <2> QED BY <2>2, <2>3
<1>2. Has("deadStrip")' <=> Has("deadStrip")
  BY DEF Has
<1> QED
  BY <1>1, <1>2 DEF KeptInv

LEMMA UsedStays ==
  ASSUME UsedInv, UNCHANGED <<nameTable, atoms, refs, liveAtoms, input>>
  PROVE  UsedInv'
<1>1. \A a : Targets(refs, a)' = Targets(refs, a)
  BY DEF Targets, RefsIn, ToSet
<1>2. ToSet(atoms') = ToSet(atoms) /\ (Has("deadStrip")' <=> Has("deadStrip"))
  BY DEF ToSet, Has
<1> QED
  BY <1>1, <1>2 DEF UsedInv

LEMMA SettledStays ==
  ASSUME SettledInv, UNCHANGED <<replacedAtoms, added, atoms, refs, deadStripRoots, input>>
  PROVE  SettledInv'
<1>1. \A a : Targets(refs, a)' = Targets(refs, a)
  BY DEF Targets, RefsIn, ToSet
<1>2. ToSet(atoms') = ToSet(atoms) /\ Lost' = Lost /\ (Has("deadStrip")' <=> Has("deadStrip"))
  BY DEF ToSet, Has, Lost, ST!IsCoalescedAway
<1>3. RefsAreTyped([refs |-> refs])'
  BY DEF SettledInv, RefsAreTyped
<1> QED
  BY <1>1, <1>2, <1>3 DEF SettledInv, RootsInv

LEMMA InitStripInv == Init => StripInv
<1> SUFFICES ASSUME Init PROVE StripInv
  OBVIOUS
<1>1. /\ atoms = <<>> /\ todo = <<>> /\ refs = input.refs /\ liveAtoms = {}
      /\ deadStripRoots = {} /\ added = {} /\ phase = "files"
      /\ groupTable = [n \in Names |-> NoAtom]
  BY DEF Init, ST!Init
<1>2. ToSet(<<>>) = {} /\ <<>> \in Seq(Atoms)
  BY DEF ToSet
<1>3. Brought = {}
  BY <1>1, <1>2 DEF Brought, AtomsIn
<1>4. \A p \in DOMAIN input.refs : ~IsFirst(p)
  <2>1. RefsAreTyped(input)
    BY ReadersAssumption DEF Init, ReaderAssumption
  <2>2. \A p \in DOMAIN input.refs : p \in Atoms /\ p # NoAtom
    BY <2>1, TableAssumption DEF RefsAreTyped, T!SymbolTableAssumption
  <2>3. \A p \in DOMAIN input.refs : p.group # "none" => p.name \in Names
    BY <2>2, TableAssumption, T!NamedGroup
  <2> QED BY <1>1, <2>2, <2>3 DEF IsFirst
<1>5. GatherInv
  BY <1>1, <1>2, <1>3, <1>4 DEF GatherInv, CallsInv, ClosureInv, RootsInv
<1> QED
  BY <1>1, <1>5 DEF StripInv

LEMMA NextStripInv ==
  ASSUME IInv, T!ChainInv, ReaderAssumption(input), StripInv,
         RootsAreKnown, input.roots \subseteq Names, [Next]_vars
  PROVE  StripInv'
<1>0. T!NameInv
  BY DEF IInv
<1>1. CASE UNCHANGED vars
  <2>1. /\ UNCHANGED <<table, todo, atoms, deadStripRoots, refs, liveAtoms, input>>
        /\ UNCHANGED <<nameTable, replacedAtoms, fatal, added, deadAtoms, phase>>
    BY <1>1 DEF vars, table, work, output
  <2>2. GatherInv => GatherInv'
    BY <2>1, FrameGather
  <2>3. SettledInv => SettledInv'
    BY <2>1, SettledStays
  <2>4. ToSet(atoms') = ToSet(atoms)
    BY <2>1 DEF ToSet
  <2>5. KeptInv => KeptInv'
    BY <2>1, <2>4, KeptShrinks
  <2>6. UsedInv => UsedInv'
    BY <2>1, UsedStays
  <2>7. NeverStripped => NeverStripped'
    BY <2>1, <2>4 DEF NeverStripped, Result, ST!IsCoalescedAway
  <2> QED
    BY <2>1, <2>2, <2>3, <2>4, <2>5, <2>6, <2>7 DEF StripInv
<1>2. CASE Next /\ phase = "files" /\ ~fatal
  <2>1. GatherInv /\ GatherInv'
    BY <1>2, FilesGather DEF StripInv
  <2>2. UsedInv'
    BY <2>1 DEF GatherInv, UsedInv
  <2> QED BY <1>2, <2>1, <2>2, FilesGather DEF StripInv
<1>3. CASE UpdateReferences
  <2>1. GatherInv /\ todo = <<>> /\ phase' = "deadStripOptimize"
    BY <1>3 DEF UpdateReferences, At, StripInv
  <2>2. SettledInv'
    BY <1>3, <2>1, UpdateSettles
  <2> QED BY <2>1, <2>2 DEF StripInv
<1>4. CASE DeadStripOptimize
  <2>1. /\ SettledInv
        /\ phase = "deadStripOptimize" /\ phase' = "checkUndefines"
        /\ UNCHANGED <<added, input>>
    BY <1>4 DEF DeadStripOptimize, At, StripInv, table
  <2>2. /\ atoms' \in Seq(Atoms)
        /\ input.never \cap added \subseteq ToSet(atoms')
        /\ KeptInv'
        /\ UsedInv'
    <3>1. CASE Has("deadStrip")
      BY <1>0, <1>4, <2>1, <3>1, StripKeeps
    <3>2. CASE ~Has("deadStrip")
      <4>1. UNCHANGED <<atoms, added, input>>
        BY <1>4, <3>2 DEF DeadStripOptimize, table
      <4>2. input.never \cap added \subseteq ToSet(atoms')
        BY <2>1, <4>1 DEF SettledInv, ToSet
      <4>3. ~Has("deadStrip")'
        BY <3>2, <4>1 DEF Has
      <4> QED BY <2>1, <4>1, <4>2, <4>3 DEF SettledInv, KeptInv, UsedInv
    <3> QED BY <3>1, <3>2
  <2> QED BY <2>1, <2>2 DEF StripInv
<1>5. CASE CheckUndefines
  <2>1. /\ phase = "checkUndefines"
        /\ phase' \in {"failed", "removeCoalescedAwayAtoms"}
        /\ UNCHANGED <<nameTable, added, atoms, deadStripRoots, refs, liveAtoms, input>>
    BY <1>5 DEF CheckUndefines, At, table
  <2>2. ToSet(atoms') = ToSet(atoms)
    BY <2>1 DEF ToSet
  <2>3. KeptInv' /\ UsedInv'
    BY <2>1, <2>2, KeptShrinks, UsedStays DEF StripInv
  <2> QED BY <2>1, <2>2, <2>3 DEF StripInv
<1>6. CASE RemoveCoalescedAwayAtoms
  <2> DEFINE R == {a \in ToSet(atoms) : ~ST!IsCoalescedAway(a) /\ a \notin deadAtoms}
  <2>1. /\ phase = "removeCoalescedAwayAtoms" /\ phase' = "done"
        /\ atoms' = Sublist(atoms, R)
        /\ UNCHANGED <<nameTable, replacedAtoms, added, deadStripRoots, refs, liveAtoms,
                       deadAtoms, input>>
    BY <1>6 DEF RemoveCoalescedAwayAtoms, At, table
  <2>2. atoms \in Seq(Atoms) /\ input.never \cap added \subseteq ToSet(atoms) /\ KeptInv
    BY <2>1 DEF StripInv
  <2>3. ToSet(atoms') = R
    <3>1. ToSet(atoms') = ToSet(atoms) \cap R
      <4> HIDE DEF R
      <4> QED BY <2>1, <2>2, SublistHas
    <3> QED BY <3>1
  <2>4. KeptInv'
    BY <2>1, <2>2, <2>3, KeptShrinks
  <2>5. NeverStripped'
    BY <2>1, <2>2, <2>3 DEF NeverStripped, Result, ST!IsCoalescedAway
  <2> QED BY <2>1, <2>4, <2>5 DEF StripInv
<1> QED
  BY <1>1, <1>2, <1>3, <1>4, <1>5, <1>6, LateSteps

\* What StripIsExact says of the end of a link.
LEMMA StripInvIsExact ==
  ASSUME StripInv
  PROVE  NeverStripped /\ KeptIsReachable /\ MissingIsUsed
<1>1. NeverStripped
  BY DEF StripInv, NeverStripped
<1>2. KeptIsReachable
  BY DEF StripInv, KeptIsReachable, KeptInv, Result
<1>3. MissingIsUsed
  <2>1. \A u \in MissingSymbols : u.definition = "undefined" /\ (Has("deadStrip") => u \in liveAtoms)
    BY DEF MissingSymbols, ST!Undefines
  <2>2. ASSUME NEW a, NEW u \in Targets(refs, a)
        PROVE  \E r \in ToSet(RefsIn(refs, a)) : r.target = u
    BY DEF Targets
  <2> QED BY <2>1, <2>2 DEF StripInv, MissingIsUsed, UsedInv, Result
<1> QED
  BY <1>1, <1>2, <1>3

-----------------------------------------------------------------------------
(***************************************************************************)
(* The walk. Every root has an atom in the end, as none of the nodes that  *)
(* hold one is passed over while libraries are added under the walk.       *)
(***************************************************************************)

Nodes == [file : Files] \cup [groupEnd : Nat, files : SUBSET Files]

HasGroup(ns) == \E i \in DOMAIN ns : ~IsFileNode(ns[i])

GroupsFit(ns) ==
  /\ ns \in Seq(Nodes)
  /\ \A i \in DOMAIN ns : ~IsFileNode(ns[i]) => ns[i].groupEnd < i

\* The files of ns are in more, none of them further to the left.
IsLeftOf(ns, more) ==
  /\ Len(ns) <= Len(more)
  /\ \A i \in 1 .. Len(ns) : IsFileNode(ns[i]) =>
       \E j \in i .. Len(more) : IsFileNode(more[j]) /\ more[j].file = ns[i].file

LEMMA NodeKinds ==
  /\ \A x \in [file : Files] : IsFileNode(x)
  /\ \A x \in [groupEnd : Nat, files : SUBSET Files] : ~IsFileNode(x)
  /\ \A f \in Files : IsFileNode([file |-> f]) /\ [file |-> f] \in Nodes
  BY DEF IsFileNode, Nodes

LEMMA InsertAtIs ==
  ASSUME NEW S, NEW s \in Seq(S), NEW k \in 1 .. Len(s), NEW e \in S
  PROVE  /\ InsertAt(s, k, e) \in Seq(S)
         /\ Len(InsertAt(s, k, e)) = Len(s) + 1
         /\ \A i \in 1 .. k - 1 : InsertAt(s, k, e)[i] = s[i]
         /\ InsertAt(s, k, e)[k] = e
         /\ \A i \in k .. Len(s) : InsertAt(s, k, e)[i + 1] = s[i]
<1> DEFINE before == SubSeq(s, 1, k - 1)
           after == SubSeq(s, k, Len(s))
           first == before \o <<e>>
<1>0. Len(s) \in Nat /\ k \in Nat /\ \A i \in 1 .. Len(s) : s[i] \in S
  OBVIOUS
<1>1. /\ before \in Seq(S) /\ Len(before) = k - 1
      /\ \A i \in 1 .. k - 1 : before[i] = s[i]
  <2>1. /\ before \in Seq(S) /\ Len(before) = IF 1 <= k - 1 THEN (k - 1) - 1 + 1 ELSE 0
        /\ \A i \in 1 .. (k - 1) - 1 + 1 : before[i] = s[1 + i - 1]
    <3>1. \A i \in 1 .. k - 1 : s[i] \in S
      BY <1>0
    <3> QED BY <1>0, <3>1, SubSeqProperties
  <2> QED BY <1>0, <2>1
<1>2. /\ after \in Seq(S) /\ Len(after) = Len(s) - k + 1
      /\ \A i \in 1 .. Len(s) - k + 1 : after[i] = s[k + i - 1]
  <2>1. \A i \in k .. Len(s) : s[i] \in S
    BY <1>0
  <2>2. /\ after \in Seq(S) /\ Len(after) = IF k <= Len(s) THEN Len(s) - k + 1 ELSE 0
        /\ \A i \in 1 .. Len(s) - k + 1 : after[i] = s[k + i - 1]
    BY <1>0, <2>1, SubSeqProperties
  <2> QED BY <1>0, <2>2
<1> HIDE DEF before, after
<1>3. <<e>> \in Seq(S) /\ Len(<<e>>) = 1 /\ <<e>>[1] = e
  OBVIOUS
<1>4. /\ first \in Seq(S) /\ Len(first) = k
      /\ \A i \in 1 .. k : first[i] = IF i <= k - 1 THEN before[i] ELSE <<e>>[i - (k - 1)]
  <2>1. /\ first \in Seq(S) /\ Len(first) = Len(before) + Len(<<e>>)
        /\ \A i \in 1 .. Len(before) + Len(<<e>>) :
             first[i] = IF i <= Len(before) THEN before[i] ELSE <<e>>[i - Len(before)]
    BY <1>1, <1>3, ConcatProperties
  <2> QED BY <1>0, <1>1, <1>3, <2>1
<1> DEFINE all == first \o after
<1> HIDE DEF first
<1>5. /\ all \in Seq(S) /\ Len(all) = k + (Len(s) - k + 1)
      /\ \A i \in 1 .. k + (Len(s) - k + 1) : all[i] = IF i <= k THEN first[i] ELSE after[i - k]
  <2>1. /\ all \in Seq(S) /\ Len(all) = Len(first) + Len(after)
        /\ \A i \in 1 .. Len(first) + Len(after) :
             all[i] = IF i <= Len(first) THEN first[i] ELSE after[i - Len(first)]
    BY <1>2, <1>4, ConcatProperties
  <2> HIDE DEF all
  <2> QED BY <1>2, <1>4, <2>1
<1>6. InsertAt(s, k, e) = all
  BY DEF InsertAt, first, before, after
<1> HIDE DEF all
<1>7. ASSUME NEW i \in 1 .. k - 1
      PROVE  all[i] = s[i]
  <2>1. i \in 1 .. k + (Len(s) - k + 1) /\ i <= k /\ i \in 1 .. k
    BY <1>0
  <2>2. all[i] = first[i] /\ first[i] = before[i]
    BY <1>0, <1>4, <1>5, <2>1
  <2> QED BY <1>1, <2>2
<1>8. all[k] = e
  BY <1>0, <1>3, <1>4, <1>5
<1>9. ASSUME NEW i \in k .. Len(s)
      PROVE  all[i + 1] = s[i]
  <2>1. i + 1 \in 1 .. k + (Len(s) - k + 1) /\ ~(i + 1 <= k) /\ i + 1 - k \in 1 .. Len(s) - k + 1
    BY <1>0
  <2>2. all[i + 1] = after[i + 1 - k] /\ after[i + 1 - k] = s[k + (i + 1 - k) - 1]
    BY <1>2, <1>5, <2>1
  <2> QED BY <1>0, <2>2
<1> QED
  BY <1>0, <1>5, <1>6, <1>7, <1>8, <1>9

LEMMA LibraryAdded ==
  ASSUME NEW ns, GroupsFit(ns), HasGroup(ns), NEW f \in Files
  PROVE  /\ GroupsFit(AddLibraryFile(ns, f))
         /\ HasGroup(AddLibraryFile(ns, f))
         /\ IsLeftOf(ns, AddLibraryFile(ns, f))
         /\ NodeFiles(AddLibraryFile(ns, f)) \subseteq NodeFiles(ns) \cup {f}
<1> DEFINE end == CHOOSE i \in 1 .. Len(ns) :
                    ~IsFileNode(ns[i]) /\ \A j \in 1 .. i - 1 : IsFileNode(ns[j])
           wider == InsertAt(ns, end, [file |-> f])
           new == [wider EXCEPT ![end + 1].groupEnd = @ + 1, ![end + 1].files = @ \cup {f}]
           known == \E i \in 1 .. Len(ns) : IsFileNode(ns[i]) /\ ns[i].file = f
<1>1. AddLibraryFile(ns, f) = IF known THEN ns ELSE new
  BY DEF AddLibraryFile
<1>2. ns \in Seq(Nodes) /\ Len(ns) \in Nat /\ DOMAIN ns = 1 .. Len(ns)
  BY DEF GroupsFit
<1>3. IsLeftOf(ns, ns)
  BY <1>2 DEF IsLeftOf
<1>4. end \in 1 .. Len(ns) /\ ~IsFileNode(ns[end]) /\ \A j \in 1 .. end - 1 : IsFileNode(ns[j])
  <2> DEFINE Ends == {i \in 1 .. Len(ns) : ~IsFileNode(ns[i])}
  <2>1. Ends \in SUBSET Nat /\ Ends # {}
    BY <1>2 DEF HasGroup
  <2>2. PICK i \in Ends : \A j \in Ends : i <= j
    BY <2>1, LeastOfNat
  <2>3. i \in 1 .. Len(ns) /\ ~IsFileNode(ns[i]) /\ \A j \in 1 .. i - 1 : IsFileNode(ns[j])
    BY <1>2, <2>2
  <2> QED BY <2>3
<1> HIDE DEF end
<1>5. /\ wider \in Seq(Nodes) /\ Len(wider) = Len(ns) + 1
      /\ \A i \in 1 .. end - 1 : wider[i] = ns[i]
      /\ wider[end] = [file |-> f]
      /\ \A i \in end .. Len(ns) : wider[i + 1] = ns[i]
  <2>1. PICK e \in Nodes : e = [file |-> f]
    BY NodeKinds
  <2>2. /\ InsertAt(ns, end, e) \in Seq(Nodes) /\ Len(InsertAt(ns, end, e)) = Len(ns) + 1
        /\ \A i \in 1 .. end - 1 : InsertAt(ns, end, e)[i] = ns[i]
        /\ InsertAt(ns, end, e)[end] = e
        /\ \A i \in end .. Len(ns) : InsertAt(ns, end, e)[i + 1] = ns[i]
    <3>1. end \in 1 .. Len(ns) /\ ns \in Seq(Nodes) /\ e \in Nodes
      BY <1>2, <1>4, <2>1
    <3> QED BY ONLY <3>1, InsertAtIs
  <2> QED BY <2>1, <2>2
<1> DEFINE g == ns[end]
           h == [groupEnd |-> g.groupEnd + 1, files |-> g.files \cup {f}]
<1>6. g \in [groupEnd : Nat, files : SUBSET Files] /\ g.groupEnd < end
  <2>1. g \in Nodes
    BY <1>2, <1>4
  <2> QED BY <1>2, <1>4, <2>1, NodeKinds DEF Nodes, GroupsFit
<1>7. h \in Nodes /\ ~IsFileNode(h) /\ h.groupEnd < end + 1
  <2>1. h \in [groupEnd : Nat, files : SUBSET Files]
    BY <1>6
  <2> QED BY <1>2, <1>4, <1>6, <2>1, NodeKinds DEF Nodes
<1>8. wider[end + 1] = g
  BY <1>2, <1>4, <1>5
<1> HIDE DEF wider
<1>9. end + 1 \in 1 .. Len(wider) /\ DOMAIN wider = 1 .. Len(wider)
  BY <1>2, <1>4, <1>5
<1>10. new = [wider EXCEPT ![end + 1] = h]
  <2>1. [[g EXCEPT !.groupEnd = @ + 1] EXCEPT !.files = @ \cup {f}] = h
    <3> HIDE DEF g
    <3>1. PICK size \in Nat, fs \in SUBSET Files : g = [groupEnd |-> size, files |-> fs]
      BY <1>6
    <3>2. [g EXCEPT !.groupEnd = @ + 1] = [groupEnd |-> size + 1, files |-> fs]
      BY <3>1
    <3>3. [[groupEnd |-> size + 1, files |-> fs] EXCEPT !.files = @ \cup {f}]
            = [groupEnd |-> size + 1, files |-> fs \cup {f}]
      OBVIOUS
    <3> QED BY <3>1, <3>2, <3>3 DEF h
  <2>2. new = [wider EXCEPT ![end + 1] = [[wider[end + 1] EXCEPT !.groupEnd = @ + 1]
                                             EXCEPT !.files = @ \cup {f}]]
    BY <1>9
  <2> QED BY <1>8, <2>1, <2>2
<1> HIDE DEF new, h
<1>11. /\ new \in Seq(Nodes) /\ Len(new) = Len(ns) + 1
       /\ new[end + 1] = h
       /\ \A i \in 1 .. Len(ns) + 1 : i # end + 1 => new[i] = wider[i]
  BY <1>5, <1>7, <1>9, <1>10
<1>12. ASSUME NEW i \in DOMAIN new, ~IsFileNode(new[i])
       PROVE  new[i].groupEnd < i
  <2>1. i \in 1 .. Len(ns) + 1
    BY <1>2, <1>11
  <2>2. CASE i = end + 1
    BY <1>7, <1>11, <2>2
  <2>3. CASE i = end
    <3>1. new[i] = [file |-> f]
      BY <1>2, <1>4, <1>5, <1>11, <2>1, <2>3
    <3> QED BY <1>12, <3>1, NodeKinds
  <2>4. CASE i < end
    <3>1. i \in 1 .. end - 1 /\ i # end + 1
      BY <1>2, <1>4, <2>1, <2>4
    <3>2. new[i] = ns[i]
      BY <1>5, <1>11, <2>1, <3>1
    <3> QED BY <1>4, <1>12, <3>1, <3>2
  <2>5. CASE i > end + 1
    <3>1. i - 1 \in end .. Len(ns) /\ i - 1 \in 1 .. Len(ns) /\ i # end + 1 /\ i = (i - 1) + 1
      BY <1>2, <1>4, <2>1, <2>5
    <3>2. new[i] = ns[i - 1]
      BY <1>5, <1>11, <2>1, <3>1
    <3>3. ns[i - 1] \in Nodes
      BY <1>2, <3>1
    <3>4. ns[i - 1] \in [groupEnd : Nat, files : SUBSET Files]
      BY <1>12, <3>2, <3>3, NodeKinds DEF Nodes
    <3>5. ns[i - 1].groupEnd < i - 1
      BY <1>2, <1>12, <3>1, <3>2 DEF GroupsFit
    <3> QED BY <2>1, <3>1, <3>2, <3>4, <3>5
  <2> QED BY <1>2, <1>4, <2>1, <2>2, <2>3, <2>4, <2>5
<1>13. GroupsFit(new) /\ HasGroup(new)
  <2>1. end + 1 \in DOMAIN new
    BY <1>2, <1>4, <1>11
  <2> QED BY <1>7, <1>11, <1>12, <2>1 DEF GroupsFit, HasGroup
<1>14. ASSUME NEW i \in 1 .. Len(ns), IsFileNode(ns[i])
       PROVE  \E j \in i .. Len(new) : IsFileNode(new[j]) /\ new[j].file = ns[i].file
  <2>1. i # end
    BY <1>4, <1>14
  <2>2. CASE i < end
    <3>1. i \in 1 .. end - 1 /\ i # end + 1 /\ i \in 1 .. Len(ns) + 1 /\ i \in i .. Len(new)
      BY <1>2, <1>4, <1>11, <2>2
    <3>2. new[i] = ns[i]
      BY <1>5, <1>11, <3>1
    <3> QED BY <1>14, <3>1, <3>2
  <2>3. CASE i > end
    <3>1. i \in end .. Len(ns) /\ i + 1 # end + 1 /\ i + 1 \in 1 .. Len(ns) + 1 /\ i + 1 \in i .. Len(new)
      BY <1>2, <1>4, <1>11, <2>3
    <3>2. new[i + 1] = ns[i]
      BY <1>5, <1>11, <3>1
    <3> QED BY <1>14, <3>1, <3>2
  <2> QED BY <1>2, <1>4, <2>1, <2>2, <2>3
<1>15. IsLeftOf(ns, new)
  BY <1>2, <1>11, <1>14 DEF IsLeftOf
<1>16. ASSUME NEW i \in DOMAIN new, IsFileNode(new[i])
       PROVE  new[i].file = f \/ \E j \in DOMAIN ns : IsFileNode(ns[j]) /\ ns[j].file = new[i].file
  <2>1. i \in 1 .. Len(ns) + 1
    BY <1>2, <1>11
  <2>2. i # end + 1
    BY <1>7, <1>11, <1>16
  <2>3. CASE i = end
    <3>1. new[i] = [file |-> f]
      BY <1>5, <1>11, <2>1, <2>2, <2>3
    <3> QED BY <3>1
  <2>4. CASE i < end
    <3>1. i \in 1 .. end - 1 /\ i \in DOMAIN ns
      BY <1>2, <1>4, <2>1, <2>4
    <3>2. new[i] = ns[i]
      BY <1>5, <1>11, <2>1, <2>2, <3>1
    <3> QED BY <1>16, <3>1, <3>2
  <2>5. CASE i > end + 1
    <3>1. i - 1 \in end .. Len(ns) /\ i - 1 \in DOMAIN ns /\ i = (i - 1) + 1
      BY <1>2, <1>4, <2>1, <2>5
    <3>2. new[i] = ns[i - 1]
      BY <1>5, <1>11, <2>1, <2>2, <3>1
    <3> QED BY <1>16, <3>1, <3>2
  <2> QED BY <1>2, <1>4, <2>1, <2>2, <2>3, <2>4, <2>5
<1>17. NodeFiles(new) \subseteq NodeFiles(ns) \cup {f}
  BY <1>16 DEF NodeFiles
<1> QED
  BY <1>1, <1>3, <1>13, <1>15, <1>17

LEMMA LeftOfIsTransitive ==
  ASSUME NEW s, NEW t, NEW u, Len(s) \in Nat, Len(t) \in Nat, Len(u) \in Nat,
         IsLeftOf(s, t), IsLeftOf(t, u)
  PROVE  IsLeftOf(s, u)
<1>1. ASSUME NEW i \in 1 .. Len(s), IsFileNode(s[i])
      PROVE  \E k \in i .. Len(u) : IsFileNode(u[k]) /\ u[k].file = s[i].file
  <2>1. PICK j \in i .. Len(t) : IsFileNode(t[j]) /\ t[j].file = s[i].file
    BY <1>1 DEF IsLeftOf
  <2>2. j \in 1 .. Len(t)
    BY <2>1
  <2>3. PICK k \in j .. Len(u) : IsFileNode(u[k]) /\ u[k].file = t[j].file
    BY <2>1, <2>2 DEF IsLeftOf
  <2>4. k \in i .. Len(u)
    BY <2>1, <2>3
  <2> QED BY <2>1, <2>3, <2>4
<1> QED
  BY <1>1 DEF IsLeftOf

LEMMA BeforeLinkWidens ==
  ASSUME NodesAreTyped(nodes, input.file), NEW f \in Files
  PROVE  /\ NodesAreTyped(BeforeLink(f), input.file)
         /\ IsLeftOf(nodes, BeforeLink(f))
         /\ NodeFiles(BeforeLink(f)) \subseteq NodeFiles(nodes) \cup ToSet(input.file[f].directives)
<1> DEFINE libraries == input.file[f].directives
           n == Len(libraries)
           Wider(t) == /\ GroupsFit(t)
                       /\ HasGroup(nodes) => HasGroup(t)
                       /\ IsLeftOf(nodes, t)
                       /\ NodeFiles(t) \subseteq NodeFiles(nodes) \cup ToSet(libraries)
           X == {t \in Seq(Nodes) : Wider(t)}
           step == [k \in 1 .. n |-> [t \in X |-> AddLibraryFile(t, libraries[k])]]
           IsWith(w) == w = [i \in 0 .. n |->
                               IF i = 0 THEN nodes ELSE AddLibraryFile(w[i - 1], libraries[i])]
           u == CHOOSE w : IsWith(w)
<1>1. /\ n \in Nat /\ \A k \in 1 .. n : libraries[k] \in Files /\ libraries[k] \in ToSet(libraries)
      /\ n # 0 => HasGroup(nodes)
  <2>1. libraries \in Seq(Files) /\ (libraries # <<>> => HasGroup(nodes))
    BY DEF NodesAreTyped, HasGroup
  <2> HIDE DEF libraries
  <2> QED BY <2>1 DEF ToSet
<1>2. BeforeLink(f) = u[n]
  BY DEF BeforeLink
<1>3. nodes \in X
  <2>1. GroupsFit(nodes)
    BY DEF NodesAreTyped, GroupsFit, Nodes
  <2>2. IsLeftOf(nodes, nodes)
    BY <2>1 DEF IsLeftOf, GroupsFit
  <2> QED BY <2>1, <2>2 DEF GroupsFit
<1> HIDE DEF libraries
<1>4. ASSUME NEW k \in 1 .. n, NEW t \in X
      PROVE  AddLibraryFile(t, libraries[k]) \in X
  <2> DEFINE new == AddLibraryFile(t, libraries[k])
  <2>1. n # 0 /\ libraries[k] \in Files /\ HasGroup(t) /\ GroupsFit(t) /\ IsLeftOf(nodes, t)
    BY <1>1
  <2>2. /\ GroupsFit(new) /\ HasGroup(new) /\ IsLeftOf(t, new)
        /\ NodeFiles(new) \subseteq NodeFiles(t) \cup {libraries[k]}
    BY <2>1, LibraryAdded
  <2> HIDE DEF new
  <2>3. Len(nodes) \in Nat /\ Len(t) \in Nat /\ Len(new) \in Nat /\ new \in Seq(Nodes)
    BY <1>3, <2>1, <2>2 DEF GroupsFit
  <2>4. IsLeftOf(nodes, new)
    BY <2>1, <2>2, <2>3, LeftOfIsTransitive
  <2>5. NodeFiles(new) \subseteq NodeFiles(nodes) \cup ToSet(libraries)
    BY <1>1, <2>2
  <2>6. new \in X
    BY <2>2, <2>3, <2>4, <2>5
  <2> QED BY <2>6 DEF new
<1>5. \E w : IsWith(w)
  <2>1. StepsWithin(X, n, step)
    <3> HIDE DEF X, n
    <3> QED BY <1>4 DEF StepsWithin
  <2>2. \A k \in 1 .. n : \A t \in X : step[k][t] = AddLibraryFile(t, libraries[k])
    OBVIOUS
  <2> HIDE DEF step, n, X
  <2>3. PICK w : IsIteration(w, X, nodes, n, step)
    BY <1>1, <1>3, <2>1, Iterates
  <2>4. w \in [0 .. n -> X] /\ w[0] = nodes /\ \A k \in 1 .. n : w[k] = step[k][w[k - 1]]
    BY <2>3 DEF IsIteration
  <2>5. \A k \in 0 .. n : k # 0 => k \in 1 .. n /\ k - 1 \in 0 .. n
    BY <1>1
  <2>6. \A k \in 0 .. n : k # 0 => w[k] = AddLibraryFile(w[k - 1], libraries[k])
    BY <2>2, <2>4, <2>5
  <2>7. w = [k \in 0 .. n |-> w[k]]
    BY <2>4
  <2>8. IsWith(w)
    BY <2>4, <2>6, <2>7
  <2> QED BY <2>8
<1>6. IsWith(u)
  BY <1>5
<1> HIDE DEF X, n
<1>7. u[0] = nodes /\ \A i \in 0 .. n : i < n => u[i + 1] = AddLibraryFile(u[i], libraries[i + 1])
  <2>1. \A i \in 0 .. n : u[i] = IF i = 0 THEN nodes ELSE AddLibraryFile(u[i - 1], libraries[i])
    BY <1>6
  <2>2. \A i \in 0 .. n : i < n => i + 1 \in 0 .. n /\ i + 1 # 0 /\ (i + 1) - 1 = i
    BY <1>1
  <2> HIDE DEF u
  <2> QED BY <1>1, <2>1, <2>2
<1> HIDE DEF u
<1> DEFINE R == {i \in 0 .. n : u[i] \in X}
<1>8. 0 \in R
  BY <1>1, <1>3, <1>7
<1>9. \A i \in 0 .. n : i \in R /\ i < n => i + 1 \in R
  <2>1. \A i \in 0 .. n : i < n => i + 1 \in 0 .. n /\ i + 1 \in 1 .. n
    BY <1>1
  <2> QED BY <1>4, <1>7, <2>1
<1> HIDE DEF R
<1>10. n \in R
  <2>1. \A i \in 0 .. n : i \in R
    BY <1>1, <1>8, <1>9, UpToInduction
  <2> QED BY <1>1, <2>1
<1>11. u[n] \in X
  BY <1>10 DEF R
<1>12. /\ GroupsFit(u[n]) /\ (HasGroup(nodes) => HasGroup(u[n])) /\ IsLeftOf(nodes, u[n])
       /\ NodeFiles(u[n]) \subseteq NodeFiles(nodes) \cup ToSet(libraries)
  BY <1>11 DEF X
<1>13. \A g \in Files : /\ input.file[g].directives \in Seq(Files)
                        /\ input.file[g].directives # <<>> => HasGroup(nodes)
  BY DEF NodesAreTyped, HasGroup
<1> HIDE DEF Wider
<1>14. NodesAreTyped(u[n], input.file)
  BY <1>12, <1>13 DEF NodesAreTyped, GroupsFit, HasGroup, Nodes
<1> QED
  BY <1>2, <1>12, <1>14 DEF libraries

\* A call that gives n an atom.
CallsFor(q, n) == q.op \in {"defined", "undefined"} /\ NamesIt(q.atom, n)

\* An object file that has an atom for n is still to be visited.
Ahead(n) ==
  \E i \in index .. Len(nodes) :
    /\ IsFileNode(nodes[i])
    /\ nodes[i].file \notin seen
    /\ Holds(input.file[nodes[i].file], n)

Expected(n) == nameTable[n] # NoAtom \/ (\E q \in ToSet(todo) : CallsFor(q, n)) \/ Ahead(n)

WalkInv ==
  /\ NodesAreTyped(nodes, input.file)
  /\ index \in 1 .. Len(nodes) + 1
  /\ input.roots \subseteq Names
  /\ phase = "files" /\ ~fatal => \A n \in input.roots : Expected(n)
  /\ phase \notin {"files", "failed"} => \A n \in input.roots : nameTable[n] # NoAtom

LEMMA NodeIs ==
  ASSUME WalkInv
  PROVE  /\ Len(nodes) \in Nat /\ index \in Nat
         /\ \A i \in 1 .. Len(nodes) : nodes[i] \in Nodes
         /\ \A i \in 1 .. Len(nodes) : ~IsFileNode(nodes[i]) =>
              nodes[i].groupEnd \in Nat /\ nodes[i].groupEnd < i
<1>1. /\ nodes \in Seq(Nodes)
      /\ \A i \in DOMAIN nodes : ~IsFileNode(nodes[i]) => nodes[i].groupEnd < i
  BY DEF WalkInv, NodesAreTyped, Nodes
<1>2. Len(nodes) \in Nat /\ \A i \in 1 .. Len(nodes) : nodes[i] \in Nodes
  BY <1>1
<1>3. ASSUME NEW i \in 1 .. Len(nodes), ~IsFileNode(nodes[i])
      PROVE  nodes[i].groupEnd \in Nat
  <2>1. nodes[i] \in [groupEnd : Nat, files : SUBSET Files]
    BY <1>2, <1>3, NodeKinds DEF Nodes
  <2> QED BY <2>1
<1> QED
  BY <1>1, <1>2, <1>3 DEF WalkInv

LEMMA AheadStays ==
  ASSUME WalkInv, IsLeftOf(nodes, nodes'), Len(nodes') \in Nat, seen' = seen, input' = input,
         index' \in Nat, index' <= index, NEW n, Ahead(n)
  PROVE  Ahead(n)'
<1>1. PICK i \in index .. Len(nodes) :
        /\ IsFileNode(nodes[i])
        /\ nodes[i].file \notin seen
        /\ Holds(input.file[nodes[i].file], n)
  BY DEF Ahead
<1>2. i \in 1 .. Len(nodes)
  BY NodeIs DEF WalkInv
<1>3. PICK j \in i .. Len(nodes') : IsFileNode(nodes'[j]) /\ nodes'[j].file = nodes[i].file
  BY <1>1, <1>2 DEF IsLeftOf
<1>4. j \in index' .. Len(nodes')
  BY <1>1, <1>3, NodeIs
<1>5. IsFileNode(nodes'[j]) /\ nodes'[j].file \notin seen' /\ Holds(input'.file[nodes'[j].file], n)
  BY <1>1, <1>3
<1> QED
  BY <1>4, <1>5 DEF Ahead

\* A name that has an atom never loses it.
LEMMA NamesStay ==
  ASSUME T!NameInv, [Next]_vars, NEW n \in Names, nameTable[n] # NoAtom
  PROVE  nameTable'[n] # NoAtom
<1>1. [T!Next]_(T!vars)
  BY TableStep, SameStep
<1>2. CASE UNCHANGED nameTable
  BY <1>2
<1>3. ASSUME NEW a \in Atoms, T!AddByName(a)
      PROVE  nameTable'[n] # NoAtom
  <2>1. a # NoAtom
    BY TableAssumption DEF T!SymbolTableAssumption
  <2> QED BY <1>3, <2>1, T!EntryStep, TableAssumption
<1>4. CASE T!Next /\ ~ \E a \in Atoms : T!AddByName(a)
  BY <1>2, <1>4 DEF T!Next, T!AddByContent, T!AddUntracked, T!AddGroup, T!AddReplacement, T!vars
<1> QED
  BY <1>1, <1>2, <1>3, <1>4 DEF T!vars

LEMMA AtomGetsName ==
  ASSUME T!NameInv, NEW a \in Atoms, AddToTable(a), ST!GoesByName(a)
  PROVE  nameTable'[a.name] # NoAtom
<1>1. T!AddByName(a) /\ a # NoAtom
  BY SameQueries, SameActions, TableAssumption
  DEF AddToTable, T!AddByContent, T!AddUntracked, T!GoesByContent, T!SymbolTableAssumption
<1> QED
  BY <1>1, T!EntryStep, TableAssumption

LEMMA FatalStays ==
  ASSUME [Next]_vars, fatal
  PROVE  fatal'
<1>1. UNCHANGED vars \/ UpdateReferences \/ DeadStripOptimize \/ CheckUndefines
      \/ RemoveCoalescedAwayAtoms
  BY LateSteps
<1> QED
  BY <1>1
  DEF UpdateReferences, DeadStripOptimize, CheckUndefines, RemoveCoalescedAwayAtoms, At, vars, table

\* A step that widens the nodes at most and passes none over.
LEMMA WalkGoesOn ==
  ASSUME IInv, WalkInv, [Next]_vars, input' = input, seen' = seen,
         NodesAreTyped(nodes', input.file), IsLeftOf(nodes, nodes'),
         index' \in 1 .. Len(nodes') + 1, index' <= index,
         phase' \in {phase, "failed"},
         \A n \in input.roots : (\E q \in ToSet(todo) : CallsFor(q, n)) /\ ~fatal' => Expected(n)'
  PROVE  WalkInv'
<1>1. Len(nodes') \in Nat /\ index' \in Nat
  BY DEF NodesAreTyped
<1>2. \A n \in input.roots : n \in Names
  BY DEF WalkInv
<1>3. \A n \in input.roots : nameTable[n] # NoAtom => nameTable'[n] # NoAtom
  BY <1>2, NamesStay DEF IInv
<1>4. fatal => fatal'
  BY FatalStays
<1>5. ASSUME phase' = "files", ~fatal', NEW n \in input.roots
      PROVE  Expected(n)'
  <2>1. Expected(n)
    BY <1>4, <1>5 DEF WalkInv
  <2>2. Ahead(n) => Ahead(n)'
    BY <1>1, AheadStays
  <2> QED BY <1>3, <1>5, <2>1, <2>2 DEF Expected
<1>6. NodesAreTyped(nodes, input.file)'
  BY DEF NodesAreTyped
<1>7. /\ input'.roots = input.roots /\ input.roots \subseteq Names
      /\ phase \notin {"files", "failed"} => \A n \in input.roots : nameTable[n] # NoAtom
  BY DEF WalkInv
<1>8. phase' \notin {"files", "failed"} => \A n \in input.roots : nameTable'[n] # NoAtom
  BY <1>3, <1>7
<1> QED
  BY <1>5, <1>6, <1>7, <1>8 DEF WalkInv

\* The steps that leave the nodes, or go back to the begin of a group.
LEMMA QuietWalk ==
  ASSUME IInv, WalkInv, [Next]_vars,
         UNCHANGED <<table, todo, nodes, seen, input>>,
         index' = index \/ GroupAgain,
         phase' \in {phase, "failed"}
  PROVE  WalkInv'
<1>1. /\ Len(nodes) \in Nat /\ index \in 1 .. Len(nodes) + 1
      /\ \A i \in 1 .. Len(nodes) : ~IsFileNode(nodes[i]) =>
           nodes[i].groupEnd \in Nat /\ nodes[i].groupEnd < i
  BY NodeIs DEF WalkInv
<1>2. index' \in 1 .. Len(nodes') + 1 /\ index' <= index
  <2>1. CASE index' = index
    BY <1>1, <2>1
  <2>2. CASE GroupAgain
    <3>1. index \in 1 .. Len(nodes) /\ ~IsFileNode(nodes[index])
          /\ index' = index - nodes[index].groupEnd
      BY <1>1, <2>2 DEF GroupAgain
    <3>2. nodes[index].groupEnd \in Nat /\ nodes[index].groupEnd < index
      BY <1>1, <3>1
    <3> QED BY <1>1, <3>1, <3>2
  <2> QED BY <2>1, <2>2
<1>3. IsLeftOf(nodes, nodes') /\ NodesAreTyped(nodes', input.file)
  BY <1>1 DEF IsLeftOf, WalkInv
<1>4. \A n : (\E q \in ToSet(todo) : CallsFor(q, n)) => Expected(n)'
  BY DEF Expected, ToSet, CallsFor, NamesIt, ST!GoesByName
<1> QED
  BY <1>2, <1>3, <1>4, WalkGoesOn

LEMMA LeaveWalk ==
  ASSUME IInv, WalkInv, [Next]_vars, GroupLeave
  PROVE  WalkInv'
<1>1. /\ Walking /\ index <= Len(nodes) /\ ~IsFileNode(nodes[index]) /\ index' = index + 1
      /\ UNCHANGED <<nameTable, fatal, todo, nodes, seen, input, phase>>
  BY DEF GroupLeave, table, work, output
<1>2. Len(nodes) \in Nat /\ index \in 1 .. Len(nodes)
  BY <1>1, NodeIs DEF WalkInv
<1>3. ASSUME NEW n \in input.roots
      PROVE  Expected(n)'
  <2>1. nameTable[n] # NoAtom \/ (\E q \in ToSet(todo) : CallsFor(q, n)) \/ Ahead(n)
    BY <1>1 DEF WalkInv, Walking, Expected
  <2>2. ASSUME Ahead(n) PROVE Ahead(n)'
    <3>1. PICK i \in index .. Len(nodes) :
            /\ IsFileNode(nodes[i])
            /\ nodes[i].file \notin seen
            /\ Holds(input.file[nodes[i].file], n)
      BY <2>2 DEF Ahead
    <3>2. i \in index' .. Len(nodes')
      BY <1>1, <1>2, <3>1
    <3> QED BY <1>1, <3>1, <3>2 DEF Ahead
  <2> QED BY <1>1, <2>1, <2>2 DEF Expected, ToSet
<1> QED
  BY <1>1, <1>2, <1>3 DEF WalkInv, Walking

\* A visit makes the calls for the atoms of the file, if it was not seen before.
LEMMA VisitWalk ==
  ASSUME IInv, WalkInv, [Next]_vars, NEW f \in Files, VisitObject(f) \/ VisitLibrary(f)
  PROVE  WalkInv'
<1>1. /\ Walking /\ index <= Len(nodes) /\ IsFileNode(nodes[index]) /\ nodes[index].file = f
      /\ index' = index + 1
      /\ UNCHANGED <<nameTable, fatal, input, phase>>
  BY DEF VisitObject, VisitLibrary, AtFile, table, output
<1>2. Len(nodes) \in Nat /\ index \in 1 .. Len(nodes) /\ NodesAreTyped(nodes, input.file)
      /\ LinkAssumption(input) /\ todo = <<>>
  BY <1>1, NodeIs DEF WalkInv, IInv, ListInv, Walking
<1>3. NodesAreTyped(nodes', input.file) /\ IsLeftOf(nodes, nodes')
  <2>1. CASE VisitObject(f)
    BY <1>2, <2>1, BeforeLinkWidens DEF VisitObject
  <2>2. CASE VisitLibrary(f)
    BY <1>2, <2>2 DEF VisitLibrary, IsLeftOf
  <2> QED BY <2>1, <2>2
<1>4. Len(nodes') \in Nat /\ Len(nodes) <= Len(nodes')
  BY <1>3 DEF NodesAreTyped, IsLeftOf
<1>5. ASSUME NEW n \in input.roots, nameTable[n] = NoAtom
      PROVE  (\E q \in ToSet(todo') : CallsFor(q, n)) \/ Ahead(n)'
  <2>1. Ahead(n)
    <3>1. ToSet(<<>>) = {}
      BY DEF ToSet
    <3> QED BY <1>1, <1>2, <1>5, <3>1 DEF WalkInv, Walking, Expected
  <2>2. PICK i \in index .. Len(nodes) :
          /\ IsFileNode(nodes[i])
          /\ nodes[i].file \notin seen
          /\ Holds(input.file[nodes[i].file], n)
    BY <2>1 DEF Ahead
  <2>3. CASE nodes[i].file = f /\ VisitObject(f)
    <3>1. todo' = HandleFile(f)
      BY <2>2, <2>3 DEF VisitObject
    <3>2. PICK a \in ToSet(input.file[f].defined) \cup ToSet(input.file[f].undefined) : NamesIt(a, n)
      BY <2>2, <2>3 DEF Holds
    <3>3. \E op \in {"defined", "undefined"} : [op |-> op, atom |-> a] \in ToSet(todo')
      BY <1>2, <3>1, HandleFileCalls
    <3> QED BY <3>2, <3>3 DEF CallsFor
  <2>4. CASE ~(nodes[i].file = f /\ VisitObject(f))
    <3>1. VisitLibrary(f) => nodes[i].file # f
      BY <2>2 DEF VisitLibrary, Holds
    <3>2. nodes[i].file # f
      BY <2>4, <3>1
    <3>3. nodes[i].file \notin seen'
      BY <2>2, <3>2 DEF VisitObject, VisitLibrary
    <3>4. i # index /\ i \in 1 .. Len(nodes)
      BY <1>1, <1>2, <2>2, <3>2
    <3>5. PICK j \in i .. Len(nodes') : IsFileNode(nodes'[j]) /\ nodes'[j].file = nodes[i].file
      BY <1>3, <2>2, <3>4 DEF IsLeftOf
    <3>6. j \in index' .. Len(nodes')
      BY <1>1, <1>2, <1>4, <2>2, <3>4, <3>5
    <3> QED BY <1>1, <2>2, <3>3, <3>5, <3>6 DEF Ahead
  <2> QED BY <2>3, <2>4
<1>6. \A n \in input.roots : Expected(n)'
  BY <1>1, <1>5 DEF Expected
<1>7. index' \in 1 .. Len(nodes') + 1
  BY <1>1, <1>2, <1>4
<1>8. NodesAreTyped(nodes, input.file)'
  BY <1>1, <1>3
<1> QED
  BY <1>1, <1>6, <1>7, <1>8 DEF WalkInv, Walking

\* The callback of a search finds no call pending, and may add libraries.
LEMMA SearchWalk ==
  ASSUME IInv, WalkInv, [Next]_vars, SearchUndefine \/ \E n \in Names : SearchTentative(n)
  PROVE  WalkInv'
<1>1. /\ todo = <<>> /\ search # "none"
      /\ UNCHANGED <<index, seen, phase, input>>
  BY DEF SearchUndefine, SearchTentative, Searching, output
<1>2. file \in Files /\ LinkAssumption(input) /\ ToSet(undefines) \subseteq Names \cup {NoName}
  BY <1>1, ToSetOfSeq DEF IInv, ListInv
<1>3. nodes' = nodes \/ \E f \in Files : nodes' = BeforeLink(f)
  <2>1. ASSUME NEW n \in Names, NEW d, Callback(n, d)
        PROVE  nodes' = nodes \/ \E f \in Files : nodes' = BeforeLink(f)
    <3>1. CASE input.file[file].kind = "archive"
      <4>1. input.file[file].symbols[n] \in Files \cup {NoFile}
        BY <1>2 DEF LinkAssumption
      <4> QED BY <2>1, <3>1, <4>1 DEF Callback, Finds
    <3>2. CASE input.file[file].kind # "archive"
      BY <2>1, <3>2 DEF Callback
    <3> QED BY <3>1, <3>2
  <2>2. CASE SearchUndefine
    <3>1. Callback(undefines[pos], FALSE) /\ undefines[pos] \in Names
      <4>1. pos \in 1 .. Len(undefines) /\ undefines \in Seq(Names \cup {NoName})
        BY <2>2 DEF SearchUndefine, IInv, ListInv
      <4>2. undefines[pos] \in Names \cup {NoName}
        BY <4>1
      <4>3. undefines[pos] # NoName /\ Callback(undefines[pos], FALSE)
        BY <2>2 DEF SearchUndefine
      <4> QED BY <4>2, <4>3
    <3> QED BY <2>1, <3>1
  <2>3. ASSUME NEW n \in Names, SearchTentative(n)
        PROVE  nodes' = nodes \/ Callback(n, TRUE)
    BY <2>3 DEF SearchTentative
  <2> QED BY <2>1, <2>2, <2>3
<1>4. NodesAreTyped(nodes, input.file) /\ Len(nodes) \in Nat /\ index \in 1 .. Len(nodes) + 1
  BY NodeIs DEF WalkInv
<1>5. NodesAreTyped(nodes', input.file) /\ IsLeftOf(nodes, nodes')
  <2>1. CASE nodes' = nodes
    BY <1>4, <2>1 DEF IsLeftOf
  <2>2. ASSUME NEW f \in Files, nodes' = BeforeLink(f)
        PROVE  NodesAreTyped(nodes', input.file) /\ IsLeftOf(nodes, nodes')
    BY <1>4, <2>2, BeforeLinkWidens
  <2> QED BY <1>3, <2>1, <2>2
<1>6. Len(nodes') \in Nat /\ Len(nodes) <= Len(nodes')
  BY <1>5 DEF NodesAreTyped, IsLeftOf
<1>7. index' \in 1 .. Len(nodes') + 1 /\ index' <= index
  BY <1>1, <1>4, <1>6
<1>8. \A n : ~ \E q \in ToSet(todo) : CallsFor(q, n)
  BY <1>1 DEF ToSet
<1> QED
  BY <1>1, <1>5, <1>7, <1>8, WalkGoesOn

\* The call that is made gives the name its atom; the others are still pending.
LEMMA CallWalk ==
  ASSUME IInv, WalkInv, [Next]_vars, NEW a \in Atoms,
         \/ DoDefinedAtom(a)
         \/ DoGroupParent(a)
         \/ DoGroupChild(a)
         \/ DoUndefinedAtom("undefined", a)
         \/ DoUndefinedAtom("fallback", a)
         \/ AddReplacement(a)
         \/ DoSharedLibraryAtom(a)
         \/ DoAbsoluteAtom(a)
  PROVE  WalkInv'
<1>1. /\ UNCHANGED <<nodes, index, seen, input>>
      /\ phase' \in {phase, "failed"}
  BY DEF DoDefinedAtom, DoGroupParent, DoGroupChild, DoUndefinedAtom, AddReplacement,
         DoSharedLibraryAtom, DoAbsoluteAtom, Known, walk, output
<1>2. NodesAreTyped(nodes', input.file) /\ IsLeftOf(nodes, nodes')
      /\ index' \in 1 .. Len(nodes') + 1 /\ index' <= index
  BY <1>1, NodeIs DEF WalkInv, IsLeftOf
<1>3. \A q \in ToSet(todo) : q = Head(todo) \/ q \in ToSet(todo')
  BY AtomFrame
<1>4. ASSUME NEW n \in input.roots, NEW q \in ToSet(todo), CallsFor(q, n)
      PROVE  Expected(n)'
  <2>1. CASE q \in ToSet(todo')
    BY <1>4, <2>1 DEF Expected, CallsFor, NamesIt, ST!GoesByName
  <2>2. CASE q = Head(todo)
    <3>1. /\ q.atom = a /\ ST!GoesByName(a) /\ a.name = n
          /\ \/ DoDefinedAtom(a)
             \/ DoGroupParent(a)
             \/ DoUndefinedAtom("undefined", a)
      BY <1>4, <2>2
      DEF CallsFor, NamesIt, Handling, DoDefinedAtom, DoGroupParent, DoGroupChild,
          DoUndefinedAtom, AddReplacement, DoSharedLibraryAtom, DoAbsoluteAtom
    <3>2. AddToTable(a)
      BY <3>1 DEF DoDefinedAtom, DoGroupParent, DoUndefinedAtom, ST!GoesByName
    <3>3. nameTable'[n] # NoAtom
      BY <3>1, <3>2, AtomGetsName DEF IInv
    <3> QED BY <3>3 DEF Expected
  <2> QED BY <1>3, <2>1, <2>2
<1> QED
  BY <1>1, <1>2, <1>4, WalkGoesOn

\* After the last node nothing is ahead: every root has its atom.
LEMMA LastWalk ==
  ASSUME IInv, WalkInv, LastFile
  PROVE  WalkInv'
<1>1. /\ Walking /\ index > Len(nodes) /\ phase' = "updateReferences"
      /\ UNCHANGED <<nameTable, nodes, index, input>>
  BY DEF LastFile, table, walk
<1>2. todo = <<>> /\ Len(nodes) \in Nat /\ index \in Nat
  BY <1>1, NodeIs DEF Walking, IInv, ListInv
<1>3. \A n : ~Ahead(n) /\ ~ \E q \in ToSet(todo) : CallsFor(q, n)
  BY <1>1, <1>2 DEF Ahead, ToSet
<1>4. \A n \in input.roots : nameTable[n] # NoAtom
  BY <1>1, <1>3 DEF Walking, WalkInv, Expected
<1> QED
  BY <1>1, <1>4 DEF WalkInv

LEMMA NextWalkInv ==
  ASSUME IInv, WalkInv, [Next]_vars
  PROVE  WalkInv'
<1>1. CASE \/ GroupAgain \/ LeaveFile
           \/ \E f \in Files : ParseFails(f)
           \/ SkipUndefine \/ SearchTentatives \/ SearchAgain \/ SearchEnds
  <2>1. /\ UNCHANGED <<table, todo, nodes, seen, input>>
        /\ index' = index \/ GroupAgain
        /\ phase' \in {phase, "failed"}
    BY <1>1
    DEF GroupAgain, LeaveFile, ParseFails, SkipUndefine, SearchTentatives, SearchAgain,
        SearchEnds, walk, work, output
  <2> QED BY <2>1, QuietWalk
<1>2. CASE GroupLeave
  BY <1>2, LeaveWalk
<1>3. CASE \E f \in Files : VisitObject(f) \/ VisitLibrary(f)
  BY <1>3, VisitWalk
<1>4. CASE SearchUndefine \/ \E n \in Names : SearchTentative(n)
  BY <1>4, SearchWalk
<1>5. CASE LastFile
  BY <1>5, LastWalk
<1>6. CASE \/ UpdateReferences \/ DeadStripOptimize \/ CheckUndefines
           \/ RemoveCoalescedAwayAtoms
  <2>1. /\ UNCHANGED <<nameTable, nodes, index, input>>
        /\ phase \notin {"files", "failed"} /\ phase' # "files"
    BY <1>6
    DEF UpdateReferences, DeadStripOptimize, CheckUndefines, RemoveCoalescedAwayAtoms, At,
        table, walk
  <2> QED BY <2>1 DEF WalkInv
<1>7. CASE UNCHANGED vars
  <2>1. UNCHANGED <<table, todo, nodes, seen, input, index, phase>>
    BY <1>7 DEF vars, walk, work, output
  <2> QED BY <2>1, QuietWalk
<1>8. CASE \E a \in Atoms : \/ DoDefinedAtom(a)
                            \/ DoGroupParent(a)
                            \/ DoGroupChild(a)
                            \/ DoUndefinedAtom("undefined", a)
                            \/ DoUndefinedAtom("fallback", a)
                            \/ AddReplacement(a)
                            \/ DoSharedLibraryAtom(a)
                            \/ DoAbsoluteAtom(a)
  BY <1>8, CallWalk
<1> QED
  BY <1>1, <1>2, <1>3, <1>4, <1>5, <1>6, <1>7, <1>8 DEF Next

LEMMA InitWalkInv == Init => WalkInv
<1> SUFFICES ASSUME Init PROVE WalkInv
  OBVIOUS
<1>1. /\ nodes = input.nodes /\ index = 1 /\ phase = "files" /\ seen = {}
      /\ NodesAreTyped(input.nodes, input.file) /\ RootsAreInFiles(input)
  BY DriversAssumption DEF Init
<1>2. Len(nodes) \in Nat /\ DOMAIN nodes = 1 .. Len(nodes)
  BY <1>1 DEF NodesAreTyped
<1>3. \A n \in input.roots : Ahead(n)
  BY <1>1, <1>2 DEF RootsAreInFiles, Ahead
<1> QED
  BY <1>1, <1>2, <1>3 DEF WalkInv, RootsAreInFiles, Expected

-----------------------------------------------------------------------------
(***************************************************************************)
(* The theorems.                                                           *)
(***************************************************************************)

DriverInv == IInv /\ WalkInv

\* Every root of dead stripping has an atom when dead stripping begins (the
\* assertion in deadStripOptimize, Resolver.cpp:418), whatever libraries the
\* directives of object files put between the nodes during the walk.
THEOREM RootsAreKnownInEveryLink == Spec => []RootsAreKnown
<1>1. Init => DriverInv
  BY InitIInv, InitWalkInv DEF DriverInv
<1>2. DriverInv /\ [Next]_vars => DriverInv'
  BY NextIInv, NextWalkInv DEF DriverInv
<1>3. DriverInv => RootsAreKnown
  BY DEF DriverInv, WalkInv, RootsAreKnown
<1> QED
  BY <1>1, <1>2, <1>3, PTL DEF Spec

\* Dead stripping keeps what must stay and what that uses, drops everything
\* else, and complains only of symbols that what stays uses: for any input whose
\* weak externals do not fall back on each other in a circle.
THEOREM StripIsExactInEveryLink ==
  ASSUME NEW CONSTANT rank, T!FallbacksLeadUp(rank)
  PROVE  Spec => []StripIsExact
<1> DEFINE SInv == DriverInv /\ T!ChainInv /\ ReaderAssumption(input) /\ StripInv
<1>1. Init => SInv
  <2>1. Init => T!ChainInv
    BY TableInit, SameInit, TableAssumption, T!InitChainInv
  <2>2. Init => ReaderAssumption(input)
    BY ReadersAssumption DEF Init
  <2> QED
    BY <2>1, <2>2, InitIInv, InitWalkInv, InitStripInv DEF DriverInv
<1>2. SInv /\ [Next]_vars => SInv'
  <2> SUFFICES ASSUME SInv, [Next]_vars PROVE SInv'
    OBVIOUS
  <2>1. DriverInv'
    BY NextIInv, NextWalkInv DEF DriverInv
  <2>2. T!ChainInv'
    BY TableStep, SameStep, TableAssumption, T!NextChainInv
  <2>3. ReaderAssumption(input)'
    <3>1. input' = input
      BY TableStep
    <3> QED BY <3>1
  <2>4. RootsAreKnown /\ input.roots \subseteq Names
    BY DEF DriverInv, WalkInv, RootsAreKnown
  <2>5. StripInv'
    BY <2>4, NextStripInv DEF DriverInv
  <2> QED BY <2>1, <2>2, <2>3, <2>5
<1>3. SInv => StripIsExact
  BY StripInvIsExact DEF DriverInv, WalkInv, RootsAreKnown, StripIsExact
<1> QED
  BY <1>1, <1>2, <1>3, PTL DEF Spec

-----------------------------------------------------------------------------
(***************************************************************************)
(* The merged file is whole, in every link: a proof along the whole life   *)
(* of an atom. It is handed over once; it is known once and its references *)
(* are redirected; what belongs together is marked, stripped or coalesced  *)
(* away together; and what is left when the losers are removed is closed.  *)
(***************************************************************************)

(***************************************************************************)
(* What is handed over. No atom comes to the resolver twice, but for those *)
(* of a shared library, which is visited again with its group.             *)
(***************************************************************************)

Own(S) == {a \in S : a.file \notin SharedLibraries}

\* No member of S is twice in s.
OnceOf(s, S) == \A i, j \in DOMAIN s : s[i] \in S /\ s[i] = s[j] => i = j

\* No call but for "replace" has the atom of another, unless of a shared library.
OnceIn(calls) ==
  \A i, j \in DOMAIN calls :
    /\ calls[i].op # "replace" /\ calls[j].op # "replace"
    /\ calls[i].atom = calls[j].atom
    /\ calls[i].atom.file \notin SharedLibraries
    => i = j

LEMMA OnceAppend ==
  ASSUME NEW X, NEW s \in Seq(X), NEW x \in X, NEW P, OnceOf(s, P), x \in P => x \notin ToSet(s)
  PROVE  OnceOf(Append(s, x), P)
<1> DEFINE t == Append(s, x)
<1>1. /\ DOMAIN t = 1 .. Len(s) + 1 /\ DOMAIN s = 1 .. Len(s) /\ Len(s) \in Nat
      /\ t[Len(s) + 1] = x /\ \A k \in 1 .. Len(s) : t[k] = s[k]
  OBVIOUS
<1>2. \A k \in DOMAIN s : s[k] \in ToSet(s)
  BY DEF ToSet
<1> HIDE DEF t
<1>3. \A k \in DOMAIN t : k \in DOMAIN s \/ k = Len(s) + 1
  BY <1>1
<1>4. OnceOf(t, P)
  BY <1>1, <1>2, <1>3 DEF OnceOf
<1> QED BY <1>4 DEF t

\* Sublist() as a walk over the sequence.
LEMMA SublistSteps ==
  ASSUME NEW X, NEW s \in Seq(X), NEW S
  PROVE  \E u : /\ Sublist(s, S) = u[Len(s)]
                /\ u[0] = <<>>
                /\ \A i \in 0 .. Len(s) : i < Len(s) =>
                     u[i + 1] = IF s[i + 1] \in S THEN Append(u[i], s[i + 1]) ELSE u[i]
<1> DEFINE n == Len(s)
           next(k, t) == IF s[k] \in S THEN Append(t, s[k]) ELSE t
           step == [k \in 1 .. n |-> [t \in Seq(X) |-> next(k, t)]]
           IsUpTo(f) == f = [i \in 0 .. n |->
                               IF i = 0 THEN <<>>
                               ELSE IF s[i] \in S THEN Append(f[i - 1], s[i]) ELSE f[i - 1]]
           u == CHOOSE f : IsUpTo(f)
<1>1. n \in Nat /\ \A k \in 1 .. n : s[k] \in X
  OBVIOUS
<1>2. Sublist(s, S) = u[n]
  BY DEF Sublist
<1>3. \E f : IsUpTo(f)
  <2>1. StepsWithin(Seq(X), n, step)
    BY <1>1 DEF StepsWithin
  <2>2. <<>> \in Seq(X)
    OBVIOUS
  <2>3. \A k \in 1 .. n : \A t \in Seq(X) : step[k][t] = next(k, t)
    OBVIOUS
  <2> HIDE DEF step, n
  <2>4. PICK f : IsIteration(f, Seq(X), <<>>, n, step)
    BY <1>1, <2>1, <2>2, Iterates
  <2>5. f \in [0 .. n -> Seq(X)] /\ f[0] = <<>> /\ \A k \in 1 .. n : f[k] = step[k][f[k - 1]]
    BY <2>4 DEF IsIteration
  <2>6. \A k \in 0 .. n : k # 0 => k \in 1 .. n /\ k - 1 \in 0 .. n
    BY <1>1
  <2>7. \A k \in 0 .. n : k # 0 => f[k] = next(k, f[k - 1])
    BY <2>3, <2>5, <2>6
  <2>8. f = [k \in 0 .. n |-> f[k]]
    BY <2>5
  <2>9. IsUpTo(f)
    BY <2>5, <2>7, <2>8
  <2> QED BY <2>9
<1>4. IsUpTo(u)
  BY <1>3
<1>5. u[0] = <<>> /\ \A i \in 0 .. n : i < n => u[i + 1] = next(i + 1, u[i])
  <2>1. \A i \in 0 .. n : u[i] = IF i = 0 THEN <<>> ELSE next(i, u[i - 1])
    BY <1>4
  <2>2. \A i \in 0 .. n : i < n => i + 1 \in 0 .. n /\ i + 1 # 0 /\ (i + 1) - 1 = i
    BY <1>1
  <2> HIDE DEF u
  <2> QED BY <1>1, <2>1, <2>2
<1> HIDE DEF u
<1> QED BY <1>2, <1>5

LEMMA SublistOnce ==
  ASSUME NEW X, NEW s \in Seq(X), NEW S, NEW P, OnceOf(s, P)
  PROVE  OnceOf(Sublist(s, S), P)
<1>1. PICK n : n = Len(s)
  OBVIOUS
<1>2. n \in Nat /\ DOMAIN s = 1 .. n /\ \A k \in 1 .. n : s[k] \in X
  BY <1>1
<1>3. PICK u : /\ Sublist(s, S) = u[n] /\ u[0] = <<>>
               /\ \A i \in 0 .. n : i < n =>
                    u[i + 1] = IF s[i + 1] \in S THEN Append(u[i], s[i + 1]) ELSE u[i]
  BY <1>1, SublistSteps
<1> DEFINE Has1(i) == /\ u[i] \in Seq(X) /\ OnceOf(u[i], P)
                      /\ \A y \in ToSet(u[i]) : \E j \in 1 .. i : y = s[j]
           I == {i \in 0 .. n : Has1(i)}
<1>4. 0 \in I
  <2>1. OnceOf(<<>>, P) /\ <<>> \in Seq(X) /\ ToSet(<<>>) = {}
    BY DEF OnceOf, ToSet
  <2>2. u[0] = <<>>
    BY <1>3
  <2>3. Has1(0)
    BY <2>1, <2>2
  <2> QED BY <1>2, <2>3
<1>5. ASSUME NEW i \in 0 .. n, i \in I, i < n
      PROVE  i + 1 \in I
  <2>1. /\ i \in Nat /\ i + 1 \in 1 .. n /\ i + 1 \in 0 .. n /\ i + 1 \in DOMAIN s
        /\ s[i + 1] \in X
        /\ \A j \in 1 .. i : j \in DOMAIN s /\ j # i + 1 /\ j \in 1 .. i + 1
        /\ i + 1 \in 1 .. i + 1
    BY <1>2, <1>5
  <2>2. Has1(i)
    BY <1>5
  <2>3. CASE s[i + 1] \notin S
    <3>1. u[i + 1] = u[i]
      BY <1>3, <1>5, <2>3
    <3> QED BY <2>1, <2>2, <3>1
  <2>4. CASE s[i + 1] \in S
    <3>1. u[i + 1] = Append(u[i], s[i + 1])
      BY <1>3, <1>5, <2>4
    <3>2. s[i + 1] \in P => s[i + 1] \notin ToSet(u[i])
      BY <2>1, <2>2 DEF OnceOf
    <3>3. OnceOf(Append(u[i], s[i + 1]), P)
      BY <2>1, <2>2, <3>2, OnceAppend
    <3>4. /\ Append(u[i], s[i + 1]) \in Seq(X)
          /\ ToSet(Append(u[i], s[i + 1])) = ToSet(u[i]) \cup {s[i + 1]}
      BY <2>1, <2>2, ToSetOfAppend
    <3> QED BY <2>1, <2>2, <3>1, <3>3, <3>4
  <2> QED BY <2>3, <2>4
<1> HIDE DEF I
<1>6. \A i \in 0 .. n : i \in I
  BY <1>2, <1>4, <1>5, UpToInduction
<1>7. n \in I
  BY <1>2, <1>6
<1> QED
  BY <1>3, <1>7 DEF I

\* Calls that follow others.
LEMMA OnceConcat ==
  ASSUME NEW s, IsSeq(s), NEW t, IsSeq(t), OnceIn(s), OnceIn(t),
         Own(AtomsIn(s)) \cap AtomsIn(t) = {}
  PROVE  OnceIn(s \o t)
<1> DEFINE c == s \o t
           m == Len(s)
           k == Len(t)
<1>1. /\ m \in Nat /\ k \in Nat /\ DOMAIN s = 1 .. m /\ DOMAIN t = 1 .. k
      /\ DOMAIN c = 1 .. m + k
      /\ \A i \in 1 .. m + k : c[i] = IF i <= m THEN s[i] ELSE t[i - m]
  BY DEF IsSeq
<1>2. \A i \in DOMAIN s : s[i].op # "replace" => s[i].atom \in AtomsIn(s)
  BY DEF AtomsIn, ToSet
<1>3. \A i \in DOMAIN t : t[i].op # "replace" => t[i].atom \in AtomsIn(t)
  BY DEF AtomsIn, ToSet
<1> HIDE DEF c, m, k
<1>4. \A i \in DOMAIN c : \/ i \in DOMAIN s /\ c[i] = s[i]
                          \/ i - m \in DOMAIN t /\ c[i] = t[i - m] /\ i \in Int
  BY <1>1
<1>5. ASSUME NEW i \in DOMAIN c, NEW j \in DOMAIN c,
             c[i].op # "replace", c[j].op # "replace", c[i].atom = c[j].atom,
             c[i].atom.file \notin SharedLibraries
      PROVE  i = j
  <2>1. CASE i \in DOMAIN s /\ c[i] = s[i] /\ j \in DOMAIN s /\ c[j] = s[j]
    BY <1>5, <2>1 DEF OnceIn
  <2>2. CASE /\ i - m \in DOMAIN t /\ c[i] = t[i - m] /\ j - m \in DOMAIN t /\ c[j] = t[j - m]
             /\ i \in Int /\ j \in Int
    <3>1. i - m = j - m
      BY <1>5, <2>2 DEF OnceIn
    <3> QED BY <1>1, <2>2, <3>1
  <2>3. ~(i \in DOMAIN s /\ c[i] = s[i] /\ j - m \in DOMAIN t /\ c[j] = t[j - m])
    BY <1>2, <1>3, <1>5 DEF Own
  <2>4. ~(j \in DOMAIN s /\ c[j] = s[j] /\ i - m \in DOMAIN t /\ c[i] = t[i - m])
    BY <1>2, <1>3, <1>5 DEF Own
  <2> QED BY <1>4, <2>1, <2>2, <2>3, <2>4
<1> QED BY <1>5 DEF OnceIn, c

LEMMA OnceTail ==
  ASSUME NEW s, IsSeq(s), s # <<>>, OnceIn(s)
  PROVE  /\ OnceIn(Tail(s))
         /\ Head(s).op # "replace" => Own({Head(s).atom}) \cap AtomsIn(Tail(s)) = {}
         /\ AtomsIn(Tail(s)) \subseteq AtomsIn(s)
         /\ Head(s).op # "replace" => Head(s).atom \in AtomsIn(s)
<1> DEFINE t == Tail(s)
           k == Len(s)
<1>1. /\ k \in Nat /\ k >= 1 /\ DOMAIN s = 1 .. k /\ DOMAIN t = 1 .. k - 1
      /\ Head(s) = s[1] /\ \A i \in 1 .. k - 1 : t[i] = s[i + 1]
  BY DEF IsSeq
<1> HIDE DEF t, k
<1>2. \A i \in DOMAIN t : i + 1 \in DOMAIN s /\ i + 1 # 1 /\ i \in Int /\ t[i] = s[i + 1]
  BY <1>1
<1>3. 1 \in DOMAIN s
  BY <1>1
<1>4. OnceIn(t)
  <2>1. ASSUME NEW i \in DOMAIN t, NEW j \in DOMAIN t,
               t[i].op # "replace", t[j].op # "replace", t[i].atom = t[j].atom,
               t[i].atom.file \notin SharedLibraries
        PROVE  i = j
    <3>1. i + 1 = j + 1
      BY <1>2, <2>1 DEF OnceIn
    <3> QED BY <1>2, <3>1
  <2> QED BY <2>1 DEF OnceIn
<1>5. ASSUME s[1].op # "replace", s[1].atom.file \notin SharedLibraries, s[1].atom \in AtomsIn(t)
      PROVE  FALSE
  <2>1. PICK i \in DOMAIN t : t[i].op # "replace" /\ t[i].atom = s[1].atom
    BY <1>5 DEF AtomsIn, ToSet
  <2> QED BY <1>2, <1>3, <1>5, <2>1 DEF OnceIn
<1>6. ToSet(t) \subseteq ToSet(s) /\ s[1] \in ToSet(s)
  BY <1>2, <1>3 DEF ToSet
<1> QED
  BY <1>1, <1>4, <1>5, <1>6 DEF Own, AtomsIn, t

LEMMA OnceCalls ==
  ASSUME NEW op, NEW S, NEW t \in Seq(S), IsInjective(t)
  PROVE  OnceIn(Calls(op, t))
<1>1. DOMAIN Calls(op, t) = DOMAIN t
      /\ \A i \in DOMAIN t : Calls(op, t)[i] = [op |-> op, atom |-> t[i]]
  BY DEF Calls
<1> QED
  BY <1>1 DEF OnceIn, IsInjective

-----------------------------------------------------------------------------
(***************************************************************************)
(* The calls for a file and for a group.                                   *)
(***************************************************************************)

LEMMA CallsAtoms ==
  ASSUME NEW op, op # "replace", NEW S, NEW t \in Seq(S)
  PROVE  AtomsIn(Calls(op, t)) = ToSet(t)
<1>1. ToSet(Calls(op, t)) = {[op |-> op, atom |-> x] : x \in ToSet(t)}
  BY CallsAre
<1>2. \A q \in ToSet(Calls(op, t)) : q.op # "replace" /\ q.atom \in ToSet(t)
  BY <1>1
<1>3. \A x \in ToSet(t) : [op |-> op, atom |-> x] \in ToSet(Calls(op, t))
  BY <1>1
<1>4. \A x \in ToSet(t) : \E q \in ToSet(Calls(op, t)) : q.op # "replace" /\ q.atom = x
  BY <1>3
<1> QED
  BY <1>2, <1>4 DEF AtomsIn

LEMMA AtomsOfConcat ==
  ASSUME NEW s, IsSeq(s), NEW t, IsSeq(t)
  PROVE  IsSeq(s \o t) /\ AtomsIn(s \o t) = AtomsIn(s) \cup AtomsIn(t)
<1>1. IsSeq(s \o t) /\ ToSet(s \o t) = ToSet(s) \cup ToSet(t)
  BY ConcatIsSeq, ToSetOfConcat
<1> QED
  BY <1>1 DEF AtomsIn

LEMMA HandleFileOnce ==
  ASSUME NEW f \in Files, LinkAssumption(input), AtomsAreOwned(input)
  PROVE  OnceIn(HandleFile(f))
<1> DEFINE content == input.file[f]
           D == Calls("defined", content.defined)
           U == Calls("undefined", content.undefined)
           L == Calls("sharedLibrary", content.sharedLibrary)
           A == Calls("absolute", content.absolute)
<1>1. /\ content.defined \in Seq(Atoms) /\ content.undefined \in Seq(Atoms)
      /\ content.sharedLibrary \in Seq(Atoms) /\ content.absolute \in Seq(Atoms)
  BY DEF LinkAssumption
<1>2. \A list \in Lists : /\ IsInjective(content[list])
                          /\ \A a \in ToSet(content[list]) : a.definition = Takes[list]
  BY DEF AtomsAreOwned
<1>3. /\ IsInjective(content.defined) /\ IsInjective(content.undefined)
      /\ IsInjective(content.sharedLibrary) /\ IsInjective(content.absolute)
  BY <1>2 DEF Lists
<1>4. /\ \A a \in ToSet(content.defined) : a.definition = "regular"
      /\ \A a \in ToSet(content.undefined) : a.definition = "undefined"
      /\ \A a \in ToSet(content.sharedLibrary) : a.definition = "sharedLibrary"
      /\ \A a \in ToSet(content.absolute) : a.definition = "absolute"
  BY <1>2 DEF Lists, Takes
<1>5. IsSeq(D) /\ IsSeq(U) /\ IsSeq(L) /\ IsSeq(A)
  BY <1>1, CallsIsSeq
<1>6. OnceIn(D) /\ OnceIn(U) /\ OnceIn(L) /\ OnceIn(A)
  BY <1>1, <1>3, OnceCalls
<1>7. /\ AtomsIn(D) = ToSet(content.defined) /\ AtomsIn(U) = ToSet(content.undefined)
      /\ AtomsIn(L) = ToSet(content.sharedLibrary) /\ AtomsIn(A) = ToSet(content.absolute)
  BY <1>1, CallsAtoms
<1>8. HandleFile(f) = ((D \o U) \o L) \o A
  BY DEF HandleFile
<1> HIDE DEF D, U, L, A, content
<1>9. IsSeq(D \o U) /\ AtomsIn(D \o U) = AtomsIn(D) \cup AtomsIn(U)
  BY <1>5, AtomsOfConcat
<1>10. IsSeq((D \o U) \o L) /\ AtomsIn((D \o U) \o L) = AtomsIn(D \o U) \cup AtomsIn(L)
  BY <1>5, <1>9, AtomsOfConcat
<1>11. OnceIn(D \o U)
  <2>1. Own(AtomsIn(D)) \cap AtomsIn(U) = {}
    BY <1>4, <1>7 DEF Own
  <2> QED BY <1>5, <1>6, <2>1, OnceConcat
<1>12. OnceIn((D \o U) \o L)
  <2>1. Own(AtomsIn(D \o U)) \cap AtomsIn(L) = {}
    BY <1>4, <1>7, <1>9 DEF Own
  <2> QED BY <1>5, <1>6, <1>9, <1>11, <2>1, OnceConcat
<1>13. Own(AtomsIn((D \o U) \o L)) \cap AtomsIn(A) = {}
  BY <1>4, <1>7, <1>9, <1>10 DEF Own
<1> QED
  BY <1>5, <1>6, <1>8, <1>10, <1>12, <1>13, OnceConcat

LEMMA ChildrenOnce ==
  ASSUME NEW a, RefsAreTyped(input), refs = input.refs, AtomsAreOwned(input)
  PROVE  OnceIn(Children(a))
<1> DEFINE R == RefsIn(refs, a)
           Refs == [kind : STRING, target : Atoms]
           K == {r \in ToSet(R) : r.kind = "groupChild"}
           child == Sublist(R, K)
<1>1. R \in Seq(Refs)
  <2>1. <<>> \in Seq(Refs)
    OBVIOUS
  <2>2. a \in DOMAIN refs => refs[a] \in Seq(Refs)
    BY DEF RefsAreTyped
  <2> QED BY <2>1, <2>2 DEF RefsIn
<1>2. OnceOf(R, K)
  <2>1. ASSUME NEW i \in DOMAIN R, NEW j \in DOMAIN R, R[i] \in K, R[i] = R[j]
        PROVE  i = j
    <3>1. a \in DOMAIN input.refs /\ R = input.refs[a]
      BY <2>1 DEF RefsIn
    <3> QED BY <2>1, <3>1 DEF AtomsAreOwned
  <2> QED BY <2>1 DEF OnceOf
<1>3. child \in Seq(Refs) /\ ToSet(child) = K /\ OnceOf(child, K)
  <2>1. ToSet(R) \cap K = K
    OBVIOUS
  <2> HIDE DEF R, Refs, K
  <2> QED BY <1>1, <1>2, <2>1, SublistHas, SublistOnce
<1>4. \A i \in DOMAIN child : child[i] \in K /\ child[i] \in Refs
  <2> HIDE DEF child, Refs, K
  <2> QED BY <1>3 DEF ToSet
<1>5. \A r \in K : r.kind = "groupChild"
  OBVIOUS
<1>6. /\ DOMAIN Children(a) = DOMAIN child
      /\ \A i \in DOMAIN child : Children(a)[i] = [op |-> "groupChild", atom |-> child[i].target]
  <2>1. DOMAIN child = 1 .. Len(child)
    <3> HIDE DEF child, Refs
    <3> QED BY <1>3
  <2> QED BY <2>1 DEF Children
<1> HIDE DEF child, K
<1>7. ASSUME NEW i \in DOMAIN child, NEW j \in DOMAIN child, child[i].target = child[j].target
      PROVE  i = j
  <2>1. child[i].kind = child[j].kind
    BY <1>4, <1>5
  <2>2. child[i] = child[j]
    BY <1>4, <1>7, <2>1
  <2> QED BY <1>3, <1>4, <2>2 DEF OnceOf
<1> QED
  BY <1>6, <1>7 DEF OnceIn

-----------------------------------------------------------------------------
(***************************************************************************)
(* While the files are visited: a file is handled once, unless it is a     *)
(* shared library, and with it each of its atoms.                          *)
(***************************************************************************)

\* No archive member is a file of the nodes, so that a file is loaded as one or
\* visited as the other.
FilesInv ==
  /\ instantiated \subseteq Members(input)
  /\ seen \cap Members(input) = {}
  /\ NodeFiles(nodes) \cap Members(input) = {}
  /\ \A f \in Files : Members(input) \cap ToSet(input.file[f].directives) = {}

\* A file-static absolute symbol does not go to the table.
FileStatic(a) == a.definition = "absolute" /\ a.scope = "translationUnit"

\* An atom was handed over once, its file is one of those handled, and a fallback
\* follows its atom.
OnceInv ==
  /\ OnceOf(atoms, Own(Atoms))
  /\ OnceIn(todo)
  /\ Own(ToSet(atoms)) \cap AtomsIn(todo) = {}
  /\ \A a \in Own(Brought) : a.file \in seen \cup instantiated
  /\ \A u \in Atoms : u.fallback # NoAtom /\ u.fallback \in Brought => u \in ToSet(atoms)
  /\ \A a \in ToSet(atoms) : a \in added \/ FileStatic(a)

LEMMA OnceNothing == OnceIn(<<>>) /\ AtomsIn(<<>>) = {}
  BY DEF OnceIn, AtomsIn, ToSet

LEMMA FilesNext ==
  ASSUME FilesInv, input' = input, instantiated' \subseteq Members(input),
         seen' \cap Members(input) = {}, NodeFiles(nodes') \cap Members(input) = {}
  PROVE  FilesInv'
<1>1. /\ Members(input)' = Members(input)
      /\ \A f : ToSet(input.file[f].directives)' = ToSet(input.file[f].directives)
  BY DEF Members, ToSet
<1>2. NodeFiles(nodes)' = NodeFiles(nodes')
  BY DEF NodeFiles, IsFileNode
<1> QED
  BY <1>1, <1>2 DEF FilesInv

\* What the visit of a file or the search of a library calls for.
LEMMA Filled ==
  ASSUME IInv, WalkInv, FilesInv,
         \/ \E f \in Files : VisitObject(f) \/ VisitLibrary(f)
         \/ SearchUndefine
         \/ \E n \in Names : SearchTentative(n),
         AtomsAreOwned(input)
  PROVE  /\ FilesInv'
         /\ seen \subseteq seen' /\ instantiated \subseteq instantiated'
         /\ \/ todo' = <<>>
            \/ \E f \in Files : /\ todo' = HandleFile(f)
                                /\ f \notin SharedLibraries => f \notin seen \cup instantiated
                                /\ f \notin SharedLibraries => f \in seen' \cup instantiated'
            \/ \E x : /\ x.definition = "sharedLibrary" /\ x.file \in SharedLibraries
                      /\ todo' = <<[op |-> "sharedLibrary", atom |-> x]>>
<1> DEFINE Fills ==
             \/ todo' = <<>>
             \/ \E f \in Files : /\ todo' = HandleFile(f)
                                 /\ f \notin SharedLibraries => f \notin seen \cup instantiated
                                 /\ f \notin SharedLibraries => f \in seen' \cup instantiated'
             \/ \E x : /\ x.definition = "sharedLibrary" /\ x.file \in SharedLibraries
                       /\ todo' = <<[op |-> "sharedLibrary", atom |-> x]>>
<1>1. NodesAreTyped(nodes, input.file) /\ LinkAssumption(input)
  BY DEF WalkInv, IInv, ListInv
<1>2. ASSUME NEW f \in Files
      PROVE  NodeFiles(BeforeLink(f)) \cap Members(input) = {}
  BY <1>1, BeforeLinkWidens DEF FilesInv
<1>3. ASSUME NEW f \in Files, VisitObject(f)
      PROVE  FilesInv' /\ seen \subseteq seen' /\ instantiated \subseteq instantiated' /\ Fills
  <2>1. /\ nodes' = BeforeLink(f) /\ seen' = seen \cup {f} /\ instantiated' = instantiated
        /\ input' = input /\ todo' = IF f \in seen THEN <<>> ELSE HandleFile(f)
        /\ f = nodes[index].file /\ IsFileNode(nodes[index]) /\ index <= Len(nodes)
    BY <1>3 DEF VisitObject, AtFile
  <2>2. f \in NodeFiles(nodes)
    <3>1. index \in DOMAIN nodes
      BY <1>1, <2>1 DEF WalkInv, NodesAreTyped
    <3> QED BY <2>1, <3>1 DEF NodeFiles
  <2>3. f \notin Members(input) /\ f \notin instantiated
    BY <2>2 DEF FilesInv
  <2>4. FilesInv'
    BY <1>2, <2>1, <2>3, FilesNext DEF FilesInv
  <2> QED BY <2>1, <2>3, <2>4
<1>4. ASSUME NEW f \in Files, VisitLibrary(f)
      PROVE  FilesInv' /\ seen \subseteq seen' /\ instantiated \subseteq instantiated' /\ Fills
  <2>1. /\ UNCHANGED <<nodes, seen, instantiated, input>>
        /\ input.file[f].kind \in {"archive", "sharedLibrary"}
        /\ todo' = IF input.file[f].kind = "archive" THEN <<>> ELSE HandleFile(f)
    BY <1>4 DEF VisitLibrary
  <2>2. FilesInv'
    BY <2>1, FilesNext DEF FilesInv
  <2>3. input.file[f].kind = "sharedLibrary" => f \in SharedLibraries
    BY DEF AtomsAreOwned
  <2> QED BY <2>1, <2>2, <2>3
<1>5. ASSUME NEW n \in Names, NEW d, Callback(n, d), file \in Files, seen' = seen, input' = input,
             todo = <<>>
      PROVE  FilesInv' /\ seen \subseteq seen' /\ instantiated \subseteq instantiated' /\ Fills
  <2> DEFINE member == input.file[file].symbols[n]
             exported == input.file[file].exports[n]
  <2>1. CASE UNCHANGED <<nodes, todo, instantiated>>
    <3>1. FilesInv'
      BY <1>5, <2>1, FilesNext DEF FilesInv
    <3> QED BY <1>5, <2>1, <3>1
  <2>2. CASE input.file[file].kind = "archive" /\ Finds(file, n, d)
    <3>1. /\ member # NoFile /\ member \notin instantiated
          /\ instantiated' = instantiated \cup {member}
          /\ \/ UNCHANGED <<nodes, todo>>
             \/ nodes' = BeforeLink(member) /\ todo' = HandleFile(member)
      BY <1>5, <2>2 DEF Callback, Finds
    <3>2. member \in Files
      BY <1>1, <1>5, <3>1 DEF LinkAssumption
    <3>3. member \in Members(input)
      BY <1>5, <3>2 DEF Members
    <3>4. NodeFiles(nodes') \cap Members(input) = {}
      <4>1. NodeFiles(BeforeLink(member)) \cap Members(input) = {}
        BY <1>2, <3>2
      <4>2. nodes' = nodes \/ nodes' = BeforeLink(member)
        BY <3>1
      <4> HIDE DEF member
      <4> QED BY <4>1, <4>2 DEF FilesInv
    <3>5. FilesInv'
      BY <1>5, <3>1, <3>3, <3>4, FilesNext DEF FilesInv
    <3>6. member \notin seen
      BY <3>3 DEF FilesInv
    <3> QED BY <1>5, <3>1, <3>2, <3>5, <3>6
  <2>3. CASE input.file[file].kind # "archive"
    <3>1. /\ todo' = IF exported # NoAtom THEN <<[op |-> "sharedLibrary", atom |-> exported]>>
                                          ELSE <<>>
          /\ UNCHANGED <<nodes, instantiated>>
      BY <1>5, <2>3 DEF Callback
    <3>2. exported # NoAtom =>
            exported.definition = "sharedLibrary" /\ exported.file \in SharedLibraries
      BY <1>1, <1>5 DEF LinkAssumption, AtomsAreOwned
    <3>3. FilesInv'
      BY <1>5, <3>1, FilesNext DEF FilesInv
    <3> QED BY <1>5, <3>1, <3>2, <3>3
  <2> QED BY <1>5, <2>1, <2>2, <2>3 DEF Callback
<1>6. ASSUME SearchUndefine \/ \E n \in Names : SearchTentative(n)
      PROVE  /\ todo = <<>> /\ file \in Files
             /\ UNCHANGED <<seen, input>>
             /\ \/ UNCHANGED <<nodes, todo, instantiated>>
                \/ \E n \in Names, d \in BOOLEAN : Callback(n, d)
  <2>1. todo = <<>> /\ search # "none" /\ UNCHANGED <<seen, input>>
    BY <1>6 DEF SearchUndefine, SearchTentative, Searching
  <2>2. file \in Files
    BY <2>1 DEF IInv, ListInv
  <2>3. CASE SearchUndefine
    <3>1. undefines[pos] \in Names \cup {NoName}
      BY <2>3 DEF SearchUndefine, IInv, ListInv
    <3>2. undefines[pos] # NoName /\ Callback(undefines[pos], FALSE)
      BY <2>3 DEF SearchUndefine
    <3> QED BY <2>1, <2>2, <3>1, <3>2
  <2>4. CASE \E n \in Names : SearchTentative(n)
    BY <2>1, <2>2, <2>4 DEF SearchTentative
  <2> QED BY <1>6, <2>3, <2>4
<1>7. ASSUME UNCHANGED <<nodes, todo, instantiated, seen, input>>, todo = <<>>
      PROVE  FilesInv' /\ seen \subseteq seen' /\ instantiated \subseteq instantiated' /\ Fills
  BY <1>7, FilesNext DEF FilesInv
<1> HIDE DEF Fills
<1>8. FilesInv' /\ seen \subseteq seen' /\ instantiated \subseteq instantiated' /\ Fills
  BY <1>3, <1>4, <1>5, <1>6, <1>7
<1> QED BY <1>8 DEF Fills

LEMMA FillOnce ==
  ASSUME IInv, WalkInv, FilesInv, GatherInv, OnceInv, ReaderAssumption(input),
         \/ \E f \in Files : VisitObject(f) \/ VisitLibrary(f)
         \/ SearchUndefine
         \/ \E n \in Names : SearchTentative(n)
  PROVE  FilesInv' /\ OnceInv'
<1>1. /\ todo = <<>> /\ UNCHANGED <<table, atoms>>
  BY FillStep
<1>2. added' = added /\ ToSet(atoms') = ToSet(atoms) /\ AtomsAreOwned(input) /\ LinkAssumption(input)
  BY <1>1 DEF table, ReaderAssumption, IInv, ListInv
<1>3. /\ FilesInv' /\ seen \subseteq seen' /\ instantiated \subseteq instantiated'
      /\ \/ todo' = <<>>
         \/ \E f \in Files : /\ todo' = HandleFile(f)
                             /\ f \notin SharedLibraries => f \notin seen \cup instantiated
                             /\ f \notin SharedLibraries => f \in seen' \cup instantiated'
         \/ \E x : /\ x.definition = "sharedLibrary" /\ x.file \in SharedLibraries
                   /\ todo' = <<[op |-> "sharedLibrary", atom |-> x]>>
  BY <1>2, Filled
<1>4. Brought = ToSet(atoms) /\ Brought' = ToSet(atoms) \cup AtomsIn(todo')
  BY <1>1, <1>2 DEF Brought, AtomsIn, ToSet
\* The new calls are for atoms of one file, or for one atom of a shared library.
<1>5. /\ OnceIn(todo')
      /\ \A a \in AtomsIn(todo') : \A u \in Atoms : u.fallback # NoAtom => a # u.fallback
      /\ \A a \in Own(AtomsIn(todo')) : a \notin ToSet(atoms) /\ a.file \in seen' \cup instantiated'
  <2>1. CASE todo' = <<>>
    BY <2>1, OnceNothing DEF Own
  <2>2. ASSUME NEW f \in Files, todo' = HandleFile(f),
               f \notin SharedLibraries => f \notin seen \cup instantiated,
               f \notin SharedLibraries => f \in seen' \cup instantiated'
        PROVE  /\ OnceIn(todo')
               /\ \A a \in AtomsIn(todo') : \A u \in Atoms : u.fallback # NoAtom => a # u.fallback
               /\ \A a \in Own(AtomsIn(todo')) :
                    a \notin ToSet(atoms) /\ a.file \in seen' \cup instantiated'
    <3>1. OnceIn(HandleFile(f))
      BY <1>2, HandleFileOnce
    <3>2. AtomsIn(HandleFile(f)) = AtomsOf(input.file[f])
      BY <1>2, HandleFileCalls
    <3>3. \A a \in AtomsOf(input.file[f]) : a.file = f /\ a \notin Fallbacks
      BY <1>2 DEF AtomsAreOwned
    <3>4. ASSUME NEW a \in Own(AtomsIn(todo'))
          PROVE  a \notin ToSet(atoms) /\ a.file \in seen' \cup instantiated'
      <4>1. a.file = f /\ f \notin SharedLibraries
        BY <2>2, <3>2, <3>3, <3>4 DEF Own
      <4>2. a \notin ToSet(atoms)
        BY <1>4, <2>2, <4>1 DEF OnceInv, Own
      <4> QED BY <2>2, <4>1, <4>2
    <3>5. \A a \in AtomsIn(todo') : \A u \in Atoms : u.fallback # NoAtom => a # u.fallback
      BY <2>2, <3>2, <3>3 DEF Fallbacks
    <3> QED BY <2>2, <3>1, <3>4, <3>5
  <2>3. ASSUME NEW x, x.definition = "sharedLibrary", x.file \in SharedLibraries,
               todo' = <<[op |-> "sharedLibrary", atom |-> x]>>
        PROVE  /\ OnceIn(todo')
               /\ \A a \in AtomsIn(todo') : \A u \in Atoms : u.fallback # NoAtom => a # u.fallback
               /\ \A a \in Own(AtomsIn(todo')) :
                    a \notin ToSet(atoms) /\ a.file \in seen' \cup instantiated'
    <3>1. DOMAIN todo' = 1 .. 1 /\ todo'[1] = [op |-> "sharedLibrary", atom |-> x]
      BY <2>3
    <3>2. OnceIn(todo')
      BY <3>1 DEF OnceIn
    <3>3. ToSet(todo') = {[op |-> "sharedLibrary", atom |-> x]}
      BY <3>1 DEF ToSet
    <3>4. \A a \in AtomsIn(todo') : a = x
      BY <3>3 DEF AtomsIn
    <3>5. \A u \in Atoms : u.fallback # NoAtom => u.fallback.definition = "undefined"
      BY TableAssumption DEF T!SymbolTableAssumption, T!AtomAssumption
    <3> QED BY <2>3, <3>2, <3>4, <3>5 DEF Own
  <2> QED BY <1>3, <2>1, <2>2, <2>3
<1>6. OnceOf(atoms, Own(Atoms))' /\ OnceIn(todo)'
  BY <1>1, <1>5 DEF OnceInv, OnceOf, Own
<1>7. (Own(ToSet(atoms)) \cap AtomsIn(todo) = {})'
  <2>1. Own(ToSet(atoms')) \cap AtomsIn(todo') = {}
    BY <1>2, <1>5 DEF Own
  <2>2. AtomsIn(todo)' = AtomsIn(todo') /\ Own(ToSet(atoms))' = Own(ToSet(atoms'))
    BY DEF AtomsIn, Own, ToSet
  <2> QED BY <2>1, <2>2
<1>8. ASSUME NEW a \in Own(Brought')
      PROVE  a.file \in seen' \cup instantiated'
  <2>1. a \in Own(Brought) \/ a \in Own(AtomsIn(todo'))
    BY <1>4, <1>8 DEF Own
  <2> QED BY <1>3, <1>5, <2>1 DEF OnceInv
<1>9. ASSUME NEW u \in Atoms, u.fallback # NoAtom, u.fallback \in Brought'
      PROVE  u \in ToSet(atoms')
  BY <1>2, <1>4, <1>5, <1>9 DEF OnceInv
<1>10. \A a \in ToSet(atoms') : a \in added' \/ FileStatic(a)
  BY <1>2 DEF OnceInv
<1>11. Own(Brought)' = Own(Brought')
  BY DEF Own, Brought, AtomsIn, ToSet
<1> QED
  BY <1>3, <1>6, <1>7, <1>8, <1>9, <1>10, <1>11 DEF OnceInv

\* The first of the calls.
LEMMA HeadOnce ==
  ASSUME IsSeq(todo), todo # <<>>, OnceInv, NEW op, op # "replace", NEW a,
         Head(todo) = [op |-> op, atom |-> a]
  PROVE  /\ OnceIn(Tail(todo))
         /\ Own({a}) \cap AtomsIn(Tail(todo)) = {}
         /\ AtomsIn(Tail(todo)) \subseteq AtomsIn(todo)
         /\ a \in AtomsIn(todo)
<1>1. PICK q : q = Head(todo)
  OBVIOUS
<1>2. q.op # "replace" /\ q.atom = a
  BY <1>1
<1>3. OnceIn(todo)
  BY DEF OnceInv
<1>4. /\ OnceIn(Tail(todo))
      /\ q.op # "replace" => Own({q.atom}) \cap AtomsIn(Tail(todo)) = {}
      /\ AtomsIn(Tail(todo)) \subseteq AtomsIn(todo)
      /\ q.op # "replace" => q.atom \in AtomsIn(todo)
  BY <1>1, <1>3, OnceTail
<1> QED
  BY <1>2, <1>4

\* A call that is done: its atom is known, and the calls it makes bring atoms that
\* were not brought before.
LEMMA CallOnce ==
  ASSUME IsSeq(todo), atoms \in Seq(Atoms), OnceInv, NEW op, op # "replace", NEW a \in Atoms,
         Handling(op, a), atoms' = Append(atoms, a),
         added \subseteq added', a \in added' \/ FileStatic(a), UNCHANGED <<seen, instantiated>>,
         NEW extra, IsSeq(extra), todo' = extra \o Tail(todo), OnceIn(extra),
         \A x \in AtomsIn(extra) : x \notin Brought /\ x.file = a.file,
         \A u \in Atoms : u.fallback # NoAtom /\ u.fallback \in AtomsIn(extra) => u = a
  PROVE  OnceInv'
<1>1. /\ todo # <<>> /\ Head(todo) = [op |-> op, atom |-> a]
      /\ IsSeq(Tail(todo))
  BY TailIsSeq DEF Handling
<1>2. /\ OnceIn(Tail(todo))
      /\ Own({a}) \cap AtomsIn(Tail(todo)) = {}
      /\ AtomsIn(Tail(todo)) \subseteq AtomsIn(todo)
      /\ a \in AtomsIn(todo)
  BY <1>1, HeadOnce
<1>3. AtomsIn(todo') = AtomsIn(extra) \cup AtomsIn(Tail(todo))
  BY <1>1, AtomsOfConcat
<1>4. /\ ToSet(atoms') = ToSet(atoms) \cup {a}
      /\ Brought' = Brought \cup AtomsIn(extra)
  BY CallDone
<1>5. a \in Brought /\ AtomsIn(todo) \subseteq Brought /\ ToSet(atoms) \subseteq Brought
  BY <1>2 DEF Brought
<1>6. OnceOf(atoms', Own(Atoms))
  <2>1. a \in Own(Atoms) => a \notin ToSet(atoms)
    BY <1>2 DEF OnceInv, Own
  <2>2. OnceOf(atoms, Own(Atoms))
    BY DEF OnceInv
  <2> QED BY <2>1, <2>2, OnceAppend
<1>7. OnceIn(todo')
  <2>1. Own(AtomsIn(extra)) \cap AtomsIn(Tail(todo)) = {}
    BY <1>2, <1>5 DEF Own
  <2> QED BY <1>1, <1>2, <2>1, OnceConcat
<1>8. Own(ToSet(atoms')) \cap AtomsIn(todo') = {}
  BY <1>2, <1>3, <1>4, <1>5 DEF OnceInv, Own
<1>9. ASSUME NEW x \in Own(Brought')
      PROVE  x.file \in seen' \cup instantiated'
  BY <1>4, <1>5, <1>9 DEF OnceInv, Own
<1>10. ASSUME NEW u \in Atoms, u.fallback # NoAtom, u.fallback \in Brought'
       PROVE  u \in ToSet(atoms')
  BY <1>4, <1>10 DEF OnceInv
<1>11. \A x \in ToSet(atoms') : x \in added' \/ FileStatic(x)
  BY <1>4 DEF OnceInv
<1>12. /\ Own(Brought)' = Own(Brought') /\ Own(Atoms)' = Own(Atoms)
       /\ Own(ToSet(atoms))' = Own(ToSet(atoms')) /\ AtomsIn(todo)' = AtomsIn(todo')
       /\ OnceOf(atoms, Own(Atoms))' = OnceOf(atoms', Own(Atoms)) /\ OnceIn(todo)' = OnceIn(todo')
  BY DEF Own, Brought, AtomsIn, ToSet, OnceOf, OnceIn
<1>13. \A x : FileStatic(x)' = FileStatic(x)
  BY DEF FileStatic
<1> HIDE DEF Brought
<1> QED
  BY <1>6, <1>7, <1>8, <1>9, <1>10, <1>11, <1>12, <1>13 DEF OnceInv

\* The calls that bring nothing.
LEMMA PlainOnce ==
  ASSUME IInv, GatherInv, OnceInv, NEW op, op # "replace", NEW a \in Atoms,
         Handling(op, a), atoms' = Append(atoms, a), todo' = Tail(todo),
         added \subseteq added', a \in added' \/ FileStatic(a), UNCHANGED <<seen, instantiated>>
  PROVE  OnceInv'
<1>1. IsSeq(todo) /\ todo # <<>> /\ atoms \in Seq(Atoms)
  BY DEF IInv, ListInv, Handling, GatherInv
<1>2. IsSeq(<<>>) /\ AtomsIn(<<>>) = {} /\ OnceIn(<<>>) /\ todo' = <<>> \o Tail(todo)
  BY <1>1, NoExtra, OnceNothing
<1> QED
  BY <1>1, <1>2, CallOnce

LEMMA ParentOnce ==
  ASSUME IInv, ReaderAssumption(input), GatherInv, OnceInv, NEW a \in Atoms, DoGroupParent(a)
  PROVE  OnceInv'
<1>1. /\ Handling("defined", a) /\ a.group # "none" /\ atoms' = Append(atoms, a)
      /\ todo' = IF groupTable[a.name] = NoAtom THEN Children(a) \o Tail(todo) ELSE Tail(todo)
      /\ added' = added \cup {a} /\ UNCHANGED <<seen, instantiated>>
  BY DEF DoGroupParent, Known, ST!AddGroup, walk
<1>2. CASE groupTable[a.name] # NoAtom
  BY <1>1, <1>2, PlainOnce
<1>3. CASE groupTable[a.name] = NoAtom
  <2>1. /\ IsSeq(todo) /\ atoms \in Seq(Atoms) /\ RefsAreTyped(input) /\ refs = input.refs
        /\ AtomsAreOwned(input) /\ GroupsAreWhole(input)
    BY DEF IInv, ListInv, GatherInv, ReaderAssumption
  <2>2. IsSeq(Children(a)) /\ OnceIn(Children(a)) /\ AtomsIn(Children(a)) = GroupChildren(input, a)
    BY <2>1, ChildrenIsSeq, ChildrenOnce, ChildrenCalls
  <2>3. ASSUME NEW x \in GroupChildren(input, a)
        PROVE  x \notin Brought /\ x.file = a.file /\ x.definition = "regular"
    <3>1. PICK r \in ToSet(RefsIn(input.refs, a)) : r.kind = "groupChild" /\ r.target = x
      BY DEF GroupChildren, Linked
    <3>2. a \in DOMAIN input.refs /\ \E i \in DOMAIN input.refs[a] : r = input.refs[a][i]
      BY <3>1 DEF RefsIn, ToSet
    <3>3. x.file = a.file
      BY <2>1, <3>1, <3>2 DEF AtomsAreOwned
    <3>4. ~IsFirst(a)
      BY <1>3, TableAssumption DEF IsFirst, T!SymbolTableAssumption
    <3>5. GroupChildren(input, a) \cap Brought = {}
      BY <3>2, <3>4 DEF GatherInv, ClosureInv
    <3>6. x.definition = "regular"
      BY <2>1, <3>2 DEF GroupsAreWhole
    <3> QED BY <3>3, <3>5, <3>6
  <2>4. \A u \in Atoms : u.fallback # NoAtom => u.fallback.definition = "undefined"
    BY TableAssumption DEF T!SymbolTableAssumption, T!AtomAssumption
  <2>5. \A u \in Atoms : u.fallback # NoAtom /\ u.fallback \in AtomsIn(Children(a)) => u = a
    BY <2>2, <2>3, <2>4
  <2>6. todo' = Children(a) \o Tail(todo)
    BY <1>1, <1>3
  <2> QED
    BY <1>1, <2>1, <2>2, <2>3, <2>5, <2>6, CallOnce
<1> QED BY <1>2, <1>3

LEMMA UndefinedOnce ==
  ASSUME IInv, GatherInv, OnceInv, NEW a \in Atoms,
         NEW op \in {"undefined", "fallback"}, DoUndefinedAtom(op, a)
  PROVE  OnceInv'
<1> DEFINE pair == <<[op |-> "fallback", atom |-> a.fallback], [op |-> "replace", atom |-> a]>>
<1>1. /\ Handling(op, a) /\ atoms' = Append(atoms, a) /\ AddToTable(a) /\ op # "replace"
      /\ UNCHANGED <<seen, instantiated>>
      /\ todo' = Tail(todo) \/ (a.fallback # NoAtom /\ todo' = pair \o Tail(todo))
  BY DEF DoUndefinedAtom, Known, walk
<1>2. added' = added \cup {a}
  BY <1>1, AtomAdded
<1>3. ASSUME a.fallback # NoAtom, todo' = pair \o Tail(todo)
      PROVE  OnceInv'
  <2>1. IsSeq(todo) /\ atoms \in Seq(Atoms) /\ todo # <<>> /\ Head(todo) = [op |-> op, atom |-> a]
    BY <1>1 DEF IInv, ListInv, GatherInv, Handling
  <2>2. IsSeq(pair)
    BY PairIsSeq
  <2>3. /\ DOMAIN pair = {1, 2} /\ pair[1] = [op |-> "fallback", atom |-> a.fallback]
        /\ pair[2] = [op |-> "replace", atom |-> a]
    OBVIOUS
  <2> HIDE DEF pair
  <2>4. OnceIn(pair)
    BY <2>3 DEF OnceIn
  <2>5. ToSet(pair) = {pair[1], pair[2]}
    BY <2>3 DEF ToSet
  <2>6. \A x \in AtomsIn(pair) : x = a.fallback
    BY <2>3, <2>5 DEF AtomsIn
  <2>7. a.fallback.file = a.file /\ \A u \in Atoms : u.fallback = a.fallback => u = a
    BY <1>3, ReadersAssumption DEF FallbacksAreOwned
  <2>8. a.fallback \notin Brought
    <3>1. a \in AtomsIn(todo)
      BY <1>1, <2>1, HeadOnce
    <3>2. a.file \notin SharedLibraries
      BY <1>3, TableAssumption DEF T!SymbolTableAssumption, T!AtomAssumption
    <3> QED BY <1>3, <3>1, <3>2 DEF OnceInv, Own
  <2>9. \A u \in Atoms : u.fallback # NoAtom /\ u.fallback \in AtomsIn(pair) => u = a
    BY <2>6, <2>7
  <2>10. \A x \in AtomsIn(pair) : x \notin Brought /\ x.file = a.file
    BY <2>6, <2>7, <2>8
  <2> QED
    BY <1>1, <1>2, <1>3, <2>1, <2>2, <2>4, <2>9, <2>10, CallOnce
<1> QED
  BY <1>1, <1>2, <1>3, PlainOnce

LEMMA ReplacementOnce ==
  ASSUME IInv, OnceInv, NEW a \in Atoms, AddReplacement(a)
  PROVE  OnceInv'
<1>1. /\ Head(todo) = [op |-> "replace", atom |-> a] /\ todo # <<>> /\ IsSeq(todo)
      /\ todo' = Tail(todo) /\ UNCHANGED <<added, atoms, seen, instantiated>>
  BY DEF AddReplacement, Handling, ST!AddReplacement, output, walk, IInv, ListInv
<1>2. OnceIn(todo') /\ AtomsIn(todo') \subseteq AtomsIn(todo)
  BY <1>1, OnceTail DEF OnceInv
<1>3. ToSet(atoms') = ToSet(atoms) /\ Brought' \subseteq Brought
  <2>1. AtomsIn(todo)' = AtomsIn(todo') /\ ToSet(atoms') = ToSet(atoms)
    BY <1>1 DEF AtomsIn, ToSet
  <2> QED BY <1>2, <2>1 DEF Brought
<1>4. /\ OnceOf(atoms, Own(Atoms))' = OnceOf(atoms, Own(Atoms)) /\ OnceIn(todo)' = OnceIn(todo')
      /\ Own(ToSet(atoms))' = Own(ToSet(atoms)) /\ AtomsIn(todo)' = AtomsIn(todo')
      /\ Own(Brought)' \subseteq Own(Brought)
      /\ \A x : FileStatic(x)' = FileStatic(x)
  BY <1>1, <1>3 DEF OnceOf, OnceIn, Own, AtomsIn, ToSet, FileStatic
<1> QED
  BY <1>1, <1>2, <1>3, <1>4 DEF OnceInv

\* The steps that bring nothing.
LEMMA FrameOnce ==
  ASSUME OnceInv, UNCHANGED <<added, todo, atoms>>,
         seen \subseteq seen', instantiated \subseteq instantiated'
  PROVE  OnceInv'
<1>1. ToSet(atoms') = ToSet(atoms) /\ Brought' = Brought
  BY DEF Brought, AtomsIn, ToSet
<1>2. /\ OnceOf(atoms, Own(Atoms))' = OnceOf(atoms, Own(Atoms)) /\ OnceIn(todo)' = OnceIn(todo)
      /\ Own(ToSet(atoms))' = Own(ToSet(atoms)) /\ AtomsIn(todo)' = AtomsIn(todo)
      /\ Own(Brought)' = Own(Brought)
      /\ \A x : FileStatic(x)' = FileStatic(x)
  BY <1>1 DEF OnceOf, OnceIn, Own, AtomsIn, ToSet, FileStatic
<1> QED
  BY <1>1, <1>2 DEF OnceInv

LEMMA FilesStay ==
  ASSUME FilesInv, UNCHANGED <<nodes, seen, instantiated, input>>
  PROVE  FilesInv'
<1>1. /\ instantiated' \subseteq Members(input) /\ seen' \cap Members(input) = {}
      /\ NodeFiles(nodes') \cap Members(input) = {}
  BY DEF FilesInv
<1> QED
  BY <1>1, FilesNext

\* The steps while the files are visited.
LEMMA FilesOnce ==
  ASSUME IInv, WalkInv, ReaderAssumption(input), GatherInv, FilesInv, OnceInv,
         Next, phase = "files", ~fatal
  PROVE  FilesInv' /\ OnceInv'
<1>1. CASE \/ GroupAgain \/ GroupLeave \/ LeaveFile \/ LastFile
           \/ \E f \in Files : ParseFails(f)
           \/ SkipUndefine \/ SearchTentatives \/ SearchAgain \/ SearchEnds
  <2>1. UNCHANGED <<nodes, seen, instantiated, input>> /\ UNCHANGED <<added, todo, atoms>>
    BY <1>1
    DEF GroupAgain, GroupLeave, LeaveFile, LastFile, ParseFails, SkipUndefine, SearchTentatives,
        SearchAgain, SearchEnds, table, walk, work, output
  <2> QED BY <2>1, FilesStay, FrameOnce
<1>2. CASE \/ \E f \in Files : VisitObject(f) \/ VisitLibrary(f)
           \/ SearchUndefine
           \/ \E n \in Names : SearchTentative(n)
  BY <1>2, FillOnce
<1>3. ASSUME NEW a \in Atoms,
             \/ DoDefinedAtom(a)
             \/ DoGroupChild(a)
             \/ DoSharedLibraryAtom(a)
             \/ DoAbsoluteAtom(a)
      PROVE  FilesInv' /\ OnceInv'
  <2>1. UNCHANGED <<nodes, seen, instantiated, input>>
    BY <1>3 DEF DoDefinedAtom, DoGroupChild, DoSharedLibraryAtom, DoAbsoluteAtom, Known, walk
  <2>2. \E op \in {"defined", "groupChild", "sharedLibrary", "absolute"} :
          /\ Handling(op, a) /\ atoms' = Append(atoms, a) /\ todo' = Tail(todo)
          /\ AddToTable(a) \/ (a.definition = "absolute" /\ a.scope = "translationUnit"
                                 /\ UNCHANGED table)
    BY <1>3 DEF DoDefinedAtom, DoGroupChild, DoSharedLibraryAtom, DoAbsoluteAtom, Known,
                Handling, Takes
  <2>3. PICK op \in {"defined", "groupChild", "sharedLibrary", "absolute"} :
          /\ Handling(op, a) /\ atoms' = Append(atoms, a) /\ todo' = Tail(todo)
          /\ AddToTable(a) \/ (a.definition = "absolute" /\ a.scope = "translationUnit"
                                 /\ UNCHANGED table)
    BY <2>2
  <2>4. op # "replace"
    BY <2>3
  <2>5. added \subseteq added' /\ (a \in added' \/ FileStatic(a))
    <3>1. CASE AddToTable(a)
      <4>1. added' = added \cup {a}
        BY <3>1, AtomAdded
      <4> QED BY <4>1
    <3>2. CASE a.definition = "absolute" /\ a.scope = "translationUnit" /\ UNCHANGED table
      BY <3>2 DEF table, FileStatic
    <3> QED BY <2>3, <3>1, <3>2
  <2>6. OnceInv'
    BY <2>1, <2>3, <2>4, <2>5, PlainOnce
  <2> QED BY <2>1, <2>6, FilesStay
<1>4. ASSUME NEW a \in Atoms, DoGroupParent(a)
      PROVE  FilesInv' /\ OnceInv'
  <2>1. UNCHANGED <<nodes, seen, instantiated, input>>
    BY <1>4 DEF DoGroupParent, Known, walk
  <2> QED BY <1>4, <2>1, FilesStay, ParentOnce
<1>5. ASSUME NEW a \in Atoms, NEW op \in {"undefined", "fallback"}, DoUndefinedAtom(op, a)
      PROVE  FilesInv' /\ OnceInv'
  <2>1. UNCHANGED <<nodes, seen, instantiated, input>>
    BY <1>5 DEF DoUndefinedAtom, Known, walk
  <2> QED BY <1>5, <2>1, FilesStay, UndefinedOnce
<1>6. ASSUME NEW a \in Atoms, AddReplacement(a)
      PROVE  FilesInv' /\ OnceInv'
  <2>1. UNCHANGED <<nodes, seen, instantiated, input>>
    BY <1>6 DEF AddReplacement, walk
  <2> QED BY <1>6, <2>1, FilesStay, ReplacementOnce
<1>7. ~(UpdateReferences \/ DeadStripOptimize \/ CheckUndefines \/ RemoveCoalescedAwayAtoms)
  BY DEF UpdateReferences, DeadStripOptimize, CheckUndefines, RemoveCoalescedAwayAtoms, At
<1>8. ~Finished
  BY DEF Finished
<1> QED
  BY <1>1, <1>2, <1>3, <1>4, <1>5, <1>6, <1>7, <1>8 DEF Next

\* What holds while the files are visited and until the references are updated.
HandOverInv ==
  /\ FilesInv
  /\ phase \in {"files", "updateReferences"} /\ ~fatal => OnceInv

LEMMA InitHandOverInv == Init => HandOverInv
<1> SUFFICES ASSUME Init PROVE HandOverInv
  OBVIOUS
<1>1. /\ atoms = <<>> /\ todo = <<>> /\ seen = {} /\ instantiated = {} /\ nodes = input.nodes
  BY DEF Init
<1>2. FilesInv
  <2>1. MembersAreInside(input)
    BY DriversAssumption DEF Init
  <2> QED BY <1>1, <2>1 DEF FilesInv, MembersAreInside
<1>3. ToSet(atoms) = {} /\ Brought = {} /\ OnceIn(todo) /\ AtomsIn(todo) = {}
  BY <1>1, OnceNothing DEF Brought, ToSet
<1>4. OnceOf(atoms, Own(Atoms))
  BY <1>1 DEF OnceOf
<1>5. OnceInv
  BY <1>3, <1>4 DEF OnceInv, Own
<1> QED
  BY <1>2, <1>5 DEF HandOverInv

LEMMA NextHandOverInv ==
  ASSUME IInv, WalkInv, ReaderAssumption(input), StripInv, HandOverInv, [Next]_vars
  PROVE  HandOverInv'
<1>1. CASE UNCHANGED vars
  <2>1. /\ UNCHANGED <<nodes, seen, instantiated, input>> /\ UNCHANGED <<added, todo, atoms>>
        /\ UNCHANGED <<phase, fatal>>
    BY <1>1 DEF vars, table, walk, work, output
  <2>2. FilesInv'
    BY <2>1, FilesStay DEF HandOverInv
  <2>3. OnceInv => OnceInv'
    BY <2>1, FrameOnce
  <2> QED BY <2>1, <2>2, <2>3 DEF HandOverInv
<1>2. CASE Next /\ phase = "files" /\ ~fatal
  <2>1. GatherInv /\ FilesInv /\ OnceInv
    BY <1>2 DEF StripInv, HandOverInv
  <2>2. FilesInv' /\ OnceInv'
    BY <1>2, <2>1, FilesOnce
  <2> QED BY <2>2 DEF HandOverInv
<1>3. CASE \/ UpdateReferences \/ DeadStripOptimize \/ CheckUndefines \/ RemoveCoalescedAwayAtoms
  <2>1. /\ UNCHANGED <<nodes, seen, instantiated, input>>
        /\ phase' \notin {"files", "updateReferences"}
    BY <1>3
    DEF UpdateReferences, DeadStripOptimize, CheckUndefines, RemoveCoalescedAwayAtoms, At,
        walk, work
  <2>2. FilesInv'
    BY <2>1, FilesStay DEF HandOverInv
  <2> QED BY <2>1, <2>2 DEF HandOverInv
<1> QED
  BY <1>1, <1>2, <1>3, LateSteps

-----------------------------------------------------------------------------
(***************************************************************************)
(* Atoms that the table does not track, as the associates of COFF files:   *)
(* nothing replaces them, and they replace nothing.                        *)
(***************************************************************************)

IsApart(t) ==
  /\ t.definition = "regular" /\ t.scope = "translationUnit"
  /\ t.merge # "byContent" /\ t.group = "none"

LEMMA ApartIsItsOwn ==
  ASSUME NEW t, IsApart(t)
  PROVE  T!CurrentAtom(t) = t /\ ~T!GoesByName(t) /\ ~T!GoesByContent(t)
  BY DEF IsApart, T!CurrentAtom, T!GoesByName, T!GoesByContent

\* Its own key has no other atom.
LEMMA ApartIsAlone ==
  ASSUME T!ChainInv, NEW t, IsApart(t), NEW x \in added, T!CurrentAtom(x) = t
  PROVE  x = t
<1>1. /\ T!GoesByName(x) <=> T!GoesByName(T!CurrentAtom(x))
      /\ x \in Atoms /\ T!CurrentAtom(x) # NoAtom
  BY TableAssumption, T!CurrentOfCurrent DEF T!ChainInv, T!NameInv, T!TypeOK, T!RepresentativeInv
<1>2. ~T!GoesByName(t) /\ ~T!GoesByContent(t) /\ t.group = "none"
  BY ApartIsItsOwn DEF IsApart
<1>3. CASE x.group # "none"
  <2>1. x.name \in Names /\ t = groupTable[x.name]
    BY <1>1, <1>3, TableAssumption, T!NamedGroup DEF T!CurrentAtom
  <2> QED BY <1>1, <1>2, <2>1 DEF T!ChainInv, T!RepresentativeInv
<1>4. CASE x.group = "none" /\ T!GoesByContent(x)
  <2>1. ~T!GoesByName(x) /\ t = contentTable[x.content]
    BY <1>4 DEF T!GoesByContent, T!CurrentAtom
  <2>2. x.content \in Contents
    BY <1>1, TableAssumption DEF T!SymbolTableAssumption, T!AtomAssumption, T!AtomType
  <2> QED BY <1>1, <1>2, <2>1, <2>2 DEF T!ChainInv, T!RepresentativeInv
<1>5. CASE x.group = "none" /\ ~T!GoesByContent(x)
  BY <1>1, <1>2, <1>5 DEF T!CurrentAtom
<1> QED BY <1>3, <1>4, <1>5

LEMMA ApartStays ==
  ASSUME T!ChainInv, ~fatal, NEW t \in Atoms, IsApart(t)
  PROVE  /\ ~ST!IsCoalescedAway(t)
         /\ \A s \in Atoms : ST!Replacement(s) = t => s = t
<1>1. /\ T!TypeOK /\ T!IsFiniteSet(added) /\ T!NoReplacementCycle
      /\ added \subseteq Atoms /\ \A x \in Atoms : T!IsCoalescedAway(x) => x \in added
  BY DEF T!ChainInv, T!NameInv, T!TypeOK
<1>2. /\ \A u \in Atoms : u.fallback # NoAtom =>
           u.definition = "undefined" /\ u.fallback.definition = "undefined"
      /\ t.definition = "regular"
  BY TableAssumption DEF T!SymbolTableAssumption, T!AtomAssumption, IsApart
<1>3. ~T!IsCoalescedAway(t)
  BY <1>1, <1>2, ApartIsItsOwn DEF T!ChainInv, T!CurrentInv
<1>4. ASSUME NEW x \in added, T!IsCoalescedAway(x)
      PROVE  replacedAtoms[x] # t
  <2>1. CASE x = T!CurrentAtom(x)
    BY <1>1, <1>2, <1>4, <2>1 DEF T!ChainInv, T!CurrentInv
  <2>2. CASE x # T!CurrentAtom(x) /\ replacedAtoms[x] = t
    <3>1. T!CurrentAtom(x) = t
      BY <2>2, ApartIsItsOwn DEF T!ChainInv, T!KeyInv
    <3>2. x = t
      BY <3>1, ApartIsAlone
    <3> QED BY <1>3, <1>4, <3>2
  <2> QED BY <2>1, <2>2
<1>5. ASSUME NEW s \in Atoms, s # t
      PROVE  ST!Replacement(s) # t
  <2>1. CASE s \notin added
    <3>1. T!Replacement(s) = s
      BY <1>1, <2>1, TableAssumption, T!ReplacementOfItself
    <3> QED BY <1>5, <3>1, SameReplacement
  <2>2. CASE s \in added
    <3> DEFINE n == T!Cardinality(added)
               W == {x \in added : x # t}
    <3>1. n \in Nat
      BY <1>1, TableAssumption, T!FS_CardinalityType
    <3>2. PICK w : T!IsWalk(w, T!NextInChain, s, n) /\ T!Replacement(s) = w[n]
      BY <1>1, <2>2, TableAssumption, T!ReplacementWalks
    <3> HIDE DEF n
    <3>3. \A x \in W : T!NextInChain[x] \in W
      <4>1. ASSUME NEW x \in W PROVE T!NextInChain[x] \in W
        <5>1. T!NextInChain[x] = IF T!IsCoalescedAway(x) THEN replacedAtoms[x] ELSE x
          BY <1>1 DEF T!NextInChain
        <5>2. T!IsCoalescedAway(x) => replacedAtoms[x] \in added
          BY <1>1 DEF T!TypeOK, T!IsCoalescedAway
        <5> QED BY <1>4, <5>1, <5>2
      <4> QED BY <4>1
    <3>4. s \in W
      BY <1>5, <2>2
    <3> HIDE DEF W
    <3>5. \A i \in 0 .. n : w[i] \in W
      BY <3>1, <3>2, <3>3, <3>4, TableAssumption, T!WalkStays
    <3>6. w[n] \in W
      BY <3>1, <3>5
    <3> QED BY <3>2, <3>6, SameReplacement DEF W
  <2> QED BY <2>1, <2>2
<1> QED
  BY <1>3, <1>5, SameQueries

\* An atom that is not coalesced away replaces itself, and what replaces an atom is
\* not coalesced away.
LEMMA ReplacementEnds ==
  ASSUME T!ChainInv, NEW s \in Atoms
  PROVE  /\ ST!Replacement(s) \in Atoms
         /\ ~ST!IsCoalescedAway(ST!Replacement(s))
         /\ ~ST!IsCoalescedAway(s) => ST!Replacement(s) = s
         /\ s \in added => ST!Replacement(s) \in added
<1>1. /\ T!TypeOK /\ T!IsFiniteSet(added) /\ T!NoReplacementCycle
      /\ added \subseteq Atoms /\ (T!IsCoalescedAway(s) => s \in added)
  BY DEF T!ChainInv, T!NameInv, T!TypeOK
<1>2. s \in added => T!Replacement(s) \in added /\ ~T!IsCoalescedAway(T!Replacement(s))
  BY <1>1, TableAssumption, T!ReplacementOfLoser
<1>3. ~T!IsCoalescedAway(s) => T!Replacement(s) = s
  BY <1>1, TableAssumption, T!ReplacementOfItself
<1> QED
  BY <1>1, <1>2, <1>3, SameReplacement, SameQueries

LEMMA RedirectIs ==
  ASSUME NEW r \in [kind : STRING, target : Atoms]
  PROVE  /\ Redirect(r).kind = r.kind
         /\ Redirect(r).target = IF r.kind = "associate" THEN r.target ELSE ST!Replacement(r.target)
  BY DEF Redirect

-----------------------------------------------------------------------------
(***************************************************************************)
(* deadStripOptimize(). What a live atom keeps alive is live: the walk has *)
(* come to rest after as many steps as there are atoms to be met.          *)
(***************************************************************************)

LEMMA KeepsIsReachable == \A a : Keeps(a) \subseteq Reachable
<1>1. ASSUME NEW a PROVE Targets(refs, a) \subseteq Reachable
  <2>1. a \notin DOMAIN refs => Targets(refs, a) = {}
    BY DEF Targets, RefsIn, ToSet
  <2> QED BY <2>1 DEF Reachable
<1> QED BY <1>1 DEF Keeps, Reachable

LEMMA MarkLiveIsClosed ==
  ASSUME IsFiniteSet(Reachable), Reachable \subseteq Atoms,
         NEW roots \in SUBSET Reachable, NEW a \in MarkLive(roots)
  PROVE  Keeps(a) \subseteq MarkLive(roots)
<1> DEFINE n == Cardinality(Reachable)
<1>0. \A b : Keeps(b) \subseteq Reachable
  BY KeepsIsReachable
<1>1. n \in Nat /\ roots \in SUBSET Atoms /\ \A b \in Atoms : Keeps(b) \subseteq Atoms
  BY <1>0, FS_CardinalityType
<1>2. PICK w : IsWalk(w, Grow, roots, n) /\ MarkLive(roots) = w[n]
  BY <1>1, MarkLiveWalks
<1> HIDE DEF n
<1>3. \A S \in SUBSET Reachable : /\ Grow[S] = S \cup UNION {Keeps(b) : b \in S}
                                  /\ Grow[S] \in SUBSET Reachable
  <2>1. ASSUME NEW S \in SUBSET Reachable
        PROVE  /\ Grow[S] = S \cup UNION {Keeps(b) : b \in S}
               /\ Grow[S] \in SUBSET Reachable
    <3>1. Grow[S] = S \cup UNION {Keeps(b) : b \in S}
      BY DEF Grow
    <3> QED BY <1>0, <3>1
  <2> QED BY <2>1
<1>4. w[0] = roots /\ \A i \in 0 .. n : i < n => w[i + 1] = Grow[w[i]]
  BY <1>1, <1>2, WalkSteps
<1>5. \A i \in 0 .. n : w[i] \in SUBSET Reachable
  <2>1. \A S \in SUBSET Reachable : Grow[S] \in SUBSET Reachable
    BY <1>3
  <2> QED BY <1>1, <1>2, <2>1, WalkStays
\* After each step the walk rests or has met another atom.
<1> DEFINE Rests(i) == Grow[w[i]] = w[i]
           I == {i \in 0 .. n : Rests(i) \/ Cardinality(w[i]) >= i}
<1>6. \A i \in 0 .. n : IsFiniteSet(w[i]) /\ Cardinality(w[i]) \in Nat
  BY <1>5, FS_Subset, FS_CardinalityType
<1>7. 0 \in I
  BY <1>1, <1>6
<1>8. ASSUME NEW i \in 0 .. n, i \in I, i < n
      PROVE  i + 1 \in I
  <2>1. i + 1 \in 0 .. n /\ i \in Nat /\ w[i + 1] = Grow[w[i]]
    BY <1>1, <1>4, <1>8
  <2>2. CASE Rests(i)
    <3>1. w[i + 1] = w[i]
      BY <2>1, <2>2
    <3>2. Rests(i + 1)
      BY <2>2, <3>1
    <3> QED BY <2>1, <3>2
  <2>3. CASE ~Rests(i)
    <3>1. w[i] \subseteq w[i + 1] /\ w[i] # w[i + 1]
      BY <1>3, <1>5, <2>1, <2>3
    <3>2. /\ IsFiniteSet(w[i + 1]) /\ Cardinality(w[i]) \in Nat /\ Cardinality(w[i + 1]) \in Nat
          /\ Cardinality(w[i]) >= i
      BY <1>6, <1>8, <2>1, <2>3
    <3>3. Cardinality(w[i]) <= Cardinality(w[i + 1]) /\ Cardinality(w[i + 1]) # Cardinality(w[i])
      BY <3>1, <3>2, FS_Subset
    <3>4. Cardinality(w[i + 1]) >= i + 1
      BY <2>1, <3>2, <3>3
    <3> QED BY <2>1, <3>4
  <2> QED BY <2>2, <2>3
<1>9. n \in 0 .. n /\ n \in I
  <2>1. \A i \in 0 .. n : i \in I
    <3> HIDE DEF I
    <3> QED BY <1>1, <1>7, <1>8, UpToInduction
  <2> QED BY <1>1, <2>1
<1>10. Rests(n)
  <2>1. CASE Cardinality(w[n]) >= n
    <3>1. Cardinality(w[n]) <= n /\ (n = Cardinality(w[n]) => Reachable = w[n])
      BY <1>5, <1>9, FS_Subset DEF n
    <3>2. w[n] = Reachable
      BY <1>1, <1>6, <1>9, <2>1, <3>1
    <3>3. Reachable \subseteq Grow[Reachable] /\ Grow[Reachable] \subseteq Reachable
      BY <1>3
    <3>4. Grow[Reachable] = Reachable
      BY <3>3
    <3> QED BY <3>2, <3>4
  <2> QED BY <1>9, <2>1
<1>11. w[n] \in SUBSET Reachable
  BY <1>5, <1>9
<1> QED
  BY <1>2, <1>3, <1>10, <1>11

\* What is live, when the roots are known.
LEMMA LiveIsKnown ==
  ASSUME SettledInv, ReaderAssumption(input), T!NameInv,
         RootsAreKnown, input.roots \subseteq Names, phase = "deadStripOptimize",
         Has("deadStrip"), DeadStripOptimize
  PROVE  /\ atoms' = Sublist(atoms, liveAtoms') /\ ToSet(atoms') = liveAtoms'
         /\ liveAtoms' \subseteq ToSet(atoms) \ Lost
         /\ \A a \in liveAtoms' : Keeps(a) \subseteq liveAtoms'
         /\ \A S : S \cap DeadStripRoots = {} /\ S \cap liveAtoms' # {}
                     => \E a \in liveAtoms' \ S : Keeps(a) \cap S # {}
<1> DEFINE roots == DeadStripRoots
           live == MarkLive(roots)
           Z == ToSet(atoms) \ Lost
<1>1. liveAtoms' = live /\ atoms' = Sublist(atoms, live)
  BY DEF DeadStripOptimize
<1>2. atoms \in Seq(Atoms) /\ ToSet(atoms) \subseteq Atoms
  BY ToSetOfSeq DEF SettledInv
<1>3. roots \subseteq Z /\ Z \subseteq Atoms /\ Z \subseteq ToSet(atoms)
  BY <1>2, RootsAreSettled
<1>4. IsFiniteSet(Reachable) /\ Reachable \subseteq Atoms /\ ToSet(atoms) \subseteq Reachable
  <2>1. \A a : Targets(refs, a) \subseteq Atoms
    BY TargetsAreAtoms DEF SettledInv
  <2> QED BY <1>2, <2>1, ReachableIsFinite DEF Reachable
<1> HIDE DEF roots, live, Z
<1>5. /\ roots \in SUBSET Atoms /\ roots \in SUBSET Reachable
      /\ \A a \in Atoms : Keeps(a) \subseteq Atoms
      /\ \A a \in Z : Keeps(a) \subseteq Z
  BY <1>3, <1>4, SettledIsClosed DEF Z
<1>6. /\ \A Y \in SUBSET Atoms :
           roots \subseteq Y /\ (\A a \in Y : Keeps(a) \subseteq Y) => live \subseteq Y
      /\ \A S : S \cap roots = {} /\ S \cap live # {} => \E a \in live \ S : Keeps(a) \cap S # {}
  BY <1>4, <1>5, MarkLiveIsExact DEF live
<1>7. live \subseteq Z
  BY <1>3, <1>5, <1>6
<1>8. \A a \in live : Keeps(a) \subseteq live
  BY <1>4, <1>5, MarkLiveIsClosed DEF live
<1>9. ToSet(atoms') = live
  <2>1. ToSet(atoms') = ToSet(atoms) \cap live
    BY <1>1, <1>2, SublistHas
  <2> QED BY <1>3, <1>7, <2>1
<1> QED
  BY <1>1, <1>6, <1>7, <1>8, <1>9 DEF roots, Z

-----------------------------------------------------------------------------
(***************************************************************************)
(* After updateReferences(). The references are those of the input, but    *)
(* redirected, and the dead atoms are the associates of what lost.         *)
(***************************************************************************)

RedirectedInv ==
  /\ DOMAIN refs = DOMAIN input.refs
  /\ \A a \in added \cap DOMAIN refs : ToSet(refs[a]) = {Redirect(r) : r \in ToSet(input.refs[a])}
  /\ deadAtoms = UNION {Associates(input, a) : a \in {b \in added : ST!IsCoalescedAway(b)}}

\* Each atom is known once, and the table has it unless it is file-static.
KnownOnceInv ==
  /\ atoms \in Seq(Atoms)
  /\ OnceOf(atoms, Own(Atoms))
  /\ \A a \in ToSet(atoms) : a \in added \/ FileStatic(a)

\* What is known is closed, but for the parents of lost groups; and of a unit that
\* lost or was stripped nothing is left that has a use.
UnitsInv ==
  /\ \A a \in ToSet(atoms) \ Lost : Targets(refs, a) \subseteq ToSet(atoms)
  /\ \A p \in Lost : GroupChildren(input, p) \cap ToSet(atoms) = {}
  /\ \A p \in (added \cap DOMAIN refs) \ (Lost \cup ToSet(atoms)) :
       /\ \A c \in GroupChildren(input, p) : c \in ToSet(atoms) => ST!IsCoalescedAway(c)
       /\ ~ST!IsCoalescedAway(p) => Associates(input, p) \cap ToSet(atoms) = {}

\* How the references of an atom now and in the input correspond.
Became(q, r) ==
  /\ r.kind = q.kind
  /\ r.target = IF q.kind = "associate" THEN q.target ELSE ST!Replacement(q.target)

LEMMA RefsBecame ==
  ASSUME RedirectedInv, RefsAreTyped(input), NEW a \in added
  PROVE  /\ \A q \in ToSet(RefsIn(input.refs, a)) :
              /\ q.target \in Atoms
              /\ \E r \in ToSet(RefsIn(refs, a)) : Became(q, r)
         /\ \A r \in ToSet(RefsIn(refs, a)) : \E q \in ToSet(RefsIn(input.refs, a)) : Became(q, r)
<1>1. CASE a \notin DOMAIN refs
  <2>1. ToSet(<<>>) = {}
    BY DEF ToSet
  <2> QED BY <1>1, <2>1 DEF RedirectedInv, RefsIn
<1>2. CASE a \in DOMAIN refs
  <2>1. /\ RefsIn(refs, a) = refs[a] /\ RefsIn(input.refs, a) = input.refs[a]
        /\ ToSet(refs[a]) = {Redirect(r) : r \in ToSet(input.refs[a])}
        /\ a \in DOMAIN input.refs
    BY <1>2 DEF RedirectedInv, RefsIn
  <2>2. ToSet(input.refs[a]) \subseteq [kind : STRING, target : Atoms]
    <3>1. input.refs[a] \in Seq([kind : STRING, target : Atoms])
      BY <2>1 DEF RefsAreTyped
    <3> QED BY <3>1, ToSetOfSeq
  <2>3. \A q \in ToSet(input.refs[a]) : Became(q, Redirect(q)) /\ q.target \in Atoms
    BY <2>2, RedirectIs DEF Became
  <2> QED BY <2>1, <2>3
<1> QED BY <1>1, <1>2

LEMMA UpdateRedirects ==
  ASSUME T!ChainInv, ReaderAssumption(input), GatherInv, OnceInv, UpdateReferences
  PROVE  RedirectedInv' /\ KnownOnceInv'
<1>1. /\ refs = input.refs /\ input' = input /\ RefsAreTyped(input)
      /\ added \subseteq ToSet(atoms) /\ atoms \in Seq(Atoms)
      /\ UNCHANGED <<replacedAtoms, added, atoms, input>>
  BY DEF ReaderAssumption, GatherInv, UpdateReferences, table
<1>2. /\ refs' = [b \in DOMAIN refs |->
                    IF b \in ToSet(atoms)
                      THEN [i \in 1 .. Len(refs[b]) |-> Redirect(refs[b][i])]
                      ELSE refs[b]]
      /\ deadAtoms' =
           UNION {{r.target : r \in {q \in ToSet(RefsIn(refs, a)) : q.kind = "associate"}} :
                    a \in {b \in ToSet(atoms) : ST!IsCoalescedAway(b)}}
  BY DEF UpdateReferences
<1>3. \A r : Redirect(r)' = Redirect(r)
  BY <1>1 DEF Redirect, ST!Replacement, ST!IsCoalescedAway
<1>4. ASSUME NEW a \in added \cap DOMAIN refs
      PROVE  ToSet(refs'[a]) = {Redirect(r) : r \in ToSet(input.refs[a])}
  <2> DEFINE s == input.refs[a]
             n == Len(s)
             u == [i \in 1 .. n |-> Redirect(s[i])]
  <2>1. n \in Nat /\ ToSet(s) = {s[i] : i \in 1 .. n}
    <3>1. s \in Seq([kind : STRING, target : Atoms])
      BY <1>1 DEF RefsAreTyped
    <3> HIDE DEF s
    <3> QED BY <3>1, ToSetOfSeq
  <2>2. refs'[a] = u
    BY <1>1, <1>2
  <2> HIDE DEF s, n
  <2>3. ToSet(u) = {Redirect(s[i]) : i \in 1 .. n}
    BY <2>1 DEF ToSet
  <2> QED BY <2>1, <2>2, <2>3 DEF s
<1>5. {b \in ToSet(atoms) : ST!IsCoalescedAway(b)} = {b \in added : ST!IsCoalescedAway(b)}
  <2>1. \A b \in Atoms : T!IsCoalescedAway(b) => b \in added
    BY DEF T!ChainInv, T!NameInv, T!TypeOK
  <2>2. ToSet(atoms) \subseteq Atoms
    BY <1>1, ToSetOfSeq
  <2> QED BY <1>1, <2>1, <2>2, SameQueries
<1>6. deadAtoms' = UNION {Associates(input, a) : a \in {b \in added : ST!IsCoalescedAway(b)}}
  BY <1>1, <1>2, <1>5 DEF Associates, Linked
<1>7. RedirectedInv'
  <2>1. DOMAIN refs' = DOMAIN refs
    BY <1>2
  <2>2. \A a \in added \cap DOMAIN refs :
          ToSet(refs'[a]) = {Redirect(r)' : r \in ToSet(input.refs[a])}
    BY <1>3, <1>4
  <2>3. \A a : Associates(input, a)' = Associates(input, a) /\ (ST!IsCoalescedAway(a)' <=> ST!IsCoalescedAway(a))
    BY <1>1 DEF Associates, Linked, RefsIn, ToSet, ST!IsCoalescedAway
  <2>4. \A a : ToSet(refs[a])' = ToSet(refs'[a]) /\ ToSet(input.refs[a])' = ToSet(input.refs[a])
    BY <1>1 DEF ToSet
  <2> QED BY <1>1, <1>6, <2>1, <2>2, <2>3, <2>4 DEF RedirectedInv
<1>8. KnownOnceInv'
  BY <1>1 DEF OnceInv, KnownOnceInv, OnceOf, Own, FileStatic, ToSet
<1> QED BY <1>7, <1>8

LEMMA RedirectedStays ==
  ASSUME RedirectedInv, UNCHANGED <<replacedAtoms, added, refs, deadAtoms, input>>
  PROVE  RedirectedInv'
<1>1. \A r : Redirect(r)' = Redirect(r)
  BY DEF Redirect, ST!Replacement, ST!IsCoalescedAway
<1>2. \A a : /\ Associates(input, a)' = Associates(input, a)
             /\ ST!IsCoalescedAway(a)' <=> ST!IsCoalescedAway(a)
             /\ ToSet(refs[a])' = ToSet(refs[a]) /\ ToSet(input.refs[a])' = ToSet(input.refs[a])
  BY DEF Associates, Linked, RefsIn, ToSet, ST!IsCoalescedAway
<1> QED
  BY <1>1, <1>2 DEF RedirectedInv

LEMMA UnitsStay ==
  ASSUME UnitsInv, UNCHANGED <<replacedAtoms, added, refs, atoms, input>>
  PROVE  UnitsInv'
<1>1. \A a : /\ Associates(input, a)' = Associates(input, a)
             /\ GroupChildren(input, a)' = GroupChildren(input, a)
             /\ ST!IsCoalescedAway(a)' <=> ST!IsCoalescedAway(a)
             /\ Targets(refs, a)' = Targets(refs, a)
  BY DEF Associates, GroupChildren, Targets, Linked, RefsIn, ToSet, ST!IsCoalescedAway
<1>2. ToSet(atoms)' = ToSet(atoms) /\ Lost' = Lost
  BY DEF ToSet, Lost, ST!IsCoalescedAway
<1> QED
  BY <1>1, <1>2 DEF UnitsInv

LEMMA SettledUnits ==
  ASSUME T!ChainInv, ReaderAssumption(input), SettledInv, RedirectedInv
  PROVE  UnitsInv
<1>1. RefsAreTyped(input) /\ added \subseteq ToSet(atoms) /\ DOMAIN refs = DOMAIN input.refs
  BY DEF ReaderAssumption, SettledInv
<1>2. ASSUME NEW a \in ToSet(atoms) \ Lost
      PROVE  Targets(refs, a) \subseteq ToSet(atoms)
  <2>1. a \notin DOMAIN refs => Targets(refs, a) = {}
    BY DEF Targets, RefsIn, ToSet
  <2> QED BY <2>1 DEF SettledInv
<1>3. ASSUME NEW p \in Lost, NEW c \in GroupChildren(input, p)
      PROVE  c \notin ToSet(atoms)
  <2>1. p \in added
    <3>1. p \in Atoms /\ T!IsCoalescedAway(p)
      BY <1>1, SameQueries DEF Lost, RefsAreTyped
    <3> QED BY <3>1 DEF T!ChainInv, T!NameInv, T!TypeOK
  <2>2. PICK q \in ToSet(RefsIn(input.refs, p)) : q.kind = "groupChild" /\ q.target = c
    BY DEF GroupChildren, Linked
  <2>3. c \in Atoms /\ \E r \in ToSet(RefsIn(refs, p)) : Became(q, r)
    BY <1>1, <2>1, <2>2, RefsBecame
  <2>4. ST!Replacement(c) \in Targets(refs, p)
    BY <2>2, <2>3 DEF Became, Targets
  <2>5. c \in ToSet(atoms) => ST!Replacement(c) \in ToSet(atoms)
    BY <1>1, <2>3, RedirectedTo
  <2> QED BY <2>4, <2>5 DEF SettledInv
<1> QED
  BY <1>1, <1>2, <1>3 DEF UnitsInv

\* What AssociatesStayApart says of the units of the input.
LEMMA AssociateIs ==
  ASSUME AssociatesStayApart(input), RefsAreTyped(input), NEW p, NEW t \in Associates(input, p)
  PROVE  /\ p \in DOMAIN input.refs /\ p.group = "none"
         /\ t \in Atoms /\ IsApart(t) /\ t \notin input.never
         /\ Associates(input, t) = {}
         /\ Linked(input.refs, t, {"layoutAfter", "groupChild"}) \subseteq {p} \cup Associates(input, p)
         /\ \A q \in DOMAIN input.refs : t \in Targets(input.refs, q) => q \in {p} \cup Associates(input, p)
<1>1. p \in DOMAIN input.refs
  <2>1. ToSet(<<>>) = {}
    BY DEF ToSet
  <2> QED BY <2>1 DEF Associates, Linked, RefsIn
<1>2. t \in Atoms
  <2>1. t \in Targets(input.refs, p)
    BY DEF Associates, Linked, Targets
  <2>2. RefsAreTyped([refs |-> input.refs])
    BY DEF RefsAreTyped
  <2> QED BY <2>1, <2>2, TargetsAreAtoms
<1> QED
  BY <1>1, <1>2 DEF AssociatesStayApart, IsApart

\* Whatever the references of an atom became, those to an associate are the same.
LEMMA AssociateIsMeant ==
  ASSUME T!ChainInv, ~fatal, RedirectedInv, RefsAreTyped(input), NEW a \in added,
         NEW t \in Atoms, IsApart(t), t \in Targets(refs, a)
  PROVE  a \in DOMAIN input.refs /\ t \in Targets(input.refs, a)
<1>1. PICK r \in ToSet(RefsIn(refs, a)) : r.target = t
  BY DEF Targets
<1>2. PICK q \in ToSet(RefsIn(input.refs, a)) : Became(q, r) /\ q.target \in Atoms
  BY RefsBecame
<1>3. q.target = t
  BY <1>1, <1>2, ApartStays DEF Became
<1>4. a \notin DOMAIN input.refs => ToSet(RefsIn(input.refs, a)) = {}
  BY DEF RefsIn, ToSet
<1> QED
  BY <1>2, <1>3, <1>4 DEF Targets

\* A parent that is stripped keeps none of its children but those that lost.
LEMMA StripTakesChildren ==
  ASSUME T!ChainInv, ReaderAssumption(input), RedirectedInv,
         NEW live, \A a \in live : Keeps(a) \subseteq live,
         NEW p \in added, p \in ToSet(atoms), p \notin live,
         NEW c \in GroupChildren(input, p), c \in live
  PROVE  ST!IsCoalescedAway(c)
<1> SUFFICES ASSUME ~ST!IsCoalescedAway(c) PROVE FALSE
  OBVIOUS
<1>1. PICK q \in ToSet(RefsIn(input.refs, p)) : q.kind = "groupChild" /\ q.target = c
  BY DEF GroupChildren, Linked
<1>2. c \in Atoms /\ \E r \in ToSet(RefsIn(refs, p)) : Became(q, r)
  BY <1>1, RefsBecame DEF ReaderAssumption
<1>3. ST!Replacement(c) = c
  BY <1>2, ReplacementEnds
<1>4. c \in Linked(refs, p, {"layoutAfter", "groupChild"})
  BY <1>1, <1>2, <1>3 DEF Became, Linked
<1>5. c.definition = "regular"
  <2>1. p \in DOMAIN input.refs
    <3>1. p \notin DOMAIN input.refs => ToSet(RefsIn(input.refs, p)) = {}
      BY DEF RefsIn, ToSet
    <3> QED BY <1>1, <3>1
  <2> QED BY <2>1 DEF ReaderAssumption, GroupsAreWhole
<1>6. p \in Keeps(c)
  BY <1>4, <1>5 DEF Keeps
<1> QED BY <1>6

\* A parent that is stripped, but did not lose, keeps none of its associates: they
\* are no roots, and only the unit refers to them.
LEMMA StripTakesAssociates ==
  ASSUME T!ChainInv, ~fatal, ReaderAssumption(input), AssociatesStayApart(input),
         RedirectedInv, KnownOnceInv, RootsInv, RootsAreKnown, phase = "deadStripOptimize",
         Has("deadStrip"), input.roots \subseteq Names,
         NEW live \in SUBSET ToSet(atoms),
         \A S : S \cap DeadStripRoots = {} /\ S \cap live # {} =>
                  \E a \in live \ S : Keeps(a) \cap S # {},
         NEW p \in added, p \notin live, ~ST!IsCoalescedAway(p)
  PROVE  Associates(input, p) \cap live = {}
<1> DEFINE S == Associates(input, p)
<1>1. /\ RefsAreTyped(input) /\ DOMAIN refs = DOMAIN input.refs
      /\ ToSet(atoms) \subseteq Atoms
  BY ToSetOfSeq DEF ReaderAssumption, RedirectedInv, KnownOnceInv
<1>2. ASSUME NEW t \in S
      PROVE  t \notin DeadStripRoots
  <2>1. IsApart(t) /\ t \notin input.never
    BY <1>1, <1>2, AssociateIs
  <2>2. t \notin deadStripRoots
    BY <2>1 DEF RootsInv
  <2>3. \A n \in input.roots : nameTable[n] # t
    <3>1. ASSUME NEW n \in input.roots, nameTable[n] = t PROVE FALSE
      <4>1. n \in Names /\ nameTable[n] # NoAtom
        BY <3>1 DEF RootsAreKnown
      <4>2. T!GoesByName(t)
        BY <3>1, <4>1, TableAssumption, T!EntryIsAdded DEF T!ChainInv
      <4> QED BY <2>1, <4>2, ApartIsItsOwn
    <3> QED BY <3>1
  <2> QED BY <2>1, <2>2, <2>3 DEF DeadStripRoots, IsApart
<1>3. ASSUME NEW a \in live, NEW t \in S, t \in Keeps(a)
      PROVE  a \in {p} \cup S
  <2>1. t \in Atoms /\ IsApart(t)
    BY <1>1, <1>3, AssociateIs
  <2>2. CASE t \in Targets(refs, a)
    <3>1. a \in DOMAIN refs
      <4>1. a \notin DOMAIN refs => Targets(refs, a) = {}
        BY DEF Targets, RefsIn, ToSet
      <4> QED BY <2>2, <4>1
    <3>2. a \in added
      <4>1. a.definition = "regular"
        BY <1>1, <3>1 DEF RefsAreTyped
      <4> QED BY <1>3, <4>1 DEF KnownOnceInv, FileStatic
    <3>3. a \in DOMAIN input.refs /\ t \in Targets(input.refs, a)
      BY <1>1, <2>1, <2>2, <3>2, AssociateIsMeant
    <3> QED BY <1>1, <1>3, <3>3, AssociateIs
  <2>3. CASE t \in ToSet(atoms) /\ a \in Linked(refs, t, {"layoutAfter", "groupChild"})
    <3>1. t \in added
      BY <2>1, <2>3 DEF KnownOnceInv, FileStatic, IsApart
    <3>2. PICK r \in ToSet(RefsIn(refs, t)) : r.kind \in {"layoutAfter", "groupChild"} /\ r.target = a
      BY <2>3 DEF Linked
    <3>3. PICK q \in ToSet(RefsIn(input.refs, t)) : Became(q, r) /\ q.target \in Atoms
      BY <1>1, <3>1, RefsBecame
    <3>4. q.target \in Linked(input.refs, t, {"layoutAfter", "groupChild"})
      BY <3>2, <3>3 DEF Became, Linked
    <3>5. q.target \in {p} \cup S
      BY <1>1, <1>3, <3>4, AssociateIs
    <3>6. ~ST!IsCoalescedAway(q.target)
      <4>1. CASE q.target \in S
        <5>1. q.target \in Atoms /\ IsApart(q.target)
          BY <1>1, <4>1, AssociateIs
        <5> QED BY <5>1, ApartStays
      <4> QED BY <3>5, <4>1
    <3>7. a = q.target
      BY <3>2, <3>3, <3>6, ReplacementEnds DEF Became
    <3> QED BY <3>5, <3>7
  <2> QED BY <1>3, <2>2, <2>3 DEF Keeps
<1>4. S \cap DeadStripRoots = {}
  BY <1>2
<1> HIDE DEF S
<1>5. ~ \E a \in live \ S : Keeps(a) \cap S # {}
  BY <1>3
<1> QED
  BY <1>4, <1>5 DEF S

\* With dead stripping only live atoms are left.
LiveInv == Has("deadStrip") => ToSet(atoms) \subseteq liveAtoms

\* Stripping leaves no atom twice that was there once.
LEMMA StripOnce ==
  ASSUME T!ChainInv, ~fatal, ReaderAssumption(input), SettledInv, KnownOnceInv, RootsAreKnown,
         input.roots \subseteq Names, phase = "deadStripOptimize", DeadStripOptimize
  PROVE  KnownOnceInv'
<1>1. UNCHANGED <<replacedAtoms, added, refs, deadAtoms, input>>
  BY DEF DeadStripOptimize, table
<1>2. CASE ~Has("deadStrip")
  <2>1. atoms' = atoms
    BY <1>2 DEF DeadStripOptimize
  <2> QED BY <1>1, <2>1 DEF KnownOnceInv, OnceOf, Own, FileStatic, ToSet
<1>3. CASE Has("deadStrip")
  <2> DEFINE live == liveAtoms'
  <2>1. /\ atoms' = Sublist(atoms, live) /\ ToSet(atoms') = live
        /\ live \subseteq ToSet(atoms) \ Lost
    BY <1>3, LiveIsKnown DEF T!ChainInv
  <2> HIDE DEF live
  <2>2. atoms' \in Seq(Atoms) /\ OnceOf(atoms', Own(Atoms))
    BY <2>1, SublistHas, SublistOnce DEF KnownOnceInv
  <2>3. \A a \in ToSet(atoms') : a \in added' \/ FileStatic(a)
    BY <1>1, <2>1 DEF KnownOnceInv
  <2>4. (OnceOf(atoms, Own(Atoms)))' <=> OnceOf(atoms', Own(Atoms))
    BY DEF OnceOf, Own
  <2>5. \A a : FileStatic(a)' <=> FileStatic(a)
    BY DEF FileStatic
  <2> QED BY <2>2, <2>3, <2>4, <2>5 DEF KnownOnceInv
<1> QED BY <1>2, <1>3

LEMMA StripUnits ==
  ASSUME T!ChainInv, ~fatal, ReaderAssumption(input), AssociatesStayApart(input),
         SettledInv, RedirectedInv, KnownOnceInv, RootsAreKnown, input.roots \subseteq Names,
         phase = "deadStripOptimize", DeadStripOptimize
  PROVE  RedirectedInv' /\ KnownOnceInv' /\ UnitsInv' /\ LiveInv'
<1>1. UNCHANGED <<replacedAtoms, added, refs, deadAtoms, input>>
  BY DEF DeadStripOptimize, table
<1>2. RedirectedInv'
  BY <1>1, RedirectedStays
<1>3. UnitsInv
  BY SettledUnits
<1>4. CASE ~Has("deadStrip")
  <2>1. atoms' = atoms
    BY <1>4 DEF DeadStripOptimize
  <2>2. KnownOnceInv'
    BY StripOnce
  <2>3. LiveInv'
    BY <1>1, <1>4 DEF LiveInv, Has
  <2> QED BY <1>1, <1>2, <1>3, <2>1, <2>2, <2>3, UnitsStay
<1>5. CASE Has("deadStrip")
  <2> DEFINE live == liveAtoms'
  <2>1. /\ atoms' = Sublist(atoms, live) /\ ToSet(atoms') = live
        /\ live \subseteq ToSet(atoms) \ Lost
        /\ \A a \in live : Keeps(a) \subseteq live
        /\ \A S : S \cap DeadStripRoots = {} /\ S \cap live # {}
                    => \E a \in live \ S : Keeps(a) \cap S # {}
    BY <1>5, LiveIsKnown DEF T!ChainInv
  <2> HIDE DEF live
  <2>2. atoms \in Seq(Atoms) /\ added \subseteq ToSet(atoms) /\ RootsInv
        /\ live \in SUBSET ToSet(atoms)
    BY <2>1 DEF SettledInv
  <2>3. KnownOnceInv'
    BY StripOnce
  <2>4. ASSUME NEW a \in live
        PROVE  Targets(refs, a) \subseteq live
    BY <2>1, <2>4 DEF Keeps
  <2>5. ASSUME NEW p \in Lost
        PROVE  GroupChildren(input, p) \cap live = {}
    BY <1>3, <2>1 DEF UnitsInv
  <2>6. ASSUME NEW p \in (added \cap DOMAIN refs) \ (Lost \cup live)
        PROVE  /\ \A c \in GroupChildren(input, p) : c \in live => ST!IsCoalescedAway(c)
               /\ ~ST!IsCoalescedAway(p) => Associates(input, p) \cap live = {}
    BY <1>5, <2>1, <2>2, StripTakesChildren, StripTakesAssociates
  <2>7. \A a : /\ Associates(input, a)' = Associates(input, a)
               /\ GroupChildren(input, a)' = GroupChildren(input, a)
               /\ ST!IsCoalescedAway(a)' <=> ST!IsCoalescedAway(a)
               /\ Targets(refs, a)' = Targets(refs, a)
    BY <1>1 DEF Associates, GroupChildren, Targets, Linked, RefsIn, ToSet, ST!IsCoalescedAway
  <2>8. Lost' = Lost /\ added' = added /\ refs' = refs
    BY <1>1 DEF Lost, ST!IsCoalescedAway
  <2>9. UnitsInv'
    BY <2>1, <2>4, <2>5, <2>6, <2>7, <2>8 DEF UnitsInv
  <2>10. LiveInv'
    BY <2>1 DEF LiveInv, live
  <2> QED BY <1>2, <2>3, <2>9, <2>10
<1> QED BY <1>4, <1>5

-----------------------------------------------------------------------------
(***************************************************************************)
(* checkUndefines() and removeCoalescedAwayAtoms(). What is left is whole. *)
(***************************************************************************)

\* What is missing does not matter.
CheckedInv == MissingSymbols = {} \/ Has("allowRemainingUndefines")

\* The merged file.
Left == {a \in ToSet(atoms) : ~ST!IsCoalescedAway(a) /\ a \notin deadAtoms}

LEMMA LeftIsAdded ==
  ASSUME T!ChainInv, ~fatal, KnownOnceInv, NEW a \in Left
  PROVE  /\ a \in Atoms
         /\ a \in added \/ FileStatic(a)
         /\ a \in added /\ T!GoesByName(a) => nameTable[a.name] = a
<1>1. a \in Atoms /\ (a \in added \/ FileStatic(a)) /\ ~T!IsCoalescedAway(a)
  BY ToSetOfSeq, SameQueries DEF KnownOnceInv, Left
<1>2. a \in added => T!CurrentAtom(a) = a
  BY <1>1 DEF T!ChainInv, T!KeyInv
<1> QED
  BY <1>1, <1>2 DEF T!CurrentAtom, T!GoesByName

LEMMA LeftIsUnique ==
  ASSUME T!ChainInv, ~fatal, KnownOnceInv, NEW a \in Left, NEW b \in Left,
         a.name = b.name, a.name # NoName, a.scope = "global", b.scope = "global",
         a.group = "none", b.group = "none"
  PROVE  a = b
<1>1. a \in added /\ b \in added
  BY LeftIsAdded DEF FileStatic
<1>2. T!GoesByName(a) /\ T!GoesByName(b)
  BY DEF T!GoesByName
<1> QED
  BY <1>1, <1>2, LeftIsAdded

LEMMA LeftIsOfUnits ==
  ASSUME T!ChainInv, ~fatal, ReaderAssumption(input), AssociatesStayApart(input),
         RedirectedInv, KnownOnceInv, UnitsInv,
         NEW a \in added, NEW r \in ToSet(RefsIn(input.refs, a)),
         r.kind \in {"groupChild", "associate"}
  PROVE  IF a \in Left THEN r.target \in Left \/ ST!IsCoalescedAway(r.target)
                       ELSE r.target \notin Left
<1>1. /\ RefsAreTyped(input) /\ DOMAIN refs = DOMAIN input.refs
      /\ a \in DOMAIN input.refs /\ r.target \in Targets(input.refs, a)
  <2>1. a \notin DOMAIN input.refs => ToSet(RefsIn(input.refs, a)) = {}
    BY DEF RefsIn, ToSet
  <2> QED BY <2>1 DEF ReaderAssumption, RedirectedInv, Targets
<1>2. PICK q \in ToSet(RefsIn(refs, a)) : Became(r, q) /\ r.target \in Atoms
  BY <1>1, RefsBecame
<1>3. q.target \in Targets(refs, a)
  BY DEF Targets
\* A dead atom is an associate of one that lost, and no other unit refers to it.
<1>4. ASSUME NEW t \in deadAtoms
      PROVE  \E p \in added : ST!IsCoalescedAway(p) /\ t \in Associates(input, p)
  BY <1>4 DEF RedirectedInv
<1>5. ASSUME NEW p \in added, NEW t \in Associates(input, p), t \in Targets(input.refs, a),
             ST!IsCoalescedAway(p)
      PROVE  a = p \/ a \in deadAtoms
  <2>1. a \in {p} \cup Associates(input, p)
    BY <1>1, <1>5, AssociateIs
  <2> QED BY <1>5, <2>1 DEF RedirectedInv
<1>6. r.target \in deadAtoms => a \notin Left
  BY <1>1, <1>4, <1>5 DEF Left
<1>7. CASE r.kind = "groupChild"
  <2>1. r.target \in GroupChildren(input, a) /\ a.group # "none"
    <3>1. r.target \in GroupChildren(input, a)
      BY <1>7 DEF GroupChildren, Linked
    <3> QED BY <1>1, <3>1 DEF ReaderAssumption, GroupsAreWhole
  <2>2. a \notin deadAtoms
    <3>1. ASSUME NEW p, a \in Associates(input, p) PROVE FALSE
      BY <1>1, <2>1, <3>1, AssociateIs DEF IsApart
    <3> QED BY <1>4, <3>1
  <2>3. a \in Lost <=> ST!IsCoalescedAway(a)
    BY <1>1, <2>1 DEF Lost
  <2>4. CASE a \in Left /\ ~ST!IsCoalescedAway(r.target)
    <3>1. q.target = r.target
      BY <1>2, <1>7, <2>4, ReplacementEnds DEF Became
    <3>2. r.target \in ToSet(atoms)
      BY <1>3, <2>3, <2>4, <3>1 DEF UnitsInv, Left
    <3> QED BY <1>6, <2>4, <3>2 DEF Left
  <2>5. CASE a \notin Left
    <3>1. a \in Lost \/ (a \notin Lost /\ a \notin ToSet(atoms))
      BY <2>2, <2>3, <2>5 DEF Left
    <3> QED BY <1>1, <2>1, <2>5, <3>1 DEF UnitsInv, Left
  <2> QED BY <2>4, <2>5
<1>8. CASE r.kind = "associate"
  <2>1. r.target \in Associates(input, a) /\ a.group = "none" /\ a \notin Lost
    <3>1. r.target \in Associates(input, a)
      BY <1>8 DEF Associates, Linked
    <3> QED BY <1>1, <3>1, AssociateIs DEF Lost
  <2>2. q.target = r.target
    BY <1>2, <1>8 DEF Became
  <2>3. CASE a \in Left
    <3>1. r.target \in ToSet(atoms)
      BY <1>3, <2>1, <2>2, <2>3 DEF UnitsInv, Left
    <3> QED BY <1>6, <2>3, <3>1 DEF Left
  <2>4. CASE a \notin Left
    <3>1. CASE ST!IsCoalescedAway(a)
      <4>1. r.target \in deadAtoms
        BY <2>1, <3>1 DEF RedirectedInv
      <4> QED BY <2>4, <4>1 DEF Left
    <3>2. a \notin deadAtoms
      <4>1. ASSUME NEW p, a \in Associates(input, p) PROVE FALSE
        BY <1>1, <2>1, <4>1, AssociateIs
      <4> QED BY <1>4, <4>1
    <3>3. CASE ~ST!IsCoalescedAway(a)
      <4>1. a \notin ToSet(atoms)
        BY <2>4, <3>2, <3>3 DEF Left
      <4>2. Associates(input, a) \cap ToSet(atoms) = {}
        BY <1>1, <2>1, <3>3, <4>1 DEF UnitsInv
      <4> QED BY <2>1, <2>4, <4>2 DEF Left
    <3> QED BY <3>1, <3>3
  <2> QED BY <2>3, <2>4
<1> QED BY <1>7, <1>8

LEMMA LeftIsClosed ==
  ASSUME T!ChainInv, ~fatal, ReaderAssumption(input), AssociatesStayApart(input),
         RedirectedInv, KnownOnceInv, UnitsInv,
         NEW a \in Left, NEW r \in ToSet(RefsIn(refs, a))
  PROVE  r.target \in Left
<1>1. /\ RefsAreTyped(input) /\ DOMAIN refs = DOMAIN input.refs
      /\ a \in DOMAIN input.refs
  <2>1. a \notin DOMAIN refs => ToSet(RefsIn(refs, a)) = {}
    BY DEF RefsIn, ToSet
  <2> QED BY <2>1 DEF ReaderAssumption, RedirectedInv
<1>2. a \in added /\ a \in ToSet(atoms) /\ ~ST!IsCoalescedAway(a) /\ a \notin deadAtoms
  <2>1. a.definition = "regular"
    BY <1>1 DEF RefsAreTyped
  <2> QED BY <2>1, LeftIsAdded DEF FileStatic, Left
<1>3. r.target \in ToSet(atoms)
  <2>1. a \notin Lost /\ r.target \in Targets(refs, a)
    BY <1>2 DEF Lost, Targets
  <2> QED BY <1>2, <2>1 DEF UnitsInv
<1>4. PICK q \in ToSet(RefsIn(input.refs, a)) : Became(q, r) /\ q.target \in Atoms
  BY <1>1, <1>2, RefsBecame
<1>5. ~ST!IsCoalescedAway(r.target)
  <2>1. CASE q.kind = "associate"
    <3>1. r.target = q.target /\ q.target \in Associates(input, a)
      BY <1>4, <2>1 DEF Became, Associates, Linked
    <3>2. q.target \in Atoms /\ IsApart(q.target)
      BY <1>1, <3>1, AssociateIs
    <3> QED BY <3>1, <3>2, ApartStays
  <2>2. CASE q.kind # "associate"
    BY <1>4, <2>2, ReplacementEnds DEF Became
  <2> QED BY <2>1, <2>2
<1>6. r.target \notin deadAtoms
  <2>1. SUFFICES ASSUME NEW p \in added, ST!IsCoalescedAway(p), r.target \in Associates(input, p)
                 PROVE  FALSE
    BY DEF RedirectedInv
  <2>2. r.target \in Atoms /\ IsApart(r.target)
    BY <1>1, <2>1, AssociateIs
  <2>3. r.target \in Targets(refs, a)
    BY DEF Targets
  <2>4. r.target \in Targets(input.refs, a)
    BY <1>1, <1>2, <2>2, <2>3, AssociateIsMeant
  <2>5. a \in {p} \cup Associates(input, p)
    BY <1>1, <2>1, <2>4, AssociateIs
  <2> QED BY <1>2, <2>1, <2>5 DEF RedirectedInv
<1> QED
  BY <1>3, <1>5, <1>6 DEF Left

\* What is undefined in the merged file was not missing.
LEMMA LeftIsDefined ==
  ASSUME T!ChainInv, ~fatal, KnownOnceInv, LiveInv, CheckedInv,
         NEW u \in Left, u.definition = "undefined"
  PROVE  \/ u.canBeNull # 0
         \/ Has("allowRemainingUndefines")
         \/ u.file \in SharedLibraries /\ Has("allowShlibUndefines")
<1>1. u \in Atoms /\ u \in added /\ ~ST!IsCoalescedAway(u) /\ u \in ToSet(atoms)
  BY LeftIsAdded DEF FileStatic, Left
<1>2. u.name \in Names /\ u.group = "none"
  BY <1>1, TableAssumption DEF T!SymbolTableAssumption, T!AtomAssumption, T!AtomType
<1>3. nameTable[u.name] = u
  BY <1>1, <1>2, LeftIsAdded DEF T!GoesByName
<1>4. u # NoAtom
  BY <1>1, TableAssumption DEF T!SymbolTableAssumption
<1>5. u \in ST!Undefines
  BY <1>1, <1>2, <1>3, <1>4 DEF ST!Undefines
<1>6. Has("deadStrip") => u \in liveAtoms
  BY <1>1 DEF LiveInv
<1> QED
  BY <1>5, <1>6 DEF CheckedInv, MissingSymbols

LEMMA RemovalKeeps ==
  ASSUME KnownOnceInv, RemoveCoalescedAwayAtoms
  PROVE  /\ atoms' = Sublist(atoms, Left) /\ atoms' \in Seq(Atoms) /\ ToSet(atoms') = Left
         /\ ToSet(atoms)' = ToSet(atoms')
         /\ UNCHANGED <<replacedAtoms, added, refs, input>>
<1>1. /\ atoms' = Sublist(atoms, Left)
      /\ UNCHANGED <<replacedAtoms, added, refs, input>>
  BY DEF RemoveCoalescedAwayAtoms, Left, table
<1>2. atoms' \in Seq(Atoms) /\ ToSet(atoms') = Left
  <2>1. atoms \in Seq(Atoms)
    BY DEF KnownOnceInv
  <2>2. ToSet(atoms) \cap Left = Left
    BY DEF Left
  <2> HIDE DEF Left
  <2> QED BY <1>1, <2>1, <2>2, SublistHas
<1>3. ToSet(atoms)' = ToSet(atoms')
  BY DEF ToSet
<1> QED BY <1>1, <1>2, <1>3

\* What is left is there once, whatever the references are.
LEMMA RemovalIsUnique ==
  ASSUME T!ChainInv, ~fatal, KnownOnceInv, RemoveCoalescedAwayAtoms
  PROVE  ResultIsUnique'
<1>1. /\ atoms' = Sublist(atoms, Left) /\ atoms' \in Seq(Atoms) /\ ToSet(atoms') = Left
      /\ ToSet(atoms)' = ToSet(atoms')
  BY RemovalKeeps
<1>2. OnceOf(atoms', Own(Atoms))
  <2>1. atoms \in Seq(Atoms) /\ OnceOf(atoms, Own(Atoms))
    BY DEF KnownOnceInv
  <2> HIDE DEF Left
  <2> QED BY <1>1, <2>1, SublistOnce
<1>3. \A i, j \in DOMAIN atoms' :
        atoms'[i] = atoms'[j] /\ atoms'[i].file \notin SharedLibraries => i = j
  <2>1. \A i \in DOMAIN atoms' : atoms'[i] \in Atoms
    BY <1>1
  <2> QED BY <1>2, <2>1 DEF OnceOf, Own
<1>4. \A a, b \in Left :
        a.name = b.name /\ a.name # NoName /\ a.scope = "global" /\ b.scope = "global"
          /\ a.group = "none" /\ b.group = "none" => a = b
  BY LeftIsUnique
<1> HIDE DEF Left
<1> QED BY <1>1, <1>3, <1>4 DEF ResultIsUnique, Result

LEMMA RemovalIsWhole ==
  ASSUME T!ChainInv, ~fatal, ReaderAssumption(input), AssociatesStayApart(input),
         RedirectedInv, KnownOnceInv, UnitsInv, LiveInv, CheckedInv, RemoveCoalescedAwayAtoms
  PROVE  (ResultIsUnique /\ UnitsStayTogether /\ ResultIsClosed)'
<1>1. /\ atoms' = Sublist(atoms, Left) /\ atoms' \in Seq(Atoms) /\ ToSet(atoms') = Left
      /\ UNCHANGED <<replacedAtoms, added, refs, input>>
  BY RemovalKeeps
<1>2. /\ ToSet(atoms)' = ToSet(atoms')
      /\ \A f : Has(f)' <=> Has(f)
      /\ \A a : /\ ToSet(RefsIn(refs, a))' = ToSet(RefsIn(refs, a))
                /\ ToSet(RefsIn(input.refs, a))' = ToSet(RefsIn(input.refs, a))
                /\ ST!IsCoalescedAway(a)' <=> ST!IsCoalescedAway(a)
  BY <1>1 DEF ToSet, Has, RefsIn, ST!IsCoalescedAway
<1>3. ResultIsUnique'
  BY RemovalIsUnique
<1>4. UnitsStayTogether'
  <2>1. \A a \in added : \A r \in ToSet(RefsIn(input.refs, a)) :
          r.kind \in {"groupChild", "associate"} =>
            IF a \in Left THEN r.target \in Left \/ ST!IsCoalescedAway(r.target)
                          ELSE r.target \notin Left
    BY LeftIsOfUnits
  <2> HIDE DEF Left
  <2> QED BY <1>1, <1>2, <2>1 DEF UnitsStayTogether, Result
<1>5. ResultIsClosed'
  <2>1. \A a \in Left : \A r \in ToSet(RefsIn(refs, a)) :
          /\ r.target \in Left
          /\ r.target.definition = "undefined" =>
               \/ r.target.canBeNull # 0
               \/ Has("allowRemainingUndefines")
               \/ r.target.file \in SharedLibraries /\ Has("allowShlibUndefines")
    BY LeftIsClosed, LeftIsDefined
  <2> HIDE DEF Left
  <2> QED BY <1>1, <1>2, <2>1 DEF ResultIsClosed, Result
<1> QED BY <1>3, <1>4, <1>5

-----------------------------------------------------------------------------
(***************************************************************************)
(* What holds in each phase of a link.                                     *)
(***************************************************************************)

Late == {"deadStripOptimize", "checkUndefines", "removeCoalescedAwayAtoms"}

WholeInv ==
  /\ phase \in Late => ~fatal /\ RedirectedInv /\ KnownOnceInv
  /\ phase \in {"checkUndefines", "removeCoalescedAwayAtoms"} => UnitsInv /\ LiveInv
  /\ phase = "removeCoalescedAwayAtoms" => CheckedInv
  /\ ResultIsUnique /\ UnitsStayTogether /\ ResultIsClosed

LEMMA WholeUnlessDone ==
  ASSUME phase # "done"
  PROVE  ResultIsUnique /\ UnitsStayTogether /\ ResultIsClosed
  BY DEF ResultIsUnique, UnitsStayTogether, ResultIsClosed

LEMMA NextWholeInv ==
  ASSUME IInv, T!ChainInv, ReaderAssumption(input), AssociatesStayApart(input), StripInv,
         HandOverInv, WholeInv, RootsAreKnown, input.roots \subseteq Names, [Next]_vars
  PROVE  WholeInv'
<1> DEFINE Whole == ResultIsUnique /\ UnitsStayTogether /\ ResultIsClosed
<1>1. phase' # "done" => Whole'
  BY DEF ResultIsUnique, UnitsStayTogether, ResultIsClosed
<1>2. CASE UNCHANGED vars
  <2>1. /\ UNCHANGED <<nameTable, groupTable, contentTable, replacedAtoms, fatal, added>>
        /\ UNCHANGED <<atoms, refs, deadAtoms, liveAtoms, phase, input>>
    BY <1>2 DEF vars, table, output
  <2>2. /\ \A f : Has(f)' <=> Has(f)
        /\ ToSet(atoms)' = ToSet(atoms)
        /\ \A a : /\ ToSet(RefsIn(refs, a))' = ToSet(RefsIn(refs, a))
                  /\ ToSet(RefsIn(input.refs, a))' = ToSet(RefsIn(input.refs, a))
                  /\ ST!IsCoalescedAway(a)' <=> ST!IsCoalescedAway(a)
    BY <2>1 DEF ToSet, Has, RefsIn, ST!IsCoalescedAway
  <2>3. RedirectedInv => RedirectedInv'
    BY <2>1, RedirectedStays
  <2>4. KnownOnceInv => KnownOnceInv'
    BY <2>1, <2>2 DEF KnownOnceInv, OnceOf, Own, FileStatic
  <2>5. UnitsInv => UnitsInv'
    BY <2>1, UnitsStay
  <2>6. LiveInv => LiveInv'
    BY <2>1, <2>2 DEF LiveInv
  <2>7. CheckedInv => CheckedInv'
    BY <2>1, <2>2 DEF CheckedInv, MissingSymbols, ST!Undefines
  <2>8. Whole => Whole'
    BY <2>1, <2>2 DEF ResultIsUnique, UnitsStayTogether, ResultIsClosed, Result
  <2> QED
    BY <2>1, <2>3, <2>4, <2>5, <2>6, <2>7, <2>8 DEF WholeInv
<1>3. CASE Next /\ phase = "files" /\ ~fatal
  <2>1. phase' \in {"files", "updateReferences", "failed"}
    BY <1>3, FilesGather DEF StripInv
  <2>2. phase' \notin Late /\ phase' # "done"
    BY <2>1 DEF Late
  <2> QED BY <1>1, <2>1, <2>2 DEF WholeInv
<1>4. CASE UpdateReferences
  <2>1. /\ GatherInv /\ OnceInv /\ ~fatal
        /\ phase' = "deadStripOptimize" /\ fatal' = fatal
    BY <1>4 DEF UpdateReferences, At, StripInv, HandOverInv, table
  <2>2. RedirectedInv' /\ KnownOnceInv'
    BY <1>4, <2>1, UpdateRedirects
  <2> QED BY <1>1, <2>1, <2>2 DEF WholeInv
<1>5. CASE DeadStripOptimize
  <2>1. /\ SettledInv /\ RedirectedInv /\ KnownOnceInv /\ ~fatal
        /\ phase = "deadStripOptimize" /\ phase' = "checkUndefines" /\ fatal' = fatal
    BY <1>5 DEF DeadStripOptimize, At, StripInv, WholeInv, Late, table
  <2>2. RedirectedInv' /\ KnownOnceInv' /\ UnitsInv' /\ LiveInv'
    BY <1>5, <2>1, StripUnits
  <2> QED BY <1>1, <2>1, <2>2 DEF WholeInv
<1>6. CASE CheckUndefines
  <2>1. /\ RedirectedInv /\ KnownOnceInv /\ UnitsInv /\ LiveInv /\ ~fatal
        /\ phase' = IF MissingSymbols # {} /\ ~Has("allowRemainingUndefines")
                      THEN "failed" ELSE "removeCoalescedAwayAtoms"
        /\ UNCHANGED <<nameTable, replacedAtoms, fatal, added, atoms, refs, deadAtoms, liveAtoms, input>>
    BY <1>6 DEF CheckUndefines, At, WholeInv, Late, table
  <2>2. CASE phase' = "failed"
    BY <1>1, <2>2 DEF WholeInv, Late
  <2>3. CASE phase' = "removeCoalescedAwayAtoms"
    <3>1. CheckedInv
      BY <2>1, <2>3 DEF CheckedInv
    <3>2. /\ \A f : Has(f)' <=> Has(f)
          /\ ToSet(atoms)' = ToSet(atoms)
          /\ \A a : ST!IsCoalescedAway(a)' <=> ST!IsCoalescedAway(a)
      BY <2>1 DEF ToSet, Has, ST!IsCoalescedAway
    <3>3. CheckedInv' /\ LiveInv'
      BY <2>1, <3>1, <3>2 DEF CheckedInv, MissingSymbols, ST!Undefines, LiveInv
    <3>4. KnownOnceInv'
      BY <2>1, <3>2 DEF KnownOnceInv, OnceOf, Own, FileStatic
    <3>5. RedirectedInv' /\ UnitsInv'
      BY <2>1, RedirectedStays, UnitsStay
    <3> QED BY <1>1, <2>1, <2>3, <3>3, <3>4, <3>5 DEF WholeInv
  <2> QED BY <2>1, <2>2, <2>3
<1>7. CASE RemoveCoalescedAwayAtoms
  <2>1. /\ ~fatal /\ RedirectedInv /\ KnownOnceInv /\ UnitsInv /\ LiveInv /\ CheckedInv
        /\ phase' = "done"
    BY <1>7 DEF RemoveCoalescedAwayAtoms, At, WholeInv, Late
  <2>2. Whole'
    BY <1>7, <2>1, RemovalIsWhole
  <2> QED BY <2>1, <2>2 DEF WholeInv, Late
<1> QED
  BY <1>2, <1>3, <1>4, <1>5, <1>6, <1>7, LateSteps

\* What needs no assumption on associates: in every phase each atom is there once.
UniqueInv ==
  /\ phase \in Late => ~fatal /\ KnownOnceInv
  /\ ResultIsUnique

LEMMA NextUniqueInv ==
  ASSUME IInv, T!ChainInv, ReaderAssumption(input), StripInv, HandOverInv, UniqueInv,
         RootsAreKnown, input.roots \subseteq Names, [Next]_vars
  PROVE  UniqueInv'
<1>1. phase' # "done" => ResultIsUnique'
  BY DEF ResultIsUnique
<1>2. CASE UNCHANGED vars
  <2>1. UNCHANGED <<fatal, added, atoms, phase>>
    BY <1>2 DEF vars, table, output
  <2>2. KnownOnceInv => KnownOnceInv'
    BY <2>1 DEF KnownOnceInv, OnceOf, Own, FileStatic, ToSet
  <2>3. ResultIsUnique'
    BY <2>1 DEF UniqueInv, ResultIsUnique, Result, ToSet
  <2> QED BY <2>1, <2>2, <2>3 DEF UniqueInv, Late
<1>3. CASE Next /\ phase = "files" /\ ~fatal
  <2>1. phase' \in {"files", "updateReferences", "failed"}
    BY <1>3, FilesGather DEF StripInv
  <2> QED BY <1>1, <2>1 DEF UniqueInv, Late
<1>4. CASE UpdateReferences
  <2>1. /\ GatherInv /\ OnceInv /\ ~fatal
        /\ phase' = "deadStripOptimize" /\ fatal' = fatal
    BY <1>4 DEF UpdateReferences, At, StripInv, HandOverInv, table
  <2>2. KnownOnceInv'
    BY <1>4, <2>1, UpdateRedirects
  <2> QED BY <1>1, <2>1, <2>2 DEF UniqueInv
<1>5. CASE DeadStripOptimize
  <2>1. /\ SettledInv /\ KnownOnceInv /\ ~fatal
        /\ phase = "deadStripOptimize" /\ phase' = "checkUndefines" /\ fatal' = fatal
    BY <1>5 DEF DeadStripOptimize, At, StripInv, UniqueInv, Late, table
  <2>2. KnownOnceInv'
    BY <1>5, <2>1, StripOnce
  <2> QED BY <1>1, <2>1, <2>2 DEF UniqueInv
<1>6. CASE CheckUndefines
  <2>1. /\ KnownOnceInv /\ ~fatal /\ phase' \in {"failed", "removeCoalescedAwayAtoms"}
        /\ UNCHANGED <<fatal, added, atoms>>
    BY <1>6 DEF CheckUndefines, At, UniqueInv, Late, table
  <2>2. KnownOnceInv'
    BY <2>1 DEF KnownOnceInv, OnceOf, Own, FileStatic, ToSet
  <2> QED BY <1>1, <2>1, <2>2 DEF UniqueInv
<1>7. CASE RemoveCoalescedAwayAtoms
  <2>1. ~fatal /\ KnownOnceInv /\ phase' = "done"
    BY <1>7 DEF RemoveCoalescedAwayAtoms, At, UniqueInv, Late
  <2>2. ResultIsUnique'
    BY <1>7, <2>1, RemovalIsUnique
  <2> QED BY <2>1, <2>2 DEF UniqueInv, Late
<1> QED
  BY <1>2, <1>3, <1>4, <1>5, <1>6, <1>7, LateSteps

-----------------------------------------------------------------------------
(***************************************************************************)
(* The types, which hold after a fatal error as well.                      *)
(***************************************************************************)

KindsInv ==
  /\ seen \subseteq Files /\ newUndefinesAdded \subseteq Files
  /\ search \in {"none", "undefines", "tentative"}
  /\ ToSet(atoms) \cup deadStripRoots \cup deadAtoms \cup liveAtoms \subseteq Atoms

\* The steps of the walk and of the search, and those that hand over an atom.
LEMMA WalkKinds ==
  ASSUME IInv, KindsInv, Next, phase = "files", ~fatal
  PROVE  /\ seen' \subseteq Files /\ newUndefinesAdded' \subseteq Files
         /\ search' \in {"none", "undefines", "tentative"}
         /\ deadAtoms' = deadAtoms
<1>0. /\ seen \subseteq Files /\ newUndefinesAdded \subseteq Files
      /\ search \in {"none", "undefines", "tentative"}
      /\ file \in Files \cup {NoFile}
  BY DEF KindsInv, IInv, ListInv
<1>1. CASE \/ GroupAgain \/ GroupLeave \/ LastFile \/ \E f \in Files : ParseFails(f)
  BY <1>0, <1>1 DEF GroupAgain, GroupLeave, LastFile, ParseFails, walk, work, output
<1>2. CASE LeaveFile
  BY <1>0, <1>2 DEF LeaveFile, work, output
<1>3. CASE \E f \in Files : VisitObject(f) \/ VisitLibrary(f)
  BY <1>0, <1>3 DEF VisitObject, VisitLibrary, output
<1>4. CASE \/ SkipUndefine \/ SearchTentatives \/ SearchAgain \/ SearchEnds
  BY <1>0, <1>4 DEF SkipUndefine, SearchTentatives, SearchAgain, SearchEnds, walk, output
<1>5. CASE SearchUndefine \/ \E n \in Names : SearchTentative(n)
  BY <1>0, <1>5 DEF SearchUndefine, SearchTentative, output
<1>6. CASE \E a \in Atoms : \/ DoDefinedAtom(a)
                            \/ DoGroupParent(a)
                            \/ DoGroupChild(a)
                            \/ DoUndefinedAtom("undefined", a)
                            \/ DoUndefinedAtom("fallback", a)
                            \/ AddReplacement(a)
                            \/ DoSharedLibraryAtom(a)
                            \/ DoAbsoluteAtom(a)
  BY <1>0, <1>6
  DEF DoDefinedAtom, DoGroupParent, DoGroupChild, DoUndefinedAtom, AddReplacement,
      DoSharedLibraryAtom, DoAbsoluteAtom, Known, walk, output
<1>7. ~(UpdateReferences \/ DeadStripOptimize \/ CheckUndefines \/ RemoveCoalescedAwayAtoms)
  BY DEF UpdateReferences, DeadStripOptimize, CheckUndefines, RemoveCoalescedAwayAtoms, At
<1>8. ~Finished
  BY DEF Finished
<1> QED
  BY <1>1, <1>2, <1>3, <1>4, <1>5, <1>6, <1>7, <1>8 DEF Next

LEMMA NextKindsInv ==
  ASSUME IInv, T!ChainInv, ReaderAssumption(input), StripInv, UniqueInv, KindsInv,
         RootsAreKnown, input.roots \subseteq Names, [Next]_vars
  PROVE  KindsInv'
<1>0. added' \subseteq Atoms /\ added \subseteq Atoms
  <2>1. T!NameInv'
    BY NextIInv DEF IInv
  <2> QED BY <2>1 DEF IInv, T!NameInv, T!TypeOK
<1>1. CASE UNCHANGED vars
  BY <1>1 DEF KindsInv, ToSet, vars, walk, work, output
<1>2. CASE Next /\ phase = "files" /\ ~fatal
  <2>1. GatherInv'
    BY <1>2, FilesGather DEF StripInv
  <2>2. ToSet(atoms') \subseteq Atoms /\ deadStripRoots' \subseteq added' /\ liveAtoms' = {}
    BY <2>1, ToSetOfSeq DEF GatherInv, RootsInv
  <2>3. ToSet(atoms)' = ToSet(atoms')
    BY DEF ToSet
  <2> QED BY <1>0, <1>2, <2>2, <2>3, WalkKinds DEF KindsInv
<1>3. CASE UpdateReferences
  <2>1. /\ refs = input.refs /\ RefsAreTyped(input)
        /\ UNCHANGED <<seen, newUndefinesAdded, search, atoms, deadStripRoots, liveAtoms>>
        /\ deadAtoms' =
             UNION {{r.target : r \in {q \in ToSet(RefsIn(refs, a)) : q.kind = "associate"}} :
                      a \in {b \in ToSet(atoms) : ST!IsCoalescedAway(b)}}
    BY <1>3 DEF UpdateReferences, At, StripInv, GatherInv, ReaderAssumption, walk, work
  <2>2. \A a : Targets(refs, a) \subseteq Atoms
    <3>1. RefsAreTyped([refs |-> refs])
      BY <2>1 DEF RefsAreTyped
    <3> QED BY <3>1, TargetsAreAtoms
  <2>3. deadAtoms' \subseteq Atoms
    BY <2>1, <2>2 DEF Targets
  <2> QED BY <2>1, <2>3 DEF KindsInv, ToSet
<1>4. CASE DeadStripOptimize
  <2>1. /\ UNCHANGED <<seen, newUndefinesAdded, search, deadStripRoots, deadAtoms>>
        /\ SettledInv /\ phase = "deadStripOptimize"
    BY <1>4 DEF DeadStripOptimize, At, StripInv, walk, work
  <2>2. ToSet(atoms') \subseteq Atoms /\ liveAtoms' \subseteq Atoms
    <3>1. CASE Has("deadStrip")
      <4>1. T!NameInv
        BY DEF IInv
      <4> QED BY <1>4, <2>1, <3>1, <4>1, LiveIsKnown DEF KindsInv
    <3>2. CASE ~Has("deadStrip")
      BY <1>4, <3>2 DEF DeadStripOptimize, KindsInv, ToSet
    <3> QED BY <3>1, <3>2
  <2>3. ToSet(atoms)' = ToSet(atoms')
    BY DEF ToSet
  <2> QED BY <2>1, <2>2, <2>3 DEF KindsInv
<1>5. CASE CheckUndefines
  BY <1>5 DEF CheckUndefines, KindsInv, ToSet, walk, work
<1>6. CASE RemoveCoalescedAwayAtoms
  <2>1. /\ UNCHANGED <<seen, newUndefinesAdded, search, deadStripRoots, deadAtoms, liveAtoms>>
        /\ atoms' = Sublist(atoms, Left) /\ atoms \in Seq(Atoms)
    BY <1>6 DEF RemoveCoalescedAwayAtoms, At, UniqueInv, Late, KnownOnceInv, Left, walk, work
  <2> HIDE DEF Left
  <2>2. ToSet(atoms') \subseteq Atoms
    BY <2>1, SublistHas, ToSetOfSeq
  <2>3. ToSet(atoms)' = ToSet(atoms')
    BY DEF ToSet
  <2> QED BY <2>1, <2>2, <2>3 DEF KindsInv
<1> QED
  BY <1>1, <1>2, <1>3, <1>4, <1>5, <1>6, LateSteps

-----------------------------------------------------------------------------
(***************************************************************************)
(* The theorem.                                                            *)
(***************************************************************************)

LEMMA InitWholeInv == Init => UniqueInv /\ WholeInv
<1> SUFFICES ASSUME Init PROVE UniqueInv /\ WholeInv
  OBVIOUS
<1>1. phase = "files"
  BY DEF Init
<1> QED
  BY <1>1, WholeUnlessDone DEF UniqueInv, WholeInv, Late

LEMMA InitKindsInv == Init => KindsInv
  BY DEF Init, KindsInv, ToSet

LEMMA StateIsTyped ==
  ASSUME IInv, WalkInv, HandOverInv, KindsInv
  PROVE  TypeOK
<1>1. ST!TypeOK
  <2>1. T!TypeOK
    BY DEF IInv, T!NameInv
  <2> QED
    BY <2>1 DEF ST!TypeOK, T!TypeOK, ST!IsCoalescedAway, T!IsCoalescedAway
<1>2. index \in 1 .. Len(nodes) + 1
  BY DEF WalkInv
<1>3. /\ file \in Files \cup {NoFile}
      /\ pos \in 1 .. Len(undefines) + 1
      /\ undefineIndex \in [Files -> 1 .. Len(undefines) + 1]
      /\ undefines \in Seq(Names \cup {NoName})
  BY DEF IInv, ListInv
<1>4. ToSet(undefines) \subseteq Names \cup {NoName}
  BY <1>3, ToSetOfSeq
<1>5. instantiated \subseteq Files
  BY DEF HandOverInv, FilesInv, Members
<1> QED
  BY <1>1, <1>2, <1>3, <1>4, <1>5 DEF TypeOK, KindsInv

LinkInv ==
  /\ DriverInv /\ T!ChainInv /\ ReaderAssumption(input)
  /\ StripInv /\ HandOverInv /\ UniqueInv /\ KindsInv

LEMMA InitLinkInv ==
  ASSUME NEW CONSTANT rank, T!FallbacksLeadUp(rank)
  PROVE  Init => LinkInv
<1>1. Init => T!ChainInv
  BY TableInit, SameInit, TableAssumption, T!InitChainInv
<1>2. Init => ReaderAssumption(input)
  BY ReadersAssumption DEF Init
<1> QED
  BY <1>1, <1>2, InitIInv, InitWalkInv, InitStripInv, InitHandOverInv, InitWholeInv, InitKindsInv
  DEF LinkInv, DriverInv

LEMMA NextLinkInv ==
  ASSUME NEW CONSTANT rank, T!FallbacksLeadUp(rank), LinkInv, [Next]_vars
  PROVE  LinkInv'
<1>1. DriverInv'
  BY NextIInv, NextWalkInv DEF LinkInv, DriverInv
<1>2. T!ChainInv'
  BY TableStep, SameStep, TableAssumption, T!NextChainInv DEF LinkInv
<1>3. ReaderAssumption(input)'
  <2>1. input' = input
    BY TableStep
  <2> QED BY <2>1 DEF LinkInv
<1>4. IInv /\ WalkInv /\ RootsAreKnown /\ input.roots \subseteq Names
  BY DEF LinkInv, DriverInv, WalkInv, RootsAreKnown
<1>5. StripInv'
  BY <1>4, NextStripInv DEF LinkInv
<1>6. HandOverInv'
  BY <1>4, NextHandOverInv DEF LinkInv
<1>7. UniqueInv'
  BY <1>4, NextUniqueInv DEF LinkInv
<1>8. KindsInv'
  BY <1>4, NextKindsInv DEF LinkInv
<1> QED BY <1>1, <1>2, <1>3, <1>5, <1>6, <1>7, <1>8 DEF LinkInv

\* Whatever the references of the input are, if its weak externals do not fall
\* back on each other in a circle: the variables have their types throughout, no
\* atom that is not of a shared library is twice in the merged file, and no two
\* global ones have one name. (resolveUndefines, the files that are handled
\* once, and removeCoalescedAwayAtoms.)
THEOREM MergedFileIsUniqueInEveryLink ==
  ASSUME NEW CONSTANT rank, T!FallbacksLeadUp(rank)
  PROVE  Spec => [](TypeOK /\ ResultIsUnique)
<1>1. Init => LinkInv
  BY InitLinkInv
<1>2. LinkInv /\ [Next]_vars => LinkInv'
  BY NextLinkInv
<1>3. LinkInv => TypeOK /\ ResultIsUnique
  BY StateIsTyped DEF LinkInv, DriverInv, UniqueInv
<1> QED
  BY <1>1, <1>2, <1>3, PTL DEF Spec

\* The merged file is whole in every link whose weak externals do not fall back
\* on each other in a circle and whose COFF associates stay with their unit: each
\* definition is there once, what one atom must have with it is there or gone
\* with it, and every reference is to an atom of the file, which is defined
\* unless it may be null or the options allow otherwise.
THEOREM MergedFileIsWholeInEveryLink ==
  ASSUME NEW CONSTANT rank, T!FallbacksLeadUp(rank),
         \A family \in Inputs : \A link \in family : AssociatesStayApart(link)
  PROVE  Spec => []ResultIsWhole
<1> DEFINE SInv == LinkInv /\ AssociatesStayApart(input) /\ WholeInv
<1>1. Init => SInv
  <2>1. Init => AssociatesStayApart(input)
    BY DEF Init
  <2> QED BY <2>1, InitLinkInv, InitWholeInv
<1>2. SInv /\ [Next]_vars => SInv'
  <2> SUFFICES ASSUME SInv, [Next]_vars PROVE SInv'
    OBVIOUS
  <2>1. LinkInv'
    BY NextLinkInv
  <2>2. AssociatesStayApart(input)'
    <3>1. input' = input
      BY TableStep
    <3> QED BY <3>1
  <2>3. IInv /\ RootsAreKnown /\ input.roots \subseteq Names
    BY DEF LinkInv, DriverInv, WalkInv, RootsAreKnown
  <2>4. WholeInv'
    BY <2>3, NextWholeInv DEF LinkInv
  <2> QED BY <2>1, <2>2, <2>4
<1>3. SInv => ResultIsWhole
  BY StateIsTyped DEF LinkInv, DriverInv, WholeInv, ResultIsWhole
<1> QED
  BY <1>1, <1>2, <1>3, PTL DEF Spec
=============================================================================
