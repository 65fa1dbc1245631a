------------------------------ MODULE Resolver ------------------------------
(***************************************************************************)
(* The resolver of the core linker (lib/Core/Resolver.cpp): it walks the   *)
(* input nodes, hands the atoms of each file to the symbol table, loads    *)
(* archive members for what is undefined, repeats a group while that adds  *)
(* undefined symbols, and at last redirects the references, strips dead    *)
(* atoms, reports what is undefined and drops what was coalesced away.     *)
(*                                                                         *)
(* One step hands one atom to the symbol table (module SymbolTable). What  *)
(* the call stack of the code still has to do for the file at hand is the  *)
(* sequence todo, so that the recursion of doUndefinedAtom into a fallback *)
(* and the loop over the children of a section group are steps as well.    *)
(*                                                                         *)
(* An input is a record:                                                   *)
(*   nodes  the sequence of FileNodes [file |-> f] and GroupEnds           *)
(*          [groupEnd |-> size, files |-> s] of the linking context, s     *)
(*          being the set of files that the group really has               *)
(*   file   for every file its kind, whether parsing fails (broken), the   *)
(*          sequences defined, undefined, sharedLibrary and absolute, for  *)
(*          an archive the member of each name (symbols) and the names     *)
(*          that are data symbols (data), for a shared library the atom of *)
(*          each name (exports), and the libraries that its directives     *)
(*          name (directives)                                              *)
(*   refs   the sequence of references [kind, target] of the atoms that     *)
(*          have any                                                       *)
(*   never  the atoms that are deadStripNever                              *)
(*   roots  LinkingContext::deadStripRoots(), names                        *)
(*   flags  the options of the linking context that are set                *)
(***************************************************************************)
EXTENDS Naturals, FiniteSets, SequencesExt

CONSTANTS Atoms, Names, Contents, NoName, NoAtom,
          SharedLibraries,  \* as in SymbolTable
          Files,            \* the input files and the archive members
          NoFile,
          Inputs            \* families of inputs a behaviour may start from

VARIABLES nameTable, groupTable, contentTable, replacedAtoms, fatal, added,
  input,              \* the input of this link, but for its nodes
  nodes,              \* LinkingContext::getNodes()
  index,              \* of resolveUndefines: the node to visit next
  file,               \* the node's file that is being handled, or NoFile
  todo,               \* the calls pending in handleFile
  search,             \* forEachUndefines: "none", "undefines" or "tentative"
  pos,                \* its i
  tentative,          \* the tentative definitions it has yet to visit
  undefAdded,         \* of handleFile / handleArchiveFile
  newUndefinesAdded,  \* _newUndefinesAdded, the files mapped to true
  seen,               \* of resolveUndefines: the object files handled
  instantiated,       \* FileArchive::_membersInstantiated
  undefines,          \* _undefines
  undefineIndex,      \* _undefineIndex
  atoms,              \* _atoms
  deadStripRoots,     \* _deadStripRoots
  refs,               \* the references of the atoms
  liveAtoms,          \* _liveAtoms
  deadAtoms,          \* _deadAtoms
  phase               \* where resolve() is, "failed" or "done"

table == <<nameTable, groupTable, contentTable, replacedAtoms, fatal, added>>
walk == <<nodes, index, file, seen, newUndefinesAdded>>
work == <<todo, search, pos, tentative, undefAdded, instantiated, undefines,
          undefineIndex>>
output == <<atoms, deadStripRoots, refs, liveAtoms, deadAtoms, phase>>
vars == <<table, walk, work, output, input>>

Has(flag) == flag \in input.flags

\* The elements of s that are in S, in their order.
Sublist(s, S) ==
  LET upTo[i \in 0 .. Len(s)] ==
        IF i = 0 THEN <<>>
        ELSE IF s[i] \in S THEN Append(upTo[i - 1], s[i]) ELSE upTo[i - 1]
  IN  upTo[Len(s)]

\* The references of an atom; most atoms have none.
RefsIn(references, a) == IF a \in DOMAIN references THEN references[a] ELSE <<>>

ST == INSTANCE SymbolTable WITH allowDuplicates <- Has("allowDuplicates")

\* What the table assumes of the atoms; that a file has sequences of atoms; that
\* an archive finds its members; and that SharedLibraryFile::exports answers with
\* an atom of the name it was asked for.
LinkAssumption(link) ==
  \A f \in Files :
    LET content == link.file[f] IN
    /\ {content.defined, content.undefined, content.sharedLibrary, content.absolute}
         \subseteq Seq(Atoms)
    /\ \A n \in Names :
         /\ content.symbols[n] \in Files \cup {NoFile}
         /\ content.exports[n] # NoAtom =>
              content.exports[n].definition = "sharedLibrary" /\ content.exports[n].name = n

ASSUME ResolverAssumption ==
  /\ ST!SymbolTableAssumption
  /\ NoFile \notin Files
  /\ \A family \in Inputs : \A link \in family : LinkAssumption(link)

\* The atoms that an atom refers to by references of some kinds.
Linked(references, a, kinds) ==
  {r.target : r \in {q \in ToSet(RefsIn(references, a)) : q.kind \in kinds}}

Targets(references, a) == {r.target : r \in ToSet(RefsIn(references, a))}
GroupChildren(link, p) == Linked(link.refs, p, {"groupChild"})
Associates(link, a) == Linked(link.refs, a, {"associate"})

AtomsOf(content) ==
  ToSet(content.defined) \cup ToSet(content.undefined)
    \cup ToSet(content.sharedLibrary) \cup ToSet(content.absolute)

\* Only defined atoms have references.
RefsAreTyped(link) ==
  /\ IsFiniteSet(DOMAIN link.refs)
  /\ \A a \in DOMAIN link.refs :
       /\ a \in Atoms /\ a.definition = "regular"
       /\ link.refs[a] \in Seq([kind : STRING, target : Atoms])

\* A reference leads to an atom of the same file. Atoms outside of a group reach
\* its children through an undefined atom (redirectReferenceUsingUndefAtom).
FilesAreClosed(link) ==
  \A f \in Files : \A a \in AtomsOf(link.file[f]) :
    /\ \A r \in ToSet(RefsIn(link.refs, a)) :
         r.kind # "groupChild" => r.target \in AtomsOf(link.file[f])
    /\ \A c \in GroupChildren(link, a) :
         Targets(link.refs, c) \subseteq AtomsOf(link.file[f]) \cup GroupChildren(link, a)

\* The parent of a group refers to its children and to nothing else. A child has
\* one parent and is not among the atoms of the file (ELFFile.h leaves it out).
\* Neither is a root of dead stripping: the atoms of ELF files, which have groups,
\* are deadStripNormal, and only Mach-O links, which have none, and the tests of
\* the core driver take the globals as roots. Associates are of COFF files.
GroupsAreWhole(link) ==
  \A p \in DOMAIN link.refs :
    /\ p.group # "none" =>
         /\ Targets(link.refs, p) = GroupChildren(link, p)
         /\ p \notin link.never
         /\ "globalsAreDeadStripRoots" \in link.flags => p.scope # "global"
    /\ \A t \in Associates(link, p) : t.group = "none"
    /\ \A c \in GroupChildren(link, p) :
         /\ p.group # "none"
         /\ c.definition = "regular" /\ c.group = "none" /\ c \notin link.never
         /\ \A f \in Files : c \notin AtomsOf(link.file[f])
         /\ \A q \in DOMAIN link.refs : c \in GroupChildren(link, q) => q = p

\* The class of atom that each call takes; that a child of a group is a
\* DefinedAtom is asserted.
Takes == [defined |-> "regular", groupChild |-> "regular", undefined |-> "undefined",
          fallback |-> "undefined", replace |-> "undefined",
          sharedLibrary |-> "sharedLibrary", absolute |-> "absolute"]

Lists == {"defined", "undefined", "sharedLibrary", "absolute"}

\* createUndefinedAtoms (ReaderCOFF.cpp) makes the fallback of a weak external
\* anew, and does not put it into the list of the file.
Fallbacks == {u.fallback : u \in Atoms}

FallbacksAreOwned ==
  \A u, v \in Atoms : u.fallback # NoAtom =>
    u.fallback.file = u.file /\ (v.fallback = u.fallback => v = u)

\* An atom is of one file and comes from one place: a list of the file, where it
\* is once, or the parent of its group. A shared library exports its own atoms.
AtomsAreOwned(link) ==
  /\ \A f \in Files :
       LET content == link.file[f] IN
       /\ \A list \in Lists :
            IsInjective(content[list])
              /\ \A a \in ToSet(content[list]) : a.definition = Takes[list]
       /\ \A a \in AtomsOf(content) : a.file = f /\ a \notin Fallbacks
       /\ \A n \in Names : content.exports[n] # NoAtom =>
            content.exports[n].file \in SharedLibraries
       /\ content.kind = "sharedLibrary" => f \in SharedLibraries
  /\ \A p \in DOMAIN link.refs : \A i, j \in DOMAIN link.refs[p] :
       LET r == link.refs[p][i] IN
       r.kind = "groupChild" =>
         r.target.file = p.file /\ (link.refs[p][j] = r => i = j)

\* What the readers make of the files they read.
ReaderAssumption(link) ==
  /\ RefsAreTyped(link)
  /\ FilesAreClosed(link)
  /\ GroupsAreWhole(link)
  /\ AtomsAreOwned(link)
  /\ \A a \in link.never : a.definition = "regular"

ASSUME ReadersAssumption ==
  /\ FallbacksAreOwned
  /\ \A family \in Inputs : \A link \in family : ReaderAssumption(link)

\* What the theorem on units asks of COFF associates (associative COMDAT sections),
\* and the reader does not enforce: an associate has no name outside of its file,
\* only its unit refers to it, it is a section of one atom and has no associates.
AssociatesStayApart(link) ==
  \A p \in DOMAIN link.refs : \A t \in Associates(link, p) :
    LET unit == {p} \cup Associates(link, p) IN
    /\ t.definition = "regular" /\ t.scope = "translationUnit"
    /\ t.merge # "byContent" /\ t.group = "none" /\ p.group = "none"
    /\ t \notin link.never
    /\ Associates(link, t) = {}
    /\ Linked(link.refs, t, {"layoutAfter", "groupChild"}) \subseteq unit
    /\ \A q \in DOMAIN link.refs : t \in Targets(link.refs, q) => q \in unit

IsFileNode(node) == "file" \in DOMAIN node

\* What the drivers make of the command line: a group has the nodes before its end,
\* and there is a group to add libraries to when a file may name some.
NodesAreTyped(ns, content) ==
  /\ ns \in Seq([file : Files] \cup [groupEnd : Nat, files : SUBSET Files])
  /\ \A i \in DOMAIN ns : ~IsFileNode(ns[i]) => ns[i].groupEnd < i
  /\ \A f \in Files :
       /\ content[f].directives \in Seq(Files)
       /\ content[f].directives # <<>> => \E i \in DOMAIN ns : ~IsFileNode(ns[i])

NodeFiles(ns) == {ns[i].file : i \in {j \in DOMAIN ns : IsFileNode(ns[j])}}

Members(link) == {m \in Files : \E f \in Files, n \in Names : link.file[f].symbols[n] = m}

\* The file of an archive member is made by the archive: no node has it, and no
\* directive names it.
MembersAreInside(link) ==
  /\ Members(link) \cap NodeFiles(link.nodes) = {}
  /\ \A f \in Files : Members(link) \cap ToSet(link.file[f].directives) = {}

NamesIt(a, n) == ST!GoesByName(a) /\ a.name = n

\* An object file has an atom for each root of dead stripping: the context makes
\* one for the entry point, for -u and for the exported symbols, and the COFF
\* reader for the names of /include.
Holds(content, n) ==
  /\ content.kind = "object"
  /\ \E a \in ToSet(content.defined) \cup ToSet(content.undefined) : NamesIt(a, n)

RootsAreInFiles(link) ==
  /\ link.roots \subseteq Names
  /\ \A n \in link.roots : \E i \in DOMAIN link.nodes :
       IsFileNode(link.nodes[i]) /\ Holds(link.file[link.nodes[i].file], n)

ASSUME DriversAssumption ==
  \A family \in Inputs : \A link \in family :
    /\ NodesAreTyped(link.nodes, link.file)
    /\ MembersAreInside(link)
    /\ RootsAreInFiles(link)

Init ==
  /\ \E family \in Inputs : input \in family
  /\ ST!Init
  /\ nodes = input.nodes
  /\ index = 1
  /\ file = NoFile
  /\ todo = <<>>
  /\ search = "none"
  /\ pos = 1
  /\ tentative = {}
  /\ undefAdded = FALSE
  /\ newUndefinesAdded = {}
  /\ seen = {}
  /\ instantiated = {}
  /\ undefines = <<>>
  /\ undefineIndex = [f \in Files |-> 1]
  /\ atoms = <<>>
  /\ deadStripRoots = {}
  /\ refs = input.refs
  /\ liveAtoms = {}
  /\ deadAtoms = {}
  /\ phase = "files"

-----------------------------------------------------------------------------
(***************************************************************************)
(* The walk over the input nodes.                                          *)
(***************************************************************************)

Walking == phase = "files" /\ ~fatal /\ file = NoFile

\* Mutant: any file of the link counts, of the group or not.
UndefinesAddedAnywhere(begin, end) == newUndefinesAdded # {}

\* undefinesAdded(): one of the nodes is a file that has created an undefined
\* symbol when it was last visited.
UndefinesAdded(begin, end) ==
  \E i \in begin .. end - 1 :
    IsFileNode(nodes[i]) /\ nodes[i].file \in newUndefinesAdded

\* Mutant: the walk goes back one node too far.
GroupAgainTooFar ==
  /\ Walking
  /\ index <= Len(nodes)
  /\ ~IsFileNode(nodes[index])
  /\ UndefinesAdded(index - nodes[index].groupEnd, index)
  /\ index' = index - nodes[index].groupEnd - 1
  /\ UNCHANGED <<table, nodes, file, seen, newUndefinesAdded, work, output, input>>

\* getFile() at the end of a group. Its size is used as a distance in nodes.
GroupAgain ==
  /\ Walking
  /\ index <= Len(nodes)
  /\ ~IsFileNode(nodes[index])
  /\ UndefinesAdded(index - nodes[index].groupEnd, index)
  /\ index' = index - nodes[index].groupEnd
  /\ UNCHANGED <<table, nodes, file, seen, newUndefinesAdded, work, output, input>>

GroupLeave ==
  /\ Walking
  /\ index <= Len(nodes)
  /\ ~IsFileNode(nodes[index])
  /\ ~UndefinesAdded(index - nodes[index].groupEnd, index)
  /\ index' = index + 1
  /\ UNCHANGED <<table, nodes, file, seen, newUndefinesAdded, work, output, input>>

\* Mutant: the size of the group is not increased.
AddLibraryFileSameSize(ns, f) ==
  LET end == CHOOSE i \in 1 .. Len(ns) :
               ~IsFileNode(ns[i]) /\ \A j \in 1 .. i - 1 : IsFileNode(ns[j])
  IN  IF \E i \in 1 .. Len(ns) : IsFileNode(ns[i]) /\ ns[i].file = f
        THEN ns
        ELSE [InsertAt(ns, end, [file |-> f]) EXCEPT ![end + 1].files = @ \cup {f}]

\* PECOFFLinkingContext::addLibraryFile puts a library that a .drectve section
\* names at the end of the first group; a library is added only once.
AddLibraryFile(ns, f) ==
  LET end == CHOOSE i \in 1 .. Len(ns) :
               ~IsFileNode(ns[i]) /\ \A j \in 1 .. i - 1 : IsFileNode(ns[j])
  IN  IF \E i \in 1 .. Len(ns) : IsFileNode(ns[i]) /\ ns[i].file = f
        THEN ns
        ELSE [InsertAt(ns, end, [file |-> f]) EXCEPT ![end + 1].groupEnd = @ + 1,
                                                    ![end + 1].files = @ \cup {f}]

\* beforeLink() of a file: it adds the libraries its directives name.
BeforeLink(f) ==
  LET libraries == input.file[f].directives
      with[i \in 0 .. Len(libraries)] ==
        IF i = 0 THEN nodes ELSE AddLibraryFile(with[i - 1], libraries[i])
  IN  with[Len(libraries)]

Calls(op, as) == [i \in 1 .. Len(as) |-> [op |-> op, atom |-> as[i]]]

\* handleFile(): the order in which it hands over the atoms of a file.
HandleFile(f) ==
  LET content == input.file[f] IN
  Calls("defined", content.defined) \o Calls("undefined", content.undefined)
    \o Calls("sharedLibrary", content.sharedLibrary)
    \o Calls("absolute", content.absolute)

AtFile(f) ==
  /\ Walking
  /\ index <= Len(nodes)
  /\ IsFileNode(nodes[index])
  /\ f = nodes[index].file

ParseFails(f) ==
  /\ AtFile(f)
  /\ input.file[f].broken
  /\ phase' = "failed"
  /\ UNCHANGED <<table, walk, work, input>>
  /\ UNCHANGED <<atoms, deadStripRoots, refs, liveAtoms, deadAtoms>>

\* An object file is handled at its first visit only.
VisitObject(f) ==
  /\ AtFile(f)
  /\ ~input.file[f].broken
  /\ input.file[f].kind = "object"
  /\ index' = index + 1
  /\ file' = f
  /\ nodes' = BeforeLink(f)
  /\ seen' = seen \cup {f}
  /\ todo' = IF f \in seen THEN <<>> ELSE HandleFile(f)
  /\ undefAdded' = FALSE
  /\ UNCHANGED <<table, newUndefinesAdded, search, pos, tentative, instantiated,
                 undefines, undefineIndex, output, input>>

\* Mutant: the start position is kept for all libraries together.
VisitLibrarySharedIndex(f) ==
  /\ AtFile(f)
  /\ ~input.file[f].broken
  /\ input.file[f].kind \in {"archive", "sharedLibrary"}
  /\ index' = index + 1
  /\ file' = f
  /\ todo' = IF input.file[f].kind = "archive" THEN <<>> ELSE HandleFile(f)
  /\ undefAdded' = FALSE
  /\ search' = "undefines"
  /\ pos' = CHOOSE i \in {undefineIndex[g] : g \in Files} :
              \A g \in Files : undefineIndex[g] <= i
  /\ UNCHANGED <<table, nodes, seen, newUndefinesAdded, tentative, instantiated,
                 undefines, undefineIndex, output, input>>

\* A library is searched from where its last search ended. The atoms of a
\* shared library are handed over at every visit.
VisitLibrary(f) ==
  /\ AtFile(f)
  /\ ~input.file[f].broken
  /\ input.file[f].kind \in {"archive", "sharedLibrary"}
  /\ index' = index + 1
  /\ file' = f
  /\ todo' = IF input.file[f].kind = "archive" THEN <<>> ELSE HandleFile(f)
  /\ undefAdded' = FALSE
  /\ search' = "undefines"
  /\ pos' = undefineIndex[f]
  /\ UNCHANGED <<table, nodes, seen, newUndefinesAdded, tentative, instantiated,
                 undefines, undefineIndex, output, input>>

\* _newUndefinesAdded[file] = undefAdded, which handleSharedLibrary never sets.
LeaveFile ==
  /\ phase = "files" /\ ~fatal /\ file # NoFile
  /\ todo = <<>> /\ search = "none"
  /\ newUndefinesAdded' =
       IF undefAdded /\ input.file[file].kind # "sharedLibrary"
         THEN newUndefinesAdded \cup {file}
         ELSE newUndefinesAdded \ {file}
  /\ file' = NoFile
  /\ UNCHANGED <<table, nodes, index, seen, work, output, input>>

LastFile ==
  /\ Walking
  /\ index > Len(nodes)
  /\ phase' = "updateReferences"
  /\ UNCHANGED <<table, walk, work, input>>
  /\ UNCHANGED <<atoms, deadStripRoots, refs, liveAtoms, deadAtoms>>
-----------------------------------------------------------------------------
(***************************************************************************)
(* The atoms of a file, one call at a time.                                *)
(***************************************************************************)

Handling(op, a) ==
  /\ phase = "files" /\ ~fatal
  /\ todo # <<>>
  /\ Head(todo) = [op |-> op, atom |-> a]
  /\ a.definition = Takes[op]

\* What every doXAtom does first and what none of them touches.
Known(a) ==
  /\ atoms' = Append(atoms, a)
  /\ UNCHANGED <<walk, search, pos, tentative, instantiated, undefineIndex,
                 refs, liveAtoms, deadAtoms, input>>

AddToTable(a) == ST!AddByName(a) \/ ST!AddByContent(a) \/ ST!AddUntracked(a)

KeepRoot(a) ==
  deadStripRoots' = IF Has("deadStrip") /\ a \in input.never
                      THEN deadStripRoots \cup {a} ELSE deadStripRoots

DoDefinedAtom(a) ==
  /\ Handling("defined", a)
  /\ a.group = "none"
  /\ Known(a)
  /\ AddToTable(a)
  /\ KeepRoot(a)
  /\ todo' = Tail(todo)
  /\ UNCHANGED <<undefAdded, undefines, phase>>

\* maybeAddSectionGroupOrGnuLinkOnce: only the first group of a name brings in
\* the atoms it refers to as its children.
Children(a) ==
  LET groupChild == Sublist(RefsIn(refs, a), {r \in ToSet(RefsIn(refs, a)) : r.kind = "groupChild"})
  IN  [i \in 1 .. Len(groupChild) |->
         [op |-> "groupChild", atom |-> groupChild[i].target]]

GroupMismatch(a) ==
  /\ groupTable[a.name] # NoAtom
  /\ ~Has("allowDuplicates")
  /\ groupTable[a.name].group # a.group

\* Mutant: the children of a group that is not the first are added as well.
DoGroupParentAlways(a) ==
  /\ Handling("defined", a)
  /\ a.group # "none"
  /\ Known(a)
  /\ ST!AddGroup(a)
  /\ KeepRoot(a)
  /\ todo' = Children(a) \o Tail(todo)
  /\ phase' = IF GroupMismatch(a) THEN "failed" ELSE phase
  /\ UNCHANGED <<undefAdded, undefines>>

DoGroupParent(a) ==
  /\ Handling("defined", a)
  /\ a.group # "none"
  /\ Known(a)
  /\ ST!AddGroup(a)
  /\ KeepRoot(a)
  /\ todo' = IF groupTable[a.name] = NoAtom THEN Children(a) \o Tail(todo)
                                            ELSE Tail(todo)
  /\ phase' = IF GroupMismatch(a) THEN "failed" ELSE phase
  /\ UNCHANGED <<undefAdded, undefines>>

DoGroupChild(a) ==
  /\ Handling("groupChild", a)
  /\ Known(a)
  /\ AddToTable(a)
  /\ todo' = Tail(todo)
  /\ UNCHANGED <<deadStripRoots, undefAdded, undefines, phase>>

\* doUndefinedAtom, for an atom of the file or for the fallback of one. A name
\* that is not resolved gets a second chance: the fallback is added next, and
\* then the atom is redirected to it. handleFile sees the result of the calls
\* for the atoms of the file only.
DoUndefinedAtom(op, a) ==
  LET isNew == nameTable[a.name] = NoAtom
      unresolved == nameTable'[a.name].definition = "undefined"
  IN
  /\ Handling(op, a)
  /\ Known(a)
  /\ AddToTable(a)
  /\ undefines' = IF isNew THEN Append(undefines, a.name) ELSE undefines
  /\ todo' = IF a.fallback # NoAtom /\ (isNew \/ unresolved)
               THEN <<[op |-> "fallback", atom |-> a.fallback],
                      [op |-> "replace", atom |-> a]>> \o Tail(todo)
               ELSE Tail(todo)
  /\ undefAdded' = (undefAdded \/ (op = "undefined" /\ isNew))
  /\ UNCHANGED <<deadStripRoots, phase>>

\* Mutant: addReplacement is called with its arguments swapped.
AddReplacementSwapped(a) ==
  /\ Handling("replace", a)
  /\ replacedAtoms' = [replacedAtoms EXCEPT ![a.fallback] = a]
  /\ todo' = Tail(todo)
  /\ UNCHANGED <<nameTable, groupTable, contentTable, fatal, added>>
  /\ UNCHANGED <<walk, search, pos, tentative, undefAdded, instantiated,
                 undefines, undefineIndex, output, input>>

AddReplacement(a) ==
  /\ Handling("replace", a)
  /\ ST!AddReplacement(a)
  /\ todo' = Tail(todo)
  /\ UNCHANGED <<walk, search, pos, tentative, undefAdded, instantiated,
                 undefines, undefineIndex, output, input>>

DoSharedLibraryAtom(a) ==
  /\ Handling("sharedLibrary", a)
  /\ Known(a)
  /\ AddToTable(a)
  /\ todo' = Tail(todo)
  /\ UNCHANGED <<deadStripRoots, undefAdded, undefines, phase>>

\* A file-static absolute symbol does not go to the table.
DoAbsoluteAtom(a) ==
  /\ Handling("absolute", a)
  /\ Known(a)
  /\ IF a.scope = "translationUnit" THEN UNCHANGED table ELSE AddToTable(a)
  /\ todo' = Tail(todo)
  /\ UNCHANGED <<deadStripRoots, undefAdded, undefines, phase>>

-----------------------------------------------------------------------------
(***************************************************************************)
(* forEachUndefines, with the callbacks of handleArchiveFile and of        *)
(* handleSharedLibrary.                                                    *)
(***************************************************************************)

Searching(stage) ==
  /\ phase = "files" /\ ~fatal
  /\ todo = <<>>
  /\ search = stage

SearchForOverrides ==
  IF input.file[file].kind = "archive" THEN Has("archivesOverrideTentative")
                                       ELSE Has("sharedOverrideTentative")

\* FileArchive::find(): a member that was never returned before. It counts as
\* returned even if it then fails to load.
Finds(f, name, dataOnly) ==
  LET member == input.file[f].symbols[name] IN
  /\ member # NoFile
  /\ member \notin instantiated
  /\ dataOnly => name \in input.file[f].data

\* The callback of the search, for one name.
Callback(name, dataOnly) ==
  IF input.file[file].kind = "archive"
    THEN LET member == input.file[file].symbols[name] IN
         IF ~Finds(file, name, dataOnly)
           THEN UNCHANGED <<nodes, todo, instantiated>>
           ELSE /\ instantiated' = instantiated \cup {member}
                /\ IF input.file[member].broken
                     THEN UNCHANGED <<nodes, todo>>
                     ELSE nodes' = BeforeLink(member) /\ todo' = HandleFile(member)
    ELSE LET exported == input.file[file].exports[name] IN
         /\ todo' = IF exported # NoAtom
                      THEN <<[op |-> "sharedLibrary", atom |-> exported]>>
                      ELSE <<>>
         /\ UNCHANGED <<nodes, instantiated>>

UnresolvedName(name) ==
  /\ nameTable[name].definition = "undefined"
  /\ ~ST!IsCoalescedAway(nameTable[name])

SearchUndefine ==
  /\ Searching("undefines")
  /\ pos <= Len(undefines)
  /\ undefines[pos] # NoName
  /\ UnresolvedName(undefines[pos])
  /\ Callback(undefines[pos], FALSE)
  /\ pos' = pos + 1
  /\ UNCHANGED <<table, index, file, seen, newUndefinesAdded, search, tentative,
                 undefAdded, undefines, undefineIndex, output, input>>

\* Mutant: a name is cleared as soon as one library was searched for it.
SkipUndefineAny ==
  /\ Searching("undefines")
  /\ pos <= Len(undefines)
  /\ undefines' = [undefines EXCEPT ![pos] = NoName]
  /\ pos' = pos + 1
  /\ UNCHANGED <<table, walk, todo, search, tentative, undefAdded, instantiated,
                 undefineIndex, output, input>>

\* A name that was resolved since is cleared, so that no file looks it up again.
SkipUndefine ==
  /\ Searching("undefines")
  /\ pos <= Len(undefines)
  /\ undefines[pos] = NoName \/ ~UnresolvedName(undefines[pos])
  /\ undefines' = [undefines EXCEPT ![pos] = NoName]
  /\ pos' = pos + 1
  /\ UNCHANGED <<table, walk, todo, search, tentative, undefAdded, instantiated,
                 undefineIndex, output, input>>

SearchTentatives ==
  /\ Searching("undefines")
  /\ pos > Len(undefines)
  /\ SearchForOverrides
  /\ search' = "tentative"
  /\ tentative' = ST!TentativeDefinitions
  /\ UNCHANGED <<table, walk, todo, pos, undefAdded, instantiated, undefines,
                 undefineIndex, output, input>>

\* The hash table of the names has no particular order.
SearchTentative(name) ==
  /\ Searching("tentative")
  /\ name \in tentative
  /\ tentative' = tentative \ {name}
  /\ IF name \in ST!TentativeDefinitions
       THEN Callback(name, TRUE)
       ELSE UNCHANGED <<nodes, todo, instantiated>>
  /\ UNCHANGED <<table, index, file, seen, newUndefinesAdded, search, pos,
                 undefAdded, undefines, undefineIndex, output, input>>

SearchAgain ==
  /\ Searching("tentative")
  /\ tentative = {}
  /\ pos <= Len(undefines)
  /\ search' = "undefines"
  /\ UNCHANGED <<table, walk, todo, pos, tentative, undefAdded, instantiated,
                 undefines, undefineIndex, output, input>>

\* Mutant: the search ends with _undefines, before the tentative definitions.
SearchEndsEarly ==
  /\ Searching("undefines")
  /\ pos > Len(undefines)
  /\ search' = "none"
  /\ undefineIndex' = [undefineIndex EXCEPT ![file] = pos]
  /\ UNCHANGED <<table, walk, todo, pos, tentative, undefAdded, instantiated,
                 undefines, output, input>>

SearchEnds ==
  /\ \/ Searching("undefines") /\ ~SearchForOverrides
     \/ Searching("tentative") /\ tentative = {}
  /\ pos > Len(undefines)
  /\ search' = "none"
  /\ undefineIndex' = [undefineIndex EXCEPT ![file] = pos]
  /\ UNCHANGED <<table, walk, todo, pos, tentative, undefAdded, instantiated,
                 undefines, output, input>>

-----------------------------------------------------------------------------
(***************************************************************************)
(* After the last file: resolve() runs to its end.                         *)
(***************************************************************************)

At(p) == phase = p /\ ~fatal

\* Mutant: a reference follows one replacement instead of the whole chain.
RedirectOnce(r) ==
  IF r.kind = "associate" \/ ~ST!IsCoalescedAway(r.target)
    THEN r ELSE [r EXCEPT !.target = replacedAtoms[@]]

\* updateReferences(): references follow the replacements, but for kindAssociate.
\* The associates of an atom that is coalesced away die with it.
Redirect(r) ==
  IF r.kind = "associate" THEN r ELSE [r EXCEPT !.target = ST!Replacement(@)]

UpdateReferences ==
  /\ At("updateReferences")
  /\ refs' = [a \in DOMAIN refs |->
                IF a \in ToSet(atoms)
                  THEN [i \in 1 .. Len(refs[a]) |-> Redirect(refs[a][i])]
                  ELSE refs[a]]
  /\ deadAtoms' =
       UNION {{r.target : r \in {q \in ToSet(RefsIn(refs, a)) : q.kind = "associate"}} :
                a \in {b \in ToSet(atoms) : ST!IsCoalescedAway(b)}}
  /\ phase' = "deadStripOptimize"
  /\ UNCHANGED <<table, walk, work, atoms, deadStripRoots, liveAtoms, input>>

\* markLive(): what a live atom keeps alive, along its references and, if it is a
\* defined atom, against those that make two atoms one unit.
Keeps(a) ==
  Targets(refs, a) \cup
  {b \in ToSet(atoms) :
     a.definition = "regular" /\ a \in Linked(refs, b, {"layoutAfter", "groupChild"})}

\* What a walk along the references may meet.
Reachable == ToSet(atoms) \cup UNION {Targets(refs, a) : a \in DOMAIN refs}

\* Mutant: every reference keeps its source alive too.
MarkLiveBothWays(roots) ==
  LET sources(S) == {b \in ToSet(atoms) : Targets(refs, b) \cap S # {}}
      grow == [S \in SUBSET Atoms |-> S \cup sources(S) \cup UNION {Keeps(a) : a \in S}]
      live[i \in 0 .. Cardinality(Reachable)] ==
        IF i = 0 THEN roots ELSE grow[live[i - 1]]
  IN  live[Cardinality(Reachable)]

\* Every atom is reached from the roots in at most as many steps as there are
\* atoms to be met.
MarkLive(roots) ==
  LET grow == [S \in SUBSET Atoms |-> S \cup UNION {Keeps(a) : a \in S}]
      live[i \in 0 .. Cardinality(Reachable)] ==
        IF i = 0 THEN roots ELSE grow[live[i - 1]]
  IN  live[Cardinality(Reachable)]

\* Mutant: the atoms that are deadStripNever are not among the roots.
DeadStripRootsByName ==
  {a \in ToSet(atoms) : a.definition = "absolute"}
    \cup {a \in ToSet(atoms) : /\ Has("globalsAreDeadStripRoots")
                               /\ a.definition = "regular"
                               /\ a.scope = "global"}
    \cup {nameTable[n] : n \in input.roots}

DeadStripRoots ==
  deadStripRoots
    \cup {a \in ToSet(atoms) : a.definition = "absolute"}
    \cup {a \in ToSet(atoms) : /\ Has("globalsAreDeadStripRoots")
                               /\ a.definition = "regular"
                               /\ a.scope = "global"}
    \cup {nameTable[n] : n \in input.roots}

DeadStripOptimize ==
  /\ At("deadStripOptimize")
  /\ phase' = "checkUndefines"
  /\ IF Has("deadStrip")
       THEN LET live == MarkLive(DeadStripRoots) IN
            /\ liveAtoms' = live
            /\ atoms' = Sublist(atoms, live)
       ELSE UNCHANGED <<liveAtoms, atoms>>
  /\ UNCHANGED <<table, walk, work, deadStripRoots, refs, deadAtoms, input>>

\* Mutant: dead undefined atoms are not removed from the list.
MissingSymbolsDeadToo ==
  {u \in ST!Undefines :
     /\ u.canBeNull = 0
     /\ ~(u.file \in SharedLibraries /\ Has("allowShlibUndefines"))}

\* checkUndefines() fails the link for these.
MissingSymbols ==
  {u \in ST!Undefines :
     /\ Has("deadStrip") => u \in liveAtoms
     /\ u.canBeNull = 0
     /\ ~(u.file \in SharedLibraries /\ Has("allowShlibUndefines"))}

CheckUndefines ==
  /\ At("checkUndefines")
  /\ phase' = IF MissingSymbols # {} /\ ~Has("allowRemainingUndefines")
                THEN "failed" ELSE "removeCoalescedAwayAtoms"
  /\ UNCHANGED <<table, walk, work, input>>
  /\ UNCHANGED <<atoms, deadStripRoots, refs, liveAtoms, deadAtoms>>

\* Mutant: only the dead associates are removed.
RemoveDeadAtoms ==
  /\ At("removeCoalescedAwayAtoms")
  /\ atoms' = Sublist(atoms, ToSet(atoms) \ deadAtoms)
  /\ phase' = "done"
  /\ UNCHANGED <<table, walk, work, deadStripRoots, refs, liveAtoms, deadAtoms, input>>

\* What is left in _atoms then is the merged file.
RemoveCoalescedAwayAtoms ==
  /\ At("removeCoalescedAwayAtoms")
  /\ atoms' = Sublist(atoms, {a \in ToSet(atoms) : ~ST!IsCoalescedAway(a) /\ a \notin deadAtoms})
  /\ phase' = "done"
  /\ UNCHANGED <<table, walk, work, deadStripRoots, refs, liveAtoms, deadAtoms, input>>

Finished == fatal \/ phase \in {"failed", "done"}

Next ==
  \/ GroupAgain
  \/ GroupLeave
  \/ \E f \in Files : ParseFails(f) \/ VisitObject(f) \/ VisitLibrary(f)
  \/ LeaveFile
  \/ LastFile
  \/ \E a \in Atoms : \/ DoDefinedAtom(a)
                      \/ DoGroupParent(a)
                      \/ DoGroupChild(a)
                      \/ DoUndefinedAtom("undefined", a)
                      \/ DoUndefinedAtom("fallback", a)
                      \/ AddReplacement(a)
                      \/ DoSharedLibraryAtom(a)
                      \/ DoAbsoluteAtom(a)
  \/ SearchUndefine
  \/ SkipUndefine
  \/ SearchTentatives
  \/ \E n \in Names : SearchTentative(n)
  \/ SearchAgain
  \/ SearchEnds
  \/ UpdateReferences
  \/ DeadStripOptimize
  \/ CheckUndefines
  \/ RemoveCoalescedAwayAtoms
  \/ Finished /\ UNCHANGED vars

\* The resolver is one thread that runs until it returns.
Spec == Init /\ [][Next]_vars /\ WF_vars(Next)

-----------------------------------------------------------------------------
(***************************************************************************)
(* Properties.                                                             *)
(***************************************************************************)

TypeOK ==
  /\ ST!TypeOK
  /\ index \in 1 .. Len(nodes) + 1
  /\ file \in Files \cup {NoFile}
  /\ pos \in 1 .. Len(undefines) + 1
  /\ undefineIndex \in [Files -> 1 .. Len(undefines) + 1]
  /\ search \in {"none", "undefines", "tentative"}
  /\ seen \cup instantiated \cup newUndefinesAdded \subseteq Files
  /\ ToSet(undefines) \subseteq Names \cup {NoName}
  /\ ToSet(atoms) \cup deadStripRoots \cup deadAtoms \cup liveAtoms \subseteq Atoms

\* The resolver uses the symbol table as module SymbolTable specifies it.
TableSpec == ST!Spec

\* A name that f could resolve now, by a member or an export it has.
Offers(f, n) ==
  CASE input.file[f].kind = "archive" ->
         Finds(f, n, FALSE) /\ ~input.file[input.file[f].symbols[n]].broken
    [] input.file[f].kind = "sharedLibrary" -> input.file[f].exports[n] # NoAtom
    [] OTHER -> FALSE

Idle == file = NoFile /\ todo = <<>> /\ ~fatal

\* "Searching them again would never succeed" (Resolver.h): the names before
\* the start position of a library are resolved or the library cannot resolve
\* them, whatever other files were visited since.
SearchedInVain ==
  Idle =>
    \A f \in Files : \A i \in 1 .. undefineIndex[f] - 1 :
      undefines[i] # NoName /\ UnresolvedName(undefines[i])
        => ~Offers(f, undefines[i])

\* No unresolved name is forgotten: as long as the table holds it the list that
\* the libraries search has it too.
UnresolvedIsListed ==
  todo = <<>> /\ ~fatal =>
    \A n \in Names :
      nameTable[n] # NoAtom /\ UnresolvedName(n) => n \in ToSet(undefines)

\* What is still to be found is found when a library offers it, however far
\* each library has been searched: nothing is behind an index that is offered,
\* and nothing is off the list.
NoNameIsForgotten == SearchedInVain /\ UnresolvedIsListed

\* A group is left only when none of its libraries can resolve any of the names
\* that are still undefined (--start-group, --end-group).
GroupExhausted ==
  GroupLeave =>
    \A f \in nodes[index].files : \A n \in Names :
      nameTable[n] # NoAtom /\ UnresolvedName(n) => ~Offers(f, n)

\* "core linking will also look for archive members to replace existing
\* tentative definitions" (LinkingContext.h): the search of an archive ends when
\* it has no more data definition for a name that is defined tentatively.
TentativesOverridden ==
  SearchEnds /\ Has("archivesOverrideTentative")
    /\ input.file[file].kind = "archive" =>
    \A n \in ST!TentativeDefinitions : ~Finds(file, n, TRUE)

\* No search is given up too early: neither that of a group for what is
\* undefined, nor that of an archive for what overrides a common symbol.
SearchesAreExhaustive == [][GroupExhausted /\ TentativesOverridden]_vars

Result == ToSet(atoms)

\* The merged file is closed: when the link succeeds, a reference of one of its
\* atoms leads to another of its atoms, and one that is really undefined only if
\* the symbol may be null or the options allow it.
ResultIsClosed ==
  phase = "done" =>
    \A a \in Result : \A r \in ToSet(RefsIn(refs, a)) :
      /\ r.target \in Result
      /\ r.target.definition = "undefined" =>
           \/ r.target.canBeNull # 0
           \/ Has("allowRemainingUndefines")
           \/ r.target.file \in SharedLibraries /\ Has("allowShlibUndefines")

\* The atoms of a section group, and an atom and its associates, stay or go
\* together: none is left behind when the group's or the parent's name is lost
\* or the unit is dead, unless it is a child that lost its own name.
UnitsStayTogether ==
  phase = "done" =>
    \A a \in added : \A r \in ToSet(RefsIn(input.refs, a)) :
      r.kind \in {"groupChild", "associate"} =>
        IF a \in Result THEN r.target \in Result \/ ST!IsCoalescedAway(r.target)
                        ELSE r.target \notin Result

\* A weak external whose name is defined does not need its fallback
\* (ReaderCOFF.cpp: "If sym1 is resolved, it's linked normally").
FallbackNotNeeded ==
  phase = "failed" /\ MissingSymbols # {} =>
    \E u \in MissingSymbols :
      \A a \in added : a.fallback = u => ~ST!IsDefined(a.name)

\* No definition is in the merged file twice, and no name has two.
ResultIsUnique ==
  phase = "done" =>
    /\ \A i, j \in DOMAIN atoms :
         atoms[i] = atoms[j] /\ atoms[i].file \notin SharedLibraries => i = j
    /\ \A a, b \in Result :
         a.name = b.name /\ a.name # NoName
         /\ a.scope = "global" /\ b.scope = "global"
         /\ a.group = "none" /\ b.group = "none"
         => a = b

\* When dead stripping begins, every name that is a root has an atom.
RootsAreKnown ==
  phase = "deadStripOptimize" /\ Has("deadStrip") =>
    \A n \in input.roots : nameTable[n] # NoAtom

\* An atom that must never be stripped, unless it lost its name, is in the
\* merged file.
NeverStripped ==
  phase = "done" =>
    \A a \in input.never \cap added :
      a \in Result \/ ST!IsCoalescedAway(a) \/ a \in deadAtoms

\* With dead stripping, what is kept is used: an atom of the merged file is
\* reached from a root by the references of atoms that are in it, too.
KeptIsReachable ==
  phase = "done" /\ Has("deadStrip") =>
    \A S \in SUBSET Result :
      /\ S # {}
      /\ S \cap DeadStripRoots = {}
      => \E a \in (Result \cup liveAtoms) \ S : Keeps(a) \cap S # {}

\* With dead stripping a link fails only for a symbol that a live atom uses or
\* that is a root itself.
MissingIsUsed ==
  phase = "failed" /\ Has("deadStrip") =>
    \A u \in MissingSymbols :
      \/ \E n \in input.roots : nameTable[n] = u
      \/ \E a \in Result : \E r \in ToSet(RefsIn(refs, a)) : r.target = u

\* The merged file is a closed graph of whole units, each definition once, and
\* the walk that builds it stays within the nodes and the names it has.
ResultIsWhole == TypeOK /\ ResultIsUnique /\ UnitsStayTogether /\ ResultIsClosed

\* Dead stripping finds its roots ("assert(symAtom)", Resolver.cpp), keeps what
\* must stay and what it uses, nothing else, and complains only of what that uses.
StripIsExact == RootsAreKnown /\ NeverStripped /\ KeptIsReachable /\ MissingIsUsed

\* Every link ends: a group is not searched for ever.
Termination == <>Finished
=============================================================================
