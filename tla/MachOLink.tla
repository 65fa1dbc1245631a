----------------------------- MODULE MachOLink ------------------------------
(***************************************************************************)
(* One Mach-O object through the linker: convertRelocs makes references of *)
(* its relocation records; with -r they are written as records again, and  *)
(* read again; for an image the stubs, GOT and shim passes rewrite them,   *)
(* addresses are assigned, and the fixups are applied.                     *)
(*                                                                         *)
(* An atom: type, size, align, modulus, thumb, exec, named, merge, scope,  *)
(* sec (its section in the object), name (its length), interpose.  A size  *)
(* of 0 makes it undefined, or a shared library's in an image.             *)
(***************************************************************************)
EXTENDS MachOFile

-----------------------------------------------------------------------------
(* MachONormalizedFileFromAtoms and MachONormalizedFileBinaryWriter: atoms *)
(* are appended to sections, sections are grouped into segments and given  *)
(* addresses, and the file offsets follow the addresses.                   *)
(*                                                                         *)
(* An atom here has a content type, a size and an alignment with modulus.  *)

CONSTANTS PageSize, BaseAddress, PageZeroSize

ASSUME PageSizeAssumption == PageSize \in Nat \ {0}

RoundUp(x, n) == x + ((n - (x % n)) % n)
RoundDown(x, n) == x - (x % n)

(* sectsToAtomType: the section of each content type.                      *)
SectionOf(type) ==
    CASE type = "code" -> [seg |-> "__TEXT", name |-> "__text"]
      [] type = "stub" -> [seg |-> "__TEXT", name |-> "__stubs"]
      [] type = "helper" -> [seg |-> "__TEXT", name |-> "__stub_helper"]
      [] type = "constant" -> [seg |-> "__TEXT", name |-> "__const"]
      [] type = "unwind" -> [seg |-> "__TEXT", name |-> "__unwind_info"]
      [] type = "lp" -> [seg |-> "__DATA", name |-> "__la_symbol_ptr"]
      [] type = "got" -> [seg |-> "__DATA", name |-> "__got"]
      [] OTHER -> [seg |-> "__DATA", name |-> "__data"]

(* An atom goes to the first offset with its modulus.                      *)
OffsetFor(sect, atom) ==
    sect.size + ((atom.modulus - (sect.size % atom.align)) % atom.align)
AppendAtom(sect, a, atom) ==
    [sect EXCEPT !.atoms = Append(@, [atom |-> a, off |-> OffsetFor(sect, atom)]),
                 !.align = IF atom.align > @ THEN atom.align ELSE @,
                 !.size = OffsetFor(sect, atom) + atom.size]

NewSection(where) == [where |-> where, align |-> 1, size |-> 0, atoms |-> <<>>]
AssignAtomsToSections(atoms, defined) ==
    FoldLeft(LAMBDA sections, a :
               LET where == SectionOf(atoms[a].type)
                   all == IF \E i \in DOMAIN sections : sections[i].where = where THEN sections
                          ELSE Append(sections, NewSection(where))
                   i == CHOOSE j \in DOMAIN all : all[j].where = where
               IN  [all EXCEPT ![i] = AppendAtom(@, a, atoms[a])],
             <<>>, defined)

TextWeight(name) ==
    CASE name = "__text" -> 1 [] name = "__stubs" -> 2 [] name = "__stub_helper" -> 3
      [] name = "__const" -> 4 [] name = "__unwind_info" -> 98 [] OTHER -> 10

(* The segments of an image in their order; __TEXT holds the headers.      *)
OrganizeSections(sections) ==
    LET of(seg) == SelectSeq(sections, LAMBDA s : s.where.seg = seg)
        sorted == SortSeq(of("__TEXT"),
                          LAMBDA s, t : TextWeight(s.where.name) < TextWeight(t.where.name))
    IN  <<[name |-> "__TEXT", sections |-> sorted]>>
        \o (IF of("__DATA") = <<>> THEN <<>> ELSE <<[name |-> "__DATA", sections |-> of("__DATA")]>>)

(* Sections one after the other from an address: their addresses.          *)
SectionAddresses(sections, from) ==
    LET end[i \in 0..Len(sections)] ==
          IF i = 0 THEN from ELSE RoundUp(end[i - 1], sections[i].align) + sections[i].size
    IN  [i \in DOMAIN sections |-> RoundUp(end[i - 1], sections[i].align)]

EndOf(sections, addresses, from) ==
    IF sections = <<>> THEN from ELSE Last(addresses) + Last(sections).size
LayoutSectionsInSegment(seg, addr) ==
    LET at == SectionAddresses(seg.sections, addr)
    IN  [name |-> seg.name, address |-> addr, sections |-> seg.sections, at |-> at,
         size |-> RoundUp(EndOf(seg.sections, at, addr) - addr, PageSize)]

(* Mutant: the padding makes up for the load commands.                     *)
TextSegmentOverHeaders(seg, hlcSize, addr) ==
    LET taddr == FoldRight(LAMBDA s, t : RoundDown(t - s.size, s.align), seg.sections, 0)
        padding == (taddr - hlcSize) % PageSize
        at == SectionAddresses(seg.sections, addr + padding)
    IN  [name |-> seg.name, address |-> addr, sections |-> seg.sections, at |-> at,
         size |-> RoundUp(EndOf(seg.sections, at, addr + padding) - addr, PageSize)]

(* __TEXT is laid out so that its padding follows the load commands: a     *)
(* pass from the last section finds the room the sections need.            *)
LayoutSectionsInTextSegment(seg, hlcSize, addr) ==
    LET taddr == FoldRight(LAMBDA s, t : RoundDown(t - s.size, s.align), seg.sections, 0)
        padding == (taddr - hlcSize) % PageSize
        from == addr + padding + hlcSize
        at == SectionAddresses(seg.sections, from)
    IN  [name |-> seg.name, address |-> addr, sections |-> seg.sections, at |-> at,
         size |-> RoundUp(EndOf(seg.sections, at, from) - addr, PageSize)]

(* assignAddressesToSections for an image.                                 *)
AssignAddresses(segments, hlcSize) ==
    FoldLeft(LAMBDA done, seg :
               LET next == IF done = <<>> THEN PageZeroSize
                           ELSE RoundUp(Last(done).address + Last(done).size, PageSize)
               IN  Append(done, IF seg.name = "__TEXT"
                                THEN LayoutSectionsInTextSegment(seg, hlcSize,
                                       IF BaseAddress # 0 THEN BaseAddress ELSE next)
                                ELSE LayoutSectionsInSegment(seg, next)),
             <<>>, segments)

(* buildAtomToAddressMap.                                                  *)
Placed(sections, at) ==
    UNION {{<<p.atom, at[i] + p.off>> : p \in ToSet(sections[i].atoms)} : i \in DOMAIN sections}
AddressesIn(placed) ==
    [a \in {p[1] : p \in placed} |-> (CHOOSE p \in placed : p[1] = a)[2]]
RelocatableAddresses(sections) == AddressesIn(Placed(sections, SectionAddresses(sections, 0)))
ImageAddresses(segments) == AddressesIn(UNION {Placed(g.sections, g.at) : g \in ToSet(segments)})

(* buildFileOffsets: a segment begins on a page of the file, and takes at  *)
(* least one.                                                              *)
FileOffsets(segments) ==
    LET extent(g) ==
          Max({PageSize} \cup {g.at[i] - g.address + g.sections[i].size : i \in DOMAIN g.sections})
        offset[n \in 1..(Len(segments) + 1)] ==
          IF n = 1 THEN 0 ELSE RoundUp(offset[n - 1] + extent(segments[n - 1]), PageSize)
    IN  offset


(***************************************************************************)
(* The trie of exported symbols that MachONormalizedFileBinaryWriter       *)
(* builds name by name, gives offsets to, and writes; and the loader's     *)
(* search in it.  A name is a sequence of letters.                         *)
(*                                                                         *)
(* A node is [name, export, edges, offset]: the prefix it stands for,      *)
(* whether it exports it, its edges [label, child] in order, and where it  *)
(* is written.  An offset below UlebLimit takes one byte, any other two.   *)
(***************************************************************************)

CONSTANT UlebLimit      \* 128

Node(name, export) == [name |-> name, export |-> export, edges |-> <<>>, offset |-> 0]
Root == <<Node(<<>>, FALSE)>>

CommonLength(s, t) ==
    LET n == CHOOSE k \in 0..Len(s) : /\ k <= Len(t) /\ SubSeq(s, 1, k) = SubSeq(t, 1, k)
                                      /\ k = Len(s) \/ k = Len(t) \/ s[k + 1] # t[k + 1]
    IN  n

(* The first edge that the rest of the name runs along, or shares a        *)
(* beginning with.  An empty label is a beginning of everything.           *)
Along(rest, edge) == IsPrefix(edge.label, rest)
FirstEdge(rest, edges) ==
    SelectInSeq(edges, LAMBDA e : Along(rest, e) \/ CommonLength(e.label, rest) > 0)

(* Mutant: the new node takes the place of the one it was put before.      *)
SpliceWithoutRest(trie, at, i, length) ==
    LET edge == trie[at].edges[i]
        name == trie[at].name \o SubSeq(edge.label, 1, length)
    IN  Append([trie EXCEPT ![at].edges[i] = [label |-> SubSeq(edge.label, 1, length), child |-> Len(trie) + 1]],
               Node(name, FALSE))

(* Was A -> C, now A -> B -> C.                                            *)
Splice(trie, at, i, length) ==
    LET edge == trie[at].edges[i]
        b == Len(trie) + 1
        name == trie[at].name \o SubSeq(edge.label, 1, length)
        rest == SubSeq(edge.label, length + 1, Len(edge.label))
    IN  Append([trie EXCEPT ![at].edges[i] = [label |-> SubSeq(edge.label, 1, length), child |-> b]],
               [Node(name, FALSE) EXCEPT !.edges = <<[label |-> rest, child |-> edge.child]>>])

RECURSIVE AddSymbol(_, _, _)
AddSymbol(trie, at, name) ==
    LET rest == SubSeq(name, Len(trie[at].name) + 1, Len(name))
        i == FirstEdge(rest, trie[at].edges)
        edge == trie[at].edges[i]
    IN  IF i = 0
        THEN Append([trie EXCEPT ![at].edges = Append(@, [label |-> rest, child |-> Len(trie) + 1])],
                    Node(name, TRUE))
        ELSE IF Along(rest, edge) THEN AddSymbol(trie, edge.child, name)
        ELSE AddSymbol(Splice(trie, at, i, CommonLength(edge.label, rest)), Len(trie) + 1, name)

UlebSize(n) == IF n < UlebLimit THEN 1 ELSE 2
ExportInfoSize == 2       \* flags and a short address

(* The bytes a node takes while its children are where they are now.       *)
NodeSize(trie, n) ==
    FoldLeft(LAMBDA size, e : size + Len(e.label) + 1 + UlebSize(trie[e.child].offset),
             2 + (IF trie[n].export THEN ExportInfoSize ELSE 0), trie[n].edges)

(* updateOffset of all nodes in order; again while one of them moved.      *)
UpdateOffsets(trie) ==
    FoldLeft(LAMBDA s, n : [trie |-> [s.trie EXCEPT ![n].offset = s.offset],
                            offset |-> s.offset + NodeSize([s.trie EXCEPT ![n].offset = s.offset], n)],
             [trie |-> trie, offset |-> 0], [n \in DOMAIN trie |-> n]).trie
RECURSIVE Settled(_)
Settled(trie) == IF UpdateOffsets(trie) = trie THEN trie ELSE Settled(UpdateOffsets(trie))

BuildExportTrie(names) ==
    IF names = <<>> THEN <<>> ELSE Settled(FoldLeft(LAMBDA t, name : AddSymbol(t, 1, name), Root, names))

(* Where appendToByteBuffer puts each node.                                *)
WrittenAt(trie, n) ==
    FoldLeft(LAMBDA at, m : at + NodeSize(trie, m), 0, [m \in 1..(n - 1) |-> m])

(***************************************************************************)
(* dyld's walk: at an offset, with the rest of a name.  It takes the first *)
(* edge that the rest begins with, and never goes back.                    *)
(***************************************************************************)
RECURSIVE Walk(_, _, _)
Walk(trie, offset, rest) ==
    LET here == {n \in DOMAIN trie : WrittenAt(trie, n) = offset}
        node == trie[CHOOSE n \in here : TRUE]
        i == SelectInSeq(node.edges, LAMBDA e : IsPrefix(e.label, rest))
    IN  IF here = {} THEN <<"nothing">>
        ELSE IF rest = <<>> /\ node.export THEN node.name
        ELSE IF i = 0 THEN <<"nothing">>
        ELSE Walk(trie, trie[node.edges[i].child].offset,
                  SubSeq(rest, Len(node.edges[i].label) + 1, Len(rest)))

Found(trie, name) == Walk(trie, 0, name) = name

-----------------------------------------------------------------------------
CONSTANTS Page, Scenarios, HeaderSize

VARIABLES
    given,        \* the scenario: [arch, relocatable, atoms, addr, uses, recs,
                  \* content, binder, exports]
    phase,
    file,         \* [atoms, addr]
    order,        \* mergedFile->defined(), atom numbers
    refs,         \* refs[a]: references of the atom, [off, kind, target, addend]
    content,      \* content[a]: offset -> [op, imm]
    recs,         \* relocation records, [sec, rec]
    segments,     \* the image's layout
    trie          \* the image's exported names

vars == <<given, phase, file, order, refs, content, recs, segments, trie>>

X64 == INSTANCE X86_64Handler
X86 == INSTANCE X86Handler
A64 == INSTANCE Arm64Handler
ARM == INSTANCE ArmHandler

arch == given.arch
IsPaired(pat) ==
    CASE arch = "x86_64" -> X64!IsPairedReloc(pat) [] arch = "x86" -> X86!IsPairedReloc(pat)
      [] arch = "arm64" -> A64!IsPairedReloc(pat) [] OTHER -> ARM!IsPairedReloc(pat)
Single(f, r, a, off, c) ==
    CASE arch = "x86_64" -> X64!GetReferenceInfo(f, r, a, off, c)
      [] arch = "x86" -> X86!GetReferenceInfo(f, r, a, off, c)
      [] arch = "arm64" -> A64!GetReferenceInfo(f, r, a, off, c)
      [] OTHER -> ARM!GetReferenceInfo(f, r, a, off, c)
Pair(f, r1, r2, a, off, c) ==
    CASE arch = "x86_64" -> X64!GetPairReferenceInfo(f, r1, r2, a, off, c)
      [] arch = "x86" -> X86!GetPairReferenceInfo(f, r1, r2, a, off, c)
      [] arch = "arm64" -> A64!GetPairReferenceInfo(f, r1, r2, a, off, c)
      [] OTHER -> ARM!GetPairReferenceInfo(f, r1, r2, a, off, c)
Records(f, a, off, ref) ==
    CASE arch = "x86_64" -> X64!AppendSectionRelocations(f, a, off, ref)
      [] arch = "x86" -> X86!AppendSectionRelocations(f, a, off, ref)
      [] arch = "arm64" -> A64!AppendSectionRelocations(f, a, off, ref)
      [] OTHER -> ARM!AppendSectionRelocations(f, a, off, ref)
InRelocatable(f, ref, c, x) ==
    CASE arch = "x86_64" -> X64!ApplyFixupRelocatable(f, ref, c, x)
      [] arch = "x86" -> X86!ApplyFixupRelocatable(f, ref, c, x)
      [] arch = "arm64" -> A64!ApplyFixupRelocatable(f, ref, c, x)
      [] OTHER -> ARM!ApplyFixupRelocatable(f, ref, c, x)
InImage(f, ref, c, x) ==
    CASE arch = "x86_64" -> X64!ApplyFixupFinal(ref, c, x)
      [] arch = "x86" -> X86!ApplyFixupFinal(ref, c, x)
      [] arch = "arm64" -> A64!ApplyFixupFinal(ref, c, x)
      [] OTHER -> ARM!ApplyFixupFinal(f, ref, c, x)
IsCallSite(kind) ==
    CASE arch = "x86_64" -> X64!IsCallSite(kind) [] arch = "x86" -> X86!IsCallSite(kind)
      [] arch = "arm64" -> A64!IsCallSite(kind) [] OTHER -> ARM!IsCallSite(kind)
IsGOTAccess(kind) ==
    CASE arch = "x86_64" -> X64!IsGOTAccess(kind) [] arch = "arm64" -> A64!IsGOTAccess(kind)
      [] OTHER -> FALSE
CanBypassGOT(kind) == IF arch = "x86_64" THEN X64!CanBypassGOT(kind) ELSE A64!CanBypassGOT(kind)
UpdateReferenceToGOT(kind, now) ==
    IF arch = "x86_64" THEN X64!UpdateReferenceToGOT(kind, now) ELSE A64!UpdateReferenceToGOT(kind, now)

Reference(off, ref) == [off |-> off, kind |-> ref.kind, target |-> ref.target, addend |-> ref.addend]
To(off, kind, target, addend) == [off |-> off, kind |-> kind, target |-> target, addend |-> addend]

(***************************************************************************)
(* Relocation records and references.                                      *)
(***************************************************************************)
SectionAddress(f, sec) == Min({f.addr[a] : a \in {b \in DOMAIN f.atoms : f.atoms[b].sec = sec}})
FixupAddress(f, r) == SectionAddress(f, r.sec) + r.rec.off
InAtom(f, r) == AtomAt(f, r.sec, FixupAddress(f, r))

(* The references the records stand for, with the atoms they are in; two   *)
(* records of a pair are taken together.                                   *)
Converted(f, rs, cs) ==
    LET from[i \in 1..(Len(rs) + 2)] ==
          IF i > Len(rs) THEN <<>>
          ELSE LET a == InAtom(f, rs[i])
                   off == FixupAddress(f, rs[i]) - f.addr[a]
                   paired == IsPaired(rs[i].rec.pat)
                   ref == IF paired THEN Pair(f, rs[i].rec, rs[i + 1].rec, a, off, cs[a][off])
                          ELSE Single(f, rs[i].rec, a, off, cs[a][off])
               IN  <<[atom |-> a, ref |-> Reference(off, ref)]>> \o from[IF paired THEN i + 2 ELSE i + 1]
    IN  from[1]

ReferencesOf(f, converted) ==
    [a \in DOMAIN f.atoms |->
       LET mine == SelectSeq(converted, LAMBDA c : c.atom = a)
       IN  [i \in DOMAIN mine |-> mine[i].ref]]

(* convertRelocs.                                                          *)
ConvertRelocs ==
    /\ phase \in {"object", "relocatable"}
    /\ LET converted == Converted(file, recs, content)
       IN  IF \E c \in ToSet(converted) : c.ref.kind = "bad"
           THEN phase' = "error" /\ UNCHANGED refs
           ELSE /\ phase' = IF phase = "object" THEN "atoms" ELSE "read again"
                /\ refs' = ReferencesOf(file, converted)
    /\ UNCHANGED <<given, file, order, content, recs, segments, trie>>

(* generateAtomContent.                                                    *)
Fixed(f, a, relocatable) ==
    FoldLeft(LAMBDA c, ref :
               LET at == [target |-> Address(f, ref.target), fixup |-> f.addr[a] + ref.off,
                          atom |-> f.addr[a], image |-> BaseAddress]
               IN  [c EXCEPT ![ref.off] = IF relocatable THEN InRelocatable(f, ref, @, at)
                                          ELSE InImage(f, ref, @, at)],
             content[a], refs[a])

(* addSectionRelocs.                                                       *)
SectionRelocs(f) ==
    FlattenSeq([i \in DOMAIN order |->
      LET a == order[i]
          place(r) == [r EXCEPT !.off = IF r.pat.type = "PAIR" THEN @
                                        ELSE @ + f.addr[a] - SectionAddress(f, f.atoms[a].sec)]
      IN  FlattenSeq([j \in DOMAIN refs[a] |->
            LET rs == Records(f, a, refs[a][j].off, refs[a][j])
            IN  [k \in DOMAIN rs |-> [sec |-> f.atoms[a].sec, rec |-> place(rs[k])]]])])

(* With -r: the sections in the order of their first atoms.                *)
WriteRelocatable ==
    /\ phase = "atoms" /\ given.relocatable
    /\ LET sections == AssignAtomsToSections(file.atoms, order)
           f == [file EXCEPT !.addr = RelocatableAddresses(sections) @@ @]
       IN  /\ file' = f
           /\ content' = [a \in DOMAIN content |-> IF Undefined(f, a) THEN content[a]
                                                   ELSE Fixed(f, a, TRUE)]
           /\ recs' = SectionRelocs(f)
    /\ phase' = "relocatable"
    /\ UNCHANGED <<given, order, refs, segments, trie>>

(***************************************************************************)
(* Passes.                                                                 *)
(***************************************************************************)
Linked == phase = "atoms" /\ ~given.relocatable
NewAtom(type, size, align) ==
    [type |-> type, size |-> size, align |-> align, modulus |-> 0, thumb |-> FALSE, exec |-> FALSE,
     named |-> FALSE, merge |-> "no", scope |-> "unit", sec |-> 0, name |-> 0, interpose |-> FALSE]
Fresh(atom, rs) == [atom |-> atom, refs |-> rs, code |-> "data"]
Blank(new) == [off \in {r.off : r \in ToSet(new.refs)} |-> [op |-> new.code, imm |-> 0]]

(* Adds atoms with their references to the merged file.                    *)
AddAtoms(new) ==
    LET n == Len(file.atoms)
        ids == [i \in DOMAIN new |-> n + i]
    IN  /\ file' = [atoms |-> file.atoms \o [i \in DOMAIN new |-> new[i].atom],
                    addr |-> file.addr \o [i \in DOMAIN new |-> 0]]
        /\ order' = order \o ids
        /\ content' = content \o [i \in DOMAIN new |-> Blank(new[i])]

PointerSize == IF arch \in {"x86_64", "arm64"} THEN 8 ELSE 4
PointerKind == IF arch \in {"x86_64", "arm64"} THEN "pointer64" ELSE "pointer32"

(* StubInfo: sizes, and the references inside a stub, a helper and the     *)
(* code the helpers share.                                                 *)
StubInfo ==
    CASE arch = "x86_64" ->
           [stub |-> [size |-> 6, refs |-> <<To(2, "ripRel32", "lp", 0)>>],
            helper |-> [size |-> 10, imm |-> 1, branch |-> To(6, "branch32", "common", 0)],
            common |-> [size |-> 16, refs |-> <<To(3, "ripRel32", "cache", 0),
                                                To(11, "ripRel32", "binder", 0)>>]]
      [] arch = "x86" ->
           [stub |-> [size |-> 6, refs |-> <<To(2, "abs32", "lp", 0)>>],
            helper |-> [size |-> 10, imm |-> 1, branch |-> To(6, "branch32", "common", 0)],
            common |-> [size |-> 12, refs |-> <<To(1, "abs32", "cache", 0),
                                                To(7, "abs32", "binder", 0)>>]]
      [] arch = "arm64" ->
           [stub |-> [size |-> 12, refs |-> <<To(0, "page21", "lp", 0), To(4, "offset12scale8", "lp", 0)>>],
            helper |-> [size |-> 12, imm |-> 8, branch |-> To(4, "branch26", "common", 0)],
            common |-> [size |-> 24, refs |-> <<To(0, "page21", "cache", 0), To(4, "offset12", "cache", 0),
                                                To(12, "page21", "binder", 0),
                                                To(16, "offset12scale8", "binder", 0)>>]]
      [] OTHER ->
           [stub |-> [size |-> 16, refs |-> <<To(12, "delta32", "lp", 0)>>],
            helper |-> [size |-> 12, imm |-> 8, branch |-> To(4, "arm_b24", "common", 0)],
            common |-> [size |-> 36, refs |-> <<To(28, "delta32", "cache", 12),
                                                To(32, "delta32", "binder", 4)>>]]

Bind(rs, where) == [i \in DOMAIN rs |-> [rs[i] EXCEPT !.target = where[@]]]

(* Calls to shared libraries and to interposable functions.                *)
NeedsStub(a) == Undefined(file, a) \/ file.atoms[a].interpose
CallSites == {<<a, i>> \in (DOMAIN refs) \X (1..4) : i \in DOMAIN refs[a] /\ IsCallSite(refs[a][i].kind)}
StubTargets ==
    SetToSortSeq({refs[c[1]][c[2]].target : c \in {d \in CallSites : NeedsStub(refs[d[1]][d[2]].target)}}, <)

(* Mutant: the entry's terminating opcode is not counted.                  *)
LazyOffsetWithoutDone(targets, i) ==
    FoldLeft(LAMBDA n, t : n + file.atoms[t].name + 11, 0, SubSeq(targets, 1, i - 1))

(* What a target's helper tells the binder: the offset of its entry in the *)
(* lazy binding info that the writer will make.                            *)
LazyOffset(targets, i) ==
    FoldLeft(LAMBDA n, t : n + file.atoms[t].name + 12, 0, SubSeq(targets, 1, i - 1))

CommonAtoms(n) ==
    <<Fresh(NewAtom("helper", StubInfo.common.size, 4),
            Bind(StubInfo.common.refs, [cache |-> n + 3, binder |-> n + 2])),
      Fresh(NewAtom("got", PointerSize, PointerSize), <<To(0, PointerKind, given.binder, 0)>>),
      Fresh(NewAtom("got", PointerSize, PointerSize), <<>>)>>
StubAtoms(targets, i, n) ==
    LET stub == n + 3 * i + 1
        lp == stub + 1
        helper == stub + 2
    IN  <<Fresh(NewAtom("stub", StubInfo.stub.size, 4), Bind(StubInfo.stub.refs, [lp |-> lp])),
          Fresh(NewAtom("lp", PointerSize, PointerSize),
                <<To(0, PointerKind, helper, 0), To(0, "lazyPointer", targets[i], 0)>>),
          Fresh(NewAtom("helper", StubInfo.helper.size, 4),
                <<To(StubInfo.helper.imm, "lazyImmediateLocation", helper, LazyOffset(targets, i)),
                  [StubInfo.helper.branch EXCEPT !.target = n + 1]>>)>>

ToStubs(targets, n) ==
    [a \in DOMAIN refs |->
       [i \in DOMAIN refs[a] |->
          LET r == refs[a][i]
              k == CHOOSE j \in DOMAIN targets : targets[j] = r.target
          IN  IF IsCallSite(r.kind) /\ NeedsStub(r.target) THEN [r EXCEPT !.target = n + 3 * k + 1] ELSE r]]

StubsPass ==
    /\ Linked
    /\ LET targets == StubTargets
           n == Len(file.atoms)
           new == IF targets = <<>> THEN <<>>
                  ELSE CommonAtoms(n) \o FlattenSeq([i \in DOMAIN targets |-> StubAtoms(targets, i, n)])
       IN  /\ AddAtoms(new)
           /\ refs' = ToStubs(targets, n) \o [i \in DOMAIN new |-> new[i].refs]
    /\ phase' = "stubs"
    /\ UNCHANGED <<given, recs, segments, trie>>

(* Mutant: only loads that cannot be rewritten get an entry.               *)
OnlyWhereNoBypass(r) == ~CanBypassGOT(r.kind)
(* shouldReplaceTargetWithGOTAtom                                          *)
NeedsGOTEntry(r) == NeedsStub(r.target) \/ ~CanBypassGOT(r.kind)
GOTTargets ==
    SetToSortSeq({refs[a][i].target : <<a, i>> \in
                    {p \in (DOMAIN refs) \X (1..4) : /\ p[2] \in DOMAIN refs[p[1]]
                                                     /\ IsGOTAccess(refs[p[1]][p[2]].kind)
                                                     /\ NeedsGOTEntry(refs[p[1]][p[2]])}}, <)
GOTPass ==
    /\ phase = "stubs"
    /\ LET targets == GOTTargets
           n == Len(file.atoms)
           entry(t) == n + (CHOOSE j \in DOMAIN targets : targets[j] = t)
           new == [i \in DOMAIN targets |-> Fresh(NewAtom("got", PointerSize, PointerSize),
                                                  <<To(0, PointerKind, targets[i], 0)>>)]
           update(r) ==
             IF ~IsGOTAccess(r.kind) THEN r
             ELSE IF NeedsGOTEntry(r)
             THEN [r EXCEPT !.target = entry(@), !.kind = UpdateReferenceToGOT(@, TRUE)]
             ELSE [r EXCEPT !.kind = UpdateReferenceToGOT(@, FALSE)]
       IN  /\ AddAtoms(new)
           /\ refs' = [a \in DOMAIN refs |-> [i \in DOMAIN refs[a] |-> update(refs[a][i])]]
                      \o [i \in DOMAIN new |-> new[i].refs]
    /\ phase' = "got"
    /\ UNCHANGED <<given, recs, segments, trie>>

(* ShimPass: a branch that cannot change the instruction set goes to a     *)
(* shim, one for each target.                                              *)
NeedsShim(a, r) ==
    /\ arch = "arm" /\ ARM!IsNonCallBranch(r.kind) /\ ~Undefined(file, r.target)
    /\ file.atoms[a].thumb # file.atoms[r.target].thumb
ShimTargets ==
    SetToSortSeq({refs[a][i].target : <<a, i>> \in
                    {p \in (DOMAIN refs) \X (1..4) : /\ p[2] \in DOMAIN refs[p[1]]
                                                     /\ NeedsShim(p[1], refs[p[1]][p[2]])}}, <)
(* createShim: the delta is added to the pc; the bytes of the thumb shim   *)
(* are an "add pc, pc" where its comment says "add ip, pc, ip".            *)
Shim(target) ==
    LET thumb == ~file.atoms[target].thumb
    IN  [atom |-> [NewAtom("code", IF thumb THEN 12 ELSE 16, 4) EXCEPT !.thumb = thumb, !.exec = TRUE],
         refs |-> <<To(IF thumb THEN 8 ELSE 12, "delta32", target, 0)>>,
         code |-> IF thumb THEN "add pc, pc" ELSE "add ip, pc, ip"]
ShimPass ==
    /\ phase = "got"
    /\ LET targets == ShimTargets
           n == Len(file.atoms)
           shim(t) == n + (CHOOSE j \in DOMAIN targets : targets[j] = t)
           new == [i \in DOMAIN targets |-> Shim(targets[i])]
       IN  /\ AddAtoms(new)
           /\ refs' = [a \in DOMAIN refs |-> [i \in DOMAIN refs[a] |->
                          IF NeedsShim(a, refs[a][i]) THEN [refs[a][i] EXCEPT !.target = shim(@)]
                          ELSE refs[a][i]]]
                      \o [i \in DOMAIN new |-> new[i].refs]
    /\ phase' = "shims"
    /\ UNCHANGED <<given, recs, segments, trie>>

(***************************************************************************)
(* The image.                                                              *)
(***************************************************************************)
WriteImage ==
    /\ phase = "shims"
    /\ LET laid == AssignAddresses(OrganizeSections(AssignAtomsToSections(file.atoms, order)), HeaderSize)
           f == [file EXCEPT !.addr = [a \in DOMAIN @ |-> IF Undefined(file, a) THEN 0
                                                         ELSE ImageAddresses(laid)[a]]]
       IN  /\ segments' = laid
           /\ file' = f
           /\ content' = [a \in DOMAIN content |-> IF Undefined(f, a) THEN content[a]
                                                   ELSE Fixed(f, a, FALSE)]
    /\ trie' = BuildExportTrie(given.exports)
    /\ phase' = "image"
    /\ UNCHANGED <<given, order, refs, recs>>

(* Mutant: a pointer to an anonymous place is not relocated.               *)
NamedPointer(kind) == kind \in {"pointer64", "pointer32"}

(* addRebaseAndBindingInfo and buildLazyBindInfo, in the order of the      *)
(* image's sections.                                                       *)
IsPointer(kind) ==
    kind \in (CASE arch = "x86_64" -> {"pointer64", "pointer64Anon"} [] arch = "arm64" -> {"pointer64"}
                [] OTHER -> {"pointer32"})
ImageAtoms == FlattenSeq([i \in DOMAIN segments |-> FlattenSeq([j \in DOMAIN segments[i].sections |->
    LET placed == segments[i].sections[j].atoms IN [k \in DOMAIN placed |-> placed[k].atom]])])
Locations == FlattenSeq([i \in DOMAIN ImageAtoms |->
    LET a == ImageAtoms[i]
    IN  [j \in DOMAIN refs[a] |-> [atom |-> a, off |-> refs[a][j].off, kind |-> refs[a][j].kind,
                                   target |-> refs[a][j].target, addend |-> refs[a][j].addend]]])
RebasingInfo == SelectSeq(Locations, LAMBDA r : IsPointer(r.kind) /\ ~Undefined(file, r.target))
BindingInfo == SelectSeq(Locations, LAMBDA r : IsPointer(r.kind) /\ Undefined(file, r.target))
LazyBindingInfo == SelectSeq(Locations, LAMBDA r : r.kind = "lazyPointer")
LazyEntryOffset(i) ==
    FoldLeft(LAMBDA n, b : n + file.atoms[b.target].name + 12, 0, SubSeq(LazyBindingInfo, 1, i - 1))

Init ==
    /\ given \in Scenarios
    /\ phase = "object"
    /\ file = [atoms |-> given.atoms, addr |-> given.addr]
    /\ order = SelectSeq([a \in DOMAIN given.atoms |-> a], LAMBDA a : given.atoms[a].size > 0)
    /\ refs = [a \in DOMAIN given.atoms |-> <<>>]
    /\ content = given.content
    /\ recs = given.recs
    /\ segments = <<>>
    /\ trie = <<>>

Next == ConvertRelocs \/ WriteRelocatable \/ StubsPass \/ GOTPass \/ ShimPass \/ WriteImage
Spec == Init /\ [][Next]_vars


(***************************************************************************)
(* What a processor and the dynamic loader make of a linked Mach-O image,  *)
(* written from the instruction sets and not from the handlers, and what   *)
(* it must be for the references the object was written for ("uses").      *)
(***************************************************************************)

Uses == ToSet(given.uses)
Fixup(u) == file.addr[u.atom] + u.off
Stored(u) == content[u.atom][u.off]
Bit(t) == IF ~Undefined(file, t) /\ file.atoms[t].thumb THEN 1 ELSE 0

(* The value of a pointer once the loader has bound the image.             *)
AtSymbol(t, addend) == [sym |-> t, at |-> addend]
At(addr) == [sym |-> 0, at |-> addr]
Loaded(a, off) ==
    LET bound == {b \in ToSet(BindingInfo) : b.atom = a /\ b.off = off}
    IN  IF bound # {} THEN AtSymbol((CHOOSE b \in bound : TRUE).target, (CHOOSE b \in bound : TRUE).addend)
        ELSE At(content[a][off].imm)
Meant(u) == IF Undefined(file, u.target) THEN AtSymbol(u.target, u.addend)
            ELSE At(U(file.addr[u.target] + u.addend + Bit(u.target)))

Calls == {u \in Uses : IsCallSite(u.kind)}
Pointers == {u \in Uses : u.kind \in {"pointer64", "pointer64Anon", "pointer32", "abs32"}}
GotUses == {u \in Uses : u.kind \in {"ripRel32GotLoad", "ripRel32Got", "gotPage21", "gotOffset12",
                                     "pointer64ToGOT", "delta32ToGOT"}}

(* An instruction or a word designates an address, or its own part of it.  *)
After == [ripRel32Minus1 |-> 5, ripRel32Minus2 |-> 6, ripRel32Minus4 |-> 8]
Access == [add |-> 1, ldrb |-> 1, ldrh |-> 2, ldrw |-> 4, ldr |-> 8, ldrq |-> 16, data |-> 1]
Designates(u, addr) ==
    LET imm == Stored(u).imm
        self == file.addr[u.atom]
    IN  CASE arch = "x86_64" /\ u.kind \in {"delta64", "delta64Anon", "delta32", "delta32Anon"} ->
               Fixup(u) + S(imm) = addr
          [] arch = "x86_64" ->
               Fixup(u) + (IF u.kind \in DOMAIN After THEN After[u.kind] ELSE 4) + S(imm) = addr
          [] u.kind \in {"page21", "gotPage21"} -> Fixup(u) \div Page + imm = addr \div Page
          [] u.kind \in {"pointer64ToGOT"} -> imm = addr
          [] arch = "arm64" /\ u.kind \notin {"delta64", "delta32", "delta32ToGOT"} ->
               imm * Access[Stored(u).op] = addr % Page
          [] u.kind \in {"thumb_movw", "arm_movw"} -> imm = addr % Half
          [] u.kind \in {"thumb_movt", "arm_movt"} -> imm = addr \div Half
          [] u.kind \in {"thumb_movw_funcRel", "arm_movw_funcRel"} -> imm = U(addr - self) % Half
          [] u.kind \in {"thumb_movt_funcRel", "arm_movt_funcRel"} -> imm = U(addr - self) \div Half
          [] u.kind = "branch16" -> Fixup(u) + 2 + S(imm) = addr
          [] u.kind = "funcRel32" -> self + S(imm) = addr
          [] u.kind = "negDelta32" -> Fixup(u) - S(imm) = addr
          [] OTHER -> Fixup(u) + S(imm) = addr

(* A pointer to the target, made by the linker and filled by the loader.   *)
GOTEntries(u) ==
    {g \in DOMAIN file.atoms : file.atoms[g].type = "got" /\ content[g] # <<>> /\ Loaded(g, 0) = Meant(u)}
Direct(u) == ~Undefined(file, u.target) /\ Designates(u, Meant(u).at)

(* Where a branch goes, and in which instruction set.                      *)
Destination(u) ==
    LET op == Stored(u).op
        imm == Stored(u).imm
        thumb == file.atoms[u.atom].thumb
    IN  [at |-> CASE arch = "arm64" -> Fixup(u) + 4 * imm
                  [] arch \in {"x86_64", "x86"} -> Fixup(u) + 4 + S(imm)
                  [] thumb -> IF op = "blx" THEN RoundDown(Fixup(u) + 4, 4) + imm ELSE Fixup(u) + 4 + imm
                  [] OTHER -> Fixup(u) + 8 + imm,
         thumb |-> IF op = "blx" THEN ~thumb ELSE thumb]

AtomOfType(type, addr) == {a \in DOMAIN file.atoms : file.atoms[a].type = type /\ file.addr[a] = addr}

(* A shim adds its word to the pc, and branches to the sum.                *)
ThroughShim(d) ==
    LET shims == {a \in AtomOfType("code", d.at) : ~file.atoms[a].named}
        shim == CHOOSE a \in shims : TRUE
        word == CHOOSE off \in DOMAIN content[shim] : TRUE
        sum == file.addr[shim] + word + S(content[shim][word].imm)
    IN  IF shims = {} THEN d
        ELSE IF content[shim][word].op # "add ip, pc, ip" THEN [at |-> -1, thumb |-> FALSE]
        ELSE [at |-> sum - (sum % 2), thumb |-> sum % 2 = 1]

(* The lazy pointer a stub jumps through.                                  *)
LazyPointerOf(stub) ==
    LET c == content[stub]
        addr == file.addr[stub]
    IN  CASE arch = "x86_64" -> addr + 6 + S(c[2].imm)
          [] arch = "x86" -> c[2].imm
          [] arch = "arm64" -> (addr \div Page + c[0].imm) * Page + 8 * c[4].imm
          [] OTHER -> addr + 12 + S(c[12].imm)

(* The first call reaches the helper, which tells the binder where in the  *)
(* lazy binding info the entry of this pointer and this target begins.     *)
BindsOnFirstCall(lp, target) ==
    \E helper \in AtomOfType("helper", content[lp][0].imm) :
      LET said == content[helper][StubInfo.helper.imm].imm
      IN  \E i \in DOMAIN LazyBindingInfo :
            /\ LazyEntryOffset(i) = said
            /\ LazyBindingInfo[i].atom = lp /\ LazyBindingInfo[i].target = target

(***************************************************************************)
(* Every fixup of the image designates what the object meant: the target,  *)
(* its thumb bit included, or, for a GOT access, an entry that the loader  *)
(* makes point to it; only a load that became an address computation may   *)
(* bypass the entry.                                                       *)
(***************************************************************************)
Designated(u) ==
    CASE u \in Calls -> TRUE
      [] u \in Pointers -> Loaded(u.atom, u.off) = Meant(u)
      [] u \in GotUses -> IF Stored(u).op \in {"lea", "add"} \/ (u.kind = "gotPage21" /\ GOTEntries(u) = {})
                          THEN Direct(u)
                          ELSE \E g \in GOTEntries(u) : Designates(u, file.addr[g])
      [] OTHER -> Direct(u)
ImageDesignates == phase = "image" => \A u \in Uses : Designated(u)

(***************************************************************************)
(* Every call arrives at its target in the target's instruction set; a     *)
(* call of a shared library's function goes through a stub whose pointer   *)
(* the binder fills with that function, and no other's.                    *)
(***************************************************************************)
Arrives(u) ==
    LET d == ThroughShim(Destination(u))
    IN  IF NeedsStub(u.target)
        THEN \E stub \in AtomOfType("stub", d.at) :
               /\ ~d.thumb
               /\ \E lp \in AtomOfType("lp", LazyPointerOf(stub)) : BindsOnFirstCall(lp, u.target)
        ELSE d.at = file.addr[u.target] + u.addend /\ d.thumb = file.atoms[u.target].thumb
CallsArrive == phase = "image" => \A u \in Calls : Arrives(u)

(***************************************************************************)
(* An image that is loaded elsewhere still works: every word that holds an *)
(* absolute address is either bound or rebased, once, and nothing else is. *)
(* An i386 or arm64 instruction's absolute operand is not a pointer.       *)
(***************************************************************************)
AbsoluteWords ==
    {<<a, 0>> : a \in {b \in DOMAIN file.atoms : file.atoms[b].type \in {"got", "lp"} /\ content[b] # <<>>}}
      \cup {<<u.atom, u.off>> : u \in {v \in Pointers : v.kind # "abs32"}}
Slides ==
    phase = "image" =>
      LET fixed == RebasingInfo \o BindingInfo
      IN  /\ {<<b.atom, b.off>> : b \in ToSet(fixed)} = AbsoluteWords
          /\ Len(fixed) = Cardinality(AbsoluteWords)

(***************************************************************************)
(* What -r writes is the object again: reading it gives the references     *)
(* that the first reading gave.                                            *)
(***************************************************************************)
SameReference(r, u) == r.kind = u.kind /\ r.target = u.target /\ U(r.addend) = U(u.addend)
RoundTrip ==
    /\ phase # "error"
    /\ phase \in {"atoms", "read again"} =>
         \A a \in DOMAIN refs :
           LET mine == SelectSeq(given.uses, LAMBDA u : u.atom = a)
           IN  /\ Len(refs[a]) = Len(mine)
               /\ \A i \in DOMAIN mine : refs[a][i].off = mine[i].off /\ SameReference(refs[a][i], mine[i])

(***************************************************************************)
(* No two atoms of an image share an address, none lies over the headers,  *)
(* no two segments share a page, in memory or in the file.                 *)
(***************************************************************************)
Pages(from, size) == {n \div PageSize : n \in {from + i : i \in 0..(size - 1)}}
LoadedApart ==
    phase = "image" =>
      /\ \A a \in ToSet(order) : \A b \in ToSet(order) :
           a = b \/ file.addr[a] + file.atoms[a].size <= file.addr[b]
                 \/ file.addr[b] + file.atoms[b].size <= file.addr[a]
      /\ \A a \in ToSet(order) :
           /\ file.addr[a] >= segments[1].address + HeaderSize
           /\ file.addr[a] % file.atoms[a].align = file.atoms[a].modulus
      /\ \A i, j \in DOMAIN segments : i < j =>
           /\ Pages(segments[i].address, segments[i].size)
                \cap Pages(segments[j].address, segments[j].size) = {}
           /\ FileOffsets(segments)[i] + segments[i].size <= FileOffsets(segments)[j]

(***************************************************************************)
(* The loader finds every exported name, and no prefix of one that is not  *)
(* exported, in whatever order the names were put into the trie.           *)
(***************************************************************************)
EveryExportIsFound ==
    phase = "image" =>
      \A name \in UNION {Prefixes(e) : e \in ToSet(given.exports)} :
        Found(trie, name) <=> name \in ToSet(given.exports)

(***************************************************************************)
(* In the written image every use of an atom leads to it: data, addresses  *)
(* in code and GOT loads directly, calls also by stubs and shims.          *)
(***************************************************************************)
UsesReachTheirAtoms == ImageDesignates /\ CallsArrive

(***************************************************************************)
(* What dyld does with the image comes out right: it maps the segments     *)
(* apart, slides and binds every pointer and finds every export.           *)
(***************************************************************************)
ImageLoadsAnywhere == Slides /\ LoadedApart /\ EveryExportIsFound
=============================================================================
