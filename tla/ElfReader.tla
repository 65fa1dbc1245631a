----------------------------- MODULE ElfReader -----------------------------
(***************************************************************************)
(* ELFFile::doParse and the atoms of Atoms.h: a relocatable object is cut  *)
(* into atoms at its symbols.  All the references of a file are in one     *)
(* vector, and an atom owns a range of it: a reference can be added to an  *)
(* atom only while nobody else has added one.                              *)
(*                                                                         *)
(* An object has sections, symbols and the options it is read with:        *)
(*   sections  name, type, flags, align, size, and, by type, strings (the  *)
(*             sizes of the zero-terminated ones), members and signature   *)
(*             of a group, target and entries of relocations               *)
(*   symbols   name, sec (a section, or UNDEF, ABS, COMMON), value, bind,  *)
(*             type, hidden, size                                          *)
(* A file in the making also knows which atom stands for a symbol.         *)
(***************************************************************************)
EXTENDS Integers, Sequences, FiniteSets, SequencesExt

UNDEF == 0
ABS == -1
COMMON == -2

NewFile == [atoms |-> <<>>, refs |-> <<>>, ordinal |-> 0, symbolAtom |-> <<>>, wrap |-> <<>>,
            relocs |-> <<>>, merge |-> <<>>, held |-> <<>>, secSyms |-> <<>>, order |-> <<>>,
            groupOf |-> <<>>, redirected |-> <<>>, failed |-> FALSE]
Put(f, key, value) == [k \in DOMAIN f \cup {key} |-> IF k = key THEN value ELSE f[k]]
Lookup(f, key, default) == IF key \in DOMAIN f THEN f[key] ELSE default

-----------------------------------------------------------------------------
(* The sections.                                                           *)
IsIgnoredSection(sec) == sec.type \in {"null", "strtab", "symtab"}
IsGnuLinkOnceSection(sec) == sec.name \in {".gnu.linkonce.t.f", ".gnu.linkonce.t.g"}
IsGroupSection(sec) == sec.type = "group"
IsSectionMemberOfGroup(sec) == "group" \in sec.flags
IsMergeableStringSection(o, k) ==
    /\ o.mergeStrings /\ k \in DOMAIN o.sections
    /\ o.sections[k].flags \ {"alloc"} = {"merge", "strings"}
HandleSectionWithNoSymbols(sec, syms) == sec.type = "progbits" /\ syms = <<>>

(* Relocations are found again by the NAME of the section they apply to.   *)
CreateAtomizableSections(f, o) ==
    LET enter(g, k) ==
          LET sec == o.sections[k]
          IN  IF IsIgnoredSection(sec) \/ IsMergeableStringSection(o, k) THEN g
              ELSE IF sec.type = "rela"
              THEN [g EXCEPT !.relocs = Put(@, o.sections[sec.target].name, sec.entries)]
              ELSE [g EXCEPT !.secSyms = Put(@, k, <<>>), !.order = Append(@, k)]
    IN  FoldLeft(enter, f, [k \in DOMAIN o.sections |-> k])

-----------------------------------------------------------------------------
(* The atoms.                                                              *)
Sym(o, s) == o.symbols[s]
SymbolAtom(def, name, sec, s, value, size, bind, hidden) ==
    [def |-> def, name |-> name, sec |-> sec, shndx |-> sec, sym |-> s, value |-> value, size |-> size,
     bind |-> bind, hidden |-> hidden, start |-> 0, end |-> 0, ord |-> 0, added |-> TRUE]

AddAtom1(f, atom) == [f EXCEPT !.atoms = Append(@, atom)]
SetOrdinal(f, a) == [f EXCEPT !.ordinal = @ + 1, !.atoms[a].ord = f.ordinal + 1]

(* The range of a new atom is what was entered since it was begun.         *)
AddReference(f, a, ref) ==
    [f EXCEPT !.refs = Append(@, ref), !.atoms[a].end = Len(f.refs) + 1]
Edge(kind, target) == [kind |-> kind, src |-> 0, sym |-> 0, off |-> 0, addend |-> 0, target |-> target]
OwnReferences(f, a) == {i \in DOMAIN f.refs : f.atoms[a].start < i /\ i <= f.atoms[a].end}

CreateRelocationReferences(f, name, value, size) ==
    LET inside(r) == value <= r.offset /\ r.offset < value + size
        here == SelectSeq(Lookup(f.relocs, name, <<>>), inside)
    IN  [k \in DOMAIN here |-> [kind |-> "elf", src |-> Len(f.atoms) + 1, sym |-> here[k].sym,
                                off |-> here[k].offset - value, addend |-> here[k].addend, target |-> 0]]
CreateDefinedAtomAndAssignRelocations(f, o, atom) ==
    LET refs == f.refs \o CreateRelocationReferences(f, o.sections[atom.sec].name, atom.value, atom.size)
    IN  [f EXCEPT !.refs = refs,
                  !.atoms = Append(@, [atom EXCEPT !.start = Len(f.refs), !.end = Len(refs)])]

CreateSectionAtom(f, o, k) ==
    LET atom == SymbolAtom("defined", "", k, 0, 0, o.sections[k].size, "local", FALSE)
    IN  CreateDefinedAtomAndAssignRelocations(f, o, [atom EXCEPT !.shndx = 0])

(* A mergeable section is cut behind every zero; what follows the last one *)
(* is dropped.                                                             *)
CreateMergeableAtoms(f, o) ==
    LET token(g, x) ==
          LET q == AddAtom1(g, SymbolAtom("merge", "", x.sec, 0, x.at, x.size, "local", FALSE))
          IN  [SetOrdinal(q, Len(q.atoms)) EXCEPT !.merge = Append(@, Len(q.atoms))]
        start(strings, i) == FoldLeft(LAMBDA n, j : n + strings[j], 0, [j \in 1..(i - 1) |-> j])
        tokens(k) == LET z == o.sections[k].strings
                     IN  [i \in DOMAIN z |-> [sec |-> k, at |-> start(z, i), size |-> z[i]]]
        all == FlattenSeq([k \in DOMAIN o.sections |->
                             IF IsMergeableStringSection(o, k) THEN tokens(k) ELSE <<>>])
    IN  FoldLeft(token, f, all)

(* --wrap: a call of f becomes one of __wrap_f, one of __real_f one of f.  *)
CreateAtomsFromContext(f, o) ==
    LET undefined(name) == SymbolAtom("undefined", name, UNDEF, 0, 0, 0, "global", FALSE)
        wrap(g, n) ==
          LET q == AddAtom1(AddAtom1(g, undefined(n)), undefined("__wrap_" \o n))
              last == Len(q.atoms)
          IN  [q EXCEPT !.wrap = Put(Put(@, n, last), "__real_" \o n, last - 1)]
    IN  FoldLeft(wrap, f, o.wrap)

(* The symbols that are not in a section are atoms at once.                *)
CreateSymbolsFromAtomizableSections(f, o) ==
    LET atom(g, s, def) ==
          LET y == Sym(o, s)
              q == AddAtom1(g, SymbolAtom(def, y.name, y.sec, s, y.value, y.size, y.bind, y.hidden))
          IN  [q EXCEPT !.symbolAtom = Put(@, s, Len(q.atoms))]
        enter(g, s) ==
          LET y == Sym(o, s)
          IN  CASE g.failed -> g
                [] y.sec = ABS -> atom(g, s, "absolute")
                [] y.sec = UNDEF /\ y.name \in DOMAIN g.wrap ->
                     [g EXCEPT !.symbolAtom = Put(@, s, g.wrap[y.name])]
                [] y.sec = UNDEF /\ y.name \notin DOMAIN g.wrap -> atom(g, s, "undefined")
                [] y.sec = COMMON \/ (y.sec > 0 /\ y.type = "common") ->
                     LET q == atom(g, s, "common") IN SetOrdinal(q, Len(q.atoms))
                [] y.sec > 0 /\ y.type = "other" -> [g EXCEPT !.failed = TRUE]
                [] OTHER -> [g EXCEPT !.secSyms = Put(@, y.sec, Append(Lookup(@, y.sec, <<>>), s)),
                                      !.order = IF y.sec \in DOMAIN g.secSyms THEN @ ELSE Append(@, y.sec)]
    IN  FoldLeft(enter, f, [s \in DOMAIN o.symbols |-> s])

-----------------------------------------------------------------------------
(* The atoms of one section.                                               *)

(* Atoms of a group or of a .gnu.linkonce section are held back.           *)
Held(f, o, a) ==
    LET sec == o.sections[f.atoms[a].sec]
    IN  IF ~IsGnuLinkOnceSection(sec) /\ ~IsSectionMemberOfGroup(sec) THEN f
        ELSE [f EXCEPT !.held = Put(@, sec.name, Append(Lookup(@, sec.name, <<>>), a)),
                       !.atoms[a].added = FALSE]
Finish(f, o, a) == Held(SetOrdinal(f, a), o, a)

SymbolContentSize(o, k, syms, i) ==
    (IF i < Len(syms) THEN Sym(o, syms[i + 1]).value ELSE o.sections[k].size) - Sym(o, syms[i]).value

(* The last atom of f is in the chain of its section: the atom before it   *)
(* leads to it, or to the anonymous atom that a weak symbol lies before.   *)
Chained(f, o, sym, anon, followOn) ==
    LET new == Len(f.atoms)
        next == IF anon # 0 THEN anon ELSE new
        f1 == IF anon # 0 THEN AddReference(f, new, Edge("after", anon)) ELSE f
        f2 == IF followOn # 0 THEN [f1 EXCEPT !.refs[followOn].target = next] ELSE f1
        f3 == [Finish(f2, o, new) EXCEPT !.symbolAtom = Put(@, sym, new)]
    IN  IF anon # 0 THEN Finish(f3, o, anon) ELSE f3

(* A weak symbol may be replaced, and so keeps no content: an anonymous    *)
(* atom holds it, and takes the symbol's place in the chain of atoms.      *)
ReadSymbol(m, o, k, syms, i) ==
    LET y == Sym(o, syms[i])
        weak == y.bind = "weak"
        size == SymbolContentSize(o, k, syms, i)
        atom == SymbolAtom("defined", IF y.type = "section" THEN "" ELSE y.name, k, syms[i], y.value,
                           IF weak THEN 0 ELSE size, y.bind, y.hidden)
        follows == m.prev # 0 /\ m.anonFollowedBy = 0
        f1 == IF follows THEN AddReference(m.f, m.prev, Edge("after", 0)) ELSE m.f
        followOn == IF follows THEN Len(f1.refs) ELSE m.anonFollowedBy
        f2 == IF weak THEN CreateDefinedAtomAndAssignRelocations(f1, o,
                             [atom EXCEPT !.name = "", !.bind = "global", !.size = size])
              ELSE f1
        anon == IF weak THEN Len(f2.atoms) ELSE 0
        f3 == IF weak /\ i < Len(syms) THEN AddReference(f2, anon, Edge("after", 0)) ELSE f2
        chained == Chained(CreateDefinedAtomAndAssignRelocations(f3, o, atom), o, syms[i], anon, followOn)
    IN  [f |-> chained, prev |-> IF weak THEN anon ELSE Len(chained.atoms),
         anonFollowedBy |-> IF weak /\ i < Len(syms) THEN Len(f3.refs) ELSE 0]

(* A global symbol of a mergeable section is an atom of its own, besides   *)
(* the string it points to.                                                *)
ReadMergeableSymbol(f, o, k, syms, i) ==
    LET y == Sym(o, syms[i])
        n == Len(f.refs)
        atom == [SymbolAtom("defined", y.name, k, syms[i], y.value, SymbolContentSize(o, k, syms, i),
                            y.bind, y.hidden) EXCEPT !.start = n, !.end = n]
        q == AddAtom1(f, atom)
    IN  IF y.bind # "global" THEN f ELSE Finish(q, o, Len(q.atoms))

ByValue(o, syms) ==
    LET before(i, j) == \/ Sym(o, syms[i]).value < Sym(o, syms[j]).value
                        \/ Sym(o, syms[i]).value = Sym(o, syms[j]).value /\ i < j
        sorted == SortSeq([i \in DOMAIN syms |-> i], before)
    IN  [i \in DOMAIN syms |-> syms[sorted[i]]]

ReadSection(f, o, k) ==
    LET syms == ByValue(o, f.secSyms[k])
        each == [i \in DOMAIN syms |-> i]
        whole == CreateSectionAtom(f, o, k)
    IN  IF IsGroupSection(o.sections[k]) THEN f
        ELSE IF HandleSectionWithNoSymbols(o.sections[k], syms) THEN Finish(whole, o, Len(whole.atoms))
        ELSE IF IsMergeableStringSection(o, k)
        THEN FoldLeft(LAMBDA g, i : ReadMergeableSymbol(g, o, k, syms, i), f, each)
        ELSE FoldLeft(LAMBDA m, i : ReadSymbol(m, o, k, syms, i),
                      [f |-> f, prev |-> 0, anonFollowedBy |-> 0], each).f

-----------------------------------------------------------------------------
(* Groups: one atom for the signature, with an edge to every atom of the   *)
(* members, which are looked up by the names of their sections.            *)
CreateGroupAtom(f, o, k, name, names) ==
    LET children == FlattenSeq([i \in DOMAIN names |-> Lookup(f.held, names[i], <<>>)])
        start == Len(f.refs)
        atom == [SymbolAtom("comdat", name, k, 0, 0, 0, "global", FALSE) EXCEPT
                    !.start = start, !.end = start]
        q == SetOrdinal(AddAtom1(f, atom), Len(f.atoms) + 1)
        owned == [q EXCEPT !.held = [n \in DOMAIN @ |-> IF n \in ToSet(names) THEN <<>> ELSE @[n]],
                           !.groupOf = [a \in DOMAIN @ \cup ToSet(children) |->
                                          IF a \in ToSet(children) THEN k ELSE @[a]]]
    IN  FoldLeft(LAMBDA g, a : AddReference(g, Len(q.atoms), Edge("child", a)), owned, children)

HandleSectionGroup(f, o, k) ==
    LET sec == o.sections[k]
    IN  IF ~IsGroupSection(sec) THEN f
        ELSE CreateGroupAtom(f, o, k, Sym(o, sec.signature).name,
                             [i \in DOMAIN sec.members |-> o.sections[sec.members[i]].name])
HandleGnuLinkOnceSection(f, o, k) ==
    LET sec == o.sections[k]
    IN  IF ~IsGnuLinkOnceSection(sec) THEN f ELSE CreateGroupAtom(f, o, k, sec.name, <<sec.name>>)

-----------------------------------------------------------------------------
(* The targets of the references, once there are all atoms.                *)

(* A reference into a group from outside of it goes by name: the group may *)
(* be dropped for that of another file.                                    *)
RedirectReferenceBetweenGroups(f, o, src, target) ==    \* not from outside of all groups
    LET t == f.symbolAtom[target]
    IN  /\ t \in DOMAIN f.groupOf /\ src \in DOMAIN f.groupOf
        /\ f.groupOf[src] # f.groupOf[t]
RedirectReferenceUsingUndefAtom(f, o, src, target) ==
    LET t == f.symbolAtom[target]
        inGroup(a) == a \in DOMAIN f.groupOf
    IN  /\ inGroup(t) /\ f.atoms[src].shndx # Sym(o, target).sec
        /\ inGroup(src) => f.groupOf[src] # f.groupOf[t]

FindAtom(f, o, i) ==
    LET ref == f.refs[i]
        t == f.symbolAtom[ref.sym]
        name == f.atoms[t].name
        local == f.atoms[t].bind = "local" /\ ~f.atoms[t].hidden
        q == AddAtom1(f, SymbolAtom("undefined", name, UNDEF, 0, 0, 0, "global", FALSE))
    IN  IF f.atoms[t].def # "defined" \/ local \/ ~RedirectReferenceUsingUndefAtom(f, o, ref.src, ref.sym)
        THEN [f EXCEPT !.refs[i].target = t]
        ELSE IF name \in DOMAIN f.redirected THEN [f EXCEPT !.refs[i].target = f.redirected[name]]
        ELSE [q EXCEPT !.refs[i].target = Len(q.atoms), !.redirected = Put(@, name, Len(q.atoms))]

(* The string that starts at the addend, or else the one that holds the    *)
(* symbol's value plus the addend.                                         *)
UpdateReferenceForMergeStringAccess(f, o, i) ==
    LET ref == f.refs[i]
        y == Sym(o, ref.sym)
        name(a) == o.sections[f.atoms[a].sec].name
        addend == IF ref.addend < 0 THEN 0 ELSE ref.addend
        here == SelectSeq(f.merge, LAMBDA a : name(a) = o.sections[y.sec].name)
        starts == SelectSeq(here, LAMBDA a : f.atoms[a].value = addend)
        at == IF y.type # "section" THEN y.value + addend ELSE addend
        holds == SelectSeq(here, LAMBDA a : /\ f.atoms[a].value <= at
                                            /\ at <= f.atoms[a].value + f.atoms[a].size)
    IN  IF starts # <<>> THEN [f EXCEPT !.refs[i].target = starts[1]]
        ELSE IF holds = <<>> THEN [f EXCEPT !.failed = TRUE]      \* an assertion
        ELSE [f EXCEPT !.refs[i] = [@ EXCEPT !.off = at - f.atoms[holds[1]].value,
                                             !.addend = 0, !.target = holds[1]]]

UpdateReferences(f, o) ==
    LET update(g, i) ==
          IF g.refs[i].kind # "elf" THEN g
          ELSE IF IsMergeableStringSection(o, Sym(o, g.refs[i].sym).sec)
          THEN UpdateReferenceForMergeStringAccess(g, o, i)
          ELSE FindAtom(g, o, i)
    IN  FoldLeft(update, f, [i \in DOMAIN f.refs |-> i])

CreateAtoms(f, o) ==
    LET each(g, Step(_, _, _)) == FoldLeft(LAMBDA h, k : Step(h, o, k), g, g.order)
    IN  UpdateReferences(each(each(each(f, ReadSection), HandleSectionGroup), HandleGnuLinkOnceSection), o)

DoParse(o) ==
    LET f == CreateAtomsFromContext(NewFile, o)
        g == CreateMergeableAtoms(CreateAtomizableSections(f, o), o)
        h == CreateSymbolsFromAtomizableSections(g, o)
    IN  IF h.failed THEN h ELSE CreateAtoms(h, o)

-----------------------------------------------------------------------------
(* What the atoms say of themselves.                                       *)
ContentType(o, atom) ==
    LET sec == o.sections[atom.sec]
        type == IF atom.sym = 0 THEN "section" ELSE Sym(o, atom.sym).type
        kind == sec.flags \ {"alloc", "group"}
    IN  CASE atom.def = "common" -> "zeroFill"
          [] atom.def = "merge" -> "constant"
          [] atom.def = "comdat" -> IF IsGroupSection(sec) THEN "groupComdat" ELSE "gnuLinkOnce"
          [] OTHER ->
             CASE "alloc" \notin sec.flags -> "noAlloc"
               [] sec.flags = {"alloc", "write", "tls"} ->
                    IF sec.type = "nobits" THEN "threadZeroFill" ELSE "threadData"
               [] sec.flags = {"alloc"} /\ sec.type = "progbits" -> "constant"
               [] sec.flags # {"alloc"} /\ type = "ifunc" -> "resolver"
               [] type # "ifunc" /\ sec.type = "nobits" -> "zeroFill"
               [] type # "ifunc" /\ sec.type \in {"init_array", "fini_array"} -> "data"
               [] type # "ifunc" /\ sec.type = "note" -> IF kind = {"write"} THEN "rwNote" ELSE "roNote"
               [] OTHER -> CASE kind = {"write"} -> "data"
                             [] kind # {} /\ kind \subseteq {"merge", "strings"} -> "constant"
                             [] OTHER -> "code"

Permissions(o, atom) ==
    LET sec == o.sections[atom.sec]
        kind == sec.flags \ {"alloc", "group"}
    IN  CASE atom.def = "common" -> {"A", "W"}
          [] atom.def = "merge" -> {"A"}
          [] OTHER ->
             CASE "alloc" \notin sec.flags -> {}
               [] sec.type \in {"nobits", "init_array", "fini_array"} -> {"A", "W"}
               [] sec.type \in {"progbits", "note"} /\ kind = {"exec"} -> {"A", "X"}
               [] sec.type \in {"progbits", "note"} /\ kind = {"exec", "write"} -> {"A", "X", "W"}
               [] sec.type \in {"progbits", "note"} /\ "write" \in kind -> {"A", "W"}
               [] sec.type \in {"progbits", "note"} -> {"A"}
               [] OTHER -> {}

(* The alignment of an atom is that of its section, shifted by its place.  *)
ElfAlignmentUnshifted(o, atom) ==                 \* forgets the place
    [value |-> CASE atom.def = "common" -> atom.value [] atom.def = "comdat" -> 1
                 [] OTHER -> o.sections[atom.sec].align, modulus |-> 0]
ElfAlignment(o, atom) ==
    LET align == o.sections[atom.sec].align
    IN  CASE atom.def = "common" -> [value |-> atom.value, modulus |-> 0]
          [] atom.def = "merge" -> [value |-> align, modulus |-> 0]
          [] atom.def = "comdat" -> [value |-> 1, modulus |-> 0]
          [] OTHER -> IF align = 0 THEN [value |-> 1, modulus |-> atom.value]
                      ELSE [value |-> align, modulus |-> atom.value % align]

SectionChoice(o, atom) ==
    LET name == o.sections[atom.sec].name
        type == ContentType(o, atom)
    IN  CASE atom.def = "common" -> ""
          [] atom.def = "merge" -> name
          [] type \in {"code", "data", "zeroFill", "threadZeroFill", "threadData", "constant"}
             /\ name \in {".text", ".data", ".bss", ".rodata", ".tdata", ".tbss"} -> ""
          [] atom.def = "defined" /\ type = "zeroFill" -> ".bss"
          [] OTHER -> name

Scope(atom) == IF atom.bind = "local" /\ ~atom.hidden THEN "local" ELSE "global"

=============================================================================
