---------------------------- MODULE MCElfWriter ----------------------------
(***************************************************************************)
(* Links for ElfWriter.  A page has 16 bytes; sections are aligned to at   *)
(* most a page, unless a link says otherwise.  Some links take their atoms *)
(* from an object that ElfReader has read.                                 *)
(***************************************************************************)
EXTENDS ElfWriter

Reader == INSTANCE ElfReader
NoObject == [read |-> FALSE]

RX == {A, X}
R == {A}
RW == {A, W}

Atom(name, sec, type, perm, size, align, scope, file) ==
    [name |-> name, sec |-> sec, type |-> type, perm |-> perm, size |-> size, align |-> align,
     mod |-> 0, scope |-> scope, file |-> file, export |-> FALSE, refs |-> <<>>]

Code(name, size, align) == Atom(name, "", "code", RX, size, align, "global", 1)
Bss(size, align) == Atom("b", "", "zeroFill", RW, size, align, "global", 1)
Constant(align) == Atom("c", "", "constant", R, 3, align, "local", 1)
Ref(target, kind) == [target |-> target, kind |-> kind, copy |-> FALSE]

Runs ==
    {<<Code("_init", n, 4), Atom("g", "", "code", RX, 3, 2, "local", 2)>> : n \in {5, 14}}
Datas == {
    <<>>,
    <<Atom("d", "", "data", RW, 5, 4, "global", 1), Bss(9, 8), Bss(2, 1)>>,
    <<Atom("t", "", "threadData", RW, 3, 4, "global", 1), Atom("z", "", "threadZeroFill", RW, 6, 4, "local", 1),
      Atom("i", ".init_array", "data", RW, 4, 4, "global", 1), Bss(4, 16)>>,
    <<Atom("p", "", "stub", RX, 4, 4, "local", 1), Atom("o", ".got.plt", "got", RW, 4, 4, "local", 1),
      Atom("n", ".comment", "noAlloc", {}, 3, 1, "local", 1), Atom("d", ".data.hot", "data", RW, 7, 16, "global", 2)>>}
Constants == {<<>>, <<Constant(8), Atom("e", ".eh_frame", "code", R, 4, 4, "local", 2)>>}

WithRefs(atoms) ==
    [k \in DOMAIN atoms |->
        IF k = 1 THEN [atoms[k] EXCEPT !.refs = <<Ref("s", "dynamic"), Ref("u", "local")>>]
        ELSE IF atoms[k].name = "p" THEN [atoms[k] EXCEPT !.refs = <<Ref("w", "plt")>>]
        ELSE IF k = 2 THEN [atoms[k] EXCEPT !.export = TRUE] ELSE atoms[k]]
Undefined == {"u", "w"}

Options == {[magic |-> m, align |-> a, merge |-> r] :
              m \in {"default", "nmagic", "omagic"}, a \in BOOLEAN, r \in BOOLEAN}
Kinds == {"exec", "dynexec", "dso"}
Link(kind, arch, base, o, strip, atoms, exprs) ==
    [kind |-> kind, arch |-> arch, base |-> base, magic |-> o.magic, align |-> o.align, merge |-> o.merge,
     strip |-> strip, atoms |-> atoms, exprs |-> exprs, undefined |-> Undefined, weak |-> {"w"},
     shared |-> {[name |-> "s", lib |-> "libs"], [name |-> "v", lib |-> "libv"]},
     exportDynamic |-> atoms # <<>> /\ kind = "dynexec", obj |-> NoObject]

AllLinks ==
    {Link(kind, "any", IF kind = "dso" THEN 0 ELSE 64, o, strip,
          WithRefs(r \o c \o d), x) :
        kind \in Kinds, o \in Options, strip \in BOOLEAN, r \in Runs, c \in Constants, d \in Datas,
        x \in {<<>>}}

OR1KAtoms ==
    <<Atom("", ".vectors", "code", RX, 24, 1, "local", 1), Atom("v", ".vectors", "code", RX, 3, 1, "global", 1),
      Code("f", 5, 4), Atom("d", "", "data", RW, 5, 4, "global", 1), Bss(2, 1)>>
OR1KLinks ==
    {Link("exec", "or1k", 0, o, FALSE, OR1KAtoms, <<>>) : o \in {p \in Options : p.magic = "default"}}

Hashes == [n \in {"_init", "g", "c", "e", "d", "b", "t", "z", "i", "p", "o", "n", "s", "u", "v", "w", "f"} |->
    CASE n = "_init" -> 7 [] n = "g" -> 10 [] n = "c" -> 4 [] n = "d" -> 1 [] n = "b" -> 13
      [] n = "s" -> 4 [] n = "u" -> 22 [] n = "w" -> 16 [] OTHER -> 5]
Fills == <<1, 3, 17>>

(* A section that is aligned to two pages, after texts of any length.      *)
WideLinks ==
    {Link("exec", "any", 64, o, FALSE,
          <<Code("_init", n, 4), Atom("d", "", "data", RW, 5, 4, "global", 1), Bss(3, 32)>>, <<>>) :
        o \in {p \in Options : p.magic = "default" /\ p.merge /\ p.align}, n \in 1..80}
-----------------------------------------------------------------------------
(* Objects.  .text has the symbols f, g and j, of which one may be weak    *)
(* and which may be listed backwards; h is in a group of its own or in a   *)
(* .gnu.linkonce section; .debug refers to all of it.                      *)
Sec(name, type, flags, align, size) ==
    [name |-> name, type |-> type, flags |-> flags, align |-> align, size |-> size]
RelaOf(target, entries) ==
    [name |-> ".rela", type |-> "rela", flags |-> {}, align |-> 1, size |-> 0, target |-> target, entries |-> entries]
Rela(offset, sym, addend) == [offset |-> offset, sym |-> sym, addend |-> addend]
SymOf(name, sec, value, bind, type) ==
    [name |-> name, sec |-> sec, value |-> value, bind |-> bind, type |-> type, hidden |-> FALSE, size |-> 0]

TextSymbols(weak, backwards, first) ==
    LET bind(n) == IF n = weak THEN "weak" ELSE "global"
        syms == <<SymOf("f", 1, first, bind("f"), "func"), SymOf("g", 1, 4, bind("g"), "func"),
                  SymOf("j", 1, 9, bind("j"), "func")>>
    IN  IF backwards THEN Reverse(syms) ELSE syms

Object(weak, backwards, first, align, once, strings, wrap) ==
    LET at(n) == Min({i \in 1..3 : TextSymbols(weak, backwards, first)[i].name = n})
    IN  [mergeStrings |-> strings, wrap |-> wrap,
         symbols |-> TextSymbols(weak, backwards, first) \o
           <<SymOf("d", 2, 0, "global", "object"), SymOf("e", 2, 4, "local", "object"),
             SymOf("", 3, 0, "local", "section"), SymOf("b", 4, 0, "global", "object"),
             SymOf("h", 5, 0, "global", "func"), SymOf("i", 5, 2, "local", "func"),
             SymOf("u", 0, 0, "global", "notype"), SymOf("c", -2, 4, "global", "object"),
             SymOf("", 7, 0, "local", "section"), SymOf("", 1, 0, "local", "section")>>,
         sections |->
           <<Sec(".text", "progbits", {"alloc", "exec"}, align, 11),
             Sec(".data", "progbits", {"alloc", "write"}, 8, 6),
             Sec(".rodata", "progbits", {"alloc"}, 2, 3),
             Sec(".bss", "nobits", {"alloc", "write"}, 4, 5),
             Sec(IF once THEN ".gnu.linkonce.t.f" ELSE ".text.h", "progbits",
                 {"alloc", "exec"} \cup (IF once THEN {} ELSE {"group"}), 4, 5),
             Sec(".debug", "progbits", {}, 1, 4),
             [name |-> ".str", type |-> "progbits", flags |-> {"alloc", "merge", "strings"}, align |-> 1,
              size |-> 5, strings |-> <<2, 3>>],
             RelaOf(1, <<Rela(1, 4, 1), Rela(4, 6, 2), Rela(6, 10, 0), Rela(10, 8, 0)>>),
             RelaOf(2, <<Rela(0, at("f"), 0), Rela(4, 7, 1), Rela(5, 12, 0)>>),
             RelaOf(5, <<Rela(1, 9, 0), Rela(2, 8, 1), Rela(4, at("j"), 0)>>),
             RelaOf(6, <<Rela(0, 13, 7), Rela(1, 8, 2), Rela(2, 9, 0), Rela(3, 11, 0)>>)>>
           \o (IF once THEN <<>>
               ELSE <<[name |-> ".group", type |-> "group", flags |-> {}, align |-> 4, size |-> 8,
                       members |-> <<5>>, signature |-> 8]>>)]

(* Two groups whose sections have the same name, and a reference into the  *)
(* second of the strings of a section.                                     *)
TwinObject ==
    [mergeStrings |-> FALSE, wrap |-> <<>>,
     symbols |-> <<SymOf("f", 1, 0, "global", "func"), SymOf("g", 2, 0, "global", "func")>>,
     sections |->
       <<Sec(".text.h", "progbits", {"alloc", "exec", "group"}, 4, 4),
         Sec(".text.h", "progbits", {"alloc", "exec", "group"}, 4, 4),
         RelaOf(1, <<Rela(0, 1, 0)>>), RelaOf(2, <<Rela(2, 2, 0)>>),
         [name |-> ".group", type |-> "group", flags |-> {}, align |-> 4, size |-> 8, members |-> <<1>>, signature |-> 1],
         [name |-> ".group", type |-> "group", flags |-> {}, align |-> 4, size |-> 8, members |-> <<2>>, signature |-> 2]>>]
StringObject ==
    LET o == Object("f", FALSE, 0, 4, FALSE, TRUE, <<>>)
    IN  [o EXCEPT !.sections[9].entries = <<Rela(5, 12, 2)>>]

LinkedAtom(o, f, a) ==
    LET x == f.atoms[a]
    IN  [name |-> x.name, sec |-> Reader!SectionChoice(o, x), type |-> Reader!ContentType(o, x),
         perm |-> {IF q = "A" THEN A ELSE IF q = "W" THEN W ELSE X : q \in Reader!Permissions(o, x)},
         size |-> x.size, align |-> Reader!ElfAlignment(o, x).value,
         mod |-> Reader!ElfAlignment(o, x).modulus, scope |-> Reader!Scope(x), file |-> 1,
         export |-> FALSE, refs |-> <<>>]
LinkWith(o, f, p) ==
    LET placed == SelectSeq([a \in DOMAIN f.atoms |-> a],
                            LAMBDA a : f.atoms[a].def \in {"defined", "merge", "common", "comdat"})
        order == SortSeq(placed, LAMBDA a, b : f.atoms[a].ord < f.atoms[b].ord)
    IN  [Link("exec", "any", 64, p, FALSE, [i \in DOMAIN order |-> LinkedAtom(o, f, order[i])], <<>>) EXCEPT
            !.obj = [read |-> TRUE, o |-> o, f |-> f, order |-> order]]
LinkOf(o, p) == LinkWith(o, Reader!DoParse(o), p)
Default == {p \in Options : p.magic = "default" /\ p.merge}
ObjectLinks ==
    {LinkOf(Object(weak, backwards, 0, align, once, strings, wrap), p) :
        weak \in {"", "f", "g", "j"}, backwards \in BOOLEAN, align \in {1, 4},
        once \in BOOLEAN, strings \in BOOLEAN, wrap \in {<<>>, <<"u">>}, p \in {q \in Default : q.align}}
SameNameLinks == {LinkOf(o, p) : o \in {TwinObject}, p \in Default}
StringLinks == {LinkOf(o, p) : o \in {StringObject}, p \in Default}

SmallLinks == AllLinks \cup OR1KLinks \cup ObjectLinks

-----------------------------------------------------------------------------
(* Where an atom of the object has gone, and where a section has.          *)
HasObject == phase = "done" /\ link.obj.read
PlaceOf(a) ==
    LET x == SelectSeq(AtomsOf(l.chunks), LAMBDA y : link.obj.order[y.a] = a) IN x[1].at
AtomsOfSection(k) ==
    {a \in DOMAIN link.obj.f.atoms : link.obj.f.atoms[a].def = "defined" /\ link.obj.f.atoms[a].sec = k}
StartOf(k) == LET a == Min(AtomsOfSection(k)) IN PlaceOf(a) - link.obj.f.atoms[a].value
IsString(k) == Reader!IsMergeableStringSection(link.obj.o, k)

(* A section is cut at its symbols and put together again by the layout:   *)
(* every byte of it is in one atom, all its atoms are as far apart in the  *)
(* output as they were in the object, and the edges that hold them         *)
(* together lead from the end of an atom to the next.                      *)
(* (ELFFile::createAtoms, ELFDefinedAtom::alignment, appendAtom)           *)
SectionsStayWhole ==
    HasObject =>
      \A k \in DOMAIN link.obj.o.sections :
        link.obj.o.sections[k].type \in {"progbits", "nobits"} /\ ~IsString(k) =>
          /\ \A a \in AtomsOfSection(k) : PlaceOf(a) = StartOf(k) + link.obj.f.atoms[a].value
          /\ \A x \in 0..(link.obj.o.sections[k].size - 1) :
               Cardinality({a \in AtomsOfSection(k) :
                  /\ link.obj.f.atoms[a].value <= x
                  /\ x < link.obj.f.atoms[a].value + link.obj.f.atoms[a].size}) = 1
          /\ \A a \in AtomsOfSection(k) : \A i \in Reader!OwnReferences(link.obj.f, a) :
               LET ref == link.obj.f.refs[i]
               IN  ref.kind = "after" =>
                     link.obj.f.atoms[ref.target].value = link.obj.f.atoms[a].value + link.obj.f.atoms[a].size

(* Every relocation of the object is one reference of one atom, at the     *)
(* place in the output that it had in its section, and designates what it  *)
(* did: the symbol plus the addend; a name that --wrap put there; or, from *)
(* outside of a group to a global symbol in it, just the name.             *)
(* (ELFFile::createRelocationReferences, updateReferences, findAtom)       *)
WrappedName(n) == IF n \in ToSet(link.obj.o.wrap) THEN "__wrap_" \o n ELSE n
GroupsOf(k) ==
    {g \in DOMAIN link.obj.o.sections :
        \/ g = k /\ Reader!IsGnuLinkOnceSection(link.obj.o.sections[k])
        \/ /\ link.obj.o.sections[g].type = "group"
           /\ k \in ToSet(link.obj.o.sections[g].members)}
EnteredByName(k, y) == y.bind # "local" /\ k # y.sec /\ GroupsOf(y.sec) # {} /\ GroupsOf(k) # GroupsOf(y.sec)
Arrives(k, r, ref) ==
    LET y == link.obj.o.symbols[r.sym]
        f == link.obj.f
        t == f.atoms[ref.target]
        at == y.value + r.addend
        string == {a \in DOMAIN f.atoms : /\ f.atoms[a].def = "merge" /\ f.atoms[a].sec = y.sec
                                          /\ f.atoms[a].value <= at
                                          /\ at < f.atoms[a].value + f.atoms[a].size}
    IN  IF y.sec = Reader!UNDEF THEN t.def = "undefined" /\ t.name = WrappedName(y.name)
        ELSE IF y.sec = Reader!COMMON THEN t.def = "common" /\ t.name = y.name
        ELSE IF IsString(y.sec)
        THEN \E a \in string : PlaceOf(ref.target) + ref.addend = PlaceOf(a) + at - f.atoms[a].value
        ELSE IF EnteredByName(k, y) THEN t.def = "undefined" /\ t.name = y.name
        ELSE t.def = "defined" /\ PlaceOf(ref.target) + ref.addend = StartOf(y.sec) + at
RelocationsArrive ==
    HasObject =>
      LET f == link.obj.f
          sites(k, r) == {p \in {<<a, i>> : a \in AtomsOfSection(k), i \in DOMAIN f.refs} :
                            /\ p[2] \in Reader!OwnReferences(f, p[1]) /\ f.refs[p[2]].kind = "elf"
                            /\ PlaceOf(p[1]) + f.refs[p[2]].off = StartOf(k) + r.offset}
      IN  \A n \in DOMAIN link.obj.o.sections :
            LET rela == link.obj.o.sections[n]
            IN  rela.type = "rela" => \A r \in ToSet(rela.entries) :
                  /\ Cardinality(sites(rela.target, r)) = 1
                  /\ \A p \in sites(rela.target, r) : Arrives(rela.target, r, f.refs[p[2]])
=============================================================================
