------------------------------- MODULE PeLink -------------------------------
(***************************************************************************)
(* COFF objects and import libraries linked into a PE image.  Files are    *)
(* read in their order, names are resolved, the passes add their tables,   *)
(* the writer lays the image out, and its workers relocate the atoms of    *)
(* one chunk after the other; the tables of exception handlers are sorted  *)
(* last.                                                                   *)
(*                                                                         *)
(* First the parts of the linker as operators: the reader of objects and   *)
(* import headers, the passes that make the tables of the image, and the   *)
(* writer (atoms grouped into sections, addresses, headers, base           *)
(* relocations, and the numbers the relocations store); then a link that   *)
(* runs them.                                                              *)
(***************************************************************************)
EXTENDS Integers, Sequences, FiniteSetsExt, SequencesExt

(***************************************************************************)
(* FileCOFF: the atoms of a COFF object.                                   *)
(*                                                                         *)
(* An object: [sections, symbols, sxdata, seh].  A section: [name, type,   *)
(* align, size, drop, words, relocs]; drop stands for LNK_INFO, LNK_REMOVE *)
(* and debug sections, words maps an offset to the number stored there.    *)
(* A symbol: [name, sect, value, global, weak]; sect is 0 for an undefined *)
(* and -1 for an absolute symbol, weak the number of the symbol to fall    *)
(* back to, or 0.  sxdata are the numbers of the handlers' symbols.        *)
(***************************************************************************)

CONSTANT Gap    \* the distance between two ordinals, 2^32 in the code
ASSUME GapAssumption == Gap \in Nat \ {0, 1}

(* An atom of any kind; at is where its bytes are in the object.           *)
Blank == [id |-> <<0, "none", 0>>, kind |-> "defined", name |-> "", sect |-> "", type |-> "data",
          size |-> 0, align |-> 1, at |-> <<0, 0>>, words |-> <<>>, refs |-> <<>>, file |-> 0,
          ord |-> 0, global |-> FALSE, weak |-> FALSE, value |-> 0, fallback |-> "", dll |-> "",
          import |-> "", hint |-> 0]

SymbolId(f, i) == <<f, "symbol", i>>
Where(seq, Test(_)) == SelectSeq([i \in DOMAIN seq |-> i], Test)
Shifted(words, by) == [o \in {x + by : x \in DOMAIN words} |-> words[o - by]]
Part(words, from, to) ==
    Shifted([o \in {x \in DOMAIN words : from <= x /\ x < to} |-> words[o]], -from)

AbsoluteAtoms(obj, f) ==
    LET Absolute(i) == obj.symbols[i].sect = -1
        atom(i) == [Blank EXCEPT !.id = SymbolId(f, i), !.kind = "absolute", !.file = f,
                      !.name = obj.symbols[i].name, !.global = obj.symbols[i].global,
                      !.value = obj.symbols[i].value]
        found == Where(obj.symbols, Absolute)
    IN [k \in DOMAIN found |-> atom(found[k])]

(* A symbol other symbols fall back to has no atom of its own.             *)
UndefinedAtoms(obj, f) ==
    LET Undefined(i) == /\ obj.symbols[i].sect = 0
                        /\ \A j \in DOMAIN obj.symbols : obj.symbols[j].weak # i
        atom(i) == LET s == obj.symbols[i] IN
            [Blank EXCEPT !.id = SymbolId(f, i), !.kind = "undefined", !.file = f, !.name = s.name,
               !.global = TRUE, !.fallback = IF s.weak = 0 THEN "" ELSE obj.symbols[s.weak].name]
        found == Where(obj.symbols, Undefined)
    IN [k \in DOMAIN found |-> atom(found[k])]

(* A symbol of no section but with a value is a common one: bss, aligned   *)
(* to the next greater power of two, at most 32.                           *)
NextPowerOf2(n) == Min({p \in {2 ^ k : k \in 0..6} : p > n})
CommonAtoms(obj, f) ==
    LET Common(i) == obj.symbols[i].sect = 0 /\ obj.symbols[i].value > 0
        atom(i) == LET s == obj.symbols[i] IN
            [Blank EXCEPT !.id = <<f, "common", i>>, !.name = s.name, !.sect = ".bss", !.type = "bss",
               !.size = s.value, !.align = Min({32, NextPowerOf2(Min({s.value, 63}))}), !.file = f,
               !.global = TRUE, !.weak = TRUE]
        found == Where(obj.symbols, Common)
    IN [k \in DOMAIN found |-> atom(found[k])]

SymbolsOf(obj, s) ==
    LET Here(i) == obj.symbols[i].sect = s
        Before(i, j) == \/ obj.symbols[i].value < obj.symbols[j].value
                        \/ obj.symbols[i].value = obj.symbols[j].value /\ i < j
    IN SortSeq(Where(obj.symbols, Here), Before)

(* An atom from every symbol to the next, and an unnamed one before the    *)
(* first; the first atom has the section's alignment.  A section without   *)
(* symbols is not read at all.                                             *)
AtomizeDefinedSymbolsInSection(obj, f, s) ==
    LET sec == obj.sections[s]
        syms == SymbolsOf(obj, s)
        Start(k) == obj.symbols[syms[k]].value
        End(k) == IF k = Len(syms) THEN sec.size ELSE Start(k + 1)
        piece(id, from, to) ==
            [Blank EXCEPT !.id = id, !.sect = IF sec.type = "bss" THEN ".bss" ELSE sec.name,
               !.type = sec.type, !.size = to - from, !.at = <<s, from>>,
               !.words = Part(sec.words, from, to), !.file = f]
        named(k) == [piece(SymbolId(f, syms[k]), Start(k), End(k)) EXCEPT
                       !.name = obj.symbols[syms[k]].name, !.global = obj.symbols[syms[k]].global]
        lead == IF Start(1) = 0 \/ sec.type = "bss" THEN <<>> ELSE <<piece(<<f, "lead", s>>, 0, Start(1))>>
        atoms == lead \o [k \in DOMAIN syms |-> named(k)]
    IN IF syms = <<>> \/ sec.drop THEN <<>> ELSE [atoms EXCEPT ![1].align = sec.align]

(* The table of exception handlers: the bytes are those of .sxdata, a      *)
(* symbol's number at every entry, and every entry refers to its handler.  *)
SXDataAtoms(obj, f) ==
    IF obj.sxdata = <<>> THEN <<>>
    ELSE << [Blank EXCEPT !.id = <<f, "sxdata", 0>>, !.sect = ".sxdata", !.type = "rdata",
               !.size = 4 * Len(obj.sxdata), !.file = f,
               !.words = [o \in {4 * (i - 1) : i \in DOMAIN obj.sxdata} |-> obj.sxdata[o \div 4 + 1]],
               !.refs = [i \in DOMAIN obj.sxdata |->
                           [kind |-> "dir32", off |-> 4 * (i - 1), to |-> SymbolId(f, obj.sxdata[i])]]] >>

(* The last atom that starts at or before the offset; bss has none.        *)
AtomAt(atoms, s, off) ==
    Max({k \in DOMAIN atoms : atoms[k].at[1] = s /\ atoms[k].at[2] <= off /\ atoms[k].type # "bss"})

AddRelocations(obj, atoms) ==
    [k \in DOMAIN atoms |->
      LET a == atoms[k]
          s == a.at[1]
          Mine(r) == AtomAt(atoms, s, r.off) = k
          mine == IF s = 0 THEN <<>> ELSE SelectSeq(obj.sections[s].relocs, Mine)
      IN [a EXCEPT !.refs = @ \o [i \in DOMAIN mine |->
            [kind |-> mine[i].kind, off |-> mine[i].off - a.at[2], to |-> SymbolId(a.file, mine[i].sym)]]]]

(* FileCOFF::doParse.                                                      *)
Parse(obj, f) ==
    LET sections == [s \in DOMAIN obj.sections |-> AtomizeDefinedSymbolsInSection(obj, f, s)]
        defined == CommonAtoms(obj, f) \o FlattenSeq(sections)
        all == AddRelocations(obj, defined) \o SXDataAtoms(obj, f)
    IN AbsoluteAtoms(obj, f) \o UndefinedAtoms(obj, f) \o [k \in DOMAIN all |-> [all[k] EXCEPT !.ord = k * Gap]]

(* beforeLink, createAlternateNameAtoms: an alias has no bytes, and the    *)
(* ordinals before its target's.                                           *)
Aliases(atoms, alternate) ==
    LET Of(a) == IF a.kind = "defined" /\ a.name \in DOMAIN alternate THEN alternate[a.name] ELSE <<>>
        alias(a, cnt) == [Blank EXCEPT !.id = <<a.file, "alias " \o Of(a)[cnt], a.id[3]>>, !.name = Of(a)[cnt],
                            !.sect = a.sect, !.type = a.type, !.file = a.file, !.global = a.global,
                            !.weak = TRUE, !.ord = a.ord - cnt]
    IN FlattenSeq([k \in DOMAIN atoms |-> [cnt \in DOMAIN Of(atoms[k]) |-> alias(atoms[k], cnt)]])

(* FileImportLibrary: the DLL's symbol under the name of its import        *)
(* address, and for code a jump through it.  An import: [name, import,     *)
(* hint, dll, code].                                                       *)
ImportName(name) == "__imp_" \o name
JumpReloc(machine) == [kind |-> IF machine = "x64" THEN "rel32" ELSE IF machine = "x86" THEN "dir32" ELSE "mov32t",
                       off |-> IF machine = "arm" THEN 0 ELSE 2]
ImportAtoms(i, f, machine) ==
    LET shared == [Blank EXCEPT !.id = <<f, "import", 0>>, !.kind = "shared", !.name = ImportName(i.name),
                     !.global = TRUE, !.file = f, !.dll = i.dll, !.import = i.import, !.hint = i.hint]
        jump == [Blank EXCEPT !.id = <<f, "jump", 0>>, !.name = i.name, !.type = "code", !.global = TRUE,
                   !.file = f, !.size = IF machine = "arm" THEN 12 ELSE 8, !.align = 2,
                   !.refs = << [kind |-> JumpReloc(machine).kind, off |-> JumpReloc(machine).off, to |-> shared.id] >>]
    IN IF i.code THEN <<shared, jump>> ELSE <<shared>>


(***************************************************************************)
(* The passes of the PE/COFF linker over the resolved file: .edata, the    *)
(* import tables, the order of the atoms, the load configuration.  Every   *)
(* atom of a table has its references (dir32nb: addresses from the image   *)
(* base), its numbers in "words", and the ordinal that puts it in place.   *)
(***************************************************************************)

CONSTANT Names      \* all the names there are, as strings compare

Rank(n) == CHOOSE i \in DOMAIN Names : Names[i] = n
Sorted(seq, Key(_)) == SortSeq(seq, LAMBDA x, y : Rank(Key(x)) < Rank(Key(y)))

(* addDir32NBReloc and its kin.                                            *)
To(kind, off, id) == [kind |-> kind, off |-> off, to |-> id]
NB(off, id) == To("dir32nb", off, id)

PointerSize(machine) == IF machine = "x64" THEN 8 ELSE 4

(*------------------------------ EdataPass -------------------------------*)
(* An export: [name, mangled, external, ordinal, noname]; "" and -1 stand  *)
(* for what was not given.                                                 *)
RealName(e) == IF e.mangled = "" THEN e.name ELSE e.mangled
ExternalName(e) == IF e.external = "" THEN e.name ELSE e.external

(* Of the exports without an external name the first one of each symbol.   *)
DedupExports(exports) ==
    LET Kept(i) == \/ exports[i].external # ""
                   \/ \A j \in 1..(i - 1) : exports[j].external # "" \/ RealName(exports[j]) # RealName(exports[i])
        kept == Where(exports, Kept)
    IN [k \in DOMAIN kept |-> exports[kept[k]]]

AssignOrdinals(exports) ==
    LET max == Max({-1} \cup {exports[i].ordinal : i \in DOMAIN exports})
        next == IF max = -1 THEN 1 ELSE max + 1
        sorted == Sorted(exports, ExternalName)
        unnumbered(i) == Cardinality({j \in 1..(i - 1) : sorted[j].ordinal = -1})
    IN [i \in DOMAIN sorted |->
          IF sorted[i].ordinal = -1 THEN [sorted[i] EXCEPT !.ordinal = next + unnumbered(i)] ELSE sorted[i]]

(* The atom of a name is the last one that has it.                         *)
LastNamed(atoms, name) ==
    Max({0} \cup {k \in DOMAIN atoms : atoms[k].kind = "defined" /\ atoms[k].name = name})

Undecorate(machine, undecorated, name) ==
    IF machine = "x86" /\ name \in DOMAIN undecorated THEN undecorated[name] ELSE name

ExportsAsGiven(atoms, exports, machine, undecorated) ==
    [i \in DOMAIN exports |->
       [name |-> Undecorate(machine, undecorated, ExternalName(exports[i])),
        ordinal |-> exports[i].ordinal, noname |-> exports[i].noname,
        atom |-> LastNamed(atoms, RealName(exports[i]))]]
ExportedAtoms(atoms, exports, machine, undecorated) ==
    Sorted([i \in DOMAIN exports |->
              [name |-> Undecorate(machine, undecorated, ExternalName(exports[i])),
               ordinal |-> exports[i].ordinal, noname |-> exports[i].noname,
               atom |-> LastNamed(atoms, RealName(exports[i]))]],
           LAMBDA e : e.name)

(* The sections' own fields: the directory is [base, entries, names] at    *)
(* the offsets 16, 20 and 24 of export_directory_table_entry.              *)
EdataAtom(f, n, size, words, refs) ==
    [Blank EXCEPT !.id = <<f, "edata", n>>, !.sect = ".edata", !.type = "rdata", !.size = size,
       !.words = words, !.refs = refs, !.file = f, !.ord = n, !.global = TRUE]
StringAtom(id, sect, n, text) ==
    [Blank EXCEPT !.id = id, !.sect = sect, !.type = "rdata", !.size = 4, !.file = id[1], !.ord = n,
       !.import = text]

EdataAtoms(atoms, entries, f) ==
    LET Named(e) == ~e.noname
        named == SelectSeq(entries, Named)
        ordinals == {entries[i].ordinal : i \in DOMAIN entries}
        base == Min(ordinals)
        count == Max(ordinals) - base + 1
        id(n) == <<f, "edata", n>>
        string(n) == <<f, "export name", n>>
        directory == EdataAtom(f, 0, 40,
            [o \in {16, 20, 24} |-> CASE o = 16 -> base [] o = 20 -> count [] OTHER -> Len(named)],
            <<NB(12, string(0)), NB(28, id(1)), NB(32, id(2)), NB(36, id(3))>>)
        addresses == EdataAtom(f, 1, 4 * count, <<>>,
            [i \in DOMAIN entries |-> NB(4 * (entries[i].ordinal - base), atoms[entries[i].atom].id)])
        names == EdataAtom(f, 2, 4 * Len(named), <<>>,
            [i \in DOMAIN named |-> NB(4 * (i - 1), string(i))])
        indices == EdataAtom(f, 3, 2 * Len(named),
            [o \in {2 * (i - 1) : i \in DOMAIN named} |-> named[o \div 2 + 1].ordinal - base], <<>>)
        strings == [i \in 0..Len(named) |->
            StringAtom(string(i), ".edata", 1024 + i, IF i = 0 THEN "this.dll" ELSE named[i].name)]
    IN <<directory, addresses, names, indices>> \o [i \in 1..(Len(named) + 1) |-> strings[i - 1]]

(* EdataPass::perform: an export that is not defined leaves the image      *)
(* without the whole table.                                                *)
Edata(atoms, exports, machine, undecorated, f) ==
    LET numbered == AssignOrdinals(DedupExports(exports))
        entries == ExportedAtoms(atoms, numbered, machine, undecorated)
    IN IF entries = <<>> \/ \E i \in DOMAIN entries : entries[i].atom = 0 THEN atoms
       ELSE atoms \o EdataAtoms(atoms, entries, f)

(*------------------------------ IdataPass -------------------------------*)
Shared(atoms) == SelectSeq(atoms, LAMBDA a : a.kind = "shared")
OfDLL(atoms, dll) == Sorted(SelectSeq(Shared(atoms), LAMBDA a : a.dll = dll), LAMBDA a : a.name)
DLLs(atoms) ==
    Sorted(SetToSeq({Shared(atoms)[i].dll : i \in DOMAIN Shared(atoms)}), LAMBDA d : d)

IdataAtom(f, what, n, sect, size, refs) ==
    [Blank EXCEPT !.id = <<f, what, n>>, !.sect = sect, !.type = "rdata", !.size = size, !.file = f,
       !.global = TRUE, !.refs = refs]

(* A table of imports and the NULL entry; by ordinal the highest bit of    *)
(* the entry is set, which stands here as a negative number.               *)
ByOrdinal(hint) == -1 - hint
TableAtoms(f, what, sect, dll, shared, machine) ==
    LET size == PointerSize(machine)
        hintName(a) == <<f, "hint " \o dll \o " " \o a.import, 0>>
        entry(k) ==
          IF k > Len(shared) THEN IdataAtom(f, what \o dll, k, sect, size, <<>>)
          ELSE IF shared[k].import = ""
               THEN [IdataAtom(f, what \o dll, k, sect, size, <<>>)
                       EXCEPT !.words = [o \in {0} |-> ByOrdinal(shared[k].hint)]]
               ELSE IdataAtom(f, what \o dll, k, sect, size, <<NB(0, hintName(shared[k]))>>)
    IN [k \in 1..(Len(shared) + 1) |-> entry(k)]

(* One hint and name for each import name of the DLL.                      *)
HintNames(f, dll, shared) ==
    LET First(k) == shared[k].import # "" /\ \A j \in 1..(k - 1) : shared[j].import # shared[k].import
        firsts == Where(shared, First)
    IN [i \in DOMAIN firsts |->
         [StringAtom(<<f, "hint " \o dll \o " " \o shared[firsts[i]].import, 0>>, ".idata", 0,
                     shared[firsts[i]].import) EXCEPT !.hint = shared[firsts[i]].hint, !.size = 8]]

DLLName(f, dll, sect) == StringAtom(<<f, "dll " \o dll, 0>>, sect, 0, dll)

(* ImportDirectoryAtom: the lookup table, the address table the loader     *)
(* overwrites, and the DLL's name.                                         *)
ImportDirectory(atoms, f, dll, machine) ==
    LET shared == OfDLL(atoms, dll)
        lookup == TableAtoms(f, "lookup ", ".idata.t", dll, shared, machine)
        address == TableAtoms(f, "address ", ".idata.a", dll, shared, machine)
    IN << IdataAtom(f, "directory " \o dll, 0, ".idata.d", 20,
            <<NB(0, lookup[1].id), NB(16, address[1].id), NB(12, <<f, "dll " \o dll, 0>>)>>) >>
       \o lookup \o HintNames(f, dll, shared) \o address \o <<DLLName(f, dll, ".idata")>>

(* DelayImportDirectoryAtom: the addresses are in .data and refer at first *)
(* to a loader that calls the helper with its slot and the directory.      *)
SwappedLoaderRefs(machine, slot, directory, helper) ==
    IF machine = "x86"
    THEN <<To("dir32", 3, directory), To("dir32", 8, slot), To("rel32", 13, helper)>>
    ELSE <<To("rel32", 36, directory), To("rel32", 43, slot), To("rel32", 48, helper)>>
LoaderRefs(machine, slot, directory, helper) ==
    IF machine = "x86"
    THEN <<To("dir32", 3, slot), To("dir32", 8, directory), To("rel32", 13, helper)>>
    ELSE <<To("rel32", 36, slot), To("rel32", 43, directory), To("rel32", 48, helper)>>

DelayDirectory(atoms, f, dll, machine, helper) ==
    LET shared == OfDLL(atoms, dll)
        pointer == PointerSize(machine)
        me == <<f, "directory " \o dll, 0>>
        loader(k) == <<f, "loader " \o dll, k>>
        table == TableAtoms(f, "lookup ", ".didat", dll, shared, machine)
        slot(k) == [IdataAtom(f, "address " \o dll, k, ".data", pointer,
                      IF k \in DOMAIN shared
                      THEN <<To(IF machine = "x64" THEN "dir64" ELSE "dir32", 0, loader(k))>> ELSE <<>>)
                    EXCEPT !.type = "data", !.align = pointer]
        stub(k) == [IdataAtom(f, "loader " \o dll, k, ".text", IF machine = "x86" THEN 21 ELSE 92,
                      LoaderRefs(machine, slot(k).id, me, helper)) EXCEPT !.type = "code"]
    IN << IdataAtom(f, "directory " \o dll, 0, ".didat.d", 32,
            <<NB(8, slot(0).id), NB(16, table[1].id), NB(4, <<f, "dll " \o dll, 0>>), NB(12, slot(1).id)>>),
          slot(0) >>
       \o table \o HintNames(f, dll, shared) \o <<DLLName(f, dll, ".didat")>>
       \o [k \in 1..(Len(shared) + 1) |-> slot(k)] \o [k \in DOMAIN shared |-> stub(k)]

Null(f, what, sect, size) == <<IdataAtom(f, what, 0, sect, size, <<>>)>>

(* replaceSharedLibraryAtoms: references to a DLL's symbol become          *)
(* references to its entry of the address table.                           *)
EntryOf(atoms, f, id) ==
    LET a == atoms[CHOOSE i \in DOMAIN atoms : atoms[i].id = id]
        k == CHOOSE k \in DOMAIN OfDLL(atoms, a.dll) : OfDLL(atoms, a.dll)[k].id = id
    IN <<f, "address " \o a.dll, k>>
ReplaceShared(atoms, f) ==
    LET shared == {Shared(atoms)[i].id : i \in DOMAIN Shared(atoms)} IN
    [k \in DOMAIN atoms |-> [atoms[k] EXCEPT !.refs =
      [i \in DOMAIN @ |-> IF @[i].to \in shared THEN [@[i] EXCEPT !.to = EntryOf(atoms, f, @)] ELSE @[i]]]]

Idata(atoms, delayed, machine, helper, f) ==
    LET now == SelectSeq(DLLs(atoms), LAMBDA d : d \notin delayed)
        later == SelectSeq(DLLs(atoms), LAMBDA d : d \in delayed)
        made == FlattenSeq([i \in DOMAIN now |-> ImportDirectory(atoms, f, now[i], machine)])
                \o (IF now = <<>> THEN <<>> ELSE Null(f, "null", ".idata.d", 20))
                \o FlattenSeq([i \in DOMAIN later |-> DelayDirectory(atoms, f, later[i], machine, helper)])
                \o (IF later = <<>> THEN <<>> ELSE Null(f, "delay null", ".didat.d", 32))
    IN ReplaceShared(atoms \o [i \in DOMAIN made |-> [made[i] EXCEPT !.ord = i]], f)

(*----------------------- OrderPass, LoadConfigPass ----------------------*)
(* Custom sections by name, then the rest; within one by file and ordinal. *)
Before(a, b) ==
    IF a.sect # "" /\ b.sect # "" /\ a.sect # b.sect THEN Rank(a.sect) < Rank(b.sect)
    ELSE IF (a.sect # "") # (b.sect # "") THEN a.sect # ""
    ELSE a.file < b.file \/ (a.file = b.file /\ a.ord < b.ord)
Order(atoms) == SortSeq(SelectSeq(atoms, LAMBDA a : a.kind = "defined"), Before)

(* LoadConfigPass::perform; coff_load_configuration32 is 72 bytes, with    *)
(* the table at 64 and the count at 68.                                    *)
LoadConfig(atoms, f) ==
    LET tables == SelectSeq(atoms, LAMBDA a : a.sect = ".sxdata") IN
    IF tables = <<>> THEN atoms
    ELSE Append(atoms,
      [Blank EXCEPT !.id = <<f, "loadcfg", 0>>, !.sect = ".loadcfg", !.type = "rdata", !.size = 72, !.file = f,
         !.refs = <<To("dir32", 64, tables[1].id)>>,
         !.words = [o \in {68} |-> (Len(tables) * tables[1].size) \div 4]])


CONSTANTS Base, OutputName    \* name of a section -> name up to its "$"

Sector == 512
PageSize == 4096
RoundUp(x, align) == ((x + align - 1) \div align) * align

(* getOutputSectionName: /merge renamings are followed to their end.       *)
RECURSIVE GetOutputSectionName(_, _)
GetOutputSectionName(renamed, name) ==
    IF name \in DOMAIN renamed THEN GetOutputSectionName(renamed, renamed[name]) ELSE name

ChooseSectionByContent(a) ==
    CASE a.type = "code" -> ".text" [] a.type = "bss" -> ".bss"
      [] a.type = "rdata" -> ".rdata" [] OTHER -> ".data"
SectionFor(renamed, a) ==
    GetOutputSectionName(renamed, IF a.sect = "" THEN ChooseSectionByContent(a) ELSE OutputName[a.sect])

(* appendAtom, for all the atoms of a section: their offsets in it.        *)
AppendAtoms(atoms) ==
    LET step(acc, a) == LET at == RoundUp(acc.size, a.align) IN
          [size |-> at + a.size, at |-> Append(acc.at, at)]
    IN FoldLeft(step, [size |-> 0, at |-> <<>>], atoms)

(* .text, .data, .rdata and .bss by name, other sections by their first    *)
(* atom; and every section at its largest alignment, at least a page.      *)
Characteristics(name, atoms) ==
    CASE name = ".text" -> "code" [] name = ".bss" -> "bss" [] name \in {".data", ".rdata"} -> "data"
      [] OTHER -> IF atoms[1].type = "code" THEN "code" ELSE "data"
MemAlign(atoms) == Max({PageSize} \cup {atoms[i].align : i \in DOMAIN atoms})

AtomChunk(name, atoms) ==
    [name |-> name, atoms |-> atoms, at |-> AppendAtoms(atoms).at, size |-> AppendAtoms(atoms).size,
     chars |-> Characteristics(name, atoms), align |-> MemAlign(atoms), rva |-> 0, file |-> 0]

(* groupAtoms, and a chunk for each section that is not empty.             *)
Chunks(renamed, atoms) ==
    LET used == SelectSeq(Names, LAMBDA n : \E i \in DOMAIN atoms : SectionFor(renamed, atoms[i]) = n)
        chunk(n) == AtomChunk(n, SelectSeq(atoms, LAMBDA a : SectionFor(renamed, a) = n))
    IN SelectSeq([i \in DOMAIN used |-> chunk(used[i])], LAMBDA c : c.size > 0)

(* addSectionChunk: the size in memory starts with the unmapped page.      *)
AddSectionChunk(acc, chunk) ==
    LET rva == RoundUp(acc.memory, chunk.align) IN
    [memory |-> RoundUp(rva + chunk.size, PageSize), chunks |-> Append(acc.chunks, [chunk EXCEPT !.rva = rva])]
AddSections(chunks) == FoldLeft(AddSectionChunk, [memory |-> PageSize, chunks |-> <<>>], chunks)

(* buildAtomRvaMap.                                                        *)
AtomRva(chunks) ==
    LET places == UNION {{<<c, i>> : i \in DOMAIN chunks[c].atoms} : c \in DOMAIN chunks}
        ids == {chunks[p[1]].atoms[p[2]].id : p \in places}
        place(id) == CHOOSE p \in places : chunks[p[1]].atoms[p[2]].id = id
    IN [id \in ids |-> chunks[place(id)[1]].rva + chunks[place(id)[1]].at[place(id)[2]]]

(* addBaseRelocations: words with the address of something that moves.     *)
IsImageBase(a) == a.name \in {"__ImageBase", "___ImageBase"}
MovingKinds(machine) ==
    CASE machine = "x86" -> {"dir32"} [] machine = "x64" -> {"dir64"} [] OTHER -> {"dir32", "mov32t"}
EverySiteOf(machine, absolute, a, rva) ==
    LET moving == SelectSeq(a.refs, LAMBDA r : r.kind \in MovingKinds(machine)) IN
    [i \in DOMAIN moving |-> [addr |-> rva[a.id] + moving[i].off, type |-> moving[i].kind]]
SitesOf(machine, absolute, a, rva) ==
    LET Moves(r) == /\ r.kind \in MovingKinds(machine)
                    /\ \A x \in absolute : x.id = r.to => IsImageBase(x)
        moving == SelectSeq(a.refs, Moves)
    IN [i \in DOMAIN moving |-> [addr |-> rva[a.id] + moving[i].off, type |-> moving[i].kind]]
ListRelocSites(machine, absolute, chunks, rva) ==
    FlattenSeq([c \in DOMAIN chunks |->
      FlattenSeq([i \in DOMAIN chunks[c].atoms |-> SitesOf(machine, absolute, chunks[c].atoms[i], rva)])])

(* createContents: a block for each page, each a multiple of four bytes.   *)
Page(addr) == (addr \div PageSize) * PageSize
BaseRelocBlocks(sites) ==
    LET pages == SetToSortSeq({Page(sites[i].addr) : i \in DOMAIN sites}, <)
        of(p) == SelectSeq(sites, LAMBDA s : Page(s.addr) = p)
        entries(p) == [i \in DOMAIN of(p) |-> [off |-> of(p)[i].addr % PageSize, type |-> of(p)[i].type]]
    IN [k \in DOMAIN pages |-> [page |-> pages[k], size |-> RoundUp(8 + 2 * Len(of(pages[k])), 4),
                                entries |-> entries(pages[k])]]
RelocChunk(blocks) ==
    [AtomChunk(".reloc", <<Blank>>) EXCEPT
       !.atoms = <<>>, !.at = <<>>, !.size = FoldLeft(LAMBDA n, b : n + b.size, 0, blocks)]

(* The chunks before the sections: DOS stub, PE header, data directories,  *)
(* section table, and the string table of the names of more than 8 bytes,  *)
(* which counts for the file but not for SizeOfHeaders.                    *)
DosStubSize == 128
PEHeaderSize(machine) == 4 + 20 + (IF machine = "x64" THEN 112 ELSE 96)
HeadersEnd(machine, n) == DosStubSize + PEHeaderSize(machine) + 16 * 8 + 40 * n
StringTableSize(chunks, length) ==
    LET long == SelectSeq(chunks, LAMBDA c : length[c.name] > 8) IN
    IF long = <<>> THEN 0 ELSE FoldLeft(LAMBDA n, c : n + length[c.name] + 1, 22, long)

OnDiskSize(c) == IF c.chars = "bss" THEN 0 ELSE RoundUp(c.size, Sector)

(* setImageSizeOnDisk.                                                     *)
FileOffsets(chunks, start) ==
    LET step(acc, c) == LET at == RoundUp(acc.size, Sector) IN
          [size |-> at + OnDiskSize(c), chunks |-> Append(acc.chunks, [c EXCEPT !.file = at])]
    IN FoldLeft(step, [size |-> start, chunks |-> <<>>], chunks).chunks

(* build: the address of the entry point is looked for in .text only.      *)
EntryPoint(machine, chunks, rva, entry) ==
    LET text == SelectSeq(chunks, LAMBDA c : c.name = ".text")
        named == IF text = <<>> THEN <<>> ELSE SelectSeq(text[1].atoms, LAMBDA a : a.name = entry)
    IN IF named = <<>> THEN 0
       ELSE IF machine = "arm" THEN rva[named[1].id] + 1 - (rva[named[1].id] % 2) ELSE rva[named[1].id]

DirectoryNames == {".pdata", ".rsrc", ".idata.a", ".idata.d", ".edata", ".loadcfg", ".didat.d", ".reloc"}
DataDirectory(chunks) ==
    LET here == {c \in DOMAIN chunks : chunks[c].name \in DirectoryNames} IN
    [n \in {chunks[c].name : c \in here} |->
       LET c == CHOOSE c \in here : chunks[c].name = n IN [rva |-> chunks[c].rva, size |-> chunks[c].size]]

(* The image: what its headers say, and the words of its atoms by their    *)
(* offset in the file.                                                     *)
WordOffsets(a) == DOMAIN a.words \cup {a.refs[r].off : r \in DOMAIN a.refs}
WordsOf(c) ==
    UNION {{[pos |-> c.file + c.at[i] + o,
             val |-> IF o \in DOMAIN c.atoms[i].words THEN c.atoms[i].words[o] ELSE 0] :
              o \in WordOffsets(c.atoms[i])} : i \in DOMAIN c.atoms}
Content(chunks) ==
    LET words == UNION {WordsOf(chunks[c]) : c \in {k \in DOMAIN chunks : chunks[k].chars # "bss"}} IN
    [p \in {w.pos : w \in words} |-> (CHOOSE w \in words : w.pos = p).val]

Build(machine, atoms, absolute, renamed, entry, length) ==
    LET placed == AddSections(Chunks(renamed, atoms)).chunks
        rva == AtomRva(placed)
        blocks == BaseRelocBlocks(ListRelocSites(machine, absolute, placed, rva))
        all == AddSections(Chunks(renamed, atoms) \o (IF blocks = <<>> THEN <<>> ELSE <<RelocChunk(blocks)>>))
        headers == HeadersEnd(machine, Len(all.chunks))
        chunks == FileOffsets(all.chunks, headers + StringTableSize(all.chunks, length))
    IN [chunks |-> chunks, rva |-> rva, blocks |-> blocks, sizeOfImage |-> all.memory,
        sizeOfHeaders |-> RoundUp(headers, Sector), entry |-> EntryPoint(machine, chunks, rva, entry),
        dirs |-> DataDirectory(chunks), content |-> Content(chunks)]

(*----------------------------- relocations ------------------------------*)
(* getSectionIndex counts from one and stops at the section after it.      *)
GetSectionIndex(chunks, addr) == 1 + Cardinality({c \in DOMAIN chunks : chunks[c].rva <= addr})
GetSectionStartAddr(chunks, addr) ==
    LET below == {c \in DOMAIN chunks : chunks[c].rva <= addr} IN
    chunks[IF below = {} THEN Len(chunks) ELSE Max(below)].rva

Rel32 == [k \in {"rel32", "rel32_1", "rel32_2", "rel32_3", "rel32_4", "rel32_5"} |->
            CASE k = "rel32" -> 4 [] k = "rel32_1" -> 5 [] k = "rel32_2" -> 6
              [] k = "rel32_3" -> 7 [] k = "rel32_4" -> 8 [] OTHER -> 9]

(* What applyRelocationsX86, X64 and ARM store for a reference at address  *)
(* "site" to the atom at "target", over the number already there.          *)
ApplyX86(kind, old, site, target, absolute, chunks) ==
    CASE kind = "dir32" -> old + (IF absolute # {} THEN (CHOOSE x \in absolute : TRUE).value ELSE target + Base)
      [] kind = "dir32nb" -> old + target
      [] kind = "rel32" -> old + target - (site + 4)
      [] kind = "section" -> old + GetSectionIndex(chunks, target)
      [] kind = "secrel" -> old + target - GetSectionStartAddr(chunks, target)
ApplyX64(kind, old, site, target, chunks) ==
    CASE kind \in {"dir64", "dir32"} -> old + target + Base
      [] kind = "dir32nb" -> old + target
      [] kind \in DOMAIN Rel32 -> old + target - site - Rel32[kind]
      [] kind = "section" -> old + GetSectionIndex(chunks, target) - 1
      [] kind = "secrel" -> old + target - GetSectionStartAddr(chunks, target)

(* On ARM the address of code is odd; the moves are or-ed into what is     *)
(* there, and a branch loses the lowest bit of its distance.               *)
ApplyARM(kind, old, site, target, thumb) ==
    LET addr == IF thumb THEN target + 1 - (target % 2) ELSE target IN
    CASE kind = "dir32" -> old + addr + Base
      [] kind = "dir32nb" -> old + addr
      [] kind = "mov32t" -> IF old = 0 THEN addr + Base ELSE old
      [] kind \in {"branch24t", "blx23t"} -> ((addr - site - 4) \div 2) * 2

(* std::sort of the words of .sxdata, and of the entries of .pdata by      *)
(* their first word.                                                       *)
SortedEntries(content, start, count, width) ==
    LET entry(i) == [w \in 0..(width - 1) |-> content[start + 4 * (width * (i - 1) + w)]]
        entries == SortSeq([i \in 1..count |-> entry(i)], LAMBDA x, y : x[0] < y[0])
        positions == {start + 4 * k : k \in 0..(count * width - 1)}
    IN [p \in DOMAIN content |->
          IF p \in positions
          THEN LET k == (p - start) \div 4 IN entries[k \div width + 1][k % width]
          ELSE content[p]]
LeaveSEHTableEntries(machine, chunks, content) == content
ReorderSEHTableEntries(machine, chunks, content) ==
    LET name == IF machine = "x86" THEN ".sxdata" ELSE ".pdata"
        width == IF machine = "x86" THEN 1 ELSE 3
        table == {c \in DOMAIN chunks : chunks[c].name = name}
    IN IF table = {} \/ machine = "arm" THEN content
       ELSE LET c == chunks[CHOOSE c \in table : TRUE] IN
            SortedEntries(content, c.file, c.size \div (4 * width), width)

-----------------------------------------------------------------------------
(***************************************************************************)
(* The link.                                                               *)
(***************************************************************************)

CONSTANTS Scenarios, Undecorated, Length

VARIABLES
    given,     \* [machine, objs, imports, exports, alternate, renamed, delayed, entry]
    phase,
    atoms,     \* the atoms of the linked file
    image,     \* what Build returns; rva and content change while relocating
    chunk,     \* the chunk being relocated
    todo       \* its atoms not relocated yet

vars == <<given, phase, atoms, image, chunk, todo>>

machine == given.machine
Files == Len(given.objs) + Len(given.imports)
HelperName == IF machine = "x64" THEN "__delayLoadHelper2" ELSE "___delayLoadHelper2@8"

Init ==
    /\ given \in Scenarios
    /\ phase = <<"load", 1>>
    /\ atoms = <<>>
    /\ image = [chunks |-> <<>>]
    /\ chunk = 0
    /\ todo = {}

(* doParse and beforeLink of the next file.                                *)
Load ==
    /\ phase[1] = "load" /\ phase[2] <= Files
    /\ LET f == phase[2]
           objs == Len(given.objs)
           parsed == IF f <= objs THEN Parse(given.objs[f], f)
                     ELSE ImportAtoms(given.imports[f - objs], f, machine)
       IN atoms' = atoms \o parsed \o (IF f <= objs THEN Aliases(parsed, given.alternate) ELSE <<>>)
    /\ phase' = <<"load", phase[2] + 1>>
    /\ UNCHANGED <<given, image, chunk, todo>>

(* The Resolver, as far as this component depends on it: a name means its  *)
(* strong definition if there is one.                                      *)
Defining(as, name) ==
    {k \in DOMAIN as : as[k].kind # "undefined" /\ as[k].global /\ as[k].name = name}
Definition(as, name) ==
    LET strong == {k \in Defining(as, name) : ~as[k].weak} IN
    Min(IF strong # {} THEN strong ELSE Defining(as, name))
Overridden(as, k) == as[k].kind # "undefined" /\ as[k].global /\ Definition(as, as[k].name) # k

(* LinkerGeneratedSymbolFile, and LocallyImportedSymbolFile: a pointer to  *)
(* a symbol of the image itself, where __imp_ of it is asked for.          *)
ImageBaseAtom == [Blank EXCEPT !.id = <<Files + 1, "image base", 0>>, !.kind = "absolute",
                    !.name = IF machine = "x86" THEN "___ImageBase" ELSE "__ImageBase",
                    !.global = TRUE, !.value = Base, !.file = Files + 1]
LocallyImported(as) ==
    {k \in DOMAIN as : /\ as[k].kind = "defined" /\ as[k].global
                       /\ Defining(as, ImportName(as[k].name)) = {}
                       /\ \E u \in DOMAIN as : as[u].kind = "undefined" /\ as[u].name = ImportName(as[k].name)}
ImpPointers(as) ==
    LET found == SetToSortSeq(LocallyImported(as), <) IN
    [i \in DOMAIN found |->
      [Blank EXCEPT !.id = <<Files + 2, "imp", i>>, !.name = ImportName(as[found[i]].name), !.type = "rdata",
         !.size = 4, !.align = 16, !.file = Files + 2, !.ord = i, !.global = TRUE,
         !.refs = <<To("dir32", 0, as[found[i]].id)>>]]

Meaning(as, a) ==
    IF Defining(as, a.name) # {} THEN as[Definition(as, a.name)].id
    ELSE IF Defining(as, a.fallback) # {} THEN as[Definition(as, a.fallback)].id ELSE a.id
Resolve ==
    /\ phase = <<"load", Files + 1>>
    /\ LET more == atoms \o <<ImageBaseAtom>>
           all == more \o ImpPointers(more)
           byId == [id \in {all[k].id : k \in DOMAIN all} |-> CHOOSE k \in DOMAIN all : all[k].id = id]
           Final(id) == IF all[byId[id]].kind = "undefined" \/ Overridden(all, byId[id])
                        THEN Meaning(all, all[byId[id]]) ELSE id
           retargeted == [k \in DOMAIN all |-> [all[k] EXCEPT !.refs =
                            [r \in DOMAIN @ |-> [@[r] EXCEPT !.to = Final(@)]]]]
           Kept(k) == all[k].kind # "undefined" /\ ~Overridden(all, k)
           kept == Where(retargeted, Kept)
           missing == {k \in DOMAIN all : all[k].kind = "undefined" /\ Meaning(all, all[k]) = all[k].id}
       IN /\ atoms' = [i \in DOMAIN kept |-> retargeted[kept[i]]]
          /\ phase' = IF missing = {} THEN <<"edata", 0>> ELSE <<"undefined symbols", 0>>
    /\ UNCHANGED <<given, image, chunk, todo>>

EdataPass ==
    /\ phase[1] = "edata"
    /\ atoms' = Edata(atoms, given.exports, machine, Undecorated, Files + 3)
    /\ phase' = <<"idata", 0>>
    /\ UNCHANGED <<given, image, chunk, todo>>

(* A delayed DLL needs the helper, or the linker stops.                    *)
IdataPass ==
    /\ phase[1] = "idata"
    /\ LET helper == LastNamed(atoms, HelperName)
           needed == \E i \in DOMAIN DLLs(atoms) : DLLs(atoms)[i] \in given.delayed
       IN IF needed /\ helper = 0
          THEN phase' = <<"no helper", 0>> /\ UNCHANGED atoms
          ELSE /\ atoms' = Idata(atoms, given.delayed, machine,
                                 IF needed THEN atoms[helper].id ELSE Blank.id, Files + 4)
               /\ phase' = <<"order", 0>>
    /\ UNCHANGED <<given, image, chunk, todo>>

(* OrderPass, which leaves the absolute atoms aside, then LoadConfigPass.  *)
OrderPass ==
    /\ phase[1] = "order"
    /\ atoms' = LoadConfig(Order(atoms), Files + 5) \o SelectSeq(atoms, LAMBDA a : a.kind = "absolute")
    /\ phase' = <<"build", 0>>
    /\ UNCHANGED <<given, image, chunk, todo>>

Absolute == {atoms[i] : i \in {k \in DOMAIN atoms : atoms[k].kind = "absolute"}}
BuildImage ==
    /\ phase[1] = "build"
    /\ image' = Build(machine, SelectSeq(atoms, LAMBDA a : a.kind = "defined"), Absolute, given.renamed,
                      given.entry, Length)
    /\ phase' = <<"relocate", 0>>
    /\ UNCHANGED <<given, atoms, chunk, todo>>

(* applyAllRelocations: the next chunk's atoms go to the task group; those *)
(* without references have nothing to do.                                  *)
NextChunk ==
    /\ phase[1] = "relocate" /\ todo = {} /\ chunk < Len(image.chunks)
    /\ chunk' = chunk + 1
    /\ todo' = {i \in DOMAIN image.chunks[chunk'].atoms : image.chunks[chunk'].atoms[i].refs # <<>>}
    /\ UNCHANGED <<given, phase, atoms, image>>

(* atomRva[target] makes an entry for a target that has none.              *)
Look(rva, id) == IF id \in DOMAIN rva THEN rva[id] ELSE 0
Noted(rva, id) == IF id \in DOMAIN rva THEN rva ELSE [i \in DOMAIN rva \cup {id} |-> IF i = id THEN 0 ELSE rva[i]]
IsThumb(id) == \E i \in DOMAIN atoms : atoms[i].id = id /\ atoms[i].type = "code"

Stored(ref, old, site, rva) ==
    LET target == Look(rva, ref.to) IN
    CASE machine = "x86" -> ApplyX86(ref.kind, old, site, target, {x \in Absolute : x.id = ref.to}, image.chunks)
      [] machine = "x64" -> ApplyX64(ref.kind, old, site, target, image.chunks)
      [] OTHER -> ApplyARM(ref.kind, old, site, target, IsThumb(ref.to))

(* One worker's task: all the references of one atom.                      *)
RelocateAtom(i) ==
    LET c == image.chunks[chunk]
        a == c.atoms[i]
        apply(acc, ref) ==
          LET pos == c.file + c.at[i] + ref.off
              rva == Noted(acc.rva, ref.to)
          IN [acc EXCEPT !.rva = rva, !.content[pos] = Stored(ref, @, acc.rva[a.id] + ref.off, rva)]
    IN /\ i \in todo
       /\ image' = FoldLeft(apply, image, a.refs)
       /\ todo' = todo \ {i}
       /\ UNCHANGED <<given, phase, atoms, chunk>>

(* reorderSEHTableEntries, and the file is committed.                      *)
Finish ==
    /\ phase[1] = "relocate" /\ todo = {} /\ chunk = Len(image.chunks)
    /\ image' = [image EXCEPT !.content = ReorderSEHTableEntries(machine, image.chunks, @)]
    /\ phase' = <<"done", 0>>
    /\ UNCHANGED <<given, atoms, chunk, todo>>

Done == phase[1] \in {"done", "undefined symbols", "no helper"} /\ UNCHANGED vars

Next == \/ Load \/ Resolve \/ EdataPass \/ IdataPass \/ OrderPass \/ BuildImage
        \/ NextChunk \/ Finish \/ Done
        \/ \E i \in todo : RelocateAtom(i)

Spec == Init /\ [][Next]_vars

(***************************************************************************)
(* What a loader and a processor make of the finished image, written from  *)
(* the PE format: sections are mapped, words with a base relocation are    *)
(* moved, imported addresses are bound, exports are looked up.  And what   *)
(* they must find for the objects the image was linked from.               *)
(***************************************************************************)

CONSTANT Delta      \* how far from Base the loader maps the image

Linked == phase[1] = "done"
Chunk == image.chunks

(*------------------------------ the loader ------------------------------*)
SectionAt(rva) == {c \in DOMAIN Chunk : Chunk[c].rva <= rva /\ rva < Chunk[c].rva + Chunk[c].size}
FilePos(rva) == LET c == CHOOSE c \in SectionAt(rva) : TRUE IN Chunk[c].file + rva - Chunk[c].rva
Read(rva) == IF SectionAt(rva) # {} /\ FilePos(rva) \in DOMAIN image.content THEN image.content[FilePos(rva)] ELSE 0
BaseRelocations(rva) ==
    {<<b, e>> \in UNION {{b} \X DOMAIN image.blocks[b].entries : b \in DOMAIN image.blocks} :
        image.blocks[b].page + image.blocks[b].entries[e].off = rva}
Slid(rva) == Read(rva) + Delta * Cardinality(BaseRelocations(rva))
Address(rva) == Base + Delta + rva

(* The string that is at an address.                                       *)
AtomAtRva(rva) ==
    LET c == CHOOSE c \in SectionAt(rva) : TRUE
        i == CHOOSE i \in DOMAIN Chunk[c].atoms : Chunk[c].rva + Chunk[c].at[i] = rva /\ Chunk[c].atoms[i].size > 0
    IN Chunk[c].atoms[i]
StringAt(rva) == AtomAtRva(rva).import
HintAt(rva) == AtomAtRva(rva).hint
Directory(name) == IF name \in DOMAIN image.dirs THEN image.dirs[name].rva ELSE 0

(* The entries of the import tables up to the null one, and the slots each *)
(* of them binds, with the DLL's symbol that is bound there.               *)
Pointer == PointerSize(machine)
DirectoryEntries(name, size) ==
    LET start == Directory(name)
        Live(k) == \A j \in 0..k : Read(start + size * j + (IF size = 20 THEN 12 ELSE 4)) # 0
    IN IF start = 0 THEN {} ELSE {start + size * k : k \in {k \in 0..Len(given.imports) : Live(k)}}
Slots(lookup, address, dll) ==
    LET Live(k) == \A j \in 0..k : Read(lookup + Pointer * j) # 0
        import(v) == IF v < 0 THEN [dll |-> dll, name |-> "", hint |-> -1 - v]
                     ELSE [dll |-> dll, name |-> StringAt(v), hint |-> HintAt(v)]
    IN {[slot |-> address + Pointer * k, is |-> import(Read(lookup + Pointer * k))] :
          k \in {k \in 0..Len(given.imports) : Live(k)}}
SlotsNow == UNION {Slots(Read(e), Read(e + 16), StringAt(Read(e + 12))) : e \in DirectoryEntries(".idata.d", 20)}
SlotsLater == UNION {Slots(Read(e + 16), Read(e + 12), StringAt(Read(e + 4))) : e \in DirectoryEntries(".didat.d", 32)}

(* The table of exported names is searched by bisection.                   *)
Exports == Directory(".edata")
NameAt(i) == StringAt(Read(Read(Exports + 32) + 4 * i))
Bisect[lo \in Nat, hi \in Nat, name \in {Names[i] : i \in DOMAIN Names}] ==
    IF lo >= hi THEN -1
    ELSE LET mid == (lo + hi) \div 2 IN
         IF NameAt(mid) = name THEN Read(Read(Exports + 36) + 2 * mid)
         ELSE IF Rank(name) < Rank(NameAt(mid)) THEN Bisect[lo, mid, name] ELSE Bisect[mid + 1, hi, name]
ExportOf(name) ==
    LET i == Bisect[0, Read(Exports + 24), name] IN
    IF i < 0 \/ i >= Read(Exports + 20) THEN -1 ELSE Read(Read(Exports + 28) + 4 * i)
ExportAt(ordinal) == Read(Read(Exports + 28) + 4 * (ordinal - Read(Exports + 16)))

(*-------------------------- what was linked -----------------------------*)
(* The pieces of a section of an object keep their distances.              *)
FirstPiece(f, s) ==
    LET pieces == {a \in UNION {ToSet(Chunk[c].atoms) : c \in DOMAIN Chunk} :
                     a.file = f /\ a.at[1] = s}
    IN CHOOSE a \in pieces : \A b \in pieces : a.at[2] <= b.at[2]
SectionPlace(f, s) == image.rva[FirstPiece(f, s).id] - FirstPiece(f, s).at[2]

Objs == DOMAIN given.objs
Symbol(p) == given.objs[p[1]].symbols[p[2]]
Symbols == UNION {{f} \X DOMAIN given.objs[f].symbols : f \in Objs}
Strong(name) == {p \in Symbols : Symbol(p).global /\ Symbol(p).sect # 0 /\ Symbol(p).name = name}
Commons(name) == {p \in Symbols : Symbol(p).sect = 0 /\ Symbol(p).value > 0 /\ Symbol(p).name = name}
Imported(name) == {i \in DOMAIN given.imports : given.imports[i].name = name}
Thing(is, at) == [is |-> is, at |-> at]
Section(p) == Thing("place", SectionPlace(p[1], Symbol(p).sect) + Symbol(p).value)
Here(p) == IF Symbol(p).sect = -1 THEN Thing("number", Symbol(p).value) ELSE Section(p)
(* What a name means: a place of the image, a number, the slot of an       *)
(* import, or code that jumps to where that slot says.                     *)
OfName(name) ==
    LET slot == {i \in DOMAIN given.imports : ImportName(given.imports[i].name) = name}
        pointed == {n \in {Symbol(p).name : p \in Symbols} : ImportName(n) = name /\ Strong(n) # {}}
    IN CASE Strong(name) # {} -> Here(CHOOSE p \in Strong(name) : TRUE)
         [] name \in {"__ImageBase", "___ImageBase"} -> Thing("place", 0)
         [] Commons(name) # {} -> Thing("place", image.rva[LET p == CHOOSE p \in Commons(name) : TRUE IN <<p[1], "common", p[2]>>])
         [] slot # {} -> Thing("slot", CHOOSE i \in slot : TRUE)
         [] Imported(name) # {} -> Thing("jump", CHOOSE i \in Imported(name) : TRUE)
         [] pointed # {} -> Thing("pointer", Here(CHOOSE p \in Strong(CHOOSE n \in pointed : TRUE) : TRUE).at)
OfSymbol(p) ==
    LET s == Symbol(p)
        undefined == s.sect = 0
        known == Strong(s.name) # {} \/ Commons(s.name) # {} \/ Imported(s.name) # {}
    IN IF ~undefined /\ (~s.global \/ Strong(s.name) = {p}) THEN Here(p)
       ELSE IF undefined /\ s.weak # 0 /\ ~known THEN OfName(given.objs[p[1]].symbols[s.weak].name)
       ELSE OfName(s.name)

ImportedAs(i) == LET m == given.imports[i] IN [dll |-> m.dll, name |-> m.import, hint |-> m.hint]
SlotsOf(i) == {s.slot : s \in {t \in SlotsNow \cup SlotsLater : t.is = ImportedAs(i)}}
Jumps(rva) ==
    CASE machine = "x64" -> rva + 6 + Read(rva + 2)
      [] machine = "x86" -> Slid(rva + 2) - Address(0)
      [] OTHER -> Slid(rva) - Address(0)
Odd(rva) == rva % 2 = 1
(* Whether an address is that thing; on ARM the address of code is odd.    *)
IsCode(rva) == \E c \in DOMAIN Chunk : Chunk[c].chars = "code" /\ Chunk[c].rva <= rva /\ rva < Chunk[c].rva + Chunk[c].size
Even(rva) == IF machine = "arm" /\ IsCode(rva - (rva % 2)) THEN rva - (rva % 2) ELSE rva
Is(rva, thing) ==
    CASE thing.is = "place" -> rva = thing.at
      [] thing.is = "slot" -> rva \in SlotsOf(thing.at)
      [] thing.is = "jump" -> Jumps(rva) \in SlotsOf(thing.at)
      [] thing.is = "pointer" -> Slid(rva) = Address(thing.at)
      [] thing.is = "number" -> FALSE

(* Whether the word at a site designates it.                               *)
Relocs(f, s) == ToSet(given.objs[f].sections[s].relocs)
Addend(f, s, r) == LET w == given.objs[f].sections[s].words IN IF r.off \in DOMAIN w THEN w[r.off] ELSE 0
After == [k \in DOMAIN Rel32 |-> Rel32[k]]
Pointing(r, thing) == machine = "arm" /\ thing.is \in {"place", "jump"} /\ r.kind \in {"dir32", "dir32nb", "mov32t"}
Designates(f, s, r) ==
    LET site == SectionPlace(f, s) + r.off
        add == Addend(f, s, r)
        thing == OfSymbol(<<f, r.sym>>)
        target == CASE r.kind \in {"dir32", "dir64", "mov32t"} -> Slid(site) - add - Address(0)
                    [] r.kind = "dir32nb" -> Read(site) - add
                    [] r.kind \in DOMAIN After -> Read(site) - add + site + After[r.kind]
                    [] r.kind \in {"branch24t", "blx23t"} -> Read(site) + site + 4
                    [] OTHER -> 0
        sections == {c \in DOMAIN Chunk : Chunk[c].rva <= thing.at}
    IN CASE thing.is = "number" -> Slid(site) = thing.at + add
         [] r.kind = "section" -> Read(site) - add = Cardinality(sections)
         [] r.kind = "secrel" -> Read(site) - add = thing.at - Chunk[Max(sections)].rva
         [] OTHER -> /\ Is(IF Pointing(r, thing) THEN Even(target) ELSE target, thing)
                     /\ Pointing(r, thing) => Odd(target) = IsCode(Even(target))

(*------------------------------ properties ------------------------------*)
(* Wherever the loader maps the image, every word an object asked to have  *)
(* relocated designates the symbol: its definition at the same distance    *)
(* from the other pieces of its section as in the object, the slot of the  *)
(* imported symbol or code that jumps through it; and a number is never    *)
(* moved.  The words of .pdata do move: see FunctionsAreListed.            *)
(* (WriterPECOFF.cpp: AtomChunk, BaseRelocChunk; ReaderCOFF.cpp)           *)
IsFunctionTable(f, s) == given.objs[f].sections[s].name = ".pdata"
ReferencesArrive ==
    Linked => \A f \in Objs : \A s \in DOMAIN given.objs[f].sections :
                ~IsFunctionTable(f, s) => \A r \in Relocs(f, s) : Designates(f, s, r)

(* Every import has one slot, that the loader finds through the table of   *)
(* its DLL: directly, before the program runs, or because the slot starts  *)
(* with the address of code that passes this very slot and this DLL's      *)
(* directory to the helper.  The table the loader overwrites says the same *)
(* as the one it reads.  (IdataPass.cpp)                                   *)
LoaderOf(slot) == Slid(slot) - Address(0)
CallsHelper(entry, slot) ==
    LET code == LoaderOf(slot)
        helper == OfName(HelperName).at
    IN IF machine = "x86"
       THEN /\ Slid(code + 3) = Address(slot) /\ Slid(code + 8) = Address(entry)
            /\ Read(code + 13) + code + 17 = helper
       ELSE /\ Read(code + 36) + code + 40 = slot /\ Read(code + 43) + code + 47 = entry
            /\ Read(code + 48) + code + 52 = helper
ImportsBound ==
    Linked =>
      /\ \A i \in DOMAIN given.imports :
           /\ Cardinality(SlotsOf(i)) = 1
           /\ given.imports[i].dll \in given.delayed <=> SlotsOf(i) \subseteq {s.slot : s \in SlotsLater}
      /\ \A e \in DirectoryEntries(".idata.d", 20) : \A k \in 0..Len(given.imports) :
           (\A j \in 0..k : Read(Read(e) + Pointer * j) # 0)
             => Read(Read(e) + Pointer * k) = Read(Read(e + 16) + Pointer * k)
      /\ \A e \in DirectoryEntries(".didat.d", 32) :
           \A s \in Slots(Read(e + 16), Read(e + 12), StringAt(Read(e + 4))) : CallsHelper(e, s.slot)

(* What was exported is found: by bisection under its name, unless it has  *)
(* none, and at the ordinal it asked for; and no name leads elsewhere.     *)
(* (EdataPass.cpp: assignOrdinals sorts by one name, getExportedAtoms by   *)
(* another; two tables run in parallel.)                                   *)
Shown(e) == Undecorate(machine, Undecorated, ExternalName(e))
Exported == ToSet(given.exports)
ExportsFound ==
    Linked /\ given.exports # <<>> =>
      /\ \A e \in Exported :
           LET place == OfName(RealName(e)).at
               dropped == \E d \in Exported : d # e /\ RealName(d) = RealName(e)
           IN /\ e.noname \/ dropped \/ ExportOf(Shown(e)) = place
              /\ e.ordinal = -1 \/ dropped \/ ExportAt(e.ordinal) = place
      /\ \A n \in {Shown(e) : e \in Exported} :
           ExportOf(n) = -1 \/ \E e \in Exported : Shown(e) = n /\ ExportOf(n) = OfName(RealName(e)).at

(* The image can be mapped: headers and sections follow each other without *)
(* overlap in memory, at pages, and in the file, at sectors; every atom is *)
(* aligned and inside its section, no two share a byte; a base relocation  *)
(* is listed once, in ascending pages; and the two tables that are sorted  *)
(* after they were relocated still hold what was relocated.                *)
(* (PECOFFWriter::build, addSectionChunk, setImageSizeOnDisk,              *)
(* reorderSEHTableEntriesX86 and X64)                                      *)
Apart(c) ==
    LET m == Chunk[c] IN
    \A i \in DOMAIN m.atoms :
      /\ m.at[i] % m.atoms[i].align = 0 /\ m.rva % m.atoms[i].align = 0
      /\ m.at[i] + m.atoms[i].size <= (IF i = Len(m.atoms) THEN m.size ELSE m.at[i + 1])
SectionsFollow ==
    /\ Chunk # <<>> => image.sizeOfHeaders <= Chunk[1].rva
    /\ \A c \in DOMAIN Chunk :
         LET m == Chunk[c] IN
         /\ m.rva % PageSize = 0 /\ m.file % Sector = 0 /\ Apart(c)
         /\ HeadersEnd(machine, Len(Chunk)) <= m.file
         /\ m.rva + m.size <= (IF c = Len(Chunk) THEN image.sizeOfImage ELSE Chunk[c + 1].rva)
         /\ c < Len(Chunk) => m.file + OnDiskSize(m) <= Chunk[c + 1].file
RelocationsListedOnce ==
    /\ \A b \in DOMAIN image.blocks :
         /\ b > 1 => image.blocks[b - 1].page < image.blocks[b].page
         /\ image.blocks[b].size % 4 = 0
         /\ \A e \in DOMAIN image.blocks[b].entries : image.blocks[b].entries[e].off < PageSize
    /\ \A site \in {image.blocks[x[1]].page + image.blocks[x[1]].entries[x[2]].off :
                      x \in UNION {{b} \X DOMAIN image.blocks[b].entries : b \in DOMAIN image.blocks}} :
         Cardinality(BaseRelocations(site)) = 1

(* The table of functions of x64, where its directory says: each function  *)
(* of the objects' .pdata with its begin, end and unwind information in    *)
(* one entry, all of them and nothing else, by ascending begin, since the  *)
(* runtime searches it by bisection.                                       *)
FunctionsGiven ==
    LET Word(f, s, o) == LET r == CHOOSE r \in Relocs(f, s) : r.off = o
                         IN OfSymbol(<<f, r.sym>>).at + Addend(f, s, r)
        Of(f, s) == {[w \in 0..2 |-> Word(f, s, 12 * k + 4 * w)] : k \in 0..(given.objs[f].sections[s].size \div 12 - 1)}
    IN UNION {Of(p[1], p[2]) : p \in {q \in UNION {{f} \X DOMAIN given.objs[f].sections : f \in Objs} : IsFunctionTable(q[1], q[2])}}
FunctionsAreListed ==
    machine = "x64" /\ FunctionsGiven # {} =>
      LET count == image.dirs[".pdata"].size \div 12
          entry(k) == [w \in 0..2 |-> Read(Directory(".pdata") + 12 * k + 4 * w)]
      IN /\ ".pdata" \in DOMAIN image.dirs
         /\ {entry(k) : k \in 0..(count - 1)} = FunctionsGiven
         /\ \A k \in 1..(count - 1) : entry(k - 1)[0] < entry(k)[0]

(* The table of exception handlers of x86: its words ascend and are those  *)
(* that were relocated, each still with a base relocation.  What they hold *)
(* is the handler's address plus the number of its symbol in the object,   *)
(* and so not what ReaderCOFF.cpp:958 promises (see HandlersAreListed).    *)
HandlerTables == {c \in DOMAIN Chunk : Chunk[c].name = ".sxdata"}
WordsIn(c) == 0..(Chunk[c].size \div 4 - 1)
HandlersAreKept ==
    machine = "x86" =>
      \A c \in HandlerTables :
        /\ {Slid(Chunk[c].rva + 4 * i) : i \in WordsIn(c)}
             = UNION {{Address(OfSymbol(<<f, n>>).at) + n : n \in ToSet(given.objs[f].sxdata)} : f \in Objs}
        /\ \A i \in WordsIn(c) \ {0} : Read(Chunk[c].rva + 4 * (i - 1)) < Read(Chunk[c].rva + 4 * i)
Loadable == Linked => SectionsFollow /\ RelocationsListedOnce /\ FunctionsAreListed /\ HandlersAreKept

(* "What we want to emit from the linker is a vector of SEH handler VAs":  *)
(* the table the runtime looks a handler up in holds the addresses of the  *)
(* handlers the objects name.  It does NOT hold: the table's bytes are     *)
(* kept as the atom's content, and relocation adds to them.                *)
(* (ReaderCOFF.cpp:958 and :968-971, WriterPECOFF.cpp:676)                 *)
Handlers == UNION {{OfSymbol(<<f, n>>).at : n \in ToSet(given.objs[f].sxdata)} : f \in Objs}
HandlersAreListed ==
    Linked /\ machine = "x86" =>
      \A c \in HandlerTables :
        {Slid(Chunk[c].rva + 4 * i) : i \in WordsIn(c)} = {Address(h) : h \in Handlers}

(* An alias "and the target atom will be laid out at the same location".   *)
(* (Alias.h:24, FileCOFF::createAlias)                                     *)
AliasesAreThere ==
    Linked => \A c \in DOMAIN Chunk : \A i \in DOMAIN Chunk[c].atoms :
      LET a == Chunk[c].atoms[i]
          of == {n \in DOMAIN given.alternate : a.weak /\ a.size = 0 /\ a.name \in ToSet(given.alternate[n])}
      IN \A n \in of : OfName(n).at = image.rva[a.id]

(* The loader joins this image with others in both directions: it fills    *)
(* every import slot with what it is for, at once or at the first call,    *)
(* and finds every export.                                                 *)
LoaderBinds == ImportsBound /\ ExportsFound
=============================================================================
