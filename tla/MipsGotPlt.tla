----------------------------- MODULE MipsGotPlt -----------------------------
(***************************************************************************)
(* The relocation pass of MIPS (MipsRelocationPass.cpp), the merging of    *)
(* the ELF flags it asks, and what the writer makes of its GOT and PLT:    *)
(* the two halves of .got that the loader reads with DT_MIPS_LOCAL_GOTNO   *)
(* and DT_MIPS_GOTSYM, and the dynamic symbol table sorted to match.       *)
(*                                                                         *)
(* A MIPS link has the fields files, dynamic (ET_DYN) and refs; a          *)
(* reference has kind, sym, thumb (microMIPS), addend, site (the section   *)
(* it is in: "text", "data" or "debug") and pic (of its file).  Targets    *)
(* are those of GotPlt.  The kind a jump gets (LLD_R_MIPS_GLOBAL_26) and   *)
(* the gp and TLS offsets added to addends are left out.                   *)
(***************************************************************************)
EXTENDS Naturals, Sequences, FiniteSets
LOCAL INSTANCE SequencesExt

CONSTANTS
    KindOf,      \* symbol -> "defined", "hidden", "local", "exported", "code", "data",
                 \* "undefined", "weak" (undefined, may be null)
    Pic,         \* the symbols defined in PIC files
    Order        \* the symbols in the order of the merged file

Sym(x) == <<"sym", x>>
Made(i) == <<"made", i>>
IsMade(t) == t[1] = "made"
To(kind, t) == [kind |-> kind, to |-> t]
Atom(role, sec, sym, refs) == [role |-> role, sec |-> sec, sym |-> sym, refs |-> refs]
With(f, x, y) == [z \in DOMAIN f \cup {x} |-> IF z = x THEN y ELSE f[z]]

-----------------------------------------------------------------------------
(* MipsELFFlagsMerger.  Flags are [isa, pic, cpic, micro, nan].            *)
IsaTree == <<<<"64r2", "64">>, <<"64", "5">>, <<"5", "4">>, <<"4", "3">>, <<"32r2", "32">>,
             <<"3", "2">>, <<"32", "2">>, <<"2", "1">>>>

Isas == {"1", "2", "3", "4", "5", "32", "64", "32r2", "64r2", "32r6", "64r6"}
Flags == [isa : Isas, pic : BOOLEAN, cpic : BOOLEAN, micro : BOOLEAN, nan : BOOLEAN]

Up(b, edge) == IF b.at = edge[1] THEN [at |-> edge[2], all |-> b.all \cup {edge[2]}] ELSE b
Bases(ext) ==
    LET climbed[i \in 0..Len(IsaTree)] ==
          IF i = 0 THEN [at |-> ext, all |-> {ext}] ELSE Up(climbed[i - 1], IsaTree[i])
    IN  climbed[Len(IsaTree)].all

MatchMipsISA(base, ext) ==
    \/ base \in Bases(ext)
    \/ base = "32" /\ "64" \in Bases(ext)
    \/ base = "32r2" /\ "64r2" \in Bases(ext)

NoFlags == [isa |-> "none", pic |-> FALSE, cpic |-> FALSE, micro |-> FALSE, nan |-> FALSE]

Mergeable(flags, new) ==
    \/ flags = NoFlags
    \/ /\ new.nan = flags.nan
       /\ MatchMipsISA(new.isa, flags.isa) \/ MatchMipsISA(flags.isa, new.isa)

MergedISALastWins(flags, new) == new.isa

MergedISA(flags, new) == IF MatchMipsISA(new.isa, flags.isa) THEN flags.isa ELSE new.isa

(* PIC code is CPIC without saying so.                                     *)
MergeFlags(flags, file) ==
    LET new == [file EXCEPT !.cpic = @ \/ file.pic]
    IN  IF flags = NoFlags THEN new
        ELSE [isa |-> MergedISA(flags, new), pic |-> flags.pic /\ new.pic,
              cpic |-> flags.cpic \/ new.cpic, micro |-> flags.micro \/ new.micro, nan |-> flags.nan]

-----------------------------------------------------------------------------
(* What the pass asks of a target.  Atoms the pass makes are local, but    *)
(* for the copy of an object, which is global and exported.                *)
IsObject(p, t) == IsMade(t) /\ p.made[t[2]].role = "object"
KindIn(t, kinds) == ~IsMade(t) /\ KindOf[t[2]] \in kinds

IsLocal(p, t) == KindIn(t, {"local"}) \/ (IsMade(t) /\ ~IsObject(p, t))

IsLocalCall(link, p, t) ==
    \/ IsLocal(p, t) \/ KindIn(t, {"hidden"})
    \/ ~link.dynamic /\ (KindIn(t, {"defined", "exported"}) \/ IsObject(p, t))

IsDynamic(link, p, t) ==
    \/ KindIn(t, {"exported", "code", "data"}) \/ IsObject(p, t)
    \/ link.dynamic /\ KindIn(t, {"defined", "hidden", "undefined", "weak"})

RequirePLTEntry(link, p, t) == t \in p.static /\ ~KindIn(t, {"data"}) /\ ~IsLocalCall(link, p, t)
RequireCopy(p, t) == t \in p.static /\ KindIn(t, {"data"})
RequireLA25Stub(p, t) ==
    ~IsLocal(p, t) /\ KindIn(t, {"defined", "hidden", "exported"}) /\ t[2] \in Pic
HasPLTEntry(p, t) == t \in DOMAIN p.pltReg \cup DOMAIN p.pltMicro

-----------------------------------------------------------------------------
(* The pass starts with the two headers of the GOT.                        *)
Nothing ==
    [made |-> <<Atom("header", ".got", "", {}), Atom("header", ".got", "", {})>>,
     flags |-> NoFlags, merged |-> {}, refused |-> FALSE,
     static |-> {}, equal |-> {}, candidates |-> {}, rel32 |-> {},
     local |-> <<>>, page |-> <<>>, global |-> <<>>, tls |-> <<>>, gd |-> <<>>, ldm |-> 0,
     gotplt |-> <<>>, pltReg |-> <<>>, pltMicro |-> <<>>, object |-> <<>>,
     la25Reg |-> <<>>, la25Micro |-> <<>>,
     locals |-> <<1, 2>>, globals |-> <<>>, tlss |-> <<>>, gotplts |-> <<>>,
     regs |-> <<>>, micros |-> <<>>, objects |-> <<>>, la25s |-> <<>>, plt0 |-> 0, got0 |-> 0]

(* collectReferenceInfo: before any reference is handled.                  *)
Calls == {"CALL16", "26", "26_S1"}
MightBeDynamic(link, r) ==
    \/ r.kind \in {"CALL16", "GOT16"}
    \/ r.kind = "32" /\ (link.dynamic \/ r.site = "data" \/ r.pic)

Collect(link, p) ==
    LET constrains(k) == link.refs[k].site # "debug" /\ link.refs[k].kind # "GPREL16"
        seen == {k \in DOMAIN link.refs : constrains(k)}
        dynamic == {k \in seen : MightBeDynamic(link, link.refs[k])}
    IN  [p EXCEPT !.static = {Sym(link.refs[k].sym) : k \in seen \ dynamic},
                  !.equal = {Sym(link.refs[k].sym) : k \in {j \in seen : link.refs[j].kind \notin Calls}},
                  !.candidates = dynamic]

(* A new atom in one of the maps (field) under a key, and in one of the    *)
(* vectors; what is in the map already is not made again.                  *)
Entry(p, field, key, vector, atom) ==
    IF key \in DOMAIN p[field] THEN p
    ELSE LET n == Len(p.made) + 1
         IN  [p EXCEPT !.made = Append(@, atom), ![field] = With(@, key, n), ![vector] = Append(@, n)]

GetLocalGOTEntry(p, t, addend) ==
    Entry(p, "local", <<t, addend>>, "locals", Atom("local", ".got", t[2], {To("address", t)}))
GetLocalGOTPageEntry(p, t, addend) ==
    Entry(p, "page", <<t, addend>>, "locals", Atom("page", ".got", t[2], {To("page", t)}))
GetGlobalGOTEntry(p, t) ==
    Entry(p, "global", t, "globals",
          Atom("global", ".got", t,
               {To("global_got", t)} \cup
               (IF KindIn(t, {"defined", "hidden", "exported"}) \/ IsMade(t) THEN {To("address", t)} ELSE {})))
GetTLSGOTEntry(p, t) ==
    Entry(p, "tls", t, "tlss", Atom("tls", ".got", t[2], {To("tpoff", t)}))
GetTLSGdGOTEntry(p, t) ==
    Entry(p, "gd", t, "tlss", Atom("tlsgd", ".got", t[2], {To("dtpmod", t), To("dtpoff", t)}))
GetTLSLdmGOTEntry(p) ==
    LET n == Len(p.made) + 1
    IN  IF p.ldm # 0 THEN p
        ELSE [p EXCEPT !.made = Append(@, Atom("ldm", ".got", "", {To("dtpmod", Made(n))})),
                       !.tlss = Append(@, n), !.ldm = n]
GetGOTPLTEntry(p, t) ==
    Entry(p, "gotplt", t, "gotplts", Atom("got", ".got.plt", t[2], {To("jump_slot", t)}))

(* The PLT entry stands for the symbol in .dynsym if its address is taken  *)
(* and cannot be left to the loader.                                       *)
StoPlt(p, t) == IF t \in p.static \cap p.equal THEN {To("sto_plt", t)} ELSE {}
PLTEntry(p, t, field, vector, role) ==
    LET q == GetGOTPLTEntry(p, t)
    IN  IF t \in DOMAIN p[field] THEN p
        ELSE Entry(q, field, t, vector,
                   Atom(role, ".plt", t[2], {To("address", Made(q.gotplt[t]))} \cup StoPlt(p, t)))
GetPLTRegEntry(p, t) == PLTEntry(p, t, "pltReg", "regs", "plt")
GetPLTMicroEntry(p, t) == PLTEntry(p, t, "pltMicro", "micros", "pltmicro")

GetLA25RegEntry(p, t) ==
    Entry(p, "la25Reg", t, "la25s", Atom("la25", ".text", t[2], {To("address", t)}))
GetLA25MicroEntry(p, t) ==
    Entry(p, "la25Micro", t, "la25s", Atom("la25micro", ".text", t[2], {To("address", t)}))
GetObjectEntry(p, t) ==
    Entry(p, "object", t, "objects", Atom("object", ".bss", t[2], {To("copy", Made(Len(p.made) + 1))}))

-----------------------------------------------------------------------------
(* handleReference.                                                        *)
Answer(p, t) == [p |-> p, to |-> t, bad |-> FALSE]

PLTForRegularFirst(p, t) ==
    LET micro == p.flags.micro
        new == IF micro THEN GetPLTMicroEntry(p, t) ELSE GetPLTRegEntry(p, t)
    IN  CASE t \in DOMAIN p.pltReg -> Answer(p, Made(p.pltReg[t]))
          [] OTHER -> Answer(new, Made(IF micro THEN new.pltMicro[t] ELSE new.pltReg[t]))

(* getPLTEntry: one that is there, compressed before regular; else new.    *)
PLTFor(p, t) ==
    LET micro == p.flags.micro
        new == IF micro THEN GetPLTMicroEntry(p, t) ELSE GetPLTRegEntry(p, t)
    IN  CASE micro /\ t \in DOMAIN p.pltMicro -> Answer(p, Made(p.pltMicro[t]))
          [] ~(micro /\ t \in DOMAIN p.pltMicro) /\ t \in DOMAIN p.pltReg -> Answer(p, Made(p.pltReg[t]))
          [] OTHER -> Answer(new, Made(IF micro THEN new.pltMicro[t] ELSE new.pltReg[t]))

HandlePlain(link, p, t) ==
    LET object == GetObjectEntry(p, t)
    IN  CASE ~IsDynamic(link, p, t) -> Answer(p, t)
          [] IsDynamic(link, p, t) /\ RequirePLTEntry(link, p, t) -> PLTFor(p, t)
          [] IsDynamic(link, p, t) /\ RequireCopy(p, t) -> Answer(object, Made(object.object[t]))
          [] OTHER -> Answer(p, t)

(* A PLT entry of the caller's instruction set for shared code; a stub     *)
(* that sets $25 for PIC code, of the caller's set too.                    *)
Handle26(p, t, isMicro) ==
    LET reg == GetPLTRegEntry(p, t)
        micro == GetPLTMicroEntry(p, t)
        la25 == IF isMicro THEN GetLA25MicroEntry(p, t) ELSE GetLA25RegEntry(p, t)
    IN  CASE KindIn(t, {"code"}) ->
               IF isMicro THEN Answer(micro, Made(micro.pltMicro[t])) ELSE Answer(reg, Made(reg.pltReg[t]))
          [] RequireLA25Stub(p, t) ->
               Answer(la25, Made(IF isMicro THEN la25.la25Micro[t] ELSE la25.la25Reg[t]))
          [] OTHER -> Answer(p, t)

HandleGOT(link, p, t, r) ==
    LET global == GetGlobalGOTEntry(p, t)
        page == GetLocalGOTPageEntry(p, t, r.addend)
        local == GetLocalGOTEntry(p, t, r.addend)
    IN  CASE ~IsLocalCall(link, p, t) -> Answer(global, Made(global.global[t]))
          [] IsLocalCall(link, p, t) /\ (IsLocal(p, t) \/ r.kind = "GOT_PAGE") /\ r.kind # "GOT_DISP" ->
               Answer(page, Made(page.page[<<t, r.addend>>]))
          [] OTHER -> Answer(local, Made(local.local[<<t, r.addend>>]))

Handle(link, p, r) ==
    LET t == Sym(r.sym)
        tls == GetTLSGOTEntry(p, t)
        gd == GetTLSGdGOTEntry(p, t)
        ldm == GetTLSLdmGOTEntry(p)
    IN  CASE r.kind \in {"32", "PC32", "HI16", "LO16"} -> HandlePlain(link, p, t)
          [] r.kind \in {"26", "26_S1"} -> Handle26(p, t, r.kind = "26_S1")
          [] r.kind \in {"GOT16", "CALL16", "GOT_DISP", "GOT_PAGE"} -> HandleGOT(link, p, t, r)
          [] r.kind = "TLS_GD" -> Answer(gd, Made(gd.gd[t]))
          [] r.kind = "TLS_LDM" -> Answer(ldm, Made(ldm.ldm))
          [] r.kind = "TLS_GOTTPREL" -> Answer(tls, Made(tls.tls[t]))
          [] OTHER -> Answer(p, t)

-----------------------------------------------------------------------------
(* perform, behind the last reference: the candidates become R_MIPS_REL32, *)
(* PLT0 and its two GOT entries are made, and every slot enters PLT0.      *)
MakeRel32(link, targets, p, k) ==
    LET t == targets[k]
        q == [p EXCEPT !.rel32 = @ \cup {k}]
    IN  CASE ~IsDynamic(link, p, t) \/ HasPLTEntry(p, t) -> p
          [] IsDynamic(link, p, t) /\ ~HasPLTEntry(p, t) /\ IsLocalCall(link, p, t) -> q
          [] OTHER -> GetGlobalGOTEntry(q, t)

CreatePLTHeader(p) ==
    LET n == Len(p.made)
        slot == Atom("got0", ".got.plt", "", {})
        header == Atom(IF p.regs # <<>> THEN "plt0" ELSE "plt0micro", ".plt", "",
                       {To("address", Made(n + 2))})
        bound == [i \in DOMAIN p.made |->
                    IF p.made[i].role = "got" THEN [p.made[i] EXCEPT !.refs = @ \cup {To("address", Made(n + 3))}]
                    ELSE p.made[i]]
    IN  IF p.regs = <<>> /\ p.micros = <<>> THEN p
        ELSE [p EXCEPT !.made = bound \o <<slot, slot, header>>, !.plt0 = n + 3, !.got0 = n + 2,
                       !.gotplts = <<n + 2, n + 1>> \o @]

Perform(link, targets, p) ==
    LET made[k \in 0..Len(link.refs)] ==
          IF k = 0 THEN p
          ELSE IF k \in p.candidates THEN MakeRel32(link, targets, made[k - 1], k) ELSE made[k - 1]
    IN  CreatePLTHeader(made[Len(link.refs)])

AddedTlsFirst(p) ==
    p.locals \o p.tlss \o p.globals \o (IF p.plt0 = 0 THEN <<>> ELSE <<p.plt0>>) \o
    p.regs \o p.micros \o p.gotplts \o p.objects \o p.la25s

Added(p) ==
    p.locals \o p.globals \o p.tlss \o (IF p.plt0 = 0 THEN <<>> ELSE <<p.plt0>>) \o
    p.regs \o p.micros \o p.gotplts \o p.objects \o p.la25s

-----------------------------------------------------------------------------
(* The writer.  MipsGOTSection counts the local entries up to the first    *)
(* other one, and numbers the symbols of the global ones.                  *)
Got(p, file) == LET inGot(i) == p.made[i].sec = ".got" IN SelectSeq(file, inGot)
IsNonLocal(p, i) == \E x \in p.made[i].refs : x.kind \in {"global_got", "tpoff", "dtpoff", "dtpmod"}
LocalCount(p, file) ==
    LET got == Got(p, file)
        here == {k \in DOMAIN got : \A j \in 1..k : ~IsNonLocal(p, got[j])}
    IN  Cardinality(here)
GlobalSymbols(p, file) ==
    LET isGlobal(i) == p.made[i].role = "global"
        entries == SelectSeq(file, isGlobal)
    IN  [k \in DOMAIN entries |-> p.made[entries[k]].sym]

(* MipsGOTSection::compare; an atom that has no global entry is first.     *)
GotCompare(globals, a, b) ==
    LET pos(t) == {k \in DOMAIN globals : globals[k] = t}
    IN  \/ pos(a) = {} /\ pos(b) # {}
        \/ \E i \in pos(a), j \in pos(b) : i < j

(* buildDynamicSymbolTable of executables and of shared libraries: what is *)
(* defined, what some reference leaves undefined, what is shared.          *)
Entries(kinds, wanted(_), bind(_)) ==
    LET here(x) == KindOf[x] \in kinds /\ wanted(x)
        syms == SelectSeq(Order, here)
    IN  [k \in DOMAIN syms |-> [atom |-> Sym(syms[k]), bind |-> bind(syms[k])]]

Binding(x) == CASE KindOf[x] = "local" -> 0 [] KindOf[x] = "weak" -> 2 [] OTHER -> 1

DynamicSymbols(link, targets, p, file) ==
    LET globals == GlobalSymbols(p, file)
        refs == UNION {p.made[i].refs : i \in DOMAIN p.made}
        referenced == {x.to : x \in {y \in refs : y.kind # "copy"}} \cup {targets[k] : k \in DOMAIN targets}
        hasGlobalGOTEntry(x) == Sym(x) \in {globals[k] : k \in DOMAIN globals} \cup DOMAIN p.tls
        exported(x) == IF link.dynamic THEN KindOf[x] \in {"defined", "exported"}
                       ELSE hasGlobalGOTEntry(x) \/ KindOf[x] = "exported"
        named(x) == \E k \in DOMAIN link.refs : link.refs[k].sym = x
        undefined(x) == named(x) /\ (link.dynamic \/ hasGlobalGOTEntry(x))
        shared(x) == Sym(x) \in referenced
    IN  <<[atom |-> Sym(""), bind |-> 0]>>
        \o Entries({"defined", "hidden", "exported", "local"}, exported, Binding)
        \o [k \in DOMAIN p.objects |-> [atom |-> Made(p.objects[k]), bind |-> 1]]
        \o Entries({"undefined", "weak"}, undefined, Binding)
        \o Entries({"code", "data"}, shared, Binding)

(* MipsDynamicSymbolTable::sortSymbols.  A stable sort of so few entries   *)
(* inserts one after the other from behind.                                *)
SymbolBefore(globals, a, b) ==
    IF a.bind # 1 /\ b.bind # 1 THEN a.bind < b.bind ELSE GotCompare(globals, a.atom, b.atom)

Insert(globals, sorted, e) ==
    LET overtaken == {k \in DOMAIN sorted :
                        \A j \in k..Len(sorted) : SymbolBefore(globals, e, sorted[j])}
        at == IF sorted # <<>> /\ SymbolBefore(globals, e, Head(sorted)) THEN 1
              ELSE Len(sorted) + 1 - Cardinality(overtaken)
    IN  InsertAt(sorted, at, e)

SortSymbols(globals, entries) ==
    FoldLeft(LAMBDA sorted, e : Insert(globals, sorted, e), <<>>, entries)

(* The value .dynsym has for a symbol: its PLT entry, if one says so; the  *)
(* last in .plt does.                                                      *)
FindPLTLayout(p, file, t) ==
    LET says == {k \in DOMAIN file : To("sto_plt", t) \in p.made[file[k]].refs}
    IN  IF says = {} THEN t ELSE Made(file[CHOOSE k \in says : \A j \in says : j <= k])

(* MipsDynamicTable::updateDynamicTable.                                   *)
UpdateDynamicTable(p, file, dynsym) ==
    [localGotNo |-> LocalCount(p, file),
     gotSym |-> Len(dynsym) - Len(GlobalSymbols(p, file)),
     symTabNo |-> Len(dynsym)]
=============================================================================
