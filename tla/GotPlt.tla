------------------------------- MODULE GotPlt -------------------------------
(***************************************************************************)
(* The relocation passes of the ELF targets that make GOT and PLT entries: *)
(* OR1KRelocationPass, X86_64RelocationPass, AArch64RelocationPass,        *)
(* ARMRelocationPass, and that of MIPS (MipsGotPlt).  A pass walks over    *)
(* the references of the merged file once, makes the entries a reference   *)
(* needs and redirects it to them, and then adds what it made to the       *)
(* file.  What a pass answers to a reference depends on the references     *)
(* before it: the maps it looks entries up in are shared between the uses  *)
(* of a symbol.                                                            *)
(*                                                                         *)
(* The atoms of a pass are numbered in the order they are made.  A target  *)
(* is <<"sym", s>> or <<"made", i>>.                                       *)
(***************************************************************************)
EXTENDS Naturals, Sequences, FiniteSets
LOCAL INSTANCE SequencesExt

CONSTANTS
    KindOf,      \* symbol -> "defined", "resolver", "code", "data" (shared), "undefined"
    Thumb,       \* the symbols that are Thumb code
    Pic, Order,  \* MIPS: the symbols of PIC files, and the order of the merged file
    Inputs       \* the links: [arch, dynamic, refs], for MIPS also the flags of the files

VARIABLES
    link,        \* the link at hand
    targets,     \* per reference: its target
    s,           \* the pass: what it made, and its maps and vectors
    next,        \* the reference that comes next; behind the last, perform ends
    asserted,    \* an assert of the pass has failed
    file         \* what the pass added to the merged file

Mips == INSTANCE MipsGotPlt

vars == <<link, targets, s, next, asserted, file>>

(* The kinds a handler is dispatched on.  The other kinds are left alone.  *)
OR1KClasses ==
    [plain |-> {"32", "16", "8", "LO_16_IN_INSN", "HI_16_IN_INSN", "INSN_REL_26", "32_PCREL",
                "16_PCREL", "8_PCREL", "GOTPC_HI16", "GOTPC_LO16", "GOTOFF_HI16", "GOTOFF_LO16"},
     got |-> {"GOT16"}, call |-> {"PLT26"}]
X86_64Classes ==
    [plain |-> {"16", "32", "32S", "64", "PC16", "PC32", "PC64"}, call |-> {"PLT32"},
     got |-> {"GOT32", "GOTPC32", "GOTPCREL", "GOTOFF64"},
     tpoff |-> {"GOTTPOFF"}, tlsgd |-> {"TLSGD"}]
AArch64Classes ==
    [plain |-> {"ABS32", "ABS16", "ABS64", "PREL16", "PREL32", "PREL64", "ADR_PREL_PG_HI21",
                "LDST8_ABS_LO12_NC", "LDST16_ABS_LO12_NC", "LDST32_ABS_LO12_NC",
                "LDST64_ABS_LO12_NC", "LDST128_ABS_LO12_NC", "ADD_ABS_LO12_NC", "CALL26",
                "JUMP26", "CONDBR19", "TLSLE_ADD_TPREL_HI12", "TLSLE_ADD_TPREL_LO12_NC"},
     got |-> {"GOTREL32", "GOTREL64", "ADR_GOT_PAGE", "LD64_GOT_LO12_NC",
              "TLSIE_ADR_GOTTPREL_PAGE21", "TLSIE_LD64_GOTTPREL_LO12_NC"}]
ARMClasses ==
    [jump |-> {"JUMP24", "THM_JUMP24"},
     branch |-> {"ABS32", "REL32", "TARGET1", "MOVW_ABS_NC", "MOVT_ABS", "THM_MOVW_ABS_NC",
                 "THM_MOVT_ABS", "THM_CALL", "CALL", "THM_JUMP11"},
     tpoff |-> {"TLS_IE32"}, got |-> {"GOT_BREL"}]
MipsClasses ==
    [jump26 |-> {"26", "26_S1"},
     address |-> {"32", "PC32", "HI16", "LO16", "GOT16", "CALL16", "GOT_DISP", "GOT_PAGE",
                  "TLS_GD", "TLS_LDM", "TLS_GOTTPREL"}]

Classes == [or1k |-> OR1KClasses, x86_64 |-> X86_64Classes, aarch64 |-> AArch64Classes,
            arm |-> ARMClasses, mips |-> MipsClasses]

(* The links the passes are for.  The kinds of their references are those  *)
(* above.  Only dynamic links have shared symbols, and ARM, whose pass is  *)
(* for static executables alone, has none; MIPS has no IFUNCs, and its     *)
(* microMIPS jumps are those whose kind says so.  The flags are such that  *)
(* mergeHeaderFlags does not reject them at once; those of the ABI O32 are *)
(* never 0, which it takes for no flags at all.                            *)
IsReference(l, r) ==
    /\ \E c \in DOMAIN Classes[l.arch] : r.kind \in Classes[l.arch][c]
    /\ r.thumb \in BOOLEAN
    /\ IF l.arch = "mips" THEN KindOf[r.sym] # "resolver" /\ r.thumb = (r.kind = "26_S1")
       ELSE KindOf[r.sym] \in {"code", "data"} => l.dynamic /\ l.arch # "arm"
ASSUME InputsAssumption ==
    \A l \in Inputs :
      /\ l.arch \in DOMAIN Classes
      /\ Len(l.refs) \in Nat /\ DOMAIN l.refs = 1..Len(l.refs)
      /\ \A k \in DOMAIN l.refs : IsReference(l, l.refs[k])
      /\ l.arch = "mips" => \A k \in DOMAIN l.files : l.files[k] \in Mips!Flags

Sym(x) == <<"sym", x>>
Made(i) == <<"made", i>>
IsMade(t) == t[1] = "made"
Arch == link.arch

Atom(role, sec, sym, refs) == [role |-> role, sec |-> sec, sym |-> sym, refs |-> refs]
To(kind, t) == [kind |-> kind, to |-> t]
With(f, x, y) == [z \in DOMAIN f \cup {x} |-> IF z = x THEN y ELSE f[z]]

Nothing ==
    [made |-> <<>>, got |-> <<>>, plt |-> <<>>, pltVeneer |-> <<>>, veneer |-> <<>>,
     object |-> <<>>, tlsgd |-> <<>>, gots |-> <<>>, plts |-> <<>>, objects |-> <<>>,
     tlsgds |-> <<>>, veneers |-> <<>>, null |-> 0, plt0 |-> 0, got0 |-> 0]

Make(p, atom) == [p EXCEPT !.made = Append(@, atom)]
Newest(p) == Len(p.made)

-----------------------------------------------------------------------------
(* Entries of the GOT.  ARM keeps one vector of map and order: the entry   *)
(* that replaces another takes its place; elsewhere both stay in _gotVector *)
PutGot(p, x, i) ==
    [p EXCEPT !.got = With(@, x, i),
              !.gots = IF Arch = "arm" /\ x \in DOMAIN p.got
                       THEN [k \in DOMAIN @ |-> IF @[k] = p.got[x] THEN i ELSE @[k]]
                       ELSE Append(@, i)]

Got(p, x, sec, kinds) ==
    LET q == Make(p, Atom("got", sec, x, {To(k, Sym(x)) : k \in kinds}))
    IN  IF x \in DOMAIN p.got THEN p ELSE PutGot(q, x, Newest(q))

GetGOT(p, x) == Got(p, x, ".got", {"address"})
GetSharedGOT(p, x) == Got(p, x, ".got", {"glob_dat"})
GetGOTTPOFF(p, x) == Got(p, x, ".got", {"tpoff"})

GetTLSGd(p, x) ==
    LET q == Make(p, Atom("tlsgd", ".got", x, {To("dtpmod", Sym(x)), To("dtpoff", Sym(x))}))
    IN  IF x \in DOMAIN p.tlsgd THEN p
        ELSE [q EXCEPT !.tlsgd = With(@, x, Newest(q)), !.tlsgds = Append(@, Newest(q))]

GetNullGOT(p) ==
    IF p.null # 0 THEN p
    ELSE [Make(p, Atom("null", ".got.plt", "", {})) EXCEPT !.null = Newest(p) + 1]

GetPLT0(p) ==
    LET q == GetNullGOT(p)
        n == Newest(q)
        header == Make(Make(q, Atom("got0", ".got.plt", "", {})), Atom("got1", ".got.plt", "", {}))
        refs == IF Arch = "or1k" THEN {} ELSE {To("address", Made(n + 1)), To("address", Made(n + 2))}
    IN  IF p.plt0 # 0 THEN p
        ELSE [Make(header, Atom("plt0", ".plt", "", refs)) EXCEPT !.plt0 = n + 3, !.got0 = n + 1]

(* A PLT atom and its slot in .got.plt, made together.                     *)
Entry(p, x, slotRefs, stubRefs) ==
    LET n == Newest(p)
        ga == Atom("got", ".got.plt", x, slotRefs)
        pa == Atom("plt", ".plt", x, {To("address", Made(n + 1))} \cup stubRefs)
        q == PutGot(Make(Make(p, ga), pa), x, n + 1)
    IN  [q EXCEPT !.plt = With(@, x, n + 2), !.plts = Append(@, n + 2)]

SlotAlreadyThere(x) ==
    IF x \in DOMAIN s.got THEN s.made[s.got[x]].refs ELSE {To("irelative", Sym(x))}

SlotOfResolver(x) ==
    CASE Arch = "or1k" -> {To("relative", Sym(x))}
      [] Arch = "arm" -> {To("address", Sym(x)), To("irelative", Sym(x))}
      [] OTHER -> {To("irelative", Sym(x))}

GetIFUNCPLTEntry(p, x) ==
    IF x \in DOMAIN p.plt THEN p ELSE Entry(p, x, SlotOfResolver(x), {})

(* What the slot of a shared symbol holds until it is bound: the address   *)
(* of its PLT atom (x86_64) or of PLT0.                                    *)
Unbound(q) ==
    IF Arch = "x86_64" THEN Made(Newest(q) + 2) ELSE Made(q.plt0)

GetPLTEntry(p, x) ==
    LET q == GetPLT0(p)
        bind == IF Arch = "or1k" THEN {} ELSE {To("jump_slot", Sym(x))}
        back == IF Arch = "or1k" THEN {} ELSE {To("address", Made(q.plt0))}
    IN  IF x \in DOMAIN p.plt THEN p
        ELSE Entry(q, x, bind \cup {To("address", Unbound(q))}, back)

GetObjectEntry(p, x) ==
    LET q == Make(p, Atom("object", ".bss", x, {To("copy", Made(Newest(p) + 1))}))
    IN  IF x \in DOMAIN p.object THEN p
        ELSE [q EXCEPT !.object = With(@, x, Newest(q)), !.objects = Append(@, Newest(q))]

(* ARM: the veneer in front of a PLT atom, and the veneer of a jump.       *)
NewVeneer(p, x) ==
    LET q == Make(p, Atom("pltveneer", ".plt", x, {To("none", Made(p.plt[x]))}))
    IN  [q EXCEPT !.pltVeneer = With(@, x, Newest(q))]

GetPLTVeneer(p, x) ==
    LET q == Make(p, Atom("pltveneer", ".plt", x, {To("none", Made(p.plt[x]))}))
    IN  IF x \in DOMAIN p.pltVeneer THEN p
        ELSE [q EXCEPT !.pltVeneer = With(@, x, Newest(q))]

GetVeneer(p, x, role) ==
    LET q == Make(p, Atom(role, ".text", x, {To("address", Sym(x))}))
    IN  IF x \in DOMAIN p.veneer THEN p
        ELSE [q EXCEPT !.veneer = With(@, x, Newest(q)), !.veneers = Append(@, Newest(q))]

-----------------------------------------------------------------------------
(* The answer to a reference: the pass, the new target, and whether an     *)
(* assert failed.                                                          *)
Answer(p, t) == [p |-> p, to |-> t, bad |-> FALSE]
Same(r) == Answer(s, Sym(r.sym))

HandleIFUNC(r) ==
    LET q == GetIFUNCPLTEntry(s, r.sym)
    IN  IF KindOf[r.sym] = "resolver" THEN Answer(q, Made(q.plt[r.sym])) ELSE Same(r)

ByGot(q, r) == Answer(q, Made(q.got[r.sym]))
IsDefined(r) == KindOf[r.sym] \in {"defined", "resolver"}
IsUndefined(r) == KindOf[r.sym] = "undefined"
ByNull(q) == Answer(q, Made(q.null))

StaticGOT(r) ==
    CASE IsUndefined(r) -> ByNull(GetNullGOT(s))
      [] IsDefined(r) -> ByGot(GetGOT(s, r.sym), r)
      [] OTHER -> Same(r)

(* OR1K looks at the target again after it has set it: the null entry is a *)
(* defined atom, and gets an entry of its own.                             *)
OR1KStaticGOT(r) ==
    LET null == GetNullGOT(s)
        q == Make(null, Atom("got", ".got", "null", {To("address", Made(null.null))}))
        again == IF "null" \in DOMAIN null.got THEN null ELSE PutGot(q, "null", Newest(q))
    IN  IF IsUndefined(r) THEN Answer(again, Made(again.got["null"])) ELSE StaticGOT(r)

DynamicGOT(r) == ByGot(IF IsDefined(r) THEN GetGOT(s, r.sym) ELSE GetSharedGOT(s, r.sym), r)
AArch64DynamicGOT(r) == IF IsUndefined(r) THEN ByNull(GetNullGOT(s)) ELSE DynamicGOT(r)

HandleGOT(r) ==
    CASE Arch = "or1k" /\ ~link.dynamic -> OR1KStaticGOT(r)
      [] Arch = "aarch64" /\ link.dynamic -> AArch64DynamicGOT(r)
      [] Arch \in {"or1k", "x86_64"} /\ link.dynamic -> DynamicGOT(r)
      [] OTHER -> StaticGOT(r)

HandlePlain(r) ==
    LET object == GetObjectEntry(s, r.sym)
        stub == GetPLTEntry(s, r.sym)
    IN  CASE link.dynamic /\ KindOf[r.sym] = "data" -> Answer(object, Made(object.object[r.sym]))
          [] link.dynamic /\ KindOf[r.sym] = "code" -> Answer(stub, Made(stub.plt[r.sym]))
          [] OTHER -> HandleIFUNC(r)

HandlePLT(r) ==
    LET q == GetPLTEntry(s, r.sym)
    IN  IF link.dynamic /\ ~IsDefined(r) THEN Answer(q, Made(q.plt[r.sym])) ELSE HandleIFUNC(r)

(* ARM: the resolver's stub for code of the caller's instruction set; then *)
(* a veneer, if the reference is a jump to the other set.                  *)
StubOfFirstCaller(q, r) ==
    IF r.thumb /\ r.sym \notin DOMAIN s.plt
    THEN LET v == GetPLTVeneer(q, r.sym) IN Answer(v, Made(v.pltVeneer[r.sym]))
    ELSE Answer(q, Made(q.plt[r.sym]))

StubForCaller(q, r) ==
    IF r.thumb THEN LET v == GetPLTVeneer(q, r.sym) IN Answer(v, Made(v.pltVeneer[r.sym]))
    ELSE Answer(q, Made(q.plt[r.sym]))

HandleBranch(r) ==
    LET known == r.sym \in DOMAIN s.plt
        stub == StubForCaller(GetIFUNCPLTEntry(s, r.sym), r)
        veneer == GetVeneer(s, r.sym, IF r.thumb THEN "thumbveneer" ELSE "armveneer")
    IN  CASE KindOf[r.sym] = "resolver" ->
               [stub EXCEPT !.bad = ~known /\ r.sym \in DOMAIN s.got]
          [] r.kind \in ARMClasses.jump /\ IsDefined(r) /\ KindOf[r.sym] # "resolver"
             /\ (r.sym \in Thumb) # r.thumb -> Answer(veneer, Made(veneer.veneer[r.sym]))
          [] OTHER -> Same(r)

(* handleReference: the class of a kind, by target.                        *)
ClassOf(arch, kind) ==
    CHOOSE c \in DOMAIN Classes[arch] : kind \in Classes[arch][c]

Handle(r) ==
    LET class == ClassOf(Arch, r.kind)
    IN  IF Arch = "mips" THEN Mips!Handle(link, s, r) ELSE
        CASE class = "got" -> HandleGOT(r)
          [] class = "tpoff" -> ByGot(GetGOTTPOFF(s, r.sym), r)
          [] class = "tlsgd" -> LET q == GetTLSGd(s, r.sym) IN Answer(q, Made(q.tlsgd[r.sym]))
          [] class \in {"branch", "jump"} -> HandleBranch(r)
          [] class = "plain" -> HandlePlain(r)
          [] class = "call" -> HandlePLT(r)

-----------------------------------------------------------------------------
Init ==
    /\ link \in Inputs
    /\ targets = [k \in DOMAIN link.refs |-> Sym(link.refs[k].sym)]
    /\ s = IF Arch = "mips" THEN Mips!Nothing ELSE Nothing
    /\ next = IF Arch = "mips" THEN 0 ELSE 1
    /\ asserted = FALSE /\ file = <<>>

(* MIPS: each worker that has read a file merges its flags, whichever is   *)
(* first; flags that cannot be merged end the link.                        *)
MergeHeaderFlags ==
    /\ Arch = "mips" /\ next = 0 /\ ~s.refused
    /\ \E k \in DOMAIN link.files \ s.merged :
         IF Mips!Mergeable(s.flags, link.files[k])
         THEN s' = [s EXCEPT !.flags = Mips!MergeFlags(@, link.files[k]), !.merged = @ \cup {k}]
         ELSE s' = [s EXCEPT !.refused = TRUE]
    /\ UNCHANGED <<link, targets, next, asserted, file>>

CollectReferenceInfo ==
    /\ Arch = "mips" /\ next = 0 /\ ~s.refused /\ s.merged = DOMAIN link.files
    /\ s' = Mips!Collect(link, s) /\ next' = 1
    /\ UNCHANGED <<link, targets, asserted, file>>

HandleReference ==
    /\ next >= 1 /\ next <= Len(link.refs) /\ ~asserted
    /\ LET answer == Handle(link.refs[next])
       IN  /\ s' = answer.p
           /\ targets' = [targets EXCEPT ![next] = answer.to]
           /\ asserted' = answer.bad
    /\ next' = next + 1
    /\ UNCHANGED <<link, file>>

One(i) == IF i = 0 THEN <<>> ELSE <<i>>
HeaderAtoms == IF s.plt0 = 0 THEN <<>> ELSE <<s.got0, s.got0 + 1>>
ReservedSlots == IF Arch = "mips" THEN <<s.got0, s.got0 - 1>> ELSE <<s.null, s.got0, s.got0 + 1>>

(* ARM adds the veneer of a PLT atom in front of it.                       *)
WithVeneer(i) ==
    LET x == s.made[i].sym
    IN  IF x \in DOMAIN s.pltVeneer THEN <<s.pltVeneer[x], i>> ELSE <<i>>
Stubs == FlattenSeq([k \in DOMAIN s.plts |-> WithVeneer(s.plts[k])])

HeaderLast ==
    One(s.plt0) \o Stubs \o One(s.null) \o s.gots \o HeaderAtoms \o s.tlsgds \o
    s.objects \o s.veneers

NullWithHeader ==
    One(s.plt0) \o Stubs \o (IF s.plt0 = 0 THEN <<>> ELSE One(s.null)) \o HeaderAtoms \o
    s.gots \o s.tlsgds \o s.objects \o s.veneers

(* The order in which perform adds the atoms, and numbers them.            *)
Added ==
    One(s.plt0) \o Stubs \o One(s.null) \o HeaderAtoms \o s.gots \o s.tlsgds \o
    s.objects \o s.veneers

Finish ==
    /\ next = Len(link.refs) + 1 /\ ~asserted
    /\ s' = IF Arch = "mips" THEN Mips!Perform(link, targets, s) ELSE s
    /\ file' = IF Arch = "mips" THEN Mips!Added(s') ELSE Added
    /\ next' = next + 1
    /\ UNCHANGED <<link, targets, asserted>>

Next == MergeHeaderFlags \/ CollectReferenceInfo \/ HandleReference \/ Finish

Spec == Init /\ [][Next]_vars

-----------------------------------------------------------------------------
Finished == next > Len(link.refs) + 1
Used == {t[2] : t \in {targets[k] : k \in {j \in DOMAIN targets : IsMade(targets[j])}}} \cup
        {r.to[2] : r \in {x \in UNION {s.made[i].refs : i \in DOMAIN s.made} : IsMade(x.to)}}

(* The finished file holds every atom the pass made exactly once, so no    *)
(* reference leads to an atom that is laid out nowhere or twice, in        *)
(* whatever order the uses of the symbols came.  (perform)                 *)
Closed ==
    Finished =>
      /\ Len(file) = Cardinality({file[k] : k \in DOMAIN file})
      /\ {file[k] : k \in DOMAIN file} = DOMAIN s.made
      /\ Used \subseteq {file[k] : k \in DOMAIN file}

(* The GOT slots a stub jumps through.                                     *)
StubOf(i) ==
    IF s.made[i].role = "pltveneer"
    THEN {r.to[2] : r \in s.made[i].refs} ELSE {i}
SlotsOf(i) == {r.to[2] : r \in {x \in s.made[i].refs : IsMade(x.to) /\ s.made[x.to[2]].role = "got"}}

IsCode(r) == ClassOf(Arch, r.kind) \in {"plain", "call", "branch", "jump", "jump26"}

(* Whatever was asked of the symbol before - a GOT entry, another call - a *)
(* call that the linker cannot bind ends in a stub whose slot the loader   *)
(* binds to that symbol.  (getPLTEntry, getIFUNCPLTEntry; OR1K gives its   *)
(* slots no symbol, and AArch64 makes no stub for what is undefined)       *)
CallsAreBound ==
    Finished /\ Arch # "or1k" =>
      \A k \in DOMAIN targets :
        LET r == link.refs[k] IN
        IsCode(r) /\ KindOf[r.sym] \in {"resolver", "code"} =>
          /\ IsMade(targets[k])
          /\ \A i \in StubOf(targets[k][2]) :
               /\ SlotsOf(i) # {}
               /\ \A g \in SlotsOf(i) :
                    \E x \in s.made[g].refs : x.kind \in {"jump_slot", "irelative"} /\ x.to = Sym(r.sym)

(* Until the loader binds a slot, a call through it enters PLT0, whatever   *)
(* was made before PLT0 was.  (getPLT0, createPLTHeader, perform)          *)
UnboundEntersPLT0 ==
    Finished /\ s.plt0 # 0 =>
      \A g \in DOMAIN s.made :
        s.made[g].role = "got" /\ (\E x \in s.made[g].refs : x.kind = "jump_slot") =>
          \E x \in s.made[g].refs :
            /\ x.kind = "address" /\ IsMade(x.to)
            /\ \/ x.to[2] = s.plt0
               \/ \E y \in s.made[x.to[2]].refs : y.to = Made(s.plt0)

(* The entries PLT0 works with are the first of .got.plt, before any slot, *)
(* where the loader fills them in.  (perform)                              *)
ReservedSlotsAreFirst ==
    Finished /\ s.plt0 # 0 =>
      LET isGotPlt(i) == s.made[i].sec = ".got.plt"
      IN  SubSeq(SelectSeq(file, isGotPlt), 1, Len(ReservedSlots)) = ReservedSlots

(* A symbol has one stub: two branches of code of one instruction set to   *)
(* one symbol go to one place, however the uses in between differ.         *)
OneStub ==
    Finished =>
      \A j, k \in DOMAIN targets :
        LET a == link.refs[j] b == link.refs[k] IN
        a.sym = b.sym /\ a.thumb = b.thumb /\ KindOf[a.sym] \in {"resolver", "code"}
        /\ IsCode(a) /\ IsCode(b) => targets[j] = targets[k]

(* A branch of ARM or Thumb code that cannot switch never lands on code of *)
(* the other set: not on the function, nor on the stub of a resolver that  *)
(* code of the other set asked for first; nor does microMIPS code land on  *)
(* a stub in the regular encoding.  (handleVeneer, getPLTEntry, handle26)  *)
CompressedRoles == {"pltveneer", "thumbveneer", "pltmicro", "la25micro"}
StartsInThumb(t) == IF IsMade(t) THEN s.made[t[2]].role \in CompressedRoles ELSE t[2] \in Thumb
CannotSwitch(r, t) ==
    CASE Arch = "arm" -> r.kind \in ARMClasses.jump /\ IsDefined(r)
      [] Arch = "mips" -> r.kind \in MipsClasses.jump26 /\ IsMade(t)
      [] OTHER -> FALSE
IsaKept ==
    Finished =>
      \A k \in DOMAIN targets :
        LET r == link.refs[k] IN
        CannotSwitch(r, targets[k]) => StartsInThumb(targets[k]) = r.thumb

(* The loader relocates the global half of the GOT by position: the entry  *)
(* behind the local ones belongs to dynsym[DT_MIPS_GOTSYM], the next to    *)
(* the next, and so on to the last symbol.  The pass decides the order of  *)
(* the entries, some of them only after its last reference, and the writer *)
(* sorts the symbols to match.  (sortSymbols, updateDynamicTable, perform) *)
GotMatchesDynsym ==
    Finished /\ Arch = "mips" =>
      LET globals == Mips!GlobalSymbols(s, file)
          dynsym == Mips!SortSymbols(globals, Mips!DynamicSymbols(link, targets, s, file))
          dyn == Mips!UpdateDynamicTable(s, file, dynsym)
          got == Mips!Got(s, file)
      IN  /\ Head(dynsym).atom = Sym("")
          /\ \A k \in 1..(dyn.symTabNo - dyn.gotSym) :
               /\ dyn.localGotNo + k <= Len(got)
               /\ To("global_got", dynsym[dyn.gotSym + k].atom) \in s.made[got[dyn.localGotNo + k]].refs
          /\ \A k \in s.rel32 :
               \/ Mips!IsLocalCall(link, s, targets[k])
               \/ \E j \in DOMAIN dynsym : dynsym[j].atom = targets[k]

(* "Atoms require pointers equality": whether its address is put together  *)
(* by instructions, stored at link time, stored by the loader or read from *)
(* the GOT, a shared function has one address, that of the library's       *)
(* symbol or of the one PLT entry that stands for it in .dynsym.           *)
(* (getPLTEntry, STO_PLT, findPLTLayout, the REL32 candidates)             *)
PointersAgree ==
    Finished /\ Arch = "mips" =>
      \A k \in DOMAIN targets :
        LET r == link.refs[k] t == Sym(r.sym) IN
        KindOf[r.sym] = "code" /\ r.site # "debug" /\ r.kind \notin Mips!Calls =>
          \/ IsMade(targets[k]) /\ s.made[targets[k][2]].role = "global"
          \/ targets[k] = t /\ k \in s.rel32
          \/ IsMade(targets[k]) /\ targets[k] = Mips!FindPLTLayout(s, file, t)

(* In whatever order the workers come, the merged flags promise a machine  *)
(* that runs the code of every file, and no more position independence     *)
(* than every file has.  (mergeHeaderFlags; compare the MIPS manuals)      *)
Runs ==
    [isa \in Mips!Isas |->
       CASE isa = "1" -> {"1"}
         [] isa = "2" -> {"1", "2"}
         [] isa = "3" -> {"1", "2", "3"}
         [] isa = "4" -> {"1", "2", "3", "4"}
         [] isa = "5" -> {"1", "2", "3", "4", "5"}
         [] isa = "32" -> {"1", "2", "32"}
         [] isa = "32r2" -> {"1", "2", "32", "32r2"}
         [] isa = "64" -> {"1", "2", "3", "4", "5", "32", "64"}
         [] isa = "64r2" -> {"1", "2", "3", "4", "5", "32", "32r2", "64", "64r2"}
         [] isa = "32r6" -> {"32r6"}
         [] isa = "64r6" -> {"32r6", "64r6"}]
FlagsCover ==
    Arch = "mips" /\ ~s.refused =>
      \A k \in s.merged :
        LET f == link.files[k] IN
        /\ f.isa \in Runs[s.flags.isa]
        /\ s.flags.pic => f.pic
        /\ f.pic \/ f.cpic => s.flags.cpic
        /\ f.micro => s.flags.micro
        /\ f.nan = s.flags.nan

(* The assert of createIFUNCGOTEntry: "IFUNC GOT entry already exists".    *)
IfuncGotIsNew == ~asserted

(* Every stub the pass makes works: it starts in the caller's instruction  *)
(* set, and its slot is bound to the symbol, by the loader at once or      *)
(* through PLT0 at the first call.                                         *)
StubsBind == CallsAreBound /\ UnboundEntersPLT0 /\ OneStub /\ IsaKept

(* And it is laid out where the loader looks for it: once, with all it     *)
(* refers to, in the order of the reserved slots and of .dynsym.           *)
TablesAreLaidOut == Closed /\ ReservedSlotsAreFirst /\ GotMatchesDynsym
=============================================================================
