------------------------------ MODULE MCGotPlt ------------------------------
(* Every sequence of up to three references, on every target: f and g are  *)
(* defined (g in Thumb code), r is an IFUNC, c and d are shared, u is      *)
(* undefined, t is thread local.  For MIPS also: k is defined in a PIC     *)
(* file, h is hidden, l local, e exported from the executable, w and v are *)
(* weak.                                                                   *)
EXTENDS GotPlt

TheKinds == [f |-> "defined", g |-> "defined", r |-> "resolver", c |-> "code", d |-> "data",
             u |-> "undefined", t |-> "defined", k |-> "defined", h |-> "hidden", l |-> "local",
             e |-> "exported", w |-> "weak", v |-> "weak"]
TheThumb == {"g"}
ThePic == {"k"}
TheOrder == <<"e", "f", "k", "h", "l", "t", "w", "u", "v", "d", "c">>

R(kind, sym, thumb) == [kind |-> kind, sym |-> sym, thumb |-> thumb]
Refs(kinds, syms) == {R(k, x, FALSE) : k \in kinds, x \in syms}

RefsOf(arch, dynamic) ==
    LET syms == {"f", "r", "u"} \cup IF dynamic THEN {"c"} ELSE {}
    IN  CASE arch = "or1k" -> Refs({"INSN_REL_26", "PLT26", "GOT16"}, syms)
          [] arch = "x86_64" -> Refs({"PC32", "PLT32", "GOTPCREL"}, syms) \cup
                                Refs({"GOTTPOFF", "TLSGD"}, {"t"})
          [] arch = "aarch64" -> Refs({"CALL26", "ABS64", "ADR_GOT_PAGE"}, syms)
ArmRefs ==
    {R(k, x, FALSE) : k \in {"CALL", "JUMP24"}, x \in {"f", "g", "r"}} \cup
    {R(k, x, TRUE) : k \in {"THM_CALL", "THM_JUMP24"}, x \in {"f", "g", "r"}} \cup
    Refs({"GOT_BREL"}, {"f", "r", "u"}) \cup {R("TLS_IE32", "t", FALSE)}

UpTo3(S) == UNION {[1..n -> S] : n \in 1..3}
Links(arch, dynamic, refs) ==
    {[arch |-> arch, dynamic |-> dynamic, refs |-> q] : q \in UpTo3(refs)}

(* What the assert of createIFUNCGOTEntry forbids.                         *)
GotBeforeCall(l) ==
    \E j, k \in DOMAIN l.refs :
      /\ j < k /\ l.refs[j].kind = "GOT_BREL" /\ l.refs[j].sym = "r"
      /\ l.refs[k].kind # "GOT_BREL" /\ l.refs[k].sym = "r"
      /\ \A i \in 1..(j - 1) : ~(l.refs[i].kind # "GOT_BREL" /\ l.refs[i].sym = "r")

Arm == Links("arm", FALSE, ArmRefs)
Others ==
    UNION {Links(arch, dynamic, RefsOf(arch, dynamic)) :
             arch \in {"or1k", "x86_64", "aarch64"}, dynamic \in BOOLEAN} \cup
    Links("x86_64", TRUE, Refs({"PC32", "GOTPCREL"}, {"d"}) \cup Refs({"PLT32"}, {"c"}))

(* MIPS: code in one file, data and debug information in others; the flags *)
(* of that one file, or of three files that come in any order.             *)
M(kind, sym, addend, site, pic) ==
    [kind |-> kind, sym |-> sym, thumb |-> kind = "26_S1", addend |-> addend, site |-> site, pic |-> pic]
T(kind, sym) == M(kind, sym, 0, "text", FALSE)
InExe ==
    {T(x, "c") : x \in {"26", "26_S1", "HI16", "GOT16", "CALL16", "32"}} \cup
    {T(x, "k") : x \in {"26", "26_S1"}} \cup {T("GOT16", x) : x \in {"u", "w", "h", "d"}} \cup
    {M("32", x, 0, "data", FALSE) : x \in {"c", "d", "e"}} \cup {T("HI16", "d")} \cup
    {M("32", "c", 0, "debug", FALSE), M("32", "c", 0, "text", TRUE), T("TLS_GOTTPREL", "t")}
InLibrary ==
    {M("GOT16", "l", a, "text", TRUE) : a \in {0, 1}} \cup {M("GOT_DISP", "h", 0, "text", TRUE)} \cup
    {M("GOT16", x, 0, "text", TRUE) : x \in {"f", "u", "w", "c"}} \cup
    {M("CALL16", x, 0, "text", TRUE) : x \in {"f", "c"}} \cup
    {M("32", x, 0, "data", TRUE) : x \in {"f", "c", "h", "u"}} \cup
    {M(x, "t", 0, "text", TRUE) : x \in {"TLS_GD", "TLS_LDM", "TLS_GOTTPREL"}}

F(isa, pic, cpic, micro, nan) == [isa |-> isa, pic |-> pic, cpic |-> cpic, micro |-> micro, nan |-> nan]
Files ==
    {F("1", FALSE, FALSE, FALSE, FALSE), F("32r2", TRUE, FALSE, TRUE, FALSE),
     F("64", FALSE, TRUE, FALSE, FALSE), F("64r2", TRUE, TRUE, FALSE, FALSE),
     F("32r6", FALSE, FALSE, FALSE, FALSE), F("32r2", FALSE, FALSE, FALSE, TRUE)}
MipsLinks(dynamic, micro, refs) ==
    {[arch |-> "mips", dynamic |-> dynamic, files |-> <<F("32r2", dynamic, dynamic, micro, FALSE)>>,
      refs |-> q] : q \in UpTo3(refs)}
FlagLinks ==
    {[arch |-> "mips", dynamic |-> FALSE, files |-> q, refs |-> <<T("HI16", "c")>>] : q \in UpTo3(Files)}

(* A jump makes the regular PLT entry of c, its address is taken, and a    *)
(* microMIPS jump makes the entry that .dynsym then stands for.            *)
RegularTakenFirst(l) ==
    /\ Len(l.refs) = 3 /\ l.refs[1] = T("26", "c") /\ l.refs[3] = T("26_S1", "c")
    /\ l.refs[2].sym = "c" /\ l.refs[2].kind \in {"HI16", "32"}

Exe == {l \in MipsLinks(FALSE, TRUE, InExe) : ~RegularTakenFirst(l)} \cup
       MipsLinks(FALSE, FALSE, {r \in InExe : ~r.thumb})
MipsInputs == Exe \cup MipsLinks(TRUE, FALSE, InLibrary) \cup FlagLinks

(* Two weak symbols with global GOT entries.                               *)
WeakLinks == {l \in MipsLinks(TRUE, FALSE, {M("GOT16", x, 0, "text", TRUE) : x \in {"w", "v", "u"}}) : TRUE}
TwoAddresses == {l \in MipsLinks(FALSE, TRUE, {T("26", "c"), T("26_S1", "c"), T("HI16", "c")}) : RegularTakenFirst(l)}

TheInputs == MipsInputs \cup Others \cup {l \in Arm : ~GotBeforeCall(l)}
TheGotFirst == {l \in Arm : GotBeforeCall(l) /\ Len(l.refs) = 2}
=============================================================================
