-------------------------- MODULE MipsRelocations --------------------------
(***************************************************************************)
(* The relocation handler of MIPS (see OR1KRelocations for what a handler  *)
(* is given and answers).  A reference also carries r.gp, whether its      *)
(* target is _gp_disp (r.gpDisp), a defined atom (r.defined) and microMIPS *)
(* code (r.micro), the relocations composed with it (r.tag, a sequence of  *)
(* at most two kinds), and whether the output has RELA sections (r.rela).  *)
(* Kinds of the microMIPS ISA start with "U", those lld adds with "L".     *)
(***************************************************************************)
LOCAL INSTANCE Words
LOCAL INSTANCE SequencesExt
LOCAL INSTANCE Sequences

U32(x) == x \cap Low(32)
AShr32(x, n) == U32(Shr(SignExtend(x, 32), n))

Runtime32 == {"JUMP_SLOT", "COPY", "TLS_DTPMOD32", "TLS_DTPREL32", "TLS_TPREL32"}
Runtime64 == {"TLS_DTPMOD64", "TLS_DTPREL64", "TLS_TPREL64"}
GotSlots == {"GOT16", "CALL16", "GOT_DISP", "GOT_PAGE", "TLS_GD", "TLS_LDM", "TLS_GOTTPREL"}
UGotSlots == {"UGOT16", "UCALL16", "UTLS_GD", "UTLS_LDM", "UTLS_GOTTPREL"}
Hi16 == {"HI16", "TLS_DTPREL_HI16", "TLS_TPREL_HI16", "LHI16"}
UHi16 == {"UHI16", "UTLS_DTPREL_HI16", "UTLS_TPREL_HI16"}
Lo16 == {"LO16", "TLS_DTPREL_LO16", "TLS_TPREL_LO16", "LLO16"}
ULo16 == {"ULO16", "UTLS_DTPREL_LO16", "UTLS_TPREL_LO16"}
Jumps == {"J26", "LGLOBAL_26"}
UJumps == {"U26_S1", "LUGLOBAL_26_S1"}

(* getRelocationParams: the size of the place in bytes, and what of it is  *)
(* written: the mask, the shift of the addend, shuffled or not.            *)
Wide == {"W64", "SUB", "L64_HI16"} \cup Runtime64
Size(kind) == IF kind \in Wide THEN 8 ELSE 4

Params(kind) ==
    LET P(mask, shift, shuffle) == [mask |-> mask, shift |-> shift, shuffle |-> shuffle]
    IN  CASE kind \in {"W64", "SUB"} -> P(Bits, 0, FALSE)
          [] kind \in {"W32", "GPREL32", "PC32", "REL32"} -> P(Low(32), 0, FALSE)
          [] kind = "L32_HI16" -> P(Span(16, 16), 0, FALSE)
          [] kind = "L64_HI16" -> P(Span(16, 48), 0, FALSE)
          [] kind \in Jumps -> P(Low(26), 2, FALSE)
          [] kind = "PC18_S3" -> P(Low(18), 3, FALSE)
          [] kind = "PC19_S2" -> P(Low(19), 2, FALSE)
          [] kind = "PC21_S2" -> P(Low(21), 2, FALSE)
          [] kind = "PC26_S2" -> P(Low(26), 2, FALSE)
          [] kind \in Hi16 \cup Lo16 \cup GotSlots \cup
                      {"PCHI16", "PCLO16", "GPREL16", "GOT_OFST"} -> P(Low(16), 0, FALSE)
          [] kind \in UHi16 \cup ULo16 \cup UGotSlots -> P(Low(16), 0, TRUE)
          [] kind \in UJumps -> P(Low(26), 1, TRUE)
          [] kind = "UPC16_S1" -> P(Low(16), 1, TRUE)
          [] kind = "UPC7_S1" -> P(Low(7), 1, FALSE)
          [] kind = "UPC10_S1" -> P(Low(10), 1, FALSE)
          [] kind = "UPC23_S2" -> P(Low(23), 2, TRUE)
          [] kind = "UJALR" -> P({}, 0, TRUE)
          [] kind \in Runtime32 \cup Runtime64 \cup
                      {"NONE", "JALR", "LGLOBAL_GOT", "LSTO_PLT"} -> P({}, 0, FALSE)

(* The branches relative to the place: width of the addend, right shift.   *)
PcBranches ==
    [PC19_S2 |-> <<21, 2>>, PC21_S2 |-> <<23, 2>>, PC26_S2 |-> <<28, 2>>,
     UPC7_S1 |-> <<8, 1>>, UPC10_S1 |-> <<11, 1>>, UPC16_S1 |-> <<17, 1>>,
     UPC23_S2 |-> <<25, 2>>]

(* reloc26loc keeps the region of the jump; reloc26ext extends the addend. *)
Reloc26loc(P, S, A, shift) ==
    LET region == Plus[P, {2}] \cap Span(26 + shift, 6 - shift)
    IN  Shr(U32(Plus[SignExtend(A, 32) \cup region, S]), shift)
Reloc26ext(S, A, shift) ==
    U32(Shr(Plus[SignExtend(A, IF shift = 1 THEN 27 ELSE 28), S], shift))

Truncated(P, S, A) == AShr32(Minus(Plus[A, S], P), 16)

(* relocHi16 and relocPcHi16: rounded, as the low half is signed.          *)
RelocHi16(P, S, A) == AShr32(Plus[Minus(Plus[A, S], P), {15}], 16)

RelocPc(P, S, A, shift) == AShr32(Minus(Plus[S, A], P), shift)

RelocGOTOfst(S, A) ==
    LET sum == Plus[S, A] IN U32(Minus(sum, Plus[sum, {15}] \ Low(16)))

(* getCrossJumpMode and adjustJumpOpCode.                                  *)
CrossJumpMode(r) ==
    IF ~r.defined THEN "None"
    ELSE IF r.kind \in Jumps /\ r.micro THEN "ToMicro"
    ELSE IF r.kind \in UJumps /\ ~r.micro THEN "ToRegular" ELSE "None"

AdjustJumpOpCode(ins, tgt, mode) ==
    LET toMicro == mode = "ToMicro"
        opNative == IF toMicro THEN {0, 1} ELSE {0, 2, 3, 4, 5}
        opCross == IF toMicro THEN {0, 2, 3, 4} ELSE {2, 3, 4, 5}
    IN  IF mode = "None" THEN [ok |-> TRUE, ins |-> ins]
        ELSE [ok |-> /\ (0 \in tgt) = toMicro
                     /\ 1 \notin tgt
                     /\ Field(ins, 26, 6) \in {opNative, opCross},
              ins |-> (ins \ Span(26, 6)) \cup Shl(opCross, 26)]

MicroShuffle(ins) == Scatter(ins, {<<0, 16, 16>>, <<16, 0, 16>>})

(* calculateRelocation: the set of the value, empty for an unknown kind.   *)
Calculate(kind, A, S, r, mode) ==
    LET jump == IF mode = "None" THEN 1 ELSE 2
        disp(extra) == IF r.gpDisp THEN Minus(extra, r.P) ELSE {}
        lo(extra) == U32(Plus[Plus[A, S], disp(extra)])
        P == IF kind \in {"HI16", "UHI16"} /\ r.gpDisp THEN r.P ELSE {}
    IN  CASE kind = "W32" -> {U32(Plus[S, A])}
          [] kind = "W64" -> {Plus[S, A]}
          [] kind = "SUB" -> {Minus(S, A)}
          [] kind = "J26" -> {Reloc26loc(r.P, S, A, 2)}
          [] kind = "U26_S1" -> {Reloc26loc(r.P, S, A, jump)}
          [] kind = "LGLOBAL_26" -> {Reloc26ext(S, A, 2)}
          [] kind = "LUGLOBAL_26_S1" -> {Reloc26ext(S, A, jump)}
          [] kind \in (Hi16 \ {"LHI16"}) \cup UHi16 -> {RelocHi16(P, S, A)}
          [] kind = "LHI16" -> {RelocHi16({}, S, {})}
          [] kind = "PCHI16" -> {RelocHi16(r.P, S, A)}
          [] kind = "LO16" -> {lo({2})}
          [] kind = "ULO16" -> {lo({0, 1})}
          [] kind \in (Lo16 \cup ULo16) \ {"LO16", "ULO16", "LLO16"} -> {U32(Plus[A, S])}
          [] kind = "LLO16" -> {U32(S)}
          [] kind = "PCLO16" -> {U32(Minus(Plus[S, SignExtend(A, 16)], r.P))}
          [] kind \in GotSlots \cup UGotSlots -> {Minus(S, r.gp)}
          [] kind = "GOT_OFST" -> {RelocGOTOfst(S, A)}
          [] kind = "PC18_S3" -> {RelocPc(r.P \ Low(3), S, SignExtend(A, 21), 3)}
          [] kind \in DOMAIN PcBranches ->
                {RelocPc(r.P, S, SignExtend(A, PcBranches[kind][1]), PcBranches[kind][2])}
          [] kind = "GPREL16" -> {Minus(Plus[SignExtend(A, 16), S], r.gp)}
          [] kind = "GPREL32" -> {Minus(Plus[A, S], r.gp)}
          [] kind = "PC32" -> {U32(Minus(Plus[S, A], r.P))}
          [] kind \in {"LGLOBAL_GOT", "L32_HI16", "L64_HI16"} -> {Plus[Plus[S, A], {15}]}
          [] kind \in Runtime32 \cup Runtime64 \cup
                      {"NONE", "REL32", "JALR", "UJALR", "LSTO_PLT"} -> {{}}
          [] OTHER -> {}

(* The relocations of the tag work on the value of the one before, with no *)
(* target; the last one decides how the value is written.                  *)
Composed(r, first, mode) ==
    FoldLeft(LAMBDA vs, kind : UNION {Calculate(kind, v, {}, r, mode) : v \in vs},
             first, r.tag)

Stores(n, words) == {[at |-> 0, n |-> n, word |-> w] : w \in words}

(* The kind whose parameters say how the value is written.                 *)
Written(r) == IF r.tag = <<>> THEN r.kind ELSE Last(r.tag)

Apply(r, rd) ==
    LET tgt == r.S \cup (IF r.micro THEN {0} ELSE {})
        mode == CrossJumpMode(r)
        own == Calculate(r.kind, r.A, tgt, r, mode)
        res == Composed(r, IF r.kind = "REL32" /\ ~r.rela THEN {r.A} ELSE own, mode)
        op == Written(r)
        shuffled(w) == IF Params(op).shuffle THEN MicroShuffle(w) ELSE w
        jump == AdjustJumpOpCode(shuffled(rd[Size(op)]), tgt, mode)
    IN  IF own = {} \/ res = {} \/ ~jump.ok THEN [ok |-> FALSE, stores |-> {}]
        ELSE [ok |-> TRUE,
              stores |-> Stores(Size(op),
                                {shuffled((jump.ins \ Params(op).mask)
                                          \cup (v \cap Params(op).mask)) : v \in res})]

(* readMipsRelocAddend: the addend the reader of a REL section takes from  *)
(* the section.                                                            *)
ReadAddend(kind, rd) ==
    LET p == Params(kind)
        w == IF p.shuffle THEN MicroShuffle(rd[Size(kind)]) ELSE rd[Size(kind)]
    IN  Shl(w \cap p.mask, p.shift)
=============================================================================
