------------------------- MODULE HexagonRelocations -------------------------
(***************************************************************************)
(* The relocation handler of Hexagon (see OR1KRelocations for what a       *)
(* handler is given and answers).  The field of an instruction is found in *)
(* a table of encodings; r.gp is the address of the small data section.    *)
(* The functions that apply a relocation return 1 when the value is out of *)
(* range, and applyRelocation drops what they return.                      *)
(***************************************************************************)
LOCAL INSTANCE Words
LOCAL INSTANCE FiniteSets

CONSTANT Encodings       \* <<[mask, cmp, bits, duplex], ...>>, insn_encodings

(* The relocation mask of the first entry of the table the instruction     *)
(* matches.                                                                *)
Matches(e, insn) == (insn \cap {14, 15} = {}) = e.duplex /\ insn \cap e.mask = e.cmp
Findv4bitmask(insn) ==
    LET hits == {i \in DOMAIN Encodings : Matches(Encodings[i], insn)}
    IN  Encodings[CHOOSE i \in hits : \A j \in hits : i <= j].bits

(* scatterBits: bit k of the value goes to the k-th position of the mask.  *)
ScatterBits(v, mask) == {m \in mask : Cardinality({j \in mask : j < m}) \in v}

WholeWord == Low(32)
LoMask == Low(14) \cup {22, 23}           \* 0x00c03fff
ExtenderMask == Low(14) \cup Span(16, 12) \* 0x0fff3fff

(* What is computed, the right shift, the mask ({} for the one of the      *)
(* instruction) and the range check: none, |v| < 2^n or v <= 2^n.          *)
Row(form, shift, mask, check, n) ==
    [form |-> form, shift |-> shift, mask |-> mask, check |-> check, n |-> n]

Branches ==
    [B22_PCREL |-> Row("rel", 2, {}, "both", 21),
     B15_PCREL |-> Row("rel", 2, {}, "both", 14),
     B9_PCREL |-> Row("rel", 2, {}, "both", 8),
     LO16 |-> Row("abs", 0, LoMask, "none", 0),
     HI16 |-> Row("abs", 16, LoMask, "none", 0),
     W32 |-> Row("abs", 0, WholeWord, "none", 0),
     W32_6_X |-> Row("abs", 6, ExtenderMask, "upper", 32),
     B32_PCREL_X |-> Row("rel", 6, ExtenderMask, "none", 0)]

Extended ==
    [k \in {"B22_PCREL_X", "B15_PCREL_X", "B13_PCREL_X", "B9_PCREL_X", "B7_PCREL_X"} |->
        Row("rel6", 0, {}, "none", 0)]

Absolute ==
    [k \in {"X6_PCREL", "X16", "X12", "X11", "X10", "X9", "X8", "X7", "X6"} |->
        Row(IF k = "X6_PCREL" THEN "rel" ELSE "abs", 0, {}, "none", 0)]

GpRelative ==
    [GPREL16_0 |-> Row("gp", 0, {}, "upper", 16),
     GPREL16_1 |-> Row("gp", 1, {}, "upper", 16),
     GPREL16_2 |-> Row("gp", 2, {}, "upper", 16),
     GPREL16_3 |-> Row("gp", 3, {}, "upper", 16)]

Got ==
    [GOT_LO16 |-> Row("slot", 0, LoMask, "none", 0),
     GOT_HI16 |-> Row("slot", 16, LoMask, "none", 0),
     GOT_32 |-> Row("-slot", 0, WholeWord, "none", 0),
     GOT_16 |-> Row("-slot", 0, {}, "upper", 16),
     GOT_32_6_X |-> Row("slot", 6, {}, "none", 0),
     GOT_16_X |-> Row("slot", 0, {}, "upper", 6),
     GOT_11_X |-> Row("slot", 0, {}, "none", 0)]

GotRelative ==
    [GOTREL_32 |-> Row("got", 0, WholeWord, "none", 0),
     GOTREL_LO16 |-> Row("got", 0, LoMask, "none", 0),
     GOTREL_HI16 |-> Row("got", 16, LoMask, "none", 0),
     GOTREL_32_6_X |-> Row("got", 6, {}, "none", 0),
     GOTREL_16_X |-> Row("got", 0, {}, "none", 0),
     GOTREL_11_X |-> Row("got", 0, {}, "none", 0)]

Table(kind) ==
    {t[kind] : t \in {x \in {Branches, Extended, Absolute, GpRelative, Got, GotRelative} :
                        kind \in DOMAIN x}}

Value(form, r) ==
    LET sum == Plus[r.S, r.A]
    IN  CASE form = "abs" -> sum
          [] form = "rel" -> Minus(sum, r.P)
          [] form = "rel6" -> Minus(sum, r.P) \cap Low(6)
          [] form = "gp" -> Minus(sum, r.gp)
          [] form = "got" -> Minus(sum, r.got)
          [] form = "slot" -> Minus(r.S, r.got)
          [] form = "-slot" -> Minus(r.got, r.S)

(* The checks are made on the int32_t result, except the 64-bit one.       *)
InRange(row, v) ==
    LET x == IF row.n = 32 THEN v ELSE SignExtend(v, 32)
    IN  CASE row.check = "none" -> TRUE
          [] row.check = "both" -> IsInt(row.n + 1, x) /\ x # Bits \ Low(row.n)
          [] row.check = "upper" -> Negative(x) \/ IsUInt(row.n, x) \/ x = {row.n}

Apply(r, rd) ==
    [ok |-> Table(r.kind) # {} \/ r.kind \in {"JMP_SLOT", "GLOB_DAT"},
     stores |->
        {[at |-> 0, n |-> 4,
          word |-> rd[4] \cup ScatterBits(Shr(Value(row.form, r), row.shift),
                                          IF row.mask = {} THEN Findv4bitmask(rd[4])
                                          ELSE row.mask)] :
           row \in {x \in Table(r.kind) : InRange(x, Shr(Value(x.form, r), x.shift))}}]
=============================================================================
