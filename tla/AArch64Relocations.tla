------------------------- MODULE AArch64Relocations -------------------------
(***************************************************************************)
(* The relocation handler of AArch64 (see OR1KRelocations for what a       *)
(* handler is given and answers).  Every kind but PREL32 or-s its bits into*)
(* the instruction that is there.                                          *)
(***************************************************************************)
LOCAL INSTANCE Words

(* What is computed, and the runs <<from, to, length>> of its bits that go *)
(* into the instruction.                                                   *)
Row(form, runs) == [form |-> form, runs |-> runs]

AdrRuns == {<<0, 29, 2>>, <<2, 5, 19>>}

PcRelative ==
    [ADR_PREL_PG_HI21 |-> Row("page", AdrRuns),
     ADR_PREL_LO21 |-> Row("rel", AdrRuns),
     ADD_ABS_LO12_NC |-> Row("abs", {<<0, 10, 12>>}),
     CALL26 |-> Row("rel", {<<2, 0, 26>>}),
     JUMP26 |-> Row("rel", {<<2, 0, 26>>}),
     CONDBR19 |-> Row("rel", {<<2, 5, 19>>})]

(* Offsets in loads and stores.  LDST16 drops bit 1 of the address.        *)
LoadStore ==
    [LDST8_ABS_LO12_NC |-> Row("abs", {<<0, 10, 12>>}),
     LDST16_ABS_LO12_NC |-> Row("abs", {<<2, 11, 10>>}),
     LDST32_ABS_LO12_NC |-> Row("abs", {<<2, 10, 10>>}),
     LDST64_ABS_LO12_NC |-> Row("abs", {<<3, 10, 9>>}),
     LDST128_ABS_LO12_NC |-> Row("abs", {<<3, 9, 9>>})]

GotAndTls ==
    [ADR_GOT_PAGE |-> Row("page", AdrRuns),
     LD64_GOT_LO12_NC |-> Row("abs", {<<3, 10, 9>>}),
     GOTRELINDEX |-> Row("abs", {<<0, 10, 12>>}),
     TLSIE_ADR_GOTTPREL_PAGE21 |-> Row("page", AdrRuns),
     TLSIE_LD64_GOTTPREL_LO12_NC |-> Row("abs", {<<3, 10, 9>>}),
     TLSLE_ADD_TPREL_HI12 |-> Row("abs", {<<12, 10, 12>>}),
     TLSLE_ADD_TPREL_LO12_NC |-> Row("abs", {<<0, 10, 12>>})]

RuntimeOnly == {"NONE", "RELATIVE", "IRELATIVE", "JUMP_SLOT", "GLOB_DAT"}

Page(a) == a \ Low(12)
Sum(r) == Plus[r.S, r.A]

Value(form, r) ==
    [abs |-> Sum(r),
     rel |-> Minus(Sum(r), r.P),
     page |-> Shr(Minus(Page(Sum(r)), Page(r.P)), 12)][form]

(* Checks X against the bits of a signed or unsigned word.  isIntN is asked*)
(* for one bit less than the word has.                                     *)
WithinSignedUnsignedRange(X, bits) == IsInt(bits - 1, X) \/ IsUInt(bits, X)

Stores(n, w) == [ok |-> TRUE, stores |-> {[at |-> 0, n |-> n, word |-> w]}]

Table(kind) ==
    IF kind \in DOMAIN PcRelative THEN {PcRelative[kind]}
    ELSE IF kind \in DOMAIN LoadStore THEN {LoadStore[kind]}
    ELSE IF kind \in DOMAIN GotAndTls THEN {GotAndTls[kind]} ELSE {}

ABS64(r, rd) == Stores(8, Sum(r) \cup rd[8])
PREL32(r, rd) == Stores(4, Plus[Minus(Sum(r), r.P), rd[4]] \cap Low(32))
ABS32(r, rd) ==
    IF WithinSignedUnsignedRange(Sum(r), 32)
    THEN Stores(4, (Sum(r) \cup rd[4]) \cap Low(32))
    ELSE [ok |-> FALSE, stores |-> {}]

Apply(r, rd) ==
    IF r.kind = "ABS64" THEN ABS64(r, rd)
    ELSE IF r.kind = "PREL32" THEN PREL32(r, rd)
    ELSE IF r.kind = "ABS32" THEN ABS32(r, rd)
    ELSE [ok |-> r.kind \in RuntimeOnly \/ Table(r.kind) # {},
          stores |-> {[at |-> 0, n |-> 4,
                       word |-> rd[4] \cup Scatter(Value(row.form, r), row.runs)] :
                        row \in Table(r.kind)}]
=============================================================================
