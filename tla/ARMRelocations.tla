--------------------------- MODULE ARMRelocations ---------------------------
(***************************************************************************)
(* The relocation handler of ARM (see OR1KRelocations for what a handler   *)
(* is given and answers).  A reference also says whether its target is     *)
(* Thumb code (r.thumb), and carries the address of the GOT (r.got), the   *)
(* offset of the thread pointer (r.tpoff) and --target1-rel (r.target1Rel).*)
(* The addend of the file is the one the instruction holds: it is read     *)
(* from the place before the place is overwritten.  A 32-bit Thumb         *)
(* instruction is two halfwords: the first is bits 0 to 15 of rd[4].       *)
(***************************************************************************)
LOCAL INSTANCE Words

Inverse(runs) == {<<r[2], r[1], r[3]>> : r \in runs}

Whole == {<<0, 0, 32>>}
ArmMov == {<<0, 0, 12>>, <<12, 16, 4>>}
ThumbMov == {<<0, 16, 8>>, <<8, 28, 3>>, <<11, 10, 1>>, <<12, 0, 4>>}
Upper(runs) == {<<r[1] + 16, r[2], r[3]>> : r \in runs}
ThumbBranch == {<<24, 10, 1>>, <<12, 0, 10>>, <<1, 16, 11>>}

(* The bits J1 and J2 hold the inverse of I1 and I2 when S is set, else I1 *)
(* and I2 themselves, inverted: I = NOT (J XOR S), both ways.              *)
Js(v, I, J, S) == {j \in {J[1], J[2]} :
                    \E k \in 1..2 : j = J[k] /\ ((I[k] \in v) <=> (S \in v))}
ThumbJs(v) == Js(v, <<23, 22>>, <<29, 27>>, 24)
ThumbIs(w) == Js(w, <<29, 27>>, <<23, 22>>, 10)

(* readAddend.                                                             *)
Addend(kind, rd) ==
    LET w == rd[4]
        blx == Span(28, 4) \subseteq w
    IN  IF kind \in {"ABS32", "REL32", "TARGET1", "GOT_BREL", "BASE_PREL",
                     "TLS_IE32", "TLS_LE32"} THEN SignExtend(w, 32)
        ELSE IF kind = "PREL31" THEN w \cap Low(31)
        ELSE IF kind \in {"THM_CALL", "THM_JUMP24"}
          THEN SignExtend(Scatter(w, Inverse(ThumbBranch)) \cup ThumbIs(w), 25)
        ELSE IF kind = "THM_JUMP11" THEN SignExtend(Scatter(rd[2], {<<0, 1, 11>>}), 12)
        ELSE IF kind \in {"CALL", "JUMP24"}
          THEN SignExtend(Scatter(w, {<<0, 2, 24>>}) \cup
                          (IF blx /\ 24 \in w THEN {1} ELSE {}), 26)
        ELSE IF kind \in {"MOVW_ABS_NC", "MOVT_ABS"} THEN Scatter(w, Inverse(ArmMov))
        ELSE IF kind \in {"THM_MOVW_ABS_NC", "THM_MOVT_ABS"}
          THEN SignExtend(Scatter(w, Inverse(ThumbMov)), 16)
        ELSE {}

(* What is computed and where its bits go; the field is cleared first.     *)
Row(form, runs) == [form |-> form, runs |-> runs]

Data ==
    [ABS32 |-> Row("abs_t", Whole),
     REL32 |-> Row("rel_t", Whole),
     PREL31 |-> Row("rel_t", {<<0, 0, 31>>})]

Instructions ==
    [BASE_PREL |-> Row("got_rel", Whole),
     GOT_BREL |-> Row("got_off", Whole),
     JUMP24 |-> Row("rel_t", {<<2, 0, 24>>}),
     MOVW_ABS_NC |-> Row("abs_t", ArmMov),
     MOVT_ABS |-> Row("abs", Upper(ArmMov)),
     THM_MOVW_ABS_NC |-> Row("abs_t", ThumbMov),
     THM_MOVT_ABS |-> Row("abs", Upper(ThumbMov)),
     TLS_IE32 |-> Row("rel", Whole),
     TLS_LE32 |-> Row("tls", Whole)]

Value(form, r, A) ==
    LET sum == Plus[r.S, A]
        sumT == sum \cup (IF r.thumb THEN {0} ELSE {})
    IN  [abs |-> sum, abs_t |-> sumT,
         rel |-> Minus(sum, r.P), rel_t |-> Minus(sumT, r.P),
         got_rel |-> Minus(Plus[r.got, A], r.P), got_off |-> Minus(sum, r.got),
         tls |-> Plus[sum, r.tpoff]][form] \cap Low(32)

OrInto(old, v, runs) == old \cup Scatter(v, runs)

(* applyArmReloc and applyThumb32Reloc.                                    *)
Put(old, v, runs) == (old \ Scatter(Bits, runs)) \cup Scatter(v, runs)

ThumbBL(old, v) == (Put(old, v, ThumbBranch) \ {27, 29}) \cup ThumbJs(v)

THM_CALL(r, A, old) ==
    LET place == IF r.thumb THEN r.P ELSE r.P \ Low(2)
        v == Value("rel_t", [r EXCEPT !.P = place], A)
    IN  IF r.thumb THEN ThumbBL(old, v) ELSE ThumbBL(old, v) \ {16, 28}

CALL(r, A, old) ==
    LET v == Value("rel_t", r, A)
        bl == Put(old, v, {<<2, 0, 24>>})
    IN  IF r.thumb
        THEN (bl \cap Low(24)) \cup {31, 30, 29, 28, 27, 25} \cup Scatter(v, {<<1, 24, 1>>})
        ELSE bl

(* Group relocations: a negative offset is unreachable code, taken here as *)
(* a failure.                                                              *)
Group(r, A, old) ==
    LET v == Value("rel", r, A)
        alu(from, rot) == Put(old, Field(v, from, 8) \cup Shl(rot, 8), {<<0, 0, 12>>})
    IN  [ok |-> 31 \notin v,
         word |-> [ALU_PC_G0_NC |-> alu(20, {1, 2}),
                   ALU_PC_G1_NC |-> alu(12, {1, 3}),
                   LDR_PC_G2 |-> Put(old, v, {<<0, 0, 12>>})][r.kind]]

Rows == [k \in DOMAIN Data \cup DOMAIN Instructions |->
            IF k \in DOMAIN Data THEN Data[k] ELSE Instructions[k]]

Stores(n, w) == [ok |-> TRUE, stores |-> {[at |-> 0, n |-> n, word |-> w]}]

Apply(ref, rd) ==
    LET r == IF ref.kind # "TARGET1" THEN ref
             ELSE [ref EXCEPT !.kind = IF ref.target1Rel THEN "REL32" ELSE "ABS32"]
        A == Plus[Addend(ref.kind, rd), ref.A]
        w == rd[4]
    IN  IF r.kind \in DOMAIN Rows
          THEN Stores(4, Put(w, Value(Rows[r.kind].form, r, A), Rows[r.kind].runs))
        ELSE IF r.kind = "THM_CALL" THEN Stores(4, THM_CALL(r, A, w))
        ELSE IF r.kind = "CALL" THEN Stores(4, CALL(r, A, w))
        ELSE IF r.kind = "THM_JUMP24" THEN Stores(4, ThumbBL(w, Value("rel_t", r, A)))
        ELSE IF r.kind = "THM_JUMP11"
          THEN Stores(2, Put(rd[2], Value("rel", r, A), {<<1, 0, 11>>}))
        ELSE IF r.kind \in {"ALU_PC_G0_NC", "ALU_PC_G1_NC", "LDR_PC_G2"}
          THEN IF Group(r, A, w).ok THEN Stores(4, Group(r, A, w).word)
               ELSE [ok |-> FALSE, stores |-> {}]
        ELSE [ok |-> r.kind \in {"NONE", "IRELATIVE"}, stores |-> {}]
=============================================================================
