-------------------------- MODULE OR1KRelocations --------------------------
(***************************************************************************)
(* OR1KRelocationHandler::applyRelocation and the reloc template under it. *)
(* A handler is given a reference r - its kind, S (the address of the      *)
(* target), A (the addend), P (the address of the place), the offset of    *)
(* the place in its section and the address of the GOT symbol - and rd,    *)
(* the words of 1, 2, 4 and 8 bytes that start at the place.  It answers   *)
(* whether it knows the kind, and the word it stores at the place.         *)
(***************************************************************************)
INSTANCE Words

CONSTANT Endian          \* "big" (or1k) or "little" (or1kle)

LoadTime == {"NONE", "RELATIVE", "COPY", "GLOB_DAT", "JMP_SLOT"}

(* The arguments of the template: bytes written, right shift, what is      *)
(* subtracted, whether the bits outside the field are kept, field width.   *)
Row(out, shift, base, keep, width) ==
    [out |-> out, shift |-> shift, base |-> base, keep |-> keep, width |-> width]

Rows ==
    [W32 |-> Row(4, 0, "none", FALSE, 32),
     W16 |-> Row(2, 0, "none", FALSE, 16),
     W8 |-> Row(1, 0, "none", FALSE, 8),
     LO_16_IN_INSN |-> Row(4, 0, "none", TRUE, 16),
     HI_16_IN_INSN |-> Row(4, 16, "none", TRUE, 16),
     INSN_REL_26 |-> Row(4, 2, "place", TRUE, 26),
     PLT26 |-> Row(4, 2, "place", TRUE, 26),
     W32_PCREL |-> Row(4, 0, "section", FALSE, 32),
     W16_PCREL |-> Row(2, 0, "section", FALSE, 16),
     W8_PCREL |-> Row(1, 0, "section", FALSE, 8),
     GOTPC_HI16 |-> Row(4, 16, "place", TRUE, 16),
     GOTPC_LO16 |-> Row(4, 0, "place", TRUE, 16),
     GOTOFF_HI16 |-> Row(4, 16, "got", TRUE, 16),
     GOTOFF_LO16 |-> Row(4, 0, "got", TRUE, 16),
     GOT16 |-> Row(4, 0, "got", TRUE, 16)]

Base(base, r) ==
    [none |-> {}, place |-> r.P, section |-> Minus(r.P, r.inSection), got |-> r.got][base]

HalfAsWord(out) == IF out = 2 THEN 4 ELSE out
AlwaysWord(out) == 4

(* write<uint16_t, little> stores its value with write32le.                *)
Stored(out) == IF out = 2 /\ Endian = "little" THEN 4 ELSE out

Reloc(row, r, rd) ==
    LET low == Field(Minus(Plus[r.S, r.A], Base(row.base, r)), row.shift, row.width)
        kept == IF row.keep THEN rd[4] \ Low(row.width) ELSE {}
    IN  [at |-> 0, n |-> Stored(row.out), word |-> kept \cup low]

Apply(r, rd) ==
    IF r.kind \in LoadTime THEN [ok |-> TRUE, stores |-> {}]
    ELSE IF r.kind \notin DOMAIN Rows THEN [ok |-> FALSE, stores |-> {}]
    ELSE [ok |-> TRUE, stores |-> {Reloc(Rows[r.kind], r, rd)}]
=============================================================================
