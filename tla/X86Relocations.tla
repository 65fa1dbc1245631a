--------------------------- MODULE X86Relocations ---------------------------
(***************************************************************************)
(* The relocation handlers of x86 and x86_64 (see OR1KRelocations for what *)
(* a handler is given and answers).  Beyond r.S, r.A and r.P a reference   *)
(* carries r.tls, the size of the TLS segment, and r.index, the index of   *)
(* the JUMP_SLOT relocation of its target in the relocation table of the   *)
(* PLT (no word at all when the target has no such relocation).            *)
(***************************************************************************)
LOCAL INSTANCE Words

(* What is computed, how it meets what the section held at the place (or-ed*)
(* to it, added to it, or put over it), and in how many bytes.             *)
Row(form, how, n) == [form |-> form, how |-> how, n |-> n]

I386 == [I386_32 |-> Row("abs", "or", 4), I386_PC32 |-> Row("rel", "add", 4)]

X86_64 ==
    [W64 |-> Row("abs", "or", 8),
     PC32 |-> Row("rel", "add", 4),
     GOTPCREL |-> Row("rel", "add", 4),
     TLSGD |-> Row("rel", "add", 4),
     W32 |-> Row("abs", "or", 4),
     W32S |-> Row("abs", "or", 4),
     W16 |-> Row("abs", "or", 2),
     PC16 |-> Row("rel", "or", 2),
     PC64 |-> Row("rel", "or", 8)]

(* Kinds the switch treats one by one.                                     *)
Tls == [TPOFF64 |-> 8, TPOFF32 |-> 4, DTPOFF32 |-> 4]
RuntimeOnly == {"NONE", "RELATIVE", "IRELATIVE", "JUMP_SLOT", "GLOB_DAT",
                "DTPMOD64", "DTPOFF64"}

Value(form, r) ==
    LET sum == Plus[r.S, r.A] IN IF form = "abs" THEN sum ELSE Minus(sum, r.P)

Store(row, r, rd) ==
    LET v == Value(row.form, r) \cap Low(8 * row.n)
        old == rd[row.n]
    IN  [at |-> 0, n |-> row.n,
         word |-> IF row.how = "or" THEN v \cup old
                  ELSE Plus[v, old] \cap Low(8 * row.n)]

(* R_X86_64_TLSLD: the call is rewritten to mov %fs:0, %rax, from 3 bytes  *)
(* before the place; the 12 bytes are written here as 8 and 4.             *)
MovFs == {[at |-> -3, n |-> 8, word |-> {1, 2, 5, 6, 9, 10, 13, 14, 17, 18, 21, 22,
                                         26, 29, 30, 35, 38, 40, 41, 43, 47, 50, 56, 58, 61}],
          [at |-> 5, n |-> 4, word |-> {}]}

Apply386(r, rd) ==
    IF r.kind \in DOMAIN I386 THEN [ok |-> TRUE, stores |-> {Store(I386[r.kind], r, rd)}]
    ELSE [ok |-> FALSE, stores |-> {}]

Apply64(r, rd) ==
    IF r.kind \in DOMAIN X86_64
      THEN [ok |-> TRUE, stores |-> {Store(X86_64[r.kind], r, rd)}]
    ELSE IF r.kind \in DOMAIN Tls
      THEN [ok |-> TRUE, stores |-> {[at |-> 0, n |-> Tls[r.kind],
                                      word |-> Minus(r.S, r.tls) \cap Low(8 * Tls[r.kind])]}]
    ELSE IF r.kind = "TLSLD" THEN [ok |-> TRUE, stores |-> MovFs]
    ELSE IF r.kind = "GOTRELINDEX"
      THEN [ok |-> TRUE, stores |-> {[at |-> 0, n |-> 4, word |-> rd[4] \cup i] : i \in r.index}]
    ELSE [ok |-> r.kind \in RuntimeOnly, stores |-> {}]
=============================================================================
