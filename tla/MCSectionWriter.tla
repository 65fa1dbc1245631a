-------------------------- MODULE MCSectionWriter --------------------------
(***************************************************************************)
(* Two neighbouring atoms in sections of their own: the first carries the  *)
(* references under test, the second follows it without a gap and holds    *)
(* data and one reference of its own.                                      *)
(***************************************************************************)
EXTENDS SectionWriter, TLC

(* Entries of insn_encodings: a jump, a duplex instruction, a load.        *)
TheEncodings ==
    <<[mask |-> Span(25, 7), cmp |-> {27, 28, 30},
       bits |-> Span(1, 13) \cup Span(16, 9), duplex |-> FALSE],
      [mask |-> {}, cmp |-> {}, bits |-> Span(5, 9), duplex |-> TRUE],
      [mask |-> {}, cmp |-> {}, bits |-> Span(5, 9), duplex |-> FALSE]>>

-----------------------------------------------------------------------------
None == [kind |-> "NONE", at |-> 0, S |-> {}, A |-> {}, P |-> {}, inSection |-> {},
         got |-> Num(131072), tls |-> Num(16), index |-> {}, thumb |-> FALSE,
         tpoff |-> Num(8), target1Rel |-> FALSE, gp |-> Num(65536), gpDisp |-> FALSE,
         defined |-> TRUE, micro |-> FALSE, tag |-> <<>>, rela |-> FALSE]

Ref(kind, at, S, A) == [None EXCEPT !.kind = kind, !.at = at, !.S = S, !.A = A]

TheAtom(off, vaddr, size, content, refs, sec) ==
    [off |-> off, vaddr |-> vaddr, size |-> size, content |-> content,
     refs |-> refs, section |-> sec, onDisk |-> TRUE]

Here == Num(2164736)                     \* 0x210800, the address of the first atom
Minus8 == Neg({3})
Far == {28, 12, 2}                       \* 0x10001004
Places == {Plus[Here, Num(260)], Minus(Here, Num(2052)), Far}
Odd == {Plus[Here, Num(4094)], Num(98304)}

Neighbour(n, arch) ==
    TheAtom(n, Plus[Here, Num(n)], 4, {0, 9, 18, 27, 31}, <<Ref(
        [or1k |-> "W32", or1kle |-> "W32", x86 |-> "I386_32", x86_64 |-> "W32",
         aarch64 |-> "ABS32", arm |-> "ABS32", hexagon |-> "W32", mips |-> "W32"][arch],
        0, Here, {})>>, "data")

(* An output: the target, the size and content of the first atom, in words *)
(* of at most four bytes.                                                  *)
Output(arch, size, content, refs) ==
    LET n == IF size < 4 THEN size ELSE 4
        bytes == UNION {{32 * k + i : i \in Swap(arch, n, Field(content, 32 * k, 32))} :
                          k \in 0..1}
    IN  [arch |-> arch, atoms |-> [a |-> TheAtom(0, Here, size, bytes, refs, "text"),
                                   b |-> Neighbour(size, arch)]]

(* What the instruction sets say of a field: where its bits stand in the   *)
(* instruction and in the value, the width of the signed value, and what   *)
(* it is added to.  The instruction as the compiler leaves it.             *)
Isa(size, runs, width, base, insn) ==
    [size |-> size, runs |-> runs, width |-> width, base |-> base, insn |-> insn]

Branch26 == {27, 28, 31}                           \* bl, AArch64
IsaOf ==
    [or1k |->
        [INSN_REL_26 |-> Isa(4, {<<0, 2, 26>>}, 28, "P", {26}),
         PLT26 |-> Isa(4, {<<0, 2, 26>>}, 28, "P", {26}),
         W32 |-> Isa(4, {<<0, 0, 32>>}, 32, "0", {}),
         W16 |-> Isa(2, {<<0, 0, 16>>}, 16, "0", {}),
         W8 |-> Isa(1, {<<0, 0, 8>>}, 8, "0", {}),
         W32_PCREL |-> Isa(4, {<<0, 0, 32>>}, 32, "P", {}),
         W16_PCREL |-> Isa(2, {<<0, 0, 16>>}, 16, "P", {})],
     x86 |->
        [I386_32 |-> Isa(4, {<<0, 0, 32>>}, 32, "0", {}),
         I386_PC32 |-> Isa(4, {<<0, 0, 32>>}, 32, "P", {})],
     x86_64 |->
        [PC32 |-> Isa(4, {<<0, 0, 32>>}, 32, "P", {}),
         GOTPCREL |-> Isa(4, {<<0, 0, 32>>}, 32, "P", {}),
         TLSGD |-> Isa(4, {<<0, 0, 32>>}, 32, "P", {}),
         W64 |-> Isa(8, {<<0, 0, 64>>}, 64, "0", {}),
         W32S |-> Isa(4, {<<0, 0, 32>>}, 32, "0", {}),
         PC16 |-> Isa(2, {<<0, 0, 16>>}, 16, "P", {}),
         PC64 |-> Isa(8, {<<0, 0, 64>>}, 64, "P", {})],
     aarch64 |->
        [CALL26 |-> Isa(4, {<<0, 2, 26>>}, 28, "P", Branch26),
         JUMP26 |-> Isa(4, {<<0, 2, 26>>}, 28, "P", {26, 28}),
         CONDBR19 |-> Isa(4, {<<5, 2, 19>>}, 21, "P", {28, 30}),
         ADR_PREL_LO21 |-> Isa(4, {<<29, 0, 2>>, <<5, 2, 19>>}, 21, "P", {28}),
         PREL32 |-> Isa(4, {<<0, 0, 32>>}, 32, "P", {}),
         ABS64 |-> Isa(8, {<<0, 0, 64>>}, 64, "0", {})],
     arm |->
        [ABS32 |-> Isa(4, {<<0, 0, 32>>}, 32, "0", {}),
         REL32 |-> Isa(4, {<<0, 0, 32>>}, 32, "P", {}),
         PREL31 |-> Isa(4, {<<0, 0, 31>>}, 31, "P", {31}),
         CALL |-> Isa(4, {<<0, 2, 24>>}, 26, "P+8", (Low(24) \ {0}) \cup {24, 25, 27, 29, 30, 31}),
         JUMP24 |-> Isa(4, {<<0, 2, 24>>}, 26, "P+8", (Low(24) \ {0}) \cup {25, 27, 29, 30, 31})],
     hexagon |->
        [B22_PCREL |-> Isa(4, {<<1, 2, 13>>, <<16, 15, 9>>}, 24, "P", {14, 15, 27, 28, 30}),
         W32 |-> Isa(4, {<<0, 0, 32>>}, 32, "0", {})],
     mips |->
        [PC32 |-> Isa(4, {<<0, 0, 32>>}, 32, "P", {}),
         PC19_S2 |-> Isa(4, {<<0, 2, 19>>}, 21, "P", {27, 29, 30, 31}),
         PC21_S2 |-> Isa(4, {<<0, 2, 21>>}, 23, "P", {27, 28, 30, 31}),
         PC26_S2 |-> Isa(4, {<<0, 2, 26>>}, 28, "P", {27, 30, 31}),
         PC18_S3 |-> Isa(4, {<<0, 3, 18>>}, 21, "P", {27, 28, 29, 30, 31}),
         UPC16_S1 |-> Isa(4, {<<16, 1, 16>>}, 17, "P", {}),
         W32 |-> Isa(4, {<<0, 0, 32>>}, 32, "0", {})]]

Single(arch, kind) ==
    LET isa == IsaOf[arch][kind]
    IN  {Output(arch, isa.size, isa.insn, <<Ref(kind, 0, S, {})>>) : S \in Places}

(* The pairs of instructions that share an address: the kinds of both, the *)
(* instructions, the field of the first, its shift, the field of the       *)
(* second, and whether the second is signed and the first counts pages.    *)
Pair(hi, lo, insns, hiRuns, loRuns, style) ==
    [hi |-> hi, lo |-> lo, insns |-> insns, hiRuns |-> hiRuns, loRuns |-> loRuns,
     style |-> style]
Adrp == {<<29, 12, 2>>, <<5, 14, 19>>}
Pairs ==
    [or1k |-> {Pair("HI_16_IN_INSN", "LO_16_IN_INSN", {27, 60}, {<<0, 16, 16>>},
                    {<<0, 0, 16>>}, "or")},
     aarch64 |->
        {Pair("ADR_PREL_PG_HI21", k, {28, 31, 56, 60}, Adrp,
              [ADD_ABS_LO12_NC |-> {<<10, 0, 12>>}, LDST8_ABS_LO12_NC |-> {<<10, 0, 12>>},
               LDST32_ABS_LO12_NC |-> {<<10, 2, 10>>},
               LDST64_ABS_LO12_NC |-> {<<10, 3, 9>>}][k], "page") :
           k \in {"ADD_ABS_LO12_NC", "LDST8_ABS_LO12_NC", "LDST32_ABS_LO12_NC"}} \cup
        {Pair("ADR_GOT_PAGE", "LD64_GOT_LO12_NC", {28, 31, 56, 62}, Adrp,
              {<<10, 3, 9>>}, "page"),
         Pair("TLSLE_ADD_TPREL_HI12", "TLSLE_ADD_TPREL_LO12_NC", {28, 60}, {<<10, 12, 12>>},
              {<<10, 0, 12>>}, "or")},
     arm |-> {Pair("MOVW_ABS_NC", "MOVT_ABS", {24, 57}, {<<0, 0, 12>>, <<16, 12, 4>>},
                   {<<0, 16, 12>>, <<16, 28, 4>>}, "or"),
              Pair("THM_MOVW_ABS_NC", "THM_MOVT_ABS", {12, 44},
                   {<<16, 0, 8>>, <<28, 8, 3>>, <<10, 11, 1>>, <<0, 12, 4>>},
                   {<<16, 16, 8>>, <<28, 24, 3>>, <<10, 27, 1>>, <<0, 28, 4>>}, "or")},
     hexagon |-> {Pair("HI16", "LO16", {14, 46}, {<<0, 16, 14>>, <<22, 30, 2>>},
                       {<<0, 0, 14>>, <<22, 14, 2>>}, "or")},
     mips |-> {Pair("HI16", "LO16", {26, 61}, {<<0, 16, 16>>}, {<<0, 0, 16>>}, "add"),
               Pair("UHI16", "ULO16", {1, 35}, {<<16, 16, 16>>}, {<<16, 0, 16>>}, "add"),
               Pair("PCHI16", "PCLO16", {26, 61}, {<<0, 16, 16>>}, {<<0, 0, 16>>}, "addP")}]

AlignedTo(pair, S) ==
    pair.style = "page" => \E r \in pair.loRuns : r[2] <= 3 /\ S \cap Low(r[2]) = {}
PairOutputs ==
    UNION {UNION {{Output(arch, 8, p.insns, <<Ref(p.hi, 0, S, {}), 
                         Ref(p.lo, 4, S, IF p.style = "addP" THEN {2} ELSE {})>>) :
                     S \in {x \in Odd \cup Places : AlignedTo(p, x)}} :
                  p \in Pairs[arch]} : arch \in DOMAIN Pairs}

(* Kinds that are only checked for what they leave alone, and for errors.  *)
Others ==
    [or1k |-> {"W8_PCREL", "GOTPC_HI16", "GOTOFF_LO16", "GOT16", "COPY", "BAD"},
     or1kle |-> {"W32", "W16", "INSN_REL_26", "LO_16_IN_INSN"},
     x86 |-> {"BAD"},
     x86_64 |-> {"W16", "TPOFF32", "DTPOFF32", "GOTRELINDEX", "DTPMOD64", "BAD"},
     aarch64 |-> {"ABS32", "LDST16_ABS_LO12_NC", "LDST128_ABS_LO12_NC", "GOTRELINDEX",
                  "GLOB_DAT", "BAD"},
     arm |-> {"THM_CALL", "THM_JUMP24", "THM_JUMP11", "BASE_PREL", "GOT_BREL", "TARGET1",
              "TLS_LE32", "ALU_PC_G0_NC", "ALU_PC_G1_NC", "LDR_PC_G2", "BAD"},
     hexagon |-> {"B15_PCREL", "W32_6_X", "B22_PCREL_X", "X6_PCREL", "X16", "GPREL16_2",
                  "GOT_LO16", "GOT_16", "GOTREL_HI16", "JMP_SLOT", "BAD"},
     mips |-> {"W64", "SUB", "J26", "U26_S1", "LGLOBAL_26", "LHI16", "GOT16", "UGOT16", "GOT_OFST",
               "GPREL16", "GPREL32", "UPC23_S2", "REL32", "L64_HI16", "JALR", "TLS_DTPMOD64"}]
Misc ==
    UNION {{Output(arch, 8, {26, 40}, <<Ref(k, 0, S, {})>>) : S \in {Far, Minus(Here, Num(2052))},
                                                               k \in Others[arch]} :
           arch \in DOMAIN Others}

Composed ==
    {Output("mips", 8, {}, <<[Ref("GPREL16", 0, S, {}) EXCEPT !.tag = <<"SUB", k>>]>>) :
        S \in Places, k \in {"HI16", "LO16"}} \cup
    {Output("mips", 8, op, <<[Ref(k, 0, Plus[Here, Num(256)], {}) EXCEPT !.micro = m]>>) :
        op \in {{26, 27}, {10, 12, 13, 14, 15}, {}}, k \in {"J26", "U26_S1"}, m \in BOOLEAN}

Special ==
    {Output("x86_64", 12, {}, <<Ref("TLSLD", 3, Here, {})>>),
     Output("x86_64", 4, {}, <<[Ref("GOTRELINDEX", 0, Here, {}) EXCEPT !.index = {{0, 2}}]>>)} \cup
    {[o EXCEPT !.atoms.a.onDisk = FALSE] : o \in Single("x86", "I386_32")} \cup
    {[o EXCEPT !.atoms.b.refs = <<Ref("BAD", 0, {}, {}), Ref("I386_32", 0, Here, {})>>] :
        o \in Single("x86", "I386_32")}

Singles == UNION {UNION {Single(arch, k) : k \in DOMAIN IsaOf[arch]} : arch \in DOMAIN IsaOf}

TheOutputs == Singles \cup PairOutputs \cup Misc \cup Composed \cup Special

-----------------------------------------------------------------------------
Committed == phase = "committed" /\ Writes(Atom("a"))

(* A branch, an address or an offset in the committed file, read the way   *)
(* the processor reads it, is the target of the reference, whenever the    *)
(* instruction has room for it: nothing of the instruction around the      *)
(* field has changed either.  (the relocation functions of every target)   *)
ReachesItsTarget ==
    Committed /\ Len(Atom("a").refs) = 1 /\ output.arch \in DOMAIN IsaOf
              /\ Atom("a").refs[1].kind \in DOMAIN IsaOf[output.arch]
              /\ Atom("a").refs[1].tag = <<>> =>
      LET r == Atom("a").refs[1]
          isa == IsaOf[output.arch][r.kind]
          word == Read(output.arch, file, 0, isa.size)
          base == ("0" :> {} @@ "P" :> Here @@ "P+8" :> Plus[Here, {3}])[isa.base]
          want == Minus(r.S, base)
          room == Scatter(Bits, isa.runs)
          field == Scatter(Bits, {<<q[2], q[1], q[3]>> : q \in isa.runs})
      IN  IsInt(isa.width, want) /\ want \cap Low(isa.width) \subseteq room =>
            /\ SignExtend(Scatter(word, isa.runs), isa.width) = want
            /\ word \ field = isa.insn \ field

(* Two instructions that build an address from its two parts build the     *)
(* target, though each was relocated without the other: the carry of the   *)
(* low half, where the processor adds a signed one, is in the high half.   *)
PairBuildsTheTarget ==
    Committed /\ Len(Atom("a").refs) = 2 =>
      LET hi == Atom("a").refs[1]
          pair == CHOOSE p \in Pairs[output.arch] : p.hi = hi.kind /\ p.lo = Atom("a").refs[2].kind
          h == Scatter(Read(output.arch, file, 0, 4), pair.hiRuns)
          l == Scatter(Read(output.arch, file, 4, 4), pair.loRuns)
          got == CASE pair.style = "or" -> h \cup l
                   [] pair.style = "page" -> Plus[Plus[Here \ Low(12), SignExtend(h, 33)], l]
                   [] pair.style = "add" -> Plus[h, SignExtend(l, 16)]
                   [] pair.style = "addP" -> Plus[Plus[h, SignExtend(l, 16)], Here]
          mask == IF hi.kind = "TLSLE_ADD_TPREL_HI12" THEN Low(24) ELSE Low(32)
      IN  got \cap mask = hi.S \cap mask

(* The processor computes the address that the reference designates, from  *)
(* one instruction or from two.                                            *)
TargetsAreReached == ReachesItsTarget /\ PairBuildsTheTarget
=============================================================================
