------------------------ MODULE SectionWriterProofs -------------------------
(***************************************************************************)
(* Writing the sections does not depend on the order of the tasks, for any *)
(* files and any of the eight targets, when the field of every reference   *)
(* lies in its atom (OutputsAssumption).  First, target by target, what a  *)
(* handler looks at and stores stays in that field; then the words of the  *)
(* file; then the tasks.                                                   *)
(***************************************************************************)
EXTENDS SectionWriter, Iteration

(* Buffers that hold the same words where a field is; stores that stay in  *)
(* it; and a target whose handler answers the same to the first and stores *)
(* as the second says, whatever the reference.                             *)
Agree(f, rd, rd2) == \A n \in {1, 2, 4, 8} : n <= f.from + f.n => rd[n] = rd2[n]
Keeps(f, answer) ==
    \A s \in answer.stores :
        s.at \in Int /\ s.n \in Nat /\ f.from <= s.at /\ s.at + s.n <= f.from + f.n
IsKept(arch) ==
    \A r, rd, rd2 : Agree(FieldOf(arch, r), rd, rd2) =>
        /\ Handler(arch, r, rd) = Handler(arch, r, rd2)
        /\ Keeps(FieldOf(arch, r), Handler(arch, r, rd))

(* A handler that stores one field, at the place, keeps to it.             *)
LEMMA OneField ==
  ASSUME NEW f, NEW answer, NEW n \in Nat, f = Room(0, n),
         \A s \in answer.stores : s.at = 0 /\ s.n = n
  PROVE  Keeps(f, answer)
BY DEF Keeps, Room

(* The handlers, one by one.                                               *)
LEMMA Or1kKeeps == IsKept("or1k")
<1> SUFFICES ASSUME NEW r, NEW rd, NEW rd2, Agree(FieldOf("or1k", r), rd, rd2)
             PROVE  /\ OR1K!Apply(r, rd) = OR1K!Apply(r, rd2)
                    /\ Keeps(FieldOf("or1k", r), OR1K!Apply(r, rd))
  <2>1. \A q, w : Handler("or1k", q, w) = OR1K!Apply(q, w)
    BY Zenon DEF Handler
  <2> QED BY <2>1 DEF IsKept
<1>1. FieldOf("or1k", r) = Room(0, IF r.kind \in OR1K!LoadTime THEN 0
                    ELSE IF r.kind \in {"W8", "W8_PCREL"} THEN 1
                    ELSE IF r.kind \in {"W16", "W16_PCREL"} THEN 2 ELSE 4)
  BY Zenon DEF FieldOf
<1>2. CASE r.kind \in OR1K!LoadTime \/ r.kind \notin DOMAIN OR1K!Rows
  BY <1>2 DEF OR1K!Apply, Keeps
<1>3. CASE r.kind \notin OR1K!LoadTime /\ r.kind \in DOMAIN OR1K!Rows
  <2> DEFINE row == OR1K!Rows[r.kind]
             n == IF r.kind \in {"W8", "W8_PCREL"} THEN 1
                    ELSE IF r.kind \in {"W16", "W16_PCREL"} THEN 2 ELSE 4
  <2>1. row.out = n /\ (row.keep => n = 4)
    BY <1>3 DEF OR1K!Rows, OR1K!Row
  <2>2. FieldOf("or1k", r) = Room(0, n)
    BY <1>1, <1>3
  <2>3. row.keep => rd[4] = rd2[4]
    BY <2>1, <2>2 DEF Agree, Room
  <2>4. OR1K!Reloc(row, r, rd) = OR1K!Reloc(row, r, rd2)
    BY <2>3 DEF OR1K!Reloc
  <2>5. OR1K!Reloc(row, r, rd).at = 0 /\ OR1K!Reloc(row, r, rd).n = n
    BY <2>1 DEF OR1K!Reloc, OR1K!Stored
  <2>6. n \in Nat
    OBVIOUS
  <2>7. \A w : OR1K!Apply(r, w) = [ok |-> TRUE, stores |-> {OR1K!Reloc(row, r, w)}]
    BY <1>3 DEF OR1K!Apply
  <2> HIDE DEF row, n
  <2>8. OR1K!Apply(r, rd) = OR1K!Apply(r, rd2)
    BY <2>4, <2>7, Zenon
  <2>9. OR1K!Apply(r, rd).stores = {OR1K!Reloc(row, r, rd)}
    BY <2>7
  <2>10. \A s \in OR1K!Apply(r, rd).stores : s.at = 0 /\ s.n = n
    BY <2>5, <2>9, Zenon
  <2> QED BY <2>2, <2>6, <2>8, <2>10, OneField
<1> QED BY <1>2, <1>3

LEMMA X86Keeps == IsKept("x86")
<1> SUFFICES ASSUME NEW r, NEW rd, NEW rd2, Agree(FieldOf("x86", r), rd, rd2)
             PROVE  /\ X86!Apply386(r, rd) = X86!Apply386(r, rd2)
                    /\ Keeps(FieldOf("x86", r), X86!Apply386(r, rd))
  <2>1. \A q, w : Handler("x86", q, w) = X86!Apply386(q, w)
    BY Zenon DEF Handler
  <2> QED BY <2>1 DEF IsKept
<1>1. FieldOf("x86", r) = Room(0, 4)
  BY Zenon DEF FieldOf
<1>2. rd[4] = rd2[4]
  BY <1>1 DEF Agree, Room
<1>3. r.kind \in DOMAIN X86!I386 => X86!I386[r.kind].n = 4
  BY DEF X86!I386, X86!Row
<1>4. r.kind \in DOMAIN X86!I386 =>
         /\ X86!Store(X86!I386[r.kind], r, rd) = X86!Store(X86!I386[r.kind], r, rd2)
         /\ X86!Store(X86!I386[r.kind], r, rd).at = 0
         /\ X86!Store(X86!I386[r.kind], r, rd).n = 4
  BY <1>2, <1>3 DEF X86!Store
<1> HIDE DEF X86!I386
<1>5. /\ X86!Apply386(r, rd) = X86!Apply386(r, rd2)
      /\ \A s \in X86!Apply386(r, rd).stores : s.at = 0 /\ s.n = 4
  BY <1>4 DEF X86!Apply386
<1> QED BY <1>1, <1>5, OneField

LEMMA X86_64Keeps == IsKept("x86_64")
<1> SUFFICES ASSUME NEW r, NEW rd, NEW rd2, Agree(FieldOf("x86_64", r), rd, rd2)
             PROVE  /\ X86!Apply64(r, rd) = X86!Apply64(r, rd2)
                    /\ Keeps(FieldOf("x86_64", r), X86!Apply64(r, rd))
  <2>1. \A q, w : Handler("x86_64", q, w) = X86!Apply64(q, w)
    BY Zenon DEF Handler
  <2> QED BY <2>1 DEF IsKept
<1>1. FieldOf("x86_64", r) =
            IF r.kind = "TLSLD" THEN Room(-3, 12)
            ELSE Room(0, IF r.kind \in X86!RuntimeOnly THEN 0
                         ELSE IF r.kind \in {"W16", "PC16"} THEN 2
                         ELSE IF r.kind \in {"W64", "PC64", "TPOFF64"} THEN 8 ELSE 4)
  BY Zenon DEF FieldOf
<1> DEFINE kept == {"W64", "PC32", "GOTPCREL", "TLSGD", "W32", "W32S", "W16", "PC16", "PC64"}
           n == IF r.kind \in {"W16", "PC16"} THEN 2
                ELSE IF r.kind \in {"W64", "PC64", "TPOFF64"} THEN 8 ELSE 4
           store(w) == X86!Store(X86!X86_64[r.kind], r, w)
<1>2. DOMAIN X86!X86_64 = kept /\ DOMAIN X86!Tls = {"TPOFF64", "TPOFF32", "DTPOFF32"}
  BY DEF X86!X86_64, X86!Tls
<1>3. CASE r.kind \in kept
  <2>1. X86!X86_64[r.kind].n = n
    BY <1>3 DEF X86!X86_64, X86!Row
  <2>2. FieldOf("x86_64", r) = Room(0, n)
    BY <1>1, <1>3 DEF X86!RuntimeOnly
  <2>3. n \in {2, 4, 8}
    OBVIOUS
  <2>4. rd[n] = rd2[n]
    BY <2>2, <2>3 DEF Agree, Room
  <2>5. store(rd) = store(rd2) /\ store(rd).at = 0 /\ store(rd).n = n
    BY <2>1, <2>4 DEF X86!Store
  <2>6. \A w : X86!Apply64(r, w) = [ok |-> TRUE, stores |-> {store(w)}]
    BY <1>2, <1>3 DEF X86!Apply64
  <2> HIDE DEF n, store
  <2>7. n \in Nat
    BY <2>3
  <2>8. X86!Apply64(r, rd) = X86!Apply64(r, rd2)
    BY <2>5, <2>6, Zenon
  <2>9. X86!Apply64(r, rd).stores = {store(rd)}
    BY <2>6
  <2>10. \A s \in X86!Apply64(r, rd).stores : s.at = 0 /\ s.n = n
    BY <2>5, <2>9, Zenon
  <2> QED BY <2>2, <2>7, <2>8, <2>10, OneField
<1>4. CASE r.kind \in {"TPOFF64", "TPOFF32", "DTPOFF32"}
  <2>1. X86!Tls[r.kind] = n
    BY <1>4 DEF X86!Tls
  <2>2. FieldOf("x86_64", r) = Room(0, n)
    BY <1>1, <1>4 DEF X86!RuntimeOnly
  <2>3. /\ X86!Apply64(r, rd) = X86!Apply64(r, rd2)
        /\ \A s \in X86!Apply64(r, rd).stores : s.at = 0 /\ s.n = n
    BY <1>2, <1>4, <2>1 DEF X86!Apply64
  <2>4. n \in Nat
    OBVIOUS
  <2> HIDE DEF n
  <2> QED BY <2>2, <2>3, <2>4, OneField
<1>5. CASE r.kind = "TLSLD"
  <2>1. \A w : X86!Apply64(r, w) = [ok |-> TRUE, stores |-> X86!MovFs]
    BY <1>2, <1>5 DEF X86!Apply64
  <2>2. FieldOf("x86_64", r) = Room(-3, 12)
    BY <1>1, <1>5
  <2>3. Keeps(Room(-3, 12), [ok |-> TRUE, stores |-> X86!MovFs])
    BY DEF Keeps, Room, X86!MovFs
  <2> QED BY <2>1, <2>2, <2>3
<1>6. CASE r.kind = "GOTRELINDEX"
  <2>1. FieldOf("x86_64", r) = Room(0, 4)
    BY <1>1, <1>6 DEF X86!RuntimeOnly
  <2>2. rd[4] = rd2[4]
    BY <2>1 DEF Agree, Room
  <2>3. \A w : X86!Apply64(r, w) =
          [ok |-> TRUE, stores |-> {[at |-> 0, n |-> 4, word |-> w[4] \cup i] : i \in r.index}]
    BY <1>2, <1>6 DEF X86!Apply64
  <2>4. X86!Apply64(r, rd) = X86!Apply64(r, rd2)
    BY <2>2, <2>3, Zenon
  <2>5. X86!Apply64(r, rd).stores = {[at |-> 0, n |-> 4, word |-> rd[4] \cup i] : i \in r.index}
    BY <2>3
  <2>6. \A s \in X86!Apply64(r, rd).stores : s.at = 0 /\ s.n = 4
    BY <2>5
  <2> QED BY <2>1, <2>4, <2>6, OneField
<1>7. CASE r.kind \notin kept \cup {"TPOFF64", "TPOFF32", "DTPOFF32", "TLSLD", "GOTRELINDEX"}
  BY <1>2, <1>7 DEF X86!Apply64, Keeps
<1> QED BY <1>3, <1>4, <1>5, <1>6, <1>7
LEMMA Or1kLeKeeps == IsKept("or1kle")
<1> SUFFICES ASSUME NEW r, NEW rd, NEW rd2, Agree(FieldOf("or1kle", r), rd, rd2)
             PROVE  /\ OR1KLE!Apply(r, rd) = OR1KLE!Apply(r, rd2)
                    /\ Keeps(FieldOf("or1kle", r), OR1KLE!Apply(r, rd))
  <2>1. \A q, w : Handler("or1kle", q, w) = OR1KLE!Apply(q, w)
    BY Zenon DEF Handler
  <2> QED BY <2>1 DEF IsKept
<1> DEFINE n == IF r.kind \in {"W8", "W8_PCREL"} THEN 1 ELSE 4
<1>1. FieldOf("or1kle", r) = Room(0, IF r.kind \in OR1K!LoadTime THEN 0 ELSE n)
  <2>1. FieldOf("or1kle", r) =
            Room(0, IF r.kind \in OR1K!LoadTime THEN 0
                    ELSE IF r.kind \in {"W8", "W8_PCREL"} THEN 1
                    ELSE IF "or1kle" = "or1k" /\ r.kind \in {"W16", "W16_PCREL"} THEN 2 ELSE 4)
    BY Zenon DEF FieldOf
  <2> QED BY <2>1
<1>2. CASE r.kind \in OR1KLE!LoadTime \/ r.kind \notin DOMAIN OR1KLE!Rows
  BY <1>2 DEF OR1KLE!Apply, Keeps
<1>3. CASE r.kind \notin OR1KLE!LoadTime /\ r.kind \in DOMAIN OR1KLE!Rows
  <2> DEFINE row == OR1KLE!Rows[r.kind]
  <2>1. row.out \in {1, 2, 4} /\ (row.out = 1 <=> n = 1) /\ (row.keep => n = 4)
    BY <1>3 DEF OR1KLE!Rows, OR1KLE!Row
  <2>2. FieldOf("or1kle", r) = Room(0, n)
    BY <1>1, <1>3 DEF OR1K!LoadTime, OR1KLE!LoadTime
  <2>3. row.keep => rd[4] = rd2[4]
    BY <2>1, <2>2 DEF Agree, Room
  <2>4. OR1KLE!Reloc(row, r, rd) = OR1KLE!Reloc(row, r, rd2)
    BY <2>3 DEF OR1KLE!Reloc
  <2>5. OR1KLE!Reloc(row, r, rd).at = 0 /\ OR1KLE!Reloc(row, r, rd).n = n
    BY <2>1 DEF OR1KLE!Reloc, OR1KLE!Stored
  <2>6. n \in Nat
    OBVIOUS
  <2>7. \A w : OR1KLE!Apply(r, w) = [ok |-> TRUE, stores |-> {OR1KLE!Reloc(row, r, w)}]
    BY <1>3 DEF OR1KLE!Apply
  <2> HIDE DEF row, n
  <2>8. OR1KLE!Apply(r, rd) = OR1KLE!Apply(r, rd2)
    BY <2>4, <2>7, Zenon
  <2>9. OR1KLE!Apply(r, rd).stores = {OR1KLE!Reloc(row, r, rd)}
    BY <2>7
  <2>10. \A s \in OR1KLE!Apply(r, rd).stores : s.at = 0 /\ s.n = n
    BY <2>5, <2>9, Zenon
  <2> QED BY <2>2, <2>6, <2>8, <2>10, OneField
<1> QED BY <1>2, <1>3

LEMMA AArch64Keeps == IsKept("aarch64")
<1> SUFFICES ASSUME NEW r, NEW rd, NEW rd2, Agree(FieldOf("aarch64", r), rd, rd2)
             PROVE  /\ AArch64!Apply(r, rd) = AArch64!Apply(r, rd2)
                    /\ Keeps(FieldOf("aarch64", r), AArch64!Apply(r, rd))
  <2>1. \A q, w : Handler("aarch64", q, w) = AArch64!Apply(q, w)
    BY Zenon DEF Handler
  <2> QED BY <2>1 DEF IsKept
<1>1. FieldOf("aarch64", r) = Room(0, IF r.kind \in AArch64!RuntimeOnly THEN 0
                                     ELSE IF r.kind = "ABS64" THEN 8 ELSE 4)
  BY Zenon DEF FieldOf
<1>2. CASE r.kind \in AArch64!RuntimeOnly
  <2>1. AArch64!Table(r.kind) = {}
    BY <1>2 DEF AArch64!RuntimeOnly, AArch64!Table, AArch64!PcRelative, AArch64!LoadStore,
                AArch64!GotAndTls
  <2>2. r.kind \notin {"ABS64", "PREL32", "ABS32"}
    BY <1>2 DEF AArch64!RuntimeOnly
  <2> QED BY <2>1, <2>2 DEF AArch64!Apply, Keeps
<1>3. CASE r.kind = "ABS64"
  <2>1. FieldOf("aarch64", r) = Room(0, 8)
    BY <1>1, <1>3 DEF AArch64!RuntimeOnly
  <2>2. rd[8] = rd2[8]
    BY <2>1 DEF Agree, Room
  <2> QED BY <1>3, <2>1, <2>2 DEF AArch64!Apply, AArch64!ABS64, AArch64!Stores, Keeps, Room
<1>4. CASE r.kind \notin AArch64!RuntimeOnly /\ r.kind # "ABS64"
  <2>1. FieldOf("aarch64", r) = Room(0, 4)
    BY <1>1, <1>4
  <2>2. rd[4] = rd2[4]
    BY <2>1 DEF Agree, Room
  <2>3. AArch64!Apply(r, rd) = AArch64!Apply(r, rd2)
    BY <1>4, <2>2 DEF AArch64!Apply, AArch64!PREL32, AArch64!ABS32
  <2>4. \A s \in AArch64!Apply(r, rd).stores : s.at = 0 /\ s.n = 4
    <3>1. \A n, w : \A s \in AArch64!Stores(n, w).stores : s.at = 0 /\ s.n = n
      BY DEF AArch64!Stores
    <3>2. CASE r.kind = "PREL32"
      BY <1>4, <3>1, <3>2, Zenon DEF AArch64!Apply, AArch64!PREL32
    <3>3. CASE r.kind = "ABS32"
      BY <3>1, <3>3 DEF AArch64!Apply, AArch64!ABS32
    <3>4. CASE r.kind \notin {"PREL32", "ABS32"}
      BY <1>4, <3>4 DEF AArch64!Apply
    <3> QED BY <3>2, <3>3, <3>4
  <2> QED BY <2>1, <2>3, <2>4, OneField
<1> QED BY <1>2, <1>3, <1>4

LEMMA ArmKeeps == IsKept("arm")
<1> SUFFICES ASSUME NEW r, NEW rd, NEW rd2, Agree(FieldOf("arm", r), rd, rd2)
             PROVE  /\ ARM!Apply(r, rd) = ARM!Apply(r, rd2)
                    /\ Keeps(FieldOf("arm", r), ARM!Apply(r, rd))
  <2>1. \A q, w : Handler("arm", q, w) = ARM!Apply(q, w)
    BY Zenon DEF Handler
  <2> QED BY <2>1 DEF IsKept
<1>1. FieldOf("arm", r) = Room(0, IF r.kind \in {"NONE", "IRELATIVE"} THEN 0
                                 ELSE IF r.kind = "THM_JUMP11" THEN 2 ELSE 4)
  BY Zenon DEF FieldOf
<1>2. \A k \in DOMAIN ARM!Rows : k \notin {"NONE", "IRELATIVE", "THM_JUMP11", "TARGET1"}
  BY DEF ARM!Rows, ARM!Data, ARM!Instructions
<1>6. \A n, w : \A s \in ARM!Stores(n, w).stores : s.at = 0 /\ s.n = n
  BY DEF ARM!Stores
<1>3. CASE r.kind \in {"NONE", "IRELATIVE"}
  <2>1. \A w : ARM!Apply(r, w) = [ok |-> TRUE, stores |-> {}]
    BY <1>2, <1>3 DEF ARM!Apply
  <2>2. ARM!Apply(r, rd).stores = {}
    BY <2>1
  <2> QED BY <2>1, <2>2 DEF Keeps
<1>4. CASE r.kind = "THM_JUMP11"
  <2>1. FieldOf("arm", r) = Room(0, 2)
    BY <1>1, <1>4
  <2>2. rd[2] = rd2[2]
    BY <2>1 DEF Agree, Room
  <2>3. ARM!Addend(r.kind, rd) = ARM!Addend(r.kind, rd2)
    BY <1>4, <2>2 DEF ARM!Addend
  <2>4. ARM!Apply(r, rd) = ARM!Apply(r, rd2)
    BY <1>2, <1>4, <2>2, <2>3 DEF ARM!Apply
  <2>5. \A s \in ARM!Apply(r, rd).stores : s.at = 0 /\ s.n = 2
    BY <1>2, <1>4, <1>6, Zenon DEF ARM!Apply
  <2> QED BY <2>1, <2>4, <2>5, OneField
<1>5. CASE r.kind \notin {"NONE", "IRELATIVE", "THM_JUMP11"}
  <2>1. FieldOf("arm", r) = Room(0, 4)
    BY <1>1, <1>5
  <2>2. rd[4] = rd2[4]
    BY <2>1 DEF Agree, Room
  <2>3. ARM!Addend(r.kind, rd) = ARM!Addend(r.kind, rd2)
    BY <1>5, <2>2 DEF ARM!Addend
  <2> DEFINE q == IF r.kind # "TARGET1" THEN r
                  ELSE [r EXCEPT !.kind = IF r.target1Rel THEN "REL32" ELSE "ABS32"]
  <2>4. q.kind # "THM_JUMP11"
    BY <1>5
  <2>5. ARM!Apply(r, rd) = ARM!Apply(r, rd2)
    <3> HIDE DEF q
    <3> QED BY <2>2, <2>3, <2>4 DEF ARM!Apply, q
  <2>6. \A s \in ARM!Apply(r, rd).stores : s.at = 0 /\ s.n = 4
    <3> HIDE DEF q
    <3> DEFINE A == ARM!Apply(r, rd)
    <3>1. \/ \E w : A = ARM!Stores(4, w)
          \/ A.stores = {}
      BY <2>4, Zenon DEF ARM!Apply, q
    <3> HIDE DEF A
    <3>2. \A s \in A.stores : s.at = 0 /\ s.n = 4
      BY <3>1, <1>6
    <3> QED BY <3>2 DEF A
  <2> QED BY <2>1, <2>5, <2>6, OneField
<1> QED BY <1>3, <1>4, <1>5

LEMMA HexagonKeeps == IsKept("hexagon")
<1> SUFFICES ASSUME NEW r, NEW rd, NEW rd2, Agree(FieldOf("hexagon", r), rd, rd2)
             PROVE  /\ Hexagon!Apply(r, rd) = Hexagon!Apply(r, rd2)
                    /\ Keeps(FieldOf("hexagon", r), Hexagon!Apply(r, rd))
  <2>1. \A q, w : Handler("hexagon", q, w) = Hexagon!Apply(q, w)
    BY Zenon DEF Handler
  <2> QED BY <2>1 DEF IsKept
<1>1. FieldOf("hexagon", r) = Room(0, IF r.kind \in {"JMP_SLOT", "GLOB_DAT"} THEN 0 ELSE 4)
  BY Zenon DEF FieldOf
<1>2. CASE r.kind \in {"JMP_SLOT", "GLOB_DAT"}
  <2>1. Hexagon!Table(r.kind) = {}
    BY <1>2 DEF Hexagon!Table, Hexagon!Branches, Hexagon!Extended, Hexagon!Absolute,
                Hexagon!GpRelative, Hexagon!Got, Hexagon!GotRelative
  <2> QED BY <2>1 DEF Hexagon!Apply, Keeps
<1>3. CASE r.kind \notin {"JMP_SLOT", "GLOB_DAT"}
  <2>1. FieldOf("hexagon", r) = Room(0, 4)
    BY <1>1, <1>3
  <2>2. rd[4] = rd2[4]
    BY <2>1 DEF Agree, Room
  <2>3. Hexagon!Apply(r, rd) = Hexagon!Apply(r, rd2)
    BY <2>2 DEF Hexagon!Apply
  <2>4. \A s \in Hexagon!Apply(r, rd).stores : s.at = 0 /\ s.n = 4
    BY DEF Hexagon!Apply
  <2> QED BY <2>1, <2>3, <2>4, OneField
<1> QED BY <1>2, <1>3

LEMMA MipsKeeps == IsKept("mips")
<1> SUFFICES ASSUME NEW r, NEW rd, NEW rd2, Agree(FieldOf("mips", r), rd, rd2)
             PROVE  /\ Mips!Apply(r, rd) = Mips!Apply(r, rd2)
                    /\ Keeps(FieldOf("mips", r), Mips!Apply(r, rd))
  <2>1. \A q, w : Handler("mips", q, w) = Mips!Apply(q, w)
    BY Zenon DEF Handler
  <2> QED BY <2>1 DEF IsKept
<1> DEFINE n == Mips!Size(Mips!Written(r))
<1>1. FieldOf("mips", r) = Room(0, n)
  <2>1. FieldOf("mips", r) = Room(0, IF Mips!Written(r) \in Mips!Wide THEN 8 ELSE 4)
    BY Zenon DEF FieldOf
  <2> QED BY <2>1 DEF Mips!Size
<1>2. n \in {4, 8}
  BY DEF Mips!Size
<1> HIDE DEF n
<1>3. rd[n] = rd2[n]
  BY <1>1, <1>2 DEF Agree, Room
<1>4. Mips!Apply(r, rd) = Mips!Apply(r, rd2)
  BY <1>3 DEF Mips!Apply, n
<1>5. \A s \in Mips!Apply(r, rd).stores : s.at = 0 /\ s.n = n
  <2>1. \A words : \A s \in Mips!Stores(n, words) : s.at = 0 /\ s.n = n
    BY DEF Mips!Stores
  <2> QED BY <2>1, Zenon DEF Mips!Apply, n
<1> QED BY <1>1, <1>2, <1>4, <1>5, OneField

LEMMA EveryTargetKeeps == \A arch \in Targets : IsKept(arch)
BY Or1kKeeps, Or1kLeKeeps, X86Keeps, X86_64Keeps, AArch64Keeps, ArmKeeps, HexagonKeeps,
   MipsKeeps DEF Targets

-----------------------------------------------------------------------------
Buffers == SUBSET Nat

(* A word read inside an atom depends on the bytes of the atom only.       *)
ReadsInside(arch, atom, buf) ==
    \A at, n \in Nat : at + n <= atom.size =>
      Read(arch, buf, atom.off + at, n) = Read(arch, buf \cap Bytes(atom), atom.off + at, n)

LEMMA ReadInAtom ==
  ASSUME NEW arch, NEW atom, atom.off \in Nat, atom.size \in Nat, NEW buf \in Buffers
  PROVE  ReadsInside(arch, atom, buf)
<1> SUFFICES ASSUME NEW at \in Nat, NEW n \in Nat, at + n <= atom.size
             PROVE  Read(arch, buf, atom.off + at, n)
                      = Read(arch, buf \cap Bytes(atom), atom.off + at, n)
  BY DEF ReadsInside
<1> DEFINE lo == 8 * (atom.off + at)
<1>1. \A j \in Nat : j >= lo /\ j - lo \in Low(8 * n) => j \in Bytes(atom)
  BY DEF Low, Bytes, Span
<1>2. lo \in Nat /\ \A j \in buf : j \in Nat
  BY DEF Buffers
<1> HIDE DEF lo
<1>3. Field(buf, lo, 8 * n) = Field(buf \cap Bytes(atom), lo, 8 * n)
  BY <1>1, <1>2 DEF Field, Shr
<1> QED BY <1>3 DEF Read, lo

(* A store sets only bits that it covers.                                  *)
LEMMA PutInPlace ==
  ASSUME NEW arch, NEW atom, NEW ref, NEW s,
         atom.off + ref.at + s.at \in Nat, s.n \in Nat
  PROVE  Put(arch, atom, ref, s) \subseteq Place(atom, ref, s)
<1> DEFINE off == atom.off + ref.at + s.at
           w == s.word \cap Low(8 * s.n)
<1>1. w \subseteq 0..(8 * s.n - 1)
  BY DEF Low
<1> HIDE DEF w
<1>2. Swap(arch, s.n, w) \subseteq 0..(8 * s.n - 1)
  <2>1. ASSUME NEW i \in 0..(8 * s.n - 1)
        PROVE  8 * (s.n - 1 - (i \div 8)) + (i % 8) \in 0..(8 * s.n - 1)
    <3>1. i \in Nat /\ i % 8 \in 0..7 /\ i \div 8 \in Nat /\ i = 8 * (i \div 8) + (i % 8)
      OBVIOUS
    <3>2. i \div 8 <= s.n - 1
      BY <3>1
    <3> QED BY <3>1, <3>2
  <2> QED BY <1>1, <2>1 DEF Swap
<1>3. Put(arch, atom, ref, s) = {8 * off + i : i \in Swap(arch, s.n, w)}
  BY DEF Put, Write, w
<1>4. Place(atom, ref, s) = (8 * off) .. (8 * off + 8 * s.n - 1)
  BY DEF Place, Span
<1>5. off \in Nat
  OBVIOUS
<1> HIDE DEF off
<1> QED BY <1>2, <1>3, <1>4, <1>5

(* What a relocation of an atom does is local: it looks at the bytes of the*)
(* atom only, stores into them only, and sets no bit that its store does   *)
(* not cover.                                                              *)
IsLocal(arch, atom, ref, buf) ==
    /\ Answer(arch, atom, ref, buf) = Answer(arch, atom, ref, buf \cap Bytes(atom))
    /\ \A s \in Answer(arch, atom, ref, buf).stores :
          Put(arch, atom, ref, s) \subseteq Place(atom, ref, s)
          /\ Place(atom, ref, s) \subseteq Bytes(atom)

(* The handlers of all targets are local where the layout leaves the room  *)
(* of the field inside the atom.  (applyRelocation, eight times)           *)
LEMMA RelocationsAreLocal ==
  ASSUME NEW arch \in Targets, NEW atom, atom.off \in Nat, atom.size \in Nat,
         NEW ref, FieldFits(arch, atom, ref), NEW buf \in Buffers
  PROVE  IsLocal(arch, atom, ref, buf)
<1>0. ReadsInside(arch, atom, buf)
  BY ReadInAtom
<1> DEFINE r == Seen(atom, ref)
           f == FieldOf(arch, r)
           here == atom.off + ref.at
           rd == Words8(arch, buf, here)
           rd2 == Words8(arch, buf \cap Bytes(atom), here)
<1>1. /\ ref.at \in Nat /\ f.from \in Int /\ f.n \in Nat
      /\ 0 <= ref.at + f.from /\ ref.at + f.from + f.n <= atom.size
  BY DEF FieldFits
<1> HIDE DEF f
<1>2. Agree(f, rd, rd2)
  <2>1. ASSUME NEW n \in {1, 2, 4, 8}, n <= f.from + f.n
        PROVE  rd[n] = rd2[n]
    <3>1. n \in Nat /\ ref.at + n <= atom.size
      BY <1>1, <2>1
    <3>2. Read(arch, buf, here, n) = Read(arch, buf \cap Bytes(atom), here, n)
      BY <1>0, <1>1, <3>1 DEF ReadsInside
    <3> QED BY <3>2 DEF Words8
  <2> QED BY <2>1 DEF Agree
<1>3. /\ Handler(arch, r, rd) = Handler(arch, r, rd2)
      /\ Keeps(f, Handler(arch, r, rd))
  BY <1>2, EveryTargetKeeps DEF IsKept, f
<1>4. /\ Answer(arch, atom, ref, buf) = Handler(arch, r, rd)
      /\ Answer(arch, atom, ref, buf \cap Bytes(atom)) = Handler(arch, r, rd2)
  BY DEF Answer
<1> HIDE DEF r, rd, rd2
<1>5. ASSUME NEW s \in Answer(arch, atom, ref, buf).stores
      PROVE  /\ Put(arch, atom, ref, s) \subseteq Place(atom, ref, s)
             /\ Place(atom, ref, s) \subseteq Bytes(atom)
  <2>1. s.at \in Int /\ s.n \in Nat /\ f.from <= s.at /\ s.at + s.n <= f.from + f.n
    BY <1>3, <1>4 DEF Keeps
  <2>2. /\ 0 <= ref.at + s.at /\ ref.at + s.at + s.n <= atom.size
        /\ atom.off + ref.at + s.at \in Nat
    BY <1>1, <2>1
  <2>3. Place(atom, ref, s) \subseteq Bytes(atom)
    BY <1>1, <2>1, <2>2 DEF Place, Bytes, Span
  <2> QED BY <2>1, <2>2, <2>3, PutInPlace
<1> QED BY <1>3, <1>4, <1>5 DEF IsLocal

(* The half word of little endian OR1K is not: its store has four bytes,   *)
(* of which the upper two are zero.  At the end of an atom it clears the   *)
(* first two bytes of what follows, whatever another task put there, and   *)
(* succeeds.  (write<uint16_t, little>)                                    *)
LEMMA HalfIsWrittenAsAWord ==
  ASSUME NEW r, NEW rd, r.kind \in {"W16", "W16_PCREL"}
  PROVE  /\ OR1KLE!Apply(r, rd).ok
         /\ \E w : w \subseteq Low(16)
                  /\ OR1KLE!Apply(r, rd).stores = {[at |-> 0, n |-> 4, word |-> w]}
<1> DEFINE row == OR1KLE!Rows[r.kind]
<1>1. /\ r.kind \in DOMAIN OR1KLE!Rows /\ r.kind \notin OR1KLE!LoadTime
      /\ row.out = 2 /\ row.width = 16 /\ row.keep = FALSE
  BY DEF OR1KLE!Rows, OR1KLE!Row, OR1KLE!LoadTime
<1> HIDE DEF row
<1>2. OR1KLE!Stored(row.out) = 4
  BY <1>1 DEF OR1KLE!Stored
<1>3. \A a, lo : OR1KLE!Field(a, lo, 16) \subseteq Low(16)
  BY DEF OR1KLE!Field, OR1KLE!Low, Low
<1>4. PICK low : /\ low \subseteq Low(16)
                 /\ OR1KLE!Reloc(row, r, rd) = [at |-> 0, n |-> 4, word |-> {} \cup low]
  BY <1>1, <1>2, <1>3, Zenon DEF OR1KLE!Reloc
<1>5. OR1KLE!Apply(r, rd) = [ok |-> TRUE, stores |-> {OR1KLE!Reloc(row, r, rd)}]
  BY <1>1 DEF OR1KLE!Apply, row
<1> QED BY <1>4, <1>5

THEOREM LittleHalfOverruns ==
  ASSUME NEW atom, atom.off \in Nat, atom.size \in Nat, NEW ref, ref.at \in Nat,
         ref.kind \in {"W16", "W16_PCREL"}, ref.at + 2 = atom.size,
         "kind" \in DOMAIN ref,
         NEW buf \in Buffers
  PROVE  /\ Answer("or1kle", atom, ref, buf).ok
         /\ Stored("or1kle", atom, ref, buf) \cap Span(8 * (atom.off + atom.size), 16) = {}
<1> DEFINE r == Seen(atom, ref)
           rd == Words8("or1kle", buf, atom.off + ref.at)
           here == 8 * (atom.off + ref.at)
           behind == Span(8 * (atom.off + atom.size), 16)
<1>1. r.kind \in {"W16", "W16_PCREL"}
  BY DEF Seen
<1>2. Answer("or1kle", atom, ref, buf) = OR1KLE!Apply(r, rd)
  <2>1. \A q, w : Handler("or1kle", q, w) = OR1KLE!Apply(q, w)
    BY Zenon DEF Handler
  <2> QED BY <2>1 DEF Answer
<1> HIDE DEF r, rd
<1>3. PICK w : /\ w \subseteq Low(16)
               /\ OR1KLE!Apply(r, rd).stores = {[at |-> 0, n |-> 4, word |-> w]}
  BY <1>1, HalfIsWrittenAsAWord
<1> DEFINE s == [at |-> 0, n |-> 4, word |-> w]
<1>4. Stored("or1kle", atom, ref, buf)
        = (buf \ Place(atom, ref, s)) \cup Put("or1kle", atom, ref, s)
  BY <1>2, <1>3 DEF Stored
<1>5. behind \subseteq Place(atom, ref, s)
  BY DEF Place, Span
<1>6. Put("or1kle", atom, ref, s) \cap behind = {}
  <2>1. Put("or1kle", atom, ref, s) = {here + i : i \in w \cap Low(32)}
    BY DEF Put, Write, Swap, BigEndian
  <2>2. \A i \in w : i \in 0..15
    <3>1. w \subseteq Low(16)
      BY <1>3
    <3> QED BY <3>1 DEF Low
  <2> QED BY <2>1, <2>2 DEF Span
<1>7. OR1KLE!Apply(r, rd).ok
  BY <1>1, HalfIsWrittenAsAWord
<1> QED BY <1>2, <1>4, <1>5, <1>6, <1>7

-----------------------------------------------------------------------------
(* AloneAfter is the function its recursive definition says: it exists.    *)
LEMMA AloneAfterDefined ==
  ASSUME NEW arch, NEW atom, Len(atom.refs) \in Nat,
         Copied(atom, {}) \in Buffers,
         \A k \in 1..Len(atom.refs) : \A buf \in Buffers :
           Stored(arch, atom, atom.refs[k], buf) \in Buffers
  PROVE  /\ AloneAfter(arch, atom) \in [0..Len(atom.refs) -> Buffers]
         /\ AloneAfter(arch, atom)[0] = Copied(atom, {})
         /\ \A k \in 1..Len(atom.refs) :
              AloneAfter(arch, atom)[k] =
                Stored(arch, atom, atom.refs[k], AloneAfter(arch, atom)[k - 1])
<1> DEFINE n == Len(atom.refs)
           first == Copied(atom, {})
           After(k, buf) == Stored(arch, atom, atom.refs[k], buf)
           step == [k \in 1..n |-> [buf \in Buffers |-> After(k, buf)]]
           Is(f) == f = [k \in 0..n |-> IF k = 0 THEN first ELSE After(k, f[k - 1])]
<1> HIDE DEF first, After
<1>0. n \in Nat /\ first \in Buffers /\ \A k \in 1..n : \A buf \in Buffers : After(k, buf) \in Buffers
  BY DEF first, After
<1> HIDE DEF n
<1>1. PICK f : IsIteration(f, Buffers, first, n, step)
  <2>1. StepsWithin(Buffers, n, step)
    BY <1>0 DEF StepsWithin
  <2> HIDE DEF step
  <2> QED BY <1>0, <2>1, Iterates
<1>2. \A k \in 1..n : f[k] = After(k, f[k - 1])
  <2> TAKE k \in 1..n
  <2>1. f[k - 1] \in Buffers
    BY <1>0, <1>1 DEF IsIteration
  <2> QED BY <1>1, <2>1 DEF IsIteration
<1>3. Is(f)
  <2>1. \A k \in 0..n : f[k] = IF k = 0 THEN first ELSE After(k, f[k - 1])
    BY <1>0, <1>1, <1>2 DEF IsIteration
  <2>2. f = [k \in 0..n |-> f[k]]
    BY <1>1 DEF IsIteration
  <2> QED BY <2>1, <2>2
<1>4. AloneAfter(arch, atom) = CHOOSE g : Is(g)
  BY DEF AloneAfter, n, first, After
<1>5. Is(AloneAfter(arch, atom))
  BY <1>3, <1>4
<1> DEFINE g == AloneAfter(arch, atom)
<1> HIDE DEF g
<1>6. g = [k \in 0..n |-> IF k = 0 THEN first ELSE After(k, g[k - 1])]
  BY <1>5 DEF g
<1>7. g[0] = first /\ \A k \in 1..n : g[k] = After(k, g[k - 1])
  BY <1>0, <1>6
<1>8. \A k \in Nat : k <= n => g[k] \in Buffers
  <2> DEFINE S == {k \in Nat : k <= n => g[k] \in Buffers}
  <2>1. 0 \in S
    BY <1>0, <1>7
  <2>2. ASSUME NEW k \in S PROVE k + 1 \in S
    <3> SUFFICES ASSUME k + 1 <= n PROVE g[k + 1] \in Buffers
      OBVIOUS
    <3>1. g[k] \in Buffers /\ k + 1 \in 1..n /\ (k + 1) - 1 = k
      BY <1>0
    <3> QED BY <1>0, <1>7, <3>1
  <2>3. S \in SUBSET Nat
    OBVIOUS
  <2>4. S = Nat
    <3> HIDE DEF S
    <3> QED BY <2>1, <2>2, <2>3, SetInduction
  <2> QED BY <2>4
<1>9. g \in [0..n -> Buffers]
  BY <1>0, <1>6, <1>8
<1> QED BY <1>7, <1>9 DEF g, n, first, After

-----------------------------------------------------------------------------
(* The atoms of a file the linker may have to write.                       *)
LEMMA AtomsOfOutputs ==
  ASSUME output \in Outputs, NEW a \in Atoms
  PROVE  /\ Bytes(Atom(a)) \in Buffers
         /\ Atom(a).off \in Nat /\ Atom(a).size \in Nat
         /\ Atom(a).content \subseteq 0..(8 * Atom(a).size - 1)
         /\ Len(Atom(a).refs) \in Nat
         /\ DOMAIN Atom(a).refs = 1..Len(Atom(a).refs)
         /\ Done(a) \in Nat \ {0}
<1>1. /\ Atom(a).off \in Nat /\ Atom(a).size \in Nat
      /\ Atom(a).content \subseteq 0..(8 * Atom(a).size - 1)
      /\ Len(Atom(a).refs) \in Nat
      /\ DOMAIN Atom(a).refs = 1..Len(Atom(a).refs)
  BY OutputsAssumption DEF WellLaidOut, Atoms, Atom
<1>2. Bytes(Atom(a)) \in Buffers
  BY <1>1 DEF Bytes, Span, Buffers
<1>3. Done(a) \in Nat \ {0}
  BY <1>1 DEF Done
<1> QED BY <1>1, <1>2, <1>3

LEMMA OutputsAreLocal ==
  ASSUME output \in Outputs, NEW a \in Written, NEW k \in 1..Len(Atom(a).refs),
         NEW buf \in Buffers
  PROVE  IsLocal(output.arch, Atom(a), Atom(a).refs[k], buf)
<1>1. a \in Atoms /\ Writes(Atom(a))
  BY DEF Written
<1>2. /\ output.arch \in Targets
      /\ Atom(a).off \in Nat /\ Atom(a).size \in Nat
      /\ FieldFits(output.arch, Atom(a), Atom(a).refs[k])
  BY <1>1, OutputsAssumption DEF WellLaidOut, Atoms, Atom
<1> QED BY <1>2, RelocationsAreLocal

LEMMA AtomsAreApart ==
  ASSUME output \in Outputs, NEW a \in Written, NEW b \in Written, a # b
  PROVE  Bytes(Atom(a)) \cap Bytes(Atom(b)) = {}
BY OutputsAssumption DEF WellLaidOut, Written, Atoms, Atom

(* Copying an atom sets its bytes and no others.                           *)
LEMMA CopiedIsLocal ==
  ASSUME output \in Outputs, NEW a \in Atoms, NEW buf \in Buffers
  PROVE  /\ Copied(Atom(a), buf) \in Buffers
         /\ Copied(Atom(a), buf) \cap Bytes(Atom(a)) = Copied(Atom(a), {})
         /\ Copied(Atom(a), {}) \subseteq Bytes(Atom(a))
         /\ Copied(Atom(a), buf) \ Bytes(Atom(a)) = buf \ Bytes(Atom(a))
<1> DEFINE put == {8 * Atom(a).off + i : i \in Atom(a).content}
<1>1. put \subseteq Bytes(Atom(a))
  BY AtomsOfOutputs DEF Bytes, Span
<1>2. Copied(Atom(a), buf) = (buf \ Bytes(Atom(a))) \cup put
  BY DEF Copied
<1>3. Copied(Atom(a), {}) = put
  BY DEF Copied
<1>4. Bytes(Atom(a)) \subseteq Nat
  BY AtomsOfOutputs DEF Buffers
<1> HIDE DEF put
<1> QED BY <1>1, <1>2, <1>3, <1>4 DEF Buffers

(* A relocation whose handler is local does to the bytes of the atom what  *)
(* it would do if there were nothing else, and nothing to other bytes.     *)
LEMMA StoredIsLocal ==
  ASSUME NEW arch, NEW atom, NEW ref, NEW buf \in Buffers, Bytes(atom) \in Buffers,
         IsLocal(arch, atom, ref, buf)
  PROVE  /\ Stored(arch, atom, ref, buf) \in Buffers
         /\ Stored(arch, atom, ref, buf) \cap Bytes(atom)
              = Stored(arch, atom, ref, buf \cap Bytes(atom))
         /\ Stored(arch, atom, ref, buf) \ Bytes(atom) = buf \ Bytes(atom)
<1> DEFINE stores == Answer(arch, atom, ref, buf).stores
           P == UNION {Place(atom, ref, s) : s \in stores}
           Q == UNION {Put(arch, atom, ref, s) : s \in stores}
<1>1. P \subseteq Bytes(atom)
  BY DEF IsLocal
<1>2. Q \subseteq Bytes(atom)
  BY DEF IsLocal
<1>3. Stored(arch, atom, ref, buf) = (buf \ P) \cup Q
  BY DEF Stored
<1>4. Stored(arch, atom, ref, buf \cap Bytes(atom)) = ((buf \cap Bytes(atom)) \ P) \cup Q
  BY DEF Stored, IsLocal
<1>5. Bytes(atom) \subseteq Nat /\ buf \subseteq Nat
  BY DEF Buffers
<1> HIDE DEF P, Q
<1> QED BY <1>1, <1>2, <1>3, <1>4, <1>5 DEF Buffers

(* What an atom alone leaves after each of its references.                 *)
LEMMA AloneStaysInside ==
  ASSUME output \in Outputs, NEW a \in Written
  PROVE  LET after == AloneAfter(output.arch, Atom(a))
             refs == Atom(a).refs
         IN  /\ after[0] = Copied(Atom(a), {})
             /\ \A k \in 1..Len(refs) :
                  after[k] = Stored(output.arch, Atom(a), refs[k], after[k - 1])
             /\ \A k \in 0..Len(refs) : after[k] \in Buffers
<1> DEFINE after == AloneAfter(output.arch, Atom(a))
           refs == Atom(a).refs
<1>1. a \in Atoms /\ Writes(Atom(a))
  BY DEF Written
<1>2. Len(refs) \in Nat /\ DOMAIN refs = 1..Len(refs) /\ Bytes(Atom(a)) \in Buffers
  BY <1>1, AtomsOfOutputs
<1>3. Copied(Atom(a), {}) \in Buffers
  BY <1>1, CopiedIsLocal DEF Buffers
<1>4. ASSUME NEW k \in 1..Len(refs), NEW buf \in Buffers
      PROVE  Stored(output.arch, Atom(a), refs[k], buf) \in Buffers
  <2>1. IsLocal(output.arch, Atom(a), refs[k], buf)
    BY OutputsAreLocal
  <2> QED BY <1>2, <2>1, StoredIsLocal
<1>5. /\ after \in [0..Len(refs) -> Buffers]
      /\ after[0] = Copied(Atom(a), {})
      /\ \A k \in 1..Len(refs) :
           after[k] = Stored(output.arch, Atom(a), refs[k], after[k - 1])
  BY <1>2, <1>3, <1>4, AloneAfterDefined
<1> HIDE DEF after
<1>6. \A k \in 0..Len(refs) : after[k] \in Buffers
  BY <1>5
<1> QED BY <1>5, <1>6 DEF after
-----------------------------------------------------------------------------
(* The bytes of an atom are those of the atom written alone up to the      *)
(* reference that comes next, whatever the other tasks have done; a        *)
(* section of which a reference was refused has failed.                    *)
TypeInv ==
    /\ output \in Outputs
    /\ file \in Buffers
    /\ pc \in [Atoms -> Nat]
    /\ \A a \in Atoms : pc[a] <= Done(a)
    /\ \A a \in Atoms \ Written : pc[a] \in {0, Done(a)}

ContentInv ==
    /\ \A a \in Written : pc[a] > 0 =>
          file \cap Bytes(Atom(a)) = AloneAfter(output.arch, Atom(a))[pc[a] - 1]
    /\ file \subseteq UNION {Bytes(Atom(a)) : a \in Written}

Accepted(a, k) ==
    Answer(output.arch, Atom(a), Atom(a).refs[k],
           AloneAfter(output.arch, Atom(a))[k - 1]).ok
RefusedInv ==
    \A a \in Written : \A k \in 1..(pc[a] - 1) : Accepted(a, k) \/ Atom(a).section \in failed

CommitInv == phase = "committed" => failed = {} /\ \A a \in Atoms : pc[a] = Done(a)

Inv == TypeInv /\ ContentInv /\ RefusedInv /\ CommitInv

(* A step of the task of an atom leaves the other atoms as they are and    *)
(* changes its own bytes as if it were alone.                              *)
LEMMA CopyStep ==
  ASSUME TypeInv, NEW a \in Written, Copy(a)
  PROVE  /\ file' \in Buffers
         /\ file' \cap Bytes(Atom(a)) = Copied(Atom(a), {})
         /\ file' \ Bytes(Atom(a)) = file \ Bytes(Atom(a))
         /\ pc' = [pc EXCEPT ![a] = 1]
<1>1. a \in Atoms /\ Writes(Atom(a))
  BY DEF Written
<1>2. file' = Copied(Atom(a), file) /\ pc' = [pc EXCEPT ![a] = 1]
  BY <1>1 DEF Copy
<1> QED BY <1>1, <1>2, CopiedIsLocal DEF TypeInv

LEMMA ApplyStep ==
  ASSUME Inv, NEW a \in Written, Apply(a)
  PROVE  LET k == pc[a]
             before == AloneAfter(output.arch, Atom(a))[k - 1]
         IN  /\ file' \in Buffers
             /\ k \in 1..Len(Atom(a).refs)
             /\ file' \cap Bytes(Atom(a)) = AloneAfter(output.arch, Atom(a))[k]
             /\ file' \ Bytes(Atom(a)) = file \ Bytes(Atom(a))
             /\ Accepted(a, k) \/ Atom(a).section \in failed'
<1> DEFINE k == pc[a]
           ref == Atom(a).refs[k]
           before == AloneAfter(output.arch, Atom(a))[k - 1]
<1>1. a \in Atoms /\ Writes(Atom(a)) /\ output \in Outputs /\ file \in Buffers
  BY DEF Written, Inv, TypeInv
<1>2. /\ k \in 1..Len(Atom(a).refs)
      /\ file' = Stored(output.arch, Atom(a), ref, file)
      /\ failed' = IF Answer(output.arch, Atom(a), ref, file).ok THEN failed
                   ELSE failed \cup {Atom(a).section}
  BY DEF Apply
<1>3. Bytes(Atom(a)) \in Buffers /\ DOMAIN Atom(a).refs = 1..Len(Atom(a).refs)
  BY <1>1, AtomsOfOutputs
<1>4. IsLocal(output.arch, Atom(a), ref, file)
  BY <1>1, <1>2, OutputsAreLocal
<1>5. file \cap Bytes(Atom(a)) = before
  <2>1. k > 0
    BY <1>2, <1>1, AtomsOfOutputs
  <2> QED BY <2>1 DEF Inv, ContentInv
<1>6. AloneAfter(output.arch, Atom(a))[k] = Stored(output.arch, Atom(a), ref, before)
  BY <1>1, <1>2, AloneStaysInside
<1>7. Answer(output.arch, Atom(a), ref, file) = Answer(output.arch, Atom(a), ref, before)
  BY <1>4, <1>5 DEF IsLocal
<1>8. Accepted(a, k) \/ Atom(a).section \in failed'
  BY <1>2, <1>7 DEF Accepted
<1>9. /\ file' \in Buffers
      /\ file' \cap Bytes(Atom(a)) = AloneAfter(output.arch, Atom(a))[k]
      /\ file' \ Bytes(Atom(a)) = file \ Bytes(Atom(a))
  BY <1>1, <1>2, <1>3, <1>4, <1>5, <1>6, StoredIsLocal
<1> QED BY <1>2, <1>8, <1>9

LEMMA NotWritten ==
  ASSUME TypeInv, NEW a \in Atoms \ Written, Copy(a) \/ Apply(a)
  PROVE  file' = file /\ failed' = failed /\ pc' = [pc EXCEPT ![a] = Done(a)]
<1>1. ~Writes(Atom(a)) /\ pc[a] \in {0, Done(a)}
  BY DEF Written, TypeInv
<1>2. ~Apply(a)
  BY <1>1, AtomsOfOutputs DEF Apply, Done, TypeInv
<1> QED BY <1>1, <1>2 DEF Copy

LEMMA OthersUntouched ==
  ASSUME Inv, NEW a \in Atoms, Copy(a) \/ Apply(a),
         NEW b \in Written, a # b
  PROVE  file' \cap Bytes(Atom(b)) = file \cap Bytes(Atom(b))
<1>1. CASE a \in Written
  <2>1. file' \ Bytes(Atom(a)) = file \ Bytes(Atom(a))
    BY <1>1, CopyStep, ApplyStep DEF Inv
  <2>2. Bytes(Atom(a)) \cap Bytes(Atom(b)) = {}
    BY <1>1, AtomsAreApart DEF Inv, TypeInv
  <2> QED BY <2>1, <2>2
<1>2. CASE a \notin Written
  BY <1>2, NotWritten DEF Inv
<1> QED BY <1>1, <1>2

LEMMA TaskStep ==
  ASSUME Inv, NEW a \in Atoms, Copy(a) \/ Apply(a)
  PROVE  Inv'
<1>1. phase = "write" /\ UNCHANGED <<output, phase>>
  BY DEF Copy, Apply
<1>2. /\ Atoms' = Atoms /\ Written' = Written /\ output' = output
      /\ \A b \in Atoms : Atom(b)' = Atom(b) /\ Done(b)' = Done(b)
  BY <1>1 DEF Atoms, Written, Atom, Done
<1>3. TypeInv
  BY DEF Inv
<1>4. PICK n \in 1..Done(a) : /\ pc' = [pc EXCEPT ![a] = n]
                              /\ a \notin Written => n = Done(a)
  <2>1. CASE a \notin Written
    BY <2>1, <1>3, NotWritten, AtomsOfOutputs DEF TypeInv
  <2>2. CASE a \in Written /\ Copy(a)
    BY <2>2, <1>3, CopyStep, AtomsOfOutputs DEF TypeInv
  <2>3. CASE a \in Written /\ Apply(a)
    <3>1. Len(Atom(a).refs) \in Nat /\ pc[a] \in 1..Len(Atom(a).refs)
      BY <2>3, <1>3, AtomsOfOutputs DEF TypeInv, Apply
    <3>2. pc[a] + 1 \in 1..Done(a) /\ pc' = [pc EXCEPT ![a] = pc[a] + 1]
      BY <2>3, <3>1 DEF Apply, Done
    <3> QED BY <2>3, <3>2
  <2> QED BY <2>1, <2>2, <2>3
<1>5. /\ pc' \in [Atoms -> Nat] /\ pc'[a] = n /\ n <= Done(a)
      /\ \A b \in Atoms \ {a} : pc'[b] = pc[b]
  <2>1. n \in Nat /\ n <= Done(a)
    BY <1>3, <1>4, AtomsOfOutputs DEF TypeInv
  <2>2. pc \in [Atoms -> Nat] /\ pc' = [pc EXCEPT ![a] = n]
    BY <1>3, <1>4 DEF TypeInv
  <2> QED BY <2>1, <2>2
<1>6. TypeInv'
  <2>1. file' \in Buffers
    BY <1>3, CopyStep, ApplyStep, NotWritten DEF TypeInv
  <2>2. ASSUME NEW b \in Atoms
        PROVE  pc'[b] <= Done(b) /\ (b \notin Written => pc'[b] \in {0, Done(b)})
    BY <1>3, <1>4, <1>5 DEF TypeInv
  <2>3. output' \in Outputs /\ pc' \in [Atoms' -> Nat]
    BY <1>2, <1>3, <1>5 DEF TypeInv
  <2> QED BY <1>2, <2>1, <2>2, <2>3 DEF TypeInv
<1>7. ContentInv'
  <2>1. ASSUME NEW b \in Written, pc'[b] > 0
        PROVE  file' \cap Bytes(Atom(b)) = AloneAfter(output.arch, Atom(b))[pc'[b] - 1]
    <3>1. CASE b # a
      <4>1. b \in Atoms /\ pc'[b] = pc[b]
        BY <3>1, <1>5 DEF Written
      <4>2. file \cap Bytes(Atom(b)) = AloneAfter(output.arch, Atom(b))[pc[b] - 1]
        BY <2>1, <4>1 DEF Inv, ContentInv
      <4> QED BY <3>1, <4>1, <4>2, OthersUntouched
    <3>2. CASE b = a /\ Copy(a)
      <4>1. pc'[b] = 1 /\ file' \cap Bytes(Atom(b)) = Copied(Atom(b), {})
        BY <3>2, <1>3, <1>5, CopyStep DEF TypeInv, Copy
      <4> QED BY <4>1, <1>3, AloneStaysInside DEF TypeInv
    <3>3. CASE b = a /\ Apply(a)
      <4>1. pc'[b] - 1 = pc[b]
        BY <3>3, <1>3 DEF Apply, TypeInv
      <4> QED BY <3>3, <4>1, ApplyStep
    <3> QED BY <3>1, <3>2, <3>3
  <2>2. file' \subseteq UNION {Bytes(Atom(b)) : b \in Written}
    <3>1. CASE a \in Written
      <4>1. file' \ Bytes(Atom(a)) = file \ Bytes(Atom(a))
        BY <3>1, <1>3, CopyStep, ApplyStep
      <4> QED BY <3>1, <4>1 DEF Inv, ContentInv
    <3>2. CASE a \notin Written
      BY <3>2, <1>3, NotWritten DEF Inv, ContentInv
    <3> QED BY <3>1, <3>2
  <2>3. \A b \in Written : Bytes(Atom(b))' = Bytes(Atom(b))
    BY <1>2 DEF Written, Bytes
  <2>4. \A b \in Written : (AloneAfter(output.arch, Atom(b))[pc[b] - 1])' =
                           AloneAfter(output.arch, Atom(b))[pc'[b] - 1]
    BY <1>2 DEF Written
  <2> QED BY <1>2, <2>1, <2>2, <2>3, <2>4 DEF ContentInv
<1>8. RefusedInv'
  <2>1. failed \subseteq failed'
    BY <1>3, NotWritten DEF Copy, Apply
  <2>2. ASSUME NEW b \in Written, NEW k \in 1..(pc'[b] - 1)
        PROVE  Accepted(b, k) \/ Atom(b).section \in failed'
    <3>1. CASE b # a
      <4>1. pc'[b] = pc[b]
        BY <3>1, <1>5 DEF Written
      <4> QED BY <4>1, <2>1 DEF Inv, RefusedInv
    <3>2. CASE b = a /\ Copy(a)
      <4>1. pc'[b] = 1
        BY <3>2, <1>3, <1>5, CopyStep DEF TypeInv, Copy
      <4> QED BY <4>1
    <3>3. CASE b = a /\ Apply(a)
      <4>1. pc'[b] - 1 = pc[b]
        BY <3>3, <1>3 DEF Apply, TypeInv
      <4>2. CASE k = pc[b]
        BY <3>3, <4>2, ApplyStep
      <4>3. CASE k # pc[b]
        <5>1. k \in 1..(pc[b] - 1)
          BY <4>1, <4>3, <1>3 DEF TypeInv, Written
        <5> QED BY <5>1, <2>1 DEF Inv, RefusedInv
      <4> QED BY <4>2, <4>3
    <3> QED BY <3>1, <3>2, <3>3
  <2>3. \A b \in Written : \A k \in 1..(pc'[b] - 1) : Accepted(b, k)' = Accepted(b, k)
    BY <1>2 DEF Written, Accepted
  <2> QED BY <1>2, <2>2, <2>3 DEF RefusedInv, Written
<1>9. CommitInv'
  BY <1>1 DEF CommitInv
<1> QED BY <1>6, <1>7, <1>8, <1>9 DEF Inv

-----------------------------------------------------------------------------
LEMMA InvInit == Init => Inv
<1> SUFFICES ASSUME Init PROVE Inv
  OBVIOUS
<1>1. TypeInv
  BY AtomsOfOutputs DEF Init, TypeInv, Buffers
<1>2. ContentInv /\ RefusedInv /\ CommitInv
  BY DEF Init, ContentInv, RefusedInv, CommitInv, Written
<1> QED BY <1>1, <1>2 DEF Inv

LEMMA InvNext ==
  ASSUME Inv, [Next]_vars
  PROVE  Inv'
<1>1. CASE \E a \in Atoms : Copy(a) \/ Apply(a)
  BY <1>1, TaskStep
<1>2. CASE UNCHANGED <<output, file, pc, failed>> /\ phase' # "committed"
  BY <1>2 DEF Inv, TypeInv, ContentInv, RefusedInv, CommitInv, Atoms, Atom, Done, Written,
              Accepted
<1>3. CASE Commit
  BY <1>3 DEF Commit, Inv, TypeInv, ContentInv, RefusedInv, CommitInv, Atoms, Atom, Done,
              Written, Accepted
<1>4. CASE UNCHANGED vars
  BY <1>4 DEF vars, Inv, TypeInv, ContentInv, RefusedInv, CommitInv, Atoms, Atom, Done,
              Written, Accepted
<1>5. CASE \E s \in Sections : ReportFatal(s)
  BY <1>2, <1>5 DEF ReportFatal
<1> QED BY <1>1, <1>3, <1>4, <1>5 DEF Next

(* For any files, any target and any interleaving of the tasks: what each  *)
(* atom holds is what its own task has written so far.                     *)
THEOREM Invariant == Spec => []Inv
BY InvInit, InvNext, PTL DEF Spec

(* The committed file is the one that a single task would have written,    *)
(* and none is committed when a relocation was refused.                    *)
THEOREM CommittedIsSequential == Spec => []CommittedAsIfAlone
<1>1. ASSUME Inv PROVE CommittedAsIfAlone
  <2> SUFFICES ASSUME phase = "committed"
               PROVE  /\ \A a \in Written :
                            /\ file \cap Bytes(Atom(a)) = Alone(output.arch, Atom(a))
                            /\ \A k \in DOMAIN Atom(a).refs : Accepted(a, k)
                      /\ file \subseteq UNION {Bytes(Atom(a)) : a \in Written}
    BY DEF CommittedAsIfAlone, AsIfAlone, NoFileAfterAnError, Accepted
  <2>1. file \subseteq UNION {Bytes(Atom(a)) : a \in Written}
    BY <1>1 DEF Inv, ContentInv
  <2>2. ASSUME NEW a \in Written
        PROVE  /\ file \cap Bytes(Atom(a)) = Alone(output.arch, Atom(a))
               /\ \A k \in DOMAIN Atom(a).refs : Accepted(a, k)
    <3>1. a \in Atoms /\ pc[a] = Done(a) /\ failed = {}
      BY <1>1 DEF Written, Inv, CommitInv
    <3>2. /\ Len(Atom(a).refs) \in Nat /\ DOMAIN Atom(a).refs = 1..Len(Atom(a).refs)
          /\ pc[a] > 0 /\ pc[a] - 1 = Len(Atom(a).refs)
      BY <1>1, <3>1, AtomsOfOutputs DEF Inv, TypeInv, Done
    <3>3. file \cap Bytes(Atom(a)) = Alone(output.arch, Atom(a))
      BY <1>1, <3>2 DEF Inv, ContentInv, Alone
    <3> QED BY <1>1, <3>1, <3>2, <3>3 DEF Inv, RefusedInv
  <2> QED BY <2>1, <2>2
<1> QED BY <1>1, Invariant, PTL

(* No task changes a byte of an atom that is another task's to write.  It  *)
(* does where a field sticks out of its atom, and little endian OR1K makes *)
(* that of a half word at the end of one (LittleHalfOverruns).             *)
(* (AtomSection::write)                                                    *)
THEOREM TasksStayInTheirAtoms == Spec => OwnBytesOnly
<1>1. ASSUME Inv, [Next]_vars
      PROVE  [\A a \in Atoms : pc'[a] # pc[a] =>
                \A b \in Written \ {a} :
                  file \cap Bytes(Atom(b)) = file' \cap Bytes(Atom(b))]_vars
  <2> SUFFICES ASSUME NEW a \in Atoms, pc'[a] # pc[a], NEW b \in Written \ {a}
               PROVE  file \cap Bytes(Atom(b)) = file' \cap Bytes(Atom(b))
    OBVIOUS
  <2>1. PICK c \in Atoms : Copy(c) \/ Apply(c)
    BY <1>1 DEF Next, ReportFatal, Commit, vars
  <2>2. c = a
    BY <1>1, <2>1 DEF Copy, Apply, Inv, TypeInv
  <2> QED BY <1>1, <2>1, <2>2, OthersUntouched
<1> QED BY <1>1, Invariant, PTL DEF Spec, OwnBytesOnly
=============================================================================
