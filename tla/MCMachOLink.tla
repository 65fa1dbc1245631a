---------------------------- MODULE MCMachOLink ----------------------------
(***************************************************************************)
(* Objects as an assembler writes them: two or three references from a     *)
(* function and a data atom to functions, data, shared libraries' symbols  *)
(* and an interposable function.  Words have 2^12 values, pages 2^6.       *)
(***************************************************************************)
EXTENDS MachOLink

Atom(type, size, align, sec, merge) ==
    [type |-> type, size |-> size, align |-> align, modulus |-> 0, thumb |-> FALSE,
     exec |-> type = "code", named |-> TRUE, merge |-> merge, scope |-> "global", sec |-> sec,
     name |-> 4, interpose |-> FALSE]
Library(length) == [Atom("code", 0, 1, 0, "no") EXCEPT !.name = length]

(* f, g, the data, puts, the binder, exit, and an interposable function.   *)
Atoms(thumbF, thumbG) ==
    <<[Atom("code", 24, 4, 1, "no") EXCEPT !.thumb = thumbF],
      [Atom("code", 12, 4, 1, "no") EXCEPT !.thumb = thumbG],
      Atom("data", 24, 8, 2, "no"), Library(4), Library(16), Library(3),
      [Atom("code", 12, 4, 1, "weak") EXCEPT !.interpose = TRUE, !.thumb = thumbF]>>
ObjectAddresses == <<0, 24, 72, 0, 0, 0, 36>>

Use(kind, target, addend, op) == [kind |-> kind, target |-> target, addend |-> addend, op |-> op]
Each(kind, targets, addends, op) == {Use(kind, t, a, op) : t \in targets, a \in addends}

CodeUses(arch0, thumb) ==
    CASE arch0 = "x86_64" ->
           Each("branch32", {2, 4, 6, 7}, {0}, "call") \cup Each("ripRel32", {3}, {0, 8}, "mov")
             \cup Each("ripRel32Anon", {3}, {4}, "mov") \cup Each("ripRel32Minus2", {3}, {8}, "mov")
             \cup Each("ripRel32GotLoad", {3, 4}, {0}, "mov") \cup Each("ripRel32Got", {3, 6}, {0}, "cmp")
      [] arch0 = "x86" ->
           Each("branch32", {2, 4, 6, 7}, {0}, "call") \cup Each("branch32", {2}, {4}, "call")
             \cup Each("abs32", {3}, {0, 8}, "mov") \cup Each("funcRel32", {3}, {-4}, "mov")
             \cup Each("branch16", {2}, {0}, "call")
      [] arch0 = "arm64" ->
           Each("branch26", {2, 4, 6, 7}, {0}, "bl") \cup Each("branch26", {2}, {4}, "bl")
             \cup Each("page21", {3}, {0, 8}, "adrp") \cup Each("offset12scale8", {3}, {0, 8}, "ldr")
             \cup Each("offset12", {3}, {4}, "add") \cup Each("gotPage21", {3, 4}, {0}, "adrp")
             \cup Each("gotOffset12", {3, 4}, {0}, "ldr")
      [] thumb ->
           Each("thumb_bl22", {2, 4, 7}, {0}, "bl") \cup Each("thumb_b22", {2}, {0}, "b")
             \cup Each("thumb_movw", {4, 3}, {0}, "movw") \cup Each("thumb_movt", {3}, {0}, "movt")
             \cup Each("thumb_movw_funcRel", {3}, {-4}, "movw") \cup Each("thumb_movt_funcRel", {3}, {-4}, "movt")
      [] OTHER ->
           Each("arm_bl24", {2, 4, 7}, {0}, "bl") \cup Each("arm_b24", {2}, {0}, "b")
             \cup Each("arm_movw", {3}, {0}, "movw") \cup Each("arm_movt", {3, 4}, {0}, "movt")
             \cup Each("arm_movw_funcRel", {3}, {-4}, "movw") \cup Each("arm_movt_funcRel", {3}, {-4}, "movt")
DataUses(arch0) ==
    CASE arch0 = "x86_64" ->
           Each("pointer64", {2, 4}, {0, 8}, "data") \cup Each("pointer64Anon", {2}, {4}, "data")
             \cup Each("delta64", {2}, {4}, "data") \cup Each("delta32", {3}, {0}, "data")
      [] arch0 = "x86" ->
           Each("pointer32", {2, 3}, {0, 8}, "data") \cup Each("pointer32", {4}, {0}, "data")
             \cup Each("delta32", {2}, {0}, "data") \cup Each("negDelta32", {2}, {0}, "data")
      [] arch0 = "arm64" ->
           Each("pointer64", {2, 4}, {0, 8}, "data") \cup Each("delta64", {2}, {4}, "data")
             \cup Each("delta32", {2}, {0}, "data")
      [] OTHER ->
           Each("pointer32", {2}, {0, 4}, "data") \cup Each("pointer32", {4}, {0}, "data")
             \cup Each("delta32", {2}, {0}, "data")

(* Offsets at which the uses may be; thumb code also at 2 modulo 4.        *)
At1(atom, off, use) == use @@ [atom |-> atom, off |-> off]

External(arch0, u) ==
    \/ u.target \in {4, 5, 6}
    \/ arch0 \in {"x86", "arm"} /\ u.target = 7
(* The immediate the assembler leaves at a fixup.                          *)
Immediate(arch0, thumbG, u) ==
    LET fix == ObjectAddresses[u.atom] + u.off
        to == (IF External(arch0, u) THEN 0 ELSE ObjectAddresses[u.target]) + u.addend
        bit == IF thumbG /\ u.target = 2 THEN 1 ELSE 0
        minus == CASE u.kind = "ripRel32Minus1" -> 1 [] u.kind = "ripRel32Minus2" -> 2
                   [] u.kind = "ripRel32Minus4" -> 4 [] OTHER -> 0
    IN  CASE arch0 = "x86_64" /\ u.kind \in {"ripRel32Anon"} -> U(to - (fix + 4))
          [] arch0 = "x86_64" /\ u.kind = "pointer64Anon" -> to
          [] arch0 = "x86_64" /\ u.kind = "delta64Anon" -> to - u.off
          [] arch0 \in {"x86_64", "arm64"} /\ u.kind = "delta64" -> u.addend - u.off
          [] arch0 \in {"x86_64", "arm64"} /\ u.kind = "delta32" -> U(u.addend - u.off)
          [] arch0 = "x86_64" /\ u.kind = "pointer64" -> u.addend
          [] arch0 = "x86_64" -> U(u.addend - minus)
          [] arch0 = "arm64" -> IF u.kind = "pointer64" THEN u.addend ELSE 0
          [] u.kind = "branch16" -> (to - (fix + 2)) % Half
          [] u.kind = "branch32" -> U(to - (fix + 4))
          [] u.kind \in {"pointer32", "abs32"} -> U(to + bit)
          [] u.kind = "delta32" -> U(to - fix + bit)
          [] u.kind = "negDelta32" -> U(fix - to)
          [] u.kind = "funcRel32" -> U(to - ObjectAddresses[u.atom])
          [] u.kind \in {"thumb_bl22", "thumb_b22"} -> to - (fix + 4)
          [] u.kind \in {"arm_bl24", "arm_b24"} -> to - (fix + 8)
          [] u.kind \in {"thumb_movw", "arm_movw"} -> U(to) % Half
          [] u.kind \in {"thumb_movt", "arm_movt"} -> U(to) \div Half
          [] u.kind \in {"thumb_movw_funcRel", "arm_movw_funcRel"} -> U(to - ObjectAddresses[u.atom]) % Half
          [] OTHER -> U(to - ObjectAddresses[u.atom]) \div Half

SectionStart == <<0, 72>>
RecordsOf(arch0, atoms, u) ==
    LET f == [atoms |-> atoms, addr |-> ObjectAddresses]
        ref == [kind |-> u.kind, target |-> u.target, addend |-> u.addend]
        rs == CASE arch0 = "x86_64" -> X64!AppendSectionRelocations(f, u.atom, u.off, ref)
                [] arch0 = "x86" -> X86!AppendSectionRelocations(f, u.atom, u.off, ref)
                [] arch0 = "arm64" -> A64!AppendSectionRelocations(f, u.atom, u.off, ref)
                [] OTHER -> ARM!AppendSectionRelocations(f, u.atom, u.off, ref)
        sec == atoms[u.atom].sec
    IN  [k \in DOMAIN rs |-> [sec |-> sec,
           rec |-> IF rs[k].pat.type = "PAIR" THEN rs[k]
                   ELSE [rs[k] EXCEPT !.off = @ + ObjectAddresses[u.atom] - SectionStart[sec]]]]

Object(arch0, relocatable, thumbF, thumbG, uses) ==
    LET atoms == Atoms(thumbF, thumbG)
        plain(u) == [atom |-> u.atom, off |-> u.off, kind |-> u.kind, target |-> u.target, addend |-> u.addend]
        at(a) == {u \in ToSet(uses) : u.atom = a}
    IN  [arch |-> arch0, relocatable |-> relocatable, atoms |-> atoms, addr |-> ObjectAddresses,
         binder |-> 5, exports |-> <<>>, uses |-> [i \in DOMAIN uses |-> plain(uses[i])],
         recs |-> FlattenSeq([i \in DOMAIN uses |-> RecordsOf(arch0, atoms, uses[i])]),
         content |-> [a \in DOMAIN atoms |->
           [off \in {u.off : u \in at(a)} |->
              LET u == CHOOSE v \in at(a) : v.off = off
              IN  [op |-> u.op, imm |-> Immediate(arch0, thumbG, u)]]]]

Kinds == {<<"x86_64", FALSE, FALSE>>, <<"x86", FALSE, FALSE>>, <<"arm64", FALSE, FALSE>>,
          <<"arm", FALSE, FALSE>>, <<"arm", FALSE, TRUE>>, <<"arm", TRUE, FALSE>>, <<"arm", TRUE, TRUE>>}
UseSeqs(arch0, thumb) ==
    {<<At1(1, 4, c), At1(1, IF thumb THEN 10 ELSE 12, d)>> : c, d \in CodeUses(arch0, thumb)}
      \cup {<<At1(1, IF thumb THEN 6 ELSE 4, c), At1(3, off, d)>> :
              c \in CodeUses(arch0, thumb), d \in DataUses(arch0), off \in {0, 8}}
(* A 16-bit branch is only for -r, a branch to a thumb function that would *)
(* need a shim only for an image (see ShimObjects for the                *)
(* other way); code that is not indirect cannot have the address of a      *)
(* library's symbol in an image.                                           *)
Fits(k, relocatable, uses) ==
    \A i \in DOMAIN uses :
      /\ uses[i].kind = "thumb_b22" => k[3]
      /\ IF relocatable THEN ~(uses[i].kind = "arm_b24" /\ k[3])
         ELSE /\ uses[i].kind # "branch16"
              /\ uses[i].target = 4 => uses[i].kind \notin {"abs32", "arm_movt", "thumb_movw"}

Names == {s \in UNION {[1..n -> {"a", "b"}] : n \in 1..3} : s[1] = "a"}
Exporting ==
    {[Object("x86_64", FALSE, FALSE, FALSE, <<>>) EXCEPT !.exports = names] :
       names \in UNION {{s \in [1..n -> Names] : IsInjective(s)} : n \in 1..3}}
Objects ==
    Exporting
    \cup UNION {{Object(k[1], r, k[2], k[3], uses) : uses \in {s \in UseSeqs(k[1], k[2]) : Fits(k, r, s)}} :
             k \in Kinds, r \in BOOLEAN}

(* The thumb function that branches to an ARM one.                         *)
ShimObjects ==
    {Object("arm", FALSE, TRUE, FALSE, <<At1(1, 4, Use("thumb_b22", 2, 0, "b"))>>)}
(* A distance between two places of the object itself.                     *)
AnonymousDeltas ==
    {Object("x86_64", TRUE, FALSE, FALSE, <<At1(3, 8, Use(k, 2, 4, "data"))>>) : k \in {"delta64Anon"}}
GOTPointers ==
    {Object("arm64", FALSE, FALSE, FALSE, <<At1(3, 8, Use("pointer64ToGOT", 4, 0, "data"))>>)}
=============================================================================
