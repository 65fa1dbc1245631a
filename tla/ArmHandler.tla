---------------------------- MODULE ArmHandler ----------------------------
(***************************************************************************)
(* ArchHandler_arm: relocation records to references and back, and the     *)
(* values stored at fixups, in final and in relocatable files.  The        *)
(* immediate of a branch is its displacement (with H for an ARM blx), that *)
(* of movw and movt a half word; the other half is kept in the offset of   *)
(* the pair's second record.  Addresses and addends are 32-bit words.      *)
(***************************************************************************)
EXTENDS MachOFile

ThumbBranches == {"thumb_b22", "thumb_bl22"}
ArmBranches == {"arm_b24", "arm_bl24"}
Mov(pattern, top, rel) == [pat |-> pattern, top |-> top, rel |-> rel]
Movs == [thumb_movw |-> Mov("ThmbLo", FALSE, FALSE), thumb_movt |-> Mov("ThmbHi", TRUE, FALSE),
         thumb_movw_funcRel |-> Mov("ThmbLo", FALSE, TRUE),
         thumb_movt_funcRel |-> Mov("ThmbHi", TRUE, TRUE),
         arm_movw |-> Mov("ArmLo", FALSE, FALSE), arm_movt |-> Mov("ArmHi", TRUE, FALSE),
         arm_movw_funcRel |-> Mov("ArmLo", FALSE, TRUE), arm_movt_funcRel |-> Mov("ArmHi", TRUE, TRUE)]

IsPairedReloc(pat) == pat.type \in {"SECTDIFF", "LOCAL_SECTDIFF", "HALF_SECTDIFF", "HALF"}

IsThumb(f, a) == ~Undefined(f, a) /\ f.atoms[a].thumb
(* Mutant: the thumb bit is taken for an addend.                           *)
ThumbBitKept(f, value, a) == value
(* The assembler's thumb bit is no addend.                                 *)
ClearThumbBit(f, value, a) == IF value % 2 = 1 /\ IsThumb(f, a) THEN value - 1 ELSE value

GetDisplacementFromThumbBranch(c, fixup) ==
    IF c.op = "blx" /\ fixup % 4 >= 2 THEN c.imm - 2 ELSE c.imm
SetDisplacementInThumbBranch(c, fixup, displacement, toThumb) ==
    IF c.op = "b" THEN [op |-> "b", imm |-> displacement]      \* asserts toThumb
    ELSE IF toThumb THEN [op |-> "bl", imm |-> displacement]
    ELSE [op |-> "blx", imm |-> displacement + (IF fixup % 4 >= 2 THEN 2 ELSE 0)]
SetDisplacementInArmBranch(c, displacement, toThumb) ==
    IF toThumb THEN [op |-> "blx", imm |-> displacement - (displacement % 2)]   \* b: asserts not
    ELSE [op |-> IF c.op = "blx" THEN "bl" ELSE c.op, imm |-> displacement - (displacement % 4)]

BranchKind(type, op) ==
    CASE type = "THUMB_BR22" -> IF op = "b" THEN "thumb_b22" ELSE "thumb_bl22"
      [] OTHER -> IF op = "b" THEN "arm_b24" ELSE "arm_bl24"

GetReferenceInfo(f, r, inAtom, off, c) ==
    LET fixup == f.addr[inAtom] + off
        branch == r.pat.type \in {"THUMB_BR22", "BR24"}
        kind == IF branch THEN BranchKind(r.pat.type, c.op) ELSE "pointer32"
        value == CASE r.pat.type = "THUMB_BR22" -> fixup + 4 + GetDisplacementFromThumbBranch(c, fixup)
                   [] r.pat.type = "BR24" -> fixup + 8 + c.imm
                   [] OTHER -> c.imm
        named == ByAddress(f, kind, 0, r.value)
        within == ByAddress(f, kind, r.sym, value)
    IN  CASE "ext" \in r.pat.flags -> Ref(kind, r.sym, value)
          [] "scat" \in r.pat.flags /\ branch ->
               [named EXCEPT !.addend = @ + value - r.value]
          [] "scat" \in r.pat.flags ->
               [named EXCEPT !.addend = @ + ClearThumbBit(f, value, named.target) - r.value]
          [] branch -> within
          [] OTHER -> [within EXCEPT !.addend = ClearThumbBit(f, @, within.target)]

(* The whole value of which the instruction holds a half.                  *)
BothHalves(top, c, other) == IF top THEN c.imm * Half + other ELSE other * Half + c.imm

GetPairReferenceInfo(f, r1, r2, inAtom, off, c) ==
    LET to == ByAddress(f, "delta32", 0, r1.value)
        from == ByAddress(f, "delta32", 0, r2.value)
        mov == {k \in DOMAIN Movs : /\ Movs[k].pat = r1.pat.len /\ r2.pat.len = r1.pat.len
                                    /\ Movs[k].rel = (r1.pat.type = "HALF_SECTDIFF")}
        kind == CHOOSE k \in mov : TRUE
        value == BothHalves(Movs[kind].top, c, r2.off % Half)
        difference == S(ClearThumbBit(f, c.imm, to.target) - (r1.value - (f.addr[inAtom] + off)))
    IN  CASE r1.pat.type \in {"SECTDIFF", "LOCAL_SECTDIFF"} ->
               IF Bad \in {to, from} \/ from.target # inAtom THEN Bad
               ELSE Ref("delta32", to.target, difference)
          [] mov = {} \/ c.op # (IF Movs[kind].top THEN "movt" ELSE "movw") -> Bad
          [] Movs[kind].rel ->
               IF Bad \in {to, from} \/ from.target # inAtom THEN Bad
               ELSE Ref(kind, to.target, ClearThumbBit(f, value, to.target)
                                           - U(r1.value - r2.value) - from.addend)
          [] "ext" \in r1.pat.flags -> Ref(kind, r1.sym, value)
          [] "scat" \in r1.pat.flags ->
               [ByAddress(f, kind, 0, r1.value) EXCEPT !.addend = value - r1.value]
          [] OTHER -> [ByAddress(f, kind, r1.sym, value) EXCEPT !.addend = 0]

HalfOf(top, x) == IF top THEN U(x) \div Half ELSE U(x) % Half
WithThumbBit(x) == x - (x % 2) + 1
MovValue(ref, x) == x.target + ref.addend - (IF Movs[ref.kind].rel THEN x.atom ELSE 0)

ApplyFixupFinal(f, ref, c, x) ==
    LET thumb == IsThumb(f, ref.target)
        bit == IF thumb THEN 1 ELSE 0
        to == x.target + ref.addend
    IN  CASE ref.kind \in ThumbBranches -> SetDisplacementInThumbBranch(c, x.fixup, to - (x.fixup + 4), thumb)
          [] ref.kind \in ArmBranches -> SetDisplacementInArmBranch(c, to - (x.fixup + 8), thumb)
          [] ref.kind \in DOMAIN Movs ->
               LET half == HalfOf(Movs[ref.kind].top, MovValue(ref, x))
               IN  [c EXCEPT !.imm = IF thumb /\ ~Movs[ref.kind].top THEN WithThumbBit(half) ELSE half]
          [] ref.kind = "pointer32" -> [c EXCEPT !.imm = U(to + bit)]
          [] ref.kind = "delta32" -> [c EXCEPT !.imm = U(to - x.fixup + bit)]
          [] ref.kind = "lazyImmediateLocation" -> [c EXCEPT !.imm = ref.addend]
          [] OTHER -> c

ApplyFixupRelocatable(f, ref, c, x) ==
    LET external == UseExternalRelocationTo(f, ref.target)
        at == IF external THEN [x EXCEPT !.target = 0] ELSE x
        to == at.target + ref.addend
        thumb == IsThumb(f, ref.target)
    IN  CASE ref.kind \in ThumbBranches ->
               SetDisplacementInThumbBranch(c, x.fixup, to - (x.fixup + 4),
                                            thumb \/ Undefined(f, ref.target))
          [] ref.kind \in ArmBranches -> SetDisplacementInArmBranch(c, to - (x.fixup + 8), thumb)
          [] ref.kind \in DOMAIN Movs ->
               [c EXCEPT !.imm = HalfOf(Movs[ref.kind].top,
                                        MovValue(ref, IF Movs[ref.kind].rel THEN x ELSE at))]
          [] ref.kind = "pointer32" -> [c EXCEPT !.imm = U(x.target + ref.addend)]
          [] ref.kind = "delta32" -> [c EXCEPT !.imm = U(x.target - x.fixup + ref.addend)]
          [] OTHER -> c

AppendSectionRelocations(f, inAtom, off, ref) ==
    LET external == UseExternalRelocationTo(f, ref.target)
        target == Address(f, ref.target)
        atom == f.addr[inAtom]
        one(type, flags, len) ==
            CASE external -> <<AppendReloc(off, ref.target, 0, P(type, flags \cup {"ext"}, len))>>
              [] ref.addend # 0 -> <<AppendReloc(off, 0, target, P(type, flags \cup {"scat"}, len))>>
              [] OTHER -> <<AppendReloc(off, f.atoms[ref.target].sec, 0, P(type, flags, len))>>
        mov == Movs[ref.kind]
        value == ref.addend + (CASE mov.rel -> target - atom [] external -> 0 [] OTHER -> target)
        other == HalfOf(~mov.top, value)
    IN  CASE ref.kind \in ThumbBranches -> one("THUMB_BR22", {"pc"}, 4)
          [] ref.kind \in ArmBranches -> one("BR24", {"pc"}, 4)
          [] ref.kind = "pointer32" -> one("VANILLA", {}, 4)
          [] ref.kind = "delta32" ->
               <<AppendReloc(off, 0, target, P("SECTDIFF", {"scat"}, 4)),
                 AppendReloc(off, 0, atom + off, P("PAIR", {"scat"}, 4))>>
          [] ref.kind \in DOMAIN Movs ->
               IF mov.rel
               THEN <<AppendReloc(off, 0, target, P("HALF_SECTDIFF", {"scat"}, mov.pat)),
                      AppendReloc(other, 0, atom, P("PAIR", {"scat"}, mov.pat))>>
               ELSE Append(one("HALF", {}, mov.pat), AppendReloc(other, 0, 0, P("PAIR", {}, mov.pat)))
          [] OTHER -> <<>>

(* For the passes.                                                         *)
IsCallSite(kind) == kind \in ThumbBranches \cup ArmBranches
IsNonCallBranch(kind) == kind \in {"thumb_b22", "arm_b24"}

=============================================================================
