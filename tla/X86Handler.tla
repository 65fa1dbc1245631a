---------------------------- MODULE X86Handler ----------------------------
(***************************************************************************)
(* ArchHandler_x86: relocation records to references and back, and the     *)
(* values stored at fixups, in final and in relocatable files.  Addresses  *)
(* and addends are 32-bit words.                                           *)
(***************************************************************************)
EXTENDS MachOFile

Branches == {"branch32", "branch16"}
Length(kind) == IF kind = "branch16" THEN 2 ELSE 4
PointerKind(f, a) == IF f.atoms[a].exec THEN "abs32" ELSE "pointer32"
SectDiff == {"SECTDIFF", "LOCAL_SECTDIFF"}

IsPairedReloc(pat) == pat.type \in SectDiff /\ "scat" \in pat.flags

(* What the content at the fixup designates.                               *)
Designated(r, fixup, c) ==
    IF "pc" \notin r.pat.flags THEN U(c.imm)
    ELSE fixup + r.pat.len + (IF r.pat.len = 2 THEN SHalf(c.imm) ELSE S(c.imm))

GetReferenceInfo(f, r, inAtom, off, c) ==
    LET kind == IF "pc" \notin r.pat.flags THEN PointerKind(f, inAtom)
                ELSE IF r.pat.len = 4 THEN "branch32" ELSE "branch16"
        value == Designated(r, f.addr[inAtom] + off, c)
    IN  CASE r.pat.type # "VANILLA" \/ (r.pat.len = 2 /\ "pc" \notin r.pat.flags) -> Bad
          [] "ext" \in r.pat.flags -> Ref(kind, r.sym, value)
          [] "scat" \in r.pat.flags ->
               [ByAddress(f, kind, 0, r.value) EXCEPT !.addend = value - r.value]
          [] OTHER -> ByAddress(f, kind, r.sym, value)

GetPairReferenceInfo(f, r1, r2, inAtom, off, c) ==
    LET to == ByAddress(f, "to", 0, r1.value)
        from == ByAddress(f, "from", 0, r2.value)
        difference == r2.value + S(c.imm) - r1.value
    IN  CASE r1.pat.type \notin SectDiff \/ r2.pat # P("PAIR", {"scat"}, 4) -> Bad
          [] Bad \in {to, from} -> Bad
          [] from.target # inAtom /\ to.target # inAtom -> Bad
          [] from.target # inAtom -> Ref("negDelta32", from.target, r1.value - S(c.imm) - r2.value)
          [] f.atoms[inAtom].exec -> Ref("funcRel32", to.target, U(difference) - from.addend)
          [] OTHER -> Ref("delta32", to.target, difference)

(* The value stored, apart from the choice of an external relocation.      *)
Stored(ref, x) ==
    CASE ref.kind \in Branches -> x.target - (x.fixup + Length(ref.kind)) + ref.addend
      [] ref.kind \in {"pointer32", "abs32"} -> x.target + ref.addend
      [] ref.kind = "funcRel32" -> x.target - x.atom + ref.addend
      [] ref.kind = "delta32" -> x.target - x.fixup + ref.addend
      [] ref.kind = "negDelta32" -> x.fixup - x.target + ref.addend
      [] OTHER -> ref.addend

NoFixup == {"modeCode", "modeData", "lazyPointer"}

(* branch16 stores 32 bits here.                                           *)
ApplyFixupFinal(ref, c, x) ==
    IF ref.kind \in NoFixup THEN c ELSE [c EXCEPT !.imm = U(Stored(ref, x))]

ApplyFixupRelocatable(f, ref, c, x) ==
    IF ref.kind \in NoFixup \cup {"lazyImmediateLocation"} THEN c
    ELSE LET external == UseExternalRelocationTo(f, ref.target)
             at == IF external /\ ref.kind \in Branches THEN [x EXCEPT !.target = 0] ELSE x
         IN  [c EXCEPT !.imm = IF ref.kind = "branch16" THEN Stored(ref, at) % Half
                               ELSE U(Stored(ref, at))]

AppendSectionRelocations(f, inAtom, off, ref) ==
    LET target == Address(f, ref.target)
        here == f.addr[inAtom] + off
        pc == IF ref.kind \in Branches THEN {"pc"} ELSE {}
        vanilla(flags, sym, value) ==
            <<AppendReloc(off, sym, value, P("VANILLA", pc \cup flags, Length(ref.kind)))>>
        sectDiff(to, from) == <<AppendReloc(off, 0, to, P("SECTDIFF", {"scat"}, 4)),
                                AppendReloc(off, 0, from, P("PAIR", {"scat"}, 4))>>
    IN  CASE ref.kind = "funcRel32" -> sectDiff(target, f.addr[inAtom] - ref.addend)
          [] ref.kind = "delta32" -> sectDiff(target, here)
          [] ref.kind = "negDelta32" -> sectDiff(here, target)
          [] ref.kind \in {"modeCode", "modeData"} -> <<>>
          [] UseExternalRelocationTo(f, ref.target) -> vanilla({"ext"}, ref.target, 0)
          [] ref.addend # 0 -> vanilla({"scat"}, 0, target)
          [] OTHER -> vanilla({}, f.atoms[ref.target].sec, 0)

IsCallSite(kind) == kind = "branch32"

=============================================================================
