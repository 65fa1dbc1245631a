--------------------------- MODULE X86_64Handler ---------------------------
(***************************************************************************)
(* ArchHandler_x86_64: relocation records to references and back, and the  *)
(* values stored at fixups, in final and in relocatable files.             *)
(***************************************************************************)
EXTENDS MachOFile

Singles == [kind \in {"branch32", "ripRel32", "ripRel32Anon", "ripRel32Minus1", "ripRel32Minus2",
                      "ripRel32Minus4", "ripRel32GotLoad", "ripRel32Got", "pointer64", "pointer64Anon"} |->
    CASE kind = "branch32" -> P("BRANCH", {"pc", "ext"}, 4)
      [] kind = "ripRel32" -> P("SIGNED", {"pc", "ext"}, 4)
      [] kind = "ripRel32Anon" -> P("SIGNED", {"pc"}, 4)
      [] kind = "ripRel32Minus1" -> P("SIGNED_1", {"pc", "ext"}, 4)
      [] kind = "ripRel32Minus2" -> P("SIGNED_2", {"pc", "ext"}, 4)
      [] kind = "ripRel32Minus4" -> P("SIGNED_4", {"pc", "ext"}, 4)
      [] kind = "ripRel32GotLoad" -> P("GOT_LOAD", {"pc", "ext"}, 4)
      [] kind = "ripRel32Got" -> P("GOT", {"pc", "ext"}, 4)
      [] kind = "pointer64" -> P("UNSIGNED", {"ext"}, 8)
      [] kind = "pointer64Anon" -> P("UNSIGNED", {}, 8)]
Subtracted(kind) ==
    P("UNSIGNED", IF kind \in {"delta64", "delta32"} THEN {"ext"} ELSE {},
      IF kind \in {"delta64", "delta64Anon"} THEN 8 ELSE 4)
Pairs == {"delta64", "delta32", "delta64Anon", "delta32Anon"}

IsPairedReloc(pat) == pat.type = "SUBTRACTOR"
Bias(kind) ==
    CASE kind = "ripRel32Minus1" -> 1 [] kind = "ripRel32Minus2" -> 2
      [] kind = "ripRel32Minus4" -> 4 [] OTHER -> 0

GetReferenceInfo(f, r, inAtom, off, c) ==
    LET fixup == f.addr[inAtom] + off
        found == {k \in DOMAIN Singles : Singles[k] = r.pat}
        kind == CHOOSE k \in found : TRUE
    IN  IF found = {} THEN Bad
        ELSE CASE kind = "ripRel32Anon" -> ByAddress(f, kind, r.sym, fixup + 4 + S(c.imm))
               [] kind = "pointer64Anon" -> ByAddress(f, kind, r.sym, c.imm)
               [] kind = "pointer64" -> Ref(kind, r.sym, c.imm)
               [] OTHER -> Ref(kind, r.sym, S(c.imm) + Bias(kind))

GetPairReferenceInfo(f, r1, r2, inAtom, off, c) ==
    LET found == {k \in Pairs : r1.pat = P("SUBTRACTOR", {"ext"}, r2.pat.len) /\ Subtracted(k) = r2.pat}
        kind == CHOOSE k \in found : TRUE
        value == (IF r2.pat.len = 4 THEN S(c.imm) ELSE c.imm) + off
    IN  IF found = {} \/ r1.sym # inAtom THEN Bad
        ELSE IF kind \in {"delta64", "delta32"} THEN Ref(kind, r2.sym, value)
        ELSE ByAddress(f, kind, r2.sym, value)

(* The immediate stored in a final image.                                  *)
Wide == {"pointer64", "pointer64Anon", "delta64", "delta64Anon", "unwindFDEToFunction"}
Fit(kind, x) == IF kind \in Wide THEN x ELSE U(x)
ApplyFixupFinal(ref, c, x) ==
    LET value ==
          CASE ref.kind \in {"branch32", "ripRel32", "ripRel32Anon", "ripRel32Got", "ripRel32GotLoad",
                             "ripRel32GotLoadNowLea", "ripRel32Minus1", "ripRel32Minus2",
                             "ripRel32Minus4"} -> x.target - (x.fixup + 4 + Bias(ref.kind)) + ref.addend
            [] ref.kind \in {"pointer64", "pointer64Anon"} -> x.target + ref.addend
            [] ref.kind \in {"delta32", "delta32Anon", "delta64", "delta64Anon", "unwindFDEToFunction"} ->
                 x.target - x.fixup + ref.addend
            [] ref.kind = "negDelta32" -> x.fixup - x.target + ref.addend
            [] ref.kind = "lazyImmediateLocation" -> ref.addend
            [] ref.kind \in {"imageOffset", "imageOffsetGot"} -> x.target - x.image + ref.addend
            [] OTHER -> c.imm
    IN  [op |-> IF ref.kind = "ripRel32GotLoadNowLea" THEN "lea" ELSE c.op, imm |-> Fit(ref.kind, value)]

(* The immediate stored in a relocatable file.                             *)
ApplyFixupRelocatable(f, ref, c, x) ==
    LET value ==
          CASE ref.kind \in {"branch32", "ripRel32", "ripRel32Got", "ripRel32GotLoad", "pointer64",
                             "ripRel32Minus1", "ripRel32Minus2", "ripRel32Minus4"} ->
                 ref.addend - Bias(ref.kind)
            [] ref.kind = "ripRel32Anon" -> x.target - (x.fixup + 4) + ref.addend
            [] ref.kind = "pointer64Anon" -> x.target + ref.addend
            [] ref.kind \in {"delta32", "delta64"} -> ref.addend + x.atom - x.fixup
            [] ref.kind \in {"delta32Anon", "delta64Anon"} -> x.target - x.fixup + ref.addend
            [] ref.kind = "negDelta32" -> x.fixup - x.target + ref.addend
            [] OTHER -> c.imm
    IN  [c EXCEPT !.imm = Fit(ref.kind, value)]

AppendSectionRelocations(f, inAtom, off, ref) ==
    LET anon == ref.kind \in {"ripRel32Anon", "pointer64Anon", "delta32Anon", "delta64Anon"}
        sym == IF anon THEN f.atoms[ref.target].sec ELSE ref.target
    IN  CASE ref.kind \in DOMAIN Singles -> <<AppendReloc(off, sym, 0, Singles[ref.kind])>>
          [] ref.kind \in Pairs ->
               <<AppendReloc(off, inAtom, 0, P("SUBTRACTOR", {"ext"}, Subtracted(ref.kind).len)),
                 AppendReloc(off, sym, 0, Subtracted(ref.kind))>>
          [] OTHER -> <<>>

(* For the passes.                                                         *)
IsGOTAccess(kind) == kind \in {"ripRel32GotLoad", "ripRel32Got", "imageOffsetGot"}
CanBypassGOT(kind) == kind = "ripRel32GotLoad"
UpdateReferenceToGOT(kind, now) ==
    CASE kind = "imageOffsetGot" -> "imageOffset"
      [] now -> "ripRel32"
      [] OTHER -> "ripRel32GotLoadNowLea"
IsCallSite(kind) == kind = "branch32"

=============================================================================
