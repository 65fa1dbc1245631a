--------------------------- MODULE Arm64Handler ---------------------------
(***************************************************************************)
(* ArchHandler_arm64: relocation records to references and back, and the   *)
(* values stored at fixups, in final and in relocatable files.  The        *)
(* immediate of an ADRP counts pages, that of a load its access size.      *)
(***************************************************************************)
EXTENDS MachOFile

CONSTANT Page      \* the bytes of a page (4096)

Scale == [offset12 |-> 1, offset12scale2 |-> 2, offset12scale4 |-> 4, offset12scale8 |-> 8,
          offset12scale16 |-> 16]
Offset12KindFromInstruction(op) ==
    CASE op = "ldrh" -> "offset12scale2" [] op = "ldrw" -> "offset12scale4"
      [] op = "ldr" -> "offset12scale8" [] op = "ldrq" -> "offset12scale16" [] OTHER -> "offset12"

Patterns == [branch26 |-> P("BRANCH26", {"pc", "ext"}, 4), page21 |-> P("PAGE21", {"pc", "ext"}, 4),
             offset12 |-> P("PAGEOFF12", {"ext"}, 4),
             gotPage21 |-> P("GOT_LOAD_PAGE21", {"pc", "ext"}, 4),
             gotOffset12 |-> P("GOT_LOAD_PAGEOFF12", {"ext"}, 4),
             tlvPage21 |-> P("TLVP_LOAD_PAGE21", {"pc", "ext"}, 4),
             tlvOffset12 |-> P("TLVP_LOAD_PAGEOFF12", {"ext"}, 4),
             pointer64 |-> P("UNSIGNED", {"ext"}, 8),
             pointer64ToGOT |-> P("POINTER_TO_GOT", {"ext"}, 8),
             delta32ToGOT |-> P("POINTER_TO_GOT", {"pc", "ext"}, 4)]
AddendPattern == P("ADDEND", {}, 4)
DeltaKind(len) == IF len = 8 THEN "delta64" ELSE "delta32"

IsPairedReloc(pat) == pat.type \in {"ADDEND", "SUBTRACTOR"}

(* The kind of a single record: of several loads the instruction decides.  *)
KindOf(pat, c) ==
    LET found == {k \in DOMAIN Patterns : Patterns[k] = pat}
    IN  IF found = {} THEN "bad"
        ELSE IF found = {"offset12"} THEN Offset12KindFromInstruction(c.op)
        ELSE CHOOSE k \in found : TRUE

GetReferenceInfo(f, r, inAtom, off, c) ==
    CASE r.pat = P("UNSIGNED", {}, 8) -> ByAddress(f, "pointer64", r.sym, c.imm)
      [] KindOf(r.pat, c) = "bad" -> Bad
      [] OTHER -> Ref(KindOf(r.pat, c), r.sym, IF KindOf(r.pat, c) = "pointer64" THEN c.imm ELSE 0)

GetPairReferenceInfo(f, r1, r2, inAtom, off, c) ==
    CASE r1.pat = AddendPattern /\ r2.pat.type \in {"BRANCH26", "PAGE21", "PAGEOFF12"} ->
           Ref(KindOf(r2.pat, c), r2.sym, r1.sym)
      [] r1.pat.type = "SUBTRACTOR" /\ r2.pat = P("UNSIGNED", {"ext"}, r1.pat.len) ->
           Ref(DeltaKind(r1.pat.len), r2.sym, (IF r1.pat.len = 4 THEN S(c.imm) ELSE c.imm) + off)
      [] OTHER -> Bad

Wide == {"pointer64", "pointer64ToGOT", "delta64", "unwindFDEToFunction"}
Fit(kind, x) == IF kind \in Wide THEN x ELSE U(x)
PageDistance(to, from) == to \div Page - from \div Page

ApplyFixupFinal(ref, c, x) ==
    LET to == x.target + ref.addend
        value ==
          CASE ref.kind = "branch26" -> (to - x.fixup) \div 4
            [] ref.kind \in {"page21", "gotPage21", "tlvPage21"} -> PageDistance(to, x.fixup)
            [] ref.kind \in {"gotOffset12", "tlvOffset12", "addOffset12"} -> to % Page
            [] ref.kind \in DOMAIN Scale -> (to % Page) \div Scale[ref.kind]
            [] ref.kind \in {"pointer64", "pointer64ToGOT"} -> to
            [] ref.kind \in {"delta64", "delta32", "delta32ToGOT", "unwindFDEToFunction"} -> to - x.fixup
            [] ref.kind = "negDelta32" -> x.fixup - x.target + ref.addend
            [] ref.kind = "imageOffset" -> to - x.image
            [] ref.kind = "lazyImmediateLocation" -> ref.addend
            [] OTHER -> c.imm
    IN  [op |-> IF ref.kind = "addOffset12" THEN "add" ELSE c.op,
         imm |-> IF ref.kind \in {"branch26", "page21", "gotPage21", "tlvPage21"} THEN value
                 ELSE Fit(ref.kind, value)]

ApplyFixupRelocatable(f, ref, c, x) ==
    LET value ==
          CASE ref.kind \in {"branch26", "page21", "gotPage21", "tlvPage21", "gotOffset12",
                             "tlvOffset12", "pointer64ToGOT"} \cup DOMAIN Scale -> 0
            [] ref.kind = "pointer64" ->
                 ref.addend + (IF f.atoms[ref.target].named THEN 0 ELSE x.target)
            [] ref.kind \in {"delta64", "delta32"} -> ref.addend + x.atom - x.fixup
            [] ref.kind = "negDelta32" -> x.fixup - x.atom + ref.addend
            [] ref.kind = "delta32ToGOT" -> - x.fixup
            [] OTHER -> c.imm
    IN  [c EXCEPT !.imm = Fit(ref.kind, value)]

(* The addend's record keeps it in the place of a symbol number.           *)
AppendSectionRelocations(f, inAtom, off, ref) ==
    LET kind == IF ref.kind \in DOMAIN Scale THEN "offset12" ELSE ref.kind
        len == IF kind = "delta64" THEN 8 ELSE 4
    IN  CASE kind \in {"delta64", "delta32"} ->
               <<AppendReloc(off, inAtom, 0, P("SUBTRACTOR", {"ext"}, len)),
                 AppendReloc(off, ref.target, 0, P("UNSIGNED", {"ext"}, len))>>
          [] kind = "pointer64" /\ ~f.atoms[ref.target].named ->
               <<AppendReloc(off, f.atoms[ref.target].sec, 0, P("UNSIGNED", {}, 8))>>
          [] kind \notin DOMAIN Patterns -> <<>>
          [] OTHER -> (IF kind \in {"branch26", "page21", "offset12"} /\ ref.addend # 0
                       THEN <<AppendReloc(off, U(ref.addend), 0, AddendPattern)>> ELSE <<>>)
                      \o <<AppendReloc(off, ref.target, 0, Patterns[kind])>>

(* For the passes.                                                         *)
IsGOTAccess(kind) == kind \in {"gotPage21", "gotOffset12", "imageOffsetGot"}
CanBypassGOT(kind) == kind \in {"gotPage21", "gotOffset12"}
UpdateReferenceToGOT(kind, now) ==
    CASE kind = "gotPage21" -> "page21"
      [] kind = "gotOffset12" -> IF now THEN "offset12scale8" ELSE "addOffset12"
      [] kind = "imageOffsetGot" -> "imageOffset"
IsCallSite(kind) == kind = "branch26"

=============================================================================
