---------------------------- MODULE GotPltProofs ----------------------------
(***************************************************************************)
(* Proofs about the relocation passes of the ELF targets, for every link:  *)
(* the ELF flags that the workers merge for a MIPS output cover the code   *)
(* of every file, in whatever order the files come; and whatever the       *)
(* references, the calls end in stubs that the loader binds.               *)
(***************************************************************************)
EXTENDS GotPlt, Iteration, SequenceTheorems

-----------------------------------------------------------------------------
(***************************************************************************)
(* The instruction sets.                                                   *)
(***************************************************************************)

\* What runs on a machine that runs ext runs on ext.
LEMMA RunsClimb ==
  ASSUME NEW ext \in Mips!Isas, NEW isa \in Runs[ext]
  PROVE  isa \in Mips!Isas /\ Runs[isa] \subseteq Runs[ext]
  BY DEF Runs, Mips!Isas

LEMMA RunsItself == \A isa \in Mips!Isas : isa \in Runs[isa]
  BY DEF Runs, Mips!Isas

\* An edge of the tree leads to an instruction set that the other one extends.
LEMMA EdgesLeadDown ==
  \A i \in 1..8 : /\ Mips!IsaTree[i][1] \in Mips!Isas
                  /\ Mips!IsaTree[i][2] \in Runs[Mips!IsaTree[i][1]]
<1> SUFFICES ASSUME NEW i \in 1..8
             PROVE  /\ Mips!IsaTree[i][1] \in Mips!Isas
                    /\ Mips!IsaTree[i][2] \in Runs[Mips!IsaTree[i][1]]
  OBVIOUS
<1>1. i \in {1, 2, 3, 4, 5, 6, 7, 8}
  OBVIOUS
<1>2. /\ Mips!IsaTree[1] = <<"64r2", "64">> /\ Mips!IsaTree[2] = <<"64", "5">>
      /\ Mips!IsaTree[3] = <<"5", "4">> /\ Mips!IsaTree[4] = <<"4", "3">>
      /\ Mips!IsaTree[5] = <<"32r2", "32">> /\ Mips!IsaTree[6] = <<"3", "2">>
      /\ Mips!IsaTree[7] = <<"32", "2">> /\ Mips!IsaTree[8] = <<"2", "1">>
  BY DEF Mips!IsaTree
<1>3. /\ "64" \in Runs["64r2"] /\ "5" \in Runs["64"] /\ "4" \in Runs["5"] /\ "3" \in Runs["4"]
      /\ "32" \in Runs["32r2"] /\ "2" \in Runs["3"] /\ "2" \in Runs["32"] /\ "1" \in Runs["2"]
  BY DEF Runs, Mips!Isas
<1> QED BY <1>1, <1>2, <1>3 DEF Mips!Isas

LEMMA TreeIsLong == Len(Mips!IsaTree) = 8
  BY DEF Mips!IsaTree

\* What is found on the way up the tree runs on the machine it starts from.
LEMMA BasesRun ==
  ASSUME NEW ext \in Mips!Isas
  PROVE  Mips!Bases(ext) \subseteq Runs[ext]
<1> DEFINE start == [at |-> ext, all |-> {ext}]
           IsClimb(f, n) == f = [i \in 0..n |->
                                   IF i = 0 THEN start ELSE Mips!Up(f[i - 1], Mips!IsaTree[i])]
           climbed == CHOOSE f : IsClimb(f, 8)
           S == {i \in 0..8 : \E f : IsClimb(f, i)}
<1>1. Mips!Bases(ext) = climbed[8].all
  BY TreeIsLong DEF Mips!Bases
<1>2. IsClimb(climbed, 8)
  <2>1. 0 \in S
    <3>1. \E f : IsClimb(f, 0)
      <4>1. IsClimb([i \in 0..0 |-> start], 0)
        OBVIOUS
      <4> HIDE DEF IsClimb
      <4> QED BY <4>1
    <3> HIDE DEF IsClimb
    <3> QED BY <3>1
  <2>2. ASSUME NEW n \in 0..8, n \in S, n < 8 PROVE n + 1 \in S
    <3>1. PICK f : IsClimb(f, n)
      BY <2>2
    <3> DEFINE g == [i \in 0..n + 1 |->
                       IF i <= n THEN f[i] ELSE Mips!Up(f[n], Mips!IsaTree[n + 1])]
    <3>2. \A i \in 0..n : f[i] = IF i = 0 THEN start ELSE Mips!Up(f[i - 1], Mips!IsaTree[i])
      BY <3>1
    <3>3. ASSUME NEW i \in 0..n + 1
          PROVE  g[i] = IF i = 0 THEN start ELSE Mips!Up(g[i - 1], Mips!IsaTree[i])
      <4>1. CASE i <= n
        <5>1. g[i] = f[i] /\ (i # 0 => g[i - 1] = f[i - 1])
          BY <4>1, <2>2
        <5>2. f[i] = IF i = 0 THEN start ELSE Mips!Up(f[i - 1], Mips!IsaTree[i])
          <6>1. i \in 0..n
            BY <4>1
          <6> QED BY <3>2, <6>1
        <5> HIDE DEF g
        <5> QED BY <5>1, <5>2
      <4>2. CASE i = n + 1
        <5>1. g[i] = Mips!Up(f[n], Mips!IsaTree[i]) /\ g[i - 1] = f[n] /\ i # 0
          BY <4>2, <2>2
        <5> QED BY <5>1
      <4> QED BY <4>1, <4>2, <2>2
    <3>4. g = [i \in 0..n + 1 |-> g[i]]
      OBVIOUS
    <3>5. IsClimb(g, n + 1)
      <4> HIDE DEF g
      <4> QED BY <3>3, <3>4
    <3> HIDE DEF g, IsClimb
    <3> QED BY <3>5, <2>2
  <2>3. 8 \in S
    <3> HIDE DEF S
    <3> QED BY <2>1, <2>2, UpToInduction
  <2> QED BY <2>3
<1> DEFINE R == {i \in 0..8 : climbed[i].at \in Runs[ext] /\ climbed[i].all \subseteq Runs[ext]}
<1>3. \A i \in 0..8 : climbed[i] = IF i = 0 THEN start
                                   ELSE Mips!Up(climbed[i - 1], Mips!IsaTree[i])
  BY <1>2
<1> HIDE DEF climbed
<1>4. 0 \in R
  BY <1>3, RunsItself
<1>5. ASSUME NEW n \in 0..8, n \in R, n < 8 PROVE n + 1 \in R
  <2>1. climbed[n + 1] = Mips!Up(climbed[n], Mips!IsaTree[n + 1])
    BY <1>3, <1>5
  <2> DEFINE edge == Mips!IsaTree[n + 1]
  <2>2. CASE climbed[n].at # edge[1]
    BY <1>5, <2>1, <2>2 DEF Mips!Up
  <2>3. CASE climbed[n].at = edge[1]
    <3>1. edge[2] \in Runs[ext]
      BY <1>5, <2>3, EdgesLeadDown, RunsClimb
    <3>2. climbed[n + 1] = [at |-> edge[2], all |-> climbed[n].all \cup {edge[2]}]
      BY <2>1, <2>3 DEF Mips!Up
    <3> QED BY <1>5, <3>1, <3>2
  <2> QED BY <2>2, <2>3
<1>6. 8 \in R
  <2> HIDE DEF R
  <2> QED BY <1>4, <1>5, UpToInduction
<1> QED BY <1>1, <1>6

\* What matchMipsISA accepts, the machine runs.
LEMMA MatchRuns ==
  ASSUME NEW ext \in Mips!Isas, NEW base, Mips!MatchMipsISA(base, ext)
  PROVE  base \in Runs[ext]
<1>1. "64" \in Runs[ext] => "32" \in Runs[ext]
  BY RunsClimb DEF Runs, Mips!Isas
<1>2. "64r2" \in Runs[ext] => "32r2" \in Runs[ext]
  BY RunsClimb DEF Runs, Mips!Isas
<1> QED BY <1>1, <1>2, BasesRun DEF Mips!MatchMipsISA

-----------------------------------------------------------------------------
(***************************************************************************)
(* mergeHeaderFlags().                                                     *)
(***************************************************************************)

\* The flags promise what the code of a file needs.
CoversFile(flags, f) ==
  /\ f.isa \in Runs[flags.isa]
  /\ flags.pic => f.pic
  /\ f.pic \/ f.cpic => flags.cpic
  /\ f.micro => flags.micro
  /\ f.nan = flags.nan

LEMMA MergeCovers ==
  ASSUME NEW flags \in Mips!Flags, NEW new \in Mips!Flags, Mips!Mergeable(flags, new)
  PROVE  LET merged == Mips!MergeFlags(flags, new) IN
         /\ merged \in Mips!Flags
         /\ CoversFile(merged, new)
         /\ \A f \in Mips!Flags : CoversFile(flags, f) => CoversFile(merged, f)
<1> DEFINE merged == Mips!MergeFlags(flags, new)
           cpic == [new EXCEPT !.cpic = @ \/ new.pic]
<1>1. flags.isa \in Mips!Isas /\ new.isa \in Mips!Isas /\ "none" \notin Mips!Isas
  BY DEF Mips!Flags, Mips!Isas
<1>2. flags # Mips!NoFlags
  BY <1>1 DEF Mips!NoFlags
<1>3. /\ cpic.isa = new.isa /\ cpic.pic = new.pic /\ cpic.micro = new.micro
      /\ cpic.cpic = (new.cpic \/ new.pic)
  BY DEF Mips!Flags
<1>4. /\ merged.isa = Mips!MergedISA(flags, cpic)
      /\ merged.pic = (flags.pic /\ new.pic)
      /\ merged.cpic = (flags.cpic \/ new.cpic \/ new.pic)
      /\ merged.micro = (flags.micro \/ new.micro)
      /\ merged.nan = flags.nan
  BY <1>2, <1>3 DEF Mips!MergeFlags
<1>5. merged.isa \in Mips!Isas /\ new.isa \in Runs[merged.isa] /\ flags.isa \in Runs[merged.isa]
  <2>1. CASE Mips!MatchMipsISA(new.isa, flags.isa)
    BY <1>1, <1>3, <1>4, <2>1, MatchRuns, RunsItself DEF Mips!MergedISA
  <2>2. CASE ~Mips!MatchMipsISA(new.isa, flags.isa)
    <3>1. Mips!MatchMipsISA(flags.isa, new.isa)
      BY <1>2, <2>2 DEF Mips!Mergeable
    <3> QED BY <1>1, <1>3, <1>4, <2>2, <3>1, MatchRuns, RunsItself DEF Mips!MergedISA
  <2> QED BY <2>1, <2>2
<1>6. new.nan = flags.nan
  BY <1>2 DEF Mips!Mergeable
<1>7. merged = [isa |-> Mips!MergedISA(flags, cpic), pic |-> flags.pic /\ cpic.pic,
                cpic |-> flags.cpic \/ cpic.cpic, micro |-> flags.micro \/ cpic.micro,
                nan |-> flags.nan]
  BY <1>2 DEF Mips!MergeFlags
<1> HIDE DEF merged
<1>8. merged \in Mips!Flags
  <2>1. /\ merged.pic \in BOOLEAN /\ merged.cpic \in BOOLEAN /\ merged.micro \in BOOLEAN
        /\ merged.nan \in BOOLEAN
    BY <1>4 DEF Mips!Flags
  <2>2. merged = [isa |-> merged.isa, pic |-> merged.pic, cpic |-> merged.cpic,
                  micro |-> merged.micro, nan |-> merged.nan]
    BY <1>7
  <2> QED BY <1>5, <2>1, <2>2 DEF Mips!Flags
<1>9. CoversFile(merged, new)
  BY <1>4, <1>5, <1>6 DEF CoversFile
<1>10. ASSUME NEW f \in Mips!Flags, CoversFile(flags, f) PROVE CoversFile(merged, f)
  <2>1. f.isa \in Runs[merged.isa]
    BY <1>5, <1>10, RunsClimb DEF CoversFile
  <2> QED BY <1>4, <1>10, <2>1 DEF CoversFile
<1> QED BY <1>8, <1>9, <1>10 DEF merged

\* The first file.
LEMMA FirstCovers ==
  ASSUME NEW new \in Mips!Flags
  PROVE  LET merged == Mips!MergeFlags(Mips!NoFlags, new) IN
         merged \in Mips!Flags /\ CoversFile(merged, new)
<1> DEFINE cpic == [new EXCEPT !.cpic = @ \/ new.pic]
<1>1. Mips!MergeFlags(Mips!NoFlags, new) = cpic
  BY DEF Mips!MergeFlags
<1>2. /\ cpic.isa = new.isa /\ cpic.pic = new.pic /\ cpic.micro = new.micro
      /\ cpic.cpic = (new.cpic \/ new.pic) /\ cpic.nan = new.nan
  BY DEF Mips!Flags
<1>3. cpic \in Mips!Flags
  BY DEF Mips!Flags
<1>4. cpic.isa \in Runs[cpic.isa]
  BY <1>2, RunsItself DEF Mips!Flags
<1> QED BY <1>1, <1>2, <1>3, <1>4 DEF CoversFile

-----------------------------------------------------------------------------
(***************************************************************************)
(* The pass of MIPS reads the flags and does not change them.              *)
(***************************************************************************)

Merging == {"flags", "merged", "refused"}

Keeps(p, q) ==
  /\ Merging \subseteq DOMAIN q
  /\ q.flags = p.flags /\ q.merged = p.merged /\ q.refused = p.refused

LEMMA KeepsItself == ASSUME NEW p, Merging \subseteq DOMAIN p PROVE Keeps(p, p)
  BY DEF Keeps

LEMMA EntryKeeps ==
  ASSUME NEW p, Merging \subseteq DOMAIN p, NEW field, field \notin Merging, NEW key,
         NEW vector, vector \notin Merging, NEW atom
  PROVE  Keeps(p, Mips!Entry(p, field, key, vector, atom))
<1> DEFINE n == Len(p.made) + 1
           q == [p EXCEPT !.made = Append(@, atom), ![field] = Mips!With(@, key, n),
                          ![vector] = Append(@, n)]
<1>1. Keeps(p, q)
  BY DEF Keeps, Merging
<1> HIDE DEF q
<1>2. Mips!Entry(p, field, key, vector, atom) \in {p, q}
  BY DEF Mips!Entry, q
<1> QED BY <1>1, <1>2, KeepsItself

LEMMA GetsKeep ==
  ASSUME NEW p, Merging \subseteq DOMAIN p, NEW t, NEW addend
  PROVE  /\ Keeps(p, Mips!GetLocalGOTEntry(p, t, addend))
         /\ Keeps(p, Mips!GetLocalGOTPageEntry(p, t, addend))
         /\ Keeps(p, Mips!GetGlobalGOTEntry(p, t))
         /\ Keeps(p, Mips!GetTLSGOTEntry(p, t))
         /\ Keeps(p, Mips!GetTLSGdGOTEntry(p, t))
         /\ Keeps(p, Mips!GetGOTPLTEntry(p, t))
         /\ Keeps(p, Mips!GetLA25RegEntry(p, t))
         /\ Keeps(p, Mips!GetLA25MicroEntry(p, t))
         /\ Keeps(p, Mips!GetObjectEntry(p, t))
  BY EntryKeeps
  DEF Merging, Mips!GetLocalGOTEntry, Mips!GetLocalGOTPageEntry, Mips!GetGlobalGOTEntry,
      Mips!GetTLSGOTEntry, Mips!GetTLSGdGOTEntry, Mips!GetGOTPLTEntry, Mips!GetLA25RegEntry,
      Mips!GetLA25MicroEntry, Mips!GetObjectEntry

LEMMA LdmKeeps ==
  ASSUME NEW p, Merging \subseteq DOMAIN p
  PROVE  Keeps(p, Mips!GetTLSLdmGOTEntry(p))
  BY DEF Mips!GetTLSLdmGOTEntry, Keeps, Merging

LEMMA PLTKeeps ==
  ASSUME NEW p, Merging \subseteq DOMAIN p, NEW t
  PROVE  Keeps(p, Mips!GetPLTRegEntry(p, t)) /\ Keeps(p, Mips!GetPLTMicroEntry(p, t))
<1>1. ASSUME NEW field, field \notin Merging, NEW vector, vector \notin Merging, NEW role
      PROVE  Keeps(p, Mips!PLTEntry(p, t, field, vector, role))
  <2> DEFINE q == Mips!GetGOTPLTEntry(p, t)
             atom == Mips!Atom(role, ".plt", t[2],
                               {Mips!To("address", Mips!Made(q.gotplt[t]))} \cup Mips!StoPlt(p, t))
             e == Mips!Entry(q, field, t, vector, atom)
  <2>1. Keeps(p, q)
    BY GetsKeep
  <2> HIDE DEF q
  <2>2. Keeps(q, e)
    <3>1. Merging \subseteq DOMAIN q
      BY <2>1 DEF Keeps
    <3> HIDE DEF atom
    <3> QED BY <1>1, <3>1, EntryKeeps
  <2>3. Mips!PLTEntry(p, t, field, vector, role) \in {p, e}
    BY DEF Mips!PLTEntry, q
  <2> HIDE DEF e
  <2>4. Keeps(p, e)
    BY <2>1, <2>2 DEF Keeps
  <2> QED BY <2>3, <2>4, KeepsItself
<1> QED BY <1>1 DEF Merging, Mips!GetPLTRegEntry, Mips!GetPLTMicroEntry

\* What a change of p that keeps its flags leads to, keeps those of p.
LEMMA KeepsOn == ASSUME NEW p, NEW q, NEW r, Keeps(p, q), Keeps(q, r) PROVE Keeps(p, r)
  BY DEF Keeps

LEMMA PlainKeeps ==
  ASSUME NEW l, NEW p, Merging \subseteq DOMAIN p, NEW t
  PROVE  Keeps(p, Mips!HandlePlain(l, p, t).p)
<1>1. Keeps(p, Mips!PLTFor(p, t).p)
  <2>1. \A x : Mips!Answer(p, x).p = p
    BY DEF Mips!Answer
  <2>2. \A x : /\ Mips!Answer(Mips!GetPLTMicroEntry(p, t), x).p = Mips!GetPLTMicroEntry(p, t)
               /\ Mips!Answer(Mips!GetPLTRegEntry(p, t), x).p = Mips!GetPLTRegEntry(p, t)
    BY DEF Mips!Answer
  <2>3. Mips!PLTFor(p, t).p \in {p, Mips!GetPLTMicroEntry(p, t), Mips!GetPLTRegEntry(p, t)}
    BY <2>1, <2>2 DEF Mips!PLTFor
  <2> QED BY <2>3, PLTKeeps, KeepsItself
<1>2. Mips!HandlePlain(l, p, t).p \in {p, Mips!PLTFor(p, t).p, Mips!GetObjectEntry(p, t)}
  BY DEF Mips!HandlePlain, Mips!Answer
<1> QED BY <1>1, <1>2, GetsKeep, KeepsItself

LEMMA JumpKeeps ==
  ASSUME NEW p, Merging \subseteq DOMAIN p, NEW t, NEW isMicro
  PROVE  Keeps(p, Mips!Handle26(p, t, isMicro).p)
<1>1. Mips!Handle26(p, t, isMicro).p \in
        {p, Mips!GetPLTMicroEntry(p, t), Mips!GetPLTRegEntry(p, t),
         Mips!GetLA25MicroEntry(p, t), Mips!GetLA25RegEntry(p, t)}
  BY DEF Mips!Handle26, Mips!Answer
<1> QED BY <1>1, GetsKeep, PLTKeeps, KeepsItself

LEMMA GOTKeeps ==
  ASSUME NEW l, NEW p, Merging \subseteq DOMAIN p, NEW t, NEW r
  PROVE  Keeps(p, Mips!HandleGOT(l, p, t, r).p)
<1>1. Mips!HandleGOT(l, p, t, r).p \in
        {Mips!GetGlobalGOTEntry(p, t), Mips!GetLocalGOTPageEntry(p, t, r.addend),
         Mips!GetLocalGOTEntry(p, t, r.addend)}
  BY DEF Mips!HandleGOT, Mips!Answer
<1> QED BY <1>1, GetsKeep

\* handleReference
LEMMA HandleKeeps ==
  ASSUME NEW l, NEW p, Merging \subseteq DOMAIN p, NEW r
  PROVE  Keeps(p, Mips!Handle(l, p, r).p)
<1> DEFINE t == Mips!Sym(r.sym)
<1>1. Mips!Handle(l, p, r).p \in
        {p, Mips!HandlePlain(l, p, t).p, Mips!Handle26(p, t, r.kind = "26_S1").p,
         Mips!HandleGOT(l, p, t, r).p, Mips!GetTLSGdGOTEntry(p, t),
         Mips!GetTLSLdmGOTEntry(p), Mips!GetTLSGOTEntry(p, t)}
  BY DEF Mips!Handle, Mips!Answer
<1> HIDE DEF t
<1> QED BY <1>1, PlainKeeps, JumpKeeps, GOTKeeps, GetsKeep, LdmKeeps, KeepsItself

LEMMA RelocatingKeeps ==
  ASSUME NEW l, NEW to, NEW p, Merging \subseteq DOMAIN p, NEW k
  PROVE  Keeps(p, Mips!MakeRel32(l, to, p, k))
<1> DEFINE q == [p EXCEPT !.rel32 = @ \cup {k}]
<1>1. Keeps(p, q) /\ Merging \subseteq DOMAIN q
  BY DEF Keeps, Merging
<1> HIDE DEF q
<1>2. Keeps(p, Mips!GetGlobalGOTEntry(q, to[k]))
  BY <1>1, GetsKeep, KeepsOn
<1>3. Mips!MakeRel32(l, to, p, k) \in {p, q, Mips!GetGlobalGOTEntry(q, to[k])}
  BY DEF Mips!MakeRel32, q
<1> QED BY <1>1, <1>2, <1>3, KeepsItself

LEMMA HeaderKeeps ==
  ASSUME NEW p, Merging \subseteq DOMAIN p
  PROVE  Keeps(p, Mips!CreatePLTHeader(p))
  BY DEF Mips!CreatePLTHeader, Keeps, Merging

\* perform goes through the references one by one.
LEMMA PerformRuns ==
  ASSUME NEW l, Len(l.refs) \in Nat, NEW to, NEW p
  PROVE  \E f : /\ f[0] = p
                /\ \A k \in 1..Len(l.refs) : f[k] \in {f[k - 1], Mips!MakeRel32(l, to, f[k - 1], k)}
                /\ Mips!Perform(l, to, p) = Mips!CreatePLTHeader(f[Len(l.refs)])
<1> DEFINE N == Len(l.refs)
           Step(q, k) == IF k \in p.candidates THEN Mips!MakeRel32(l, to, q, k) ELSE q
           IsRun(f, n) == f = [k \in 0..n |-> IF k = 0 THEN p ELSE Step(f[k - 1], k)]
           made == CHOOSE f : IsRun(f, N)
           S == {n \in 0..N : \E f : IsRun(f, n)}
<1>0. N \in Nat
  OBVIOUS
<1>1. Mips!Perform(l, to, p) = Mips!CreatePLTHeader(made[N])
  BY DEF Mips!Perform
<1>2. IsRun(made, N)
  <2> HIDE DEF Step
  <2>1. 0 \in S
    <3>1. \E f : IsRun(f, 0)
      <4>1. IsRun([k \in 0..0 |-> p], 0)
        OBVIOUS
      <4> HIDE DEF IsRun
      <4> QED BY <4>1
    <3> HIDE DEF IsRun
    <3> QED BY <3>1
  <2>2. ASSUME NEW n \in 0..N, n \in S, n < N PROVE n + 1 \in S
    <3>1. PICK f : IsRun(f, n)
      BY <2>2
    <3> DEFINE g == [k \in 0..n + 1 |-> IF k <= n THEN f[k] ELSE Step(f[n], n + 1)]
    <3>2. \A k \in 0..n : f[k] = IF k = 0 THEN p ELSE Step(f[k - 1], k)
      BY <3>1
    <3>3. ASSUME NEW k \in 0..n + 1
          PROVE  g[k] = IF k = 0 THEN p ELSE Step(g[k - 1], k)
      <4>1. CASE k <= n
        <5>1. g[k] = f[k] /\ (k # 0 => g[k - 1] = f[k - 1])
          BY <4>1, <2>2
        <5>2. f[k] = IF k = 0 THEN p ELSE Step(f[k - 1], k)
          <6>1. k \in 0..n
            BY <4>1
          <6> QED BY <3>2, <6>1
        <5> HIDE DEF g
        <5> QED BY <5>1, <5>2
      <4>2. CASE k = n + 1
        <5>1. g[k] = Step(f[n], k) /\ g[k - 1] = f[n] /\ k # 0
          BY <4>2, <2>2
        <5> HIDE DEF g
        <5> QED BY <5>1
      <4> QED BY <4>1, <4>2, <2>2
    <3>4. g = [k \in 0..n + 1 |-> g[k]]
      OBVIOUS
    <3>5. IsRun(g, n + 1)
      <4> HIDE DEF g
      <4> QED BY <3>3, <3>4
    <3> HIDE DEF g, IsRun
    <3> QED BY <3>5, <2>2
  <2>3. N \in S
    <3> HIDE DEF S, N
    <3>1. \A n \in 0..N : n \in S
      BY <1>0, <2>1, <2>2, UpToInduction
    <3> QED BY <1>0, <3>1
  <2> QED BY <2>3
<1>3. \A k \in 0..N : made[k] = IF k = 0 THEN p ELSE Step(made[k - 1], k)
  <2> HIDE DEF Step
  <2> QED BY <1>2
<1> HIDE DEF made
<1>4. made[0] = p
  BY <1>0, <1>3
<1>5. \A k \in 1..N : made[k] \in {made[k - 1], Mips!MakeRel32(l, to, made[k - 1], k)}
  <2> SUFFICES ASSUME NEW k \in 1..N
               PROVE  made[k] \in {made[k - 1], Mips!MakeRel32(l, to, made[k - 1], k)}
    OBVIOUS
  <2>1. k \in 0..N /\ k # 0
    BY <1>0
  <2> HIDE DEF N
  <2> QED BY <1>3, <2>1
<1> HIDE DEF N
<1>6. /\ made[0] = p
      /\ \A k \in 1..N : made[k] \in {made[k - 1], Mips!MakeRel32(l, to, made[k - 1], k)}
      /\ Mips!Perform(l, to, p) = Mips!CreatePLTHeader(made[N])
  BY <1>1, <1>4, <1>5
<1> QED BY <1>6 DEF N

LEMMA PerformKeeps ==
  ASSUME NEW l, Len(l.refs) \in Nat, NEW to, NEW p, Merging \subseteq DOMAIN p
  PROVE  Keeps(p, Mips!Perform(l, to, p))
<1> DEFINE N == Len(l.refs)
<1>1. PICK f : /\ f[0] = p
               /\ \A k \in 1..N : f[k] \in {f[k - 1], Mips!MakeRel32(l, to, f[k - 1], k)}
               /\ Mips!Perform(l, to, p) = Mips!CreatePLTHeader(f[N])
  BY PerformRuns
<1>2. N \in Nat
  OBVIOUS
<1> HIDE DEF N
<1> DEFINE R == {k \in 0..N : Keeps(p, f[k])}
<1>3. 0 \in R
  BY <1>1, <1>2, KeepsItself
<1>4. ASSUME NEW n \in 0..N, n \in R, n < N PROVE n + 1 \in R
  <2>1. n + 1 \in 1..N /\ n + 1 - 1 = n /\ n + 1 \in 0..N
    BY <1>2, <1>4
  <2>2. f[n + 1] \in {f[n], Mips!MakeRel32(l, to, f[n], n + 1)}
    BY <1>1, <2>1
  <2>3. Keeps(p, f[n]) /\ Merging \subseteq DOMAIN f[n]
    BY <1>4 DEF Keeps
  <2>4. Keeps(p, f[n + 1])
    BY <2>2, <2>3, RelocatingKeeps, KeepsOn
  <2> QED BY <2>1, <2>4
<1>5. N \in R
  <2> HIDE DEF R
  <2>1. \A n \in 0..N : n \in R
    BY <1>2, <1>3, <1>4, UpToInduction
  <2> QED BY <1>2, <2>1
<1>6. Keeps(p, f[N]) /\ Merging \subseteq DOMAIN f[N]
  BY <1>5 DEF Keeps
<1> QED BY <1>1, <1>6, HeaderKeeps, KeepsOn

LEMMA CollectKeeps ==
  ASSUME NEW l, NEW p, Merging \subseteq DOMAIN p
  PROVE  Keeps(p, Mips!Collect(l, p))
  BY DEF Mips!Collect, Keeps, Merging

-----------------------------------------------------------------------------
(***************************************************************************)
(* Every link.                                                             *)
(***************************************************************************)

\* What the workers have merged so far is covered; nothing is merged before
\* the first file, and only then are the flags those of no file.
FlagsInv ==
  /\ link \in Inputs
  /\ Arch = "mips" =>
       /\ Merging \subseteq DOMAIN s
       /\ s.merged \subseteq DOMAIN link.files
       /\ IF s.merged = {} THEN s.flags = Mips!NoFlags
          ELSE s.flags \in Mips!Flags /\ \A k \in s.merged : CoversFile(s.flags, link.files[k])

LEMMA FlagsInit == Init => FlagsInv
<1> SUFFICES ASSUME Init PROVE FlagsInv
  OBVIOUS
<1>1. CASE Arch = "mips"
  <2>1. s = Mips!Nothing
    BY <1>1 DEF Init
  <2>2. Merging \subseteq DOMAIN s /\ s.merged = {} /\ s.flags = Mips!NoFlags
    BY <2>1 DEF Mips!Nothing, Merging
  <2> QED BY <2>2 DEF Init, FlagsInv
<1>2. CASE Arch # "mips"
  BY <1>2 DEF Init, FlagsInv
<1> QED BY <1>1, <1>2

LEMMA FlagsMerge == FlagsInv /\ MergeHeaderFlags => FlagsInv'
<1> SUFFICES ASSUME FlagsInv, MergeHeaderFlags PROVE FlagsInv'
  OBVIOUS
<1>1. /\ Arch = "mips" /\ link \in Inputs /\ link' = link /\ Arch' = Arch
      /\ Merging \subseteq DOMAIN s /\ s.merged \subseteq DOMAIN link.files
      /\ s.merged = {} => s.flags = Mips!NoFlags
      /\ s.merged # {} => /\ s.flags \in Mips!Flags
                          /\ \A k \in s.merged : CoversFile(s.flags, link.files[k])
  BY DEF FlagsInv, MergeHeaderFlags, Arch
<1>2. PICK k \in DOMAIN link.files \ s.merged :
        IF Mips!Mergeable(s.flags, link.files[k])
        THEN s' = [s EXCEPT !.flags = Mips!MergeFlags(@, link.files[k]), !.merged = @ \cup {k}]
        ELSE s' = [s EXCEPT !.refused = TRUE]
  BY DEF MergeHeaderFlags
<1>3. \A j \in DOMAIN link.files : link.files[j] \in Mips!Flags
  BY <1>1, InputsAssumption DEF Arch
<1>4. CASE ~Mips!Mergeable(s.flags, link.files[k])
  <2>1. Merging \subseteq DOMAIN s' /\ s'.flags = s.flags /\ s'.merged = s.merged
    BY <1>1, <1>2, <1>4 DEF Merging
  <2> QED BY <1>1, <2>1 DEF FlagsInv
<1>5. CASE Mips!Mergeable(s.flags, link.files[k])
  <2> DEFINE new == Mips!MergeFlags(s.flags, link.files[k])
  <2>1. /\ Merging \subseteq DOMAIN s' /\ s'.flags = new /\ s'.merged = s.merged \cup {k}
        /\ s'.merged \subseteq DOMAIN link.files /\ s'.merged # {}
    <3>1. s' = [s EXCEPT !.flags = new, !.merged = s.merged \cup {k}]
      BY <1>2, <1>5
    <3> HIDE DEF new
    <3>2. Merging \subseteq DOMAIN s' /\ s'.flags = new /\ s'.merged = s.merged \cup {k}
      BY <1>1, <3>1 DEF Merging
    <3> QED BY <1>1, <1>2, <3>2
  <2>2. /\ new \in Mips!Flags /\ CoversFile(new, link.files[k])
        /\ \A j \in s.merged : CoversFile(new, link.files[j])
    <3>1. CASE s.merged = {}
      BY <1>1, <1>2, <1>3, <3>1, FirstCovers
    <3>2. CASE s.merged # {}
      BY <1>1, <1>2, <1>3, <1>5, <3>2, MergeCovers
    <3> QED BY <3>1, <3>2
  <2> HIDE DEF new
  <2> QED BY <1>1, <2>1, <2>2 DEF FlagsInv
<1> QED BY <1>4, <1>5

LEMMA FlagsKept ==
  ASSUME FlagsInv, link' = link, Arch = "mips" => Keeps(s, s')
  PROVE  FlagsInv'
  BY DEF FlagsInv, Keeps, Arch

LEMMA FlagsNext == FlagsInv /\ [Next]_vars => FlagsInv'
<1> SUFFICES ASSUME FlagsInv, [Next]_vars PROVE FlagsInv'
  OBVIOUS
<1>0. /\ link \in Inputs /\ Len(link.refs) \in Nat
      /\ Arch = "mips" => Merging \subseteq DOMAIN s
  BY InputsAssumption DEF FlagsInv
<1>1. CASE MergeHeaderFlags
  BY <1>1, FlagsMerge
<1>2. CASE CollectReferenceInfo
  <2>1. link' = link /\ s' = Mips!Collect(link, s)
    BY <1>2 DEF CollectReferenceInfo
  <2> QED BY <1>0, <2>1, CollectKeeps, FlagsKept
<1>3. CASE HandleReference
  <2>1. link' = link /\ s' = Handle(link.refs[next]).p
    BY <1>3 DEF HandleReference
  <2>2. Arch = "mips" => s' = Mips!Handle(link, s, link.refs[next]).p
    BY <2>1 DEF Handle
  <2> QED BY <1>0, <2>1, <2>2, HandleKeeps, FlagsKept
<1>4. CASE Finish
  <2>1. link' = link /\ (Arch = "mips" => s' = Mips!Perform(link, targets, s))
    BY <1>4 DEF Finish
  <2> QED BY <1>0, <2>1, PerformKeeps, FlagsKept
<1>5. CASE UNCHANGED vars
  <2>1. link' = link /\ s' = s
    BY <1>5 DEF vars
  <2> QED BY <1>0, <2>1, KeepsItself, FlagsKept
<1> QED BY <1>1, <1>2, <1>3, <1>4, <1>5 DEF Next

\* In every MIPS link, of any files and in whatever order the workers come to
\* merge their ELF flags, the flags merged so far - those the pass chooses
\* microMIPS stubs by and the writer puts in the header - name an instruction
\* set that runs the code of every file merged, say that the output is position
\* independent only if every file is, and that it has microMIPS code and calls
\* through $25 if any has; and they still do when the pass is done.
\* (mergeHeaderFlags, matchMipsISA)
THEOREM FlagsCoverEveryFile == Spec => []FlagsCover
<1>1. FlagsInv => FlagsCover
  BY DEF FlagsInv, FlagsCover, CoversFile
<1> QED BY <1>1, FlagsInit, FlagsNext, PTL DEF Spec

-----------------------------------------------------------------------------
(***************************************************************************)
(* The stubs.                                                              *)
(***************************************************************************)

\* A sequence of anything.
IsSeq(m) == m \in Seq({m[i] : i \in DOMAIN m})

HasAtom(p, i, role) == i \in 1..Len(p.made) /\ p.made[i].role = role

IsBound(p, g) ==
  \E x \in p.made[g].refs :
    /\ x.kind = "address" /\ IsMade(x.to)
    /\ \/ x.to[2] = p.plt0
       \/ x.to[2] \in 1..Len(p.made) /\ \E y \in p.made[x.to[2]].refs : y.to = Made(p.plt0)
WaitsForLoader(p, g) == HasAtom(p, g, "got") /\ \E x \in p.made[g].refs : x.kind = "jump_slot"

\* The fields of a pass that stubs are found by.
StubFields == {"made", "plt", "pltVeneer", "veneer", "plt0"}

\* A PLT atom is made behind its slot, and refers to that and to PLT0 at most.
ToPLT0(p) == IF p.plt0 = 0 THEN {} ELSE {To("address", Made(p.plt0))}
IsStub(p, x, i) ==
  /\ HasAtom(p, i, "plt") /\ HasAtom(p, i - 1, "got")
  /\ To("address", Made(i - 1)) \in p.made[i].refs
  /\ p.made[i].refs \subseteq {To("address", Made(i - 1))} \cup ToPLT0(p)
  /\ Arch # "or1k" => \E y \in p.made[i - 1].refs :
                        y.kind \in {"jump_slot", "irelative"} /\ y.to = Sym(x)

IsPLTVeneer(p, x, i) ==
  /\ x \in DOMAIN p.plt /\ HasAtom(p, i, "pltveneer")
  /\ p.made[i].refs = {To("none", Made(p.plt[x]))}

IsVeneer(p, x, i) == HasAtom(p, i, IF x \in Thumb THEN "armveneer" ELSE "thumbveneer")

ElfStubs(p) ==
  /\ StubFields \subseteq DOMAIN p /\ IsSeq(p.made)
  /\ p.plt0 # 0 => HasAtom(p, p.plt0, "plt0")
  /\ \A x \in DOMAIN p.plt : IsStub(p, x, p.plt[x])
  /\ \A x \in DOMAIN p.pltVeneer : IsPLTVeneer(p, x, p.pltVeneer[x])
  /\ \A x \in DOMAIN p.veneer : IsVeneer(p, x, p.veneer[x])
  /\ \A g \in 1..Len(p.made) : WaitsForLoader(p, g) => p.plt0 # 0 /\ IsBound(p, g)

\* The maps of the MIPS pass that stubs are found by, and what is in them.
RoleIn == [gotplt |-> "got", pltReg |-> "plt", pltMicro |-> "pltmicro",
           la25Reg |-> "la25", la25Micro |-> "la25micro"]
MipsMaps == {"gotplt", "pltReg", "pltMicro", "la25Reg", "la25Micro"}

IsEntry(p, field, t, i) ==
  /\ HasAtom(p, i, RoleIn[field])
  /\ field = "gotplt" => To("jump_slot", t) \in p.made[i].refs
  /\ field \in {"pltReg", "pltMicro"} =>
       /\ t \in DOMAIN p.gotplt /\ To("address", Made(p.gotplt[t])) \in p.made[i].refs
       /\ \A x \in p.made[i].refs : IsMade(x.to) => x.to = Made(p.gotplt[t])

IsAtom(atom) == {"role", "refs"} \subseteq DOMAIN atom

MipsStubs(p) ==
  /\ {"made", "plt0"} \cup MipsMaps \subseteq DOMAIN p /\ IsSeq(p.made)
  /\ \A i \in 1..Len(p.made) : IsAtom(p.made[i])
  /\ \A field \in MipsMaps : \A t \in DOMAIN p[field] : IsEntry(p, field, t, p[field][t])
  /\ p.plt0 # 0 => \A g \in 1..Len(p.made) : WaitsForLoader(p, g) => IsBound(p, g)

\* Where a call of a symbol that the linker cannot bind goes, and a branch
\* that cannot switch the instruction set.
NeedsStub(r) == IsCode(r) /\ KindOf[r.sym] \in {"resolver", "code"}

ElfTargetIsRight(p, r, t) ==
  /\ NeedsStub(r) =>
       IF Arch = "arm" /\ r.thumb
       THEN r.sym \in DOMAIN p.pltVeneer /\ t = Made(p.pltVeneer[r.sym])
       ELSE r.sym \in DOMAIN p.plt /\ t = Made(p.plt[r.sym])
  /\ CannotSwitch(r, t) /\ KindOf[r.sym] = "defined" =>
       IF (r.sym \in Thumb) # r.thumb
       THEN r.sym \in DOMAIN p.veneer /\ t = Made(p.veneer[r.sym])
       ELSE t = Sym(r.sym)

MipsTargetIsRight(p, r, t) ==
  IsCode(r) =>
    IF KindOf[r.sym] = "code"
    THEN IF r.thumb THEN Sym(r.sym) \in DOMAIN p.pltMicro /\ t = Made(p.pltMicro[Sym(r.sym)])
         ELSE Sym(r.sym) \in DOMAIN p.pltReg /\ t = Made(p.pltReg[Sym(r.sym)])
    ELSE IsMade(t) => HasAtom(p, t[2], IF r.thumb THEN "la25micro" ELSE "la25")

\* Of the references before the n-th, and of all of them when n is behind.
ElfInv(p, to, n) ==
  /\ ElfStubs(p)
  /\ \A k \in DOMAIN link.refs : k < n => ElfTargetIsRight(p, link.refs[k], to[k])
MipsInv(p, to, n) ==
  /\ MipsStubs(p)
  /\ n <= Len(link.refs) + 1 => p.plt0 = 0
  /\ \A k \in DOMAIN link.refs : k < n => MipsTargetIsRight(p, link.refs[k], to[k])

StubsInv ==
  /\ link \in Inputs /\ next \in Nat
  /\ DOMAIN targets = DOMAIN link.refs
  /\ IF Arch = "mips" THEN MipsInv(s, targets, next) ELSE ElfInv(s, targets, next)
-----------------------------------------------------------------------------
(***************************************************************************)
(* OR1K, x86_64, AArch64 and ARM: what the pass makes leaves what it has   *)
(* made alone.                                                             *)
(***************************************************************************)

ElfGrows(p, q) ==
  /\ StubFields \subseteq DOMAIN q /\ IsSeq(q.made) /\ Len(p.made) <= Len(q.made)
  /\ \A i \in 1..Len(p.made) : q.made[i] = p.made[i]
  /\ \A x \in DOMAIN p.plt : x \in DOMAIN q.plt /\ q.plt[x] = p.plt[x]
  /\ \A x \in DOMAIN p.pltVeneer : x \in DOMAIN q.pltVeneer /\ q.pltVeneer[x] = p.pltVeneer[x]
  /\ \A x \in DOMAIN p.veneer : x \in DOMAIN q.veneer /\ q.veneer[x] = p.veneer[x]
  /\ p.plt0 # 0 => q.plt0 = p.plt0

\* What one operation of the pass gives.
ElfGood(p, q) == ElfStubs(q) /\ ElfGrows(p, q)

SameStubs(p, q) ==
  /\ StubFields \subseteq DOMAIN q
  /\ q.plt = p.plt /\ q.pltVeneer = p.pltVeneer /\ q.veneer = p.veneer /\ q.plt0 = p.plt0

LEMMA SeqIs ==
  ASSUME NEW m, IsSeq(m)
  PROVE  Len(m) \in Nat /\ DOMAIN m = 1..Len(m)
  BY DEF IsSeq

LEMMA AppendIs ==
  ASSUME NEW m, IsSeq(m), NEW a
  PROVE  /\ IsSeq(Append(m, a)) /\ Len(Append(m, a)) = Len(m) + 1
         /\ \A i \in 1..Len(m) : Append(m, a)[i] = m[i]
         /\ Append(m, a)[Len(m) + 1] = a
<1> DEFINE S == {m[i] : i \in DOMAIN m}
           T == S \cup {a}
           q == Append(m, a)
<1>1. m \in Seq(T) /\ a \in T
  <2>1. m \in Seq(S)
    BY DEF IsSeq
  <2>2. m \in [1..Len(m) -> S] /\ Len(m) \in Nat
    BY <2>1
  <2> HIDE DEF S
  <2>3. m \in [1..Len(m) -> T]
    BY <2>2
  <2> HIDE DEF T
  <2> QED BY <2>2, <2>3 DEF T
<1> HIDE DEF S
<1>2. /\ Len(m) \in Nat /\ Len(q) = Len(m) + 1 /\ DOMAIN q = 1..Len(m) + 1
      /\ \A i \in 1..Len(m) : q[i] = m[i]
      /\ q[Len(m) + 1] = a
  <2> HIDE DEF T
  <2> QED BY <1>1
<1>3. q = [i \in 1..Len(m) + 1 |-> q[i]]
  <2> HIDE DEF T
  <2>1. q \in Seq(T)
    BY <1>1
  <2>2. q \in [1..Len(q) -> T]
    <3> HIDE DEF q
    <3> QED BY <2>1
  <2> HIDE DEF q
  <2> QED BY <1>2, <2>2
<1>4. q \in Seq({q[i] : i \in DOMAIN q})
  <2> DEFINE U == {q[i] : i \in DOMAIN q}
             n == Len(m) + 1
  <2>1. n \in Nat
    BY <1>2
  <2>2. q \in [1..n -> U]
    <3>1. \A i \in 1..n : q[i] \in U
      BY <1>2
    <3> HIDE DEF q, U
    <3> QED BY <1>3, <3>1
  <2> HIDE DEF q, U, n
  <2>3. q \in Seq(U)
    BY <2>1, <2>2
  <2> QED BY <2>3 DEF U
<1> QED BY <1>2, <1>4 DEF IsSeq

LEMMA GrowsItself == ASSUME NEW p, ElfStubs(p) PROVE ElfGood(p, p)
<1>1. IsSeq(p.made) /\ StubFields \subseteq DOMAIN p
  BY DEF ElfStubs
<1>2. Len(p.made) <= Len(p.made)
  BY <1>1, SeqIs
<1> QED BY <1>1, <1>2 DEF ElfGood, ElfGrows

LEMMA GrowsOn ==
  ASSUME NEW p, ElfStubs(p), NEW q, NEW r, ElfGood(p, q), ElfGood(q, r)
  PROVE  ElfGood(p, r)
<1>1. /\ Len(p.made) \in Nat /\ Len(q.made) \in Nat /\ Len(r.made) \in Nat
      /\ Len(p.made) <= Len(q.made) /\ Len(q.made) <= Len(r.made)
  BY SeqIs DEF ElfGood, ElfStubs, ElfGrows
<1>2. \A i \in 1..Len(p.made) : r.made[i] = p.made[i]
  <2>1. /\ \A i \in 1..Len(p.made) : q.made[i] = p.made[i]
        /\ \A i \in 1..Len(q.made) : r.made[i] = q.made[i]
    BY DEF ElfGood, ElfGrows
  <2> QED BY <1>1, <2>1
<1>3. /\ \A x \in DOMAIN p.plt : x \in DOMAIN r.plt /\ r.plt[x] = p.plt[x]
      /\ \A x \in DOMAIN p.pltVeneer : x \in DOMAIN r.pltVeneer /\ r.pltVeneer[x] = p.pltVeneer[x]
      /\ \A x \in DOMAIN p.veneer : x \in DOMAIN r.veneer /\ r.veneer[x] = p.veneer[x]
      /\ p.plt0 # 0 => r.plt0 = p.plt0
  BY DEF ElfGood, ElfGrows
<1> QED BY <1>1, <1>2, <1>3 DEF ElfGood, ElfGrows

\* What holds of an atom holds after the pass has grown.
LEMMA AtomsStay ==
  ASSUME NEW p, ElfStubs(p), NEW q, ElfGrows(p, q)
  PROVE  /\ \A i, role : HasAtom(p, i, role) => HasAtom(q, i, role)
         /\ p.plt0 # 0 => HasAtom(q, q.plt0, "plt0")
         /\ \A x \in DOMAIN p.plt : IsStub(q, x, p.plt[x])
         /\ \A x \in DOMAIN p.pltVeneer : IsPLTVeneer(q, x, p.pltVeneer[x])
         /\ \A x \in DOMAIN p.veneer : IsVeneer(q, x, p.veneer[x])
         /\ \A g \in 1..Len(p.made) : WaitsForLoader(q, g) => q.plt0 # 0 /\ IsBound(q, g)
<1>0. /\ Len(p.made) \in Nat /\ Len(q.made) \in Nat /\ Len(p.made) <= Len(q.made)
      /\ \A i \in 1..Len(p.made) : i \in 1..Len(q.made) /\ q.made[i] = p.made[i]
  BY SeqIs DEF ElfStubs, ElfGrows
<1>1. \A i, role : HasAtom(p, i, role) => HasAtom(q, i, role) /\ q.made[i] = p.made[i]
  BY <1>0 DEF HasAtom
<1>2. p.plt0 # 0 => HasAtom(q, q.plt0, "plt0")
  BY <1>1 DEF ElfStubs, ElfGrows
<1>3. ToPLT0(p) \subseteq ToPLT0(q)
  BY DEF ToPLT0, ElfGrows
<1>4. \A x \in DOMAIN p.plt : IsStub(q, x, p.plt[x])
  <2>1. ASSUME NEW x, NEW i, IsStub(p, x, i) PROVE IsStub(q, x, i)
    <3>1. /\ HasAtom(q, i, "plt") /\ q.made[i] = p.made[i]
          /\ HasAtom(q, i - 1, "got") /\ q.made[i - 1] = p.made[i - 1]
      BY <1>1, <2>1 DEF IsStub
    <3> QED BY <1>3, <2>1, <3>1 DEF IsStub
  <2> QED BY <2>1 DEF ElfStubs
<1>5. ASSUME NEW x \in DOMAIN p.pltVeneer
      PROVE  IsPLTVeneer(q, x, p.pltVeneer[x])
  BY <1>1 DEF ElfStubs, ElfGrows, IsPLTVeneer
<1>6. \A x \in DOMAIN p.veneer : IsVeneer(q, x, p.veneer[x])
  BY <1>1 DEF ElfStubs, IsVeneer
<1>7. ASSUME NEW g \in 1..Len(p.made), WaitsForLoader(q, g)
      PROVE  q.plt0 # 0 /\ IsBound(q, g)
  <2>1. q.made[g] = p.made[g]
    BY <1>0
  <2>2. WaitsForLoader(p, g)
    BY <1>7, <2>1 DEF WaitsForLoader, HasAtom
  <2>3. p.plt0 # 0 /\ IsBound(p, g) /\ q.plt0 = p.plt0
    BY <2>2 DEF ElfStubs, ElfGrows
  <2> QED BY <1>0, <2>1, <2>3 DEF IsBound
<1> QED BY <1>1, <1>2, <1>4, <1>5, <1>6, <1>7

\* An atom more: a GOT entry that the loader need not bind, or what is no GOT
\* entry.
LEMMA OneMore ==
  ASSUME NEW p, ElfStubs(p), NEW atom, NEW q, SameStubs(p, q), q.made = Append(p.made, atom),
         atom.role = "got" => \A x \in atom.refs : x.kind # "jump_slot"
  PROVE  ElfGood(p, q)
<1>1. /\ IsSeq(p.made) /\ IsSeq(q.made) /\ Len(p.made) \in Nat /\ Len(q.made) = Len(p.made) + 1
      /\ \A i \in 1..Len(p.made) : q.made[i] = p.made[i]
      /\ q.made[Len(p.made) + 1] = atom
  BY AppendIs, SeqIs DEF ElfStubs
<1>2. ElfGrows(p, q)
  BY <1>1 DEF ElfGrows, SameStubs
<1>3. \A g \in 1..Len(q.made) : WaitsForLoader(q, g) => q.plt0 # 0 /\ IsBound(q, g)
  <2> SUFFICES ASSUME NEW g \in 1..Len(q.made), WaitsForLoader(q, g)
               PROVE  q.plt0 # 0 /\ IsBound(q, g)
    OBVIOUS
  <2>1. CASE g \in 1..Len(p.made)
    BY <1>2, <2>1, AtomsStay
  <2>2. CASE g = Len(p.made) + 1
    BY <1>1, <2>2 DEF WaitsForLoader, HasAtom
  <2> QED BY <1>1, <2>1, <2>2
<1>4. ElfStubs(q)
  <2>1. StubFields \subseteq DOMAIN q
    BY DEF SameStubs
  <2>2. /\ q.plt0 # 0 => HasAtom(q, q.plt0, "plt0")
        /\ \A x \in DOMAIN q.plt : IsStub(q, x, q.plt[x])
        /\ \A x \in DOMAIN q.pltVeneer : IsPLTVeneer(q, x, q.pltVeneer[x])
        /\ \A x \in DOMAIN q.veneer : IsVeneer(q, x, q.veneer[x])
    <3>1. q.plt = p.plt /\ q.pltVeneer = p.pltVeneer /\ q.veneer = p.veneer /\ q.plt0 = p.plt0
      BY DEF SameStubs
    <3>2. q.plt0 # 0 => HasAtom(q, q.plt0, "plt0")
      BY <1>2, <3>1, AtomsStay
    <3>3. \A x \in DOMAIN q.plt : IsStub(q, x, q.plt[x])
      BY <1>2, <3>1, AtomsStay
    <3>4. \A x \in DOMAIN q.pltVeneer : IsPLTVeneer(q, x, q.pltVeneer[x])
      BY <1>2, <3>1, AtomsStay
    <3>5. \A x \in DOMAIN q.veneer : IsVeneer(q, x, q.veneer[x])
      BY <1>2, <3>1, AtomsStay
    <3> QED BY <3>1, <3>2, <3>3, <3>4, <3>5
  <2> QED BY <1>1, <1>3, <2>1, <2>2 DEF ElfStubs
<1> QED BY <1>2, <1>4 DEF ElfGood

LEMMA SameIsGood ==
  ASSUME NEW p, ElfStubs(p), NEW q, SameStubs(p, q), q.made = p.made
  PROVE  ElfGood(p, q)
<1>1. StubFields \subseteq DOMAIN q
  BY DEF SameStubs
<1>2. ElfGrows(p, q)
  BY <1>1, SeqIs DEF ElfGrows, SameStubs, ElfStubs
<1>3. \A i, role : HasAtom(q, i, role) <=> HasAtom(p, i, role)
  BY DEF HasAtom
<1>4. /\ \A x, i : IsStub(p, x, i) => IsStub(q, x, i)
      /\ \A x, i : IsVeneer(p, x, i) => IsVeneer(q, x, i)
      /\ \A x, i : IsPLTVeneer(p, x, i) => IsPLTVeneer(q, x, i)
      /\ \A g : WaitsForLoader(q, g) => WaitsForLoader(p, g)
      /\ \A g : IsBound(p, g) => IsBound(q, g)
  BY <1>3 DEF IsStub, IsVeneer, IsPLTVeneer, WaitsForLoader, IsBound, ToPLT0, SameStubs
<1>5. ElfStubs(q)
  BY <1>1, <1>3, <1>4 DEF ElfStubs, SameStubs
<1> QED BY <1>2, <1>5 DEF ElfGood

LEMMA MakeIs ==
  ASSUME NEW p, ElfStubs(p), NEW atom
  PROVE  SameStubs(p, Make(p, atom)) /\ Make(p, atom).made = Append(p.made, atom)
  BY DEF ElfStubs, StubFields, SameStubs, Make

LEMMA MakeAdds ==
  ASSUME NEW p, StubFields \subseteq DOMAIN p, IsSeq(p.made), NEW atom, NEW q, q = Make(p, atom)
  PROVE  /\ SameStubs(p, q) /\ IsSeq(q.made) /\ Len(p.made) \in Nat
         /\ Len(q.made) = Len(p.made) + 1 /\ Newest(q) = Len(p.made) + 1
         /\ \A i \in 1..Len(p.made) : q.made[i] = p.made[i]
         /\ q.made[Len(p.made) + 1] = atom
<1>1. q.made = Append(p.made, atom) /\ SameStubs(p, q)
  BY DEF StubFields, SameStubs, Make
<1>2. /\ IsSeq(Append(p.made, atom)) /\ Len(Append(p.made, atom)) = Len(p.made) + 1
      /\ \A i \in 1..Len(p.made) : Append(p.made, atom)[i] = p.made[i]
      /\ Append(p.made, atom)[Len(p.made) + 1] = atom
  BY AppendIs
<1>3. Len(p.made) \in Nat
  BY SeqIs
<1> QED BY <1>1, <1>2, <1>3 DEF Newest

LEMMA ToIs == \A kind, t : To(kind, t).kind = kind /\ To(kind, t).to = t
  BY DEF To

LEMMA MakeIsGood ==
  ASSUME NEW p, ElfStubs(p), NEW atom,
         atom.role = "got" => \A x \in atom.refs : x.kind # "jump_slot"
  PROVE  ElfGood(p, Make(p, atom))
  BY MakeIs, OneMore

\* The other maps and vectors have nothing to do with stubs.
LEMMA PutGotIsSame ==
  ASSUME NEW p, StubFields \subseteq DOMAIN p, NEW x, NEW i
  PROVE  SameStubs(p, PutGot(p, x, i)) /\ PutGot(p, x, i).made = p.made
  BY DEF PutGot, SameStubs, StubFields

LEMMA GotIsGood ==
  ASSUME NEW p, ElfStubs(p), NEW x, NEW sec, NEW kinds, "jump_slot" \notin kinds
  PROVE  ElfGood(p, Got(p, x, sec, kinds))
<1> DEFINE atom == Atom("got", sec, x, {To(k, Sym(x)) : k \in kinds})
           q == Make(p, atom)
           r == PutGot(q, x, Newest(q))
<1>1. \A y \in atom.refs : y.kind # "jump_slot"
  BY DEF Atom, To
<1> HIDE DEF atom
<1>2. ElfGood(p, q)
  BY <1>1, MakeIsGood
<1> HIDE DEF q
<1>3. ElfStubs(q) /\ StubFields \subseteq DOMAIN q
  BY <1>2 DEF ElfGood, ElfStubs
<1>4. ElfGood(q, r)
  <2>1. SameStubs(q, r) /\ r.made = q.made
    BY <1>3, PutGotIsSame
  <2> HIDE DEF r
  <2> QED BY <1>3, <2>1, SameIsGood
<1>5. Got(p, x, sec, kinds) \in {p, r}
  BY DEF Got, q, atom
<1> HIDE DEF r
<1> QED BY <1>2, <1>4, <1>5, GrowsOn, GrowsItself

LEMMA OthersAreGood ==
  ASSUME NEW p, ElfStubs(p), NEW x
  PROVE  /\ ElfGood(p, GetGOT(p, x)) /\ ElfGood(p, GetSharedGOT(p, x))
         /\ ElfGood(p, GetGOTTPOFF(p, x)) /\ ElfGood(p, GetTLSGd(p, x))
         /\ ElfGood(p, GetObjectEntry(p, x)) /\ ElfGood(p, GetNullGOT(p))
<1>1. ElfGood(p, GetGOT(p, x)) /\ ElfGood(p, GetSharedGOT(p, x)) /\ ElfGood(p, GetGOTTPOFF(p, x))
  BY GotIsGood DEF GetGOT, GetSharedGOT, GetGOTTPOFF
<1>2. ASSUME NEW atom, atom.role # "got", NEW q, SameStubs(Make(p, atom), q), q.made = Make(p, atom).made
      PROVE  ElfGood(p, q)
  <2>1. SameStubs(p, q) /\ q.made = Append(p.made, atom)
    BY <1>2, MakeIs DEF SameStubs
  <2> QED BY <1>2, <2>1, OneMore
<1>3. ASSUME NEW atom
      PROVE  StubFields \subseteq DOMAIN Make(p, atom)
  BY MakeIs DEF SameStubs
<1>4. ElfGood(p, GetTLSGd(p, x))
  <2> DEFINE atom == Atom("tlsgd", ".got", x, {To("dtpmod", Sym(x)), To("dtpoff", Sym(x))})
             m == Make(p, atom)
             q == [m EXCEPT !.tlsgd = With(@, x, Newest(m)), !.tlsgds = Append(@, Newest(m))]
  <2>1. atom.role # "got" /\ StubFields \subseteq DOMAIN m
    BY <1>3 DEF Atom
  <2> HIDE DEF m
  <2>2. SameStubs(m, q) /\ q.made = m.made
    BY <2>1 DEF SameStubs, StubFields
  <2>3. GetTLSGd(p, x) \in {p, q}
    BY DEF GetTLSGd, m, atom
  <2> HIDE DEF q, atom
  <2>4. ElfGood(p, q)
    BY <1>2, <2>1, <2>2 DEF m
  <2> QED BY <2>3, <2>4, GrowsItself
<1>5. ElfGood(p, GetObjectEntry(p, x))
  <2> DEFINE atom == Atom("object", ".bss", x, {To("copy", Made(Newest(p) + 1))})
             m == Make(p, atom)
             q == [m EXCEPT !.object = With(@, x, Newest(m)), !.objects = Append(@, Newest(m))]
  <2>1. atom.role # "got" /\ StubFields \subseteq DOMAIN m
    BY <1>3 DEF Atom
  <2> HIDE DEF m
  <2>2. SameStubs(m, q) /\ q.made = m.made
    BY <2>1 DEF SameStubs, StubFields
  <2>3. GetObjectEntry(p, x) \in {p, q}
    BY DEF GetObjectEntry, m, atom
  <2> HIDE DEF q, atom
  <2>4. ElfGood(p, q)
    BY <1>2, <2>1, <2>2 DEF m
  <2> QED BY <2>3, <2>4, GrowsItself
<1>6. ElfGood(p, GetNullGOT(p))
  <2> DEFINE atom == Atom("null", ".got.plt", "", {})
             m == Make(p, atom)
             q == [m EXCEPT !.null = Newest(p) + 1]
  <2>1. atom.role # "got" /\ StubFields \subseteq DOMAIN m
    BY <1>3 DEF Atom
  <2> HIDE DEF m
  <2>2. SameStubs(m, q) /\ q.made = m.made
    BY <2>1 DEF SameStubs, StubFields
  <2>3. GetNullGOT(p) \in {p, q}
    BY DEF GetNullGOT, m, atom
  <2> HIDE DEF q, atom
  <2>4. ElfGood(p, q)
    BY <1>2, <2>1, <2>2 DEF m
  <2> QED BY <2>3, <2>4, GrowsItself
<1> QED BY <1>1, <1>4, <1>5, <1>6

\* getPLT0
LEMMA PLT0IsGood ==
  ASSUME NEW p, ElfStubs(p)
  PROVE  ElfGood(p, GetPLT0(p)) /\ GetPLT0(p).plt0 # 0
<1>1. CASE p.plt0 # 0
  <2>1. GetPLT0(p) = p
    BY <1>1 DEF GetPLT0
  <2> QED BY <1>1, <2>1, GrowsItself
<1>2. CASE p.plt0 = 0
  <2> DEFINE q == GetNullGOT(p)
             n == Newest(q)
             q1 == Make(q, Atom("got0", ".got.plt", "", {}))
             q2 == Make(q1, Atom("got1", ".got.plt", "", {}))
             refs == IF Arch = "or1k" THEN {}
                     ELSE {To("address", Made(n + 1)), To("address", Made(n + 2))}
             atom == Atom("plt0", ".plt", "", refs)
             q3 == Make(q2, atom)
             r == [q3 EXCEPT !.plt0 = n + 3, !.got0 = n + 1]
  <2>1. GetPLT0(p) = r
    BY <1>2 DEF GetPLT0
  <2>2. ElfGood(p, q) /\ ElfStubs(q)
    BY OthersAreGood DEF ElfGood
  <2> HIDE DEF q
  <2>3. ElfGood(q, q1) /\ ElfStubs(q1)
    BY <2>2, MakeIsGood DEF ElfGood, Atom
  <2>4. q1.made = Append(q.made, Atom("got0", ".got.plt", "", {}))
    BY <2>2, MakeIs
  <2> HIDE DEF q1
  <2>5. ElfGood(q1, q2) /\ ElfStubs(q2)
    BY <2>3, MakeIsGood DEF ElfGood, Atom
  <2>6. q2.made = Append(q1.made, Atom("got1", ".got.plt", "", {}))
    BY <2>3, MakeIs
  <2> HIDE DEF q2
  <2>7. atom.role = "plt0"
    BY DEF Atom
  <2> HIDE DEF atom
  <2>8. ElfGood(q2, q3) /\ ElfStubs(q3)
    BY <2>5, <2>7, MakeIsGood DEF ElfGood
  <2>9. q3.made = Append(q2.made, atom)
    BY <2>5, MakeIs
  <2> HIDE DEF q3
  <2>10. ElfGood(p, q3)
    <3>1. ElfGood(p, q1)
      BY <2>2, <2>3, GrowsOn
    <3>2. ElfGood(p, q2)
      BY <2>5, <3>1, GrowsOn
    <3> QED BY <2>8, <3>2, GrowsOn
  <2>11. n \in Nat /\ Len(q3.made) = n + 3 /\ q3.made[n + 3] = atom
    <3>1. /\ IsSeq(q.made) /\ IsSeq(q1.made) /\ IsSeq(q2.made)
          /\ StubFields \subseteq DOMAIN q /\ StubFields \subseteq DOMAIN q1
          /\ StubFields \subseteq DOMAIN q2
      BY <2>2, <2>3, <2>5 DEF ElfStubs
    <3>2. n \in Nat /\ n = Len(q.made)
      BY <3>1, SeqIs DEF Newest
    <3>3. Len(q1.made) = Len(q.made) + 1
      BY <3>1, MakeAdds DEF q1
    <3>4. Len(q2.made) = Len(q1.made) + 1
      BY <3>1, MakeAdds DEF q2
    <3>5. Len(q3.made) = Len(q2.made) + 1 /\ q3.made[Len(q2.made) + 1] = atom
      BY <3>1, MakeAdds DEF q3
    <3> HIDE DEF n
    <3>6. Len(q2.made) + 1 = n + 3
      BY <3>2, <3>3, <3>4
    <3> QED BY <3>2, <3>5, <3>6
  <2>12. q3.plt0 = 0
    <3>1. q.plt0 = p.plt0
      BY DEF q, GetNullGOT, Make, ElfStubs, StubFields
    <3>2. q1.plt0 = q.plt0
      BY <2>2, MakeIs DEF q1, SameStubs
    <3>3. q2.plt0 = q1.plt0
      BY <2>3, MakeIs DEF q2, SameStubs
    <3>4. q3.plt0 = q2.plt0
      BY <2>5, MakeIs DEF q3, SameStubs
    <3> QED BY <1>2, <3>1, <3>2, <3>3, <3>4
  <2>13. /\ StubFields \subseteq DOMAIN r /\ r.made = q3.made /\ r.plt = q3.plt
         /\ r.pltVeneer = q3.pltVeneer /\ r.veneer = q3.veneer /\ r.plt0 = n + 3
    <3>1. StubFields \subseteq DOMAIN q3
      BY <2>8 DEF ElfStubs
    <3> HIDE DEF n
    <3> QED BY <3>1 DEF StubFields
  <2> HIDE DEF r, n
  <2>14. ElfGrows(q3, r)
    <3>1. IsSeq(q3.made) /\ Len(q3.made) <= Len(q3.made)
      BY <2>8, SeqIs DEF ElfStubs
    <3> QED BY <2>12, <2>13, <3>1 DEF ElfGrows
  <2>15. ElfStubs(r)
    <3>1. HasAtom(r, r.plt0, "plt0") /\ r.plt0 # 0
      BY <2>7, <2>11, <2>13 DEF HasAtom
    <3>2. IsSeq(r.made) /\ r.made = q3.made /\ StubFields \subseteq DOMAIN r
      BY <2>8, <2>13 DEF ElfStubs
    <3>3. \A x \in DOMAIN r.plt : IsStub(r, x, r.plt[x])
      BY <2>8, <2>13, <2>14, AtomsStay
    <3>4. \A x \in DOMAIN r.pltVeneer : IsPLTVeneer(r, x, r.pltVeneer[x])
      BY <2>8, <2>13, <2>14, AtomsStay
    <3>5. \A x \in DOMAIN r.veneer : IsVeneer(r, x, r.veneer[x])
      BY <2>8, <2>13, <2>14, AtomsStay
    <3>6. \A g \in 1..Len(r.made) : WaitsForLoader(r, g) => r.plt0 # 0 /\ IsBound(r, g)
      BY <2>8, <2>14, <3>2, AtomsStay
    <3> QED BY <2>13, <3>1, <3>2, <3>3, <3>4, <3>5, <3>6 DEF ElfStubs
  <2>16. ElfGood(p, r)
    BY <2>10, <2>14, <2>15, GrowsOn DEF ElfGood
  <2> QED BY <2>1, <2>11, <2>13, <2>16
<1> QED BY <1>1, <1>2

\* A PLT atom and its slot: the slot names the symbol to the loader, and if it
\* is bound late, it enters PLT0, itself or by way of the new PLT atom.
LEMMA EntryIsGood ==
  ASSUME NEW p, ElfStubs(p), NEW x, x \notin DOMAIN p.plt, NEW slotRefs, NEW stubRefs,
         Arch # "or1k" => \E y \in slotRefs : y.kind \in {"jump_slot", "irelative"} /\ y.to = Sym(x),
         stubRefs \subseteq ToPLT0(p),
         (\E y \in slotRefs : y.kind = "jump_slot") =>
           /\ p.plt0 # 0
           /\ \/ To("address", Made(p.plt0)) \in slotRefs
              \/ /\ To("address", Made(Newest(p) + 2)) \in slotRefs
                 /\ To("address", Made(p.plt0)) \in stubRefs
  PROVE  ElfGood(p, Entry(p, x, slotRefs, stubRefs)) /\ x \in DOMAIN Entry(p, x, slotRefs, stubRefs).plt
<1> DEFINE n == Newest(p)
           ga == Atom("got", ".got.plt", x, slotRefs)
           pa == Atom("plt", ".plt", x, {To("address", Made(n + 1))} \cup stubRefs)
           q1 == Make(p, ga)
           q2 == Make(q1, pa)
           q == PutGot(q2, x, n + 1)
           r == [q EXCEPT !.plt = With(@, x, n + 2), !.plts = Append(@, n + 2)]
<1>1. Entry(p, x, slotRefs, stubRefs) = r
  BY DEF Entry
<1>2. /\ ga.role = "got" /\ ga.refs = slotRefs /\ pa.role = "plt"
      /\ pa.refs = {To("address", Made(n + 1))} \cup stubRefs
  BY DEF Atom
<1> HIDE DEF ga, pa
<1>3. IsSeq(p.made) /\ n = Len(p.made) /\ n \in Nat
  BY SeqIs DEF ElfStubs, Newest
<1>4. /\ IsSeq(q1.made) /\ Len(q1.made) = n + 1
      /\ \A i \in 1..n : q1.made[i] = p.made[i]
      /\ q1.made[n + 1] = ga
      /\ SameStubs(p, q1)
  <2>1. StubFields \subseteq DOMAIN p
    BY DEF ElfStubs
  <2> HIDE DEF n
  <2> QED BY <1>3, <2>1, MakeAdds
<1> HIDE DEF q1
<1>5. /\ IsSeq(q2.made) /\ Len(q2.made) = n + 2
      /\ \A i \in 1..n + 1 : q2.made[i] = q1.made[i]
      /\ q2.made[n + 2] = pa
      /\ SameStubs(p, q2)
  <2>1. StubFields \subseteq DOMAIN q1
    BY <1>4 DEF SameStubs
  <2>2. /\ IsSeq(q2.made) /\ Len(q2.made) = Len(q1.made) + 1 /\ q2.made[Len(q1.made) + 1] = pa
        /\ \A i \in 1..Len(q1.made) : q2.made[i] = q1.made[i]
        /\ SameStubs(q1, q2)
    BY <1>4, <2>1, MakeAdds
  <2>3. SameStubs(p, q2)
    BY <1>4, <2>2 DEF SameStubs
  <2> HIDE DEF q2, n
  <2> QED BY <1>3, <1>4, <2>2, <2>3
<1> HIDE DEF q2
<1>6. q.made = q2.made /\ SameStubs(p, q)
  BY <1>5, PutGotIsSame DEF SameStubs
<1> HIDE DEF q
<1>7. /\ StubFields \subseteq DOMAIN r /\ r.made = q2.made /\ r.plt = With(p.plt, x, n + 2)
      /\ r.pltVeneer = p.pltVeneer /\ r.veneer = p.veneer /\ r.plt0 = p.plt0
  <2> HIDE DEF n
  <2> QED BY <1>6 DEF SameStubs, StubFields
<1> HIDE DEF r, n
<1>8. /\ IsSeq(r.made) /\ Len(r.made) = n + 2 /\ r.made[n + 1] = ga /\ r.made[n + 2] = pa
      /\ \A i \in 1..n : r.made[i] = p.made[i]
  BY <1>3, <1>4, <1>5, <1>7
<1>9. /\ DOMAIN r.plt = DOMAIN p.plt \cup {x} /\ r.plt[x] = n + 2
      /\ \A y \in DOMAIN p.plt : r.plt[y] = p.plt[y]
  BY <1>7 DEF With
<1>10. ElfGrows(p, r)
  BY <1>3, <1>7, <1>8, <1>9 DEF ElfGrows
<1>11. IsStub(r, x, n + 2)
  <2>1. HasAtom(r, n + 2, "plt") /\ HasAtom(r, n + 1, "got") /\ n + 2 - 1 = n + 1
    BY <1>2, <1>3, <1>8 DEF HasAtom
  <2>2. ToPLT0(r) = ToPLT0(p)
    BY <1>7 DEF ToPLT0
  <2>3. /\ To("address", Made(n + 1)) \in r.made[n + 2].refs
        /\ r.made[n + 2].refs \subseteq {To("address", Made(n + 1))} \cup ToPLT0(r)
    BY <1>2, <1>8, <2>2
  <2>4. Arch # "or1k" => \E y \in r.made[n + 1].refs :
                           y.kind \in {"jump_slot", "irelative"} /\ y.to = Sym(x)
    BY <1>2, <1>8
  <2> DEFINE i == n + 2
  <2>5. i - 1 = n + 1
    BY <1>3
  <2>6. /\ HasAtom(r, i, "plt") /\ HasAtom(r, i - 1, "got")
        /\ To("address", Made(i - 1)) \in r.made[i].refs
        /\ r.made[i].refs \subseteq {To("address", Made(i - 1))} \cup ToPLT0(r)
    BY <2>1, <2>3, <2>5
  <2>7. Arch # "or1k" => \E y \in r.made[i - 1].refs :
                           y.kind \in {"jump_slot", "irelative"} /\ y.to = Sym(x)
    BY <2>4, <2>5
  <2> HIDE DEF i
  <2>8. IsStub(r, x, i)
    BY <2>6, <2>7 DEF IsStub
  <2> QED BY <2>8 DEF i
<1>12. ASSUME NEW g \in 1..Len(r.made), WaitsForLoader(r, g)
       PROVE  r.plt0 # 0 /\ IsBound(r, g)
  <2>1. CASE g \in 1..n
    BY <1>3, <1>10, <1>12, <2>1, AtomsStay
  <2>2. CASE g = n + 1
    <3>1. \E y \in slotRefs : y.kind = "jump_slot"
      BY <1>2, <1>8, <1>12, <2>2 DEF WaitsForLoader
    <3>2. p.plt0 # 0 /\ \A i : LET y == To("address", Made(i))
                               IN  y.kind = "address" /\ IsMade(y.to) /\ y.to[2] = i /\ y.to = Made(i)
      BY <3>1 DEF To, Made, IsMade
    <3>3. CASE To("address", Made(p.plt0)) \in slotRefs
      BY <1>2, <1>7, <1>8, <2>2, <3>2, <3>3 DEF IsBound
    <3>4. CASE /\ To("address", Made(n + 2)) \in slotRefs
               /\ To("address", Made(p.plt0)) \in stubRefs
      <4>1. To("address", Made(r.plt0)) \in r.made[n + 2].refs /\ n + 2 \in 1..Len(r.made)
        BY <1>2, <1>3, <1>7, <1>8, <3>4
      <4>2. To("address", Made(n + 2)) \in r.made[g].refs
        BY <1>2, <1>8, <2>2, <3>4
      <4> QED BY <1>7, <3>2, <4>1, <4>2 DEF IsBound
    <3> QED BY <3>1, <3>2, <3>3, <3>4 DEF n
  <2>3. CASE g = n + 2
    BY <1>2, <1>8, <1>12, <2>3 DEF WaitsForLoader, HasAtom
  <2> QED BY <1>3, <1>8, <2>1, <2>2, <2>3
<1>13. ElfStubs(r)
  <2>1. r.plt0 # 0 => HasAtom(r, r.plt0, "plt0")
    BY <1>7, <1>10, AtomsStay
  <2>2. \A y \in DOMAIN r.plt : IsStub(r, y, r.plt[y])
    BY <1>9, <1>10, <1>11, AtomsStay
  <2>3. \A y \in DOMAIN r.pltVeneer : IsPLTVeneer(r, y, r.pltVeneer[y])
    BY <1>7, <1>10, AtomsStay
  <2>4. \A y \in DOMAIN r.veneer : IsVeneer(r, y, r.veneer[y])
    BY <1>7, <1>10, AtomsStay
  <2> QED BY <1>7, <1>8, <1>12, <2>1, <2>2, <2>3, <2>4 DEF ElfStubs
<1> QED BY <1>1, <1>9, <1>10, <1>13 DEF ElfGood

\* getIFUNCPLTEntry: the slot is bound to the resolver's answer at the start.
LEMMA IfuncIsGood ==
  ASSUME NEW p, ElfStubs(p), NEW x
  PROVE  ElfGood(p, GetIFUNCPLTEntry(p, x)) /\ x \in DOMAIN GetIFUNCPLTEntry(p, x).plt
<1>1. CASE x \in DOMAIN p.plt
  BY <1>1, GrowsItself DEF GetIFUNCPLTEntry
<1>2. CASE x \notin DOMAIN p.plt
  <2>1. /\ Arch # "or1k" => \E y \in SlotOfResolver(x) :
                              y.kind \in {"jump_slot", "irelative"} /\ y.to = Sym(x)
        /\ ~\E y \in SlotOfResolver(x) : y.kind = "jump_slot"
    <3>1. \A y \in SlotOfResolver(x) : y.kind \in {"relative", "address", "irelative"}
      BY ToIs DEF SlotOfResolver
    <3>2. Arch # "or1k" => To("irelative", Sym(x)) \in SlotOfResolver(x)
      BY DEF SlotOfResolver
    <3> QED BY <3>1, <3>2, ToIs
  <2>2. ElfGood(p, Entry(p, x, SlotOfResolver(x), {})) /\ x \in DOMAIN Entry(p, x, SlotOfResolver(x), {}).plt
    BY <1>2, <2>1, EntryIsGood
  <2> QED BY <1>2, <2>2 DEF GetIFUNCPLTEntry
<1> QED BY <1>1, <1>2

\* getPLTEntry
LEMMA PLTEntryIsGood ==
  ASSUME NEW p, ElfStubs(p), NEW x
  PROVE  ElfGood(p, GetPLTEntry(p, x)) /\ x \in DOMAIN GetPLTEntry(p, x).plt
<1> DEFINE q == GetPLT0(p)
           bind == IF Arch = "or1k" THEN {} ELSE {To("jump_slot", Sym(x))}
           back == IF Arch = "or1k" THEN {} ELSE {To("address", Made(q.plt0))}
           slot == bind \cup {To("address", Unbound(q))}
           r == Entry(q, x, slot, back)
<1>1. CASE x \in DOMAIN p.plt
  BY <1>1, GrowsItself DEF GetPLTEntry
<1>2. CASE x \notin DOMAIN p.plt
  <2>1. GetPLTEntry(p, x) = r
    BY <1>2 DEF GetPLTEntry
  <2>2. ElfGood(p, q) /\ ElfStubs(q) /\ q.plt0 # 0
    BY PLT0IsGood DEF ElfGood
  <2>3. x \notin DOMAIN q.plt
    <3>1. GetNullGOT(p).plt = p.plt /\ ElfStubs(GetNullGOT(p))
      <4>1. GetNullGOT(p).plt = p.plt
        BY DEF GetNullGOT, Make, ElfStubs, StubFields
      <4> QED BY <4>1, OthersAreGood DEF ElfGood
    <3>2. ASSUME NEW m, StubFields \subseteq DOMAIN m, IsSeq(m.made), NEW atom, NEW h, h = Make(m, atom)
          PROVE  h.plt = m.plt /\ StubFields \subseteq DOMAIN h /\ IsSeq(h.made)
      BY <3>2, MakeAdds DEF SameStubs
    <3>3. GetPLT0(p).plt = p.plt
      <4> DEFINE m == GetNullGOT(p)
                 n == Newest(m)
                 refs == IF Arch = "or1k" THEN {}
                         ELSE {To("address", Made(n + 1)), To("address", Made(n + 2))}
                 h1 == Make(m, Atom("got0", ".got.plt", "", {}))
                 h2 == Make(h1, Atom("got1", ".got.plt", "", {}))
                 h == Make(h2, Atom("plt0", ".plt", "", refs))
      <4>2. GetPLT0(p) \in {p, [h EXCEPT !.plt0 = n + 3, !.got0 = n + 1]}
        BY DEF GetPLT0
      <4> HIDE DEF n, refs
      <4>3. m.plt = p.plt /\ StubFields \subseteq DOMAIN m /\ IsSeq(m.made)
        BY <3>1 DEF ElfStubs
      <4> HIDE DEF m
      <4>4. h1.plt = p.plt /\ StubFields \subseteq DOMAIN h1 /\ IsSeq(h1.made)
        BY <3>2, <4>3
      <4> HIDE DEF h1
      <4>5. h2.plt = p.plt /\ StubFields \subseteq DOMAIN h2 /\ IsSeq(h2.made)
        BY <3>2, <4>4
      <4> HIDE DEF h2
      <4>1. h.plt = p.plt /\ StubFields \subseteq DOMAIN h
        BY <3>2, <4>5
      <4> HIDE DEF h
      <4> QED BY <4>1, <4>2 DEF StubFields
    <3> QED BY <1>2, <3>3
  <2> HIDE DEF q
  <2>4. Arch # "or1k" => \E y \in slot : y.kind \in {"jump_slot", "irelative"} /\ y.to = Sym(x)
    <3>1. Arch # "or1k" => To("jump_slot", Sym(x)) \in slot
      OBVIOUS
    <3> HIDE DEF slot
    <3> QED BY <3>1, ToIs
  <2>5. back \subseteq ToPLT0(q)
    BY <2>2 DEF ToPLT0
  <2>6. (\E y \in slot : y.kind = "jump_slot") =>
          \/ To("address", Made(q.plt0)) \in slot
          \/ To("address", Made(Newest(q) + 2)) \in slot /\ To("address", Made(q.plt0)) \in back
    <3>1. CASE Arch = "x86_64"
      BY <3>1 DEF Unbound
    <3>2. CASE Arch # "x86_64"
      BY <3>2 DEF Unbound
    <3> QED BY <3>1, <3>2
  <2> HIDE DEF slot, back
  <2>7. ElfGood(q, r) /\ x \in DOMAIN r.plt
    BY <2>2, <2>3, <2>4, <2>5, <2>6, EntryIsGood
  <2> HIDE DEF r
  <2> QED BY <2>1, <2>2, <2>7, GrowsOn
<1> QED BY <1>1, <1>2

\* ARM: a veneer in front of the PLT atom.
LEMMA PLTVeneerIsGood ==
  ASSUME NEW p, ElfStubs(p), NEW x \in DOMAIN p.plt
  PROVE  ElfGood(p, GetPLTVeneer(p, x)) /\ x \in DOMAIN GetPLTVeneer(p, x).pltVeneer
<1>1. CASE x \in DOMAIN p.pltVeneer
  BY <1>1, GrowsItself DEF GetPLTVeneer
<1>2. CASE x \notin DOMAIN p.pltVeneer
  <2> DEFINE atom == Atom("pltveneer", ".plt", x, {To("none", Made(p.plt[x]))})
             q == Make(p, atom)
             r == [q EXCEPT !.pltVeneer = With(@, x, Newest(q))]
  <2>1. GetPLTVeneer(p, x) = r
    BY <1>2 DEF GetPLTVeneer
  <2>2. atom.role = "pltveneer" /\ atom.refs = {To("none", Made(p.plt[x]))}
    BY DEF Atom
  <2> HIDE DEF atom
  <2>3. ElfGood(p, q) /\ SameStubs(p, q) /\ q.made = Append(p.made, atom)
    BY <2>2, MakeIsGood, MakeIs
  <2> HIDE DEF q
  <2>4. /\ Len(p.made) \in Nat /\ Len(q.made) = Len(p.made) + 1 /\ q.made[Len(p.made) + 1] = atom
        /\ Newest(q) = Len(p.made) + 1
    <3>1. IsSeq(p.made)
      BY DEF ElfStubs
    <3> QED BY <2>3, <3>1, SeqIs, AppendIs DEF Newest
  <2>5. /\ StubFields \subseteq DOMAIN r /\ r.made = q.made /\ r.plt = q.plt
        /\ r.pltVeneer = With(q.pltVeneer, x, Newest(q)) /\ r.veneer = q.veneer /\ r.plt0 = q.plt0
    BY <2>3 DEF SameStubs, StubFields
  <2> HIDE DEF r
  <2>6. /\ DOMAIN r.pltVeneer = DOMAIN q.pltVeneer \cup {x} /\ r.pltVeneer[x] = Newest(q)
        /\ \A y \in DOMAIN q.pltVeneer : y # x => r.pltVeneer[y] = q.pltVeneer[y]
        /\ x \notin DOMAIN q.pltVeneer
    BY <1>2, <2>3, <2>5 DEF With, SameStubs
  <2>7. ElfStubs(q) /\ ElfGrows(q, r)
    <3>1. ElfStubs(q) /\ IsSeq(q.made)
      BY <2>3 DEF ElfGood, ElfStubs
    <3>2. Len(q.made) <= Len(q.made)
      BY <3>1, SeqIs
    <3> QED BY <2>5, <2>6, <3>1, <3>2 DEF ElfGrows
  <2>8. ElfStubs(r)
    <3>1. r.plt0 # 0 => HasAtom(r, r.plt0, "plt0")
      BY <2>5, <2>7, AtomsStay
    <3>2. \A y \in DOMAIN r.plt : IsStub(r, y, r.plt[y])
      BY <2>5, <2>7, AtomsStay
    <3>3. \A y \in DOMAIN r.pltVeneer : IsPLTVeneer(r, y, r.pltVeneer[y])
      <4>1. IsPLTVeneer(r, x, Newest(q))
        BY <2>2, <2>3, <2>4, <2>5 DEF IsPLTVeneer, HasAtom, SameStubs
      <4>2. \A y \in DOMAIN q.pltVeneer : IsPLTVeneer(r, y, r.pltVeneer[y])
        BY <2>6, <2>7, AtomsStay
      <4> QED BY <2>6, <4>1, <4>2
    <3>4. \A y \in DOMAIN r.veneer : IsVeneer(r, y, r.veneer[y])
      BY <2>5, <2>7, AtomsStay
    <3>5. \A g \in 1..Len(r.made) : WaitsForLoader(r, g) => r.plt0 # 0 /\ IsBound(r, g)
      BY <2>5, <2>7, AtomsStay
    <3> QED BY <2>5, <2>7, <3>1, <3>2, <3>3, <3>4, <3>5 DEF ElfStubs, ElfGrows
  <2> QED BY <2>1, <2>3, <2>6, <2>7, <2>8, GrowsOn DEF ElfGood
<1> QED BY <1>1, <1>2

\* ARM: a veneer in front of a function of the other instruction set.
LEMMA VeneerIsGood ==
  ASSUME NEW p, ElfStubs(p), NEW x, NEW role, role = IF x \in Thumb THEN "armveneer" ELSE "thumbveneer"
  PROVE  ElfGood(p, GetVeneer(p, x, role)) /\ x \in DOMAIN GetVeneer(p, x, role).veneer
<1>1. CASE x \in DOMAIN p.veneer
  BY <1>1, GrowsItself DEF GetVeneer
<1>2. CASE x \notin DOMAIN p.veneer
  <2> DEFINE atom == Atom(role, ".text", x, {To("address", Sym(x))})
             q == Make(p, atom)
             r == [q EXCEPT !.veneer = With(@, x, Newest(q)), !.veneers = Append(@, Newest(q))]
  <2>1. GetVeneer(p, x, role) = r
    BY <1>2 DEF GetVeneer
  <2>2. atom.role = role /\ role # "got"
    BY DEF Atom
  <2> HIDE DEF atom
  <2>3. ElfGood(p, q) /\ SameStubs(p, q) /\ q.made = Append(p.made, atom)
    BY <2>2, MakeIsGood, MakeIs
  <2> HIDE DEF q
  <2>4. /\ Len(p.made) \in Nat /\ Len(q.made) = Len(p.made) + 1 /\ q.made[Len(p.made) + 1] = atom
        /\ Newest(q) = Len(p.made) + 1
    <3>1. IsSeq(p.made)
      BY DEF ElfStubs
    <3> QED BY <2>3, <3>1, SeqIs, AppendIs DEF Newest
  <2>5. /\ StubFields \subseteq DOMAIN r /\ r.made = q.made /\ r.plt = q.plt
        /\ r.pltVeneer = q.pltVeneer /\ r.veneer = With(q.veneer, x, Newest(q)) /\ r.plt0 = q.plt0
    BY <2>3 DEF SameStubs, StubFields
  <2> HIDE DEF r
  <2>6. /\ DOMAIN r.veneer = DOMAIN q.veneer \cup {x} /\ r.veneer[x] = Newest(q)
        /\ \A y \in DOMAIN q.veneer : y # x => r.veneer[y] = q.veneer[y]
        /\ x \notin DOMAIN q.veneer
    BY <1>2, <2>3, <2>5 DEF With, SameStubs
  <2>7. ElfStubs(q) /\ ElfGrows(q, r)
    <3>1. ElfStubs(q) /\ IsSeq(q.made)
      BY <2>3 DEF ElfGood, ElfStubs
    <3>2. Len(q.made) <= Len(q.made)
      BY <3>1, SeqIs
    <3> QED BY <2>5, <2>6, <3>1, <3>2 DEF ElfGrows
  <2>8. ElfStubs(r)
    <3>1. r.plt0 # 0 => HasAtom(r, r.plt0, "plt0")
      BY <2>5, <2>7, AtomsStay
    <3>2. \A y \in DOMAIN r.plt : IsStub(r, y, r.plt[y])
      BY <2>5, <2>7, AtomsStay
    <3>3. \A y \in DOMAIN r.pltVeneer : IsPLTVeneer(r, y, r.pltVeneer[y])
      BY <2>5, <2>7, AtomsStay
    <3>4. \A y \in DOMAIN r.veneer : IsVeneer(r, y, r.veneer[y])
      <4>1. IsVeneer(r, x, Newest(q))
        BY <2>2, <2>4, <2>5 DEF IsVeneer, HasAtom
      <4>2. \A y \in DOMAIN q.veneer : IsVeneer(r, y, r.veneer[y])
        BY <2>6, <2>7, AtomsStay
      <4> QED BY <2>6, <4>1, <4>2
    <3>5. \A g \in 1..Len(r.made) : WaitsForLoader(r, g) => r.plt0 # 0 /\ IsBound(r, g)
      BY <2>5, <2>7, AtomsStay
    <3> QED BY <2>5, <2>7, <3>1, <3>2, <3>3, <3>4, <3>5 DEF ElfStubs, ElfGrows
  <2> QED BY <2>1, <2>3, <2>6, <2>7, <2>8, GrowsOn DEF ElfGood
<1> QED BY <1>1, <1>2

-----------------------------------------------------------------------------
(***************************************************************************)
(* handleReference of those targets.                                       *)
(***************************************************************************)

LEMMA AnswerIs ==
  \A p, t : Answer(p, t).p = p /\ Answer(p, t).to = t
  BY DEF Answer

\* What a handler owes to a reference.
ElfAnswerIsRight(r, a) == ElfGood(s, a.p) /\ ElfTargetIsRight(a.p, r, a.to)

\* The references nothing is promised about.
IsPlainUse(r) == ~NeedsStub(r) /\ ~(Arch = "arm" /\ r.kind \in ARMClasses.jump)

LEMMA PlainUseIsRight ==
  ASSUME NEW p, NEW r, IsPlainUse(r), NEW t, Arch # "mips"
  PROVE  ElfTargetIsRight(p, r, t)
  BY DEF IsPlainUse, ElfTargetIsRight, CannotSwitch

LEMMA GOTIsRight ==
  ASSUME ElfStubs(s), Arch # "mips", NEW r, IsPlainUse(r)
  PROVE  ElfAnswerIsRight(r, HandleGOT(r))
<1>1. /\ ElfGood(s, GetGOT(s, r.sym)) /\ ElfGood(s, GetSharedGOT(s, r.sym))
      /\ ElfGood(s, GetNullGOT(s)) /\ ElfGood(s, s)
  BY OthersAreGood, GrowsItself
<1>2. ElfGood(s, StaticGOT(r).p)
  BY <1>1, AnswerIs DEF StaticGOT, ByNull, ByGot, Same
<1>3. ElfGood(s, DynamicGOT(r).p)
  BY <1>1, AnswerIs DEF DynamicGOT, ByGot
<1>4. ElfGood(s, AArch64DynamicGOT(r).p)
  BY <1>1, <1>3, AnswerIs DEF AArch64DynamicGOT, ByNull
<1>5. ElfGood(s, OR1KStaticGOT(r).p)
  <2> DEFINE null == GetNullGOT(s)
             atom == Atom("got", ".got", "null", {To("address", Made(null.null))})
             q == Make(null, atom)
             q2 == PutGot(q, "null", Newest(q))
  <2>1. OR1KStaticGOT(r).p \in {null, q2, StaticGOT(r).p}
    BY AnswerIs DEF OR1KStaticGOT
  <2>2. ElfGood(s, null) /\ ElfStubs(null)
    BY <1>1 DEF ElfGood
  <2>3. \A y \in atom.refs : y.kind # "jump_slot"
    BY ToIs DEF Atom
  <2> HIDE DEF null, atom
  <2>4. ElfGood(null, q) /\ ElfStubs(q) /\ StubFields \subseteq DOMAIN q
    BY <2>2, <2>3, MakeIsGood DEF ElfGood, ElfStubs
  <2> HIDE DEF q
  <2>5. SameStubs(q, q2) /\ q2.made = q.made
    BY <2>4, PutGotIsSame
  <2> HIDE DEF q2
  <2>6. ElfGood(q, q2)
    BY <2>4, <2>5, SameIsGood
  <2>7. ElfGood(s, q2)
    BY <2>2, <2>4, <2>6, GrowsOn
  <2> QED BY <1>2, <2>1, <2>2, <2>7
<1>6. HandleGOT(r) \in {OR1KStaticGOT(r), AArch64DynamicGOT(r), DynamicGOT(r), StaticGOT(r)}
  BY DEF HandleGOT
<1> QED BY <1>2, <1>3, <1>4, <1>5, <1>6, PlainUseIsRight DEF ElfAnswerIsRight

\* A symbol that has a PLT atom, where no caller needs a veneer.
LEMMA StubIsRight ==
  ASSUME NEW q, ElfGood(s, q), NEW r, r.sym \in DOMAIN q.plt, Arch \notin {"arm", "mips"}
  PROVE  ElfAnswerIsRight(r, Answer(q, Made(q.plt[r.sym])))
  BY AnswerIs DEF ElfAnswerIsRight, ElfTargetIsRight, CannotSwitch

LEMMA SameIsRight ==
  ASSUME ElfStubs(s), NEW r, ~NeedsStub(r), Arch \notin {"arm", "mips"}
  PROVE  ElfAnswerIsRight(r, Same(r))
  BY AnswerIs, GrowsItself DEF ElfAnswerIsRight, ElfTargetIsRight, CannotSwitch, Same

LEMMA IFUNCIsRight ==
  ASSUME ElfStubs(s), Arch \notin {"arm", "mips"}, NEW r, NeedsStub(r) => KindOf[r.sym] = "resolver"
  PROVE  ElfAnswerIsRight(r, HandleIFUNC(r))
<1>1. ElfGood(s, GetIFUNCPLTEntry(s, r.sym)) /\ r.sym \in DOMAIN GetIFUNCPLTEntry(s, r.sym).plt
  BY IfuncIsGood
<1> DEFINE q == GetIFUNCPLTEntry(s, r.sym)
<1>2. HandleIFUNC(r) = IF KindOf[r.sym] = "resolver" THEN Answer(q, Made(q.plt[r.sym])) ELSE Same(r)
  BY DEF HandleIFUNC
<1> HIDE DEF q
<1>3. CASE KindOf[r.sym] = "resolver"
  BY <1>1, <1>2, <1>3, StubIsRight DEF q
<1>4. CASE KindOf[r.sym] # "resolver"
  BY <1>2, <1>4, SameIsRight
<1> QED BY <1>3, <1>4

LEMMA PlainIsRight ==
  ASSUME ElfStubs(s), Arch \notin {"arm", "mips"}, NEW r, KindOf[r.sym] = "code" => link.dynamic
  PROVE  ElfAnswerIsRight(r, HandlePlain(r))
<1> DEFINE object == GetObjectEntry(s, r.sym)
           stub == GetPLTEntry(s, r.sym)
<1>1. /\ link.dynamic /\ KindOf[r.sym] = "data" =>
           HandlePlain(r) = Answer(object, Made(object.object[r.sym]))
      /\ link.dynamic /\ KindOf[r.sym] = "code" => HandlePlain(r) = Answer(stub, Made(stub.plt[r.sym]))
      /\ ~(link.dynamic /\ KindOf[r.sym] \in {"code", "data"}) => HandlePlain(r) = HandleIFUNC(r)
  BY DEF HandlePlain
<1>2. CASE link.dynamic /\ KindOf[r.sym] = "data"
  <2>1. ElfGood(s, object)
    BY OthersAreGood
  <2> HIDE DEF object
  <2>2. IsPlainUse(r)
    BY <1>2 DEF IsPlainUse, NeedsStub
  <2> QED BY <1>1, <1>2, <2>1, <2>2, PlainUseIsRight, AnswerIs DEF ElfAnswerIsRight
<1>3. CASE link.dynamic /\ KindOf[r.sym] = "code"
  <2>1. ElfGood(s, stub) /\ r.sym \in DOMAIN stub.plt
    BY PLTEntryIsGood
  <2> HIDE DEF stub
  <2> QED BY <1>1, <1>3, <2>1, StubIsRight
<1>4. CASE ~(link.dynamic /\ KindOf[r.sym] \in {"code", "data"})
  BY <1>1, <1>4, IFUNCIsRight DEF NeedsStub
<1> QED BY <1>2, <1>3, <1>4

LEMMA PLTIsRight ==
  ASSUME ElfStubs(s), Arch \notin {"arm", "mips"}, NEW r, KindOf[r.sym] = "code" => link.dynamic
  PROVE  ElfAnswerIsRight(r, HandlePLT(r))
<1> DEFINE q == GetPLTEntry(s, r.sym)
<1>1. HandlePLT(r) = IF link.dynamic /\ ~IsDefined(r) THEN Answer(q, Made(q.plt[r.sym])) ELSE HandleIFUNC(r)
  BY DEF HandlePLT
<1>2. ElfGood(s, q) /\ r.sym \in DOMAIN q.plt
  BY PLTEntryIsGood
<1> HIDE DEF q
<1>3. CASE link.dynamic /\ ~IsDefined(r)
  BY <1>1, <1>2, <1>3, StubIsRight
<1>4. CASE ~(link.dynamic /\ ~IsDefined(r))
  BY <1>1, <1>4, IFUNCIsRight DEF IsDefined, NeedsStub
<1> QED BY <1>3, <1>4

\* ARM's branches, of both instruction sets.
LEMMA BranchIsRight ==
  ASSUME ElfStubs(s), Arch = "arm", NEW r, r.thumb \in BOOLEAN, KindOf[r.sym] # "code"
  PROVE  ElfAnswerIsRight(r, HandleBranch(r))
<1> DEFINE x == r.sym
           known == x \in DOMAIN s.plt
           q == GetIFUNCPLTEntry(s, x)
           v == GetPLTVeneer(q, x)
           stub == StubForCaller(q, r)
           role == IF r.thumb THEN "thumbveneer" ELSE "armveneer"
           w == GetVeneer(s, x, role)
           switches == /\ r.kind \in ARMClasses.jump /\ IsDefined(r) /\ KindOf[x] # "resolver"
                       /\ (x \in Thumb) # r.thumb
<1>1. /\ KindOf[x] = "resolver" => HandleBranch(r) = [stub EXCEPT !.bad = ~known /\ x \in DOMAIN s.got]
      /\ KindOf[x] # "resolver" /\ switches => HandleBranch(r) = Answer(w, Made(w.veneer[x]))
      /\ KindOf[x] # "resolver" /\ ~switches => HandleBranch(r) = Same(r)
  BY DEF HandleBranch
<1>2. CASE KindOf[x] = "resolver"
  <2>1. ElfGood(s, q) /\ ElfStubs(q) /\ x \in DOMAIN q.plt
    BY IfuncIsGood DEF ElfGood
  <2>2. stub = IF r.thumb THEN Answer(v, Made(v.pltVeneer[x])) ELSE Answer(q, Made(q.plt[x]))
    BY DEF StubForCaller
  <2> HIDE DEF q
  <2>3. ElfGood(q, v) /\ x \in DOMAIN v.pltVeneer
    BY <2>1, PLTVeneerIsGood
  <2> HIDE DEF v
  <2>4. ElfGood(s, v)
    BY <2>1, <2>3, GrowsOn
  <2>5. HandleBranch(r).p = stub.p /\ HandleBranch(r).to = stub.to
    <3>1. {"p", "to"} \subseteq DOMAIN stub
      BY <2>2 DEF Answer
    <3> HIDE DEF stub
    <3> QED BY <1>1, <1>2, <3>1
  <2> HIDE DEF stub
  <2>6. /\ stub.p = IF r.thumb THEN v ELSE q
        /\ stub.to = IF r.thumb THEN Made(v.pltVeneer[x]) ELSE Made(q.plt[x])
    BY <2>2, AnswerIs
  <2>7. ElfGood(s, stub.p) /\ ElfTargetIsRight(stub.p, r, stub.to)
    BY <1>2, <2>1, <2>3, <2>4, <2>6 DEF ElfTargetIsRight
  <2> QED BY <2>5, <2>7 DEF ElfAnswerIsRight
<1>3. CASE KindOf[x] # "resolver" /\ switches
  <2>1. role = IF x \in Thumb THEN "armveneer" ELSE "thumbveneer"
    BY <1>3
  <2> HIDE DEF role
  <2>2. ElfGood(s, w) /\ x \in DOMAIN w.veneer
    BY <2>1, VeneerIsGood
  <2> HIDE DEF w
  <2>3. HandleBranch(r).p = w /\ HandleBranch(r).to = Made(w.veneer[x])
    BY <1>1, <1>3, AnswerIs
  <2>4. ElfTargetIsRight(w, r, Made(w.veneer[x]))
    BY <1>3, <2>2 DEF ElfTargetIsRight, NeedsStub
  <2> QED BY <2>2, <2>3, <2>4 DEF ElfAnswerIsRight
<1>4. CASE KindOf[x] # "resolver" /\ ~switches
  <2>1. HandleBranch(r).p = s /\ HandleBranch(r).to = Sym(x)
    BY <1>1, <1>4, AnswerIs DEF Same
  <2>2. ElfTargetIsRight(s, r, Sym(x))
    BY <1>4 DEF ElfTargetIsRight, NeedsStub, CannotSwitch, IsDefined
  <2> QED BY <2>1, <2>2, GrowsItself DEF ElfAnswerIsRight
<1> QED BY <1>2, <1>3, <1>4

\* A kind that is handled has a class.
LEMMA ClassIs ==
  ASSUME NEW arch, NEW kind, \E c \in DOMAIN Classes[arch] : kind \in Classes[arch][c]
  PROVE  ClassOf(arch, kind) \in DOMAIN Classes[arch] /\ kind \in Classes[arch][ClassOf(arch, kind)]
  BY DEF ClassOf

LEMMA ElfHandleIsRight ==
  ASSUME ElfStubs(s), Arch # "mips", Arch \in DOMAIN Classes, NEW r, IsReference(link, r)
  PROVE  ElfAnswerIsRight(r, Handle(r))
<1> DEFINE class == ClassOf(Arch, r.kind)
<1>1. class \in DOMAIN Classes[Arch] /\ r.kind \in Classes[Arch][class]
  BY ClassIs DEF IsReference, Arch
<1>2. /\ class = "got" => Handle(r) = HandleGOT(r)
      /\ class = "tpoff" => Handle(r) = ByGot(GetGOTTPOFF(s, r.sym), r)
      /\ class = "tlsgd" => Handle(r) = Answer(GetTLSGd(s, r.sym), Made(GetTLSGd(s, r.sym).tlsgd[r.sym]))
      /\ class \in {"branch", "jump"} => Handle(r) = HandleBranch(r)
      /\ class = "plain" => Handle(r) = HandlePlain(r)
      /\ class = "call" => Handle(r) = HandlePLT(r)
  <2> HIDE DEF class
  <2> QED BY DEF Handle, class
<1>3. /\ Arch \in {"or1k", "x86_64", "aarch64"} => class \in {"plain", "got", "call", "tpoff", "tlsgd"}
      /\ Arch = "arm" => class \in {"jump", "branch", "tpoff", "got"}
      /\ Arch \in {"or1k", "x86_64", "aarch64", "arm"}
  BY <1>1 DEF Classes, OR1KClasses, X86_64Classes, AArch64Classes, ARMClasses
<1>4. Arch = "arm" /\ r.kind \in ARMClasses.jump => class = "jump"
  BY <1>1, <1>3 DEF Classes, ARMClasses
<1>5. class \in {"got", "tpoff", "tlsgd"} => IsPlainUse(r)
  BY <1>4 DEF IsPlainUse, NeedsStub, IsCode
<1>6. KindOf[r.sym] = "code" => link.dynamic /\ Arch # "arm"
  BY DEF IsReference, Arch
<1>7. r.thumb \in BOOLEAN
  BY DEF IsReference
<1> HIDE DEF class
<1>8. CASE class = "got"
  BY <1>2, <1>5, <1>8, GOTIsRight
<1>9. CASE class = "tpoff"
  BY <1>2, <1>5, <1>9, OthersAreGood, PlainUseIsRight, AnswerIs DEF ByGot, ElfAnswerIsRight
<1>10. CASE class = "tlsgd"
  BY <1>2, <1>5, <1>10, OthersAreGood, PlainUseIsRight, AnswerIs DEF ElfAnswerIsRight
<1>11. CASE class \in {"branch", "jump"}
  BY <1>2, <1>3, <1>6, <1>7, <1>11, BranchIsRight
<1>12. CASE class = "plain"
  BY <1>2, <1>3, <1>6, <1>12, PlainIsRight
<1>13. CASE class = "call"
  BY <1>2, <1>3, <1>6, <1>13, PLTIsRight
<1> QED BY <1>3, <1>8, <1>9, <1>10, <1>11, <1>12, <1>13

\* What was right stays right.
LEMMA ElfTargetStays ==
  ASSUME NEW p, NEW q, ElfGrows(p, q), NEW r, NEW t, ElfTargetIsRight(p, r, t)
  PROVE  ElfTargetIsRight(q, r, t)
  BY DEF ElfGrows, ElfTargetIsRight

-----------------------------------------------------------------------------
(***************************************************************************)
(* MIPS: the same of its pass.                                             *)
(***************************************************************************)

LEMMA MipsNames ==
  /\ \A kind, t : Mips!To(kind, t) = To(kind, t)
  /\ \A i : Mips!Made(i) = Made(i)
  /\ \A x : Mips!Sym(x) = Sym(x)
  /\ \A t : Mips!IsMade(t) = IsMade(t)
  BY DEF Mips!To, To, Mips!Made, Made, Mips!Sym, Sym, Mips!IsMade, IsMade

MipsFields == {"made", "plt0"} \cup MipsMaps

MipsGrows(p, q) ==
  /\ MipsFields \subseteq DOMAIN q /\ IsSeq(q.made) /\ Len(p.made) <= Len(q.made)
  /\ \A i \in 1..Len(p.made) : q.made[i] = p.made[i]
  /\ \A field \in MipsMaps : \A t \in DOMAIN p[field] :
       t \in DOMAIN q[field] /\ q[field][t] = p[field][t]
  /\ q.plt0 = p.plt0

\* What an operation of the pass gives, before the header of the PLT is made.
MipsGood(p, q) == MipsStubs(q) /\ MipsGrows(p, q) /\ q.plt0 = 0

LEMMA MipsGrowsItself == ASSUME NEW p, MipsStubs(p), p.plt0 = 0 PROVE MipsGood(p, p)
<1>1. IsSeq(p.made) /\ MipsFields \subseteq DOMAIN p
  BY DEF MipsStubs, MipsFields
<1>2. Len(p.made) <= Len(p.made)
  BY <1>1, SeqIs
<1> QED BY <1>1, <1>2 DEF MipsGood, MipsGrows

LEMMA MipsGrowsOn ==
  ASSUME NEW p, MipsStubs(p), NEW q, NEW r, MipsGood(p, q), MipsGood(q, r)
  PROVE  MipsGood(p, r)
<1>1. /\ Len(p.made) \in Nat /\ Len(q.made) \in Nat /\ Len(r.made) \in Nat
      /\ Len(p.made) <= Len(q.made) /\ Len(q.made) <= Len(r.made)
  BY SeqIs DEF MipsGood, MipsStubs, MipsGrows
<1>2. \A i \in 1..Len(p.made) : r.made[i] = p.made[i]
  <2>1. /\ \A i \in 1..Len(p.made) : q.made[i] = p.made[i]
        /\ \A i \in 1..Len(q.made) : r.made[i] = q.made[i]
    BY DEF MipsGood, MipsGrows
  <2> QED BY <1>1, <2>1
<1>3. \A field \in MipsMaps : \A t \in DOMAIN p[field] :
        t \in DOMAIN r[field] /\ r[field][t] = p[field][t]
  BY DEF MipsGood, MipsGrows
<1> QED BY <1>1, <1>2, <1>3 DEF MipsGood, MipsGrows

LEMMA MipsAtomsStay ==
  ASSUME NEW p, MipsStubs(p), NEW q, MipsGrows(p, q)
  PROVE  /\ \A i, role : HasAtom(p, i, role) => HasAtom(q, i, role)
         /\ \A field \in MipsMaps : \A t \in DOMAIN p[field] : IsEntry(q, field, t, p[field][t])
<1>0. /\ Len(p.made) \in Nat /\ Len(q.made) \in Nat /\ Len(p.made) <= Len(q.made)
      /\ \A i \in 1..Len(p.made) : i \in 1..Len(q.made) /\ q.made[i] = p.made[i]
  BY SeqIs DEF MipsStubs, MipsGrows
<1>1. \A i, role : HasAtom(p, i, role) => HasAtom(q, i, role) /\ q.made[i] = p.made[i]
  BY <1>0 DEF HasAtom
<1>2. \A t \in DOMAIN p.gotplt : t \in DOMAIN q.gotplt /\ q.gotplt[t] = p.gotplt[t]
  BY DEF MipsGrows, MipsMaps
<1>3. ASSUME NEW field \in MipsMaps, NEW t, NEW i, IsEntry(p, field, t, i)
      PROVE  IsEntry(q, field, t, i)
  <2>1. HasAtom(p, i, RoleIn[field])
    BY <1>3 DEF IsEntry
  <2>2. HasAtom(q, i, RoleIn[field]) /\ q.made[i] = p.made[i]
    BY <1>1, <2>1
  <2> QED BY <1>2, <1>3, <2>2 DEF IsEntry
<1>4. \A field \in MipsMaps : \A t \in DOMAIN p[field] : IsEntry(p, field, t, p[field][t])
  BY DEF MipsStubs
<1> QED BY <1>1, <1>3, <1>4

\* What the pass changes besides.
LEMMA OtherFieldsAreGood ==
  ASSUME NEW p, MipsStubs(p), p.plt0 = 0, NEW q, MipsFields \subseteq DOMAIN q,
         \A field \in MipsFields : q[field] = p[field]
  PROVE  MipsGood(p, q)
<1>1. /\ q.made = p.made /\ q.plt0 = p.plt0 /\ IsSeq(p.made)
      /\ \A field \in MipsMaps : q[field] = p[field]
  BY DEF MipsFields, MipsStubs
<1>2. Len(p.made) <= Len(p.made)
  BY <1>1, SeqIs
<1>3. MipsGrows(p, q)
  BY <1>1, <1>2 DEF MipsGrows
<1>4. MipsStubs(q)
  BY <1>1, <1>3, MipsAtomsStay DEF MipsStubs, MipsFields
<1> QED BY <1>1, <1>3, <1>4 DEF MipsGood

LEMMA EntryIs ==
  ASSUME NEW p, MipsStubs(p), NEW field, field \notin {"made", "plt0"}, NEW key,
         key \notin DOMAIN p[field], NEW vector, vector \notin MipsFields, NEW atom, NEW q,
         q = Mips!Entry(p, field, key, vector, atom)
  PROVE  /\ MipsFields \subseteq DOMAIN q /\ q.made = Append(p.made, atom)
         /\ \A g \in MipsFields \ {"made", field} : q[g] = p[g]
         /\ field \in MipsMaps => q[field] = With(p[field], key, Len(p.made) + 1)
<1> DEFINE n == Len(p.made) + 1
           f == Mips!With(p[field], key, n)
<1>1. q = [p EXCEPT !.made = Append(@, atom), ![field] = f, ![vector] = Append(@, n)]
  BY DEF Mips!Entry
<1>2. f = With(p[field], key, n)
  BY DEF With, Mips!With
<1> HIDE DEF f, n
<1>3. MipsFields \subseteq DOMAIN p /\ MipsMaps \subseteq MipsFields /\ "made" \in MipsFields
  BY DEF MipsStubs, MipsFields
<1>4. q.made = Append(p.made, atom)
  BY <1>1, <1>3
<1>5. \A g \in MipsFields \ {"made", field} : q[g] = p[g]
  BY <1>1, <1>3
<1>6. field \in MipsMaps => q[field] = f
  BY <1>1, <1>3
<1> QED BY <1>1, <1>2, <1>3, <1>4, <1>5, <1>6 DEF n

\* The atoms of q are those of p, and one more.
Appended(p, q, atom) ==
  /\ IsSeq(p.made) /\ IsSeq(q.made) /\ Len(p.made) \in Nat
  /\ Len(q.made) = Len(p.made) + 1 /\ Len(p.made) <= Len(q.made)
  /\ \A i \in 1..Len(p.made) : q.made[i] = p.made[i]
  /\ q.made[Len(p.made) + 1] = atom
  /\ \A i \in 1..Len(q.made) : IsAtom(q.made[i])

LEMMA AppendedAtoms ==
  ASSUME NEW p, MipsStubs(p), NEW atom, IsAtom(atom), NEW q, q.made = Append(p.made, atom)
  PROVE  Appended(p, q, atom)
<1>1. /\ IsSeq(p.made) /\ IsSeq(q.made) /\ Len(p.made) \in Nat
      /\ Len(q.made) = Len(p.made) + 1
      /\ \A i \in 1..Len(p.made) : q.made[i] = p.made[i]
      /\ q.made[Len(p.made) + 1] = atom
  BY AppendIs, SeqIs DEF MipsStubs
<1>2. \A i \in 1..Len(p.made) : IsAtom(p.made[i])
  BY DEF MipsStubs
<1>3. \A i \in 1..Len(q.made) : i \in 1..Len(p.made) \/ i = Len(p.made) + 1
  BY <1>1
<1>4. Len(p.made) <= Len(q.made)
  BY <1>1
<1>5. \A i \in 1..Len(q.made) : IsAtom(q.made[i])
  BY <1>1, <1>2, <1>3
<1> QED BY <1>1, <1>4, <1>5 DEF Appended

\* An entry of a map that has nothing to do with stubs.
LEMMA OtherEntryIsGood ==
  ASSUME NEW p, MipsStubs(p), p.plt0 = 0, NEW field, field \notin MipsFields, NEW key,
         NEW vector, vector \notin MipsFields, NEW atom, IsAtom(atom)
  PROVE  MipsGood(p, Mips!Entry(p, field, key, vector, atom))
<1>1. CASE key \in DOMAIN p[field]
  BY <1>1, MipsGrowsItself DEF Mips!Entry
<1>2. CASE key \notin DOMAIN p[field]
  <2> DEFINE q == Mips!Entry(p, field, key, vector, atom)
  <2>1. /\ MipsFields \subseteq DOMAIN q /\ q.made = Append(p.made, atom)
        /\ \A g \in MipsFields \ {"made", field} : q[g] = p[g]
    BY <1>2, EntryIs DEF MipsFields
  <2> HIDE DEF q
  <2>2. q.plt0 = p.plt0 /\ \A g \in MipsMaps : q[g] = p[g]
    BY <2>1 DEF MipsFields, MipsMaps
  <2>3. /\ IsSeq(p.made) /\ IsSeq(q.made) /\ Len(p.made) <= Len(q.made)
        /\ \A i \in 1..Len(p.made) : q.made[i] = p.made[i]
        /\ \A i \in 1..Len(q.made) : IsAtom(q.made[i])
    <3>1. q.made = Append(p.made, atom)
      BY <2>1
    <3>2. Appended(p, q, atom)
      BY <3>1, AppendedAtoms
    <3> QED BY <3>2 DEF Appended
  <2>4. MipsGrows(p, q)
    BY <2>1, <2>2, <2>3 DEF MipsGrows
  <2>5. MipsStubs(q)
    BY <2>1, <2>2, <2>3, <2>4, MipsAtomsStay DEF MipsStubs, MipsFields
  <2>6. MipsGood(p, q)
    BY <2>2, <2>4, <2>5 DEF MipsGood
  <2> QED BY <2>6 DEF q
<1> QED BY <1>1, <1>2

\* An entry of one that has.
LEMMA StubEntryIsGood ==
  ASSUME NEW p, MipsStubs(p), p.plt0 = 0, NEW field \in MipsMaps, NEW key,
         NEW vector, vector \notin MipsFields, NEW atom,
         IsAtom(atom), atom.role = RoleIn[field],
         field = "gotplt" => To("jump_slot", key) \in atom.refs,
         field \in {"pltReg", "pltMicro"} =>
           /\ key \in DOMAIN p.gotplt /\ To("address", Made(p.gotplt[key])) \in atom.refs
           /\ \A x \in atom.refs : IsMade(x.to) => x.to = Made(p.gotplt[key])
  PROVE  /\ MipsGood(p, Mips!Entry(p, field, key, vector, atom))
         /\ key \in DOMAIN Mips!Entry(p, field, key, vector, atom)[field]
<1>1. CASE key \in DOMAIN p[field]
  BY <1>1, MipsGrowsItself DEF Mips!Entry
<1>2. CASE key \notin DOMAIN p[field]
  <2> DEFINE q == Mips!Entry(p, field, key, vector, atom)
             n == Len(p.made) + 1
  <2>0. field \notin {"made", "plt0"}
    BY DEF MipsMaps
  <2>1. /\ MipsFields \subseteq DOMAIN q /\ q.made = Append(p.made, atom)
        /\ \A g \in MipsFields \ {"made", field} : q[g] = p[g]
        /\ q[field] = With(p[field], key, n)
    BY <1>2, <2>0, EntryIs
  <2> HIDE DEF q
  <2>2. q.plt0 = p.plt0 /\ \A g \in MipsMaps \ {field} : q[g] = p[g]
    BY <2>0, <2>1 DEF MipsFields, MipsMaps
  <2>3. /\ DOMAIN q[field] = DOMAIN p[field] \cup {key} /\ q[field][key] = n
        /\ \A t \in DOMAIN p[field] : q[field][t] = p[field][t]
    BY <1>2, <2>1 DEF With
  <2>4. /\ IsSeq(p.made) /\ IsSeq(q.made) /\ Len(p.made) \in Nat /\ Len(q.made) = n
        /\ \A i \in 1..Len(p.made) : q.made[i] = p.made[i]
        /\ q.made[n] = atom
        /\ \A i \in 1..Len(q.made) : IsAtom(q.made[i])
    <3>1. q.made = Append(p.made, atom)
      BY <2>1
    <3>2. Appended(p, q, atom)
      BY <3>1, AppendedAtoms
    <3> QED BY <3>2 DEF Appended
  <2> HIDE DEF n
  <2>5. Len(p.made) <= Len(q.made) /\ n \in 1..Len(q.made)
    BY <2>4 DEF n
  <2>6. MipsGrows(p, q)
    BY <2>1, <2>2, <2>3, <2>4, <2>5 DEF MipsGrows
  <2>7. IsEntry(q, field, key, n)
    <3>1. HasAtom(q, n, RoleIn[field])
      BY <2>4, <2>5 DEF HasAtom
    <3>2. \A t \in DOMAIN p.gotplt : t \in DOMAIN q.gotplt /\ q.gotplt[t] = p.gotplt[t]
      BY <2>6 DEF MipsGrows, MipsMaps
    <3> QED BY <2>4, <3>1, <3>2 DEF IsEntry
  <2>8. ASSUME NEW g \in MipsMaps, NEW t \in DOMAIN q[g] PROVE IsEntry(q, g, t, q[g][t])
    <3>1. CASE g = field /\ t = key
      BY <2>3, <2>7, <3>1
    <3>2. CASE ~(g = field /\ t = key)
      <4>1. t \in DOMAIN p[g] /\ q[g][t] = p[g][t]
        BY <2>2, <2>3, <2>8, <3>2
      <4> QED BY <2>6, <4>1, MipsAtomsStay
    <3> QED BY <3>1, <3>2
  <2>9. MipsStubs(q)
    BY <2>1, <2>2, <2>4, <2>8 DEF MipsStubs, MipsFields
  <2>10. MipsGood(p, q) /\ key \in DOMAIN q[field]
    BY <2>2, <2>3, <2>6, <2>9 DEF MipsGood
  <2> QED BY <2>10 DEF q
<1> QED BY <1>1, <1>2

LEMMA MipsAtomIs ==
  \A role, sec, sym, refs :
    /\ IsAtom(Mips!Atom(role, sec, sym, refs))
    /\ Mips!Atom(role, sec, sym, refs).role = role
    /\ Mips!Atom(role, sec, sym, refs).refs = refs
  BY DEF Mips!Atom, IsAtom

LEMMA MipsOthersAreGood ==
  ASSUME NEW p, MipsStubs(p), p.plt0 = 0, NEW t, NEW addend
  PROVE  /\ MipsGood(p, Mips!GetLocalGOTEntry(p, t, addend))
         /\ MipsGood(p, Mips!GetLocalGOTPageEntry(p, t, addend))
         /\ MipsGood(p, Mips!GetGlobalGOTEntry(p, t))
         /\ MipsGood(p, Mips!GetTLSGOTEntry(p, t))
         /\ MipsGood(p, Mips!GetTLSGdGOTEntry(p, t))
         /\ MipsGood(p, Mips!GetObjectEntry(p, t))
<1>1. /\ "locals" \notin MipsFields /\ "globals" \notin MipsFields /\ "tlss" \notin MipsFields
      /\ "objects" \notin MipsFields
      /\ \A field \in {"local", "page", "global", "tls", "gd", "object"} : field \notin MipsFields
  BY DEF MipsFields, MipsMaps
<1>2. MipsGood(p, Mips!GetLocalGOTEntry(p, t, addend))
  BY <1>1, MipsAtomIs, OtherEntryIsGood DEF Mips!GetLocalGOTEntry
<1>3. MipsGood(p, Mips!GetLocalGOTPageEntry(p, t, addend))
  BY <1>1, MipsAtomIs, OtherEntryIsGood DEF Mips!GetLocalGOTPageEntry
<1>4. MipsGood(p, Mips!GetGlobalGOTEntry(p, t))
  BY <1>1, MipsAtomIs, OtherEntryIsGood DEF Mips!GetGlobalGOTEntry
<1>5. MipsGood(p, Mips!GetTLSGOTEntry(p, t)) /\ MipsGood(p, Mips!GetTLSGdGOTEntry(p, t))
  BY <1>1, MipsAtomIs, OtherEntryIsGood DEF Mips!GetTLSGOTEntry, Mips!GetTLSGdGOTEntry
<1>6. MipsGood(p, Mips!GetObjectEntry(p, t))
  BY <1>1, MipsAtomIs, OtherEntryIsGood DEF Mips!GetObjectEntry
<1> QED BY <1>2, <1>3, <1>4, <1>5, <1>6

LEMMA LdmIsGood ==
  ASSUME NEW p, MipsStubs(p), p.plt0 = 0
  PROVE  MipsGood(p, Mips!GetTLSLdmGOTEntry(p))
<1>1. CASE p.ldm # 0
  BY <1>1, MipsGrowsItself DEF Mips!GetTLSLdmGOTEntry
<1>2. CASE p.ldm = 0
  <2> DEFINE n == Len(p.made) + 1
             atom == Mips!Atom("ldm", ".got", "", {Mips!To("dtpmod", Mips!Made(n))})
             q == [p EXCEPT !.made = Append(@, atom), !.tlss = Append(@, n), !.ldm = n]
  <2>1. Mips!GetTLSLdmGOTEntry(p) = q
    BY <1>2 DEF Mips!GetTLSLdmGOTEntry
  <2>7. IsAtom(atom)
    BY MipsAtomIs
  <2> HIDE DEF atom, n
  <2>2. /\ MipsFields \subseteq DOMAIN q /\ q.made = Append(p.made, atom)
        /\ \A g \in MipsFields \ {"made"} : q[g] = p[g]
    BY DEF MipsStubs, MipsFields, MipsMaps
  <2> HIDE DEF q
  <2>3. q.plt0 = p.plt0 /\ \A g \in MipsMaps : q[g] = p[g]
    BY <2>2 DEF MipsFields, MipsMaps
  <2>4. /\ IsSeq(p.made) /\ IsSeq(q.made) /\ Len(p.made) <= Len(q.made)
        /\ \A i \in 1..Len(p.made) : q.made[i] = p.made[i]
        /\ \A i \in 1..Len(q.made) : IsAtom(q.made[i])
    <3>1. q.made = Append(p.made, atom)
      BY <2>2
    <3>2. Appended(p, q, atom)
      BY <2>7, <3>1, AppendedAtoms
    <3> QED BY <3>2 DEF Appended
  <2>5. MipsGrows(p, q)
    BY <2>2, <2>3, <2>4 DEF MipsGrows
  <2>6. MipsStubs(q)
    BY <2>2, <2>3, <2>4, <2>5, MipsAtomsStay DEF MipsStubs, MipsFields
  <2> QED BY <2>1, <2>3, <2>5, <2>6 DEF MipsGood
<1> QED BY <1>1, <1>2

LEMMA LA25IsGood ==
  ASSUME NEW p, MipsStubs(p), p.plt0 = 0, NEW t
  PROVE  /\ MipsGood(p, Mips!GetLA25RegEntry(p, t)) /\ t \in DOMAIN Mips!GetLA25RegEntry(p, t).la25Reg
         /\ MipsGood(p, Mips!GetLA25MicroEntry(p, t)) /\ t \in DOMAIN Mips!GetLA25MicroEntry(p, t).la25Micro
<1> DEFINE reg == Mips!Atom("la25", ".text", t[2], {Mips!To("address", t)})
           micro == Mips!Atom("la25micro", ".text", t[2], {Mips!To("address", t)})
<1>1. reg.role = "la25" /\ micro.role = "la25micro" /\ IsAtom(reg) /\ IsAtom(micro)
  BY MipsAtomIs
<1>2. /\ Mips!GetLA25RegEntry(p, t) = Mips!Entry(p, "la25Reg", t, "la25s", reg)
      /\ Mips!GetLA25MicroEntry(p, t) = Mips!Entry(p, "la25Micro", t, "la25s", micro)
  BY DEF Mips!GetLA25RegEntry, Mips!GetLA25MicroEntry
<1> HIDE DEF reg, micro
<1>3. "la25s" \notin MipsFields /\ "la25Reg" \in MipsMaps /\ "la25Micro" \in MipsMaps
  BY DEF MipsFields, MipsMaps
<1>4. RoleIn["la25Reg"] = "la25" /\ RoleIn["la25Micro"] = "la25micro"
  BY DEF RoleIn
<1>5. /\ MipsGood(p, Mips!Entry(p, "la25Reg", t, "la25s", reg))
      /\ t \in DOMAIN Mips!Entry(p, "la25Reg", t, "la25s", reg).la25Reg
  BY <1>1, <1>3, <1>4, StubEntryIsGood
<1>6. /\ MipsGood(p, Mips!Entry(p, "la25Micro", t, "la25s", micro))
      /\ t \in DOMAIN Mips!Entry(p, "la25Micro", t, "la25s", micro).la25Micro
  BY <1>1, <1>3, <1>4, StubEntryIsGood
<1> QED BY <1>2, <1>5, <1>6

LEMMA GOTPLTIsGood ==
  ASSUME NEW p, MipsStubs(p), p.plt0 = 0, NEW t
  PROVE  MipsGood(p, Mips!GetGOTPLTEntry(p, t)) /\ t \in DOMAIN Mips!GetGOTPLTEntry(p, t).gotplt
<1> DEFINE atom == Mips!Atom("got", ".got.plt", t[2], {Mips!To("jump_slot", t)})
<1>1. IsAtom(atom) /\ atom.role = "got" /\ To("jump_slot", t) \in atom.refs
  BY MipsAtomIs, MipsNames
<1>2. Mips!GetGOTPLTEntry(p, t) = Mips!Entry(p, "gotplt", t, "gotplts", atom)
  BY DEF Mips!GetGOTPLTEntry
<1> HIDE DEF atom
<1>3. "gotplts" \notin MipsFields /\ "gotplt" \in MipsMaps /\ RoleIn["gotplt"] = "got"
  BY DEF MipsFields, MipsMaps, RoleIn
<1> QED BY <1>1, <1>2, <1>3, StubEntryIsGood

\* A PLT entry of either instruction set, behind the slot they share.
LEMMA MipsPLTIsGood ==
  ASSUME NEW p, MipsStubs(p), p.plt0 = 0, NEW t, ~IsMade(t)
  PROVE  /\ MipsGood(p, Mips!GetPLTRegEntry(p, t)) /\ t \in DOMAIN Mips!GetPLTRegEntry(p, t).pltReg
         /\ MipsGood(p, Mips!GetPLTMicroEntry(p, t)) /\ t \in DOMAIN Mips!GetPLTMicroEntry(p, t).pltMicro
<1>1. ASSUME NEW field \in {"pltReg", "pltMicro"}, NEW vector, vector \notin MipsFields, NEW role,
             role = RoleIn[field]
      PROVE  /\ MipsGood(p, Mips!PLTEntry(p, t, field, vector, role))
             /\ t \in DOMAIN Mips!PLTEntry(p, t, field, vector, role)[field]
  <2>1. CASE t \in DOMAIN p[field]
    BY <2>1, MipsGrowsItself DEF Mips!PLTEntry
  <2>2. CASE t \notin DOMAIN p[field]
    <3> DEFINE q == Mips!GetGOTPLTEntry(p, t)
               refs == {Mips!To("address", Mips!Made(q.gotplt[t]))} \cup Mips!StoPlt(p, t)
               atom == Mips!Atom(role, ".plt", t[2], refs)
               r == Mips!Entry(q, field, t, vector, atom)
    <3>1. Mips!PLTEntry(p, t, field, vector, role) = r
      BY <2>2 DEF Mips!PLTEntry
    <3>2. MipsGood(p, q) /\ MipsStubs(q) /\ q.plt0 = 0 /\ t \in DOMAIN q.gotplt
      BY GOTPLTIsGood DEF MipsGood
    <3> HIDE DEF q
    <3>3. /\ To("address", Made(q.gotplt[t])) \in refs
          /\ \A x \in refs : IsMade(x.to) => x.to = Made(q.gotplt[t])
      <4>1. \A x \in Mips!StoPlt(p, t) : x.to = t
        BY MipsNames, ToIs DEF Mips!StoPlt
      <4>2. Mips!To("address", Mips!Made(q.gotplt[t])) = To("address", Made(q.gotplt[t]))
        BY MipsNames
      <4> QED BY <4>1, <4>2, ToIs
    <3>4. IsAtom(atom) /\ atom.role = role /\ atom.refs = refs
      BY MipsAtomIs
    <3> HIDE DEF atom, refs
    <3>5. field \in MipsMaps /\ field # "gotplt"
      BY DEF MipsMaps
    <3>6. MipsGood(q, r) /\ t \in DOMAIN r[field]
      BY <1>1, <3>2, <3>3, <3>4, <3>5, StubEntryIsGood
    <3> HIDE DEF r
    <3> QED BY <3>1, <3>2, <3>6, MipsGrowsOn
  <2> QED BY <2>1, <2>2
<1>2. /\ "regs" \notin MipsFields /\ "micros" \notin MipsFields
      /\ "plt" = RoleIn["pltReg"] /\ "pltmicro" = RoleIn["pltMicro"]
  BY DEF MipsFields, MipsMaps, RoleIn
<1>3. /\ MipsGood(p, Mips!PLTEntry(p, t, "pltReg", "regs", "plt"))
      /\ t \in DOMAIN Mips!PLTEntry(p, t, "pltReg", "regs", "plt").pltReg
  BY <1>1, <1>2
<1>4. /\ MipsGood(p, Mips!PLTEntry(p, t, "pltMicro", "micros", "pltmicro"))
      /\ t \in DOMAIN Mips!PLTEntry(p, t, "pltMicro", "micros", "pltmicro").pltMicro
  BY <1>1, <1>2
<1> QED BY <1>3, <1>4 DEF Mips!GetPLTRegEntry, Mips!GetPLTMicroEntry

-----------------------------------------------------------------------------
(***************************************************************************)
(* handleReference and perform of MIPS.                                    *)
(***************************************************************************)

LEMMA MipsAnswerIs ==
  \A p, t : Mips!Answer(p, t).p = p /\ Mips!Answer(p, t).to = t
  BY DEF Mips!Answer

LEMMA MipsPlainIsGood ==
  ASSUME NEW l, NEW p, MipsStubs(p), p.plt0 = 0, NEW t, ~IsMade(t)
  PROVE  MipsGood(p, Mips!HandlePlain(l, p, t).p)
<1>1. Mips!PLTFor(p, t).p \in {p, Mips!GetPLTMicroEntry(p, t), Mips!GetPLTRegEntry(p, t)}
  BY MipsAnswerIs DEF Mips!PLTFor
<1>2. Mips!HandlePlain(l, p, t).p \in {p, Mips!PLTFor(p, t).p, Mips!GetObjectEntry(p, t)}
  BY MipsAnswerIs DEF Mips!HandlePlain
<1> QED BY <1>1, <1>2, MipsPLTIsGood, MipsOthersAreGood, MipsGrowsItself

LEMMA MipsGOTIsGood ==
  ASSUME NEW l, NEW p, MipsStubs(p), p.plt0 = 0, NEW t, NEW r
  PROVE  MipsGood(p, Mips!HandleGOT(l, p, t, r).p)
<1>1. Mips!HandleGOT(l, p, t, r).p \in
        {Mips!GetGlobalGOTEntry(p, t), Mips!GetLocalGOTPageEntry(p, t, r.addend),
         Mips!GetLocalGOTEntry(p, t, r.addend)}
  BY MipsAnswerIs DEF Mips!HandleGOT
<1> QED BY <1>1, MipsOthersAreGood

\* A stub of the caller's instruction set.
LEMMA JumpIsRight ==
  ASSUME NEW p, MipsStubs(p), p.plt0 = 0, NEW r, r.thumb \in BOOLEAN,
         NEW a, a = Mips!Handle26(p, Sym(r.sym), r.thumb)
  PROVE  MipsGood(p, a.p) /\ MipsTargetIsRight(a.p, r, a.to)
<1> DEFINE t == Sym(r.sym)
           reg == Mips!GetPLTRegEntry(p, t)
           micro == Mips!GetPLTMicroEntry(p, t)
           la == Mips!GetLA25RegEntry(p, t)
           lam == Mips!GetLA25MicroEntry(p, t)
<1>0. ~IsMade(t) /\ t[2] = r.sym
  BY DEF IsMade, Sym
<1>1. /\ Mips!KindIn(t, {"code"}) <=> KindOf[r.sym] = "code"
      /\ Mips!RequireLA25Stub(p, t) => KindOf[r.sym] # "code"
  BY <1>0, MipsNames DEF Mips!KindIn, Mips!RequireLA25Stub
<1>2. /\ MipsGood(p, reg) /\ t \in DOMAIN reg.pltReg
      /\ MipsGood(p, micro) /\ t \in DOMAIN micro.pltMicro
      /\ MipsGood(p, la) /\ t \in DOMAIN la.la25Reg
      /\ MipsGood(p, lam) /\ t \in DOMAIN lam.la25Micro
  BY <1>0, MipsPLTIsGood, LA25IsGood
<1>3. /\ KindOf[r.sym] = "code" /\ r.thumb => a.p = micro /\ a.to = Made(micro.pltMicro[t])
      /\ KindOf[r.sym] = "code" /\ ~r.thumb => a.p = reg /\ a.to = Made(reg.pltReg[t])
      /\ KindOf[r.sym] # "code" =>
           \/ r.thumb /\ a.p = lam /\ a.to = Made(lam.la25Micro[t])
           \/ ~r.thumb /\ a.p = la /\ a.to = Made(la.la25Reg[t])
           \/ a.p = p /\ a.to = t
  <2>0. a = Mips!Handle26(p, t, r.thumb)
    OBVIOUS
  <2> HIDE DEF reg, micro, la, lam, t
  <2>1. /\ KindOf[r.sym] = "code" /\ r.thumb => a = Mips!Answer(micro, Mips!Made(micro.pltMicro[t]))
        /\ KindOf[r.sym] = "code" /\ ~r.thumb => a = Mips!Answer(reg, Mips!Made(reg.pltReg[t]))
    BY <1>1, <2>0 DEF Mips!Handle26, micro, reg
  <2>2. KindOf[r.sym] # "code" =>
           \/ r.thumb /\ a = Mips!Answer(lam, Mips!Made(lam.la25Micro[t]))
           \/ ~r.thumb /\ a = Mips!Answer(la, Mips!Made(la.la25Reg[t]))
           \/ a = Mips!Answer(p, t)
    BY <1>1, <2>0 DEF Mips!Handle26, lam, la
  <2> QED BY <2>1, <2>2, MipsAnswerIs, MipsNames
<1> HIDE DEF reg, micro, la, lam
<1>4. CASE KindOf[r.sym] = "code"
  BY <1>2, <1>3, <1>4 DEF MipsTargetIsRight
<1>5. CASE KindOf[r.sym] # "code"
  <2>1. /\ HasAtom(la, la.la25Reg[t], "la25") /\ HasAtom(lam, lam.la25Micro[t], "la25micro")
    <3>1. IsEntry(la, "la25Reg", t, la["la25Reg"][t]) /\ IsEntry(lam, "la25Micro", t, lam["la25Micro"][t])
      BY <1>2 DEF MipsGood, MipsStubs, MipsMaps
    <3> QED BY <3>1 DEF IsEntry, RoleIn
  <2>2. \A i : Made(i)[2] = i
    BY DEF Made
  <2>3. MipsGood(p, a.p) /\ (IsMade(a.to) => HasAtom(a.p, a.to[2], IF r.thumb THEN "la25micro" ELSE "la25"))
    BY <1>0, <1>2, <1>3, <1>5, <2>1, <2>2, MipsGrowsItself
  <2> QED BY <1>5, <2>3 DEF MipsTargetIsRight
<1> QED BY <1>4, <1>5

LEMMA MipsHandleIsRight ==
  ASSUME Arch = "mips", NEW p, MipsStubs(p), p.plt0 = 0, NEW r, IsReference(link, r),
         NEW a, a = Mips!Handle(link, p, r)
  PROVE  MipsGood(p, a.p) /\ MipsTargetIsRight(a.p, r, a.to)
<1> DEFINE t == Sym(r.sym)
<1>1. ~IsMade(t) /\ Mips!Sym(r.sym) = t
  BY MipsNames DEF IsMade, Sym
<1>2. /\ r.kind \in MipsClasses.jump26 \/ r.kind \in MipsClasses.address
      /\ r.thumb \in BOOLEAN /\ r.thumb = (r.kind = "26_S1")
  BY DEF IsReference, Arch, Classes, MipsClasses
<1>3. CASE r.kind \in MipsClasses.jump26
  <2>1. a = Mips!Handle26(p, Sym(r.sym), r.thumb)
    BY <1>1, <1>2, <1>3 DEF Mips!Handle, MipsClasses
  <2>2. r.thumb \in BOOLEAN
    BY <1>2
  <2> QED BY <2>1, <2>2, JumpIsRight
<1>4. CASE r.kind \in MipsClasses.address
  <2>1. a.p \in {p, Mips!HandlePlain(link, p, t).p, Mips!HandleGOT(link, p, t, r).p,
                 Mips!GetTLSGdGOTEntry(p, t), Mips!GetTLSLdmGOTEntry(p), Mips!GetTLSGOTEntry(p, t)}
    BY <1>1, <1>4, MipsAnswerIs DEF Mips!Handle, MipsClasses
  <2>2. MipsGood(p, a.p)
    <3> HIDE DEF t
    <3> QED BY <1>1, <2>1, MipsPlainIsGood, MipsGOTIsGood, MipsOthersAreGood, LdmIsGood, MipsGrowsItself
  <2>3. ~IsCode(r)
    <3>1. /\ ClassOf(Arch, r.kind) \in DOMAIN Classes[Arch]
          /\ r.kind \in Classes[Arch][ClassOf(Arch, r.kind)]
      BY ClassIs DEF IsReference, Arch
    <3>2. ClassOf(Arch, r.kind) = "address"
      <4> DEFINE c == ClassOf(Arch, r.kind)
      <4> HIDE DEF c
      <4>1. c \in {"jump26", "address"} /\ r.kind \in MipsClasses[c]
        BY <3>1 DEF Classes, MipsClasses, c
      <4> QED BY <1>4, <4>1 DEF MipsClasses, c
    <3> QED BY <3>2 DEF IsCode
  <2> QED BY <2>2, <2>3 DEF MipsTargetIsRight
<1> QED BY <1>2, <1>3, <1>4

LEMMA MipsTargetStays ==
  ASSUME NEW p, NEW q, NEW r, NEW t, MipsTargetIsRight(p, r, t),
         \A i, role : HasAtom(p, i, role) => HasAtom(q, i, role),
         \A x \in DOMAIN p.pltReg : x \in DOMAIN q.pltReg /\ q.pltReg[x] = p.pltReg[x],
         \A x \in DOMAIN p.pltMicro : x \in DOMAIN q.pltMicro /\ q.pltMicro[x] = p.pltMicro[x]
  PROVE  MipsTargetIsRight(q, r, t)
  BY DEF MipsTargetIsRight

LEMMA RelocatingIsGood ==
  ASSUME NEW l, NEW to, NEW p, MipsStubs(p), p.plt0 = 0, NEW k
  PROVE  MipsGood(p, Mips!MakeRel32(l, to, p, k))
<1> DEFINE q == [p EXCEPT !.rel32 = @ \cup {k}]
<1>1. MipsGood(p, q)
  <2>1. MipsFields \subseteq DOMAIN q /\ \A field \in MipsFields : q[field] = p[field]
    BY DEF MipsStubs, MipsFields, MipsMaps
  <2> HIDE DEF q
  <2> QED BY <2>1, OtherFieldsAreGood
<1>2. Mips!MakeRel32(l, to, p, k) \in {p, q, Mips!GetGlobalGOTEntry(q, to[k])}
  BY DEF Mips!MakeRel32
<1> HIDE DEF q
<1>3. MipsGood(q, Mips!GetGlobalGOTEntry(q, to[k]))
  BY <1>1, MipsOthersAreGood DEF MipsGood
<1> QED BY <1>1, <1>2, <1>3, MipsGrowsOn, MipsGrowsItself

\* The header comes behind what there is, and every slot is made to enter it.
LongerBy(q, m, a, b, c) ==
  /\ IsSeq(q) /\ Len(m) \in Nat /\ Len(q) = Len(m) + 3
  /\ \A i \in 1..Len(m) : q[i] = m[i]
  /\ q[Len(m) + 1] = a /\ q[Len(m) + 2] = b /\ q[Len(m) + 3] = c

LEMMA ConcatIs ==
  ASSUME NEW m, IsSeq(m), NEW a, NEW b, NEW c
  PROVE  LongerBy(m \o <<a, b, c>>, m, a, b, c)
<1> DEFINE S == {m[i] : i \in DOMAIN m}
           T == S \cup {a, b, c}
           w == <<a, b, c>>
           q == m \o w
           n == Len(m)
<1>1. m \in Seq(T) /\ w \in Seq(T) /\ Len(w) = 3
  <2>1. m \in Seq(S)
    BY DEF IsSeq
  <2>2. m \in [1..Len(m) -> S] /\ Len(m) \in Nat
    BY <2>1
  <2> HIDE DEF S
  <2>3. m \in [1..Len(m) -> T]
    BY <2>2
  <2>4. a \in T /\ b \in T /\ c \in T
    OBVIOUS
  <2> HIDE DEF T
  <2> QED BY <2>2, <2>3, <2>4
<1>2. w[1] = a /\ w[2] = b /\ w[3] = c
  OBVIOUS
<1> HIDE DEF S, T, w
<1>3. /\ n \in Nat /\ Len(q) = n + 3 /\ q \in Seq(T)
      /\ \A i \in 1..n + 3 : q[i] = IF i <= n THEN m[i] ELSE w[i - n]
  <2>1. /\ q \in Seq(T) /\ Len(q) = Len(m) + Len(w)
        /\ \A i \in 1..Len(m) + Len(w) : q[i] = IF i <= Len(m) THEN m[i] ELSE w[i - Len(m)]
    BY <1>1, ConcatProperties
  <2>2. n \in Nat
    BY SeqIs
  <2> HIDE DEF q
  <2> QED BY <1>1, <2>1, <2>2
<1>4. q[n + 1] = w[1] /\ q[n + 2] = w[2] /\ q[n + 3] = w[3] /\ \A i \in 1..n : q[i] = m[i]
  <2> HIDE DEF q, n
  <2>1. /\ n + 1 \in 1..n + 3 /\ n + 2 \in 1..n + 3 /\ n + 3 \in 1..n + 3
        /\ n + 1 - n = 1 /\ n + 2 - n = 2 /\ n + 3 - n = 3
        /\ ~(n + 1 <= n) /\ ~(n + 2 <= n) /\ ~(n + 3 <= n)
    BY <1>3
  <2>2. \A i \in 1..n : i \in 1..n + 3 /\ i <= n
    BY <1>3
  <2> QED BY <1>3, <2>1, <2>2
<1>5. IsSeq(q)
  <2>1. q \in [1..Len(q) -> T]
    <3> HIDE DEF q
    <3> QED BY <1>3
  <2> HIDE DEF q, n
  <2> DEFINE U == {q[i] : i \in DOMAIN q}
  <2>2. q \in [1..Len(q) -> U]
    BY <2>1
  <2>3. Len(q) \in Nat
    BY <1>3
  <2> HIDE DEF U
  <2>4. q \in Seq(U)
    BY <2>2, <2>3
  <2> QED BY <2>4 DEF U, IsSeq
<1> HIDE DEF q
<1>6. LongerBy(q, m, a, b, c)
  BY <1>2, <1>3, <1>4, <1>5 DEF LongerBy
<1> QED BY <1>6 DEF q, w

\* createPLTHeader: the atoms keep their roles, the maps their entries, and
\* every slot leads to the new header.
LEMMA HeaderIsGood ==
  ASSUME NEW p, MipsStubs(p), p.plt0 = 0, NEW q, q = Mips!CreatePLTHeader(p)
  PROVE  /\ MipsStubs(q)
         /\ \A i, role : HasAtom(p, i, role) => HasAtom(q, i, role)
         /\ \A field \in MipsMaps : q[field] = p[field]
<1>1. CASE p.regs = <<>> /\ p.micros = <<>>
  <2>1. q = p
    BY <1>1 DEF Mips!CreatePLTHeader
  <2> QED BY <2>1
<1>2. CASE ~(p.regs = <<>> /\ p.micros = <<>>)
  <2> DEFINE n == Len(p.made)
             slot == Mips!Atom("got0", ".got.plt", "", {})
             role0 == IF p.regs # <<>> THEN "plt0" ELSE "plt0micro"
           refs0 == {Mips!To("address", Mips!Made(n + 2))}
           header == Mips!Atom(role0, ".plt", "", refs0)
             enter == Mips!To("address", Mips!Made(n + 3))
             bound == [i \in DOMAIN p.made |->
                         IF p.made[i].role = "got" THEN [p.made[i] EXCEPT !.refs = @ \cup {enter}]
                         ELSE p.made[i]]
             made == bound \o <<slot, slot, header>>
  <2>1. q = [p EXCEPT !.made = made, !.plt0 = n + 3, !.got0 = n + 2, !.gotplts = <<n + 2, n + 1>> \o @]
    BY <1>2 DEF Mips!CreatePLTHeader
  <2>2. slot.role = "got0" /\ header.role # "got" /\ IsAtom(slot) /\ IsAtom(header)
    <3>1. role0 # "got"
      OBVIOUS
    <3> HIDE DEF role0, refs0, made, bound, enter, n
    <3>2. slot.role = "got0" /\ IsAtom(slot)
      BY MipsAtomIs
    <3>3. header.role = role0 /\ IsAtom(header)
      BY MipsAtomIs
    <3> QED BY <3>1, <3>2, <3>3
  <2>3. enter = To("address", Made(n + 3))
    BY MipsNames
  <2> HIDE DEF role0, refs0, slot, header, enter, made
  <2>4. IsSeq(p.made) /\ n \in Nat /\ DOMAIN p.made = 1..n
    BY SeqIs DEF MipsStubs
  <2>5. IsSeq(bound) /\ Len(bound) = n
    <3> HIDE DEF n
    <3> DEFINE U == {bound[i] : i \in DOMAIN bound}
    <3>1. bound \in [1..n -> U]
      BY <2>4
    <3> HIDE DEF bound
    <3>2. DOMAIN bound = 1..n
      BY <3>1
    <3> HIDE DEF U
    <3>3. bound \in Seq(U)
      BY <2>4, <3>1
    <3>4. Len(bound) = n
      BY <2>4, <3>2, <3>3
    <3> QED BY <3>3, <3>4 DEF U, IsSeq
  <2>6. \A i \in 1..n : bound[i] = IF p.made[i].role = "got" THEN [p.made[i] EXCEPT !.refs = @ \cup {enter}]
                                   ELSE p.made[i]
    <3> HIDE DEF n
    <3> QED BY <2>4
  <2> HIDE DEF bound
  <2>7. /\ IsSeq(made) /\ Len(made) = n + 3
        /\ \A i \in 1..n : made[i] = bound[i]
        /\ made[n + 1] = slot /\ made[n + 2] = slot /\ made[n + 3] = header
    <3>1. made = bound \o <<slot, slot, header>>
      BY DEF made
    <3> HIDE DEF n
    <3>2. LongerBy(bound \o <<slot, slot, header>>, bound, slot, slot, header)
      BY <2>5, ConcatIs
    <3>3. LongerBy(made, bound, slot, slot, header)
      BY <3>1, <3>2
    <3> QED BY <2>5, <3>3 DEF LongerBy
  <2>8. /\ MipsFields \subseteq DOMAIN q /\ q.made = made /\ q.plt0 = n + 3
        /\ \A field \in MipsMaps : q[field] = p[field]
    <3>1. MipsFields \subseteq DOMAIN p /\ {"made", "plt0"} \cup MipsMaps = MipsFields
      BY DEF MipsStubs, MipsFields
    <3> HIDE DEF n
    <3>2. \A field \in MipsMaps : field \notin {"made", "plt0", "got0", "gotplts"}
      BY DEF MipsMaps
    <3> QED BY <2>1, <3>1, <3>2
  <2> HIDE DEF n
  <2>9. ASSUME NEW i \in 1..n
        PROVE  /\ i \in 1..Len(q.made)
               /\ p.made[i].role # "got" => q.made[i] = p.made[i]
               /\ p.made[i].role = "got" => q.made[i] = [p.made[i] EXCEPT !.refs = @ \cup {enter}]
    <3>1. i \in 1..Len(q.made) /\ q.made[i] = bound[i]
      BY <2>4, <2>7, <2>8
    <3>2. bound[i] = IF p.made[i].role = "got" THEN [p.made[i] EXCEPT !.refs = @ \cup {enter}]
                     ELSE p.made[i]
      BY <2>6
    <3> QED BY <3>1, <3>2
  <2>10. ASSUME NEW i, NEW role, HasAtom(p, i, role)
         PROVE  HasAtom(q, i, role) /\ p.made[i].refs \subseteq q.made[i].refs
                /\ (role # "got" => q.made[i] = p.made[i])
    <3>1. i \in 1..n /\ p.made[i].role = role
      BY <2>10 DEF HasAtom, n
    <3>2. CASE role # "got"
      BY <2>9, <3>1, <3>2 DEF HasAtom
    <3>3. CASE role = "got"
      <4>1. {"role", "refs"} \subseteq DOMAIN p.made[i]
        BY <3>1 DEF MipsStubs, IsAtom, n
      <4> QED BY <2>9, <3>1, <3>3, <4>1 DEF HasAtom
    <3> QED BY <3>2, <3>3
  <2>11. \A field \in MipsMaps : \A t \in DOMAIN q[field] : IsEntry(q, field, t, q[field][t])
    <3> SUFFICES ASSUME NEW field \in MipsMaps, NEW t \in DOMAIN p[field]
                 PROVE  IsEntry(q, field, t, p[field][t])
      BY <2>8
    <3> DEFINE i == p[field][t]
    <3>1. IsEntry(p, field, t, i)
      BY DEF MipsStubs
    <3> HIDE DEF i
    <3>2. HasAtom(p, i, RoleIn[field])
      BY <3>1 DEF IsEntry
    <3>3. /\ HasAtom(q, i, RoleIn[field]) /\ p.made[i].refs \subseteq q.made[i].refs
          /\ RoleIn[field] # "got" => q.made[i] = p.made[i]
      BY <2>10, <3>2
    <3>4. field \in {"pltReg", "pltMicro"} => RoleIn[field] # "got"
      BY DEF RoleIn
    <3>5. q.gotplt = p.gotplt
      BY <2>8 DEF MipsMaps
    <3>6. IsEntry(q, field, t, i)
      BY <3>1, <3>3, <3>4, <3>5 DEF IsEntry
    <3> QED BY <3>6 DEF i
  <2>12. ASSUME NEW i \in 1..Len(q.made)
         PROVE  /\ i \in 1..n \/ (i \in {n + 1, n + 2, n + 3} /\ q.made[i].role # "got" /\ IsAtom(q.made[i]))
    BY <2>2, <2>4, <2>7, <2>8
  <2>13. \A i \in 1..Len(q.made) : IsAtom(q.made[i])
    <3> SUFFICES ASSUME NEW i \in 1..Len(q.made), i \in 1..n PROVE IsAtom(q.made[i])
      BY <2>12
    <3>1. IsAtom(p.made[i])
      BY DEF MipsStubs, n
    <3> QED BY <2>9, <3>1 DEF IsAtom
  <2>14. \A g \in 1..Len(q.made) : WaitsForLoader(q, g) => IsBound(q, g)
    <3> SUFFICES ASSUME NEW g \in 1..Len(q.made), WaitsForLoader(q, g) PROVE IsBound(q, g)
      OBVIOUS
    <3>1. g \in 1..n /\ q.made[g].role = "got"
      BY <2>12 DEF WaitsForLoader, HasAtom
    <3>2. p.made[g].role = "got"
      BY <2>9, <3>1
    <3>3. {"role", "refs"} \subseteq DOMAIN p.made[g]
      BY <3>1 DEF MipsStubs, IsAtom, n
    <3>4. enter \in q.made[g].refs
      <4>1. q.made[g] = [p.made[g] EXCEPT !.refs = @ \cup {enter}]
        BY <2>9, <3>1, <3>2
      <4>2. "refs" \in DOMAIN p.made[g]
        BY <3>3
      <4> QED BY <4>1, <4>2
    <3>5. enter.kind = "address" /\ IsMade(enter.to) /\ enter.to[2] = q.plt0
      BY <2>3, <2>8, ToIs DEF Made, IsMade
    <3> QED BY <3>4, <3>5 DEF IsBound
  <2>15. MipsStubs(q)
    BY <2>7, <2>8, <2>11, <2>13, <2>14 DEF MipsStubs, MipsFields
  <2> QED BY <2>8, <2>10, <2>15
<1> QED BY <1>1, <1>2

LEMMA PerformIsGood ==
  ASSUME NEW l, Len(l.refs) \in Nat, NEW to, NEW p, MipsStubs(p), p.plt0 = 0,
         NEW q, q = Mips!Perform(l, to, p)
  PROVE  /\ MipsStubs(q)
         /\ \A i, role : HasAtom(p, i, role) => HasAtom(q, i, role)
         /\ \A field \in MipsMaps : \A t \in DOMAIN p[field] :
              t \in DOMAIN q[field] /\ q[field][t] = p[field][t]
<1> DEFINE N == Len(l.refs)
<1>1. PICK f : /\ f[0] = p
               /\ \A k \in 1..N : f[k] \in {f[k - 1], Mips!MakeRel32(l, to, f[k - 1], k)}
               /\ Mips!Perform(l, to, p) = Mips!CreatePLTHeader(f[N])
  BY PerformRuns
<1>2. N \in Nat
  OBVIOUS
<1> HIDE DEF N
<1> DEFINE R == {k \in 0..N : MipsGood(p, f[k])}
<1>3. 0 \in R
  BY <1>1, <1>2, MipsGrowsItself
<1>4. ASSUME NEW n \in 0..N, n \in R, n < N PROVE n + 1 \in R
  <2>1. n + 1 \in 1..N /\ n + 1 - 1 = n /\ n + 1 \in 0..N
    BY <1>2, <1>4
  <2>2. f[n + 1] \in {f[n], Mips!MakeRel32(l, to, f[n], n + 1)}
    BY <1>1, <2>1
  <2>3. MipsGood(p, f[n]) /\ MipsStubs(f[n]) /\ f[n].plt0 = 0
    BY <1>4 DEF MipsGood
  <2>4. MipsGood(p, f[n + 1])
    BY <2>2, <2>3, RelocatingIsGood, MipsGrowsOn
  <2> QED BY <2>1, <2>4
<1>5. N \in R
  <2> HIDE DEF R
  <2>1. \A n \in 0..N : n \in R
    BY <1>2, <1>3, <1>4, UpToInduction
  <2> QED BY <1>2, <2>1
<1> DEFINE last == f[N]
<1>6. MipsStubs(last) /\ MipsGrows(p, last) /\ last.plt0 = 0
  BY <1>5 DEF MipsGood
<1>7. q = Mips!CreatePLTHeader(last)
  BY <1>1
<1> HIDE DEF last
<1>8. /\ MipsStubs(q)
      /\ \A i, role : HasAtom(last, i, role) => HasAtom(q, i, role)
      /\ \A field \in MipsMaps : q[field] = last[field]
  BY <1>6, <1>7, HeaderIsGood
<1>9. \A i, role : HasAtom(p, i, role) => HasAtom(last, i, role)
  BY <1>6, MipsAtomsStay
<1>10. \A field \in MipsMaps : \A t \in DOMAIN p[field] :
         t \in DOMAIN last[field] /\ last[field][t] = p[field][t]
  BY <1>6 DEF MipsGrows
<1> QED BY <1>8, <1>9, <1>10

-----------------------------------------------------------------------------
(***************************************************************************)
(* Every link.                                                             *)
(***************************************************************************)

LEMMA EmptySeqIs == IsSeq(<<>>) /\ Len(<<>>) = 0
  BY DEF IsSeq

LEMMA StubsInit == Init => StubsInv
<1> SUFFICES ASSUME Init PROVE StubsInv
  OBVIOUS
<1>1. link \in Inputs /\ DOMAIN targets = DOMAIN link.refs
  BY DEF Init
<1>2. \A k \in DOMAIN link.refs : k \in Nat \ {0}
  BY <1>1, InputsAssumption
<1>3. CASE Arch = "mips"
  <2> DEFINE header == Mips!Atom("header", ".got", "", {})
  <2>1. s = Mips!Nothing /\ next = 0
    BY <1>3 DEF Init
  <2>2. /\ s.made = <<header, header>> /\ s.plt0 = 0
        /\ {"made", "plt0"} \cup MipsMaps \subseteq DOMAIN s
        /\ s.gotplt = <<>> /\ s.pltReg = <<>> /\ s.pltMicro = <<>> /\ s.la25Reg = <<>>
        /\ s.la25Micro = <<>>
    BY <2>1 DEF Mips!Nothing, MipsMaps
  <2>3. IsAtom(header)
    BY MipsAtomIs
  <2> HIDE DEF header
  <2>4. IsSeq(s.made) /\ Len(s.made) = 2 /\ s.made[1] = header /\ s.made[2] = header
    <3>1. <<header, header>> \in Seq({header})
      OBVIOUS
    <3> QED BY <2>2, <3>1 DEF IsSeq
  <2>5. \A i \in 1..Len(s.made) : IsAtom(s.made[i])
    BY <2>3, <2>4
  <2>6. \A field \in MipsMaps : DOMAIN s[field] = {}
    BY <2>2 DEF MipsMaps
  <2>7. MipsStubs(s)
    BY <2>2, <2>4, <2>5, <2>6 DEF MipsStubs
  <2> QED BY <1>1, <1>2, <1>3, <2>1, <2>2, <2>7 DEF StubsInv, MipsInv
<1>4. CASE Arch # "mips"
  <2>1. s = Nothing /\ next = 1
    BY <1>4 DEF Init
  <2>2. /\ s.made = <<>> /\ s.plt0 = 0 /\ StubFields \subseteq DOMAIN s
        /\ s.plt = <<>> /\ s.pltVeneer = <<>> /\ s.veneer = <<>>
    BY <2>1 DEF Nothing, StubFields
  <2>3. DOMAIN s.plt = {} /\ DOMAIN s.pltVeneer = {} /\ DOMAIN s.veneer = {}
    BY <2>2
  <2>4. IsSeq(s.made) /\ \A g \in 1..Len(s.made) : FALSE
    BY <2>2, EmptySeqIs
  <2>5. ElfStubs(s)
    BY <2>2, <2>3, <2>4 DEF ElfStubs
  <2> QED BY <1>1, <1>2, <1>4, <2>1, <2>5 DEF StubsInv, ElfInv
<1> QED BY <1>3, <1>4

\* The link at hand stays what it is.
LEMMA StubsKept ==
  ASSUME link' = link, link \in Inputs, next' \in Nat, DOMAIN targets' = DOMAIN link.refs,
         IF Arch = "mips" THEN MipsInv(s', targets', next') ELSE ElfInv(s', targets', next')
  PROVE  StubsInv'
<1>1. Arch' = Arch
  BY DEF Arch
<1>2. CASE Arch = "mips"
  <2>1. MipsInv(s, targets, next)'
    BY <1>1, <1>2 DEF MipsInv, MipsStubs, MipsTargetIsRight, IsCode, IsBound, IsEntry, HasAtom,
       WaitsForLoader, IsAtom, IsSeq
  <2> QED BY <1>1, <1>2, <2>1 DEF StubsInv
<1>3. CASE Arch # "mips"
  <2>1. ElfInv(s, targets, next)'
    BY <1>1, <1>3 DEF ElfInv, ElfStubs, ElfTargetIsRight, NeedsStub, CannotSwitch, IsCode,
       IsDefined, IsStub, IsPLTVeneer, IsVeneer, IsBound, HasAtom, WaitsForLoader, IsSeq, ToPLT0
  <2> QED BY <1>1, <1>3, <2>1 DEF StubsInv
<1> QED BY <1>2, <1>3

LEMMA StubsNext == StubsInv /\ [Next]_vars => StubsInv'
<1> SUFFICES ASSUME StubsInv, [Next]_vars PROVE StubsInv'
  OBVIOUS
<1>0. /\ link \in Inputs /\ next \in Nat /\ DOMAIN targets = DOMAIN link.refs
      /\ Arch = "mips" => MipsInv(s, targets, next)
      /\ Arch # "mips" => ElfInv(s, targets, next)
      /\ Len(link.refs) \in Nat /\ DOMAIN link.refs = 1..Len(link.refs)
      /\ \A k \in DOMAIN link.refs : IsReference(link, link.refs[k])
      /\ Arch \in DOMAIN Classes
  BY InputsAssumption DEF StubsInv, Arch
<1>1. CASE MergeHeaderFlags
  <2>1. /\ Arch = "mips" /\ next = 0 /\ link' = link /\ targets' = targets /\ next' = 0
        /\ \E flags, merged : s' = [s EXCEPT !.flags = flags, !.merged = merged]
                              \/ s' = [s EXCEPT !.refused = TRUE]
    BY <1>1 DEF MergeHeaderFlags
  <2>2. MipsStubs(s) /\ s.plt0 = 0 /\ MipsFields \subseteq DOMAIN s
    BY <1>0, <2>1 DEF MipsInv, MipsStubs, MipsFields
  <2>3. MipsFields \subseteq DOMAIN s' /\ \A field \in MipsFields : s'[field] = s[field]
    <3>1. \A field \in MipsFields : field \notin {"flags", "merged", "refused"}
      BY DEF MipsFields, MipsMaps
    <3> QED BY <2>1, <2>2, <3>1
  <2>4. MipsGood(s, s')
    BY <2>2, <2>3, OtherFieldsAreGood
  <2>5. MipsInv(s', targets', next')
    BY <1>0, <2>1, <2>4 DEF MipsInv, MipsGood
  <2> QED BY <1>0, <2>1, <2>5, StubsKept
<1>2. CASE CollectReferenceInfo
  <2>1. /\ Arch = "mips" /\ next = 0 /\ link' = link /\ targets' = targets /\ next' = 1
        /\ s' = Mips!Collect(link, s)
    BY <1>2 DEF CollectReferenceInfo
  <2>2. MipsStubs(s) /\ s.plt0 = 0 /\ MipsFields \subseteq DOMAIN s
    BY <1>0, <2>1 DEF MipsInv, MipsStubs, MipsFields
  <2>3. MipsFields \subseteq DOMAIN s' /\ \A field \in MipsFields : s'[field] = s[field]
    <3>1. \A field \in MipsFields : field \notin {"static", "equal", "candidates"}
      BY DEF MipsFields, MipsMaps
    <3>2. PICK a, b, c : s' = [s EXCEPT !.static = a, !.equal = b, !.candidates = c]
      BY <2>1 DEF Mips!Collect
    <3> QED BY <2>2, <3>1, <3>2
  <2>4. MipsGood(s, s')
    BY <2>2, <2>3, OtherFieldsAreGood
  <2>5. MipsInv(s', targets', next')
    <3>1. \A k \in DOMAIN link.refs : ~(k < 1)
      BY <1>0
    <3> QED BY <2>1, <2>4, <3>1 DEF MipsInv, MipsGood
  <2> QED BY <1>0, <2>1, <2>5, StubsKept
<1>3. CASE HandleReference
  <2> DEFINE r == link.refs[next]
             a == Handle(r)
  <2>1. /\ next \in DOMAIN link.refs /\ next <= Len(link.refs) /\ link' = link
        /\ next' = next + 1 /\ s' = a.p /\ targets' = [targets EXCEPT ![next] = a.to]
    BY <1>0, <1>3 DEF HandleReference
  <2>2. IsReference(link, r)
    BY <1>0, <2>1
  <2> HIDE DEF a
  <2>3. /\ DOMAIN targets' = DOMAIN link.refs /\ next' \in Nat /\ targets'[next] = a.to
        /\ \A k \in DOMAIN link.refs : k < next' => (k < next /\ targets'[k] = targets[k]) \/ k = next
    BY <1>0, <2>1
  <2>4. CASE Arch = "mips"
    <3>1. a = Mips!Handle(link, s, r)
      BY <2>4 DEF Handle, a
    <3>2. MipsStubs(s) /\ s.plt0 = 0
      BY <1>0, <2>1, <2>4 DEF MipsInv
    <3>3. MipsGood(s, s') /\ MipsTargetIsRight(s', r, a.to)
      <4> HIDE DEF r
      <4> QED BY <2>1, <2>2, <2>4, <3>1, <3>2, MipsHandleIsRight
    <3>4. /\ \A i, role : HasAtom(s, i, role) => HasAtom(s', i, role)
          /\ \A x \in DOMAIN s.pltReg : x \in DOMAIN s'.pltReg /\ s'.pltReg[x] = s.pltReg[x]
          /\ \A x \in DOMAIN s.pltMicro : x \in DOMAIN s'.pltMicro /\ s'.pltMicro[x] = s.pltMicro[x]
      BY <3>2, <3>3, MipsAtomsStay DEF MipsGood, MipsGrows, MipsMaps
    <3>5. ASSUME NEW k \in DOMAIN link.refs, k < next'
          PROVE  MipsTargetIsRight(s', link.refs[k], targets'[k])
      <4>1. CASE k = next
        BY <2>3, <3>3, <4>1
      <4>2. CASE k < next /\ targets'[k] = targets[k]
        <5>1. MipsTargetIsRight(s, link.refs[k], targets[k])
          BY <1>0, <2>4, <4>2 DEF MipsInv
        <5> QED BY <3>4, <4>2, <5>1, MipsTargetStays
      <4> QED BY <2>3, <3>5, <4>1, <4>2
    <3>6. MipsInv(s', targets', next')
      BY <3>3, <3>5 DEF MipsInv, MipsGood
    <3> QED BY <1>0, <2>1, <2>3, <2>4, <3>6, StubsKept
  <2>5. CASE Arch # "mips"
    <3>1. ElfStubs(s)
      BY <1>0, <2>5 DEF ElfInv
    <3>2. ElfAnswerIsRight(r, a)
      <4> HIDE DEF r
      <4> QED BY <1>0, <2>2, <2>5, <3>1, ElfHandleIsRight DEF a
    <3>3. ElfStubs(s') /\ ElfGrows(s, s') /\ ElfTargetIsRight(s', r, a.to)
      BY <2>1, <3>2 DEF ElfAnswerIsRight, ElfGood
    <3>5. ASSUME NEW k \in DOMAIN link.refs, k < next'
          PROVE  ElfTargetIsRight(s', link.refs[k], targets'[k])
      <4>1. CASE k = next
        BY <2>3, <3>3, <4>1
      <4>2. CASE k < next /\ targets'[k] = targets[k]
        <5>1. ElfTargetIsRight(s, link.refs[k], targets[k])
          BY <1>0, <2>5, <4>2 DEF ElfInv
        <5> QED BY <3>3, <4>2, <5>1, ElfTargetStays
      <4> QED BY <2>3, <3>5, <4>1, <4>2
    <3>6. ElfInv(s', targets', next')
      BY <3>3, <3>5 DEF ElfInv
    <3> QED BY <1>0, <2>1, <2>3, <2>5, <3>6, StubsKept
  <2> QED BY <2>4, <2>5
<1>4. CASE Finish
  <2>1. /\ next = Len(link.refs) + 1 /\ next' = next + 1 /\ link' = link /\ targets' = targets
        /\ s' = IF Arch = "mips" THEN Mips!Perform(link, targets, s) ELSE s
    BY <1>4 DEF Finish
  <2>2. next' \in Nat /\ \A k \in DOMAIN link.refs : k < next
    BY <1>0, <2>1
  <2>3. CASE Arch = "mips"
    <3>1. MipsStubs(s) /\ s.plt0 = 0 /\ s' = Mips!Perform(link, targets, s)
      BY <1>0, <2>1, <2>3 DEF MipsInv
    <3>2. /\ MipsStubs(s')
          /\ \A i, role : HasAtom(s, i, role) => HasAtom(s', i, role)
          /\ \A field \in MipsMaps : \A t \in DOMAIN s[field] :
               t \in DOMAIN s'[field] /\ s'[field][t] = s[field][t]
      BY <1>0, <3>1, PerformIsGood
    <3>3. /\ \A x \in DOMAIN s.pltReg : x \in DOMAIN s'.pltReg /\ s'.pltReg[x] = s.pltReg[x]
          /\ \A x \in DOMAIN s.pltMicro : x \in DOMAIN s'.pltMicro /\ s'.pltMicro[x] = s.pltMicro[x]
      BY <3>2 DEF MipsMaps
    <3>4. ASSUME NEW k \in DOMAIN link.refs
          PROVE  MipsTargetIsRight(s', link.refs[k], targets'[k])
      <4>1. MipsTargetIsRight(s, link.refs[k], targets[k])
        BY <1>0, <2>2, <2>3 DEF MipsInv
      <4> QED BY <2>1, <3>2, <3>3, <4>1, MipsTargetStays
    <3>5. ~(next' <= Len(link.refs) + 1)
      BY <1>0, <2>1
    <3>6. MipsInv(s', targets', next')
      BY <3>2, <3>4, <3>5 DEF MipsInv
    <3> QED BY <1>0, <2>1, <2>2, <2>3, <3>6, StubsKept
  <2>4. CASE Arch # "mips"
    <3>1. s' = s
      BY <2>1, <2>4
    <3>2. ElfInv(s', targets', next')
      BY <1>0, <2>1, <2>2, <2>4, <3>1 DEF ElfInv
    <3> QED BY <1>0, <2>1, <2>2, <2>4, <3>2, StubsKept
  <2> QED BY <2>3, <2>4
<1>5. CASE UNCHANGED vars
  <2>1. link' = link /\ targets' = targets /\ s' = s /\ next' = next
    BY <1>5 DEF vars
  <2> QED BY <1>0, <2>1, StubsKept
<1> QED BY <1>1, <1>2, <1>3, <1>4, <1>5 DEF Next

-----------------------------------------------------------------------------
(***************************************************************************)
(* What the invariant says of a finished link.                             *)
(***************************************************************************)

\* Every reference is one of the link's, and its target is right.
LEMMA FinishedIs ==
  ASSUME StubsInv, Finished
  PROVE  /\ DOMAIN targets = DOMAIN link.refs
         /\ Arch = "mips" => /\ MipsStubs(s)
                             /\ \A k \in DOMAIN targets : MipsTargetIsRight(s, link.refs[k], targets[k])
         /\ Arch # "mips" => /\ ElfStubs(s)
                             /\ \A k \in DOMAIN targets : ElfTargetIsRight(s, link.refs[k], targets[k])
         /\ \A k \in DOMAIN targets : IsReference(link, link.refs[k])
<1>1. /\ link \in Inputs /\ next \in Nat /\ DOMAIN targets = DOMAIN link.refs
      /\ Arch = "mips" => MipsInv(s, targets, next)
      /\ Arch # "mips" => ElfInv(s, targets, next)
      /\ Len(link.refs) \in Nat /\ DOMAIN link.refs = 1..Len(link.refs)
      /\ \A k \in DOMAIN link.refs : IsReference(link, link.refs[k])
  BY InputsAssumption DEF StubsInv
<1>2. \A k \in DOMAIN link.refs : k < next
  BY <1>1 DEF Finished
<1> QED BY <1>1, <1>2 DEF MipsInv, ElfInv

\* The class of a kind is one of its target's, and only jumps of ARM have
\* their class.
LEMMA ClassesOfKinds ==
  ASSUME NEW r, IsReference(link, r)
  PROVE  /\ Arch = "arm" /\ r.kind \in ARMClasses.jump => ClassOf(Arch, r.kind) = "jump"
         /\ Arch = "mips" /\ r.kind \in MipsClasses.jump26 => ClassOf(Arch, r.kind) = "jump26"
<1>1. /\ ClassOf(Arch, r.kind) \in DOMAIN Classes[Arch]
      /\ r.kind \in Classes[Arch][ClassOf(Arch, r.kind)]
  BY ClassIs DEF IsReference, Arch
<1> DEFINE c == ClassOf(Arch, r.kind)
<1> HIDE DEF c
<1>2. ASSUME Arch = "arm", r.kind \in ARMClasses.jump PROVE c = "jump"
  <2>1. c \in {"jump", "branch", "tpoff", "got"} /\ r.kind \in ARMClasses[c]
    BY <1>1, <1>2 DEF Classes, ARMClasses, c
  <2> QED BY <1>2, <2>1 DEF ARMClasses
<1>3. ASSUME Arch = "mips", r.kind \in MipsClasses.jump26 PROVE c = "jump26"
  <2>1. c \in {"jump26", "address"} /\ r.kind \in MipsClasses[c]
    BY <1>1, <1>3 DEF Classes, MipsClasses, c
  <2> QED BY <1>3, <2>1 DEF MipsClasses
<1> QED BY <1>2, <1>3 DEF c

LEMMA MadeIs == \A i : IsMade(Made(i)) /\ Made(i)[2] = i
  BY DEF IsMade, Made

\* Where a reference that needs a stub leads.
LEMMA StubIs ==
  ASSUME StubsInv, Finished, NEW k \in DOMAIN targets, NEW r, r = link.refs[k], NeedsStub(r)
  PROVE  /\ Arch = "mips" =>
              LET field == IF r.thumb THEN "pltMicro" ELSE "pltReg"
              IN  /\ KindOf[r.sym] = "code" /\ Sym(r.sym) \in DOMAIN s[field]
                  /\ targets[k] = Made(s[field][Sym(r.sym)])
         /\ Arch # "mips" =>
              IF Arch = "arm" /\ r.thumb
              THEN r.sym \in DOMAIN s.pltVeneer /\ targets[k] = Made(s.pltVeneer[r.sym])
              ELSE r.sym \in DOMAIN s.plt /\ targets[k] = Made(s.plt[r.sym])
<1>1. CASE Arch = "mips"
  <2>1. MipsTargetIsRight(s, r, targets[k]) /\ IsReference(link, r)
    BY <1>1, FinishedIs
  <2>2. KindOf[r.sym] = "code" /\ r.thumb \in BOOLEAN /\ IsCode(r)
    BY <1>1, <2>1 DEF IsReference, NeedsStub, Arch
  <2> QED BY <1>1, <2>1, <2>2 DEF MipsTargetIsRight
<1>2. CASE Arch # "mips"
  <2>1. ElfTargetIsRight(s, r, targets[k])
    BY <1>2, FinishedIs
  <2> QED BY <1>2, <2>1 DEF ElfTargetIsRight
<1> QED BY <1>1, <1>2

LEMMA StubsAreOne == StubsInv => OneStub
<1> SUFFICES ASSUME StubsInv, Finished, NEW j \in DOMAIN targets, NEW k \in DOMAIN targets,
                    NEW a, a = link.refs[j], NEW b, b = link.refs[k],
                    a.sym = b.sym, a.thumb = b.thumb, NeedsStub(a), NeedsStub(b)
             PROVE  targets[j] = targets[k]
  BY DEF OneStub, NeedsStub
<1>1. CASE Arch = "mips"
  BY <1>1, StubIs
<1>2. CASE Arch # "mips"
  BY <1>2, StubIs
<1> QED BY <1>1, <1>2

LEMMA SlotsEnterPLT0 == StubsInv => UnboundEntersPLT0
<1> SUFFICES ASSUME StubsInv, Finished, s.plt0 # 0, NEW g \in DOMAIN s.made,
                    s.made[g].role = "got", \E x \in s.made[g].refs : x.kind = "jump_slot"
             PROVE  \E x \in s.made[g].refs :
                      /\ x.kind = "address" /\ IsMade(x.to)
                      /\ \/ x.to[2] = s.plt0
                         \/ \E y \in s.made[x.to[2]].refs : y.to = Made(s.plt0)
  BY DEF UnboundEntersPLT0
<1>1. IsSeq(s.made)
  BY FinishedIs DEF MipsStubs, ElfStubs
<1>2. g \in 1..Len(s.made)
  BY <1>1, SeqIs
<1>3. WaitsForLoader(s, g)
  BY <1>2 DEF WaitsForLoader, HasAtom
<1>4. IsBound(s, g)
  BY <1>2, <1>3, FinishedIs DEF MipsStubs, ElfStubs
<1> QED BY <1>4 DEF IsBound

\* The slot of a stub is the one made with it, and it is bound to the symbol.
BoundTo(x, g) == \E y \in s.made[g].refs : y.kind \in {"jump_slot", "irelative"} /\ y.to = Sym(x)
JumpsThrough(i, g) == HasAtom(s, g, "got") /\ SlotsOf(i) = {g}

LEMMA ElfStubJumps ==
  ASSUME StubsInv, Finished, Arch # "mips", Arch # "or1k", NEW x \in DOMAIN s.plt
  PROVE  \E g : JumpsThrough(s.plt[x], g) /\ BoundTo(x, g)
<1> DEFINE i == s.plt[x]
           g == i - 1
<1>1. ElfStubs(s) /\ IsStub(s, x, i)
  BY FinishedIs DEF ElfStubs
<1> HIDE DEF i
<1>2. /\ HasAtom(s, g, "got") /\ To("address", Made(g)) \in s.made[i].refs
      /\ s.made[i].refs \subseteq {To("address", Made(g))} \cup ToPLT0(s)
      /\ BoundTo(x, g)
  BY <1>1 DEF IsStub, BoundTo
<1> HIDE DEF g
<1>3. \A y \in ToPLT0(s) : y.to[2] = s.plt0 /\ s.made[s.plt0].role # "got"
  <2> SUFFICES ASSUME NEW y \in ToPLT0(s) PROVE y.to[2] = s.plt0 /\ s.made[s.plt0].role # "got"
    OBVIOUS
  <2>1. s.plt0 # 0 /\ y = To("address", Made(s.plt0))
    BY DEF ToPLT0
  <2>2. y.to[2] = s.plt0
    BY <2>1, ToIs, MadeIs
  <2>3. HasAtom(s, s.plt0, "plt0")
    BY <1>1, <2>1 DEF ElfStubs
  <2> QED BY <2>2, <2>3 DEF HasAtom
<1>4. To("address", Made(g)).to = Made(g) /\ Made(g)[2] = g /\ IsMade(Made(g))
  BY ToIs, MadeIs
<1>5. s.made[g].role = "got"
  BY <1>2 DEF HasAtom
<1>6. \A y \in s.made[i].refs : IsMade(y.to) /\ s.made[y.to[2]].role = "got" => y.to[2] = g
  BY <1>2, <1>3, <1>4
<1>7. \E y \in s.made[i].refs : IsMade(y.to) /\ s.made[y.to[2]].role = "got" /\ y.to[2] = g
  BY <1>2, <1>4, <1>5
<1>8. SlotsOf(i) = {g}
  BY <1>6, <1>7 DEF SlotsOf
<1>9. JumpsThrough(i, g) /\ BoundTo(x, g)
  BY <1>2, <1>8 DEF JumpsThrough
<1> QED BY <1>9 DEF i

LEMMA MipsStubJumps ==
  ASSUME StubsInv, Finished, Arch = "mips", NEW field \in {"pltReg", "pltMicro"},
         NEW x, Sym(x) \in DOMAIN s[field]
  PROVE  \E g : JumpsThrough(s[field][Sym(x)], g) /\ BoundTo(x, g)
<1> DEFINE t == Sym(x)
           i == s[field][t]
           g == s.gotplt[t]
<1>1. field \in MipsMaps /\ "gotplt" \in MipsMaps /\ s["gotplt"] = s.gotplt
  BY DEF MipsMaps
<1>2. MipsStubs(s) /\ IsEntry(s, field, t, i)
  BY <1>1, FinishedIs DEF MipsStubs
<1>3. /\ t \in DOMAIN s.gotplt /\ To("address", Made(g)) \in s.made[i].refs
      /\ \A y \in s.made[i].refs : IsMade(y.to) => y.to = Made(g)
  BY <1>2 DEF IsEntry
<1>4. IsEntry(s, "gotplt", t, g)
  BY <1>1, <1>2, <1>3 DEF MipsStubs
<1>5. HasAtom(s, g, "got") /\ To("jump_slot", t) \in s.made[g].refs
  BY <1>4 DEF IsEntry, RoleIn
<1>6. BoundTo(x, g)
  BY <1>5, ToIs DEF BoundTo
<1> HIDE DEF i, g, t
<1>7. To("address", Made(g)).to = Made(g) /\ Made(g)[2] = g /\ IsMade(Made(g))
  BY ToIs, MadeIs
<1>8. s.made[g].role = "got"
  BY <1>5 DEF HasAtom
<1>9. SlotsOf(i) = {g}
  <2>1. \A y \in s.made[i].refs : IsMade(y.to) => y.to[2] = g
    BY <1>3, <1>7
  <2>2. \E y \in s.made[i].refs : IsMade(y.to) /\ s.made[y.to[2]].role = "got" /\ y.to[2] = g
    BY <1>3, <1>7, <1>8
  <2> QED BY <2>1, <2>2 DEF SlotsOf
<1>10. JumpsThrough(i, g) /\ BoundTo(x, g)
  BY <1>5, <1>6, <1>9 DEF JumpsThrough
<1> QED BY <1>10 DEF i, t

\* Where a stub is found that jumps through one slot, the call is bound.
IsBoundCall(t, x) ==
  /\ IsMade(t)
  /\ \A i \in StubOf(t[2]) :
       /\ SlotsOf(i) # {}
       /\ \A g \in SlotsOf(i) : BoundTo(x, g)

LEMMA BoundCallIs ==
  ASSUME NEW x, NEW stub, NEW i, HasAtom(s, i, "pltveneer") => s.made[i].refs = {To("none", Made(stub))},
         s.made[i].role # "pltveneer" => stub = i, i \in 1..Len(s.made),
         \E g : JumpsThrough(stub, g) /\ BoundTo(x, g)
  PROVE  IsBoundCall(Made(i), x)
<1>1. StubOf(i) = {stub}
  <2>1. CASE s.made[i].role = "pltveneer"
    <3>1. s.made[i].refs = {To("none", Made(stub))}
      BY <2>1 DEF HasAtom
    <3>2. To("none", Made(stub)).to[2] = stub
      BY ToIs, MadeIs
    <3> QED BY <2>1, <3>1, <3>2 DEF StubOf
  <2>2. CASE s.made[i].role # "pltveneer"
    BY <2>2 DEF StubOf
  <2> QED BY <2>1, <2>2
<1>2. PICK g : SlotsOf(stub) = {g} /\ BoundTo(x, g)
  BY DEF JumpsThrough
<1> QED BY <1>1, <1>2, MadeIs DEF IsBoundCall

LEMMA CallsBind == StubsInv => CallsAreBound
<1> SUFFICES ASSUME StubsInv, Finished, Arch # "or1k", NEW k \in DOMAIN targets,
                    NEW r, r = link.refs[k], NeedsStub(r)
             PROVE  IsBoundCall(targets[k], r.sym)
  BY DEF CallsAreBound, NeedsStub, IsBoundCall, BoundTo
<1>1. CASE Arch = "mips"
  <2>1. PICK field \in {"pltReg", "pltMicro"} :
          Sym(r.sym) \in DOMAIN s[field] /\ targets[k] = Made(s[field][Sym(r.sym)])
    BY <1>1, StubIs
  <2> DEFINE i == s[field][Sym(r.sym)]
  <2>2. IsEntry(s, field, Sym(r.sym), i)
    BY <1>1, <2>1, FinishedIs DEF MipsStubs, MipsMaps
  <2>3. \E g : JumpsThrough(i, g) /\ BoundTo(r.sym, g)
    BY <1>1, <2>1, MipsStubJumps
  <2> HIDE DEF i
  <2>4. HasAtom(s, i, RoleIn[field]) /\ RoleIn[field] # "pltveneer"
    <3>1. HasAtom(s, i, RoleIn[field])
      BY <2>2 DEF IsEntry
    <3>2. RoleIn[field] # "pltveneer"
      BY DEF RoleIn
    <3> QED BY <3>1, <3>2
  <2>5. IsBoundCall(Made(i), r.sym)
    BY <2>3, <2>4, BoundCallIs DEF HasAtom
  <2> QED BY <2>1, <2>5 DEF i
<1>2. CASE Arch = "arm" /\ r.thumb
  <2> DEFINE i == s.pltVeneer[r.sym]
  <2>1. r.sym \in DOMAIN s.pltVeneer /\ targets[k] = Made(i)
    BY <1>2, StubIs
  <2>2. IsPLTVeneer(s, r.sym, i)
    BY <1>2, <2>1, FinishedIs DEF ElfStubs
  <2> HIDE DEF i
  <2>3. \E g : JumpsThrough(s.plt[r.sym], g) /\ BoundTo(r.sym, g)
    BY <1>2, <2>2, ElfStubJumps DEF IsPLTVeneer
  <2>4. IsBoundCall(Made(i), r.sym)
    BY <2>2, <2>3, BoundCallIs DEF IsPLTVeneer, HasAtom
  <2> QED BY <2>1, <2>4
<1>3. CASE Arch # "mips" /\ ~(Arch = "arm" /\ r.thumb)
  <2> DEFINE i == s.plt[r.sym]
  <2>1. r.sym \in DOMAIN s.plt /\ targets[k] = Made(i)
    BY <1>3, StubIs
  <2>2. HasAtom(s, i, "plt")
    BY <1>3, <2>1, FinishedIs DEF ElfStubs, IsStub
  <2>3. \E g : JumpsThrough(i, g) /\ BoundTo(r.sym, g)
    BY <1>3, <2>1, ElfStubJumps
  <2> HIDE DEF i
  <2>4. IsBoundCall(Made(i), r.sym)
    BY <2>2, <2>3, BoundCallIs DEF HasAtom
  <2> QED BY <2>1, <2>4
<1> QED BY <1>1, <1>2, <1>3

LEMMA IsaIsKept == StubsInv => IsaKept
<1> SUFFICES ASSUME StubsInv, Finished, NEW k \in DOMAIN targets,
                    NEW r, r = link.refs[k], NEW t, t = targets[k], CannotSwitch(r, t)
             PROVE  StartsInThumb(t) = r.thumb
  BY DEF IsaKept
<1>1. IsReference(link, r) /\ r.thumb \in BOOLEAN
  BY FinishedIs DEF IsReference
<1>2. ASSUME NEW i, NEW role, HasAtom(s, i, role), t = Made(i), (role \in CompressedRoles) = r.thumb
      PROVE  StartsInThumb(t) = r.thumb
  BY <1>2, MadeIs DEF StartsInThumb, HasAtom
<1>3. CASE Arch = "mips"
  <2>1. r.kind \in MipsClasses.jump26 /\ IsMade(t) /\ IsCode(r)
    BY <1>1, <1>3, ClassesOfKinds DEF CannotSwitch, IsCode
  <2>2. CASE KindOf[r.sym] = "code"
    <3> DEFINE field == IF r.thumb THEN "pltMicro" ELSE "pltReg"
    <3>1. Sym(r.sym) \in DOMAIN s[field] /\ t = Made(s[field][Sym(r.sym)])
      BY <1>3, <2>1, <2>2, StubIs DEF NeedsStub
    <3>2. field \in MipsMaps
      BY DEF MipsMaps
    <3>3. (RoleIn[field] \in CompressedRoles) = r.thumb
      BY <1>1 DEF RoleIn, CompressedRoles
    <3> HIDE DEF field
    <3>4. HasAtom(s, s[field][Sym(r.sym)], RoleIn[field])
      BY <1>3, <3>1, <3>2, FinishedIs DEF MipsStubs, IsEntry
    <3> QED BY <1>2, <3>1, <3>3, <3>4
  <2>3. CASE KindOf[r.sym] # "code"
    <3> DEFINE role == IF r.thumb THEN "la25micro" ELSE "la25"
    <3>1. HasAtom(s, t[2], role)
      BY <1>3, <2>1, <2>3, FinishedIs DEF MipsTargetIsRight
    <3>2. (role \in CompressedRoles) = r.thumb
      BY <1>1 DEF CompressedRoles
    <3> HIDE DEF role
    <3> QED BY <2>1, <3>1, <3>2 DEF StartsInThumb, HasAtom
  <2> QED BY <2>2, <2>3
<1>4. CASE Arch # "mips"
  <2>1. Arch = "arm" /\ r.kind \in ARMClasses.jump /\ IsDefined(r)
    BY <1>4 DEF CannotSwitch
  <2>2. IsCode(r) /\ ElfStubs(s) /\ ElfTargetIsRight(s, r, t)
    BY <1>1, <1>4, <2>1, ClassesOfKinds, FinishedIs DEF IsCode
  <2>3. CASE KindOf[r.sym] = "resolver"
    <3>1. NeedsStub(r)
      BY <2>2, <2>3 DEF NeedsStub
    <3>2. CASE r.thumb
      <4>1. r.sym \in DOMAIN s.pltVeneer /\ t = Made(s.pltVeneer[r.sym])
        BY <1>4, <2>1, <3>1, <3>2, StubIs
      <4>2. HasAtom(s, s.pltVeneer[r.sym], "pltveneer")
        BY <2>2, <4>1 DEF ElfStubs, IsPLTVeneer
      <4>3. ("pltveneer" \in CompressedRoles) = r.thumb
        BY <1>1, <3>2 DEF CompressedRoles
      <4> QED BY <1>2, <4>1, <4>2, <4>3
    <3>3. CASE ~r.thumb
      <4>1. r.sym \in DOMAIN s.plt /\ t = Made(s.plt[r.sym])
        BY <1>4, <2>1, <3>1, <3>3, StubIs
      <4>2. HasAtom(s, s.plt[r.sym], "plt")
        BY <2>2, <4>1 DEF ElfStubs, IsStub
      <4>3. ("plt" \in CompressedRoles) = r.thumb
        BY <1>1, <3>3 DEF CompressedRoles
      <4> QED BY <1>2, <4>1, <4>2, <4>3
    <3> QED BY <3>2, <3>3
  <2>4. CASE KindOf[r.sym] # "resolver"
    <3>1. KindOf[r.sym] = "defined"
      BY <2>1, <2>4 DEF IsDefined
    <3>2. CASE (r.sym \in Thumb) # r.thumb
      <4> DEFINE role == IF r.sym \in Thumb THEN "armveneer" ELSE "thumbveneer"
      <4>1. r.sym \in DOMAIN s.veneer /\ t = Made(s.veneer[r.sym])
        BY <2>2, <3>1, <3>2 DEF ElfTargetIsRight
      <4>2. HasAtom(s, s.veneer[r.sym], role)
        BY <2>2, <4>1 DEF ElfStubs, IsVeneer
      <4>3. (role \in CompressedRoles) = r.thumb
        BY <1>1, <3>2 DEF CompressedRoles
      <4> HIDE DEF role
      <4> QED BY <1>2, <4>1, <4>2, <4>3
    <3>3. CASE (r.sym \in Thumb) = r.thumb
      <4>1. t = Sym(r.sym)
        BY <2>2, <3>1, <3>3 DEF ElfTargetIsRight
      <4>2. ~IsMade(t) /\ t[2] = r.sym
        BY <4>1 DEF IsMade, Sym
      <4> QED BY <3>3, <4>2 DEF StartsInThumb
    <3> QED BY <3>2, <3>3
  <2> QED BY <2>3, <2>4
<1> QED BY <1>3, <1>4

\* Whatever the references of a link are, and in whatever order they come, a
\* call that the linker cannot bind ends in the one stub of its symbol and
\* instruction set, whose slot the loader binds to that symbol; until it has,
\* the slot enters PLT0; and no branch that cannot switch the instruction set
\* lands on code of the other one.  (handleReference, perform)
THEOREM StubsBindInEveryLink == Spec => []StubsBind
<1>1. StubsInv => StubsBind
  BY CallsBind, SlotsEnterPLT0, StubsAreOne, IsaIsKept DEF StubsBind
<1> QED BY <1>1, StubsInit, StubsNext, PTL DEF Spec
=============================================================================
