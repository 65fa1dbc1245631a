----------------------------- MODULE ElfWriter -----------------------------
(***************************************************************************)
(* OutputELFWriter::buildOutput for executables and shared libraries: the  *)
(* sections, the tables of symbols, the dynamic tables and the headers are *)
(* made in an order that matters.  A table has to be complete before its   *)
(* room is laid out, and what it says about addresses is filled in after.  *)
(*                                                                         *)
(* The operations of a layout come first, as functions from layouts to     *)
(* layouts (TargetLayout.h, SectionChunks.h): atoms are appended to input  *)
(* sections, input sections are sorted and collected in output sections    *)
(* and segments, and chunks, segments and program headers get their        *)
(* addresses in rounds, until no round adds a program header.              *)
(*                                                                         *)
(* Names cost two bytes of a string table (one letter and its zero).       *)
(***************************************************************************)
EXTENDS Naturals, Sequences, FiniteSetsExt, SequencesExt

(***************************************************************************)
(* Segments and slices of an ELF output file (SegmentChunks.h): a segment  *)
(* is a sequence of chunks, cut into slices where the addresses of two     *)
(* output sections are more than a page apart.  Addresses and file offsets *)
(* are assigned segment by segment, and may be assigned several times.     *)
(*                                                                         *)
(* A chunk is a record of the sequence "chunks"; a segment names chunks by *)
(* their index.                                                            *)
(***************************************************************************)

CONSTANT PageSize

RoundUp(x, a) == ((x + a - 1) \div a) * a

(* Flags are sets of SHF_WRITE = 1, SHF_ALLOC = 2, SHF_EXECINSTR = 4 and   *)
(* SHF_TLS = 1024, and are compared as numbers.                            *)
W == 1
A == 2
X == 4
T == 1024
Num(flags) == SumSet(flags)

(* The rank of the permissions of a segment; it orders segments of a type. *)
Perm(flags) ==
    CASE flags \cap {W, A, X} = {W, A, X} -> 14
      [] flags \cap {W, A, X} = {A, X} -> 12
      [] flags \cap {W, A, X} = {A} -> 8
      [] flags \cap {W, A, X} = {A, W} -> 10
      [] OTHER -> 16
Rank(perm) ==
    CASE perm = 16 -> 0 [] perm = 14 -> 1 [] perm = 12 -> 2
      [] perm = 8 -> 3 [] perm = 11 -> 4 [] perm = 10 -> 5 [] OTHER -> 6

Section(c) == c.kind \in {"atoms", "table"}
Alignment(c) == IF c.first THEN c.oalign ELSE c.align
NewSegment(type) ==
    [type |-> type, chunks |-> <<>>, flags |-> {}, perm |-> 0, align |-> 1, vaddr |-> 0,
     msize |-> 0, off |-> 0, fsize |-> 0, slices |-> <<>>]

(* Flags are added when they are greater as a number, and the permission   *)
(* of a segment only grows.                                                *)
AppendChunk(seg, id, c) ==
    IF ~Section(c) THEN [seg EXCEPT !.chunks = Append(@, id)]
    ELSE LET flags == IF Num(seg.flags) < Num(c.flags) THEN seg.flags \cup c.flags ELSE seg.flags
         IN  [seg EXCEPT !.chunks = Append(@, id), !.flags = flags,
                         !.perm = Max({@, Perm(flags)}), !.align = Max({@, Alignment(c)})]

(* PT_PHDR, PT_INTERP, then what is loaded; PT_TLS last.                   *)
Types == <<"PHDR", "INTERP", "LOAD", "NULL", "DYNAMIC", "NOTE", "EH_FRAME", "TLS">>
TypeRank(t) == CHOOSE i \in DOMAIN Types : Types[i] = t
CompareSegments(sega, segb) ==
    IF sega.type = segb.type THEN Rank(sega.perm) < Rank(segb.perm)
    ELSE TypeRank(sega.type) < TypeRank(segb.type)

(* The values of a segment that is not loaded by itself, from its chunks.  *)
Finalize(seg, chunks) ==
    LET first == chunks[Head(seg.chunks)]
        last == chunks[Last(seg.chunks)]
    IN  IF seg.type = "LOAD" THEN seg
        ELSE IF seg.type = "PHDR"
        THEN [seg EXCEPT !.off = last.off, !.vaddr = last.vaddr,
                         !.fsize = last.fsize, !.msize = last.msize]
        ELSE [seg EXCEPT !.off = first.off, !.vaddr = first.vaddr,
                         !.fsize = last.off + last.fsize - first.off,
                         !.msize = last.vaddr + last.msize - first.vaddr]

-----------------------------------------------------------------------------
(* Virtual addresses.                                                      *)

(* NMAGIC starts the data on a page, once per segment.                     *)
NeedAlign(c, magic) == magic = "nmagic" /\ Section(c) /\ W \in c.flags /\ X \notin c.flags

(* A slice is found again by the number of its first chunk; the slices     *)
(* stay sorted by it.                                                      *)
PutSlice(slices, slice) ==
    LET old == {i \in DOMAIN slices : slices[i].start = slice.start}
        keep(s) == [s EXCEPT !.start = slice.start, !.end = slice.end, !.vaddr = slice.vaddr,
                             !.msize = slice.msize, !.align = slice.align]
    IN  SortSeq(IF old = {} THEN Append(slices, slice)
                ELSE [i \in DOMAIN slices |->
                        IF i = Min(old) THEN keep(slices[i]) ELSE slices[i]],
                LAMBDA s, t : s.start < t.start)
Slice(p, end) ==
    [start |-> p.start, end |-> end, vaddr |-> p.addr, msize |-> p.size, align |-> p.align,
     off |-> 0, fsize |-> 0]

(* The address of a chunk, before a script expression sets it.             *)
Address(c, from) == IF c.kind = "expr" /\ c.dot # 0 THEN c.dot ELSE RoundUp(from, Alignment(c))

(* A chunk gets its address, and its atoms theirs: those of a PT_TLS       *)
(* section count from the first TLS section of the segment.                *)
Put(p, id, addr) ==
    LET c == p.chunks[id]
        tls == RoundUp(p.tls, Alignment(c))
    IN  IF Section(c) /\ c.seg = "TLS"
        THEN [p EXCEPT !.chunks[id].vaddr = addr, !.chunks[id].atomBase = tls,
                       !.tls = tls + c.msize]
        ELSE [p EXCEPT !.chunks[id].vaddr = addr, !.chunks[id].atomBase = addr]

Memory(c) == IF c.order = 128 THEN 0 ELSE c.msize      \* ORDER_TBSS takes none

PlaceFirst(p, id, link) ==
    LET c == p.chunks[id]
        paged == link.align /\ link.magic = "default"
        data == ~paged /\ NeedAlign(c, link.magic)
        from == IF paged \/ data THEN RoundUp(p.from, PageSize) ELSE p.from
        addr == Address(c, from)
    IN  [Put(p, id, addr) EXCEPT !.from = from, !.data = data, !.addr = addr,
                                 !.size = Memory(c), !.align = Alignment(c)]

OutName(c, prev) == IF Section(c) THEN c.out ELSE IF c.kind = "expr" THEN prev ELSE c.name

(* The i-th chunk.  A new slice starts when another output section follows *)
(* after a hole of more than a page.                                       *)
PlaceNext(p, i, id, link) ==
    LET c == p.chunks[id]
        data == ~p.data /\ NeedAlign(c, link.magic)
        cur == IF data THEN RoundUp(p.addr + p.size, PageSize) ELSE p.addr + p.size
        addr == Address(c, cur)
        name == OutName(c, p.prev)
        hole == addr - cur > PageSize \/ addr < cur       \* uint64_t newAddr - curAddr
        cut == name # p.prev /\ hole /\ link.magic = "default"
        q == [p EXCEPT !.data = @ \/ data, !.prev = name]
    IN  IF cut
        THEN [q EXCEPT !.slices = PutSlice(@, Slice(p, i - 1)), !.start = i, !.addr = addr,
                       !.size = c.msize, !.align = Alignment(c),
                       !.chunks[id].vaddr = addr, !.chunks[id].atomBase = addr]
        ELSE [Put(q, id, addr) EXCEPT !.size = addr - p.addr + Memory(c),
                                      !.align = Max({@, Alignment(c)})]

(* The segment and the chunks after Segment::assignVirtualAddress.         *)
AssignVirtualAddress(seg, chunks, addr, link) ==
    LET init == [chunks |-> chunks, slices |-> seg.slices, start |-> 1, addr |-> 0, size |-> 0,
                 align |-> 0, tls |-> 0, prev |-> "", data |-> FALSE, from |-> addr]
        place(p, i) == IF i = 1 THEN PlaceFirst(p, seg.chunks[i], link)
                       ELSE PlaceNext(p, i, seg.chunks[i], link)
        p == FoldLeft(place, init, [i \in DOMAIN seg.chunks |-> i])
    IN  [seg |-> [seg EXCEPT !.slices = PutSlice(p.slices, Slice(p, Len(seg.chunks))),
                             !.msize = p.addr - p.from + p.size, !.vaddr = p.addr],
         chunks |-> p.chunks]

-----------------------------------------------------------------------------
(* File offsets.  The first chunk of a slice starts on a page, or at the   *)
(* offset that is congruent to its address.                                *)
StartOfSliceAnywhere(off, c, slice, link) == off
StartOfSlice(off, c, slice, link) ==
    CASE link.magic # "default" -> off
      [] link.magic = "default" /\ link.align -> RoundUp(off, PageSize)
      [] OTHER -> IF Section(c) /\ c.loaded /\ slice.vaddr % PageSize # off % PageSize
                  THEN RoundUp(off, PageSize) + (slice.vaddr % PageSize) ELSE off

OffsetOf(p, i, c, slice, link) ==
    LET first == i = slice.start
        jump == IF ~first /\ c.kind = "expr" THEN p.off + c.vaddr - p.last ELSE p.off
        off == RoundUp(jump, Alignment(c))
    IN  IF first /\ link.magic = "default" THEN StartOfSlice(off, c, slice, link)
        ELSE IF ~p.data /\ NeedAlign(c, link.magic) THEN RoundUp(off, PageSize) ELSE off

(* The segment and the chunks after Segment::assignFileOffsets.            *)
AssignFileOffsets(seg, chunks, from, link) ==
    LET chunk(p, slice, i) ==
          LET id == seg.chunks[i]
              c == p.chunks[id]
              off == OffsetOf(p, i, c, slice, link)
              first == i = slice.start
          IN  [p EXCEPT !.off = off + c.fsize, !.last = c.vaddr + c.msize,
                        !.data = @ \/ (~(first /\ link.magic = "default") /\ NeedAlign(c, link.magic)),
                        !.start = IF first THEN off ELSE @, !.chunks[id].off = off]
        cut(p, k) ==
          LET slice == p.slices[k]
              q == FoldLeft(LAMBDA r, i : chunk(r, slice, slice.start + i - 1), p,
                            [i \in 1..(slice.end + 1 - slice.start) |-> i])
          IN  [q EXCEPT !.slices[k].off = q.start, !.slices[k].fsize = q.off - q.start]
        init == [chunks |-> chunks, slices |-> seg.slices, off |-> from, last |-> 0,
                 start |-> from, data |-> FALSE]
        p == FoldLeft(cut, init, [k \in DOMAIN seg.slices |-> k])
    IN  [seg |-> [seg EXCEPT !.slices = p.slices, !.off = from, !.fsize = p.off - from],
         chunks |-> p.chunks]



CONSTANTS EhdrSize, PhdrSize, HeaderAlign

(* The default order of the sections.                                      *)
ORDER_INTERP == 10
ORDER_TBSS == 128
ORDER_BSS == 210
ORDER_SECTION_HEADERS == 260

CodeOrder == [n \in {".eh_frame_hdr", ".eh_frame", ".init", ".fini", ".hash"} |->
    CASE n = ".eh_frame_hdr" -> 120 [] n = ".eh_frame" -> 110 [] n = ".init" -> 60
      [] n = ".fini" -> 90 [] n = ".hash" -> 30]
DataOrder == [n \in {".init_array", ".fini_array", ".dynamic", ".ctors", ".dtors"} |->
    CASE n = ".init_array" -> 150 [] n = ".fini_array" -> 160 [] n = ".dynamic" -> 170
      [] n = ".ctors" -> 130 [] n = ".dtors" -> 140]
ByName(table, n, default) == IF n \in DOMAIN table THEN table[n] ELSE default

GetSectionOrder(name, type, perm, arch) ==
    CASE arch = "or1k" /\ name = ".vectors" -> 1
      [] type \in {"resolver", "code"} -> ByName(CodeOrder, name, 80)
      [] type = "constant" -> 100
      [] type \in {"data", "dataFast"} -> ByName(DataOrder, name, 200)
      [] type \in {"zeroFill", "zeroFillFast"} -> ORDER_BSS
      [] type = "got" -> IF name = ".got.plt" THEN 190 ELSE 180
      [] type = "stub" -> 70
      [] type = "roNote" -> 15
      [] type = "rwNote" -> 205
      [] type = "noAlloc" -> 215
      [] type = "threadData" -> 124
      [] type = "threadZeroFill" -> ORDER_TBSS
      [] OTHER -> IF perm = {} THEN 220 ELSE 0

GetInputSectionName(atom) ==
    IF atom.sec # "" THEN atom.sec
    ELSE CASE atom.type = "code" -> ".text" [] atom.type = "data" -> ".data"
           [] atom.type = "constant" -> ".rodata" [] atom.type = "zeroFill" -> ".bss"
           [] atom.type = "threadData" -> ".tdata" [] OTHER -> ".tbss"

(* The default rules drop what follows one of the known names.             *)
GetOutputSectionName(name) ==
    CASE name \in {".text", ".text.hot"} -> ".text"
      [] name \in {".data", ".data.hot"} -> ".data"
      [] name \in {".ctors", ".ctors.1"} -> ".ctors"
      [] OTHER -> name

(* What a section is loaded by; the sections without a segment follow the  *)
(* segments in the file.                                                   *)
GetSegmentType(order) ==
    CASE order = 1 -> "LOAD"
      [] order = ORDER_INTERP -> "INTERP"
      [] order \in {15, 205} -> "NOTE"
      [] order = 170 -> "DYNAMIC"
      [] order = 120 -> "EH_FRAME"
      [] order \in {124, ORDER_TBSS} -> "TLS"
      [] order \in {30, 40, 50, 52, 54, 60, 70, 80, 90, 95, 100, 110, 130, 140, 150, 160, 180,
                    190, 200, ORDER_BSS} -> "LOAD"
      [] OTHER -> "NULL"
HasOutputSegment(order) == GetSegmentType(order) # "NULL" \/ order = 215

-----------------------------------------------------------------------------
(* Input sections.                                                         *)

Chunk(kind, name, order, align, size) ==
    [kind |-> kind, name |-> name, out |-> GetOutputSectionName(name), order |-> order,
     flags |-> {}, align |-> align, fsize |-> size, msize |-> 0, first |-> FALSE, oalign |-> 1,
     loaded |-> TRUE, seg |-> "NULL", vaddr |-> 0, off |-> 0, atomBase |-> 0, atomOff |-> 0, dot |-> 0,
     file |-> 0, atoms |-> <<>>, ordinal |-> 0]

(* AtomSection: its flags follow from the permissions of its first atom.   *)
NewAtomSection(atom, arch) ==
    LET name == GetInputSectionName(atom)
        tls == atom.type \in {"threadData", "threadZeroFill"}
    IN  [Chunk("atoms", name, GetSectionOrder(name, atom.type, atom.perm, arch), 1, 0) EXCEPT
            !.flags = atom.perm \cup (IF tls /\ atom.perm = {A, W} THEN {T} ELSE {}),
            !.loaded = atom.type # "noAlloc", !.file = atom.file]

AlignOffset(offset, align, mod) ==
    LET current == offset % align
    IN  IF mod >= current THEN offset + mod - current ELSE offset + align + mod - current

(* The file and the memory positions grow apart when a section mixes atoms *)
(* with and without content.                                               *)
AppendAtom(sec, a, atom) ==
    LET fOffset == AlignOffset(sec.fsize, atom.align, atom.mod)
        mOffset == AlignOffset(sec.msize, atom.align, atom.mod)
        zero == atom.type \in {"zeroFill", "threadZeroFill"}
    IN  [sec EXCEPT !.atoms = Append(@, [atom |-> a, at |-> IF zero THEN mOffset ELSE fOffset]),
                    !.fsize = IF zero THEN @ ELSE fOffset + atom.size,
                    !.msize = IF atom.type = "noAlloc" THEN @ ELSE mOffset + atom.size,
                    !.align = Max({@, atom.align})]

(* One section per name, permissions and input file; its kind is that of   *)
(* the atom that made it.                                                  *)
AddAtom(chunks, a, atom, arch) ==
    LET mine == {i \in DOMAIN chunks : /\ chunks[i].kind = "atoms"
                                       /\ chunks[i].name = GetInputSectionName(atom)
                                       /\ chunks[i].flags \ {T} = atom.perm
                                       /\ chunks[i].file = atom.file}
    IN  IF atom.type \in {"unknown", "groupComdat", "gnuLinkOnce"} THEN chunks
        ELSE IF mine = {} THEN Append(chunks, AppendAtom(NewAtomSection(atom, arch), a, atom))
        ELSE [chunks EXCEPT ![Min(mine)] = AppendAtom(@, a, atom)]

-----------------------------------------------------------------------------
(* Output sections and segments.                                           *)

SortInputSections(chunks) ==
    LET before(i, j) == \/ chunks[i].order < chunks[j].order
                        \/ chunks[i].order = chunks[j].order /\ i < j
        sorted == SortSeq([i \in DOMAIN chunks |-> i], before)
    IN  [k \in DOMAIN chunks |-> chunks[sorted[k]]]

(* An output section: alignment and flags are the largest of its sections. *)
CreateOutputSections(chunks) ==
    LET collect(outs, i) ==
          LET c == chunks[i]
              old == {k \in DOMAIN outs : outs[k].name = c.out}
              new == [name |-> c.out, secs |-> <<i>>, align |-> Max({1, c.align}),
                      flags |-> c.flags, seg |-> FALSE]
          IN  IF ~Section(c) THEN outs
              ELSE IF old = {} THEN Append(outs, new)
              ELSE [outs EXCEPT ![Min(old)] =
                      [@ EXCEPT !.secs = Append(@, i), !.align = Max({@, c.align}),
                                !.flags = IF Num(@) < Num(c.flags) THEN c.flags ELSE @]]
    IN  FoldLeft(collect, <<>>, [i \in DOMAIN chunks |-> i])

(* The flags a section looks its segment up with.                          *)
LookupFlags(flags, merge) ==
    (flags \ {T}) \ (IF W \notin flags /\ merge THEN {X} ELSE {})

(* The segment of a key: made when the first section asks for it.          *)
PutInSegment(l, key, ids) ==
    LET old == {k \in DOMAIN l.keys : l.keys[k] = key}
        k == IF old = {} THEN Len(l.segments) + 1 ELSE Min(old)
        q == IF old = {} THEN [l EXCEPT !.keys = Append(@, key),
                                        !.segments = Append(@, NewSegment(key[1]))] ELSE l
    IN  [q EXCEPT !.segments[k] =
            FoldLeft(LAMBDA seg, id : AppendChunk(seg, id, l.chunks[id]), @, ids)]

(* Script expressions that stand before a section become chunks of its     *)
(* loadable segment.                                                       *)
ExtraChunks(l, c, link) ==
    LET dots == ByName(link.exprs, c.name, <<>>)
    IN  [k \in DOMAIN dots |-> [Chunk("expr", "", 0, 1, 0) EXCEPT !.dot = dots[k]]]

AssignSection(l, i, out, link) ==
    LET c == l.chunks[i]
        type == GetSegmentType(c.order)
        flags == LookupFlags(out.flags, link.merge)
        extra == ExtraChunks(l, c, link)
        q == IF type # "LOAD" THEN PutInSegment(l, <<type, flags>>, <<i>>) ELSE l
        r == [q EXCEPT !.chunks = @ \o extra]
        ids == [k \in DOMAIN extra |-> Len(q.chunks) + k] \o <<i>>
    IN  IF ~HasOutputSegment(c.order) THEN l
        ELSE IF type = "NULL" THEN q
        ELSE PutInSegment(r, <<"LOAD", IF link.magic = "default" THEN flags ELSE {W, A, X}>>, ids)

(* TargetLayout::assignSectionsToSegments: the last two chunks are the ELF *)
(* header and the program headers.                                         *)
AssignSectionsToSegments(chunks, link) ==
    LET sorted == SortInputSections(chunks)
        outs == CreateOutputSections(sorted)
        outOf(i) == CHOOSE k \in DOMAIN outs : i \in ToSet(outs[k].secs)
        marked == [i \in DOMAIN sorted |->
                     IF ~Section(sorted[i]) THEN sorted[i]
                     ELSE [sorted[i] EXCEPT !.seg = GetSegmentType(sorted[i].order), !.ordinal = outOf(i),
                                            !.first = Head(outs[outOf(i)].secs) = i,
                                            !.oalign = outs[outOf(i)].align]]
        init == [chunks |-> marked, segments |-> <<>>, keys |-> <<>>]
        order == FlattenSeq([k \in DOMAIN outs |-> outs[k].secs])
        l == FoldLeft(LAMBDA m, i : AssignSection(m, i, outs[outOf(i)], link), init, order)
        ehdr == Chunk("ehdr", "ehdr", 0, HeaderAlign, EhdrSize)
        n == Len(l.chunks)
        headers == <<n + 1, n + 2>>
        phdrSegment == [NewSegment("PHDR") EXCEPT !.chunks = headers, !.flags = {A, X}, !.align = 8]
    IN  [chunks |-> l.chunks \o <<[ehdr EXCEPT !.msize = EhdrSize],
                                  Chunk("phdr", "phdr", 0, HeaderAlign, 0)>>,
         outs |-> [k \in DOMAIN outs |->
                     [outs[k] EXCEPT !.seg = \E i \in ToSet(outs[k].secs) : HasOutputSegment(sorted[i].order)]],
         segments |-> IF link.kind = "dynexec" THEN Append(l.segments, phdrSegment) ELSE l.segments,
         headers |-> headers, phdrs |-> <<>>, next |-> 1, assigned |-> FALSE, added |-> TRUE]

-----------------------------------------------------------------------------
(* The rounds of TargetLayout::assignVirtualAddress.                       *)

(* The two headers are loaded in front of the first loadable segment, whose*)
(* first section gets the alignment of the segment.                        *)
StartOfLayout(l) ==
    LET sorted == SortSeq(l.segments, CompareSegments)
        load == Min({k \in DOMAIN sorted : sorted[k].type = "LOAD"})
    IN  [l EXCEPT !.chunks[Head(sorted[load].chunks)].align = sorted[load].align,
                  !.segments = [sorted EXCEPT ![load].chunks = l.headers \o @]]

(* ProgramHeader::addSegment fills the next headers, and makes new ones    *)
(* behind the last.                                                        *)
Header(seg, v, align) ==
    [type |-> seg.type, vaddr |-> v.vaddr, off |-> v.off, filesz |-> v.fsize, memsz |-> v.msize,
     flags |-> seg.flags, align |-> align]
LoadAlign(slice, link) ==
    IF link.magic = "default" THEN Max({PageSize, slice.align}) ELSE slice.align
Unnoticed(m) == FALSE
NewHeader(m) == m.next > Len(m.phdrs)
AddSegment(l, seg, link) ==
    LET made == IF seg.type # "LOAD" THEN <<Header(seg, seg, seg.align)>>
                ELSE [k \in DOMAIN seg.slices |->
                        Header(seg, seg.slices[k], LoadAlign(seg.slices[k], link))]
        put(m, h) == [m EXCEPT !.phdrs = IF m.next <= Len(@) THEN [@ EXCEPT ![m.next] = h]
                                         ELSE Append(@, h),
                               !.added = @ \/ NewHeader(m), !.next = @ + 1]
        q == FoldLeft(put, [phdrs |-> l.phdrs, next |-> l.next, added |-> FALSE], made)
        ph == Last(l.headers)
        size == PhdrSize * Len(q.phdrs)
    IN  [l EXCEPT !.phdrs = q.phdrs, !.next = q.next, !.added = q.added,
                  !.chunks[ph].fsize = size, !.chunks[ph].msize = size]

AddSegments(l, link) ==
    LET add(m, k) ==
          LET seg == Finalize(m.segments[k], m.chunks)
              q == [m EXCEPT !.segments[k] = seg]
          IN  IF seg.type = "NULL" THEN q ELSE AddSegment(q, seg, link)
    IN  FoldLeft(add, l, [k \in DOMAIN l.segments |-> k])

Loaded(seg) == seg.type \in {"LOAD", "NULL"}

(* A segment that starts where it started in the last round ends the pass. *)
VirtualAddresses(l, link) ==
    LET assign(m, k) ==
          LET seg == m.l.segments[k]
              same == /\ seg.type = "LOAD" /\ m.l.assigned
                      /\ m.at # link.base /\ m.at = seg.vaddr
              new == AssignVirtualAddress(seg, m.l.chunks, IF seg.type = "NULL" THEN 0 ELSE m.at, link)
          IN  IF m.stop \/ ~Loaded(seg) THEN m
              ELSE IF same THEN [m EXCEPT !.stop = TRUE]
              ELSE [m EXCEPT !.l.segments[k] = new.seg, !.l.chunks = new.chunks,
                             !.at = new.seg.vaddr + new.seg.msize]
    IN  FoldLeft(assign, [l |-> l, at |-> link.base, stop |-> FALSE], [k \in DOMAIN l.segments |-> k]).l

FileOffsets(l, link) ==
    LET assign(m, k) ==
          LET seg == m.l.segments[k]
              new == AssignFileOffsets(seg, m.l.chunks, m.at, link)
          IN  IF m.stop \/ ~Loaded(seg) THEN m
              ELSE IF l.assigned /\ m.at # 0 /\ m.at = seg.off THEN [m EXCEPT !.stop = TRUE]
              ELSE [m EXCEPT !.l.segments[k] = new.seg, !.l.chunks = new.chunks,
                             !.at = new.seg.off + new.seg.fsize]
    IN  FoldLeft(assign, [l |-> l, at |-> 0, stop |-> FALSE], [k \in DOMAIN l.segments |-> k]).l

(* The offsets of the atoms follow those of their sections.  The atoms of  *)
(* OR1K's .vectors are at address 0 and at the offset that is their        *)
(* address; the padding in front of them gives its room to the headers.    *)
Vectors(c) == c.kind = "atoms" /\ c.order = 1
AtVectors(c) == IF Vectors(c) THEN [c EXCEPT !.atomBase = 0] ELSE c
FixAtoms(c) ==
    IF Vectors(c) THEN [c EXCEPT !.atoms = Tail(@), !.atomOff = 0]
    ELSE IF Section(c) /\ HasOutputSegment(c.order) THEN [c EXCEPT !.atomOff = c.off] ELSE c
HeaderTooBig(c, size) == Vectors(c) /\ c.off >= size

(* The end of the sections that have a segment; the others come behind.    *)
MiscSections(l) ==
    LET loaded == {k \in DOMAIN l.segments : Loaded(l.segments[k])}
        last == l.segments[Max(loaded)]
        put(p, i) ==
          LET c == p.chunks[i]
              off == RoundUp(p.at, Alignment(c))
          IN  IF c.kind \in {"expr", "ehdr", "phdr"} \/ (Section(c) /\ HasOutputSegment(c.order)) THEN p
              ELSE [p EXCEPT !.chunks[i].off = off, !.chunks[i].vaddr = 0, !.at = off + c.fsize]
    IN  [l EXCEPT !.chunks = FoldLeft(put, [chunks |-> l.chunks, at |-> last.off + last.fsize],
                                      [i \in DOMAIN l.chunks |-> i]).chunks]

-----------------------------------------------------------------------------
(***************************************************************************)
(* The writer.                                                             *)
(***************************************************************************)

CONSTANTS
    Links,                           \* the links to write
    HashOf,                          \* elf_hash
    HashBuckets,                     \* the numbers of buckets
    ShdrSize, SymSize, DynSize, RelSize, HashWord, InterpSize

VARIABLES
    link,        \* kind, magic, options, atoms, undefined and shared symbols
    l,           \* the layout: chunks, output sections, segments, headers
    rel,         \* the relocation tables and what they refer to
    tab,         \* tables: symbols, dynamic symbols, dynamic entries, hash, headers
    abs,         \* the values of the absolute symbols
    phase

vars == <<link, l, rel, tab, abs, phase>>

Range1(f) == {f[x] : x \in DOMAIN f}
Dynamic == link.kind # "exec"
Strings(names) == 1 + 2 * Cardinality(names)

Table(name, order, size, alloc) ==
    [Chunk("table", name, order, HeaderAlign, size) EXCEPT
        !.loaded = FALSE, !.flags = IF alloc THEN {A} ELSE {}, !.msize = IF alloc THEN size ELSE 0]
Find(chunks, name) == {i \in DOMAIN chunks : chunks[i].kind = "table" /\ chunks[i].name = name}
At(chunks, name) == Min(Find(chunks, name))
Resize(chunks, name, size) ==
    [i \in DOMAIN chunks |->
        IF i \notin Find(chunks, name) THEN chunks[i]
        ELSE [chunks[i] EXCEPT !.fsize = size, !.msize = IF A \in chunks[i].flags THEN size ELSE @]]
OutputSection(name) == {k \in DOMAIN l.outs : l.outs[k].name = name}

-----------------------------------------------------------------------------
NoLayout == [chunks |-> <<>>, outs |-> <<>>, segments |-> <<>>, headers |-> <<>>, phdrs |-> <<>>,
             next |-> 1, assigned |-> FALSE, added |-> TRUE]
NullSymbol == [name |-> "", atom |-> 0, shndx |-> 0, value |-> 0, bind |-> 0, layout |-> FALSE]

Init ==
    /\ link \in Links
    /\ l = NoLayout
    /\ rel = [dyn |-> <<>>, plt |-> <<>>, referenced |-> {}, copied |-> {}]
    /\ tab = [sym |-> <<NullSymbol>>, dynsym |-> <<NullSymbol>>, dyn |-> <<>>, dynstr |-> {},
              buckets |-> <<>>, chains |-> <<>>, shdr |-> <<[name |-> "", addr |-> 0, off |-> 0,
              size |-> 0, info |-> 0, link |-> 0]>>, shstr |-> {}, info |-> 0, dyninfo |-> 0]
    /\ abs = <<>>
    /\ phase = "chunks"

(* TargetLayout::addAtom also enters the run-time relocations of the atom, *)
(* and remembers the symbols that they need.                               *)
AddRelocation(r, a, ref) ==
    LET local == ref.kind = "local"
        undefined == ref.target \in link.undefined
        q == CASE ref.kind = "dynamic" -> [r EXCEPT !.dyn = Append(@, <<a, ref.target>>)]
               [] ref.kind = "plt" -> [r EXCEPT !.plt = Append(@, <<a, ref.target>>)]
               [] OTHER -> r
    IN  IF undefined /\ local THEN q
        ELSE IF ref.copy THEN [q EXCEPT !.copied = @ \cup {link.atoms[a].name}]
        ELSE [q EXCEPT !.referenced = @ \cup {ref.target}]

BuildChunks ==
    LET atoms == [a \in DOMAIN link.atoms |-> a]
        relocs(r, a) == FoldLeft(LAMBDA s, ref : AddRelocation(s, a, ref), r, link.atoms[a].refs)
    IN  /\ phase = "chunks"
        /\ l' = [l EXCEPT !.chunks =
                   FoldLeft(LAMBDA c, a : AddAtom(c, a, link.atoms[a], link.arch), <<>>, atoms)]
        /\ rel' = FoldLeft(relocs, rel, atoms)
        /\ phase' = "sections"
        /\ UNCHANGED <<link, tab, abs>>

DynamicSections ==
    <<Table(".dynamic", 170, DynSize, TRUE), Table(".dynstr", 50, 1, TRUE),
      Table(".dynsym", 40, SymSize, TRUE), Table(".hash", 30, 0, TRUE)>>
Relocations(name, order, entries) ==
    IF entries = <<>> THEN <<>> ELSE <<Table(name, order, RelSize * Len(entries), TRUE)>>

CreateDefaultSections ==
    LET symtab == IF link.strip THEN <<>>
                  ELSE <<Table(".symtab", 240, SymSize, FALSE), Table(".strtab", 250, 1, FALSE)>>
        shdr == Chunk("shdr", "shdr", ORDER_SECTION_HEADERS, HeaderAlign, ShdrSize)
        eh == IF \E c \in Range1(l.chunks) : c.out = ".eh_frame"
              THEN <<Table(".eh_frame_hdr", 120, 2, TRUE)>> ELSE <<>>
        interp == IF link.kind = "dynexec"
                  THEN <<[Table(".interp", ORDER_INTERP, InterpSize, TRUE) EXCEPT !.align = 1]>>
                  ELSE <<>>
    IN  /\ phase = "sections"
        /\ l' = [l EXCEPT !.chunks = @ \o Relocations(".rel.dyn", 52, rel.dyn)
                   \o Relocations(".rel.plt", 54, rel.plt) \o symtab
                   \o <<Table(".shstrtab", 230, 1, FALSE), shdr>> \o eh
                   \o (IF Dynamic THEN DynamicSections ELSE <<>>) \o interp]
        /\ phase' = "segments"
        /\ UNCHANGED <<link, rel, tab, abs>>

AssignSegments ==
    /\ phase = "segments"
    /\ l' = AssignSectionsToSegments(l.chunks, link)
    /\ phase' = IF Dynamic THEN "dynamic" ELSE "preflight"
    /\ UNCHANGED <<link, rel, tab, abs>>

-----------------------------------------------------------------------------
(* Symbols.  Locals have binding 0, globals 1 and weak symbols 2.          *)
Bind(scope) == IF scope = "local" THEN 0 ELSE 1
Symbol(name, a, shndx, value, bind, layout) ==
    [name |-> name, atom |-> a, shndx |-> shndx, value |-> value, bind |-> bind, layout |-> layout]
AtomsOf(chunks) ==
    FlattenSeq([i \in DOMAIN chunks |->
        [k \in DOMAIN chunks[i].atoms |->
            [a |-> chunks[i].atoms[k].atom, at |-> chunks[i].atoms[k].at + chunks[i].atomBase,
             sec |-> chunks[i].ordinal]]])
HasAddress(type) == type \notin {"noAlloc", "roNote", "rwNote"}
DefinedSymbol(x, dynamic) ==
    LET atom == link.atoms[x.a]
        value == IF dynamic \/ ~HasAddress(atom.type) THEN 0 ELSE x.at
    IN  Symbol(atom.name, x.a, x.sec, value, Bind(atom.scope), dynamic)
UndefinedSymbol(n) == Symbol(n, 0, 0, 0, IF n \in link.weak THEN 2 ELSE 1, FALSE)
Named(syms) == SelectSeq(syms, LAMBDA s : s.name # "")
SortSymbols(syms) == SortSeq(syms, LAMBDA s, t : s.bind < t.bind)
Locals(syms) == Min({k \in 0..Len(syms) : k = Len(syms) \/ syms[k + 1].bind # 0})
Names(syms) == {s.name : s \in Range1(syms)} \ {""}

(* The dynamic entries: the default ones, one per needed library, and at   *)
(* preflight those of the initializers.                                    *)
DefaultEntries ==
    <<"HASH", "STRTAB", "SYMTAB", "STRSZ", "SYMENT">>
    \o (IF rel.dyn = <<>> THEN <<>>
        ELSE <<"REL", "RELSZ", "RELENT">> \o
             (IF \E r \in Range1(rel.dyn) : W \notin link.atoms[r[1]].perm THEN <<"TEXTREL">> ELSE <<>>))
    \o (IF rel.plt = <<>> THEN <<>> ELSE <<"PLTRELSZ", "PLTGOT", "PLTREL", "JMPREL">>)

Exported(atom) ==
    IF link.kind = "dso" THEN atom.scope = "global"
    ELSE atom.export \/ (link.exportDynamic /\ atom.scope = "global")
DynamicUndefined ==
    IF link.kind = "dso" THEN SetToSeq(link.undefined)
    ELSE SetToSeq(link.undefined \cap rel.referenced \cap link.weak)
SoNeeded == {s.lib : s \in {s \in link.shared : s.name \in rel.referenced \cup rel.copied}}

BuildDynamicSymbolTable ==
    LET defined == SelectSeq(AtomsOf(l.chunks), LAMBDA x : Exported(link.atoms[x.a]))
        shared == SetToSeq({s.name : s \in link.shared} \cap rel.referenced)
        syms == Named([k \in DOMAIN defined |-> DefinedSymbol(defined[k], TRUE)]
                      \o [k \in DOMAIN DynamicUndefined |-> UndefinedSymbol(DynamicUndefined[k])]
                      \o [k \in DOMAIN shared |-> Symbol(shared[k], 0, 0, 0, 1, FALSE)])
        dynsym == SortSymbols(tab.dynsym \o syms)
        entries == DefaultEntries \o [k \in 1..Cardinality(SoNeeded) |-> "NEEDED"]
        strings == Names(dynsym) \cup SoNeeded
    IN  /\ phase = "dynamic"
        /\ tab' = [tab EXCEPT !.dynsym = dynsym, !.dynstr = strings,
                              !.dyn = [k \in DOMAIN entries |-> [tag |-> entries[k], val |-> 0]]]
        /\ l' = [l EXCEPT !.chunks =
                   Resize(Resize(Resize(@, ".dynsym", SymSize * Len(dynsym)),
                                 ".dynstr", Strings(strings)),
                          ".dynamic", DynSize * (Len(entries) + 1))]
        /\ phase' = "preflight"
        /\ UNCHANGED <<link, rel, abs>>

(* HashSection::doPreFlight: as many buckets as the symbols fill, the last *)
(* symbol of a bucket first.                                               *)
Buckets(n) == Max({b \in ToSet(HashBuckets) : b <= n})
FillHashFromTheFront(dynsym) ==            \* the last symbol of a bucket hides the others
    LET b == Buckets(Len(dynsym))
        hash(k) == IF dynsym[k].name = "" THEN 0 ELSE HashOf[dynsym[k].name]
    IN  [buckets |-> [p \in 1..b |-> Max({0} \cup {k - 1 : k \in {j \in DOMAIN dynsym : hash(j) % b = p - 1}})],
         chains |-> [k \in DOMAIN dynsym |-> 0]]
FillHash(dynsym) ==
    LET b == Buckets(Len(dynsym))
        hash(k) == IF dynsym[k].name = "" THEN 0 ELSE HashOf[dynsym[k].name]
        enter(h, k) == LET pos == (hash(k) % b) + 1
                       IN  [h EXCEPT !.chains[k] = h.buckets[pos], !.buckets[pos] = k - 1]
    IN  FoldLeft(enter, [buckets |-> [p \in 1..b |-> 0], chains |-> [k \in DOMAIN dynsym |-> 0]],
                 [k \in DOMAIN dynsym |-> k])
PreFlightEntries ==
    LET has(name, tags) == IF OutputSection(name) # {} THEN tags ELSE <<>>
        fn(name, tag) == IF \E atom \in Range1(link.atoms) : atom.name = name THEN <<tag>> ELSE <<>>
    IN  has(".init_array", <<"INIT_ARRAY", "INIT_ARRAYSZ">>)
        \o has(".fini_array", <<"FINI_ARRAY", "FINI_ARRAYSZ">>)
        \o fn("_init", "INIT") \o fn("_fini", "FINI")

DoPreFlight ==
    LET h == FillHash(tab.dynsym)
        dyn == tab.dyn \o [k \in DOMAIN PreFlightEntries |-> [tag |-> PreFlightEntries[k], val |-> 0]]
    IN  /\ phase = "preflight"
        /\ IF Dynamic
           THEN /\ tab' = [tab EXCEPT !.buckets = h.buckets, !.chains = h.chains, !.dyn = dyn]
                /\ l' = [StartOfLayout(l) EXCEPT !.chunks =
                           Resize(Resize(@, ".dynamic", DynSize * (Len(dyn) + 1)), ".hash",
                                  HashWord * (2 + Len(h.buckets) + Len(h.chains)))]
           ELSE l' = StartOfLayout(l) /\ UNCHANGED tab
        /\ phase' = "rounds"
        /\ UNCHANGED <<link, rel, abs>>

-----------------------------------------------------------------------------
(* One round: the headers are filled in; when none was added since the     *)
(* addresses were assigned, the layout is done.                            *)
Round ==
    LET added == AddSegments(l, link)
        vaddrs == VirtualAddresses(added, link)
        placed == [vaddrs EXCEPT !.chunks = [i \in DOMAIN @ |-> AtVectors(@[i])]]
        offsets == FileOffsets(placed, link)
    IN  /\ phase = "rounds"
        /\ IF ~added.added /\ l.assigned
           THEN /\ l' = [added EXCEPT !.chunks = [i \in DOMAIN @ |-> FixAtoms(@[i])]]
                /\ phase' = IF \E c \in Range1(added.chunks) :
                                 Vectors(c) /\ HeaderTooBig(c, link.atoms[c.atoms[1].atom].size)
                            THEN "asserted" ELSE "symbols"
           ELSE l' = [offsets EXCEPT !.assigned = TRUE, !.next = 1] /\ UNCHANGED phase
        /\ UNCHANGED <<link, rel, tab, abs>>

(* The values of an output section, from its first and its last section.   *)
Merged(k) ==
    LET first == l.chunks[Head(l.outs[k].secs)]
        last == l.chunks[Last(l.outs[k].secs)]
    IN  [addr |-> first.vaddr, msize |-> last.vaddr - first.vaddr + last.msize,
         off |-> first.off, fsize |-> last.off - first.off + last.fsize]
EndOf(name) == LET m == Merged(Min(OutputSection(name))) IN m.addr + m.msize

FinalizeDefaultAtomValues ==
    LET has(name) == OutputSection(name) # {}
        end == IF has(".bss") THEN EndOf(".bss") ELSE IF has(".data") THEN EndOf(".data") ELSE 0
        start(name) == IF has(name) THEN Merged(Min(OutputSection(name))).addr ELSE 0
        stop(name) == IF has(name) THEN EndOf(name) ELSE 0
    IN  IF link.kind = "dso" THEN [n \in {"_end"} |-> end]
        ELSE [n \in {"_end", "__bss_start", "__bss_end", "__init_array_start", "__init_array_end"} |->
                CASE n = "_end" -> end
                  [] n = "__bss_start" -> start(".bss")
                  [] n = "__bss_end" -> stop(".bss")
                  [] n = "__init_array_start" -> start(".init_array")
                  [] OTHER -> stop(".init_array")]

(* The static symbols, once addresses are known, and finalize() of the     *)
(* sections: sh_info, and the values of the dynamic symbols.               *)
BuildStaticSymbolTable ==
    LET atoms == AtomsOf(l.chunks)
        values == FinalizeDefaultAtomValues
        absolute == SetToSeq(DOMAIN values)
        undefined == SetToSeq(link.undefined)
        syms == SortSymbols(tab.sym
                  \o Named([k \in DOMAIN atoms |-> DefinedSymbol(atoms[k], FALSE)])
                  \o [k \in DOMAIN absolute |-> Symbol(absolute[k], 0, 65521, values[absolute[k]], 1, FALSE)]
                  \o [k \in DOMAIN undefined |-> UndefinedSymbol(undefined[k])])
        address(a) == LET x == SelectSeq(atoms, LAMBDA y : y.a = a) IN x[1].at
        dynsym == [k \in DOMAIN tab.dynsym |->
                     IF tab.dynsym[k].layout
                     THEN [tab.dynsym[k] EXCEPT !.value = address(tab.dynsym[k].atom)]
                     ELSE tab.dynsym[k]]
    IN  /\ phase = "symbols"
        /\ abs' = values
        /\ tab' = [tab EXCEPT !.sym = IF link.strip THEN @ ELSE syms, !.dynsym = dynsym,
                              !.info = Locals(syms), !.dyninfo = Locals(dynsym)]
        /\ l' = IF link.strip THEN l
                ELSE [l EXCEPT !.chunks = Resize(Resize(@, ".symtab", SymSize * Len(syms)),
                                                 ".strtab", Strings(Names(syms)))]
        /\ phase' = "headers"
        /\ UNCHANGED <<link, rel>>

-----------------------------------------------------------------------------
(* The section headers: first the sections that have a segment, then the   *)
(* others, which are corrected by their ordinals once they have an offset. *)
SectionHeader(k) ==
    LET m == Merged(k)
        c == l.chunks[Last(l.outs[k].secs)]
    IN  [name |-> l.outs[k].name, addr |-> m.addr, off |-> m.off,
         size |-> IF l.outs[k].seg /\ c.loaded THEN m.msize ELSE m.fsize, info |-> 0, link |-> 0]
UpdateUnderItsOldNumber(shdr, c) ==        \* forgets the null header
    [shdr EXCEPT ![c.ordinal].addr = c.vaddr, ![c.ordinal].off = c.off, ![c.ordinal].size = c.fsize]
UpdateSection(shdr, c) ==
    [shdr EXCEPT ![c.ordinal + 1].addr = c.vaddr, ![c.ordinal + 1].off = c.off,
                 ![c.ordinal + 1].size = c.fsize,
                 ![c.ordinal + 1].info = IF c.name = ".symtab" THEN tab.info ELSE @]

BuildSectionHeaderTable ==
    LET outs == [k \in DOMAIN l.outs |-> k]
        order == SelectSeq(outs, LAMBDA k : l.outs[k].seg) \o SelectSeq(outs, LAMBDA k : ~l.outs[k].seg)
        names == {l.outs[k].name : k \in DOMAIN l.outs}
        appended == tab.shdr \o [k \in DOMAIN order |-> SectionHeader(order[k])]
        sized == [l EXCEPT !.chunks =
                    [i \in DOMAIN @ |-> IF @[i].kind = "shdr" THEN [@[i] EXCEPT !.fsize = ShdrSize * Len(appended)]
                                        ELSE @[i]]]
        misc == MiscSections([sized EXCEPT !.chunks = Resize(@, ".shstrtab", Strings(names))])
        rest == SelectSeq(misc.chunks, LAMBDA c : Section(c) /\ ~HasOutputSegment(c.order))
    IN  /\ phase = "headers"
        /\ l' = misc
        /\ tab' = [tab EXCEPT !.shdr = FoldLeft(UpdateSection, appended, rest), !.shstr = names]
        /\ phase' = IF Dynamic THEN "update" ELSE "done"
        /\ UNCHANGED <<link, rel, abs>>

UpdateDynamicTable ==
    LET addr(name) == l.chunks[At(l.chunks, name)].vaddr
        size(name) == l.chunks[At(l.chunks, name)].msize
        out(name) == Merged(Min(OutputSection(name)))
        fn(name) == LET x == SelectSeq(AtomsOf(l.chunks), LAMBDA y : link.atoms[y.a].name = name)
                    IN  x[1].at
        value(tag) ==
          CASE tag = "HASH" -> addr(".hash") [] tag = "STRTAB" -> addr(".dynstr")
            [] tag = "SYMTAB" -> addr(".dynsym") [] tag = "STRSZ" -> size(".dynstr")
            [] tag = "SYMENT" -> SymSize
            [] tag = "REL" -> addr(".rel.dyn") [] tag = "RELSZ" -> size(".rel.dyn")
            [] tag = "RELENT" -> RelSize
            [] tag = "JMPREL" -> addr(".rel.plt") [] tag = "PLTRELSZ" -> size(".rel.plt")
            [] tag = "PLTGOT" -> out(".got.plt").addr
            [] tag = "INIT_ARRAY" -> out(".init_array").addr
            [] tag = "INIT_ARRAYSZ" -> out(".init_array").msize
            [] tag = "FINI_ARRAY" -> out(".fini_array").addr
            [] tag = "FINI_ARRAYSZ" -> out(".fini_array").msize
            [] tag = "INIT" -> fn("_init") [] tag = "FINI" -> fn("_fini")
            [] OTHER -> 0
    IN  /\ phase = "update"
        /\ rel.plt # <<>> => OutputSection(".got.plt") # {}     \* nullptr otherwise
        /\ tab' = [tab EXCEPT !.dyn = 
                 [k \in DOMAIN tab.dyn |-> [tab.dyn[k] EXCEPT !.val = value(tab.dyn[k].tag)]]]
        /\ phase' = "done"
        /\ UNCHANGED <<link, l, rel, abs>>

Next ==
    \/ BuildChunks \/ CreateDefaultSections \/ AssignSegments \/ BuildDynamicSymbolTable
    \/ DoPreFlight \/ Round \/ BuildStaticSymbolTable \/ BuildSectionHeaderTable
    \/ UpdateDynamicTable

Spec == Init /\ [][Next]_vars

-----------------------------------------------------------------------------
(* What is in the file: headers, tables and atoms, with their room in the  *)
(* file and in memory.                                                     *)
Place(name, off, fsize, vaddr, msize, loaded) ==
    [name |-> name, off |-> off, fsize |-> fsize, vaddr |-> vaddr, msize |-> msize, loaded |-> loaded]
Places ==
    LET zero(atom) == atom.type \in {"zeroFill", "threadZeroFill"}
        tls(atom) == atom.type \in {"threadData", "threadZeroFill"}
        atoms(i, c) ==
          {LET atom == link.atoms[x.atom]
           IN  Place(<<i, x.atom>>, c.atomOff + x.at, IF zero(atom) THEN 0 ELSE atom.size,
                     (IF tls(atom) THEN c.vaddr ELSE c.atomBase) + x.at,
                     IF atom.type \in {"threadZeroFill", "noAlloc"} THEN 0 ELSE atom.size,
                     atom.type # "noAlloc") : x \in Range1(c.atoms)}
        chunk(i, c) ==
          IF c.kind = "atoms" THEN atoms(i, c)
          ELSE {Place(<<i, 0>>, c.off, c.fsize, c.vaddr, c.msize, c.msize > 0)}
    IN  UNION {chunk(i, l.chunks[i]) : i \in DOMAIN l.chunks}

Overlap(x, n, y, m) == n > 0 /\ m > 0 /\ x < y + m /\ y < x + n
FileSize == LET c == CHOOSE c \in Range1(l.chunks) : c.kind = "shdr" IN c.off + c.fsize

(* Nothing is written over anything else, nothing is written behind the    *)
(* end of the buffer, and no two things are loaded at one address: what a  *)
(* table grew to is what was laid out for it.  (buildOutput,               *)
(* outputFileSize)                                                         *)
Apart ==
    phase = "done" =>
      /\ \A p, q \in Places : p # q =>
           /\ ~Overlap(p.off, p.fsize, q.off, q.fsize)
           /\ p.loaded /\ q.loaded => ~Overlap(p.vaddr, p.msize, q.vaddr, q.msize)
      /\ \A p \in Places : p.off + p.fsize <= FileSize

(* A loader that reads the program headers finds every header, table and   *)
(* atom at its address with its content, zeros where there is none, no two *)
(* headers load one address, and offsets are congruent to addresses.       *)
(* (TargetLayout::assignVirtualAddress, Segment::assignFileOffsets)        *)
LoadHeaders == {h \in Range1(l.phdrs) : h.type = "LOAD"}
Loads(h, p) ==
    /\ h.vaddr <= p.vaddr /\ p.vaddr + p.msize <= h.vaddr + h.memsz
    /\ IF p.fsize > 0 THEN p.off - h.off = p.vaddr - h.vaddr /\ p.off + p.fsize <= h.off + h.filesz
       ELSE p.vaddr >= h.vaddr + h.filesz
Loadable ==
    phase = "done" =>
      /\ \A p \in Places : p.loaded /\ p.msize > 0 => \E h \in LoadHeaders : Loads(h, p)
      /\ \A g, h \in LoadHeaders : g # h => ~Overlap(g.vaddr, g.memsz, h.vaddr, h.memsz)
      /\ \A h \in LoadHeaders : link.magic = "default" => h.off % h.align = h.vaddr % h.align

(* A segment is cut only in front of a hole of more than a page.           *)
(* (Segment::assignVirtualAddress, "more than a page away")                *)
CutWhereFarApart ==
    phase = "done" /\ link.magic = "default" =>
      \A seg \in Range1(l.segments) : \A i \in 1..(Len(seg.slices) - 1) :
        seg.slices[i + 1].vaddr > seg.slices[i].vaddr + seg.slices[i].msize + PageSize

(* The section header that a symbol names is that of the section its value *)
(* points into, in the static and in the dynamic table, although headers   *)
(* are appended in two passes and indexed by ordinals given before.        *)
(* (buildSectionHeaderTable, assignSectionsWithNoSegments, updateSection)  *)
SymbolsInTheirSections ==
    phase = "done" =>
      \A s \in Range1(tab.sym) \cup Range1(tab.dynsym) :
        s.atom # 0 /\ HasAddress(link.atoms[s.atom].type)
            /\ link.atoms[s.atom].type \notin {"threadData", "threadZeroFill"} =>
          LET h == tab.shdr[s.shndx + 1]
          IN  h.addr <= s.value /\ s.value + link.atoms[s.atom].size <= h.addr + h.size

(* The dynamic linker finds every dynamic symbol in the chain of its       *)
(* bucket, and stops reading local symbols at sh_info.                     *)
(* (HashSection::doPreFlight, SymbolTable::finalize)                       *)
Walk(k) ==
    LET chain[n \in 0..Len(tab.chains)] ==
          IF n = 0 THEN tab.buckets[(HashOf[tab.dynsym[k].name] % Len(tab.buckets)) + 1]
          ELSE IF chain[n - 1] = 0 THEN 0 ELSE tab.chains[chain[n - 1] + 1]
    IN  {chain[n] : n \in 0..Len(tab.chains)}
SymbolsAreFound ==
    phase = "done" =>
      /\ Dynamic => \A k \in DOMAIN tab.dynsym : tab.dynsym[k].name # "" => k - 1 \in Walk(k)
      /\ \A k \in DOMAIN tab.dynsym : Dynamic => (tab.dynsym[k].bind = 0 <=> k <= tab.dyninfo)
      /\ \A k \in DOMAIN tab.sym : ~link.strip => (tab.sym[k].bind = 0 <=> k <= tab.info)

(* The image that a loader maps is the one that was laid out.              *)
ImageIsLoadable == Apart /\ Loadable

(* Debugger, static linker and dynamic linker find every symbol, under its *)
(* name and in its section.                                                *)
SymbolTablesAgree == SymbolsInTheirSections /\ SymbolsAreFound
=============================================================================
