--------------------------- MODULE SectionWriter ---------------------------
(***************************************************************************)
(* Writing the sections of an ELF file: OutputELFWriter::writeOutput       *)
(* writes every section from a task of its own, AtomSection::write every   *)
(* atom of a section from a task of its own, and a task copies the content *)
(* of its atom into the file and then applies the references of the atom   *)
(* one after the other, reading and writing the shared buffer.             *)
(*                                                                         *)
(* The buffer is the set of its bits that are one: bit i of byte b is      *)
(* 8 * b + i.  What a relocation computes is in the modules *Relocations,  *)
(* one per target.                                                         *)
(***************************************************************************)
EXTENDS Words, Sequences

CONSTANTS
    Encodings,           \* insn_encodings of Hexagon
    Outputs              \* the laid out files the linker may have to write

VARIABLES
    output,    \* the file: its target, and the atoms of its sections
    file,      \* llvm::FileOutputBuffer
    pc,        \* per atom: 0, then the reference that comes next
    failed,    \* the sections whose "success" is false
    phase      \* "write", then "committed" or "fatal"

vars == <<output, file, pc, failed, phase>>

OR1K == INSTANCE OR1KRelocations WITH Endian <- "big"
OR1KLE == INSTANCE OR1KRelocations WITH Endian <- "little"
X86 == INSTANCE X86Relocations
AArch64 == INSTANCE AArch64Relocations
ARM == INSTANCE ARMRelocations
Hexagon == INSTANCE HexagonRelocations
Mips == INSTANCE MipsRelocations

Targets == {"or1k", "or1kle", "x86", "x86_64", "aarch64", "arm", "hexagon", "mips"}
BigEndian == {"or1k"}

(* TargetRelocationHandler::applyRelocation of the target.                 *)
Handler(arch, r, rd) ==
    CASE arch = "or1k" -> OR1K!Apply(r, rd)
      [] arch = "or1kle" -> OR1KLE!Apply(r, rd)
      [] arch = "x86" -> X86!Apply386(r, rd)
      [] arch = "x86_64" -> X86!Apply64(r, rd)
      [] arch = "aarch64" -> AArch64!Apply(r, rd)
      [] arch = "arm" -> ARM!Apply(r, rd)
      [] arch = "hexagon" -> Hexagon!Apply(r, rd)
      [] arch = "mips" -> Mips!Apply(r, rd)

Atoms == DOMAIN output.atoms
Atom(a) == output.atoms[a]
Done(a) == Len(Atom(a).refs) + 1

(* The n bytes at an offset of the buffer, as a word of the target.  Bit i *)
(* of the word is in byte i \div 8 from the low end.                       *)
Swap(arch, n, w) ==
    IF arch \in BigEndian
    THEN {8 * (n - 1 - (i \div 8)) + (i % 8) : i \in w} ELSE w
Read(arch, buf, off, n) == Swap(arch, n, Field(buf, 8 * off, 8 * n))
Write(arch, buf, off, n, w) ==
    (buf \ Span(8 * off, 8 * n)) \cup {8 * off + i : i \in Swap(arch, n, w)}

(* The reference as the handler sees it: P is the address of the place.    *)
Seen(atom, ref) == [ref EXCEPT !.P = Plus[atom.vaddr, Num(ref.at)]]
Words8(arch, buf, off) == [n \in {1, 2, 4, 8} |-> Read(arch, buf, off, n)]

Answer(arch, atom, ref, buf) ==
    Handler(arch, Seen(atom, ref), Words8(arch, buf, atom.off + ref.at))

(* The bits a store covers, those of them it sets (a store narrows to its  *)
(* width), and the buffer after the stores of one relocation.              *)
Place(atom, ref, s) == Span(8 * (atom.off + ref.at + s.at), 8 * s.n)
Put(arch, atom, ref, s) ==
    Write(arch, {}, atom.off + ref.at + s.at, s.n, s.word \cap Low(8 * s.n))

Stored(arch, atom, ref, buf) ==
    LET stores == Answer(arch, atom, ref, buf).stores
    IN  (buf \ UNION {Place(atom, ref, s) : s \in stores}) \cup
        UNION {Put(arch, atom, ref, s) : s \in stores}

Bytes(atom) == Span(8 * atom.off, 8 * atom.size)
Copied(atom, buf) == (buf \ Bytes(atom)) \cup {8 * atom.off + i : i \in atom.content}

Writes(atom) == atom.onDisk /\ atom.size > 0
Written == {a \in Atoms : Writes(Atom(a))}

(* The field of a relocation: where it starts from the place, and its      *)
(* bytes. The supplements of the ABI give them by kind; what the loader    *)
(* applies has none. Little endian OR1K needs four bytes for a half word   *)
(* (LittleHalfOverruns), x86_64 rewrites a whole call for TLSLD.           *)
Room(from, n) == [from |-> from, n |-> n]
FieldOf(arch, r) ==
    CASE arch \in {"or1k", "or1kle"} ->
            Room(0, IF r.kind \in OR1K!LoadTime THEN 0
                    ELSE IF r.kind \in {"W8", "W8_PCREL"} THEN 1
                    ELSE IF arch = "or1k" /\ r.kind \in {"W16", "W16_PCREL"} THEN 2 ELSE 4)
      [] arch = "x86_64" ->
            IF r.kind = "TLSLD" THEN Room(-3, 12)
            ELSE Room(0, IF r.kind \in X86!RuntimeOnly THEN 0
                         ELSE IF r.kind \in {"W16", "PC16"} THEN 2
                         ELSE IF r.kind \in {"W64", "PC64", "TPOFF64"} THEN 8 ELSE 4)
      [] arch = "aarch64" ->
            Room(0, IF r.kind \in AArch64!RuntimeOnly THEN 0
                    ELSE IF r.kind = "ABS64" THEN 8 ELSE 4)
      [] arch = "arm" ->
            Room(0, IF r.kind \in {"NONE", "IRELATIVE"} THEN 0
                    ELSE IF r.kind = "THM_JUMP11" THEN 2 ELSE 4)
      [] arch = "hexagon" -> Room(0, IF r.kind \in {"JMP_SLOT", "GLOB_DAT"} THEN 0 ELSE 4)
      [] arch = "mips" -> Room(0, IF Mips!Written(r) \in Mips!Wide THEN 8 ELSE 4)
      [] OTHER -> Room(0, 4)
FieldFits(arch, atom, ref) ==
    LET f == FieldOf(arch, Seen(atom, ref))
    IN  /\ ref.at \in Nat /\ f.from \in Int /\ f.n \in Nat
        /\ 0 <= ref.at + f.from /\ ref.at + f.from + f.n <= atom.size

(* What the layout makes: an atom's content is as long as the atom, the    *)
(* field of a reference lies in the atom, and atoms that are written do    *)
(* not overlap.  An atom that takes no room on disk may lie over others.   *)
WellLaidOut(out) ==
    /\ out.arch \in Targets
    /\ \A a \in DOMAIN out.atoms :
          /\ out.atoms[a].off \in Nat /\ out.atoms[a].size \in Nat
          /\ out.atoms[a].content \subseteq 0..(8 * out.atoms[a].size - 1)
          /\ Len(out.atoms[a].refs) \in Nat
          /\ DOMAIN out.atoms[a].refs = 1..Len(out.atoms[a].refs)
          /\ Writes(out.atoms[a]) =>
                \A k \in DOMAIN out.atoms[a].refs :
                   FieldFits(out.arch, out.atoms[a], out.atoms[a].refs[k])
    /\ \A a, b \in DOMAIN out.atoms :
          a # b /\ Writes(out.atoms[a]) /\ Writes(out.atoms[b]) =>
            Bytes(out.atoms[a]) \cap Bytes(out.atoms[b]) = {}
ASSUME OutputsAssumption == \A out \in Outputs : WellLaidOut(out)

-----------------------------------------------------------------------------
Init ==
    /\ output \in Outputs
    /\ file = {}
    /\ pc = [a \in Atoms |-> 0]
    /\ failed = {}
    /\ phase = "write"

(* The task of an atom starts: an atom that takes no room on disk, or has  *)
(* no content, is left out with its references.                            *)
Copy(a) ==
    /\ phase = "write" /\ pc[a] = 0
    /\ IF Writes(Atom(a))
       THEN pc' = [pc EXCEPT ![a] = 1] /\ file' = Copied(Atom(a), file)
       ELSE pc' = [pc EXCEPT ![a] = Done(a)] /\ UNCHANGED file
    /\ UNCHANGED <<output, failed, phase>>

ForgetsErrors(a) ==
    /\ phase = "write" /\ pc[a] \in 1..Len(Atom(a).refs)
    /\ LET ref == Atom(a).refs[pc[a]]
       IN  /\ file' = Stored(output.arch, Atom(a), ref, file)
           /\ failed' = IF Answer(output.arch, Atom(a), ref, file).ok
                        THEN failed \ {Atom(a).section} ELSE failed \cup {Atom(a).section}
    /\ pc' = [pc EXCEPT ![a] = @ + 1]
    /\ UNCHANGED <<output, phase>>

(* One reference.  An error is printed and the next reference follows.     *)
Apply(a) ==
    /\ phase = "write" /\ pc[a] \in 1..Len(Atom(a).refs)
    /\ LET ref == Atom(a).refs[pc[a]]
       IN  /\ file' = Stored(output.arch, Atom(a), ref, file)
           /\ failed' = IF Answer(output.arch, Atom(a), ref, file).ok THEN failed
                        ELSE failed \cup {Atom(a).section}
    /\ pc' = [pc EXCEPT ![a] = @ + 1]
    /\ UNCHANGED <<output, phase>>

(* All tasks of a section have ended and one of them failed: the process   *)
(* stops, whatever the other sections are doing.                           *)
ReportFatal(s) ==
    /\ phase = "write" /\ s \in failed
    /\ \A a \in Atoms : Atom(a).section = s => pc[a] = Done(a)
    /\ phase' = "fatal"
    /\ UNCHANGED <<output, file, pc, failed>>

Commit ==
    /\ phase = "write" /\ failed = {}
    /\ \A a \in Atoms : pc[a] = Done(a)
    /\ phase' = "committed"
    /\ UNCHANGED <<output, file, pc, failed>>

Sections == {Atom(a).section : a \in Atoms}

Next ==
    \/ \E a \in Atoms : Copy(a) \/ Apply(a)
    \/ \E s \in Sections : ReportFatal(s)
    \/ Commit

Spec == Init /\ [][Next]_vars

-----------------------------------------------------------------------------
(* Reference: an atom written alone into an empty file, one reference      *)
(* after the other: the file after each, and the file in the end.          *)
AloneAfter(arch, atom) ==
    LET after[k \in 0..Len(atom.refs)] ==
          IF k = 0 THEN Copied(atom, {})
          ELSE Stored(arch, atom, atom.refs[k], after[k - 1])
    IN  after
Alone(arch, atom) == AloneAfter(arch, atom)[Len(atom.refs)]

(* A step of a task changes only bytes of the task's own atom: the buffer  *)
(* is shared without a lock, and the atoms around this one are being       *)
(* written by other tasks.  (AtomSection::write)                           *)
OwnBytesOnly ==
    [][\A a \in Atoms : pc'[a] # pc[a] =>
          \A b \in Written \ {a} : file \cap Bytes(Atom(b)) = file' \cap Bytes(Atom(b))]_vars

(* The committed file does not depend on how the tasks interleave: every   *)
(* atom reads as if it had been written alone, and nothing is between them.*)
AsIfAlone ==
    phase = "committed" =>
      /\ \A a \in Written : file \cap Bytes(Atom(a)) = Alone(output.arch, Atom(a))
      /\ file \subseteq UNION {Bytes(Atom(a)) : a \in Written}

(* No file is committed when a relocation of one of its atoms was refused, *)
(* in whatever order the refusals and the ends of the sections come.       *)
NoFileAfterAnError ==
    phase = "committed" =>
      \A a \in Written : \A k \in DOMAIN Atom(a).refs :
        Answer(output.arch, Atom(a), Atom(a).refs[k],
               AloneAfter(output.arch, Atom(a))[k - 1]).ok

(* However the tasks of the sections interleave, what is committed is the  *)
(* file that one task would have written, and only if nothing was refused. *)
CommittedAsIfAlone == AsIfAlone /\ NoFileAfterAnError

=============================================================================
