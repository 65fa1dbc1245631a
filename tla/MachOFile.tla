----------------------------- MODULE MachOFile -----------------------------
(***************************************************************************)
(* What the Mach-O ArchHandlers work on: a relocatable file with sections  *)
(* of atoms, relocation records, the content at a fixup, and references.   *)
(*                                                                         *)
(* A file is [atoms, addr]: the atoms, and their addresses in this file.   *)
(* A symbol or an atom is named by its index; undefined atoms have size 0. *)
(* The content at a fixup is [op, imm]: an instruction, or "data", and the *)
(* value of its immediate field.  A word has Half * Half values (two half  *)
(* words of 2^16 in the code); 64-bit values do not wrap.                  *)
(***************************************************************************)
EXTENDS Integers, Sequences, FiniteSetsExt, SequencesExt

CONSTANT Half
Word == Half * Half

ASSUME HalfAssumption == Half \in Nat \ {0, 1}

U(x) == x % Word
S(x) == IF U(x) >= Word \div 2 THEN U(x) - Word ELSE U(x)
SHalf(x) == IF x % Half >= Half \div 2 THEN (x % Half) - Half ELSE x % Half

(* A relocation record; "sym" is a symbol, a section or an addend.         *)
P(type, flags, len) == [type |-> type, flags |-> flags, len |-> len]
AppendReloc(off, sym, value, pattern) == [off |-> off, sym |-> sym, value |-> value, pat |-> pattern]

Ref(kind, target, addend) == [kind |-> kind, target |-> target, addend |-> addend]
Bad == Ref("bad", 0, 0)

Undefined(f, a) == f.atoms[a].size = 0
Address(f, a) == IF Undefined(f, a) THEN 0 ELSE f.addr[a]

(* atomByAddr: section 0 stands for any section.                           *)
Covering(f, sec, addr) ==
    {a \in DOMAIN f.atoms : /\ f.addr[a] <= addr /\ addr < f.addr[a] + f.atoms[a].size
                            /\ sec \in {0, f.atoms[a].sec}}
AtomAt(f, sec, addr) == Min(Covering(f, sec, addr))

(* A reference to the atom at an address, with the offset as its addend.   *)
ByAddress(f, kind, sec, addr) ==
    IF Covering(f, sec, addr) = {} THEN Bad
    ELSE Ref(kind, AtomAt(f, sec, addr), addr - f.addr[AtomAt(f, sec, addr)])

(* Undefined, tentative and weak global atoms are referenced by symbol.    *)
UseExternalRelocationTo(f, a) ==
    Undefined(f, a) \/ f.atoms[a].merge = "tentative"
    \/ (f.atoms[a].merge = "weak" /\ f.atoms[a].scope = "global")

=============================================================================
