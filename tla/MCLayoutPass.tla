---------------------------- MODULE MCLayoutPass ----------------------------
(***************************************************************************)
(* Four atoms, every choice of layout-after references without a cycle,    *)
(* every choice of sizes, and the ranks in the order of the file or        *)
(* against it. Coalescing can leave two references to one atom, and a      *)
(* reference to an atom of another file.                                   *)
(***************************************************************************)
EXTENDS LayoutPass

CONSTANTS atom1, atom2, atom3, atom4

AllAtoms == {atom1, atom2, atom3, atom4}
FileOrder == <<atom1, atom2, atom3, atom4>>

Position == [x \in AllAtoms |-> CHOOSE i \in DOMAIN FileOrder : FileOrder[i] = x]
Reversed == [x \in AllAtoms |-> Len(FileOrder) + 1 - Position[x]]

\* The targets that up to four references lead to.
Reached(references, S) == {references[x] : x \in S} \ {NoAtom}

Acyclic(references) ==
  \A x \in AllAtoms :
    LET one   == Reached(references, {x})
        two   == Reached(references, one)
        three == Reached(references, two)
        four  == Reached(references, three)
    IN  x \notin one \cup two \cup three \cup four

AcyclicInputs ==
  [after : {r \in [AllAtoms -> AllAtoms \cup {NoAtom}] : Acyclic(r)},
   zero  : SUBSET AllAtoms,
   rank  : {Position, Reversed}]
=============================================================================
