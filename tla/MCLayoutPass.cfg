SPECIFICATION Spec
CONSTANTS
  atom1 = atom1
  atom2 = atom2
  atom3 = atom3
  atom4 = atom4
  NoAtom = NoAtom
  Atoms <- AllAtoms
  AtomRange <- FileOrder
  Inputs <- AcyclicInputs
INVARIANT LayoutIsRight
PROPERTY Termination
