SPECIFICATION Spec
CONSTANTS
  Names <- AllNames
  Contents = {"c1"}
  NoName = NoName
  NoAtom = NoAtom
  NoFile = NoFile
  Atoms <- AllAtoms
  Files = {"main", "o1", "o2", "lib1", "lib2", "so", "m1", "m2", "m3", "m4"}
  SharedLibraries = {"so"}
  Inputs <- AllInputs
INVARIANT NoNameIsForgotten
INVARIANT ResultIsWhole
INVARIANT StripIsExact
PROPERTY SearchesAreExhaustive
PROPERTY TableSpec
PROPERTY Termination
