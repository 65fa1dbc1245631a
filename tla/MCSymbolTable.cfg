SPECIFICATION MCSpec
CONSTANTS
  Names = {"x", "foo", "bar", "baz"}
  Contents = {"c1", "c2"}
  NoName = NoName
  NoAtom = NoAtom
  Atoms <- EveryAtom
  SharedLibraries = {8, 9}
  Pools <- AllPools
INVARIANT LosersLeadToTheWinner
INVARIANT StrongestWins
INVARIANT NoDuplicateDefinition
INVARIANT UndefinedIsStrictest
PROPERTY ResolvedForever
CHECK_DEADLOCK FALSE
