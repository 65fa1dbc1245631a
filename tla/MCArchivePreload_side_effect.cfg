SPECIFICATION Spec
CONSTANTS
  name1 = name1
  name2 = name2
  member1 = member1
  member2 = member2
  Names <- AllNames
  Members <- AllMembers
  NoMember = NoMember
  Contents <- AllContents
  Workers = {w1, w2}
  Resolver = resolver
  NoThread = NoThread
  Parse = Parse
  MaxCalls = 4
INVARIANT NoSideEffect
