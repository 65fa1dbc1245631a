SPECIFICATION Spec
CONSTANT Gap = 1000
CONSTANT Base = 4194304
CONSTANT Delta = 1048576
CONSTANT Names <- AllNames
CONSTANT OutputName <- NameOf
CONSTANT Length <- LengthOf
CONSTANT Undecorated <- UndecoratedNames
CONSTANT Scenarios <- AllScenarios
INVARIANT ReferencesArrive
INVARIANT LoaderBinds
INVARIANT Loadable
