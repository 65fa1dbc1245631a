CONSTANT PageSize = 16
CONSTANT EhdrSize = 4
CONSTANT PhdrSize = 2
CONSTANT HeaderAlign = 4
CONSTANT ShdrSize = 2
CONSTANT SymSize = 2
CONSTANT DynSize = 1
CONSTANT RelSize = 2
CONSTANT HashWord = 1
CONSTANT InterpSize = 3
CONSTANT Links <- SmallLinks
CONSTANT HashOf <- Hashes
CONSTANT HashBuckets <- Fills
SPECIFICATION Spec
INVARIANT ImageIsLoadable
INVARIANT SymbolTablesAgree
INVARIANT SectionsStayWhole
INVARIANT RelocationsArrive
CHECK_DEADLOCK FALSE
