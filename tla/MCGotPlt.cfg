CONSTANT KindOf <- TheKinds
CONSTANT Thumb <- TheThumb
CONSTANT Pic <- ThePic
CONSTANT Order <- TheOrder
CONSTANT Inputs <- TheInputs
SPECIFICATION Spec
INVARIANT StubsBind
INVARIANT TablesAreLaidOut
INVARIANT PointersAgree
INVARIANT FlagsCover
CHECK_DEADLOCK FALSE
