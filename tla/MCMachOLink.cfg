SPECIFICATION Spec
CONSTANT Half = 64
CONSTANT Page = 64
CONSTANT PageSize = 128
CONSTANT BaseAddress = 0
CONSTANT PageZeroSize = 128
CONSTANT HeaderSize = 40
CONSTANT UlebLimit = 16
CONSTANT Scenarios <- Objects
INVARIANT RoundTrip
INVARIANT UsesReachTheirAtoms
INVARIANT ImageLoadsAnywhere
CHECK_DEADLOCK FALSE
