CONSTANT Encodings <- TheEncodings
CONSTANT Outputs <- TheOutputs
SPECIFICATION Spec
INVARIANT CommittedAsIfAlone
INVARIANT TargetsAreReached
PROPERTY OwnBytesOnly
CHECK_DEADLOCK FALSE
