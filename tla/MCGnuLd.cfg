CONSTANT Links <- MCLinks
SPECIFICATION Spec
INVARIANT ScriptIsRead
INVARIANT ScriptIsFollowed
INVARIANT GroupsHoldTheirFiles
CHECK_DEADLOCK FALSE
