SPECIFICATION Spec
CONSTANTS
  Tasks = {t1, t2, t3}
  NoTask = NoTask
  Workers = {w1, w2, w3}
  First = w1
  Owner = owner
INVARIANT SyncMeansDone
INVARIANT NothingIsLost
PROPERTY Implements
PROPERTY Termination
