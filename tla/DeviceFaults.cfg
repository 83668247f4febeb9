CONSTANTS
  t1 = t1
  t2 = t2
  Threads = {t1, t2}
  v1 = v1
  Values = {v1}
  None = None
  Cachings = {TRUE, FALSE}
  MaxItems = 2
  MaxCalls = 3
  Faults = {"http", "lost", "empty", "save", "restart"}
  MaxFaults = 2
SPECIFICATION Spec
SYMMETRY ThreadsAreAlike
CHECK_DEADLOCK FALSE
INVARIANTS
  TypeOK
  OneItemInTurn
  OldSnapshotsNeedCacheOrOverlap
  StatusFollowsState
  DetailsKept
PROPERTY AcceptedStaysAccepted
