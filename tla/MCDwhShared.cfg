CONSTANTS
  Workers = {w1, w2, w3}
  maxMem = 6
  maxIOSize = 3
  PageSize = 4
  MinSize = 2
  TableBytes = 1
  WordSize = 64
  Nodes = {n1, n2, n3, n4}
  NULL = NULL
  Threads = {t1, t2}
  fileSize = 4
  Lengths = {1, 2}
  LockMayFail = TRUE
  UnlockMayFail = TRUE
SPECIFICATION Spec
INVARIANTS
  MemoryTypeOK ChargeExact GrantedWithinLimit
  QueueTypeOK WellLinked PendingExact DoneNodeFound
  AioTypeOK RegionsExclusive NothingLeftBehind LateEndCounts LocksDropped
PROPERTIES FifoSpec AllThreadsEnd
