CONSTANTS
  iothreads = 1
  minthreads = 3
  maxthreads = 3
  short_threads = TRUE
  CreateMayFail = TRUE
  SetupMayFail = TRUE
  TableMayFail = TRUE
  MaxStarts = 5
SPECIFICATION FairSpec
INVARIANTS TypeOK SlotsDistinct NoWrap
PROPERTY RunEnds
CHECK_DEADLOCK FALSE
