CONSTANTS
  iothreads = 1
  minthreads = 3
  maxthreads = 3
  short_threads = TRUE
  CreateMayFail = FALSE
  SetupMayFail = FALSE
  TableMayFail = FALSE
  MaxStarts = 3
SPECIFICATION FairSpec
PROPERTY EndsAtTimeout
CHECK_DEADLOCK FALSE
