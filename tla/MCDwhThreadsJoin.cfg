CONSTANTS
  iothreads = 1
  minthreads = 2
  maxthreads = 3
  short_threads = TRUE
  CreateMayFail = FALSE
  SetupMayFail = FALSE
  TableMayFail = FALSE
  MaxStarts = 3
SPECIFICATION Spec
INVARIANT AllThreadsFinished
