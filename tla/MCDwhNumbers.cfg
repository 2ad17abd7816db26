CONSTANTS
  maxruntime = 3
  SetupMayFail = TRUE
  ClockMayFail = TRUE
  ClockMaySlip = TRUE
  StartTime = 2
  MaxTime = 6
  Word = 4096
  RandMax = 31
  MaxInt = 31
  DefaultFile = 96
  Chunk = 10
  PageSize = 4
  MinSize = 2
  Scale = 4
  MemNumbers = {0, 5, 1024}
  FileNumbers = {0, 9, 10, 40}
  IONumbers = {1, 3, 8}
  Suffixes = {0, 1}
  Base = 2
  Values <- AroundPowers
  Nano = 3
  Seconds = {0, 1, 2}
SPECIFICATION Spec
INVARIANTS TypeOK CountKnown SetupUndone TransferInBounds FiguresScaled ElapsedExact
PROPERTY RunEnds
