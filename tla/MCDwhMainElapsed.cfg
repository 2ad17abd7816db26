CONSTANTS
  maxruntime = 2
  SetupMayFail = FALSE
  ClockMayFail = FALSE
  ClockMaySlip = FALSE
  StartTime = 2
  MaxTime = 5
SPECIFICATION MainSpec
PROPERTY ElapsedReported
