CONSTANTS
  Base = 2
  Values = {0, 1, 2, 3, 4, 5, 6, 7, 8, 9}
SPECIFICATION ScaleSpec
INVARIANT DecimalInRange
CHECK_DEADLOCK FALSE
