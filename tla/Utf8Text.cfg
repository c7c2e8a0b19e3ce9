CONSTANTS
  MinInt <- MCMinInt
  MaxInt = 127
  LengthMax = 11
  MaxBytes = 5
SPECIFICATION BothSpec
\* one call
CHECK_DEADLOCK FALSE
INVARIANT AcceptsOnlyText
