CONSTANTS
  Null = Null
  Handle <- MCHandle
  Pcre = {1, 2, 3, 4, 5, 6, 7, 8, 9, 10}
  RefMax = 12
  Char <- MCChar
  Pattern <- MCPattern
  PatternLimit = 3
  File <- MCFile
  Flag = {"i", "s", "h", "u"}
  MaxArgs = 2
  MaxRules = 4
  MaxLine = 6
SPECIFICATION MCSpec
\* main ends
CHECK_DEADLOCK FALSE
INVARIANTS TypeOK Counted SplitsAsDocumented FilterMeansFiles ModeFromFlags
