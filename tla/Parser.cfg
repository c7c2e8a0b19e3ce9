CONSTANTS
  MaxLen = 6
  Str <- MCStr
  Rank <- MCRank
  Utf8 <- MCUtf8
  Number <- MCNumber
  Int64 <- MCInt64
  Negative <- MCNegative
  Pieces <- MCPieces
  MinInt <- MCMinInt
  MaxInt = 127
  LengthMax = 11
  MaxBytes = 5
SPECIFICATION ParserSpec
\* one call
CHECK_DEADLOCK FALSE
INVARIANTS SkipsExactlyOneValue InfoIsOneValue AcceptsValidInfo TypeOK ReadsInside NoOverflow MovesOnSuccess ReadsExactly AcceptsText AcceptsScalars
