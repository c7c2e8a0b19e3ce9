CONSTANTS
  Str <- MCStr
  Rank <- MCRank
  Utf8 <- MCUtf8
  Number <- MCNumber
  Int64 <- MCInt64
  Negative <- MCNegative
  Pieces <- MCPieces
  Files <- MCFiles
  UrlLists <- MCUrlLists
  Dht = "dht"
  PlainKeys <- MCPlainKeys
  TextKeys <- MCTextKeys
  NumKeys <- MCNumKeys
  OtherKeys <- MCOtherKeys
  NewMetas <- MCNewMetas
  MaxWrites = 2
SPECIFICATION Spec
\* the last program ends
CHECK_DEADLOCK FALSE
INVARIANTS TypeOK AcceptsExactly LoadersAgree ReloadsSame RestKept
