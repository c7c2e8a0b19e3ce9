CONSTANTS
  NoUrl = NoUrl
  NoMatch = NoMatch
  Unset = Unset
  NoPort = NoPort
  MaxRules = 3
  MaxPieces = 4
  Letter <- MCLetter
  Hex <- MCHex
  Capital <- MCCapital
  Small <- MCSmall
  Other <- MCOther
  Raw <- MCRaw
  Url <- MCUrl
  Clean <- MCClean
  Whitelist <- MCWhitelist
  Blacklist <- MCBlacklist
  Rewrites <- MCRewrites
  RuleLists <- MCRuleLists
  Outcome <- MCOutcome
SPECIFICATION MCSpec
\* the function returns
CHECK_DEADLOCK FALSE
INVARIANTS TypeOK PromiseKept BlacklistHolds CleanedAsBuilt CleanedForGood RewrittenAsWritten
PROPERTY FilterReturns
