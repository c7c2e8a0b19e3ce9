CONSTANTS
  Dht = Dht
  NoUrl = NoUrl
  MaxExtra = 2
  MaxFiles = 3
  Raw <- MCRaw
  Url <- MCUrl
  Domain <- MCDomain
  DomainOf <- MCDomainOf
  Clean <- MCClean
  FilterUrl <- MCFilterUrl
  ExtraLists <- MCExtraLists
  FileLists <- MCFileLists
SPECIFICATION Spec
\* the driver stops when the result is built
CHECK_DEADLOCK FALSE
INVARIANT AlwaysAdded
