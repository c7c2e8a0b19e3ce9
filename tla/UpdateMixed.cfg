CONSTANTS
  p1 = p1
  p2 = p2
  p3 = p3
  i1 = i1
  Proc = {p1, p2, p3}
  TmpName = {t1, t2}
  Inode = {i1, i2, i3, i4}
  Dest = Dest
  Dht = Dht
  None = None
  Full = 2
  Lockers = {p1, p3}
  DiskFull = TRUE
  Url <- MCUrl
  Filter <- MCFilter
  Extra <- MCExtra
  Initial <- MCInitialOne
  Source <- MCSource
  Sources <- MCSources
  UrlsIn <- MCUrlsIn
  Invalid <- MCInvalid
SPECIFICATION MixedSpec
\* all runs have ended
CHECK_DEADLOCK FALSE
INVARIANT TempOwned
PROPERTIES MappedStable EveryRunEnds
