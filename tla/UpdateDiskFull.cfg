CONSTANTS
  p1 = p1
  p2 = p2
  p3 = p3
  i1 = i1
  Proc = {p1, p2}
  TmpName = {t1, t2}
  Inode = {i1, i2, i3, i4}
  Dest = Dest
  Dht = Dht
  None = None
  Full = 2
  Lockers = {p1, p2}
  DiskFull = TRUE
  Url <- MCUrl
  Filter <- MCFilter
  Extra <- MCExtra
  Initial <- MCInitial
  Source <- MCSource
  Sources <- MCSources
  UrlsIn <- MCUrlsIn
  Invalid <- MCInvalid
SPECIFICATION Spec
\* all runs have ended
CHECK_DEADLOCK FALSE
INVARIANT AlwaysComplete
