SPECIFICATION HostSpec
CONSTANTS
  None = None
  p1 = p1
  p2 = p2
  a1 = a1
  a2 = a2
  b1 = b1
  Processes = {p1, p2}
  Stores = {a1, a2, b1}
  ProcessOf <- MCProcessOf
  MayDie = {p1}
  MaySurvive = {p1, p2}
  MayOutlive = FALSE
  MayOverlap = TRUE
\* the account is started a bounded number of times: the system stops
CHECK_DEADLOCK FALSE
INVARIANTS
  HostTypeOK
  SingleWriter
  HolderHasFile
  CountsStores
  ActiveServerOpen
PROPERTIES
  AbortedStartsClose
  StartsEnd
