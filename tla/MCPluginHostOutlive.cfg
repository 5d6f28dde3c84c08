SPECIFICATION HostSpec
CONSTANTS
  None = None
  MayOverlap = FALSE
  p1 = p1
  p2 = p2
  a1 = a1
  a2 = a1
  b1 = b1
  Processes = {p1, p2}
  Stores = {a1, b1}
  ProcessOf <- MCProcessOf
  MayDie = {}
  MaySurvive = {}
  MayOutlive = TRUE
\* the account is started a bounded number of times: the system stops
CHECK_DEADLOCK FALSE
INVARIANT SingleWriter
