SPECIFICATION Spec
CONSTANTS
  None = None
  m1 = m1
  m2 = m2
  a1 = a1
  p1 = p1
  b1 = b1
  Messages = {m1, m2}
  ArtifactIds = {a1}
  Parts = {p1}
  Bindings = {b1}
  Tasks = {t1}
  Snapshots <- MCSnapshots
  Updates <- CompletedOnly
  Stored <- MCStored
  Kind = "json-file"
  Calls = {"load", "loadBinding", "subscribe", "event", "snapshot", "persist", "writeBinding"}
  MaxOps = 3
  MaxSubs = 1
  MaxCrashes = 1
\* the number of calls is bounded: the bounded store stops
CHECK_DEADLOCK FALSE
INVARIANTS
  TypeOK
  FifoPerTask
  AcknowledgedEventsStored
  ReadsSeeEarlierCommits
  BindingKept
PROPERTY ImplementsCommittedLog
