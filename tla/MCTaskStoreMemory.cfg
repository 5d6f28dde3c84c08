SPECIFICATION FairSpec
CONSTANTS
  None = None
  m1 = m1
  m2 = m2
  a1 = a1
  p1 = p1
  b1 = b1
  Messages = {m1, m2}
  ArtifactIds = {a1}
  Parts = {p1}
  Bindings = {b1}
  Tasks = {t1}
  Snapshots <- MCSnapshots
  Updates <- OutputAndCompleted
  Stored = {}
  Kind = "memory"
  Calls = {"subscribe", "event", "snapshot"}
  MaxOps = 3
  MaxSubs = 2
  MaxCrashes = 0
\* the number of calls is bounded: the bounded store stops
CHECK_DEADLOCK FALSE
INVARIANTS
  JournalInOrder
  TailsFaithful
  TailsReachable
PROPERTIES
  CallsSettle
  TailsDeliver
