SPECIFICATION Spec
CONSTANTS
  None = None
  s1 = s1
  s2 = s2
  Sends = {s1, s2}
  Cancels = {c1}
  Watchers = {}
  Replies = {}
  MessageOf <- OwnMessage
  Targets <- FollowUps
  Modes = {"blocking"}
  AgentStyle = "hybrid"
  MayPause = TRUE
  MayClose = FALSE
  MayCrash = FALSE
  Contents = {"shown"}
  MaxEvents = 1
\* requests are finite in number: the bounded server stops
CHECK_DEADLOCK FALSE
INVARIANTS
  RegisteredIsLive
  StatusesInOrder
  FinalMatchesAbort
PROPERTIES
  EndedTaskStaysEnded
