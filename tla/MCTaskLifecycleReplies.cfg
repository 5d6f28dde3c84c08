SPECIFICATION Spec
CONSTANTS
  None = None
  s1 = s1
  s2 = s2
  Sends = {s1, s2}
  Cancels = {}
  Watchers = {}
  Replies = {q1}
  MessageOf <- OwnMessage
  Targets <- FollowUps
  Modes = {"blocking"}
  AgentStyle = "hybrid"
  MayPause = FALSE
  MayClose = FALSE
  MayCrash = FALSE
  Contents = {"shown"}
  MaxEvents = 1
\* requests are finite in number: the bounded server stops
CHECK_DEADLOCK FALSE
INVARIANTS
  QueuedRepliesKept
