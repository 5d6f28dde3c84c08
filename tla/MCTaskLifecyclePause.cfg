SPECIFICATION FairSpec
CONSTANTS
  None = None
  s1 = s1
  s2 = s1
  Sends = {s1}
  Cancels = {c1}
  Watchers = {}
  Replies = {}
  MessageOf <- OwnMessage
  Targets <- NewTasks
  Modes = {"blocking", "non_blocking"}
  AgentStyle = "hybrid"
  MayPause = TRUE
  MayClose = FALSE
  MayCrash = FALSE
  Contents = {"shown"}
  MaxEvents = 1
\* requests are finite in number: the bounded server stops
CHECK_DEADLOCK FALSE
PROPERTIES
  CancelsAnswer
