SPECIFICATION FairSpec
CONSTANTS
  None = None
  s1 = s1
  s2 = s1
  Sends = {s1}
  Cancels = {c1}
  Watchers = {w1}
  Replies = {}
  MessageOf <- OwnMessage
  Targets <- NewTasks
  Modes = {"blocking", "non_blocking"}
  AgentStyle = "hybrid"
  MayPause = FALSE
  MayClose = FALSE
  MayCrash = TRUE
  Contents = {"shown", "refused", "blank"}
  MaxEvents = 2
\* requests are finite in number: the bounded server stops
CHECK_DEADLOCK FALSE
PROPERTIES
  SendsAnswer
  CancelsAnswer
  WatchersEnd
