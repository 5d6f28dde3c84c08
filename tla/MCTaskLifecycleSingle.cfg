SPECIFICATION Spec
CONSTANTS
  None = None
  s1 = s1
  s2 = s1
  Sends = {s1}
  Cancels = {c1}
  Watchers = {w1}
  Replies = {q1}
  MessageOf <- OwnMessage
  Targets <- NewTasks
  Modes = {"blocking", "non_blocking"}
  AgentStyle = "hybrid"
  MayPause = TRUE
  MayClose = TRUE
  MayCrash = TRUE
  Contents = {"shown", "refused", "blank"}
  MaxEvents = 2
\* requests are finite in number: the bounded server stops
CHECK_DEADLOCK FALSE
INVARIANTS
  TypeOK
  LiveIsRegistered
  CommitsKnownTask
  DirectAnswerLeavesNoTask
  BlockingAnswersSettled
