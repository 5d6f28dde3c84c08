SPECIFICATION Spec
CONSTANTS
  None = None
  Space = Space
  x = x
  y = y
  Chars <- MCChars
  Streamed <- MCStreamed
  Replies <- MCReplies
  MaxEvents = 4
\* an execution ends: the bounded system stops
CHECK_DEADLOCK FALSE
INVARIANTS
  ArtifactsShowStages
  ViewsAgree
  OutcomeShowsReply
