SPECIFICATION Spec
CONSTANTS
  None = None
  c1 = c1
  c2 = c2
  c3 = c3
  t1 = t1
  t2 = t2
  MaxHandles = 3
  MaxEntries = 2
  TtlMs = 1
  Calls = {c1, c2, c3}
  ActionsOf <- MCActionsOf
  Tasks = {t1, t2}
  Contexts = {x1, x2}
  Targets <- MCTargets
  Configured <- MCTargets
  DefaultTarget <- MCDefaultTarget
  DefaultCardPath = "default"
  AllowOverride = FALSE
  MayRename = TRUE
  MaxEvents = 1
  MaxInFlight = 2
  MaxUpsets = 1
SYMMETRY MCSymmetry
\* every call is made once: the bounded system stops
CHECK_DEADLOCK FALSE
INVARIANTS
  TypeOK
  ContinuationsHonoured
PROPERTIES
  RoutedAsContinued
  AnsweredHandleUsable
  HandleTargetKept
  LiveHandlesKept
  ListedTargetsKnown
