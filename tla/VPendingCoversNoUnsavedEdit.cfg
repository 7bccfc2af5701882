SPECIFICATION Spec
CONSTANTS
  Engines = {e1}
  Paths = {p1}
  Links = {l1, l2}
  NoLink = NoLink
  ConflictCopy = p1
  Conflicted <- MCConflicted
  Strategies = {"local"}
  CwdIsBase = TRUE
  MaxClock = 3
PROPERTIES
  PendingCoversNoUnsavedEdit
CHECK_DEADLOCK FALSE
