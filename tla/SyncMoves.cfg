SPECIFICATION Spec
CONSTANTS
  Engines = {e1}
  Paths = {p1, p2, p3}
  Links = {l1}
  NoLink = NoLink
  ConflictCopy = p3
  Conflicted <- MCConflicted
  Strategies = {"local", "rename_local"}
  CwdIsBase = TRUE
  MaxClock = 2
INVARIANTS
  TypeOK
  NoMaskedEdit
  OnePathPerLink
CHECK_DEADLOCK FALSE
