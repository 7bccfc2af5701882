SPECIFICATION Spec
CONSTANTS
  Engines = {e1, e2}
  Paths = {p1}
  Links = {l1}
  NoLink = NoLink
  ConflictCopy = p1
  Conflicted <- MCConflicted
  Strategies = {"local"}
  CwdIsBase = TRUE
  MaxClock = 3
SYMMETRY Symmetry
INVARIANTS
  NoMaskedEdit
PROPERTIES
  OnlyOtherPassConflicts
  PassNearsEnd
CHECK_DEADLOCK FALSE
