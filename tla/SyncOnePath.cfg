SPECIFICATION FairSpec
CONSTANTS
  Engines = {e1}
  Paths = {p1}
  Links = {l1, l2}
  NoLink = NoLink
  ConflictCopy = p1
  Conflicted <- MCConflicted
  Strategies = {"local"}
  CwdIsBase = TRUE
  MaxClock = 3
INVARIANTS
  NoMaskedEdit
  NoUploadInConflict
  RowMatchesLastRevision
PROPERTIES
  PassEnds
CHECK_DEADLOCK FALSE
