SPECIFICATION FairSpec
CONSTANTS
  Root = root
  Folders = {root, docs}
  Files = {}
  Paths = {path}
  None = none
  MaxCalls = 2
  MaxPresses = 4
  MaxOthers = 1
INVARIANTS
  TypeOK
  BusyHasCommand
  FilesNeedKeyring
PROPERTIES
  PauseShownInTheEnd
CHECK_DEADLOCK FALSE
