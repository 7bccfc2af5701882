SPECIFICATION FairSpec
CONSTANTS
  Procs = {1, 2}
  Guis = {g1}
  None = 0
  Capacity = 1
  Attempts = 2
  MaxChecks = 1
INVARIANTS
  TypeOK
  OneLoop
PROPERTIES
  DaemonsSpareSockets
  ChangesAreSeen
  WatcherGetsOn
  GuisDecide
