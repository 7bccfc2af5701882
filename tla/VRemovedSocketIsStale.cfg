SPECIFICATION Spec
CONSTANTS
  Procs = {1, 2}
  Guis = {g1}
  None = 0
  Capacity = 1
  Attempts = 2
  MaxChecks = 1
PROPERTY
  RemovedSocketIsStale
