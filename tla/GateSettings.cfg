SPECIFICATION Spec
CONSTANTS
  DayLength = 4
  WeekLength = 3
  Clients = {c1, c2}
  Loop = loop
  Schedules <- MCSchedules
  Probes <- MCProbes
  MaxFaults = 1
SYMMETRY MCSymmetry
INVARIANTS
  TypeOK
  CopiesAgree
  SyncingMeansPass
  WaitLongEnough
PROPERTIES
  PauseHolds
  SettingsRefine
