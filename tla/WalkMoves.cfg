SPECIFICATION FairSpec
CONSTANTS
  Folders = {1, 2, 3}
  Files = {4}
  Root = 0
  ListOrder <- MCListOrder
  BadNames = {2}
  PageSize = 2
  DepthCap = 5
  MaxChanges = 2
INVARIANTS
  TypeOK
  SnapshotWhenQuiet
  PathsFollowParentsUnlessCyclic
PROPERTIES
  WalkEnds
