SPECIFICATION Spec
CONSTANTS
  Engines = {e1, e2}
  Links = {1, 2, 3, 4, 5}
  Root = 0
  Paths <- MCPaths
  Names = {1, 2}
  None = none
  Tree <- MCTree
  MaxChanges = 2
INVARIANTS
  TypeOK
  EveryNameAsked
PROPERTIES
  DirsArrive
