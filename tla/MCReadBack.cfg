SPECIFICATION Spec
CONSTANTS
  Paths <- MCPaths
  Root = "t"
  Parent <- MCParent
  Below <- MCBelow
  Contents = {"1", "2"}
  Targets = {"l"}
  StartTrees <- MCStartTrees
  Shred = {TRUE, FALSE}
  MaxEdits = 2
INVARIANTS
  TypeOK
  RemovedIsSaved
  UndisturbedPasses
  OutsideIntact
PROPERTIES
  RunEnds
CHECK_DEADLOCK FALSE
