SPECIFICATION Spec
CONSTANTS
  Dirs = {"d", "e"}
  Names <- MCNames
  Inodes <- MCInodes
  Contents <- OpsContents
  Commands <- PlainPair
  ContainerName <- MCContainerName
  ScratchName <- MCScratch
  Home <- A
  StartKind = "dir"
  Stray <- NoStray
  LastRun = 2
  MaxLayers = 2
  MaxEdits = 0
  MaxCrashes = 1
  MaxStrangers = 0
  Concurrent = FALSE
INVARIANTS
  DataSurvives
CHECK_DEADLOCK FALSE
