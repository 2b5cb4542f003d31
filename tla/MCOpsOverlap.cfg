SPECIFICATION Spec
CONSTANTS
  Dirs = {"d", "e"}
  Names <- MCNames
  Inodes <- MCInodes
  Contents <- OpsContents
  Commands <- PlainEncrypt
  ContainerName <- MCContainerName
  ScratchName <- MCScratch
  Home <- A
  StartKind = "file"
  Stray <- NoStray
  LastRun = 2
  MaxLayers = 2
  MaxEdits = 1
  MaxCrashes = 0
  MaxStrangers = 0
  Concurrent = TRUE
INVARIANTS
  DataSurvives
CHECK_DEADLOCK FALSE
