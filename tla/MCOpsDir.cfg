SPECIFICATION Spec
CONSTANTS
  Dirs = {"d", "e"}
  Names <- MCNames
  Inodes <- MCInodes
  Contents <- OpsContents
  Commands <- DirCommands
  ContainerName <- MCContainerName
  ScratchName <- MCScratch
  Home <- A
  StartKind = "dir"
  Stray <- NoStray
  LastRun = 2
  MaxLayers = 2
  MaxEdits = 1
  MaxCrashes = 1
  MaxStrangers = 1
  Concurrent = FALSE
INVARIANTS
  DataSurvives
PROPERTIES
  InputGoesForItsReplacement
  NothingOverwritten
CHECK_DEADLOCK FALSE
