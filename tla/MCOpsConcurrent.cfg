SPECIFICATION Spec
CONSTANTS
  Dirs = {"d", "e"}
  Names <- MCNames
  Inodes <- MCInodes
  Contents <- OpsContents
  Commands <- OverlappingCommands
  ContainerName <- MCContainerName
  ScratchName <- MCScratch
  Home <- A
  StartKind = "file"
  Stray <- NoStray
  LastRun = 2
  MaxLayers = 2
  MaxEdits = 0
  MaxCrashes = 1
  MaxStrangers = 0
  Concurrent = TRUE
PROPERTIES
  ImplementsReplacement
CHECK_DEADLOCK FALSE
