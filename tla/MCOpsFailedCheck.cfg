SPECIFICATION Spec
CONSTANTS
  Dirs = {"d", "e"}
  Names <- MCNames
  Inodes <- MCInodes
  Contents <- OpsContents
  Commands <- PlainEncrypt
  ContainerName <- MCContainerName
  ScratchName <- MCScratch
  Home <- A
  StartKind = "file"
  Stray <- NoStray
  LastRun = 1
  MaxLayers = 2
  MaxEdits = 1
  MaxCrashes = 1
  MaxStrangers = 0
  Concurrent = FALSE
PROPERTIES
  FailedCheckDiscards
CHECK_DEADLOCK FALSE
