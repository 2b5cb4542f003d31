SPECIFICATION Spec
CONSTANTS
  Dirs = {"d", "e"}
  Names <- MCNames
  Inodes <- MCInodes
  Contents <- OpsContents
  Commands <- FileCommands
  ContainerName <- MCContainerName
  ScratchName <- MCScratch
  Home <- A
  StartKind = "file"
  Stray <- StrayElsewhere
  LastRun = 2
  MaxLayers = 2
  MaxEdits = 1
  MaxCrashes = 1
  MaxStrangers = 0
  Concurrent = FALSE
INVARIANTS
  TypeOK
  DataSurvives
  NoLeftovers
  NamesShowWholeFiles
PROPERTIES
  InputGoesForItsReplacement
  KeptInputUntouched
  RunsEnd
  ImplementsReplacement
CHECK_DEADLOCK FALSE
