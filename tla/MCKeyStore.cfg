SPECIFICATION MCSpec
CONSTANTS
  Names = {"alice", "bob"}
  Gens <- MCGens
  X25519 <- MCGens
  Protected <- NoGens
  MaxCrashes = 1
  MaxFiles = 1
INVARIANTS
  PairsMatch
  ContainersOpen
  SuccessMeansStored
PROPERTIES
  PrivateKeysKept
  KeygensEnd
CHECK_DEADLOCK FALSE
