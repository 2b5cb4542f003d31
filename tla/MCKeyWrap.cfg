SPECIFICATION Spec
CONSTANTS
  None = None
  LowOrder = LowOrder
  Other = Other
  Pairs <- MCPairs
  Algo <- MCAlgo
  Protected = {"radix2"}
  Passphrases = {"secret", "none"}
  PassOf <- MCPassOf
  Containers = {"c1", "c2"}
  MaxDamage = 2
INVARIANTS
  OnlyWrappedUnwraps
  OpensIfPubWhole
  LoadedKeyUnwraps
CHECK_DEADLOCK FALSE
