SPECIFICATION Spec
CONSTANTS
  Containers = {"c", "d"}
  Passwords = {"p", "q"}
  Keys <- MCKeys
  Algo <- MCAlgo
  Garbled = Garbled
  MaxAlterations = 1
INVARIANTS
  OnlyWrittenOpens
  WrittenOpens
  VerifiedOpens
CHECK_DEADLOCK FALSE
