SPECIFICATION Spec
CONSTANTS
  Permute <- MCPermute
  Masters = {A, B}
  Nonces = {"n"}
  Pieces <- MCPieces
  Ads <- MCAds
  Msgs <- MCMsgs
  Garbled = Garbled
  MaxMessage = 3
  Alterations <- MCAlterations
  MaxJobs = 3
  MaxAlterations = 1
SYMMETRY MCSymmetry
INVARIANTS
  OnlySealedOpens
  SealedOpens
  OneMasterKey
  RadixSeesOnlySealed
CHECK_DEADLOCK FALSE
