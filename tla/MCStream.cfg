SPECIFICATION Spec
CONSTANTS
  Chunk = 2
  Overhead = 1
  CtrMod = 4
  MaxLen = 7
  MaxIo = 7
  MaxPieces = 4
  Damaged <- MCDamaged
INVARIANTS
  TypeOK
  NoncesDistinct
  DeliveredIsPrefix
  EofMeansComplete
  IntactReadable
PROPERTIES
  ReaderEnds
  ImplementsPipe
CHECK_DEADLOCK FALSE
