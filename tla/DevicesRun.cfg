CONSTANTS
  kCacheSize = 2
  Keys <- SmallKeys
  VPages <- SmallPages
  HashFunction <- SmallHash
  Bases = {"b1", "b2"}
  Tables = {"coarse", "fine"}
  Domains = {"d1", "d2"}
  Controls <- SmallControls
  Memories <- SmallMemories
  SavedStates <- SmallStates
  Capacity = 3
  Word = 64
  Amounts <- SmallAmounts
  MaxProduced = 10
  MaxBytes = 2
  MaxPipe = 3
  MaxConnects = 2
SPECIFICATION DevicesSpec
INVARIANTS
  TypeOK
  CachedAsWalked
  PermissionsFollowTables
  UnreadBytesAreKept
  AckedSegmentsArrive
  FinIsAcknowledged
PROPERTIES
  ClosedByBoth
CHECK_DEADLOCK FALSE
