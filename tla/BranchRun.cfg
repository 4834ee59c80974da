CONSTANTS
  kCacheSize = 3
  Keys = {0, 1, 2, 3, 4}
  HashFunction <- SmallHash
  RomPages = {0, 1, 2}
  RamPages = {3}
  Vectors = 0
  Spaces <- SmallSpaces
  Contents = {c1, c2}
  Fault = Fault
SYMMETRY Symmetric
SPECIFICATION Spec
INVARIANT BranchesStayInPage
