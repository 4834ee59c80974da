CONSTANTS
  Modulus = 5
  NumTimers = 3
  VAddrs = {"v1", "v2"}
  ROMWords = {"rom"}
  RAMWords = {"ram"}
  Mappings <- SmallMappings
  Fault = "fault"
  Codes = {"c1", "c2"}
  Snapshots <- OneSnapshot
SPECIFICATION BothSpec
VIEW View
INVARIANTS
  FiresExactly
  NextIsNearest
  BreakpointsAreTransparent
  StopFindsTheLoop
