SPECIFICATION FairLoop
CONSTANT UnitsPerPage = 2
INVARIANTS
  LoopTypeOK
  InterruptIsSeen
  NoPageAfterBreak
PROPERTIES
  StopEnds
CHECK_DEADLOCK FALSE
