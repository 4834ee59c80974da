\* Two host threads that send events through a queue that grows.
CONSTANTS
  Hosts = {h1, h2}
  PlainClasses = {"keyb"}
  BufferClasses = {"pkgi"}
  NoBuffer = NoBuffer
  Garbage = Garbage
  OtherPins = {}
  EventQueueSize = 1
  EventQueueIncrement = 1
  BufferQueueSize = 1
  BufferQueueIncrement = 1
  IDs = 4
  MaxSends = 3
SPECIFICATION FairSpec
INVARIANTS
  TypeOK
  NoForgottenEvent
  LockIsBalanced
  BuffersFollowEvents
PROPERTIES
  ImplementsQueue
  EventsArrive
CHECK_DEADLOCK FALSE
