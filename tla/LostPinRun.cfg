\* A card raises its pin while a host thread raises that of the platform.
CONSTANTS
  Hosts = {h1}
  PlainClasses = {"keyb"}
  BufferClasses = {"pkgi"}
  NoBuffer = NoBuffer
  Garbage = Garbage
  OtherPins = {"card"}
  EventQueueSize = 1
  EventQueueIncrement = 1
  BufferQueueSize = 1
  BufferQueueIncrement = 1
  IDs = 4
  MaxSends = 2
SPECIFICATION CardSpec
INVARIANTS
  NoForgottenEvent
CHECK_DEADLOCK FALSE
