\* Every thread goes on; interrupts are enabled and moved between the lines.
CONSTANTS
  Modulus = 2
  NumTimers = 1
  GPIOInt = gpio
  DeviceInts = {}
  Devices = {}
  CtrlValues <- TimerMasks
  FIQValues <- FIQMasks
  MatchValues <- FewTicks
  MaxStops = 0
SPECIFICATION FairSpec
PROPERTIES
  HandshakesEnd
  InterruptEndsWait
