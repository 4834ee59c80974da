\* Two timers, written, enabled and cleared while the counter wraps.
CONSTANTS
  Modulus = 3
  NumTimers = 2
  GPIOInt = gpio
  DeviceInts = {}
  Devices = {}
  CtrlValues <- TimerMasks
  FIQValues <- NoMasks
  MatchValues <- AllTicks
  MaxStops = 0
SPECIFICATION Spec
INVARIANTS
  NoOversleep
  HandshakesWaitForThread
PROPERTIES
  TimeIsContinuous
  GetTimerIsSteady
