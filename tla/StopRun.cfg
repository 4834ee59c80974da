\* A GPIO pin and a device raise interrupts, and the host stops the emulator.
CONSTANTS
  Modulus = 2
  NumTimers = 1
  GPIOInt = gpio
  DeviceInts = {tablet}
  Devices = {d1}
  CtrlValues <- AllOnly
  FIQValues <- NoMasks
  MatchValues <- FewTicks
  MaxStops = 1
SPECIFICATION Spec
INVARIANTS
  TypeOK
  LinesAgree
  NoSleepOnInterrupt
