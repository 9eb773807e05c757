CONSTANTS
  ResetTime = 10
  NegTicks = 6
  LateChange = TRUE
  MaxErrors = 2
  ByteRange = 256
  MaxFaults = 1
SPECIFICATION Spec
INVARIANTS TypeOK
PROPERTIES ClockRests LinkFound
