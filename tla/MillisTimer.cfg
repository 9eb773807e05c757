CONSTANTS
  Clock = 16
  Limit = 3
  MaxTick = 2
SPECIFICATION Spec
INVARIANTS TypeOK FiresInTime
PROPERTIES NeverEarly Implements
