SPECIFICATION Spec
CONSTANTS
  Operations = {o1}
  MaxCalls = 4
  SoftRounds = 2
  HardRounds = 3
  MaxSent = 3
  MaxFaults = 0
  Biased = TRUE
  None = None
CHECK_DEADLOCK FALSE
INVARIANT
  RoundsWithinCeiling
PROPERTIES
  InterruptTakesEffect
  DroppedControllerStops
