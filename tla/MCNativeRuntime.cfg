SPECIFICATION Spec
CONSTANTS
  Operations = {o1, o2}
  MaxCalls = 2
  SoftRounds = 1
  HardRounds = 2
  MaxSent = 3
  MaxFaults = 2
  Biased = FALSE
  None = None
CHECK_DEADLOCK FALSE
SYMMETRY Symmetry
INVARIANTS
  OneRun
  JournalIsTruthful
  PendingIsOwned
