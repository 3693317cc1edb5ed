CONSTANTS
  Window = 3
  Fresh = 2
  Off = Off
  Timely = FALSE
  Cycle = 1
  MaxSnaps = 2
  MaxLosses = 2
  Faulty = {}
  MaxFailures = 0
  MaxCrashes = 0
SPECIFICATION FairSpec
PROPERTY TrapFires
