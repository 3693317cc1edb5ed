CONSTANTS
  Window = 3
  Fresh = 2
  Off = Off
  Timely = FALSE
  Cycle = 1
  MaxSnaps = 2
  MaxLosses = 1
  Faulty = {"touch", "stop", "arm", "capture v4", "capture v6",
            "persist", "table", "files", "v4", "v6", "services"}
  MaxFailures = 1
  MaxCrashes = 1
SPECIFICATION TrapSpec
INVARIANTS SlidesOnce RestoresOneSnapshot
PROPERTIES CommitFreezes IsDeadManSwitch
