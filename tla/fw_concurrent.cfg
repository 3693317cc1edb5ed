CONSTANTS
  r1 = r1 r2 = r2 g1 = g1 g2 = g2 b1 = b1 d1 = d1 d2 = d2
  None = None
  Packaged = Packaged
  Req = {r1, r2}
  Good = {g1, g2}
  Bad = {b1}
  Dump = {d1}
  Keep = 1
  Serial = FALSE
  Preload <- Fresh
  MaxApplies = 3
  MaxRollbacks = 1
  MaxFaults = 1
  MaxCrashes = 1
SPECIFICATION Spec
SYMMETRY Symmetric
INVARIANTS LastWriterWins NewestKept RollbackTargetHolds SettlesOnOne
