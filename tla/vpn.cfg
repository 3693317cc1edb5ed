CONSTANTS
  Req = {q1, q2}
  Server = {s1, s2}
  Child = {c}
  Config = {good, other, bad}
  Good = {good, other}
  Malformed = {malformed}
  None = None
  MaxRequests = 3
  MaxFaults = 1
SYMMETRY Symmetry
SPECIFICATION Spec
INVARIANTS FailedApplyRestores StatusTrue KeysMatch
