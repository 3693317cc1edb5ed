CONSTANTS
  Req = {"q1", "q2"}
  Server = {"s1", "s2"}
  Zone = {"z1", "z2"}
  OldServer = {"s1"}
  OldZone = {"z1"}
  None = None
  MaxRequests = 3
  MaxFaults = 1
SPECIFICATION Spec
INVARIANTS AppliesAll KeysHeal
