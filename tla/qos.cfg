CONSTANTS
  Req = {"q1", "q2"}
  Policy = {1, 2}
  Interface = {"eth0"}
  Htb = {"htb"}
  Simple = {"cake"}
  Lists = {"voip", "bulk", "bad"}
  Refused <- Malformed
  Leaves = 1
  Filters = 1
  None = None
  MaxRequests = 3
  MaxFaults = 1
SPECIFICATION Spec
INVARIANTS TypeOK Heals
