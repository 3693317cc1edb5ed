CONSTANTS
  wan = wan lan = lan
  None = None
  Req = {q1, q2}
  Iface = {"eth0", "eth1"}
  Address = {wan, lan}
  Wan = wan
  Base <- MCBase
  Uplink = "eth0"
  Routed = {"eth0"}
  Wanted <- MCWanted
  MaxRequests = 3
  MaxFaults = 1
  MaxReboots = 1
SYMMETRY Symmetric
SPECIFICATION Spec
INVARIANTS WanKept UnforcedSpares Applied 
