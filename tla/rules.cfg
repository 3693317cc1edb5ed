CONSTANTS
  host = "host" lo = "127.0.0.1" peer = "peer" container = "container"
  host6 = "host6" peer6 = "peer6"
  V4 = {"host", "127.0.0.1", "peer", "container"}
  V6 = {"host6", "peer6"}
  Host = {"host", "host6"}
  Loopback = "127.0.0.1"
  Container = "container"
  Port = {7, 22, 25, 5432, 8080, 8081}
  Published = {7, 8080}
  Iface = {"lo", "docker0", "br-1", "wan", "enp0s31f6"}
  Bridges = {"br-1"}
  DefaultWan = "enp0s31f6"
  Payload <- MCPayload
  None = None
  Sources = {"peer"}
  MaxApplies = 1
SPECIFICATION Spec
INVARIANTS ManagementOpen BlockedStayOut InternalPortsClosed OnlyWritten SimulatorSeesDrops
