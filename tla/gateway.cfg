CONSTANTS
  Req = {"q1", "q2"}
  FirewallRule = {"a", "b", "c"}
  NATRule = {"n"}
  RoutingRule = {"p"}
  Old = {"a", "b"}
  None = None
  MaxRequests = 2
  MaxFaults = 1
SPECIFICATION FairSpec
INVARIANTS TypeOK PushesCurrentRows
PROPERTIES KeepsDesiredState Answers
