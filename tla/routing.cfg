CONSTANTS
  r1 = r1 r2 = r2 ours = ours theirs = theirs
  Nil = Nil
  Req = {r1, r2}
  Rule = {"rule", "alias"}
  Route = {"via"}
  Deviceless = {"via"}
  Table = {ours, theirs}
  TableOf <- MCTableOf
  Aliased = {theirs}
  Foreign = {"rule"}
  MaxArrivals = 3
  MaxFaults = 1
  MaxRestarts = 1
SPECIFICATION RoutingSpec
SYMMETRY Symmetric
INVARIANTS RoutingTypeOK CleanAnswer Quiet OwnErrors
PROPERTY ForeignKept
