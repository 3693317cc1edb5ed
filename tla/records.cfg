CONSTANTS
  Req = {q1, q2}
  Instance = {i1, i2}
  User = {u1, u2}
  Server = {s1, s2}
  Subnet = {n1, n2}
  Leaf = {l1}
  Domain = {d1, d2}
  Mailbox = {b1, b2}
  Alias = {a1, a2}
  Message = {m1, m2}
  Provider = {p1, p2}
  Model = {o1, o2, o3, o4, o5}
  Config = {c1, c2}
  Name = {"a", "b"}
  Time = {1, 2}
  Action = {"deliver", "quarantine"}
  None = None
  MaxRequests = 3
SYMMETRY Symmetry
SPECIFICATION Spec
INVARIANTS Heals OneByOne ErrorsChangeNothing
