SPECIFICATION Spec
CONSTANTS
  User = {u1, u2}
  Node = {n1, n2}
  Process = {p1, p2}
  Name = {a}
  Role = {"ADMIN", "FREEMIUM"}
  Id = {1, 2, 3}
  Req = {q1, q2}
  Limit = 1
  MaxRequest = 2
  MaxChange = 1
  Nobody = nobody
SYMMETRY Symmetry
INVARIANTS TypeOK FreemiumBounded OrphansRaced RowsDistinct SyncExact AdminRemains
CHECK_DEADLOCK FALSE
