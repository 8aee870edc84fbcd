SPECIFICATION Spec
CONSTANTS
  Main = main
  Http = {h1, h2}
  Client = {c1, c2}
  Name = {n1, n2}
  ServerNames = {}
  Ops = {"add", "remove", "use", "connect"}
  Events = {"call"}
  Nobody = nobody
INVARIANTS TypeOK UniqueNames
PROPERTIES PoolIsRegistry
