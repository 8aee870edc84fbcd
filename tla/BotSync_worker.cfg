SPECIFICATION FairSpec
CONSTANTS
  Node = {n1, n2}
  Bot = {b1}
  Id = {i1, i2, i3}
  Serves = {"health", "bots"}
  Call = {c1, c2}
  MaxChange = 2
  MaxFault = 1
  MaxExit = 1
  Nothing = Nothing
INVARIANTS TypeOK
PROPERTIES DeletesAbsent SyncEnds Converges
