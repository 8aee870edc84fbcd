SPECIFICATION Spec
CONSTANTS
  Node = {n1}
  Bot = {b1}
  Id = {i1, i2, i3}
  Serves = {"health", "bots"}
  Call = {c1}
  MaxChange = 3
  MaxFault = 1
  MaxExit = 0
  Nothing = Nothing
PROPERTIES RemovesUnlisted
