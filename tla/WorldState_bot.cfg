SPECIFICATION Spec
CONSTANTS
  Main = main
  Http = {h1}
  Reconn = {r1}
  HttpOps = {"collect", "smoke", "reset", "tiles"}
  World = {"w1", "w2"}
  Locked = {"w2"}
  Gem = gem
  Item = {gem, seed}
  Place = {p1}
  Amount = {100}
  NetId = {1, 2}
  Uid = {70001}
  Interval = 0
  Gap = {1}
  MaxCalls = 1
  MaxWire = 3
  MaxEvents = 3
INVARIANTS TypeOK ItemsAgree ViewAgrees BagAgrees FaultHasCause
