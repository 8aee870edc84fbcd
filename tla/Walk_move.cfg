SPECIFICATION FairSpec
CONSTANTS
  Http = {h1, h2}
  Width = 2
  MaxLoads = 1
  MaxSets = 1
INVARIANTS TypeOK SetPosStops FlagMeansWalk
PROPERTIES MoveEnds
