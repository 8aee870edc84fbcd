SPECIFICATION Spec
CONSTANTS
  m_width = 3
  m_height = 2
  Special <- Kinds
  MaxSpecial = 2
  Start <- Left
INVARIANTS TypeOK ShortestWay
PROPERTIES SearchEnds
CHECK_DEADLOCK FALSE
