SPECIFICATION FairSpec
CONSTANTS
  Listener = {t1, t2}
  MaxEvents = 2
INVARIANTS TypeOK InOrder ResidueBounded OneStale
PROPERTIES SessionEnds
CHECK_DEADLOCK FALSE
