CONSTANTS
  t1 = t1
  t2 = t2
  i1 = i1
  Tasks = {t1, t2}
  Interrupters = {i1}
  MaxTroubles = 1
CHECK_DEADLOCK FALSE
SPECIFICATION FairSpec
INVARIANTS
  NoRunOutlivesTask
PROPERTIES
  HaltStopsAll
  
