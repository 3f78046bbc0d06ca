CONSTANT
  Callers = {c1, c2, c3, c4}
SPECIFICATION FairSpec
INVARIANTS
  NoLostWakeup
PROPERTIES
  NoOvertaking
  ReadersWritersSpec
  WaitersLeave
