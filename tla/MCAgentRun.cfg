CONSTANTS
  Budget = Budget
  t1 = t1
  t2 = t2
  s1 = s1
  Tasks = {t1, t2}
  Steers = {s1}
  MaxTurns = 2
  MaxRounds = 3
  MaxTroubles = 2
CHECK_DEADLOCK FALSE
SPECIFICATION FairSpec
INVARIANTS
  DeliveredWasSeen
PROPERTIES
  CompletesInformed
  PendingIsDelivered
