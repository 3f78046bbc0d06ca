CONSTANTS
  c1 = c1
  c2 = c2
  r1 = r1
  Nobody = Nobody
  Conns = {c1, c2}
  Controllers = {c1, c2}
  Requests = {r1}
  MaxGen = 2
CHECK_DEADLOCK FALSE
SPECIFICATION FairSpec
INVARIANTS
  BusyIsNotUnloaded
  PendingIsAsked
PROPERTIES
  IdleIsUnloaded
  ClosedReleasesLease
