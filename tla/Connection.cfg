CONSTANTS
  Capacity = 4
  Reserved = 1
  MaxWaiters = 3
  Units = {1, 2}
  Answers = {1, 3}
  MaxSeq = 4
  MaxRequests = 2
CHECK_DEADLOCK FALSE
SPECIFICATION ConnectionFairSpec
INVARIANT
  FreshIsComplete
PROPERTIES
  NeverGoesBack
  ArrivesOrCloses
  StaleIsRepaired
