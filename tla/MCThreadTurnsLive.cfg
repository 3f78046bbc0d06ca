CONSTANTS
  None = None
  t1 = t1
  t2 = t2
  r1 = r1
  r2 = r2
  c1 = c1
  Clients = {c1}
  MaxEvents = 3
  MaxFailures = 1
  Turns = {t1}
  Requests = {r1}
CHECK_DEADLOCK FALSE
SPECIFICATION Spec
PROPERTIES
  SuspendedIsAsked
  StopsEnd
