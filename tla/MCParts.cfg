CONSTANTS
  c1 = c1
  c2 = c2
  c3 = c3
  c4 = c4
  p1 = p1
  p2 = p2
  p3 = p3
  Nobody = Nobody
  Callers = {c1, c2, c3, c4}
  Processes = {p1, p2, p3}
  Process <- MCProcess
  Goals = {1, 2, 3}
  Texts = {"x", "y"}
  Budget = 3
  Usages = {0, 2}
  MaxTurns = 2
  Putters = {"p1", "p2", "p3"}
  Collectors = {"c1", "c2"}
  Faults = TRUE
  Execs = {"e1"}
  Backgrounds = {"b1"}
  Timed = {"b1"}
  Handle = "handle"
  Registry = "registry"
  Tasks = {1, 2}
  MaxChanges = 5
  MaxReads = 2
  Ids = {1, 2}
  Keys = {"x", "y"}
  Urls = {1, 2}
  Clients = {"c1", "c2"}
  MaxRepoCalls = 4
  Parts = {"lease", "goals", "artifacts", "processes", "tree", "repositories"}
SPECIFICATION PartsFairSpec
CHECK_DEADLOCK FALSE
INVARIANTS
  OwnsFileUnlessRaced
  NoCrossCharge
  PutIsReadable
  CloseLeavesNothing
  ShowsWhatItWasTold
  RowIsAsSaid
PROPERTY
  AbortedEnds
