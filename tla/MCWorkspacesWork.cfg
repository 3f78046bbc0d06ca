CONSTANTS
  Detached = Detached
  Nowhere = Nowhere
  WorkspaceIds = {i1, i2}
  Names = {n1, n2}
  Repos = {ra}
  Segments = {}
  Ops = {o1, o2}
  MaxTroubles = 2
SYMMETRY Symmetry
CHECK_DEADLOCK FALSE
SPECIFICATION Spec
PROPERTY
  WorkIsKept
