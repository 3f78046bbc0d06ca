CONSTANTS
  Detached = Detached
  Nowhere = Nowhere
  WorkspaceIds = {i1, i2}
  Names = {n1, n2}
  Repos = {ra, rb}
  Segments = {{ra, rb}}
  Ops = {o1, o2}
  MaxTroubles = 1
SYMMETRY Symmetry
CHECK_DEADLOCK FALSE
SPECIFICATION Spec
INVARIANT
  RowsAgree
PROPERTY
  RecordedWorkIsKept
