CONSTANTS
  Nobody = Nobody
  s1 = s1
  s2 = s2
  Servers = {s1, s2}
  MaxLen = 8
SYMMETRY Symmetry
CONSTRAINT Guaranteed
SPECIFICATION Spec
INVARIANTS
  OneReadableLog
  CatalogInStep
  RecoveredClean
