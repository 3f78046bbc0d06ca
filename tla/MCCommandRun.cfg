CONSTANTS
  N = 3
  Policies = {"stop", "continue", "diagnose"}
SPECIFICATION Spec
INVARIANTS
  OneRecordEach
  NothingRunsBeforeDecision
  BlockedByCause
