SPECIFICATION Spec
CONSTANTS
  Sessions = {s1, s2}
  NoSession = none
  Reports <- MCReports
INVARIANTS
  NoRunningLeftBehind
CHECK_DEADLOCK FALSE
