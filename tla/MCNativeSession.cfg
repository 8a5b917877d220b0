SPECIFICATION FairSpec
CONSTANTS
  Sessions = {s1, s2}
  NoSession = none
  Reports <- MCReports
INVARIANTS
  TypeOK
  TerminalMeansReaped
  SuccessHasAReport
  FreshSessionIsTruthful
PROPERTIES
  LaunchEnds
CHECK_DEADLOCK FALSE
