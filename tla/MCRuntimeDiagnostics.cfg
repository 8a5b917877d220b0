SPECIFICATION Spec
CONSTANTS
  c1 = c1
  c2 = c2
  Classes = {c1, c2}
  Procs = {p1, p2}
  Nobody = nobody
  PackageFacts <- MCPackageFacts
  RunCommands <- MCRunCommands
  RunScenarios <- MCRunScenarios
  PhaseOutcomes <- MCPhaseOutcomes
SYMMETRY EitherCommand
INVARIANTS
  TypeOK
  BundleTellsItsRun
  HealthReplayTellsItsRun
  FreshExecutionIsTruthful
  LaterStepNeedsEarlier
  EncodingsAgree
CHECK_DEADLOCK FALSE
