SPECIFICATION Spec
CONSTANTS
  c1 = c1
  c2 = c2
  Classes = {c1, c2}
  Procs = {p1, p2}
  Nobody = nobody
  PackageFacts <- ScriptFacts
  RunCommands <- MCEveryCommand
  RunScenarios <- MCBaseline
  PhaseOutcomes <- MCExitZero
SYMMETRY EitherCommand
INVARIANTS
  ReadyMeansRan
CHECK_DEADLOCK FALSE
