--------------------------- MODULE MCRuntimeDiagnostics ---------------------------
(* Two commands over one session root.  ScriptFacts is a package and host whose  *)
(* bootstrap execution reaches the script, with both phases; UnresolvedFacts is  *)
(* a package with an unresolved class on a host without a usable runtime,        *)
(* NoDexFacts one without DEX entries.                                           *)
EXTENDS RuntimeDiagnostics, TLC
CONSTANTS c1, c2
EitherCommand == Permutations(Procs)

Capable ==
  [dex |-> TRUE, targets |-> {c1, c2}, defined |-> {c1, c2}, launcher |-> TRUE,
   application |-> TRUE, override |-> "unset", host_probe_disabled |-> FALSE,
   dalvikvm |-> TRUE, app_process |-> FALSE, probe |-> "exit_zero", binder |-> TRUE]

Healthy(chain) ==
  [chain |-> chain, staged |-> TRUE, native_declared |-> FALSE,
   native_staged |-> FALSE, surface |-> TRUE, input |-> TRUE]

NoDexFacts == {Healthy([Capable EXCEPT !.dex = FALSE, !.defined = {}])}
UnresolvedFacts == {Healthy([Capable EXCEPT !.defined = {c1}, !.dalvikvm = FALSE])}
ScriptFacts == {Healthy(Capable)}

(* One package or host for every rung of the ladders, and below them one whose   *)
(* runner is started, for the activity phase alone.                              *)
LadderFacts ==
  {Healthy([Capable EXCEPT !.targets = {}]),
   Healthy([Capable EXCEPT !.dex = FALSE]),
   Healthy([Capable EXCEPT !.defined = {c1}]),
   Healthy([Capable EXCEPT !.launcher = FALSE]),
   Healthy([Capable EXCEPT !.binder = FALSE]),
   Healthy([Capable EXCEPT !.dalvikvm = FALSE]),
   Healthy([Capable EXCEPT !.dalvikvm = FALSE, !.app_process = TRUE]),
   Healthy([Capable EXCEPT !.override = "unusable", !.host_probe_disabled = TRUE]),
   Healthy([Capable EXCEPT !.override = "executable", !.dalvikvm = FALSE,
                           !.probe = "class_not_found"]),
   Healthy([Capable EXCEPT !.binder = FALSE, !.probe = "failed"]),
   Healthy([Capable EXCEPT !.binder = FALSE, !.probe = "no_main"]),
   Healthy([Capable EXCEPT !.application = FALSE, !.probe = "both"])}

(* Replays are run where no script is: what a replay reads is the same trace     *)
(* whether or not the script ran.  The ladders are about health runs.            *)
MCPackageFacts == UnresolvedFacts \cup NoDexFacts \cup LadderFacts
MCRunCommands(f) ==
  IF f \in UnresolvedFacts THEN {"diagnostic", "diagnostic_replay", "health_replay"}
  ELSE IF f \in NoDexFacts THEN {"diagnostic"}
  ELSE {"health"}
MCRunScenarios(f) ==
  IF f \in UnresolvedFacts THEN {"baseline", "unavailable_display"} ELSE {"baseline"}
MCPhaseOutcomes(f) == {"exit_zero", "class_not_found"}

(* Every command over the package whose script has both phases.                  *)
MCEveryCommand(f) == Commands
MCBaseline(f) == {"baseline"}
MCExitZero(f) == {"exit_zero"}
================================================================================
