------------------------ MODULE RuntimeDiagnosticsProofs ------------------------
(* What RuntimeDiagnostics guarantees for any number of commands, any packages   *)
(* and hosts, and any behaviour of the generated script.                         *)
EXTENDS RuntimeDiagnostics, TLAPS

(* Where a command is, and what its script can have done by then.                *)
Unstarted(p) ==
  pc[p] = "idle" \/ (pc[p] \in {"write", "opened"} /\ at[p] <= 6)

Places ==
  \A p \in Procs :
    /\ pc[p] = "idle" => at[p] = 1
    /\ pc[p] = "read" => at[p] <= 7
    /\ pc[p] = "opened" => WriteOrder[at[p]] \in SourceNames
    /\ pc[p] \in {"wait", "fold"} => at[p] = 6 /\ script[p] # "none"
    /\ Unstarted(p) => script[p] = "none"

(* A command that has started no script has found nothing out from one; what one *)
(* that reports success has found out, it may have asked for.                    *)
Executions ==
  \A p \in Procs :
    /\ script[p] = "none" =>
         believed[p] = NoRunnerState /\ ~execution[p].execution_attempted
    /\ script[p] # "none" => RunnerInvoked(facts.chain)
    /\ execution[p].execution_succeeded => RunnerInvoked(facts.chain)

NobodysFile ==
  /\ runnerState.by = Nobody => runnerState.state = NoRunnerState
  /\ DOMAIN traces = SourceNames /\ DOMAIN bundle = Procs
  /\ DOMAIN execution = Procs

IInv == TypeOK /\ Places /\ Executions /\ NobodysFile

(* While a command that began alone is active, nobody else and nobody else's     *)
(* script is.                                                                    *)
AloneIsAlone ==
  \A p, q \in Procs :
    alone[p] /\ Active(p) /\ q # p => ~Active(q) /\ ~ScriptRunning(q)

(* What the files of a clean session hold while its only command goes on.        *)
PastApplication == {"activity_log", "activity", "state_open", "state_write", "ended"}
PastActivity    == {"state_open", "state_write", "ended"}

FilesAreItsOwn(p) ==
  /\ pc[p] \in {"write", "opened"} /\ script[p] = "none" =>
       runnerState.state = NoRunnerState
  /\ pc[p] \in {"wait", "fold"} /\ script[p] # "ended" =>
       runnerState.state = NoRunnerState
  /\ pc[p] \in {"wait", "fold"} /\ script[p] = "ended" =>
       /\ runnerState.state.application_attempted = facts.chain.application
       /\ runnerState.state.application_exit = ExitOf(outcome[p]["application"])
       /\ runnerState.state.activity_exit = ExitOf(outcome[p]["activity"])
       /\ runnerState.state.activity_attempted
  /\ pc[p] \in {"wait", "fold"} /\ script[p] \in PastApplication
     /\ facts.chain.application =>
       /\ outcome[p]["application"] \in ProbeOutcomes
       /\ logs["application"].says = outcome[p]["application"]
  /\ pc[p] \in {"wait", "fold"} /\ script[p] \in PastActivity =>
       /\ outcome[p]["activity"] \in ProbeOutcomes
       /\ logs["activity"].says = outcome[p]["activity"]

FreshInv ==
  /\ AloneIsAlone
  /\ \A p \in Procs : fresh[p] /\ alone[p] => FilesAreItsOwn(p)
  /\ FreshExecutionIsTruthful

--------------------------------------------------------------------------------
(* Pure facts about the chain.                                                   *)

(* A started runner has passed every rung: planned, a safe runtime, a resolved   *)
(* class (the last branch of BuildNativeArtBootstrapExecutionFixture's ladder).  *)
LEMMA RunnerInvokedMeans ==
  ASSUME NEW f
  PROVE  RunnerInvoked(f) <=>
           /\ RuntimeBootstrapPlanned(f)
           /\ RuntimeDetected(f)
           /\ SafeRuntimeProbe(f)
           /\ RuntimeClassResolutionSucceeded(f)
  BY SMT DEF RunnerInvoked, ExecutionBlockedReason

(* The bootstrap's ladder ends in its last branch just when every rung holds.    *)
LEMMA DeferredMeans ==
  ASSUME NEW f
  PROVE  BootstrapReason(f) = "activity_bootstrap_execution_deferred" <=>
           /\ RuntimeBootstrapPlanned(f)
           /\ RuntimeDetected(f)
           /\ SafeRuntimeProbe(f)
           /\ RuntimeClassResolutionSucceeded(f)
  BY SMT DEF BootstrapReason, RuntimeBootstrapPlanned

(* A safe runtime is a detected one (IsBootstrapCapableArtRuntimeProbe).         *)
LEMMA SafeIsDetected ==
  ASSUME NEW f, SafeRuntimeProbe(f)
  PROVE  RuntimeDetected(f)
  BY SMT DEF SafeRuntimeProbe, RuntimeDetected

(* The list of missing dependencies is empty just when every rung holds.         *)
LEMMA NothingMissingMeans ==
  ASSUME NEW f
  PROVE  MissingDependencies(f) = {} <=>
           /\ RuntimeBootstrapPlanned(f)
           /\ RuntimeDetected(f)
           /\ SafeRuntimeProbe(f)
           /\ RuntimeClassResolutionSucceeded(f)
  BY SMT DEF MissingDependencies, RuntimeBootstrapPlanned

(* The reason the smoke gives names success just when the flag does.             *)
LEMMA SmokeReasonMeans ==
  ASSUME NEW f
  PROVE  RuntimeClassResolutionSucceeded(f) <=>
           SmokeReason(f) \in {"art_runtime_class_resolution_command_succeeded",
                              "art_runtime_class_resolved_no_main"}
  BY SafeIsDetected, SMT
     DEF RuntimeClassResolutionSucceeded, SmokeReason, ProbeAttempted

(* EncodingsAgree: the list of missing dependencies and the ladders of the        *)
(* activity bootstrap and of the bootstrap execution never drift apart, whatever  *)
(* the package and the host.                                                     *)
THEOREM EncodingsAlwaysAgree == Spec => []EncodingsAgree
  <1>1. EncodingsAgree
    BY RunnerInvokedMeans, DeferredMeans, NothingMissingMeans, SmokeReasonMeans
       DEF EncodingsAgree
  <1>2. QED
    BY <1>1, PTL

--------------------------------------------------------------------------------
(* The type invariant and where commands are.                                    *)

(* The two orders of files as the steps below use them.                          *)
LEMMA WriteOrderIs ==
  /\ Len(WriteOrder) = 10 /\ Len(TraceSources) = 7
  /\ WriteOrder[6] = "runner" /\ WriteOrder[7] = "runner_state"
  /\ \A i \in 1..10 : WriteOrder[i] = "runner" => i = 6
  /\ \A i \in 1..10 : WriteOrder[i] = "runner_state" => i = 7
  /\ \A i \in 1..10 : WriteOrder[i] \in PresenceOnly => i # 10
  /\ \A i \in 1..7 : TraceSources[i] \in SourceNames
  /\ "runtime_health_trace" \in SourceNames
  <1>1. Len(WriteOrder) = 10 /\ Len(TraceSources) = 7
    BY DEF WriteOrder, TraceSources
  <1>2. \A i \in 1..10 : /\ WriteOrder[i] = "runner" <=> i = 6
                         /\ WriteOrder[i] = "runner_state" <=> i = 7
                         /\ WriteOrder[i] \in PresenceOnly => i # 10
    BY DEF WriteOrder, PresenceOnly
  <1>3. \A i \in 1..7 : TraceSources[i] \in SourceNames
    BY DEF SourceNames, TraceSources
  <1>4. "runtime_health_trace" \in SourceNames
    <2>1. 1 \in 1..7 /\ TraceSources[1] = "runtime_health_trace"
      BY DEF TraceSources
    <2>2. QED
      BY <1>3, <2>1
  <1>5. QED
    BY <1>1, <1>2, <1>3, <1>4

(* A fresh session root.                                                         *)
LEMMA InitIInv == Init => IInv
  <1> SUFFICES ASSUME Init PROVE IInv
    OBVIOUS
  <1>1. TypeOK
    BY DiagnosticsAssumption, WriteOrderIs
       DEF Init, TypeOK, Labels, ScriptPlaces, RunnerStates, NoRunnerState,
           PhaseExits,
           Phases, ProbeOutcomes, Scenarios
  <1>2. Places
    BY DEF Init, Places, Unstarted
  <1>3. Executions
    BY DEF Init, Executions, NoExecution
  <1>4. NobodysFile
    BY DEF Init, NobodysFile
  <1>5. QED
    BY <1>1, <1>2, <1>3, <1>4 DEF IInv

(* Every step keeps the types: one leaf per variable it changes.                 *)
LEMMA TypeStep ==
  ASSUME IInv, NEW p \in Procs,
         Begin(p) \/ FixtureSteps(p) \/ ScriptSteps(p) \/ ReplaySteps(p) \/ Dies(p)
  PROVE  TypeOK'
  <1> USE DEF IInv, TypeOK
  <1>1. CASE Begin(p)
    <2>1. pc' \in [Procs -> Labels]
      BY <1>1 DEF Begin, Labels
    <2>2. command' \in [Procs -> Commands \cup {"none"}]
      BY <1>1, DiagnosticsAssumption DEF Begin
    <2>3. scenario' \in [Procs -> Scenarios]
      BY <1>1, DiagnosticsAssumption DEF Begin, Scenarios
    <2>4. fresh' \in [Procs -> BOOLEAN]
      BY <1>1 DEF Begin
    <2>5. alone' \in [Procs -> BOOLEAN]
      BY <1>1 DEF Begin, NobodyAround, Active, ScriptRunning
    <2>6. QED
      BY <1>1, <2>1, <2>2, <2>3, <2>4, <2>5
         DEF Begin, files
  <1>2. CASE WritePresenceTrace(p)
    <2>1. at' \in [Procs -> 1..Len(WriteOrder)]
      BY <1>2, WriteOrderIs DEF WritePresenceTrace, Places, Target, LastWrite,
         WritesTrace
    <2>2. \A s \in SourceNames : traces'[s].by \in Procs \cup {Nobody}
      BY <1>2, WriteOrderIs DEF WritePresenceTrace, NobodysFile
    <2>3. QED
      BY <1>2, <2>1, <2>2
         DEF WritePresenceTrace, history
  <1>3. CASE OpenTrace(p)
    <2>1. pc' \in [Procs -> Labels]
      BY <1>3 DEF OpenTrace, Labels
    <2>2. \A s \in SourceNames : traces'[s].by \in Procs \cup {Nobody}
      BY <1>3, WriteOrderIs DEF OpenTrace, NobodysFile
    <2>3. QED
      BY <1>3, <2>1, <2>2
         DEF OpenTrace, history
  <1>4. CASE WriteTrace(p)
    <2>1. pc' \in [Procs -> Labels]
      BY <1>4 DEF WriteTrace, Labels
    <2>2. at' \in [Procs -> 1..Len(WriteOrder)]
      BY <1>4, WriteOrderIs DEF WriteTrace, Places, Target, LastWrite, WritesTrace
    <2>3. \A s \in SourceNames : traces'[s].by \in Procs \cup {Nobody}
      BY <1>4, WriteOrderIs DEF WriteTrace, NobodysFile
    <2>4. published' \in [Procs -> BOOLEAN]
      BY <1>4 DEF WriteTrace, LastWrite
    <2>5. QED
      BY <1>4, <2>1, <2>2, <2>3, <2>4
         DEF WriteTrace
  <1>5. CASE RunnerNotInvoked(p)
    <2>1. logs' \in [Phases -> [by : Procs \cup {Nobody}, says : ProbeOutcomes]]
      BY <1>5, DiagnosticsAssumption DEF RunnerNotInvoked, Phases, ProbeOutcomes,
         LogPhase
    <2>2. at' \in [Procs -> 1..Len(WriteOrder)]
      BY <1>5, WriteOrderIs DEF RunnerNotInvoked, Places, Target, LastWrite,
         WritesTrace
    <2>3. QED
      BY <1>5, <2>1, <2>2
         DEF RunnerNotInvoked, history
  <1>6. CASE StartRunner(p)
    <2>1. pc' \in [Procs -> Labels]
      BY <1>6 DEF StartRunner, Labels
    <2>2. script' \in [Procs -> ScriptPlaces]
      BY <1>6 DEF StartRunner, ScriptPlaces, AfterPhase, LogPhase
    <2>3. QED
      BY <1>6, <2>1, <2>2
         DEF StartRunner, files, history
  <1>7. CASE WaitForRunner(p)
    <2>1. pc' \in [Procs -> Labels]
      BY <1>7 DEF WaitForRunner, Labels
    <2>2. QED
      BY <1>7, <2>1
         DEF WaitForRunner, files, history
  <1>8. CASE FoldRunnerState(p)
    <2>1. pc' \in [Procs -> Labels]
      BY <1>8 DEF FoldRunnerState, Labels
    <2>2. at' \in [Procs -> 1..Len(WriteOrder)]
      BY <1>8, WriteOrderIs DEF FoldRunnerState, Places, Target, LastWrite,
         WritesTrace
    <2>3. believed' \in [Procs -> RunnerStates]
      BY <1>8 DEF FoldRunnerState
    <2>4. QED
      BY <1>8, <2>1, <2>2, <2>3
         DEF FoldRunnerState, files, history
  <1>9. CASE LogMissing(p)
    <2>1. pc' \in [Procs -> Labels]
      BY <1>9 DEF LogMissing, Labels
    <2>2. QED
      BY <1>9, <2>1
         DEF LogMissing, files, history
  <1>10. CASE WriteRunnerState(p)
    <2>1. at' \in [Procs -> 1..Len(WriteOrder)]
      BY <1>10, WriteOrderIs DEF WriteRunnerState, Places, Target, LastWrite,
         WritesTrace
    <2>2. runnerState' \in [by : Procs \cup {Nobody}, state : RunnerStates]
      BY <1>10 DEF WriteRunnerState, RunnerStates, PhaseExits, NoRunnerState
    <2>3. QED
      BY <1>10, <2>1, <2>2
         DEF WriteRunnerState, history
  <1>11. CASE ScriptOpensLog(p)
    <2>1. logs' \in [Phases -> [by : Procs \cup {Nobody}, says : ProbeOutcomes]]
      BY <1>11, DiagnosticsAssumption DEF ScriptOpensLog, Phases, ProbeOutcomes,
         LogPhase
    <2>2. script' \in [Procs -> ScriptPlaces]
      BY <1>11 DEF ScriptOpensLog, ScriptPlaces, AfterPhase, LogPhase
    <2>3. QED
      BY <1>11, <2>1, <2>2
         DEF ScriptOpensLog, history, scriptFrame
  <1>12. CASE ScriptSkipsApplication(p)
    <2>1. script' \in [Procs -> ScriptPlaces]
      BY <1>12 DEF ScriptSkipsApplication, ScriptPlaces, AfterPhase, LogPhase
    <2>2. QED
      BY <1>12, <2>1
         DEF ScriptSkipsApplication, history, scriptFrame
  <1>13. CASE ScriptRunsPhase(p)
    <2>1. outcome' \in [Procs -> [Phases -> ProbeOutcomes \cup {NoOutcome}]]
      BY <1>13, DiagnosticsAssumption DEF ScriptRunsPhase, Phases, ProbeOutcomes
    <2>2. logs' \in [Phases -> [by : Procs \cup {Nobody}, says : ProbeOutcomes]]
      BY <1>13, DiagnosticsAssumption DEF ScriptRunsPhase, Phases, ProbeOutcomes,
         LogPhase
    <2>3. script' \in [Procs -> ScriptPlaces]
      BY <1>13 DEF ScriptRunsPhase, ScriptPlaces, AfterPhase, LogPhase
    <2>4. QED
      BY <1>13, <2>1, <2>2, <2>3
         DEF ScriptRunsPhase, history, scriptFrame
  <1>14. CASE ScriptOpensState(p)
    <2>1. runnerState' \in [by : Procs \cup {Nobody}, state : RunnerStates]
      BY <1>14 DEF ScriptOpensState, RunnerStates, PhaseExits, NoRunnerState
    <2>2. script' \in [Procs -> ScriptPlaces]
      BY <1>14 DEF ScriptOpensState, ScriptPlaces, AfterPhase, LogPhase
    <2>3. QED
      BY <1>14, <2>1, <2>2
         DEF ScriptOpensState, history, scriptFrame
  <1>15. CASE ScriptWritesState(p)
    <2>1. facts.chain.application \in BOOLEAN
      BY DiagnosticsAssumption DEF HealthFacts, Facts
    <2>2. \A x \in Phases : ExitOf(outcome[p][x]) \in PhaseExits
      BY DEF ExitOf, PhaseExit, PhaseExits
    <2>3. \E s \in RunnerStates : runnerState' = [by |-> p, state |-> s]
      BY <1>15, <2>1, <2>2 DEF ScriptWritesState, RunnerStates, Phases
    <2>4. runnerState' \in [by : Procs \cup {Nobody}, state : RunnerStates]
      BY <2>3
    <2>5. script' \in [Procs -> ScriptPlaces]
      BY <1>15 DEF ScriptWritesState, ScriptPlaces
    <2>6. QED
      BY <1>15, <2>4, <2>5
         DEF ScriptWritesState, scriptFrame, history
  <1>16. CASE ScriptKilled(p)
    <2>1. script' \in [Procs -> ScriptPlaces]
      BY <1>16 DEF ScriptKilled, ScriptPlaces, AfterPhase, LogPhase
    <2>2. QED
      BY <1>16, <2>1
         DEF ScriptKilled, history, scriptFrame
  <1>17. CASE ReadSource(p)
    <2>1. \/ pc' = [pc EXCEPT ![p] = "done"] /\ at' = at
          \/ at' = [at EXCEPT ![p] = @ + 1] /\ pc' = pc /\ at[p] <= 7 /\ at[p] # 7
      BY <1>17, WriteOrderIs DEF ReadSource, Places
    <2>2. pc' \in [Procs -> Labels]
      BY <2>1 DEF Labels
    <2>3. at' \in [Procs -> 1..Len(WriteOrder)]
      BY <2>1, WriteOrderIs
    <2>4. TraceSources[at[p]] \in SourceNames
      BY <1>17, WriteOrderIs DEF ReadSource, Places
    <2>5. \A q \in Procs : DOMAIN bundle'[q] \subseteq SourceNames
      BY <1>17, <2>4 DEF ReadSource
    <2>6. QED
      BY <1>17, <2>2, <2>3, <2>5 DEF ReadSource, files, history, readFrame
  <1>18. CASE ReadHealthTrace(p)
    <2>1. pc' \in [Procs -> Labels]
      BY <1>18 DEF ReadHealthTrace, Labels
    <2>2. "runtime_health_trace" \in SourceNames
      BY WriteOrderIs
    <2>3. \A q \in Procs : DOMAIN bundle'[q] \subseteq SourceNames
      <3>1. \/ bundle' = bundle
            \/ bundle' = [bundle EXCEPT ![p] =
                 [x \in {"runtime_health_trace"} |-> traces["runtime_health_trace"]]]
        BY <1>18, Zenon DEF ReadHealthTrace
      <3>2. ASSUME NEW q \in Procs
            PROVE  bundle'[q] = bundle[q] \/ DOMAIN bundle'[q] = {"runtime_health_trace"}
        BY <3>1 DEF NobodysFile
      <3>3. QED
        BY <2>2, <3>2
    <2>4. QED
      BY <1>18, <2>1, <2>3 DEF ReadHealthTrace, files, history, readFrame
  <1>19. CASE Dies(p)
    <2>1. pc' \in [Procs -> Labels]
      BY <1>19 DEF Dies, Labels
    <2>2. QED
      BY <1>19, <2>1
         DEF Dies, files, history, readFrame
  <1>20. QED
    BY <1>1, <1>2, <1>3, <1>4, <1>5, <1>6, <1>7, <1>8, <1>9, <1>10, <1>11, <1>12,
       <1>13, <1>14, <1>15, <1>16, <1>17, <1>18, <1>19 DEF FixtureSteps, ScriptSteps,
       ReplaySteps

(* Every step keeps the places: the index fits the label, and a script starts    *)
(* only where the chain has come to the runner.                                  *)
LEMMA PlacesStep ==
  ASSUME IInv, NEW p \in Procs,
         Begin(p) \/ FixtureSteps(p) \/ ScriptSteps(p) \/ ReplaySteps(p) \/ Dies(p)
  PROVE  Places'
  <1> USE DEF IInv, TypeOK, Places, Unstarted
  <1>1. CASE Begin(p)
    BY <1>1, WriteOrderIs
       DEF Begin, files
  <1>2. CASE WritePresenceTrace(p)
    BY <1>2, WriteOrderIs
       DEF WritePresenceTrace, history, WritesTrace, Target, PresenceOnly
  <1>3. CASE OpenTrace(p)
    BY <1>3, WriteOrderIs
       DEF OpenTrace, history, WritesTrace, Target
  <1>4. CASE WriteTrace(p)
    BY <1>4, WriteOrderIs
       DEF WriteTrace, LastWrite
  <1>5. CASE RunnerNotInvoked(p)
    BY <1>5, WriteOrderIs
       DEF RunnerNotInvoked, history, Target
  <1>6. CASE StartRunner(p)
    BY <1>6, WriteOrderIs
       DEF StartRunner, files, history, Target
  <1>7. CASE WaitForRunner(p)
    BY <1>7, WriteOrderIs
       DEF WaitForRunner, files, history
  <1>8. CASE FoldRunnerState(p)
    BY <1>8, WriteOrderIs
       DEF FoldRunnerState, files, history
  <1>9. CASE LogMissing(p)
    BY <1>9, WriteOrderIs
       DEF LogMissing, files, history
  <1>10. CASE WriteRunnerState(p)
    BY <1>10, WriteOrderIs
       DEF WriteRunnerState, history, Target
  <1>11. CASE ScriptOpensLog(p)
    BY <1>11, WriteOrderIs
       DEF ScriptOpensLog, history, scriptFrame, LogPhase
  <1>12. CASE ScriptSkipsApplication(p)
    BY <1>12, WriteOrderIs
       DEF ScriptSkipsApplication, history, scriptFrame, AfterPhase
  <1>13. CASE ScriptRunsPhase(p)
    BY <1>13, WriteOrderIs
       DEF ScriptRunsPhase, history, scriptFrame, AfterPhase
  <1>14. CASE ScriptOpensState(p)
    BY <1>14, WriteOrderIs
       DEF ScriptOpensState, history, scriptFrame
  <1>15. CASE ScriptWritesState(p)
    BY <1>15, WriteOrderIs
       DEF ScriptWritesState, history, scriptFrame
  <1>16. CASE ScriptKilled(p)
    BY <1>16, WriteOrderIs
       DEF ScriptKilled, history, scriptFrame, ScriptRunning
  <1>17. CASE ReadSource(p)
    BY <1>17, WriteOrderIs
       DEF ReadSource, files, history, readFrame
  <1>18. CASE ReadHealthTrace(p)
    BY <1>18, WriteOrderIs
       DEF ReadHealthTrace, files, history, readFrame
  <1>19. CASE Dies(p)
    BY <1>19, WriteOrderIs
       DEF Dies, files, history, readFrame, Active
  <1>20. QED
    BY <1>1, <1>2, <1>3, <1>4, <1>5, <1>6, <1>7, <1>8, <1>9, <1>10, <1>11, <1>12,
       <1>13, <1>14, <1>15, <1>16, <1>17, <1>18, <1>19
       DEF FixtureSteps, ScriptSteps, ReplaySteps

(* Only a started runner makes an execution report that claims success.          *)
LEMMA ExecutionsStep ==
  ASSUME IInv, NEW p \in Procs,
         Begin(p) \/ FixtureSteps(p) \/ ScriptSteps(p) \/ ReplaySteps(p) \/ Dies(p)
  PROVE  Executions'
  <1> USE DEF IInv, TypeOK, Executions
  <1>1. CASE Begin(p)
    BY <1>1
       DEF Begin, Places, Unstarted, files
  <1>2. CASE WritePresenceTrace(p)
    BY <1>2
       DEF WritePresenceTrace, Places, Unstarted, history
  <1>3. CASE OpenTrace(p)
    BY <1>3
       DEF OpenTrace, Places, Unstarted, history
  <1>4. CASE WriteTrace(p)
    BY <1>4
       DEF WriteTrace, Places, Unstarted
  <1>5. CASE RunnerNotInvoked(p)
    BY <1>5
       DEF RunnerNotInvoked, Places, Unstarted, history, NotInvokedExecution
  <1>6. CASE StartRunner(p)
    BY <1>6
       DEF StartRunner, Places, Unstarted, files, history
  <1>7. CASE WaitForRunner(p)
    BY <1>7
       DEF WaitForRunner, Places, Unstarted, files, history
  <1>8. CASE FoldRunnerState(p)
    BY <1>8
       DEF FoldRunnerState, Places, Unstarted, files, history, ExecutionReport
  <1>9. CASE LogMissing(p)
    BY <1>9
       DEF LogMissing, Places, Unstarted, files, history
  <1>10. CASE WriteRunnerState(p)
    BY <1>10
       DEF WriteRunnerState, Places, Unstarted, history
  <1>11. CASE ScriptOpensLog(p)
    BY <1>11
       DEF ScriptOpensLog, Places, Unstarted, history, scriptFrame, LogPhase
  <1>12. CASE ScriptSkipsApplication(p)
    BY <1>12
       DEF ScriptSkipsApplication, Places, Unstarted, history, scriptFrame, AfterPhase
  <1>13. CASE ScriptRunsPhase(p)
    BY <1>13
       DEF ScriptRunsPhase, Places, Unstarted, history, scriptFrame, AfterPhase
  <1>14. CASE ScriptOpensState(p)
    BY <1>14
       DEF ScriptOpensState, Places, Unstarted, history, scriptFrame
  <1>15. CASE ScriptWritesState(p)
    BY <1>15
       DEF ScriptWritesState, Places, Unstarted, history, scriptFrame
  <1>16. CASE ScriptKilled(p)
    BY <1>16
       DEF ScriptKilled, Places, Unstarted, history, scriptFrame, ScriptRunning
  <1>17. CASE ReadSource(p)
    BY <1>17
       DEF ReadSource, Places, Unstarted, files, history, readFrame
  <1>18. CASE ReadHealthTrace(p)
    BY <1>18
       DEF ReadHealthTrace, Places, Unstarted, files, history, readFrame
  <1>19. CASE Dies(p)
    BY <1>19
       DEF Dies, Places, Unstarted, files, history, readFrame, Active
  <1>20. QED
    BY <1>1, <1>2, <1>3, <1>4, <1>5, <1>6, <1>7, <1>8, <1>9, <1>10, <1>11, <1>12,
       <1>13, <1>14, <1>15, <1>16, <1>17, <1>18, <1>19
       DEF FixtureSteps, ScriptSteps, ReplaySteps

(* Only a writer makes a runner-state file say anything.                         *)
LEMMA NobodysFileStep ==
  ASSUME IInv, NEW p \in Procs,
         Begin(p) \/ FixtureSteps(p) \/ ScriptSteps(p) \/ ReplaySteps(p) \/ Dies(p)
  PROVE  NobodysFile'
  <1> USE DEF IInv, TypeOK, NobodysFile
  <1>1. CASE Begin(p)
    BY <1>1, DiagnosticsAssumption
       DEF Begin, Executions, files
  <1>2. CASE WritePresenceTrace(p)
    BY <1>2, DiagnosticsAssumption
       DEF WritePresenceTrace, Executions, history
  <1>3. CASE OpenTrace(p)
    BY <1>3, DiagnosticsAssumption
       DEF OpenTrace, Executions, history
  <1>4. CASE WriteTrace(p)
    BY <1>4, DiagnosticsAssumption
       DEF WriteTrace, Executions
  <1>5. CASE RunnerNotInvoked(p)
    BY <1>5, DiagnosticsAssumption
       DEF RunnerNotInvoked, Executions, history
  <1>6. CASE StartRunner(p)
    BY <1>6, DiagnosticsAssumption
       DEF StartRunner, Executions, files, history
  <1>7. CASE WaitForRunner(p)
    BY <1>7, DiagnosticsAssumption
       DEF WaitForRunner, Executions, files, history
  <1>8. CASE FoldRunnerState(p)
    BY <1>8, DiagnosticsAssumption
       DEF FoldRunnerState, Executions, files, history
  <1>9. CASE LogMissing(p)
    BY <1>9, DiagnosticsAssumption
       DEF LogMissing, Executions, files, history
  <1>10. CASE WriteRunnerState(p)
    BY <1>10, DiagnosticsAssumption
       DEF WriteRunnerState, Executions, history
  <1>11. CASE ScriptOpensLog(p)
    BY <1>11, DiagnosticsAssumption
       DEF ScriptOpensLog, Executions, history, scriptFrame
  <1>12. CASE ScriptSkipsApplication(p)
    BY <1>12, DiagnosticsAssumption
       DEF ScriptSkipsApplication, Executions, history, scriptFrame
  <1>13. CASE ScriptRunsPhase(p)
    BY <1>13, DiagnosticsAssumption
       DEF ScriptRunsPhase, Executions, history, scriptFrame
  <1>14. CASE ScriptOpensState(p)
    BY <1>14, DiagnosticsAssumption
       DEF ScriptOpensState, Executions, history, scriptFrame
  <1>15. CASE ScriptWritesState(p)
    BY <1>15, DiagnosticsAssumption
       DEF ScriptWritesState, Executions, history, scriptFrame
  <1>16. CASE ScriptKilled(p)
    BY <1>16, DiagnosticsAssumption
       DEF ScriptKilled, Executions, history, scriptFrame
  <1>17. CASE ReadSource(p)
    BY <1>17, DiagnosticsAssumption
       DEF ReadSource, Executions, files, history, readFrame
  <1>18. CASE ReadHealthTrace(p)
    BY <1>18, DiagnosticsAssumption
       DEF ReadHealthTrace, Executions, files, history, readFrame
  <1>19. CASE Dies(p)
    BY <1>19, DiagnosticsAssumption
       DEF Dies, Executions, files, history, readFrame
  <1>20. QED
    BY <1>1, <1>2, <1>3, <1>4, <1>5, <1>6, <1>7, <1>8, <1>9, <1>10, <1>11, <1>12,
       <1>13, <1>14, <1>15, <1>16, <1>17, <1>18, <1>19
       DEF FixtureSteps, ScriptSteps, ReplaySteps

(* The invariant holds in every state.                                           *)
LEMMA Invariance == Spec => []IInv
  <1>1. IInv /\ [Next]_vars => IInv'
    <2> SUFFICES ASSUME IInv, [Next]_vars PROVE IInv'
      OBVIOUS
    <2>1. CASE UNCHANGED vars
      BY <2>1
         DEF vars, files, history, IInv, TypeOK, Places, Unstarted, Executions,
             NobodysFile
    <2>2. CASE Next
      <3>1. PICK p \in Procs : Begin(p) \/ FixtureSteps(p) \/ ScriptSteps(p)
                               \/ ReplaySteps(p) \/ Dies(p)
        BY <2>2 DEF Next
      <3>2. QED
        BY <3>1, TypeStep, PlacesStep, ExecutionsStep, NobodysFileStep DEF IInv
    <2>3. QED
      BY <2>1, <2>2
  <1>2. QED
    BY <1>1, InitIInv, PTL DEF Spec

(* TypeOK: the commands' locals and the session's files keep their types for any *)
(* set of commands, packages, scenarios and phase outcomes.                      *)
THEOREM DiagnosticsTypeOK == Spec => []TypeOK
  BY Invariance, PTL DEF IInv

(* LaterStepNeedsEarlier: no health report calls the bootstrap execution ready   *)
(* while class resolution or the activity bootstrap is not.                      *)
THEOREM LaterStepsNeedEarlier == Spec => []LaterStepNeedsEarlier
  <1>1. IInv => LaterStepNeedsEarlier
    <2> SUFFICES ASSUME IInv, NEW p \in Procs,
                        Ready(BootstrapExecutionState(facts.chain, execution[p]))
                 PROVE  /\ Ready(ActivityBootstrapState(facts.chain))
                        /\ Ready(DexState(facts.chain))
      BY DEF LaterStepNeedsEarlier, Report, HealthReport, RecordStates
    <2>1. CASE ~facts.chain.dex
      BY <2>1 DEF Ready, ActivityBootstrapState, DexState
    <2>2. CASE facts.chain.dex
      <3>1. execution[p].execution_succeeded
        BY <2>2 DEF Ready, BootstrapExecutionState
      <3>2. RunnerInvoked(facts.chain)
        BY <3>1 DEF IInv, Executions
      <3>3. /\ RuntimeBootstrapPlanned(facts.chain)
            /\ RuntimeClassResolutionSucceeded(facts.chain)
        BY <3>2, RunnerInvokedMeans
      <3>4. QED
        BY <3>3 DEF Ready, ActivityBootstrapState, DexState
    <2>3. QED
      BY <2>1, <2>2
  <1>2. QED
    BY <1>1, Invariance, PTL

(* An action of one command keeps the only active command what it is.            *)
LEMMA AloneStep ==
  ASSUME IInv, AloneIsAlone, NEW p \in Procs,
         Begin(p) \/ FixtureSteps(p) \/ ScriptSteps(p) \/ ReplaySteps(p) \/ Dies(p)
  PROVE  AloneIsAlone'
  <1> USE DEF IInv, TypeOK, AloneIsAlone
  <1>1. CASE Begin(p)
    BY <1>1
       DEF Begin, Active, ScriptRunning, files, NobodyAround
  <1>2. CASE WritePresenceTrace(p)
    BY <1>2
       DEF WritePresenceTrace, Active, ScriptRunning, history, WritesTrace
  <1>3. CASE OpenTrace(p)
    BY <1>3
       DEF OpenTrace, Active, ScriptRunning, history, WritesTrace
  <1>4. CASE WriteTrace(p)
    BY <1>4
       DEF WriteTrace, Active, ScriptRunning
  <1>5. CASE RunnerNotInvoked(p)
    BY <1>5
       DEF RunnerNotInvoked, Active, ScriptRunning, history
  <1>6. CASE StartRunner(p)
    BY <1>6
       DEF StartRunner, Active, ScriptRunning, files, history
  <1>7. CASE WaitForRunner(p)
    BY <1>7
       DEF WaitForRunner, Active, ScriptRunning, files, history, Places
  <1>8. CASE FoldRunnerState(p)
    BY <1>8
       DEF FoldRunnerState, Active, ScriptRunning, files, history
  <1>9. CASE LogMissing(p)
    BY <1>9
       DEF LogMissing, Active, ScriptRunning, files, history
  <1>10. CASE WriteRunnerState(p)
    BY <1>10
       DEF WriteRunnerState, Active, ScriptRunning, history
  <1>11. CASE ScriptOpensLog(p)
    BY <1>11
       DEF ScriptOpensLog, Active, ScriptRunning, history, scriptFrame, LogPhase
  <1>12. CASE ScriptSkipsApplication(p)
    BY <1>12
       DEF ScriptSkipsApplication, Active, ScriptRunning, history, scriptFrame,
           AfterPhase
  <1>13. CASE ScriptRunsPhase(p)
    BY <1>13
       DEF ScriptRunsPhase, Active, ScriptRunning, history, scriptFrame, AfterPhase
  <1>14. CASE ScriptOpensState(p)
    BY <1>14
       DEF ScriptOpensState, Active, ScriptRunning, history, scriptFrame
  <1>15. CASE ScriptWritesState(p)
    BY <1>15
       DEF ScriptWritesState, Active, ScriptRunning, history, scriptFrame
  <1>16. CASE ScriptKilled(p)
    BY <1>16
       DEF ScriptKilled, Active, ScriptRunning, history, scriptFrame
  <1>17. CASE ReadSource(p)
    BY <1>17
       DEF ReadSource, Active, ScriptRunning, files, history, readFrame
  <1>18. CASE ReadHealthTrace(p)
    BY <1>18
       DEF ReadHealthTrace, Active, ScriptRunning, files, history, readFrame
  <1>19. CASE Dies(p)
    BY <1>19
       DEF Dies, Active, ScriptRunning, files, history, readFrame
  <1>20. QED
    BY <1>1, <1>2, <1>3, <1>4, <1>5, <1>6, <1>7, <1>8, <1>9, <1>10, <1>11, <1>12,
       <1>13, <1>14, <1>15, <1>16, <1>17, <1>18, <1>19
       DEF FixtureSteps, ScriptSteps, ReplaySteps


(* A command and its script keep out of the locals of the others.                *)
LEMMA Untouched ==
  ASSUME IInv, NEW p \in Procs, NEW q \in Procs, q # p,
         Begin(p) \/ FixtureSteps(p) \/ ScriptSteps(p) \/ ReplaySteps(p) \/ Dies(p)
  PROVE  /\ facts' = facts
         /\ pc'[q] = pc[q] /\ script'[q] = script[q]
         /\ outcome'[q] = outcome[q] /\ execution'[q] = execution[q]
         /\ fresh'[q] = fresh[q]
         /\ alone'[q] => alone[q]
  <1> USE DEF IInv, TypeOK, NobodysFile
  <1>1. CASE Begin(p)
    BY <1>1 DEF Begin, files
  <1>2. CASE WritePresenceTrace(p)
    BY <1>2 DEF WritePresenceTrace, history
  <1>3. CASE OpenTrace(p)
    BY <1>3 DEF OpenTrace, history
  <1>4. CASE WriteTrace(p)
    BY <1>4 DEF WriteTrace
  <1>5. CASE RunnerNotInvoked(p)
    BY <1>5 DEF RunnerNotInvoked, history
  <1>6. CASE StartRunner(p)
    BY <1>6 DEF StartRunner, files, history
  <1>7. CASE WaitForRunner(p)
    BY <1>7 DEF WaitForRunner, files, history
  <1>8. CASE FoldRunnerState(p)
    BY <1>8 DEF FoldRunnerState, files, history
  <1>9. CASE LogMissing(p)
    BY <1>9 DEF LogMissing, files, history
  <1>10. CASE WriteRunnerState(p)
    BY <1>10 DEF WriteRunnerState, history
  <1>11. CASE ScriptOpensLog(p)
    BY <1>11 DEF ScriptOpensLog, history, scriptFrame
  <1>12. CASE ScriptSkipsApplication(p)
    BY <1>12 DEF ScriptSkipsApplication, history, scriptFrame
  <1>13. CASE ScriptRunsPhase(p)
    BY <1>13 DEF ScriptRunsPhase, history, scriptFrame
  <1>14. CASE ScriptOpensState(p)
    BY <1>14 DEF ScriptOpensState, history, scriptFrame
  <1>15. CASE ScriptWritesState(p)
    BY <1>15 DEF ScriptWritesState, history, scriptFrame
  <1>16. CASE ScriptKilled(p)
    BY <1>16 DEF ScriptKilled, history, scriptFrame
  <1>17. CASE ReadSource(p)
    BY <1>17 DEF ReadSource, files, history, readFrame
  <1>18. CASE ReadHealthTrace(p)
    BY <1>18 DEF ReadHealthTrace, files, history, readFrame
  <1>19. CASE Dies(p)
    BY <1>19 DEF Dies, files, history, readFrame
  <1>20. QED
    BY <1>1, <1>2, <1>3, <1>4, <1>5, <1>6, <1>7, <1>8, <1>9, <1>10, <1>11, <1>12,
       <1>13, <1>14, <1>15, <1>16, <1>17, <1>18, <1>19
       DEF FixtureSteps, ScriptSteps, ReplaySteps

(* Nothing another command or its script does disturbs a command that is alone:  *)
(* while it is active, none of them is there to take a step.                     *)
LEMMA OthersKeepOut ==
  ASSUME IInv, AloneIsAlone, NEW p \in Procs, NEW q \in Procs, q # p,
         Begin(p) \/ FixtureSteps(p) \/ ScriptSteps(p) \/ ReplaySteps(p) \/ Dies(p),
         alone'[q]
  PROVE  ~Active(q)'
  <1> SUFFICES ASSUME Active(q)'
               PROVE  FALSE
    OBVIOUS
  <1>1. Active(q) /\ alone[q]
    BY Untouched DEF Active
  <1>2. CASE Begin(p)
    BY <1>1, <1>2 DEF Begin
  <1>3. CASE ~Begin(p)
    <2>1. Active(p) \/ ScriptRunning(p)
      BY <1>3
         DEF FixtureSteps, ScriptSteps, ReplaySteps, WritePresenceTrace, OpenTrace,
             WriteTrace, RunnerNotInvoked, StartRunner, WaitForRunner, FoldRunnerState,
             LogMissing, WriteRunnerState, WritesTrace, ReadSource, ReadHealthTrace, Dies,
             Active, ScriptRunning, ScriptOpensLog, ScriptSkipsApplication,
             ScriptRunsPhase, ScriptOpensState, ScriptWritesState, ScriptKilled
    <2>2. QED
      BY <1>1, <2>1 DEF AloneIsAlone
  <1>4. QED
    BY <1>2, <1>3

(* The files of a clean session stay what its command and script made them.      *)
LEMMA FilesStep ==
  ASSUME IInv, NEW p \in Procs, fresh'[p], alone'[p],
         fresh[p] /\ alone[p] => FilesAreItsOwn(p),
         Begin(p) \/ FixtureSteps(p) \/ ScriptSteps(p) \/ ReplaySteps(p) \/ Dies(p)
  PROVE  FilesAreItsOwn(p)'
  <1> USE DEF IInv, TypeOK, FilesAreItsOwn
  <1>1. CASE Begin(p)
    BY <1>1, DiagnosticsAssumption, WriteOrderIs
       DEF Begin, files, Places, NobodysFile
  <1>2. CASE WritePresenceTrace(p)
    BY <1>2, DiagnosticsAssumption, WriteOrderIs
       DEF WritePresenceTrace, history, WritesTrace
  <1>3. CASE OpenTrace(p)
    BY <1>3, DiagnosticsAssumption, WriteOrderIs
       DEF OpenTrace, history, WritesTrace
  <1>4. CASE WriteTrace(p)
    BY <1>4, DiagnosticsAssumption, WriteOrderIs
       DEF WriteTrace, LastWrite
  <1>5. CASE RunnerNotInvoked(p)
    BY <1>5, DiagnosticsAssumption, WriteOrderIs
       DEF RunnerNotInvoked, history, Places, Unstarted, Target
  <1>6. CASE StartRunner(p)
    BY <1>6, DiagnosticsAssumption, WriteOrderIs
       DEF StartRunner, files, history, Places, Unstarted, Target, PastApplication,
           PastActivity
  <1>7. CASE WaitForRunner(p)
    BY <1>7, DiagnosticsAssumption, WriteOrderIs
       DEF WaitForRunner, files, history, PastApplication, PastActivity
  <1>8. CASE FoldRunnerState(p)
    BY <1>8, DiagnosticsAssumption, WriteOrderIs
       DEF FoldRunnerState, files, history, Places
  <1>9. CASE LogMissing(p)
    BY <1>9, DiagnosticsAssumption, WriteOrderIs
       DEF LogMissing, files, history
  <1>10. CASE WriteRunnerState(p)
    BY <1>10, DiagnosticsAssumption, WriteOrderIs
       DEF WriteRunnerState, history, Executions
  <1>11. CASE ScriptOpensLog(p)
    BY <1>11, DiagnosticsAssumption, WriteOrderIs
       DEF ScriptOpensLog, history, scriptFrame, LogPhase, PastApplication,
           PastActivity
  <1>12. CASE ScriptSkipsApplication(p)
    BY <1>12, DiagnosticsAssumption, WriteOrderIs
       DEF ScriptSkipsApplication, history, scriptFrame, AfterPhase, PastApplication,
           PastActivity
  <1>13. CASE ScriptRunsPhase(p)
    BY <1>13, DiagnosticsAssumption, WriteOrderIs
       DEF ScriptRunsPhase, history, scriptFrame, AfterPhase, PastApplication,
           PastActivity, Phases
  <1>14. CASE ScriptOpensState(p)
    BY <1>14, DiagnosticsAssumption, WriteOrderIs
       DEF ScriptOpensState, history, scriptFrame, PastApplication, PastActivity,
           NoRunnerState
  <1>15. CASE ScriptWritesState(p)
    BY <1>15, DiagnosticsAssumption, WriteOrderIs
       DEF ScriptWritesState, history, scriptFrame, PastApplication, PastActivity
  <1>16. CASE ScriptKilled(p)
    BY <1>16, DiagnosticsAssumption, WriteOrderIs
       DEF ScriptKilled, history, scriptFrame, ScriptRunning, PastApplication,
           PastActivity
  <1>17. CASE ReadSource(p)
    BY <1>17, DiagnosticsAssumption, WriteOrderIs
       DEF ReadSource, files, history, readFrame
  <1>18. CASE ReadHealthTrace(p)
    BY <1>18, DiagnosticsAssumption, WriteOrderIs
       DEF ReadHealthTrace, files, history, readFrame
  <1>19. CASE Dies(p)
    BY <1>19, DiagnosticsAssumption, WriteOrderIs
       DEF Dies, files, history, readFrame, Active
  <1>20. QED
    BY <1>1, <1>2, <1>3, <1>4, <1>5, <1>6, <1>7, <1>8, <1>9, <1>10, <1>11, <1>12,
       <1>13, <1>14, <1>15, <1>16, <1>17, <1>18, <1>19
       DEF FixtureSteps, ScriptSteps, ReplaySteps

(* What a finished script left is what its phases did, so a report made from it  *)
(* that claims success is right (ProbeCommandSucceeded on state file and logs).  *)
LEMMA ReportIsRight ==
  ASSUME NEW app, NEW activity, NEW says, NEW state,
         activity \in ProbeOutcomes,
         state.activity_attempted, state.activity_exit = ExitOf(activity),
         state.application_exit = ExitOf(app),
         state.application_attempted => app \in ProbeOutcomes /\ says = app,
         ExecutionReport(state, says, activity).execution_succeeded
  PROVE  /\ PhaseSucceeded(activity)
         /\ state.application_attempted => PhaseSucceeded(app)
  <1>1. ASSUME NEW o \in ProbeOutcomes, ProbeCommandSucceeded(ExitOf(o), o)
        PROVE  PhaseSucceeded(o)
    BY <1>1 DEF ProbeOutcomes, ProbeCommandSucceeded, ExitOf, NoOutcome, PhaseExit,
                SaysNoMain, SaysMissing, PhaseSucceeded
  <1>2. ProbeCommandSucceeded(state.activity_exit, activity)
    BY DEF ExecutionReport
  <1>3. state.application_attempted =>
          ProbeCommandSucceeded(state.application_exit, says)
    BY DEF ExecutionReport
  <1>4. QED
    BY <1>1, <1>2, <1>3

(* What a report made by a command that began clean and alone says was so.       *)
IsRight(p) ==
  /\ script[p] = "ended"
  /\ PhaseSucceeded(outcome[p]["activity"])
  /\ facts.chain.application => PhaseSucceeded(outcome[p]["application"])

(* A truthful report stays truthful, and a new one is.                           *)
LEMMA RightStep ==
  ASSUME IInv, IInv', NEW p \in Procs, fresh'[p], alone'[p],
         fresh[p] /\ alone[p] => FilesAreItsOwn(p),
         fresh[p] /\ alone[p] /\ execution[p].execution_attempted
           /\ execution[p].execution_succeeded => IsRight(p),
         Begin(p) \/ FixtureSteps(p) \/ ScriptSteps(p) \/ ReplaySteps(p) \/ Dies(p),
         execution'[p].execution_attempted, execution'[p].execution_succeeded
  PROVE  IsRight(p)'
  <1> USE DEF IInv, TypeOK, NobodysFile
  <1>1. CASE Begin(p)
    BY <1>1 DEF Begin, IsRight, files, Places, Unstarted, Executions
  <1>2. CASE WritePresenceTrace(p)
    BY <1>2 DEF WritePresenceTrace, IsRight, history
  <1>3. CASE OpenTrace(p)
    BY <1>3 DEF OpenTrace, IsRight, history
  <1>4. CASE WriteTrace(p)
    BY <1>4 DEF WriteTrace, IsRight
  <1>5. CASE RunnerNotInvoked(p)
    BY <1>5, WriteOrderIs DEF RunnerNotInvoked, IsRight, history, NotInvokedExecution
  <1>6. CASE StartRunner(p)
    BY <1>6, WriteOrderIs DEF StartRunner, IsRight, files, history, Executions,
       Places, Unstarted, Target
  <1>7. CASE WaitForRunner(p)
    BY <1>7 DEF WaitForRunner, IsRight, files, history
  <1>8. CASE FoldRunnerState(p)
    <2>1. /\ fresh[p] /\ alone[p] /\ pc[p] = "fold"
          /\ facts' = facts /\ script' = script /\ outcome' = outcome
          /\ execution'[p] = ExecutionReport(runnerState.state,
                               logs["application"].says, logs["activity"].says)
      BY <1>8 DEF FoldRunnerState, history
    <2>2. \/ runnerState.state.application_attempted
          \/ runnerState.state.activity_attempted
      <3>1. ExecutionReport(runnerState.state, logs["application"].says,
                            logs["activity"].says).execution_attempted
        BY <2>1, Zenon
      <3>2. QED
        BY <3>1 DEF ExecutionReport
    <2>3. script[p] = "ended"
      BY <2>1, <2>2 DEF FilesAreItsOwn, NoRunnerState
    <2>4. /\ PhaseSucceeded(outcome[p]["activity"])
          /\ facts.chain.application => PhaseSucceeded(outcome[p]["application"])
      <3>1. /\ runnerState.state.activity_attempted
            /\ runnerState.state.activity_exit = ExitOf(outcome[p]["activity"])
            /\ runnerState.state.application_attempted = facts.chain.application
            /\ runnerState.state.application_exit = ExitOf(outcome[p]["application"])
            /\ outcome[p]["activity"] \in ProbeOutcomes
            /\ logs["activity"].says = outcome[p]["activity"]
            /\ facts.chain.application =>
                 /\ outcome[p]["application"] \in ProbeOutcomes
                 /\ logs["application"].says = outcome[p]["application"]
        BY <2>1, <2>3 DEF FilesAreItsOwn, PastApplication, PastActivity
      <3>2. ExecutionReport(runnerState.state, logs["application"].says,
                            outcome[p]["activity"]).execution_succeeded
        BY <2>1, <3>1, Zenon
      <3>3. runnerState.state.application_attempted =>
               /\ outcome[p]["application"] \in ProbeOutcomes
               /\ logs["application"].says = outcome[p]["application"]
        BY <3>1, Zenon
      <3>4. /\ PhaseSucceeded(outcome[p]["activity"])
            /\ runnerState.state.application_attempted =>
                 PhaseSucceeded(outcome[p]["application"])
        BY <3>1, <3>2, <3>3, ReportIsRight
      <3>5. QED
        BY <3>1, <3>4, Zenon
    <2>5. QED
      BY <2>1, <2>3, <2>4 DEF IsRight
  <1>9. CASE LogMissing(p)
    BY <1>9 DEF LogMissing, IsRight, files, history
  <1>10. CASE WriteRunnerState(p)
    BY <1>10 DEF WriteRunnerState, IsRight, history
  <1>11. CASE ScriptOpensLog(p)
    BY <1>11 DEF ScriptOpensLog, IsRight, history, scriptFrame
  <1>12. CASE ScriptSkipsApplication(p)
    BY <1>12 DEF ScriptSkipsApplication, IsRight, history, scriptFrame
  <1>13. CASE ScriptRunsPhase(p)
    BY <1>13 DEF ScriptRunsPhase, IsRight, history, scriptFrame
  <1>14. CASE ScriptOpensState(p)
    BY <1>14 DEF ScriptOpensState, IsRight, history, scriptFrame
  <1>15. CASE ScriptWritesState(p)
    BY <1>15 DEF ScriptWritesState, IsRight, history, scriptFrame
  <1>16. CASE ScriptKilled(p)
    BY <1>16 DEF ScriptKilled, IsRight, history, scriptFrame, ScriptRunning
  <1>17. CASE ReadSource(p)
    BY <1>17 DEF ReadSource, IsRight, files, history, readFrame
  <1>18. CASE ReadHealthTrace(p)
    BY <1>18 DEF ReadHealthTrace, IsRight, files, history, readFrame
  <1>19. CASE Dies(p)
    BY <1>19 DEF Dies, IsRight, files, history, readFrame
  <1>20. QED
    BY <1>1, <1>2, <1>3, <1>4, <1>5, <1>6, <1>7, <1>8, <1>9, <1>10, <1>11, <1>12,
       <1>13, <1>14, <1>15, <1>16, <1>17, <1>18, <1>19
       DEF FixtureSteps, ScriptSteps, ReplaySteps

(* FreshExecutionIsTruthful: a run that had a clean session root to itself and   *)
(* reports a successful bootstrap execution saw its own script end, and every    *)
(* phase succeed.                                                                *)
THEOREM FreshExecutionsAreTruthful == Spec => []FreshExecutionIsTruthful
  <1>1. Init => FreshInv
    BY DEF Init, FreshInv, AloneIsAlone, FreshExecutionIsTruthful
  <1>2. IInv /\ IInv' /\ FreshInv /\ [Next]_vars => FreshInv'
    <2> SUFFICES ASSUME IInv, IInv', FreshInv, [Next]_vars PROVE FreshInv'
      OBVIOUS
    <2>1. CASE UNCHANGED vars
      BY <2>1
         DEF vars, files, history, FreshInv, AloneIsAlone, Active, ScriptRunning,
             FilesAreItsOwn, FreshExecutionIsTruthful
    <2>2. CASE Next
      <3>1. PICK p \in Procs : Begin(p) \/ FixtureSteps(p) \/ ScriptSteps(p)
                               \/ ReplaySteps(p) \/ Dies(p)
        BY <2>2 DEF Next
      <3>2. AloneIsAlone'
        BY <3>1, AloneStep DEF FreshInv
      <3>3. ASSUME NEW q \in Procs, fresh'[q], alone'[q]
            PROVE  FilesAreItsOwn(q)'
        <4>1. CASE q = p
          BY <3>1, <3>3, <4>1, FilesStep DEF FreshInv
        <4>2. CASE q # p
          <5>1. ~Active(q)'
            BY <3>1, <3>3, <4>2, OthersKeepOut DEF FreshInv
          <5>2. QED
            BY <5>1 DEF Active, FilesAreItsOwn
        <4>3. QED
          BY <4>1, <4>2
      <3>4. ASSUME NEW q \in Procs, fresh'[q], alone'[q],
                   execution'[q].execution_attempted,
                   execution'[q].execution_succeeded
            PROVE  IsRight(q)'
        <4>1. CASE q = p
          BY <3>1, <3>4, <4>1, RightStep DEF FreshInv, FreshExecutionIsTruthful,
             IsRight
        <4>2. CASE q # p
          BY <3>1, <3>4, <4>2, Untouched DEF FreshInv, FreshExecutionIsTruthful,
             IsRight
        <4>3. QED
          BY <4>1, <4>2
      <3>5. QED
        BY <3>2, <3>3, <3>4 DEF FreshInv, FreshExecutionIsTruthful, IsRight
    <2>3. QED
      BY <2>1, <2>2
  <1>3. QED
    BY <1>1, <1>2, Invariance, PTL DEF Spec, FreshInv


--------------------------------------------------------------------------------
(* The traces and the replays of them.                                           *)

Busy    == {"write", "opened", "wait", "fold"}
Settled == {"read", "done", "threw", "dead"}   \* writes no trace any more
Late    == {"art_bootstrap_execution_trace", "runtime_health_trace",
            "runtime_recovery_actions"}        \* written after the execution
Fixtures == {"health", "diagnostic"}

(* Only the fixtures write, and a replay has read when it is done.               *)
Caller(p) ==
  /\ published[p] => pc[p] \in Settled
  /\ pc[p] \in Busy \/ published[p] => command[p] \in Fixtures
  /\ pc[p] = "read" /\ command[p] \in Fixtures => published[p]
  /\ pc[p] = "idle" => DOMAIN bundle[p] = {}
  /\ pc[p] = "done" /\ command[p] = "health_replay" =>
       "runtime_health_trace" \in DOMAIN bundle[p]
Callers == \A p \in Procs : Caller(p)

(* A trace tells the run of its last author, but for the one it has open or had  *)
(* open when it died.                                                            *)
TraceTells(s, r) ==
  /\ r \in Procs /\ pc[r] # "idle" /\ command[r] \in Fixtures
  /\ s \in Late => published[r] \/ at[r] > 7
  /\ \/ traces[s].events = EventsOf(r, s)
     \/ pc[r] \in {"opened", "dead"} /\ ~published[r] /\ Target(r) = s
TracesTell ==
  \A s \in SourceNames : traces[s].by # Nobody => TraceTells(s, traces[s].by)

(* What a command that nobody disturbs has read, or has read of its own, will not *)
(* be written again.                                                             *)
CopyTells(p, s, r) ==
  /\ r \in Procs
  /\ r = p \/ alone[p] =>
       /\ pc[r] \in Settled
       /\ published[r] => bundle[p][s].events = EventsOf(r, s)
BundlesTell ==
  \A p \in Procs : \A s \in DOMAIN bundle[p] : CopyTells(p, s, bundle[p][s].by)

ReplayInv == AloneIsAlone /\ Callers /\ TracesTell /\ BundlesTell

(* One step, as the locals of the commands see it.                               *)
LEMMA LocalsStep ==
  ASSUME IInv, NEW p \in Procs,
         Begin(p) \/ FixtureSteps(p) \/ ScriptSteps(p) \/ ReplaySteps(p) \/ Dies(p)
  PROVE  /\ facts' = facts
         /\ \A q \in Procs : q # p =>
              /\ pc'[q] = pc[q] /\ at'[q] = at[q] /\ command'[q] = command[q]
              /\ scenario'[q] = scenario[q] /\ execution'[q] = execution[q]
              /\ bundle'[q] = bundle[q] /\ published'[q] = published[q]
              /\ alone'[q] => alone[q]
         /\ pc[p] # "idle" =>
              /\ pc'[p] # "idle"
              /\ command'[p] = command[p] /\ scenario'[p] = scenario[p]
              /\ alone'[p] = alone[p]
         /\ execution'[p] = execution[p] \/ (pc[p] \in Busy /\ at[p] = 6)
         /\ pc[p] \in Settled => pc'[p] \in Settled /\ published'[p] = published[p]
  <1>0. /\ pc \in [Procs -> Labels] /\ at \in [Procs -> 1..10]
        /\ DOMAIN command = Procs /\ DOMAIN scenario = Procs
        /\ DOMAIN published = Procs /\ alone \in [Procs -> BOOLEAN]
        /\ DOMAIN execution = Procs /\ DOMAIN bundle = Procs /\ Places
    BY WriteOrderIs DEF IInv, TypeOK, NobodysFile
  <1>1. CASE Begin(p)
    BY <1>0, <1>1 DEF Begin, files, Busy, Settled
  <1>2. CASE WritePresenceTrace(p)
    BY <1>0, <1>2 DEF WritePresenceTrace, history, WritesTrace, Busy, Busy, Settled
  <1>3. CASE OpenTrace(p)
    BY <1>0, <1>3 DEF OpenTrace, history, WritesTrace, Busy, Settled
  <1>4. CASE WriteTrace(p)
    BY <1>0, <1>4 DEF WriteTrace, Busy, Settled
  <1>5. CASE RunnerNotInvoked(p)
    BY <1>0, <1>5, WriteOrderIs DEF RunnerNotInvoked, history, Busy, Places, Target, Busy, Settled
  <1>6. CASE StartRunner(p)
    BY <1>0, <1>6 DEF StartRunner, files, history, Busy, Settled
  <1>7. CASE WaitForRunner(p)
    BY <1>0, <1>7 DEF WaitForRunner, files, history, Busy, Settled
  <1>8. CASE FoldRunnerState(p)
    BY <1>0, <1>8, WriteOrderIs DEF FoldRunnerState, files, history, Busy, Places, Busy, Settled
  <1>9. CASE LogMissing(p)
    BY <1>0, <1>9 DEF LogMissing, files, history, Busy, Settled
  <1>10. CASE WriteRunnerState(p)
    BY <1>0, <1>10 DEF WriteRunnerState, history, Busy, Places, Busy, Settled
  <1>11. CASE ScriptOpensLog(p)
    BY <1>0, <1>11 DEF ScriptOpensLog, history, scriptFrame, Busy, Settled
  <1>12. CASE ScriptSkipsApplication(p)
    BY <1>0, <1>12 DEF ScriptSkipsApplication, history, scriptFrame, Busy, Settled
  <1>13. CASE ScriptRunsPhase(p)
    BY <1>0, <1>13 DEF ScriptRunsPhase, history, scriptFrame, Busy, Settled
  <1>14. CASE ScriptOpensState(p)
    BY <1>0, <1>14 DEF ScriptOpensState, history, scriptFrame, Busy, Settled
  <1>15. CASE ScriptWritesState(p)
    BY <1>0, <1>15 DEF ScriptWritesState, history, scriptFrame, Busy, Settled
  <1>16. CASE ScriptKilled(p)
    BY <1>0, <1>16 DEF ScriptKilled, history, scriptFrame, Busy, Settled
  <1>17. CASE ReadSource(p)
    BY <1>0, <1>17 DEF ReadSource, files, history, readFrame, Settled, Busy, Settled
  <1>18. CASE ReadHealthTrace(p)
    BY <1>0, <1>18 DEF ReadHealthTrace, files, history, readFrame, Settled, Busy, Settled
  <1>19. CASE Dies(p)
    BY <1>0, <1>19 DEF Dies, files, history, readFrame, Active, Settled, Busy, Settled
  <1>20. QED
    BY <1>1, <1>2, <1>3, <1>4, <1>5, <1>6, <1>7, <1>8, <1>9, <1>10, <1>11, <1>12,
       <1>13, <1>14, <1>15, <1>16, <1>17, <1>18, <1>19
       DEF FixtureSteps, ScriptSteps, ReplaySteps

(* All but three actions leave the traces alone, and an open one open.           *)
LEMMA QuietStep ==
  ASSUME IInv, NEW p \in Procs,
         Begin(p) \/ FixtureSteps(p) \/ ScriptSteps(p) \/ ReplaySteps(p) \/ Dies(p),
         ~WritePresenceTrace(p), ~OpenTrace(p), ~WriteTrace(p)
  PROVE  /\ traces' = traces /\ published' = published
         /\ pc[p] \in {"opened", "dead"} => pc'[p] \in {"opened", "dead"}
         /\ pc[p] # "read" => at'[p] >= at[p]
         /\ pc[p] \in {"opened", "dead"} => at'[p] = at[p]
  <1>0. pc \in [Procs -> Labels] /\ at \in [Procs -> 1..10]
    BY WriteOrderIs DEF IInv, TypeOK
  <1>1. CASE Begin(p)
    BY <1>0, <1>1 DEF Begin, files
  <1>2. CASE WritePresenceTrace(p)
    BY <1>0, <1>2 DEF WritePresenceTrace, history, WritesTrace
  <1>3. CASE OpenTrace(p)
    BY <1>0, <1>3 DEF OpenTrace, history, WritesTrace
  <1>4. CASE WriteTrace(p)
    BY <1>0, <1>4 DEF WriteTrace, LastWrite
  <1>5. CASE RunnerNotInvoked(p)
    BY <1>0, <1>5 DEF RunnerNotInvoked, history
  <1>6. CASE StartRunner(p)
    BY <1>0, <1>6 DEF StartRunner, files, history
  <1>7. CASE WaitForRunner(p)
    BY <1>0, <1>7 DEF WaitForRunner, files, history
  <1>8. CASE FoldRunnerState(p)
    BY <1>0, <1>8 DEF FoldRunnerState, files, history
  <1>9. CASE LogMissing(p)
    BY <1>0, <1>9 DEF LogMissing, files, history
  <1>10. CASE WriteRunnerState(p)
    BY <1>0, <1>10 DEF WriteRunnerState, history
  <1>11. CASE ScriptOpensLog(p)
    BY <1>0, <1>11 DEF ScriptOpensLog, history, scriptFrame
  <1>12. CASE ScriptSkipsApplication(p)
    BY <1>0, <1>12 DEF ScriptSkipsApplication, history, scriptFrame
  <1>13. CASE ScriptRunsPhase(p)
    BY <1>0, <1>13 DEF ScriptRunsPhase, history, scriptFrame
  <1>14. CASE ScriptOpensState(p)
    BY <1>0, <1>14 DEF ScriptOpensState, history, scriptFrame
  <1>15. CASE ScriptWritesState(p)
    BY <1>0, <1>15 DEF ScriptWritesState, history, scriptFrame
  <1>16. CASE ScriptKilled(p)
    BY <1>0, <1>16 DEF ScriptKilled, history, scriptFrame
  <1>17. CASE ReadSource(p)
    BY <1>0, <1>17 DEF ReadSource, files, history, readFrame
  <1>18. CASE ReadHealthTrace(p)
    BY <1>0, <1>18 DEF ReadHealthTrace, files, history, readFrame
  <1>19. CASE Dies(p)
    BY <1>0, <1>19 DEF Dies, files, history, readFrame, Active
  <1>20. QED
    BY <1>1, <1>2, <1>3, <1>4, <1>5, <1>6, <1>7, <1>8, <1>9, <1>10, <1>11, <1>12,
       <1>13, <1>14, <1>15, <1>16, <1>17, <1>18, <1>19
       DEF FixtureSteps, ScriptSteps, ReplaySteps

(* A command's own step keeps it a proper caller.                                *)
LEMMA CallerStep ==
  ASSUME IInv, NEW p \in Procs, Caller(p),
         Begin(p) \/ FixtureSteps(p) \/ ScriptSteps(p) \/ ReplaySteps(p) \/ Dies(p)
  PROVE  Caller(p)'
  <1>0. /\ pc \in [Procs -> Labels] /\ at \in [Procs -> 1..10]
        /\ command \in [Procs -> Commands \cup {"none"}]
        /\ published \in [Procs -> BOOLEAN] /\ DOMAIN bundle = Procs
    BY WriteOrderIs DEF IInv, TypeOK, NobodysFile
  <1> USE DEF Caller, Busy, Settled, Fixtures
  <1>1. CASE Begin(p)
    <2>1. PICK c \in Commands :
            /\ pc'[p] = (IF c \in {"health", "diagnostic"} THEN "write" ELSE "read")
            /\ command'[p] = c /\ published' = published /\ bundle' = bundle
      <3>1. facts \in PackageFacts
        BY DEF IInv, TypeOK
      <3>2. QED
        BY <1>0, <1>1, <3>1, DiagnosticsAssumption DEF Begin
    <2>2. pc[p] = "idle"
      BY <1>1 DEF Begin
    <2>3. QED
      BY <2>1, <2>2
  <1>2. CASE WritePresenceTrace(p)
    BY <1>0, <1>2 DEF WritePresenceTrace, history, WritesTrace
  <1>3. CASE OpenTrace(p)
    BY <1>0, <1>3 DEF OpenTrace, history, WritesTrace
  <1>4. CASE WriteTrace(p)
    BY <1>0, <1>4 DEF WriteTrace, LastWrite
  <1>5. CASE RunnerNotInvoked(p)
    BY <1>0, <1>5 DEF RunnerNotInvoked, history
  <1>6. CASE StartRunner(p)
    BY <1>0, <1>6 DEF StartRunner, files, history
  <1>7. CASE WaitForRunner(p)
    BY <1>0, <1>7 DEF WaitForRunner, files, history
  <1>8. CASE FoldRunnerState(p)
    BY <1>0, <1>8 DEF FoldRunnerState, files, history
  <1>9. CASE LogMissing(p)
    BY <1>0, <1>9 DEF LogMissing, files, history
  <1>10. CASE WriteRunnerState(p)
    BY <1>0, <1>10 DEF WriteRunnerState, history
  <1>11. CASE ScriptOpensLog(p)
    BY <1>0, <1>11 DEF ScriptOpensLog, history, scriptFrame
  <1>12. CASE ScriptSkipsApplication(p)
    BY <1>0, <1>12 DEF ScriptSkipsApplication, history, scriptFrame
  <1>13. CASE ScriptRunsPhase(p)
    BY <1>0, <1>13 DEF ScriptRunsPhase, history, scriptFrame
  <1>14. CASE ScriptOpensState(p)
    BY <1>0, <1>14 DEF ScriptOpensState, history, scriptFrame
  <1>15. CASE ScriptWritesState(p)
    BY <1>0, <1>15 DEF ScriptWritesState, history, scriptFrame
  <1>16. CASE ScriptKilled(p)
    BY <1>0, <1>16 DEF ScriptKilled, history, scriptFrame
  <1>17. CASE ReadSource(p)
    BY <1>0, <1>17 DEF ReadSource, files, history, readFrame
  <1>18. CASE ReadHealthTrace(p)
    BY <1>0, <1>18 DEF ReadHealthTrace, files, history, readFrame
  <1>19. CASE Dies(p)
    BY <1>0, <1>19 DEF Dies, files, history, readFrame, Active
  <1>20. QED
    BY <1>1, <1>2, <1>3, <1>4, <1>5, <1>6, <1>7, <1>8, <1>9, <1>10, <1>11, <1>12,
       <1>13, <1>14, <1>15, <1>16, <1>17, <1>18, <1>19
       DEF FixtureSteps, ScriptSteps, ReplaySteps

(* What a command puts into a file changes only with its own report.             *)
LEMMA EventsStay ==
  ASSUME NEW r, NEW s, facts' = facts, scenario'[r] = scenario[r],
         execution'[r] = execution[r] \/ s \notin Late, s \in SourceNames
  PROVE  EventsOf(r, s)' = EventsOf(r, s)
  <1>1. CASE execution'[r] = execution[r]
    BY <1>1 DEF EventsOf, Report
  <1>2. CASE s \notin Late
    <2>1. s \in {"art_classloader_trace", "art_class_resolution_trace",
               "art_runtime_smoke_trace", "art_activity_bootstrap_trace"}
      BY <1>2 DEF SourceNames, TraceSources, Late
    <2>2. CASE s = "art_classloader_trace"
      BY <2>2 DEF EventsOf
    <2>3. CASE s = "art_class_resolution_trace"
      BY <2>3 DEF EventsOf
    <2>4. CASE s = "art_runtime_smoke_trace"
      BY <2>4 DEF EventsOf
    <2>5. CASE s = "art_activity_bootstrap_trace"
      BY <2>5 DEF EventsOf
    <2>6. QED
      BY <2>1, <2>2, <2>3, <2>4, <2>5
  <1>3. QED
    BY <1>1, <1>2

(* The places of the late traces in the order of writing.                        *)
LEMMA LateIsLate ==
  ASSUME NEW i \in 1..10
  PROVE  WriteOrder[i] \in Late => i > 7
  BY DEF WriteOrder, Late

(* Every step keeps the traces telling.                                          *)
LEMMA TracesStep ==
  ASSUME IInv, Callers, TracesTell, NEW p \in Procs,
         Begin(p) \/ FixtureSteps(p) \/ ScriptSteps(p) \/ ReplaySteps(p) \/ Dies(p)
  PROVE  TracesTell'
  <1> SUFFICES ASSUME NEW s \in SourceNames, NEW r, r = traces'[s].by, r # Nobody
               PROVE  TraceTells(s, r)'
    BY DEF TracesTell
  <1>0. /\ pc \in [Procs -> Labels] /\ at \in [Procs -> 1..10]
        /\ command \in [Procs -> Commands \cup {"none"}]
        /\ published \in [Procs -> BOOLEAN]
        /\ DOMAIN traces = SourceNames /\ Len(WriteOrder) = 10
    BY WriteOrderIs DEF IInv, TypeOK, NobodysFile
  <1>1. CASE ~WritePresenceTrace(p) /\ ~OpenTrace(p) /\ ~WriteTrace(p)
    <2>1. /\ traces' = traces /\ published' = published
          /\ pc[p] \in {"opened", "dead"} => pc'[p] \in {"opened", "dead"}
          /\ pc[p] # "read" => at'[p] >= at[p]
          /\ pc[p] \in {"opened", "dead"} => at'[p] = at[p]
      BY <1>1, QuietStep
    <2>2. r = traces[s].by
      BY <2>1
    <2>3. TraceTells(s, r)
      BY <2>1, <2>2 DEF TracesTell
    <2>4. /\ pc'[r] # "idle" /\ command'[r] = command[r] /\ scenario'[r] = scenario[r]
          /\ facts' = facts
      BY <2>3, LocalsStep DEF TraceTells
    <2>5. s \in Late => published[r] \/ at'[r] > 7
      <3>1. CASE r = p
        <4>1. pc[p] = "read" => published[p]
          BY <2>3, <3>1 DEF TraceTells, Callers, Caller, Fixtures
        <4>2. at[p] \in 1..10
          BY <1>0
        <4>3. CASE published[p]
          BY <3>1, <4>3
        <4>4. CASE ~published[p]
          <5>1. s \in Late => at[p] > 7
            BY <2>3, <3>1, <4>4 DEF TraceTells
          <5>2. at'[p] >= at[p]
            BY <2>1, <4>1, <4>4
          <5>3. at'[p] \in 1..10
            BY TypeStep, WriteOrderIs DEF TypeOK
          <5>4. QED
            BY <3>1, <4>2, <5>1, <5>2, <5>3
        <4>5. QED
          BY <4>3, <4>4
      <3>2. CASE r # p
        BY <2>3, <3>2, LocalsStep DEF TraceTells
      <3>3. QED
        BY <3>1, <3>2
    <2>6. execution'[r] = execution[r] \/ s \notin Late
      <3>1. CASE r = p
        <4>1. SUFFICES ASSUME pc[p] \in Busy, at[p] = 6
                       PROVE  s \notin Late
          BY <3>1, LocalsStep
        <4>2. ~published[p]
          BY <4>1 DEF Callers, Caller, Busy, Settled
        <4>3. QED
          BY <2>3, <3>1, <4>1, <4>2 DEF TraceTells
      <3>2. CASE r # p
        BY <2>3, <3>2, LocalsStep DEF TraceTells
      <3>3. QED
        BY <3>1, <3>2
    <2>7. EventsOf(r, s)' = EventsOf(r, s)
      BY <2>4, <2>6, EventsStay
    <2>8. pc[r] \in {"opened", "dead"} =>
            pc'[r] \in {"opened", "dead"} /\ at'[r] = at[r]
      BY <2>1, <2>3, LocalsStep DEF TraceTells
    <2>9. QED
      BY <2>1, <2>3, <2>4, <2>5, <2>7, <2>8 DEF TraceTells, Target
  <1>2. CASE traces'[s] = traces[s] /\ traces[s].by # p
    <2>1. r = traces[s].by /\ r # p
      BY <1>2
    <2>2. TraceTells(s, r)
      BY <1>2, <2>1 DEF TracesTell
    <2>3. r \in Procs
      BY <2>2 DEF TraceTells
    <2>4. /\ pc'[r] = pc[r] /\ at'[r] = at[r] /\ command'[r] = command[r]
          /\ scenario'[r] = scenario[r] /\ facts' = facts
          /\ execution'[r] = execution[r] /\ published'[r] = published[r]
      BY <2>1, <2>3, LocalsStep
    <2>5. EventsOf(r, s)' = EventsOf(r, s)
      BY <2>4, EventsStay
    <2>6. QED
      BY <1>2, <2>2, <2>4, <2>5 DEF TraceTells, Target
  <1>3. ASSUME WritePresenceTrace(p) \/ OpenTrace(p) \/ WriteTrace(p)
        PROVE  /\ facts' = facts /\ scenario' = scenario /\ execution' = execution
               /\ command' = command /\ command[p] \in Fixtures
               /\ pc'[p] # "idle" /\ ~published[p] /\ EventsOf(p, s)' = EventsOf(p, s)
               /\ Target(p) \in SourceNames
    <2>1. /\ facts' = facts /\ scenario' = scenario /\ execution' = execution
          /\ command' = command /\ pc[p] \in Busy
      BY <1>3 DEF WritePresenceTrace, OpenTrace, WriteTrace, WritesTrace, Busy
    <2>2. command[p] \in Fixtures /\ ~published[p]
      BY <2>1 DEF Callers, Caller, Busy, Settled
    <2>3. pc'[p] # "idle"
      BY <2>1, LocalsStep DEF Busy
    <2>4. EventsOf(p, s)' = EventsOf(p, s)
      BY <2>1, EventsStay
    <2>5. Target(p) \in SourceNames
      BY <1>3 DEF WritePresenceTrace, OpenTrace, WriteTrace, WritesTrace, IInv, Places,
         Target
    <2>6. QED
      BY <2>1, <2>2, <2>3, <2>4, <2>5
  <1>4. CASE WritePresenceTrace(p) /\ r = p
    <2>1. /\ traces' = [traces EXCEPT ![Target(p)] =
                          [by |-> p, events |-> EventsOf(p, Target(p))]]
          /\ at' = [at EXCEPT ![p] = @ + 1] /\ pc' = pc /\ pc[p] = "write"
          /\ published' = published
      BY <1>4 DEF WritePresenceTrace, WritesTrace, history
    <2>2. at'[p] > at[p] /\ at[p] \in 1..10 /\ at'[p] \in Nat
      BY <1>0, <2>1
    <2>3. s \in Late => at'[p] > 7
      <3>1. CASE s = Target(p)
        BY <2>2, <3>1, LateIsLate DEF Target
      <3>2. CASE s # Target(p)
        <4>1. TraceTells(s, p)
          BY <1>0, <1>4, <2>1, <3>2 DEF TracesTell
        <4>2. QED
          BY <1>3, <1>4, <2>2, <4>1 DEF TraceTells
      <3>3. QED
        BY <3>1, <3>2
    <2>4. traces'[s].events = EventsOf(p, s)
      <3>1. CASE s = Target(p)
        BY <1>0, <2>1, <3>1
      <3>2. CASE s # Target(p)
        <4>1. TraceTells(s, p) /\ traces'[s] = traces[s]
          BY <1>0, <1>4, <2>1, <3>2 DEF TracesTell
        <4>2. QED
          BY <2>1, <4>1 DEF TraceTells
      <3>3. QED
        BY <3>1, <3>2
    <2>5. QED
      BY <1>3, <1>4, <2>3, <2>4 DEF TraceTells
  <1>5. CASE OpenTrace(p) /\ r = p
    <2>1. /\ traces' = [traces EXCEPT ![Target(p)] = [by |-> p, events |-> {}]]
          /\ at' = at /\ pc' = [pc EXCEPT ![p] = "opened"] /\ pc[p] = "write"
          /\ published' = published
      BY <1>5 DEF OpenTrace, WritesTrace, history
    <2>2. CASE s = Target(p)
      <3>1. s \in Late => at'[p] > 7
        BY <1>0, <2>1, <2>2, LateIsLate DEF Target
      <3>2. pc'[p] = "opened" /\ Target(p)' = s
        BY <1>0, <2>1, <2>2 DEF Target
      <3>3. QED
        BY <1>3, <1>5, <2>1, <3>1, <3>2 DEF TraceTells
    <2>3. CASE s # Target(p)
      <3>1. TraceTells(s, p) /\ traces'[s] = traces[s]
        BY <1>0, <1>5, <2>1, <2>3 DEF TracesTell
      <3>2. traces[s].events = EventsOf(p, s)
        BY <2>1, <3>1 DEF TraceTells
      <3>3. QED
        BY <1>3, <1>5, <2>1, <3>1, <3>2 DEF TraceTells
    <2>4. QED
      BY <2>2, <2>3
  <1>6. CASE WriteTrace(p) /\ r = p
    <2>1. /\ traces' = [traces EXCEPT ![Target(p)] =
                          [by |-> p, events |-> EventsOf(p, Target(p))]]
          /\ at' = [at EXCEPT ![p] = IF LastWrite(p) THEN 1 ELSE @ + 1]
          /\ pc[p] = "opened" /\ published' = [published EXCEPT ![p] = LastWrite(p)]
      BY <1>6 DEF WriteTrace
    <2>2. at[p] \in 1..10 /\ (published'[p] <=> LastWrite(p))
      BY <1>0, <2>1
    <2>3. ~LastWrite(p) => at'[p] = at[p] + 1
      BY <1>0, <2>1
    <2>4. s \in Late => published'[p] \/ at'[p] > 7
      <3>1. s \in Late => at[p] > 7
        <4>1. CASE s = Target(p)
          BY <2>2, <4>1, LateIsLate DEF Target
        <4>2. CASE s # Target(p)
          <5>1. TraceTells(s, p)
            BY <1>0, <1>6, <2>1, <4>2 DEF TracesTell
          <5>2. QED
            BY <1>3, <1>6, <5>1 DEF TraceTells
        <4>3. QED
          BY <4>1, <4>2
      <3>2. QED
        BY <2>2, <2>3, <3>1
    <2>5. traces'[s].events = EventsOf(p, s)
      <3>1. CASE s = Target(p)
        BY <1>0, <2>1, <3>1
      <3>2. CASE s # Target(p)
        <4>1. TraceTells(s, p) /\ traces'[s] = traces[s]
          BY <1>0, <1>6, <2>1, <3>2 DEF TracesTell
        <4>2. QED
          BY <3>2, <4>1 DEF TraceTells
      <3>3. QED
        BY <3>1, <3>2
    <2>6. QED
      BY <1>3, <1>6, <2>4, <2>5 DEF TraceTells
  <1>7. WritePresenceTrace(p) \/ OpenTrace(p) \/ WriteTrace(p) =>
          r = p \/ (traces'[s] = traces[s] /\ traces[s].by # p)
    <2>1. SUFFICES ASSUME WritePresenceTrace(p) \/ OpenTrace(p) \/ WriteTrace(p),
                          r # p
                   PROVE  traces'[s] = traces[s]
      OBVIOUS
    <2>2. \E e : traces' = [traces EXCEPT ![Target(p)] = [by |-> p, events |-> e]]
      BY <2>1, Zenon DEF WritePresenceTrace, OpenTrace, WriteTrace
    <2>3. PICK e : traces' = [traces EXCEPT ![Target(p)] = [by |-> p, events |-> e]]
      BY <2>2
    <2>4. QED
      BY <1>0, <2>1, <2>3
  <1>8. QED
    BY <1>1, <1>2, <1>4, <1>5, <1>6, <1>7

(* A copy in a command's bundle is an old one, or of what is on disk now.        *)
LEMMA CopyIsOldOrNew ==
  ASSUME IInv, NEW p \in Procs,
         Begin(p) \/ FixtureSteps(p) \/ ScriptSteps(p) \/ ReplaySteps(p) \/ Dies(p),
         NEW q \in Procs, NEW s \in DOMAIN bundle'[q]
  PROVE  \/ s \in DOMAIN bundle[q] /\ bundle'[q][s] = bundle[q][s]
         \/ /\ q = p /\ pc[p] = "read" /\ s \in SourceNames
            /\ traces[s].by # Nobody /\ bundle'[p][s] = traces[s]
  <1>0. DOMAIN bundle = Procs /\ at \in [Procs -> 1..10]
        /\ (pc[p] = "read" => at[p] <= 7)
    BY WriteOrderIs DEF IInv, TypeOK, NobodysFile, Places
  <1>1. CASE ReadSource(p)
    <2> DEFINE source == TraceSources[at[p]]
    <2>1. /\ pc[p] = "read"
          /\ bundle' = [bundle EXCEPT ![p] =
               IF traces[source].by = Nobody THEN @
               ELSE [x \in DOMAIN @ \cup {source} |->
                       IF x = source THEN traces[source] ELSE @[x]]]
      BY <1>1 DEF ReadSource
    <2>2. source \in SourceNames
      BY <1>0, <2>1, WriteOrderIs
    <2> HIDE DEF source
    <2>3. CASE q # p
      BY <1>0, <2>1, <2>3
    <2>4. CASE q = p /\ traces[source].by = Nobody
      BY <1>0, <2>1, <2>4
    <2>5. CASE q = p /\ traces[source].by # Nobody
      <3>1. bundle'[p] = [x \in DOMAIN bundle[p] \cup {source} |->
                            IF x = source THEN traces[source] ELSE bundle[p][x]]
        BY <1>0, <2>1, <2>5
      <3>2. s \in DOMAIN bundle[p] \cup {source}
        BY <2>5, <3>1
      <3>3. bundle'[p][s] = IF s = source THEN traces[source] ELSE bundle[p][s]
        BY <3>1, <3>2
      <3>4. CASE s = source
        BY <2>1, <2>2, <2>5, <3>3, <3>4
      <3>5. CASE s # source
        BY <2>5, <3>2, <3>3, <3>5
      <3>6. QED
        BY <3>4, <3>5
    <2>6. QED
      BY <2>3, <2>4, <2>5
  <1>2. CASE ReadHealthTrace(p)
    <2>1. CASE bundle' = bundle
      BY <2>1
    <2>2. CASE bundle' # bundle
      <3>1. /\ pc[p] = "read" /\ traces["runtime_health_trace"].by # Nobody
            /\ bundle' = [bundle EXCEPT ![p] =
                 [x \in {"runtime_health_trace"} |-> traces["runtime_health_trace"]]]
        BY <1>2, <2>2 DEF ReadHealthTrace
      <3>2. CASE q = p
        <4>1. bundle'[p] =
                [x \in {"runtime_health_trace"} |-> traces["runtime_health_trace"]]
          BY <1>0, <3>1
        <4>2. s = "runtime_health_trace"
          BY <3>2, <4>1
        <4>3. bundle'[p][s] = traces[s]
          BY <4>1, <4>2
        <4>4. QED
          BY <3>1, <3>2, <4>2, <4>3, WriteOrderIs
      <3>3. CASE q # p
        BY <1>0, <3>1, <3>3
      <3>4. QED
        BY <3>2, <3>3
    <2>3. QED
      BY <2>1, <2>2
  <1>3. CASE ~ReadSource(p) /\ ~ReadHealthTrace(p)
    <2>1. bundle' = bundle
      BY <1>3
         DEF FixtureSteps, ScriptSteps, ReplaySteps, Begin, WritePresenceTrace,
             OpenTrace, WriteTrace, RunnerNotInvoked, StartRunner, WaitForRunner,
             FoldRunnerState, LogMissing, WriteRunnerState, Dies, ScriptOpensLog,
             ScriptSkipsApplication, ScriptRunsPhase, ScriptOpensState,
             ScriptWritesState, ScriptKilled, scriptFrame
    <2>2. QED
      BY <2>1
  <1>4. QED
    BY <1>1, <1>2, <1>3

(* A command that writes no more says for ever what it said.                     *)
LEMMA SettledStays ==
  ASSUME IInv, NEW p \in Procs, NEW r \in Procs, NEW s \in SourceNames,
         Begin(p) \/ FixtureSteps(p) \/ ScriptSteps(p) \/ ReplaySteps(p) \/ Dies(p),
         pc[r] \in Settled
  PROVE  /\ pc'[r] \in Settled /\ published'[r] = published[r]
         /\ EventsOf(r, s)' = EventsOf(r, s)
  <1>1. pc[r] # "idle" /\ pc[r] \notin Busy
    BY DEF Settled, Busy
  <1>2. /\ facts' = facts /\ scenario'[r] = scenario[r] /\ execution'[r] = execution[r]
        /\ pc'[r] \in Settled /\ published'[r] = published[r]
    BY <1>1, LocalsStep
  <1>3. QED
    BY <1>2, EventsStay

(* Every step keeps the copies telling: a command that is read by one that is    *)
(* alone, or by itself, is through with writing.                                 *)
LEMMA BundlesStep ==
  ASSUME IInv, ReplayInv, NEW p \in Procs,
         Begin(p) \/ FixtureSteps(p) \/ ScriptSteps(p) \/ ReplaySteps(p) \/ Dies(p)
  PROVE  BundlesTell'
  <1> SUFFICES ASSUME NEW q \in Procs, NEW s \in DOMAIN bundle'[q], NEW r,
                      r = bundle'[q][s].by
               PROVE  CopyTells(q, s, r)'
    BY DEF BundlesTell
  <1>1. CASE s \in DOMAIN bundle[q] /\ bundle'[q][s] = bundle[q][s]
    <2>1. CopyTells(q, s, r) /\ r \in Procs /\ s \in SourceNames
      BY <1>1 DEF ReplayInv, BundlesTell, CopyTells, IInv, TypeOK
    <2>2. alone'[q] => alone[q]
      <3>1. pc[q] # "idle"
        BY <1>1 DEF ReplayInv, Callers, Caller
      <3>2. QED
        BY <3>1, LocalsStep
    <2>3. CASE r = q \/ alone[q]
      <3>1. pc[r] \in Settled /\ (published[r] => bundle[q][s].events = EventsOf(r, s))
        BY <2>1, <2>3 DEF CopyTells
      <3>2. /\ pc'[r] \in Settled /\ published'[r] = published[r]
            /\ EventsOf(r, s)' = EventsOf(r, s)
        BY <2>1, <3>1, SettledStays
      <3>3. QED
        BY <1>1, <2>1, <3>1, <3>2 DEF CopyTells
    <2>4. CASE ~(r = q \/ alone[q])
      BY <2>1, <2>2, <2>4 DEF CopyTells
    <2>5. QED
      BY <2>3, <2>4
  <1>2. CASE /\ q = p /\ pc[p] = "read" /\ s \in SourceNames
             /\ traces[s].by # Nobody /\ bundle'[p][s] = traces[s]
    <2>1. TraceTells(s, r) /\ r \in Procs /\ pc[r] # "idle"
      BY <1>2 DEF ReplayInv, TracesTell, TraceTells
    <2>2. alone'[p] = alone[p]
      BY <1>2, LocalsStep
    <2>3. CASE r = p \/ alone[p]
      <3>1. pc[r] \in Settled
        <4>1. CASE r = p
          BY <1>2, <4>1 DEF Settled
        <4>2. CASE r # p
          <5>1. ~Active(r)
            BY <1>2, <2>1, <2>3, <4>2 DEF ReplayInv, AloneIsAlone, Active
          <5>2. pc[r] \in Labels
            BY <2>1 DEF IInv, TypeOK
          <5>3. QED
            BY <2>1, <5>1, <5>2 DEF Active, Labels, Settled
        <4>3. QED
          BY <4>1, <4>2
      <3>2. published[r] => traces[s].events = EventsOf(r, s)
        BY <2>1 DEF TraceTells
      <3>3. /\ pc'[r] \in Settled /\ published'[r] = published[r]
            /\ EventsOf(r, s)' = EventsOf(r, s)
        BY <1>2, <2>1, <3>1, SettledStays
      <3>4. QED
        BY <1>2, <2>1, <3>2, <3>3 DEF CopyTells
    <2>4. CASE ~(r = p \/ alone[p])
      BY <1>2, <2>1, <2>2, <2>4 DEF CopyTells
    <2>5. QED
      BY <2>3, <2>4
  <1>3. QED
    BY <1>1, <1>2, CopyIsOldOrNew

LEMMA ReplayInvariance == Spec => []ReplayInv
  <1>1. Init => ReplayInv
    <2> SUFFICES ASSUME Init PROVE ReplayInv
      OBVIOUS
    <2>1. AloneIsAlone
      BY DEF Init, AloneIsAlone
    <2>2. Callers
      BY DEF Init, Callers, Caller, Busy
    <2>3. TracesTell
      BY DEF Init, TracesTell
    <2>4. BundlesTell
      BY DEF Init, BundlesTell
    <2>5. QED
      BY <2>1, <2>2, <2>3, <2>4 DEF ReplayInv
  <1>2. IInv /\ ReplayInv /\ [Next]_vars => ReplayInv'
    <2> SUFFICES ASSUME IInv, ReplayInv, [Next]_vars PROVE ReplayInv'
      OBVIOUS
    <2>1. CASE UNCHANGED vars
      <3>1. /\ facts' = facts /\ pc' = pc /\ at' = at /\ command' = command
            /\ scenario' = scenario /\ execution' = execution /\ bundle' = bundle
            /\ script' = script /\ traces' = traces /\ published' = published
            /\ alone' = alone
        BY <2>1 DEF vars, files, history
      <3>2. ASSUME NEW r, NEW s \in SourceNames
            PROVE  EventsOf(r, s)' = EventsOf(r, s)
        BY <3>1, EventsStay
      <3>3. AloneIsAlone' /\ Callers'
        BY <3>1 DEF ReplayInv, AloneIsAlone, Active, ScriptRunning, Callers, Caller
      <3>4. TracesTell'
        BY <3>1, <3>2 DEF ReplayInv, TracesTell, TraceTells, Target
      <3>5. \A q \in Procs : DOMAIN bundle[q] \subseteq SourceNames
        BY DEF IInv, TypeOK
      <3>6. BundlesTell'
        BY <3>1, <3>2, <3>5 DEF ReplayInv, BundlesTell, CopyTells
      <3>7. QED
        BY <3>3, <3>4, <3>6 DEF ReplayInv
    <2>2. CASE Next
      <3>1. PICK p \in Procs : Begin(p) \/ FixtureSteps(p) \/ ScriptSteps(p)
                               \/ ReplaySteps(p) \/ Dies(p)
        BY <2>2 DEF Next
      <3>2. AloneIsAlone'
        BY <3>1, AloneStep DEF ReplayInv
      <3>3. ASSUME NEW q \in Procs
            PROVE  Caller(q)'
        <4>1. CASE q = p
          BY <3>1, <4>1, CallerStep DEF ReplayInv, Callers
        <4>2. CASE q # p
          BY <3>1, <4>2, LocalsStep DEF ReplayInv, Callers, Caller
        <4>3. QED
          BY <4>1, <4>2
      <3>4. Callers'
        BY <3>3 DEF Callers
      <3>5. TracesTell'
        BY <3>1, TracesStep DEF ReplayInv
      <3>6. BundlesTell'
        BY <3>1, BundlesStep
      <3>7. QED
        BY <3>2, <3>4, <3>5, <3>6 DEF ReplayInv
    <2>3. QED
      BY <2>1, <2>2
  <1>3. QED
    BY <1>1, <1>2, Invariance, PTL DEF Spec

(* What a replay makes of a report's own trace and actions.                      *)
LEMMA TraceSaysReport ==
  ASSUME NEW h, NEW scenarioOf, NEW executionOf, NEW report,
         report = HealthReport(h, scenarioOf, executionOf)
  PROVE  /\ Failing(HealthTrace(report)) = report.failing_subsystems
         /\ Selected(HealthTrace(report)) = {a.action : a \in report.recovery_actions}
         /\ {e.action_name : e \in ActionEvents(report)} =
              {a.action : a \in report.recovery_actions}
         /\ report.overall_state =
              IF report.failing_subsystems = {} THEN "ready" ELSE "recovery_needed"
  <1> DEFINE failing == report.failing_subsystems
  <1>1. /\ failing \subseteq Subsystems
        /\ report.recovery_actions =
             {[subsystem |-> s, action |-> RecoveryAction[s], rank |-> ActionRank[s]] :
                s \in failing}
        /\ report.overall_state = IF failing = {} THEN "ready" ELSE "recovery_needed"
    BY DEF HealthReport
  <1>2. {a.action : a \in report.recovery_actions} = {RecoveryAction[s] : s \in failing}
    <2>1. ASSUME NEW a \in report.recovery_actions
          PROVE  \E s \in failing : a.action = RecoveryAction[s]
      <3>1. PICK s \in failing :
              a = [subsystem |-> s, action |-> RecoveryAction[s], rank |-> ActionRank[s]]
        BY <1>1
      <3>2. QED
        BY <3>1
    <2>2. ASSUME NEW s \in failing
          PROVE  \E a \in report.recovery_actions : RecoveryAction[s] = a.action
      <3>1. [subsystem |-> s, action |-> RecoveryAction[s], rank |-> ActionRank[s]]
              \in report.recovery_actions
        BY <1>1
      <3>2. QED
        BY <3>1
    <2>3. QED
      BY <2>1, <2>2
  <1>3. \A s \in Subsystems : RecoveryAction[s] # NoAction
    BY DEF Subsystems, RecoveryAction, NoAction
  <1>4. ASSUME NEW e \in HealthTrace(report)
        PROVE  /\ ~e.ready => e.subsystem \in failing
               /\ e.action # NoAction => e.subsystem \in failing
                                         /\ e.action = RecoveryAction[e.subsystem]
    <2>1. CASE \E s \in Subsystems :
                 e = [event_type |-> "health_recorded", subsystem |-> s,
                      ready |-> s \notin failing,
                      action |-> IF s \in failing THEN RecoveryAction[s] ELSE NoAction]
      <3>1. PICK s \in Subsystems :
              /\ e.subsystem = s /\ e.ready = (s \notin failing)
              /\ e.action = IF s \in failing THEN RecoveryAction[s] ELSE NoAction
        BY <2>1
      <3>2. QED
        BY <3>1
    <2>2. CASE \E s \in failing :
                 e = [event_type |-> "recovery_selected", subsystem |-> s,
                      ready |-> FALSE, action |-> RecoveryAction[s]]
      BY <2>2
    <2>3. QED
      BY <2>1, <2>2 DEF HealthTrace
  <1>5. ASSUME NEW s \in failing
        PROVE  \E e \in HealthTrace(report) :
                 ~e.ready /\ e.subsystem = s /\ e.action = RecoveryAction[s]
    <2> DEFINE e == [event_type |-> "recovery_selected", subsystem |-> s,
                     ready |-> FALSE, action |-> RecoveryAction[s]]
    <2>1. e \in HealthTrace(report)
      BY DEF HealthTrace
    <2>2. ~e.ready /\ e.subsystem = s /\ e.action = RecoveryAction[s]
      OBVIOUS
    <2>3. QED
      BY <2>1, <2>2
  <1> HIDE DEF failing
  <1>6. Failing(HealthTrace(report)) = failing
    <2>1. \A x \in Failing(HealthTrace(report)) : x \in failing
      BY <1>4 DEF Failing
    <2>2. \A x \in failing : x \in Failing(HealthTrace(report))
      BY <1>5 DEF Failing
    <2>3. QED
      BY <2>1, <2>2
  <1>7. Selected(HealthTrace(report)) = {RecoveryAction[s] : s \in failing}
    <2>1. \A x \in Selected(HealthTrace(report)) : \E s \in failing : x = RecoveryAction[s]
      BY <1>4 DEF Selected
    <2>2. ASSUME NEW s \in failing
          PROVE  RecoveryAction[s] \in Selected(HealthTrace(report))
      <3>1. RecoveryAction[s] # NoAction
        BY <1>1, <1>3
      <3>2. QED
        BY <1>5, <3>1 DEF Selected
    <2>3. QED
      BY <2>1, <2>2
  <1>8. {e.action_name : e \in ActionEvents(report)} =
          {a.action : a \in report.recovery_actions}
    <2>1. ASSUME NEW e \in ActionEvents(report)
          PROVE  \E a \in report.recovery_actions : e.action_name = a.action
      BY DEF ActionEvents
    <2>2. ASSUME NEW a \in report.recovery_actions
          PROVE  \E e \in ActionEvents(report) : a.action = e.action_name
      <3>1. [action_name |-> a.action] \in ActionEvents(report)
        BY DEF ActionEvents
      <3>2. QED
        BY <3>1
    <2>3. QED
      BY <2>1, <2>2
  <1>9. QED
    BY <1>1, <1>2, <1>6, <1>7, <1>8 DEF failing

(* A target that was not resolved leaves the DEX record failing.                 *)
LEMMA UnresolvedFails ==
  ASSUME NEW h, NEW scenarioOf, NEW executionOf, NEW e \in ResolutionEvents(h.chain),
         ~e.resolved_in_dex, h.chain.dex
  PROVE  HealthReport(h, scenarioOf, executionOf).failing_subsystems # {}
  <1>1. UnresolvedTargets(h.chain) # {}
    <2>1. PICK c \in h.chain.targets :
            e = [class_name |-> c, resolved_in_dex |-> c \in ResolvedTargets(h.chain)]
      BY DEF ResolutionEvents
    <2>2. e.resolved_in_dex = (c \in ResolvedTargets(h.chain))
      BY <2>1
    <2>3. c \notin ResolvedTargets(h.chain)
      BY <2>2
    <2>4. QED
      BY <2>3 DEF UnresolvedTargets
  <1>2. ~RuntimeClassResolutionSucceeded(h.chain)
    BY <1>1 DEF RuntimeClassResolutionSucceeded, ProbeAttempted, OfflineResolutionReady
  <1>3. DexState(h.chain) = "blocked"
    BY <1>1, <1>2 DEF DexState
  <1>4. "dex_classloader_readiness" \in Subsystems
    BY DEF Subsystems
  <1>5. RecordStates(h, scenarioOf, executionOf)["dex_classloader_readiness"] = "blocked"
    BY <1>3 DEF RecordStates
  <1>6. ~Ready(RecordStates(h, scenarioOf, executionOf)["dex_classloader_readiness"])
    BY <1>5 DEF Ready
  <1>7. QED
    BY <1>4, <1>6 DEF HealthReport

(* What one replay has read is what the run would write again.                   *)
LEMMA CopyIsTheEvents ==
  ASSUME ReplayInv, NEW p \in Procs, NEW r \in Procs, NEW s \in DOMAIN bundle[p],
         bundle[p][s].by = r, published[r], r = p \/ alone[p]
  PROVE  bundle[p][s].events = EventsOf(r, s)
  BY DEF ReplayInv, BundlesTell, CopyTells

(* BundleTellsItsRun: for any interleaving of commands and scripts, a bundle that *)
(* holds one run's seven traces is replayed to that run's own findings            *)
(* (ReplayRuntimeDiagnosticBundle against RunRuntimeHealthFixture).              *)
THEOREM BundlesTellTheirRun == Spec => []BundleTellsItsRun
  <1>1. IInv /\ ReplayInv => BundleTellsItsRun
    <2> SUFFICES ASSUME IInv, ReplayInv, NEW p \in Procs, NEW r \in Procs,
                        ReadsTheRun(p, r)
                 PROVE  /\ Verdict(p).missing_trace_sources = {}
                        /\ Verdict(p).failing_subsystems = Report(r).failing_subsystems
                        /\ Verdict(p).selected_actions =
                             {a.action : a \in Report(r).recovery_actions}
                        /\ facts.chain.dex =>
                             Verdict(p).overall_state = Report(r).overall_state
      BY DEF BundleTellsItsRun
    <2> DEFINE events   == [s \in DOMAIN bundle[p] |-> bundle[p][s].events]
               rep      == Report(r)
               failing  == Failing(events["runtime_health_trace"])
               selected == Selected(events["runtime_health_trace"])
               acted    == {e.action_name : e \in events["runtime_recovery_actions"]}
               unresolved == {e.class_name :
                                e \in {x \in events["art_class_resolution_trace"] :
                                         ~x.resolved_in_dex}}
    <2>1. /\ {"runtime_health_trace", "runtime_recovery_actions",
              "art_class_resolution_trace"} \subseteq SourceNames
          /\ DOMAIN events = SourceNames /\ DOMAIN bundle[p] = SourceNames
      <3>1. SourceNames = {TraceSources[i] : i \in 1..7}
        BY DEF SourceNames, TraceSources
      <3>2. /\ TraceSources[1] = "runtime_health_trace"
            /\ TraceSources[2] = "runtime_recovery_actions"
            /\ TraceSources[4] = "art_class_resolution_trace"
        BY DEF TraceSources
      <3>3. 1 \in 1..7 /\ 2 \in 1..7 /\ 4 \in 1..7
        OBVIOUS
      <3>4. QED
        BY <3>1, <3>2, <3>3 DEF ReadsTheRun
    <2>2. \A s \in SourceNames : events[s] = EventsOf(r, s)
      BY <2>1, CopyIsTheEvents DEF ReadsTheRun
    <2>3. /\ events["runtime_health_trace"] = HealthTrace(rep)
          /\ events["runtime_recovery_actions"] = ActionEvents(rep)
          /\ events["art_class_resolution_trace"] = ResolutionEvents(facts.chain)
      BY <2>1, <2>2 DEF EventsOf
    <2>4. /\ Verdict(p).missing_trace_sources = SourceNames \ DOMAIN events
          /\ Verdict(p).failing_subsystems = failing
          /\ Verdict(p).selected_actions = selected \cup acted
          /\ Verdict(p).overall_state =
               IF SourceNames \ DOMAIN events # {} THEN "incomplete"
               ELSE IF failing # {} \/ unresolved # {} THEN "recovery_needed"
               ELSE "ready"
      BY <2>1 DEF Verdict, DiagnosticReplay
    <2> HIDE DEF events
    <2>5. rep = HealthReport(facts, scenario[r], execution[r])
      BY DEF Report
    <2> HIDE DEF rep
    <2>6. /\ failing = rep.failing_subsystems
          /\ selected = {a.action : a \in rep.recovery_actions}
          /\ acted = {a.action : a \in rep.recovery_actions}
          /\ rep.overall_state =
               IF rep.failing_subsystems = {} THEN "ready" ELSE "recovery_needed"
      BY <2>3, <2>5, TraceSaysReport
    <2>7. facts.chain.dex /\ unresolved # {} => rep.failing_subsystems # {}
      <3>1. SUFFICES ASSUME facts.chain.dex, unresolved # {}
                     PROVE  rep.failing_subsystems # {}
        OBVIOUS
      <3>2. PICK e \in ResolutionEvents(facts.chain) : ~e.resolved_in_dex
        BY <2>3, <3>1
      <3>3. QED
        BY <2>5, <3>1, <3>2, UnresolvedFails
    <2>8. SourceNames \ DOMAIN events = {}
      BY <2>1
    <2> HIDE DEF failing, selected, acted, unresolved
    <2>9. QED
      BY <2>4, <2>6, <2>7, <2>8 DEF rep
  <1>2. QED
    BY <1>1, Invariance, ReplayInvariance, PTL

(* HealthReplayTellsItsRun: native-runtime-health-replay, left alone, repeats the *)
(* findings of the run whose trace it reads (ReplayRuntimeHealthTrace).          *)
THEOREM HealthReplaysTellTheirRun == Spec => []HealthReplayTellsItsRun
  <1>1. ReplayInv => HealthReplayTellsItsRun
    <2> SUFFICES ASSUME ReplayInv, NEW p \in Procs, NEW r \in Procs,
                        pc[p] = "done", command[p] = "health_replay",
                        bundle[p]["runtime_health_trace"].by = r, published[r], alone[p]
                 PROVE  LET v == HealthReplay(bundle[p]["runtime_health_trace"].events)
                        IN /\ v.overall_state = Report(r).overall_state
                           /\ v.failing_subsystems = Report(r).failing_subsystems
                           /\ v.selected_actions =
                                {a.action : a \in Report(r).recovery_actions}
      BY DEF HealthReplayTellsItsRun
    <2> DEFINE read == bundle[p]["runtime_health_trace"].events
               rep  == Report(r)
    <2>1. "runtime_health_trace" \in DOMAIN bundle[p]
      BY DEF ReplayInv, Callers, Caller
    <2>2. read = EventsOf(r, "runtime_health_trace")
      BY <2>1, CopyIsTheEvents
    <2>3. read = HealthTrace(rep)
      BY <2>2 DEF EventsOf
    <2>4. rep = HealthReport(facts, scenario[r], execution[r])
      BY DEF Report
    <2> HIDE DEF read, rep
    <2>5. /\ Failing(read) = rep.failing_subsystems
          /\ Selected(read) = {a.action : a \in rep.recovery_actions}
          /\ rep.overall_state =
               IF rep.failing_subsystems = {} THEN "ready" ELSE "recovery_needed"
      BY <2>3, <2>4, TraceSaysReport
    <2>6. /\ HealthReplay(read).overall_state = rep.overall_state
          /\ HealthReplay(read).failing_subsystems = rep.failing_subsystems
          /\ HealthReplay(read).selected_actions =
               {a.action : a \in rep.recovery_actions}
      BY <2>5 DEF HealthReplay
    <2>7. QED
      BY <2>6 DEF read, rep
  <1>2. QED
    BY <1>1, ReplayInvariance, PTL
================================================================================
