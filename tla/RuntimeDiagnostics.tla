--------------------------- MODULE RuntimeDiagnostics ---------------------------
(* The diagnostic commands over one session root: native-runtime-health-fixture, *)
(* native-runtime-diagnostic-fixture, native-runtime-diagnostic-replay and       *)
(* native-runtime-health-replay (src/main.cpp, src/runtime_health.cpp), with the *)
(* shell script the bootstrap execution generates and runs                       *)
(* (src/art_bootstrap_execution_fixture.cpp).                                    *)
(*                                                                               *)
(* Every command writes the same files, one after another, each by truncating it *)
(* first; nothing removes what an earlier command left, and nothing keeps two    *)
(* commands apart.  A script outlives a command that dies while waiting for it.  *)
EXTENDS RuntimeHealth

CONSTANTS
  Procs,          \* commands run in this session root, one each
  Nobody,         \* the author of a file nobody has written
  PackageFacts,   \* bound: the packages and hosts considered
  RunCommands(_),   \* bound: the commands run for a package
  RunScenarios(_),  \* bound: the scenarios asked for
  PhaseOutcomes(_)  \* bound: what the script's two commands may do

Commands == {"health", "diagnostic", "diagnostic_replay", "health_replay"}

ASSUME DiagnosticsAssumption ==
  /\ Nobody \notin Procs
  /\ PackageFacts \subseteq HealthFacts
  /\ \A f \in PackageFacts :
       /\ RunCommands(f) \subseteq Commands
       /\ RunScenarios(f) \subseteq Scenarios /\ "baseline" \in RunScenarios(f)
       /\ PhaseOutcomes(f) \subseteq ProbeOutcomes

VARIABLES
  facts,        \* the package and the host
  pc,           \* where each command is
  at,           \* index of its next write or read
  command,      \* what it was asked
  scenario,     \* and with which scenario
  execution,    \* its bootstrap execution report
  believed,     \* the runner state that report was made from
  bundle,       \* the trace sources its replay has read
  script,       \* the runner script of each command
  outcome,      \* what the script's phases did
  traces,       \* the seven trace files
  runnerState,  \* bootstrap-execution-runner-state.json
  logs,         \* the two phase logs
  published,    \* history: the command has written all its traces
  fresh,        \* history: it began without a runner-state file
  alone         \* history: no other command or script was around when it began,
                \* and none began before it was over

files   == <<traces, runnerState, logs>>
history == <<published, fresh, alone>>
vars == <<facts, pc, at, command, scenario, execution, believed, bundle, script,
          outcome, files, history>>

Phases   == {"application", "activity"}

NoExecution ==
  [runner_invoked |-> FALSE, execution_attempted |-> FALSE,
   execution_succeeded |-> FALSE, exit_reason |-> "none"]
NoOutcome == "not_run"

(* The order in which the fixtures write what is read again later.  The smoke    *)
(* runs the class loader fixture a second time.                                  *)
WriteOrder ==
  <<"art_classloader_trace", "art_class_resolution_trace", "art_classloader_trace",
    "art_runtime_smoke_trace", "art_activity_bootstrap_trace", "runner",
    "runner_state", "art_bootstrap_execution_trace", "runtime_health_trace",
    "runtime_recovery_actions">>

Init ==
  /\ facts \in PackageFacts
  /\ pc = [p \in Procs |-> "idle"]
  /\ at = [p \in Procs |-> 1]
  /\ command = [p \in Procs |-> "none"]
  /\ scenario = [p \in Procs |-> "baseline"]
  /\ execution = [p \in Procs |-> NoExecution]
  /\ believed = [p \in Procs |-> NoRunnerState]
  /\ bundle = [p \in Procs |-> <<>>]
  /\ script = [p \in Procs |-> "none"]
  /\ outcome = [p \in Procs |-> [x \in Phases |-> NoOutcome]]
  /\ traces = [s \in SourceNames |-> [by |-> Nobody, events |-> {}]]
  /\ runnerState = [by |-> Nobody, state |-> NoRunnerState]
  /\ logs = [x \in Phases |-> [by |-> Nobody, says |-> "failed"]]
  /\ published = [p \in Procs |-> FALSE]
  /\ fresh = [p \in Procs |-> FALSE]
  /\ alone = [p \in Procs |-> FALSE]

--------------------------------------------------------------------------------
(* A command begins.                                                             *)

Active(p)        == pc[p] \in {"write", "opened", "wait", "fold", "read"}
ScriptRunning(p) == script[p] \notin {"none", "ended", "killed"}
NobodyAround     == \A q \in Procs : ~Active(q) /\ ~ScriptRunning(q)

(* main's dispatch: the replays take no scenario and read at once, the fixtures  *)
(* write first.                                                                  *)
Begin(p) ==
  /\ pc[p] = "idle"
  /\ \E c \in RunCommands(facts), s \in RunScenarios(facts) :
       /\ c \in {"diagnostic_replay", "health_replay"} => s = "baseline"
       /\ command' = [command EXCEPT ![p] = c]
       /\ scenario' = [scenario EXCEPT ![p] = s]
       /\ pc' = [pc EXCEPT ![p] = IF c \in {"health", "diagnostic"} THEN "write"
                                                                     ELSE "read"]
  /\ fresh' = [fresh EXCEPT ![p] = runnerState.by = Nobody]
  /\ alone' = [q \in Procs |-> IF q = p THEN NobodyAround
                                 ELSE alone[q] /\ ~Active(q)]
  /\ UNCHANGED <<facts, at, execution, believed, bundle, script, outcome, files,
                 published>>

--------------------------------------------------------------------------------
(* The fixture chain's writes.                                                   *)

Target(p)       == WriteOrder[at[p]]
WritesTrace(p)  == pc[p] = "write" /\ Target(p) \in SourceNames
Report(p)       == HealthReport(facts, scenario[p], execution[p])

(* What the command puts into each file.                                         *)
EventsOf(p, source) ==
  CASE source = "runtime_health_trace"       -> HealthTrace(Report(p))
    [] source = "runtime_recovery_actions"   -> ActionEvents(Report(p))
    [] source = "art_classloader_trace"      -> ClassloaderEvents(facts.chain)
    [] source = "art_class_resolution_trace" -> ResolutionEvents(facts.chain)
    [] source = "art_runtime_smoke_trace"    -> SmokeEvents(facts.chain)
    [] source = "art_activity_bootstrap_trace" ->
         {[exit_reason |-> BootstrapReason(facts.chain)]}
    [] source = "art_bootstrap_execution_trace" ->
         {[exit_reason |-> execution[p].exit_reason]}

(* Of these traces the replays use only that the file is there; whether it has   *)
(* been filled yet makes no difference to anybody.                               *)
PresenceOnly ==
  {"art_classloader_trace", "art_activity_bootstrap_trace",
   "art_bootstrap_execution_trace"}

WritePresenceTrace(p) ==
  /\ WritesTrace(p) /\ Target(p) \in PresenceOnly
  /\ traces' = [traces EXCEPT ![Target(p)] =
                  [by |-> p, events |-> EventsOf(p, Target(p))]]
  /\ at' = [at EXCEPT ![p] = @ + 1]
  /\ UNCHANGED <<facts, pc, command, scenario, execution, believed, bundle, script,
                 outcome, runnerState, logs, history>>

(* std::ofstream truncates the file it opens ...                                 *)
OpenTrace(p) ==
  /\ WritesTrace(p) /\ Target(p) \notin PresenceOnly
  /\ traces' = [traces EXCEPT ![Target(p)] = [by |-> p, events |-> {}]]
  /\ pc' = [pc EXCEPT ![p] = "opened"]
  /\ UNCHANGED <<facts, at, command, scenario, execution, believed, bundle, script,
                 outcome, runnerState, logs, history>>

LastWrite(p) == at[p] = Len(WriteOrder)

\* Mutant: the index is not reset before the replay reads.
WriteTraceRunsOn(p) ==
  /\ pc[p] = "opened"
  /\ traces' = [traces EXCEPT ![Target(p)] =
                  [by |-> p, events |-> EventsOf(p, Target(p))]]
  /\ pc' = [pc EXCEPT ![p] = IF LastWrite(p) THEN "done" ELSE "write"]
  /\ at' = [at EXCEPT ![p] = @ + 1]
  /\ published' = [published EXCEPT ![p] = LastWrite(p)]
  /\ UNCHANGED <<facts, command, scenario, execution, believed, bundle, script,
                 outcome, runnerState, logs, fresh, alone>>

(* ... and the contents follow.  After the last file the diagnostic fixture goes *)
(* on to replay what it finds on disk.                                           *)
WriteTrace(p) ==
  /\ pc[p] = "opened"
  /\ traces' = [traces EXCEPT ![Target(p)] =
                  [by |-> p, events |-> EventsOf(p, Target(p))]]
  /\ pc' = [pc EXCEPT ![p] = IF ~LastWrite(p) THEN "write"
                             ELSE IF command[p] = "diagnostic" THEN "read"
                             ELSE "done"]
  /\ at' = [at EXCEPT ![p] = IF LastWrite(p) THEN 1 ELSE @ + 1]
  /\ published' = [published EXCEPT ![p] = LastWrite(p)]
  /\ UNCHANGED <<facts, command, scenario, execution, believed, bundle, script,
                 outcome, runnerState, logs, fresh, alone>>

(* The ladder blocked the runner: both logs say that the phase was not attempted.*)
RunnerNotInvoked(p) ==
  /\ pc[p] = "write" /\ Target(p) = "runner"
  /\ ~RunnerInvoked(facts.chain)
  /\ execution' = [execution EXCEPT ![p] = NotInvokedExecution(facts.chain)]
  /\ logs' = [x \in Phases |-> [by |-> p, says |-> "failed"]]
  /\ at' = [at EXCEPT ![p] = @ + 1]
  /\ UNCHANGED <<facts, pc, command, scenario, believed, bundle, script, outcome,
                 traces, runnerState, history>>

(* The script is written and started; state file and logs stay as they are.      *)
StartRunner(p) ==
  /\ pc[p] = "write" /\ Target(p) = "runner"
  /\ RunnerInvoked(facts.chain)
  /\ script' = [script EXCEPT ![p] = "application_log"]
  /\ pc' = [pc EXCEPT ![p] = "wait"]
  /\ UNCHANGED <<facts, at, command, scenario, execution, believed, bundle, outcome,
                 files, history>>

(* pclose returns when the script is gone; how it ended is not looked at.        *)
WaitForRunner(p) ==
  /\ pc[p] = "wait" /\ ~ScriptRunning(p)
  /\ pc' = [pc EXCEPT ![p] = "fold"]
  /\ UNCHANGED <<facts, at, command, scenario, execution, believed, bundle, script,
                 outcome, files, history>>

(* The state file, if there is one, and the two logs.                            *)
FoldRunnerState(p) ==
  /\ pc[p] = "fold"
  /\ \A x \in Phases : logs[x].by # Nobody
  /\ execution' = [execution EXCEPT ![p] =
       ExecutionReport(runnerState.state, logs["application"].says,
                       logs["activity"].says)]
  /\ believed' = [believed EXCEPT ![p] = runnerState.state]
  /\ pc' = [pc EXCEPT ![p] = "write"]
  /\ at' = [at EXCEPT ![p] = @ + 1]
  /\ UNCHANGED <<facts, command, scenario, bundle, script, outcome, files, history>>

(* ReadTextFile throws for a log that does not exist.                            *)
LogMissing(p) ==
  /\ pc[p] = "fold"
  /\ \E x \in Phases : logs[x].by = Nobody
  /\ pc' = [pc EXCEPT ![p] = "threw"]
  /\ UNCHANGED <<facts, at, command, scenario, execution, believed, bundle, script,
                 outcome, files, history>>

(* The command writes back what it believed.                                     *)
WriteRunnerState(p) ==
  /\ pc[p] = "write" /\ Target(p) = "runner_state"
  /\ runnerState' = [by |-> p, state |-> believed[p]]
  /\ at' = [at EXCEPT ![p] = @ + 1]
  /\ UNCHANGED <<facts, pc, command, scenario, execution, believed, bundle, script,
                 outcome, traces, logs, history>>

--------------------------------------------------------------------------------
(* The script (BuildRunnerScript).                                               *)

LogPhase(step)  == IF step \in {"application_log", "application"} THEN "application"
                                                                  ELSE "activity"
scriptFrame == <<facts, pc, at, command, scenario, execution, believed, bundle,
                 traces, history>>

(* A phase's output is redirected: the shell truncates the log first.            *)
ScriptOpensLog(p) ==
  /\ script[p] \in {"application_log", "activity_log"}
  /\ logs' = [logs EXCEPT ![LogPhase(script[p])] = [by |-> p, says |-> "failed"]]
  /\ script' = [script EXCEPT ![p] = LogPhase(@)]
  /\ UNCHANGED <<scriptFrame, outcome, runnerState>>

AfterPhase(step) == IF step = "application" THEN "activity_log" ELSE "state_open"

(* An application phase that is not required only prints so.                     *)
ScriptSkipsApplication(p) ==
  /\ script[p] = "application" /\ ~facts.chain.application
  /\ script' = [script EXCEPT ![p] = AfterPhase(@)]
  /\ UNCHANGED <<scriptFrame, outcome, logs, runnerState>>

(* A failed application phase does not keep the activity phase from running.     *)
ScriptRunsPhase(p) ==
  /\ \/ script[p] = "activity"
     \/ script[p] = "application" /\ facts.chain.application
  /\ \E o \in PhaseOutcomes(facts) :
       /\ outcome' = [outcome EXCEPT ![p][script[p]] = o]
       /\ logs' = [logs EXCEPT ![script[p]] = [by |-> p, says |-> o]]
  /\ script' = [script EXCEPT ![p] = AfterPhase(@)]
  /\ UNCHANGED <<scriptFrame, runnerState>>

ScriptOpensState(p) ==
  /\ script[p] = "state_open"
  /\ runnerState' = [by |-> p, state |-> NoRunnerState]
  /\ script' = [script EXCEPT ![p] = "state_write"]
  /\ UNCHANGED <<scriptFrame, outcome, logs>>

ExitOf(o) == IF o = NoOutcome THEN -1 ELSE PhaseExit(o)

ScriptWritesState(p) ==
  /\ script[p] = "state_write"
  /\ runnerState' = [by |-> p, state |->
       [application_attempted |-> facts.chain.application,
        application_exit      |-> ExitOf(outcome[p]["application"]),
        activity_attempted    |-> TRUE,
        activity_exit         |-> ExitOf(outcome[p]["activity"])]]
  /\ script' = [script EXCEPT ![p] = "ended"]
  /\ UNCHANGED <<scriptFrame, outcome, logs>>

(* A signal, the OOM killer, or a script that cannot be executed at all.         *)
ScriptKilled(p) ==
  /\ ScriptRunning(p)
  /\ script' = [script EXCEPT ![p] = "killed"]
  /\ UNCHANGED <<scriptFrame, outcome, logs, runnerState>>

--------------------------------------------------------------------------------
(* The replays.                                                                  *)

readFrame == <<facts, command, scenario, execution, believed, script, outcome,
               files, history>>

(* ReplayRuntimeDiagnosticBundle reads source after source; one that does not    *)
(* exist is left out.  What follows writes files nobody reads.                   *)
ReadSource(p) ==
  /\ pc[p] = "read" /\ command[p] # "health_replay"
  /\ LET source == TraceSources[at[p]]
     IN bundle' = [bundle EXCEPT ![p] =
          IF traces[source].by = Nobody THEN @
          ELSE [x \in DOMAIN @ \cup {source} |->
                  IF x = source THEN traces[source] ELSE @[x]]]
  /\ IF at[p] = Len(TraceSources)
       THEN pc' = [pc EXCEPT ![p] = "done"] /\ UNCHANGED at
       ELSE at' = [at EXCEPT ![p] = @ + 1] /\ UNCHANGED pc
  /\ UNCHANGED readFrame

(* ReplayRuntimeHealthTrace: one file, and without it an error.                  *)
ReadHealthTrace(p) ==
  /\ pc[p] = "read" /\ command[p] = "health_replay"
  /\ LET trace == traces["runtime_health_trace"]
     IN \/ /\ trace.by # Nobody
           /\ bundle' = [bundle EXCEPT ![p] =
                           [x \in {"runtime_health_trace"} |-> trace]]
           /\ pc' = [pc EXCEPT ![p] = "done"]
        \/ /\ trace.by = Nobody
           /\ pc' = [pc EXCEPT ![p] = "threw"]
           /\ UNCHANGED bundle
  /\ UNCHANGED <<readFrame, at>>

(* The command is killed; its script, if it runs, runs on.                       *)
Dies(p) ==
  /\ Active(p)
  /\ pc' = [pc EXCEPT ![p] = "dead"]
  /\ UNCHANGED <<readFrame, at, bundle>>

FixtureSteps(p) ==
  \/ WritePresenceTrace(p) \/ OpenTrace(p) \/ WriteTrace(p)
  \/ RunnerNotInvoked(p) \/ StartRunner(p)
  \/ WaitForRunner(p) \/ FoldRunnerState(p) \/ LogMissing(p) \/ WriteRunnerState(p)
ScriptSteps(p) ==
  \/ ScriptOpensLog(p) \/ ScriptSkipsApplication(p) \/ ScriptRunsPhase(p)
  \/ ScriptOpensState(p) \/ ScriptWritesState(p) \/ ScriptKilled(p)
ReplaySteps(p) == ReadSource(p) \/ ReadHealthTrace(p)

Next ==
  \E p \in Procs :
    Begin(p) \/ FixtureSteps(p) \/ ScriptSteps(p) \/ ReplaySteps(p) \/ Dies(p)

Spec == Init /\ [][Next]_vars

--------------------------------------------------------------------------------
(* Properties.                                                                   *)

Verdict(p) == DiagnosticReplay([s \in DOMAIN bundle[p] |-> bundle[p][s].events])

Labels ==
  {"idle", "write", "opened", "wait", "fold", "read", "done", "threw", "dead"}
ScriptPlaces ==
  {"none", "application_log", "application", "activity_log", "activity",
   "state_open", "state_write", "ended", "killed"}

RunnerStates ==
  [application_attempted : BOOLEAN, application_exit : PhaseExits,
   activity_attempted : BOOLEAN, activity_exit : PhaseExits]

(* Every variable keeps its type (the commands' locals and the session's files). *)
TypeOK ==
  /\ facts \in PackageFacts
  /\ pc \in [Procs -> Labels]
  /\ at \in [Procs -> 1..Len(WriteOrder)]
  /\ command \in [Procs -> Commands \cup {"none"}]
  /\ scenario \in [Procs -> Scenarios]
  /\ believed \in [Procs -> RunnerStates]
  /\ script \in [Procs -> ScriptPlaces]
  /\ outcome \in [Procs -> [Phases -> ProbeOutcomes \cup {NoOutcome}]]
  /\ \A p \in Procs : DOMAIN bundle[p] \subseteq SourceNames
  /\ \A s \in SourceNames : traces[s].by \in Procs \cup {Nobody}
  /\ runnerState \in [by : Procs \cup {Nobody}, state : RunnerStates]
  /\ logs \in [Phases -> [by : Procs \cup {Nobody}, says : ProbeOutcomes]]
  /\ published \in [Procs -> BOOLEAN]
  /\ fresh \in [Procs -> BOOLEAN]
  /\ alone \in [Procs -> BOOLEAN]

(* All that p's replay read was written by r, which was not being rewritten.     *)
ReadsTheRun(p, r) ==
  /\ pc[p] = "done" /\ command[p] \in {"diagnostic", "diagnostic_replay"}
  /\ DOMAIN bundle[p] = SourceNames
  /\ \A s \in SourceNames : bundle[p][s].by = r
  /\ published[r]
  /\ r = p \/ alone[p]

(* A replay of what one run wrote says what that run said: it calls the bundle   *)
(* complete, names the same failing subsystems and actions and, for a package    *)
(* with DEX entries, gives the same verdict.  The trace of a forced scenario or  *)
(* of an earlier run never shows through (README.md:1079, CHANGELOG.md:658).     *)
BundleTellsItsRun ==
  \A p, r \in Procs : ReadsTheRun(p, r) =>
    LET v == Verdict(p)
    IN /\ v.missing_trace_sources = {}
       /\ v.failing_subsystems = Report(r).failing_subsystems
       /\ v.selected_actions = {a.action : a \in Report(r).recovery_actions}
       /\ facts.chain.dex => v.overall_state = Report(r).overall_state

(* native-runtime-health-replay of a trace that one run wrote whole agrees with  *)
(* that run's report on verdict, failing subsystems and actions.                 *)
HealthReplayTellsItsRun ==
  \A p, r \in Procs :
    /\ pc[p] = "done" /\ command[p] = "health_replay"
    /\ bundle[p]["runtime_health_trace"].by = r /\ published[r] /\ alone[p]
    => LET v == HealthReplay(bundle[p]["runtime_health_trace"].events)
       IN /\ v.overall_state = Report(r).overall_state
          /\ v.failing_subsystems = Report(r).failing_subsystems
          /\ v.selected_actions = {a.action : a \in Report(r).recovery_actions}

(* In a health report a later step of the ART chain is never ready while an      *)
(* earlier one is not: execution needs the activity plan and class resolution.   *)
LaterStepNeedsEarlier ==
  \A p \in Procs : published[p] =>
    LET state == Report(p).state
    IN Ready(state.bootstrap_execution_readiness) =>
         /\ Ready(state.activity_bootstrap_readiness)
         /\ Ready(state.dex_classloader_readiness)

(* Three encodings of "nothing is missing", kept apart in two files, agree: the  *)
(* list of missing dependencies, the reason ladder of the activity bootstrap and *)
(* the ladder that decides whether the runner is started; and the reason that    *)
(* the runtime smoke reports says a class was resolved just when the flag does.  *)
EncodingsAgree ==
  LET f == facts.chain
      nothingMissing == MissingDependencies(f) = {}
  IN /\ nothingMissing <=>
          BootstrapReason(f) = "activity_bootstrap_execution_deferred"
     /\ nothingMissing <=> RunnerInvoked(f)
     /\ RuntimeClassResolutionSucceeded(f) <=>
          SmokeReason(f) \in {"art_runtime_class_resolution_command_succeeded",
                             "art_runtime_class_resolved_no_main"}

PhaseSucceeded(o) == o \in {"exit_zero", "no_main"}

(* A run that had a clean session root to itself and reports an attempted and    *)
(* successful execution is right: its own script finished, and every phase it    *)
(* had to run succeeded.                                                         *)
FreshExecutionIsTruthful ==
  \A p \in Procs :
    fresh[p] /\ alone[p] /\ execution[p].execution_attempted
    /\ execution[p].execution_succeeded =>
      /\ script[p] = "ended"
      /\ PhaseSucceeded(outcome[p]["activity"])
      /\ facts.chain.application => PhaseSucceeded(outcome[p]["application"])

(* README.md:1077 says the health fixture classifies readiness "without claiming *)
(* false success": a ready bootstrap execution has a script that ran to its end. *)
ReadyMeansRan ==
  \A p \in Procs :
    published[p] /\ Report(p).state.bootstrap_execution_readiness = "ready" =>
      script[p] = "ended"
================================================================================
