------------------------------ MODULE RuntimeHealth ------------------------------
(* The records, recovery actions and trace of RunRuntimeHealthFixture, and what  *)
(* the two replays make of a trace (src/runtime_health.cpp), as pure operators.  *)
(* A trace file is known by the set of its events: the replays fold over them    *)
(* with sets and disjunctions, in which order and repetition do not show.        *)
EXTENDS ArtChain, Sequences

Subsystems ==
  {"apk_staging", "native_loading", "surface_readiness", "input_queue_readiness",
   "binder_service_readiness", "dex_classloader_readiness",
   "activity_bootstrap_readiness", "bootstrap_execution_readiness"}

Scenarios ==
  {"baseline", "missing_artifact", "failed_native_load", "unavailable_display",
   "failed_service_lookup"}

(* The facts of ArtChain and those the other records rest on.                    *)
HealthFacts ==
  [chain            : Facts,
   staged           : BOOLEAN,   \* bundle, bootstrap manifest and manifest ready
   native_declared  : BOOLEAN,
   native_staged    : BOOLEAN,   \* libraries of a supported ABI are staged
   surface          : BOOLEAN,
   input            : BOOLEAN]

(* BuildRecoveryActionTemplate: a name of its own for every subsystem, and ranks *)
(* in the order in which the chain would be brought up.                          *)
RecoveryAction ==
  [apk_staging                   |-> "restage_apk_bundle",
   native_loading                |-> "retry_native_load_after_bundle_refresh",
   surface_readiness             |-> "fallback_to_headless_surface_probe",
   input_queue_readiness         |-> "recreate_input_queue_after_surface_ready",
   binder_service_readiness      |-> "rebuild_service_registry_and_retry_lookup",
   dex_classloader_readiness     |-> "attempt_host_art_class_resolution",
   activity_bootstrap_readiness  |-> "attempt_host_activity_bootstrap",
   bootstrap_execution_readiness |-> "attempt_host_bootstrap_execution"]

ActionRank ==
  [apk_staging |-> 10, native_loading |-> 20, surface_readiness |-> 30,
   input_queue_readiness |-> 35, binder_service_readiness |-> 40,
   dex_classloader_readiness |-> 50, activity_bootstrap_readiness |-> 60,
   bootstrap_execution_readiness |-> 70]

--------------------------------------------------------------------------------
(* The eight records: state and, from it, ready.  A scenario forces a verdict.   *)

ApkStagingState(h, scenario) ==
  IF scenario # "missing_artifact" /\ h.staged THEN "ready" ELSE "missing"

NativeLoadingState(h, scenario) ==
  IF scenario = "failed_native_load" THEN "blocked"
  ELSE IF ~h.native_declared THEN "not_required"
  ELSE IF h.native_staged THEN "ready" ELSE "blocked"

SurfaceState(h, scenario) ==
  IF scenario # "unavailable_display" /\ h.surface THEN "ready" ELSE "degraded"

InputState(h, scenario) ==
  IF scenario # "unavailable_display" /\ h.input THEN "ready" ELSE "degraded"

BinderState(h, scenario) ==
  IF scenario # "failed_service_lookup" /\ h.chain.binder
    THEN "ready" ELSE "blocked"

DexState(f) ==
  IF ~f.dex THEN "not_required"
  ELSE IF RuntimeClassResolutionSucceeded(f) THEN "ready"
  ELSE IF ~ClasspathPlanReady(f) \/ ~OfflineResolutionReady(f)
          \/ UnresolvedTargets(f) # {} THEN "blocked"
  ELSE IF ProbeAttempted(f) THEN "blocked"
  ELSE "pending"

ActivityBootstrapState(f) ==
  IF ~f.dex THEN "not_required"
  ELSE IF RuntimeBootstrapPlanned(f) THEN "ready" ELSE "blocked"

BootstrapExecutionState(f, execution) ==
  IF ~f.dex THEN "not_required"
  ELSE IF execution.execution_succeeded THEN "ready"
  ELSE IF execution.execution_attempted THEN "blocked"
  ELSE IF RuntimeBootstrapPlanned(f) THEN "pending" ELSE "blocked"

RecordStates(h, scenario, execution) ==
  [apk_staging                   |-> ApkStagingState(h, scenario),
   native_loading                |-> NativeLoadingState(h, scenario),
   surface_readiness             |-> SurfaceState(h, scenario),
   input_queue_readiness         |-> InputState(h, scenario),
   binder_service_readiness      |-> BinderState(h, scenario),
   dex_classloader_readiness     |-> DexState(h.chain),
   activity_bootstrap_readiness  |-> ActivityBootstrapState(h.chain),
   bootstrap_execution_readiness |-> BootstrapExecutionState(h.chain, execution)]

Ready(state) == state \in {"ready", "not_required"}

(* RunRuntimeHealthFixture's report: the states, and what it selects from them.  *)
HealthReport(h, scenario, execution) ==
  LET state   == RecordStates(h, scenario, execution)
      failing == {s \in Subsystems : ~Ready(state[s])}
  IN [state              |-> state,
      failing_subsystems |-> failing,
      recovery_actions   |-> {[subsystem |-> s, action |-> RecoveryAction[s],
                               rank |-> ActionRank[s]] : s \in failing},
      overall_state      |-> IF failing = {} THEN "ready" ELSE "recovery_needed",
      exit_reason        |-> IF failing = {} THEN "runtime_health_ready"
                                             ELSE "runtime_recovery_plan_required"]

--------------------------------------------------------------------------------
(* What is written: the trace and the actions file.                              *)

NoAction == "none"

\* Mutant: an event calls a subsystem ready only if its state says "ready".
HealthTraceByState(report) ==
  {[event_type |-> "health_recorded", subsystem |-> s,
    ready  |-> report.state[s] = "ready",
    action |-> IF s \in report.failing_subsystems
                 THEN RecoveryAction[s] ELSE NoAction] : s \in Subsystems}
  \cup
  {[event_type |-> "recovery_selected", subsystem |-> s, ready |-> FALSE,
    action |-> RecoveryAction[s]] : s \in report.failing_subsystems}

(* BuildHealthTraceJsonl: one event a record and one more for its action.        *)
HealthTrace(report) ==
  {[event_type |-> "health_recorded", subsystem |-> s,
    ready  |-> s \notin report.failing_subsystems,
    action |-> IF s \in report.failing_subsystems
                 THEN RecoveryAction[s] ELSE NoAction] : s \in Subsystems}
  \cup
  {[event_type |-> "recovery_selected", subsystem |-> s, ready |-> FALSE,
    action |-> RecoveryAction[s]] : s \in report.failing_subsystems}

ActionEvents(report) ==
  {[action_name |-> a.action] : a \in report.recovery_actions}

--------------------------------------------------------------------------------
(* What is read back.                                                            *)

Failing(trace)  == {e.subsystem : e \in {x \in trace : ~x.ready}}
Selected(trace) == {e.action : e \in {x \in trace : x.action # NoAction}}

(* BuildReplayReportFromEvents: native-runtime-health-replay on one trace.       *)
HealthReplay(trace) ==
  [overall_state      |-> IF Failing(trace) = {} THEN "ready"
                                                 ELSE "recovery_needed",
   failing_subsystems |-> Failing(trace),
   selected_actions   |-> Selected(trace)]

(* source_specs, in their order.                                                 *)
TraceSources ==
  <<"runtime_health_trace", "runtime_recovery_actions", "art_classloader_trace",
    "art_class_resolution_trace", "art_runtime_smoke_trace",
    "art_activity_bootstrap_trace", "art_bootstrap_execution_trace">>
SourceNames == {TraceSources[i] : i \in DOMAIN TraceSources}

(* ReplayRuntimeDiagnosticBundle: `events` maps the sources that exist to what   *)
(* was read.  A source that is missing decides the verdict before anything else. *)
DiagnosticReplay(events) ==
  LET Of(source) == IF source \in DOMAIN events THEN events[source] ELSE {}
      failing    == Failing(Of("runtime_health_trace"))
      selected   == Selected(Of("runtime_health_trace"))
                    \cup {e.action_name : e \in Of("runtime_recovery_actions")}
      unresolved == {e.class_name : e \in {x \in Of("art_class_resolution_trace") :
                                             ~x.resolved_in_dex}}
      missing    == SourceNames \ DOMAIN events
  IN [missing_trace_sources   |-> missing,
      failing_subsystems      |-> failing,
      selected_actions        |-> selected,
      unresolved_classes      |-> unresolved,
      runtime_probe_succeeded |-> \E e \in Of("art_runtime_smoke_trace") :
                                     e.runtime_probe_succeeded,
      overall_state |-> IF missing # {} THEN "incomplete"
                        ELSE IF failing # {} \/ unresolved # {}
                          THEN "recovery_needed"
                        ELSE "ready"]
================================================================================
