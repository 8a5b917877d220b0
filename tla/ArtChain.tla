-------------------------------- MODULE ArtChain --------------------------------
(* The ART fixture chain (src/art_*.cpp) as pure operators: each fixture turns   *)
(* the report of the one before it into its own, and the bootstrap execution     *)
(* folds in what a generated shell script left on disk.  RuntimeDiagnostics runs *)
(* these operators between file writes.                                          *)
(*                                                                               *)
(* What a fixture finds out about the package and the host is one record of      *)
(* facts.  A class is a model value; a probe command is known by its outcome.    *)
EXTENDS Integers

CONSTANT Classes   \* the application and activity classes a manifest may name

(* What a command of the host's runtime may do: it exits with 0; it fails for    *)
(* want of a main method (the class was found), or says it cannot find a class,  *)
(* or both; or it fails otherwise.                                               *)
ProbeOutcomes == {"exit_zero", "no_main", "class_not_found", "both", "failed"}

(* LooksLikeResolvedClassWithoutMain, LooksLikeMissingClassFailure               *)
SaysNoMain(outcome)  == outcome \in {"no_main", "both"}
SaysMissing(outcome) == outcome \in {"class_not_found", "both"}

Facts ==
  [dex          : BOOLEAN,          \* the archive has classes*.dex entries
   targets      : SUBSET Classes,   \* classes the manifest names
   defined      : SUBSET Classes,   \* classes the readable dex entries define
   launcher     : BOOLEAN,          \* the plan names a launcher activity class
   application  : BOOLEAN,          \* the manifest names an application class
   override     : {"unset", "unusable", "executable"},
   host_probe_disabled : BOOLEAN,   \* LINUXOID_DISABLE_HOST_ART_RUNTIME_PROBE
   dalvikvm     : BOOLEAN,          \* an executable dalvikvm or dalvikvm64
   app_process  : BOOLEAN,          \* an executable app_process or app_process64
   probe        : ProbeOutcomes,    \* what the runtime smoke's command does
   binder       : BOOLEAN]          \* binder_service_manager_ready

--------------------------------------------------------------------------------
(* The runtime on the host.                                                      *)

(* DetectArtRuntimeProbeSelection and ClassifyArtRuntimeProbeCapability: an      *)
(* executable override wins, even over the flag that disables host probes; then  *)
(* dalvikvm before app_process, which can be detected but not used.              *)
RuntimeCapability(f) ==
  IF f.override = "executable"   THEN "override_bootstrap_capable"
  ELSE IF f.host_probe_disabled  THEN "missing"
  ELSE IF f.dalvikvm             THEN "host_dalvikvm_bootstrap_capable"
  ELSE IF f.app_process          THEN "host_app_process_detection_only"
  ELSE "missing"

RuntimeDetected(f) == RuntimeCapability(f) # "missing"

(* IsBootstrapCapableArtRuntimeProbe                                             *)
SafeRuntimeProbe(f) ==
  RuntimeCapability(f) \in
    {"override_bootstrap_capable", "host_dalvikvm_bootstrap_capable"}

--------------------------------------------------------------------------------
(* RunNativeArtClassloaderFixture                                                *)

ManifestTargetsReady(f) == f.targets # {}
ClasspathPlanReady(f)   == f.dex /\ ManifestTargetsReady(f)

ClassloaderReason(f) ==
  IF ~f.dex THEN "no_dex_entries_found"
  ELSE IF ~ManifestTargetsReady(f) THEN "manifest_targets_missing"
  ELSE IF RuntimeDetected(f) THEN "art_classpath_plan_ready"
  ELSE "art_classpath_plan_ready_runtime_missing"

(* The last event of WriteTrace.                                                 *)
ClassloaderEvents(f) ==
  {[classpath_plan_ready        |-> ClasspathPlanReady(f),
    pathclassloader_probe_ready |-> ClasspathPlanReady(f) /\ RuntimeDetected(f),
    exit_reason                 |-> ClassloaderReason(f)]}

--------------------------------------------------------------------------------
(* RunNativeArtClassResolutionFixture: without dex entries no target resolves.   *)

ResolvedTargets(f)   == IF f.dex THEN f.targets \cap f.defined ELSE {}
UnresolvedTargets(f) == f.targets \ ResolvedTargets(f)

OfflineResolutionReady(f) ==
  ClasspathPlanReady(f) /\ UnresolvedTargets(f) = {}

(* The class_resolution_result events of WriteTrace.                             *)
ResolutionEvents(f) ==
  {[class_name |-> c, resolved_in_dex |-> c \in ResolvedTargets(f)] :
     c \in f.targets}

--------------------------------------------------------------------------------
(* BuildNativeArtRuntimeSmokeFixture.  The branch for an empty target name is    *)
(* never taken: a ready offline resolution has resolved one.                     *)

ProbeAttempted(f) ==
  ClasspathPlanReady(f) /\ OfflineResolutionReady(f) /\ SafeRuntimeProbe(f)

RuntimeProbeSucceeded(f) == ProbeAttempted(f) /\ f.probe = "exit_zero"

RuntimeClassResolutionSucceeded(f) ==
  ProbeAttempted(f) /\ (f.probe = "exit_zero" \/ SaysNoMain(f.probe))

SmokeReason(f) ==
  IF ~ClasspathPlanReady(f) THEN "classpath_plan_not_ready"
  ELSE IF ~OfflineResolutionReady(f) THEN "offline_class_resolution_incomplete"
  ELSE IF ~RuntimeDetected(f) THEN "art_runtime_not_detected"
  ELSE IF ~SafeRuntimeProbe(f) THEN "art_runtime_detected_without_safe_probe"
  ELSE IF f.probe = "exit_zero"
    THEN "art_runtime_class_resolution_command_succeeded"
  ELSE IF SaysNoMain(f.probe) THEN "art_runtime_class_resolved_no_main"
  ELSE IF SaysMissing(f.probe) THEN "art_runtime_class_not_found"
  ELSE "art_runtime_probe_failed"

SmokeEvents(f) ==
  {[runtime_probe_attempted |-> ProbeAttempted(f),
    runtime_probe_succeeded |-> RuntimeProbeSucceeded(f)]}

--------------------------------------------------------------------------------
(* BuildNativeArtActivityBootstrapFixture                                        *)

\* Mutant: binder is asked for in the plan and the ladder, not in this list.
MissingDependenciesNoBinder(f) ==
  {d \in {"manifest_targets", "classpath_plan", "offline_class_resolution",
          "activity_target", "art_runtime_probe", "safe_runtime_probe",
          "runtime_class_resolution"} :
     \/ d = "manifest_targets"         /\ ~ManifestTargetsReady(f)
     \/ d = "classpath_plan"           /\ ~ClasspathPlanReady(f)
     \/ d = "offline_class_resolution" /\ ~OfflineResolutionReady(f)
     \/ d = "activity_target"          /\ ~f.launcher
     \/ d = "art_runtime_probe"        /\ ~RuntimeDetected(f)
     \/ d = "safe_runtime_probe"       /\ RuntimeDetected(f) /\ ~SafeRuntimeProbe(f)
     \/ d = "runtime_class_resolution" /\ SafeRuntimeProbe(f)
                                       /\ ~RuntimeClassResolutionSucceeded(f)}

(* The list missing_dependencies; of the last three at most one is reported.     *)
MissingDependencies(f) ==
  {d \in {"manifest_targets", "classpath_plan", "offline_class_resolution",
          "activity_target", "binder_service_manager", "art_runtime_probe",
          "safe_runtime_probe", "runtime_class_resolution"} :
     \/ d = "manifest_targets"         /\ ~ManifestTargetsReady(f)
     \/ d = "classpath_plan"           /\ ~ClasspathPlanReady(f)
     \/ d = "offline_class_resolution" /\ ~OfflineResolutionReady(f)
     \/ d = "activity_target"          /\ ~f.launcher
     \/ d = "binder_service_manager"   /\ ~f.binder
     \/ d = "art_runtime_probe"        /\ ~RuntimeDetected(f)
     \/ d = "safe_runtime_probe"       /\ RuntimeDetected(f) /\ ~SafeRuntimeProbe(f)
     \/ d = "runtime_class_resolution" /\ SafeRuntimeProbe(f)
                                       /\ ~RuntimeClassResolutionSucceeded(f)}

RuntimeBootstrapPlanned(f) ==
  /\ ManifestTargetsReady(f) /\ ClasspathPlanReady(f) /\ OfflineResolutionReady(f)
  /\ f.launcher
  /\ f.binder

BootstrapReason(f) ==
  IF ~ManifestTargetsReady(f) THEN "activity_bootstrap_manifest_targets_not_ready"
  ELSE IF ~ClasspathPlanReady(f) THEN "activity_bootstrap_classpath_plan_not_ready"
  ELSE IF ~OfflineResolutionReady(f)
    THEN "activity_bootstrap_offline_resolution_incomplete"
  ELSE IF ~f.launcher THEN "activity_bootstrap_target_missing"
  ELSE IF ~f.binder THEN "activity_bootstrap_binder_unavailable"
  ELSE IF ~RuntimeDetected(f) THEN "activity_bootstrap_runtime_not_detected"
  ELSE IF ~SafeRuntimeProbe(f) THEN "activity_bootstrap_runtime_probe_unsafe"
  ELSE IF ~RuntimeClassResolutionSucceeded(f)
    THEN "activity_bootstrap_class_resolution_probe_incomplete"
  ELSE "activity_bootstrap_execution_deferred"

--------------------------------------------------------------------------------
(* BuildNativeArtBootstrapExecutionFixture                                       *)

\* Mutant: whether the bootstrap was planned is not asked again.
ExecutionBlockedReasonUnplanned(f) ==
  IF ~RuntimeDetected(f) THEN "bootstrap_execution_runtime_not_detected"
  ELSE IF ~SafeRuntimeProbe(f) THEN "bootstrap_execution_runtime_probe_unsafe"
  ELSE IF ~RuntimeClassResolutionSucceeded(f)
    THEN "bootstrap_execution_class_resolution_incomplete"
  ELSE "none"

(* The ladder before the script; its last branch sets runner_invoked.            *)
ExecutionBlockedReason(f) ==
  IF ~RuntimeBootstrapPlanned(f) THEN "bootstrap_execution_not_planned"
  ELSE IF ~RuntimeDetected(f) THEN "bootstrap_execution_runtime_not_detected"
  ELSE IF ~SafeRuntimeProbe(f) THEN "bootstrap_execution_runtime_probe_unsafe"
  ELSE IF ~RuntimeClassResolutionSucceeded(f)
    THEN "bootstrap_execution_class_resolution_incomplete"
  ELSE "none"

RunnerInvoked(f) == ExecutionBlockedReason(f) = "none"

(* The runner-state file.  An exit code counts as zero or not; -1 is a phase     *)
(* that was not attempted.                                                       *)
PhaseExits == {-1, 0, 1}
NoRunnerState ==
  [application_attempted |-> FALSE, application_exit |-> -1,
   activity_attempted |-> FALSE, activity_exit |-> -1]

(* BuildRunnerScript, one phase: the exit code and what its log says.            *)
PhaseExit(outcome) == IF outcome = "exit_zero" THEN 0 ELSE 1

(* ProbeCommandSucceeded: the code is the state file's, the output the log's.    *)
(* Unlike in the smoke, a complaint of a missing class outweighs the other.      *)
ProbeCommandSucceeded(exit, log) ==
  exit = 0 \/ (SaysNoMain(log) /\ ~SaysMissing(log))

NotInvokedExecution(f) ==
  [runner_invoked      |-> FALSE,
   execution_attempted |-> FALSE,
   execution_succeeded |-> FALSE,
   exit_reason         |-> ExecutionBlockedReason(f)]

\* Mutant: the activity phase's verdict is the application phase's.
ExecutionReportAppOnly(state, appLog, activityLog) ==
  LET attempted == state.application_attempted \/ state.activity_attempted
      app       == ~state.application_attempted
                   \/ ProbeCommandSucceeded(state.application_exit, appLog)
  IN [runner_invoked |-> TRUE, execution_attempted |-> attempted,
      execution_succeeded |-> app,
      exit_reason |-> IF app THEN "bootstrap_execution_succeeded"
                             ELSE "application_bootstrap_execution_failed"]

(* The script is over: ApplyRunnerStateJson on whatever the state file holds     *)
(* (nothing, if it is missing or has no fields), and the two logs.  A phase that *)
(* was not attempted counts as succeeded.                                        *)
ExecutionReport(state, appLog, activityLog) ==
  LET attempted == state.application_attempted \/ state.activity_attempted
      app       == ~state.application_attempted
                   \/ ProbeCommandSucceeded(state.application_exit, appLog)
      activity  == ~state.activity_attempted
                   \/ ProbeCommandSucceeded(state.activity_exit, activityLog)
  IN [runner_invoked      |-> TRUE,
      execution_attempted |-> attempted,
      execution_succeeded |-> app /\ activity,
      exit_reason |->
        IF ~attempted THEN "bootstrap_execution_not_attempted"
        ELSE IF ~app THEN "application_bootstrap_execution_failed"
        ELSE IF ~activity THEN "activity_bootstrap_execution_failed"
        ELSE "bootstrap_execution_succeeded"]
================================================================================
