------------------------------- MODULE SelfHealing -------------------------------
(* One launch-apk request after another over one staged session:                *)
(* LaunchNativeApk and FinalizeNativeApkLaunchReport                            *)
(* (src/apk_native_launch.cpp) with the watchdog's single recovery pass         *)
(* (src/apk_self_healing_watchdog.cpp) over the contracts of                    *)
(* PersistedContracts.                                                          *)
(*                                                                              *)
(* A launch runs every requested proof once, lets the watchdog work on a copy   *)
(* of the answers, then runs every requested proof again.  Staging clears       *)
(* everything but the sandbox, so what one launch can tell the next is in the   *)
(* sandbox's contract files.                                                    *)
EXTENDS PersistedContracts, FiniteSets, Integers, Sequences

CONSTANT
  Plans         \* bound: what may happen in a behaviour

ProofOptions ==
  {"storage", "permission", "asset", "surface", "lifecycle", "dex", "activity",
   "process", "window", "runtime", "java", "self_heal", "first_app_start"}

(* A plan bounds the option sets launch-apk is called with, the launches, the   *)
(* crashes of the program and damages to its files (upsets), and the faults      *)
(* present in one launch.                                                       *)
ASSUME SelfHealingAssumption ==
  \A p \in Plans :
    /\ DOMAIN p = {"requests", "launches", "upsets", "faults"}
    /\ p.requests \subseteq SUBSET ProofOptions
    /\ {p.launches, p.upsets, p.faults} \subseteq Nat

(* Proofs whose answers live in the report only.  "storage" stands for storage  *)
(* and sandbox, "permission" for permissions and AppOps, "lifecycle" for        *)
(* lifecycle, looper and input queue, "dex" for dex and ART bootstrap,          *)
(* "intent" for package manager and intent resolution.                          *)
Proofs == {"storage", "permission", "asset", "resource", "surface", "lifecycle",
           "binder", "dex", "intent", "activity"}
Contracts == Proofs \cup Files

(* What can be wrong during a launch.  "simulated": a --simulate option         *)
(* overwrites the first answer; "transient": the first run of the proof fails;  *)
(* "permanent": every run fails.  "art" is the host's ART runtime.              *)
FaultKinds == {"ok", "simulated", "transient", "permanent"}
FaultPoints ==
  ({"storage", "permission", "asset", "surface", "binder", "dex", "intent",
    "runtime"} \X {"simulated"}) \cup
  ({"storage", "asset", "resource", "surface", "binder", "dex"} \X {"transient"}) \cup
  ({"storage", "permission", "asset", "resource", "surface", "binder", "dex",
    "intent", "art"} \X {"permanent"})
Faultable == {p[1] : p \in FaultPoints}
NoFault == [c \in Faultable |-> "ok"]

(* not_started covers missing or unsupported libraries and an early proof that  *)
(* failed: the native runner is then never called.                              *)
Outcomes ==
  {"succeeded", "native_blocked", "post_dispatch_blocked", "not_started"}

Phases == {"idle", "staging", "launch", "heal", "refresh", "settled"}

(* The watchdog's one pass, in its order.  The process-manager attempt writes    *)
(* two files, so it takes two steps.  safe_mode_launch is missing: it is tried   *)
(* only with an empty journal and a launch that is not ready, and a self-heal    *)
(* launch that is not ready always has a surface entry.                          *)
Following ==
  [permission |-> "storage", storage |-> "asset", asset |-> "resource",
   resource |-> "surface", surface |-> "lifecycle", lifecycle |-> "binder",
   binder |-> "dex", dex |-> "intent", intent |-> "activity_manager",
   activity_manager |-> "process", process |-> "window", window |-> "runtime",
   runtime |-> "verdict"]
HealSteps == DOMAIN Following \cup {"verdict"}
Steps == HealSteps \cup Files \cup {"proofs", "finalize", "nowhere"}

RepairAction ==
  [permission |-> "rebuild_permission_state", storage |-> "repair_app_storage",
   asset |-> "restage_assets", resource |-> "rebuild_resource_metadata",
   surface |-> "restart_surface", lifecycle |-> "restart_lifecycle",
   binder |-> "refresh_binder_services", dex |-> "rebuild_dex_bootstrap",
   intent |-> "rerun_intent_resolution",
   process |-> "rebuild_process_manager_state",
   window |-> "rebuild_window_manager_state", runtime |-> "retry_runtime_bootstrap"]

Healths == {"healthy", "recovered", "degraded", "blocked", "unrecoverable", "none"}
Verdict(first, last) == [initial |-> first, final |-> last]
NoVerdict == Verdict("none", "none")

Results == {"attempted_succeeded", "attempted_failed", "skipped_upstream_blocker",
            "skipped"}
Entry(action, result) == [action |-> action, result |-> result]

VARIABLES
  disk,         \* the contract files
  dirs,         \* the directories that exist for them
  phase, at,    \* where the launch is
  options,      \* what was asked for
  fault,        \* what is wrong during this launch
  outcome,      \* of the native launch
  ready,        \* the report's answers (an answer nobody asked for counts as ready)
  reason,       \* the report's blocking reasons
  rootSeen,     \* the process-manager directory was there before the bridge ran
  work,         \* the watchdog's working copy of `ready`
  recoverable,  \* the watchdog's working copy of report.recoverable
  journal,      \* recovery-journal.jsonl of this launch
  verdict,      \* the watchdog's initial and final health
  launchHealth, \* the report's launch_health is "ready"
  found,        \* history: damaged contracts the launch started from
  previous,     \* history: the launch before, when nothing disturbed either
  plan,         \* the plan this behaviour keeps to
  launches, upsets

report == <<options, fault, outcome, ready, reason, rootSeen>>
watchdog == <<work, recoverable, journal, verdict>>
counters == <<plan, launches, upsets>>
vars == <<disk, dirs, phase, at, report, watchdog, launchHealth, found, previous,
          counters>>

--------------------------------------------------------------------------------
(* The request ladder: an option pulls in every proof it rests on.              *)

SelfHeal(o)        == o \cap {"self_heal", "first_app_start"} # {}
JavaWanted(o)      == o \cap {"java", "first_app_start"} # {}
RuntimeWanted(o)   == JavaWanted(o) \/ o \cap {"runtime", "window", "self_heal"} # {}
ProcessWanted(o)   == RuntimeWanted(o) \/ "process" \in o
ActivityWanted(o)  == ProcessWanted(o) \/ "activity" \in o

Wanted(c, o) ==
  \/ c \in o
  \/ c = "java" /\ JavaWanted(o)
  \/ c \in {"runtime", "window"} /\ RuntimeWanted(o)
  \/ c \in {"activity_manager", "process", "storage", "permission"} /\ ProcessWanted(o)
  \/ c \in {"activity", "intent", "binder", "surface", "lifecycle", "dex"}
     /\ ActivityWanted(o)
  \/ c \in {"asset", "resource"} /\ (JavaWanted(o) \/ SelfHeal(o) \/ "asset" \in o)

Requested == {c \in Contracts : Wanted(c, options)}

(* The first answer of a proof, and the answer of every later run of it.        *)
WorksAtFirst(c) == c \notin Faultable \/ fault[c] \in {"ok", "simulated"}
WorksLater(c)   == c \notin Faultable \/ fault[c] # "permanent"

(* A requested proof that fails before the native launch keeps it from starting.*)
ErrorsBeforeLaunch ==
  \E c \in {"storage", "asset", "resource"} \cap Requested : ~WorksAtFirst(c)

Launched == outcome = "succeeded"
Gated == outcome \in {"native_blocked", "post_dispatch_blocked"}

--------------------------------------------------------------------------------
(* Blocking reasons: the first that applies, in each bridge's own order.  `h`     *)
(* holds the healths the bridge is given.                                       *)

ActivityReason(h, launched, unresolved) ==
  IF ~h["intent"] THEN unresolved
  ELSE IF ~launched THEN "native_launch_not_ready"
  ELSE IF ~h["surface"] THEN "surface_not_ready"
  ELSE IF ~h["lifecycle"] THEN "lifecycle_not_ready"
  ELSE IF ~h["dex"] THEN "dex_not_ready"
  ELSE IF ~h["binder"] THEN "binder_not_ready"
  ELSE "none"

ActivityManagerReason(h) ==
  IF ~Launched THEN "launch_not_ready"
  ELSE IF ~h["intent"] THEN reason["intent"]
  ELSE IF ~h["activity"] THEN reason["activity"]
  ELSE IF ~h["storage"] THEN "app_storage_not_ready"
  ELSE IF ~h["permission"] THEN "permission_state_not_ready"
  ELSE IF ~h["binder"] THEN "binder_not_ready"
  ELSE IF ~h["surface"] THEN "surface_not_ready"
  ELSE IF ~h["lifecycle"] THEN "lifecycle_not_ready"
  ELSE IF ~h["dex"] THEN "dex_not_ready"
  ELSE "none"

WindowReason(h) ==
  IF ~Launched THEN outcome
  ELSE IF ~h["storage"] THEN "app_storage_not_ready"
  ELSE IF ~h["permission"] THEN "permission_state_not_ready"
  ELSE IF ~h["binder"] THEN "binder_not_ready"
  ELSE IF ~h["activity"] THEN reason["activity"]
  ELSE IF ~h["activity_manager"] THEN "activity_manager_not_ready"
  ELSE IF ~h["process"] THEN "process_manager_not_ready"
  ELSE IF ~h["surface"] THEN "surface_not_ready"
  ELSE IF ~h["lifecycle"] THEN "lifecycle_not_ready"
  ELSE IF ~h["dex"] THEN "dex_not_ready"
  ELSE "none"

(* Mutant: the refresh passes the simulation option on, like the launch does.    *)
BootstrapFailsAgain == fault["runtime"] = "simulated" /\ phase # "heal"

(* A simulated bootstrap failure reaches the bridge on its first run only.      *)
BootstrapFails == fault["runtime"] = "simulated" /\ phase = "launch"
ArtAvailable == fault["art"] = "ok"

RuntimeReason(h) ==
  IF outcome = "post_dispatch_blocked" THEN outcome
  ELSE IF ~Launched THEN "launch_not_ready"
  ELSE IF ~h["storage"] THEN "app_storage_not_ready"
  ELSE IF ~h["permission"] THEN "permission_state_not_ready"
  ELSE IF ~h["binder"] THEN "binder_not_ready"
  ELSE IF ~h["activity"] THEN reason["activity"]
  ELSE IF ~h["activity_manager"] THEN "activity_manager_not_ready"
  ELSE IF ~h["process"] THEN "process_manager_not_ready"
  ELSE IF ~h["window"] THEN "window_manager_not_ready"
  ELSE IF ~h["surface"] THEN "surface_not_ready"
  ELSE IF ~h["lifecycle"] THEN "lifecycle_not_ready"
  ELSE IF ~h["dex"] THEN "dex_bootstrap_not_ready"
  ELSE IF ~ArtAvailable THEN "art_runtime_unavailable"
  ELSE IF BootstrapFails THEN "runtime_bootstrap_failed"
  ELSE "none"

(* The reasons BuildReport counts as an upstream dependency; any other reason   *)
(* leaves the runtime contract ready.                                           *)
UpstreamReasons ==
  {"launch_not_ready", "app_storage_not_ready", "permission_state_not_ready",
   "binder_not_ready", "activity_launch_not_ready", "activity_manager_not_ready",
   "process_manager_not_ready", "window_manager_not_ready", "surface_not_ready",
   "lifecycle_not_ready", "dex_bootstrap_not_ready", "dex_payload_unavailable"}

JavaReason(h) ==
  IF ~Launched THEN "launch_not_ready"
  ELSE IF ~h["storage"] THEN "storage_not_ready"
  ELSE IF ~h["permission"] THEN "permission_not_ready"
  ELSE IF ~h["intent"] THEN "intent_resolution_not_ready"
  ELSE IF ~h["surface"] THEN "surface_not_ready"
  ELSE IF ~h["lifecycle"] THEN "lifecycle_not_ready"
  ELSE IF ~h["dex"] THEN "dex_bootstrap_not_ready"
  ELSE IF ~h["runtime"] THEN "runtime_bridge_not_ready"
  ELSE IF ~ArtAvailable THEN "art_runtime_unavailable"
  ELSE IF ~h["activity"] THEN "activity_launch_not_ready"
  ELSE IF ~h["process"] THEN "process_manager_not_ready"
  ELSE IF ~h["window"] THEN "window_manager_not_ready"
  ELSE "none"

(* A recovered or healthy watchdog verdict overrules the java proof's own       *)
(* reason.                                                                      *)
SelfHealingVouches == verdict.final \in {"healthy", "recovered"}
JavaReasonOverruled(h) == IF SelfHealingVouches THEN "none" ELSE JavaReason(h)

(* What each bridge would say; the process manager repeats what the activity    *)
(* manager answered (`am`).                                                     *)
ContractReason(f, h, am) ==
  IF f = "activity_manager" THEN ActivityManagerReason(h)
  ELSE IF f = "process" THEN (IF h["activity_manager"] THEN "none" ELSE am)
  ELSE IF f = "window" THEN WindowReason(h)
  ELSE IF f = "runtime" THEN RuntimeReason(h)
  ELSE JavaReasonOverruled(h)

ContractOk(f, why) ==
  IF f = "runtime"
  THEN why \notin UpstreamReasons /\ ~(BootstrapFails /\ ArtAvailable)
  ELSE why = "none"

--------------------------------------------------------------------------------
(* A launch begins.                                                             *)

NoReasons == [c \in Files \cup {"intent", "activity"} |-> "none"]
NoRun == [outcome |-> "none", options |-> {}, journal |-> <<>>]

Damaged(c) == c.kind \in {"malformed", "incompatible"}

Forget ==
  /\ fault' = NoFault
  /\ outcome' = "not_started"
  /\ ready' = [c \in Contracts |-> FALSE]
  /\ reason' = NoReasons
  /\ rootSeen' = FALSE
  /\ work' = [c \in Contracts |-> FALSE]
  /\ recoverable' = FALSE
  /\ journal' = <<>>
  /\ verdict' = NoVerdict
  /\ launchHealth' = FALSE

Init ==
  /\ disk = [f \in Files |-> Missing]
  /\ dirs = {}
  /\ phase = "idle" /\ at = "nowhere"
  /\ options = {} /\ fault = NoFault /\ outcome = "not_started"
  /\ ready = [c \in Contracts |-> FALSE] /\ reason = NoReasons /\ rootSeen = FALSE
  /\ work = [c \in Contracts |-> FALSE] /\ recoverable = FALSE
  /\ journal = <<>> /\ verdict = NoVerdict
  /\ launchHealth = FALSE
  /\ found = {} /\ previous = NoRun
  /\ plan \in Plans
  /\ launches = 0 /\ upsets = 0

BeginLaunch(o) ==
  /\ phase \in {"idle", "settled"}
  /\ launches < plan.launches
  /\ launches' = launches + 1
  /\ phase' = "staging" /\ at' = "nowhere"
  /\ options' = o
  /\ Forget
  /\ found' = {f \in Files : Damaged(disk[f])}
  /\ previous' = IF phase = "settled" /\ SelfHeal(options) /\ fault = NoFault
                 THEN [outcome |-> outcome, options |-> options, journal |-> journal]
                 ELSE NoRun
  /\ UNCHANGED <<disk, dirs, plan, upsets>>

(* Something this launch will run into.                                         *)
Break(c, kind) ==
  /\ phase = "staging"
  /\ <<c, kind>> \in FaultPoints
  /\ c = "art" \/ c \in Requested
  /\ fault[c] = "ok"
  /\ Cardinality({d \in Faultable : fault[d] # "ok"}) < plan.faults
  /\ fault' = [fault EXCEPT ![c] = kind]
  /\ UNCHANGED <<disk, dirs, phase, at, options, outcome, ready, reason, rootSeen,
                 watchdog, launchHealth, found, previous, counters>>

--------------------------------------------------------------------------------
(* The proofs.                                                                  *)

(* The answers of the proofs that do not read other proofs' contracts; surface  *)
(* and lifecycle need a native launch that succeeded.                           *)
Answers(working, launched) ==
  [c \in Proofs \ {"activity"} |->
     c \in working /\ (c \in {"surface", "lifecycle"} => launched)]

FirstFile == IF "process" \in Requested THEN "activity_manager" ELSE "finalize"
FileAfter(f) ==
  LET next == [activity_manager |-> "process", process |-> "window",
               window |-> "runtime", runtime |-> "java", java |-> "finalize"][f]
  IN  IF next \in Requested THEN next ELSE "finalize"

(* Everything up to ApplySimulatedSubsystemFaults, which comes before the       *)
(* contract bridges: the simulated storage failure removes the app's data and   *)
(* with it every contract file.                                                 *)
RunProofs(o) ==
  LET h == Answers({c \in Proofs : WorksAtFirst(c)}, o = "succeeded")
      why == ActivityReason(h, o = "succeeded", "no_launcher_activity")
      simulated == {c \in Proofs \cap Faultable \cap Requested : fault[c] = "simulated"}
  IN
  /\ phase = "staging"
  /\ ErrorsBeforeLaunch => o = "not_started"
  /\ outcome' = o
  /\ ready' = [c \in Contracts |->
       \/ c \notin Requested
       \/ c \in Proofs \ {"activity"} /\ h[c] /\ c \notin simulated
       \/ c = "activity" /\ why = "none" /\ "intent" \notin simulated]
  /\ reason' = [NoReasons EXCEPT
       !["intent"] = IF "intent" \in simulated THEN "simulated_intent_resolution_failure"
                     ELSE IF h["intent"] THEN "none" ELSE "no_launcher_activity",
       !["activity"] = IF "intent" \in simulated THEN "intent_resolution_not_ready"
                       ELSE why]
  /\ IF "storage" \in simulated
     THEN disk' = [f \in Files |-> Missing] /\ dirs' = {}
     ELSE UNCHANGED <<disk, dirs>>
  /\ phase' = "launch" /\ at' = FirstFile
  /\ UNCHANGED <<options, fault, rootSeen, watchdog, launchHealth, found, previous,
                 counters>>

(* RefreshRequestedProofContractsAfterSelfHeal, up to its contract bridges.     *)
RefreshProofs ==
  LET h == Answers({c \in Proofs : WorksLater(c)}, Launched)
      why == ActivityReason(h, Launched, "no_launcher_activity")
  IN
  /\ phase = "refresh" /\ at = "proofs"
  /\ ready' = [c \in Contracts |->
       IF c \in Files THEN ready[c]
       ELSE c \notin Requested \/ (IF c = "activity" THEN why = "none" ELSE h[c])]
  /\ reason' = [reason EXCEPT
       !["intent"] = IF h["intent"] THEN "none" ELSE "no_launcher_activity",
       !["activity"] = why]
  /\ at' = FirstFile
  /\ UNCHANGED <<disk, dirs, phase, options, fault, outcome, rootSeen, watchdog,
                 launchHealth, found, previous, counters>>

--------------------------------------------------------------------------------
(* The contract bridges: the launch, the watchdog and the refresh all run them. *)

(* Mutants: every bridge repairs at once; only the watchdog may repair.          *)
AllowRepairAlways == TRUE
AllowRepairInWatchdogOnly == phase = "heal" \/ ~SelfHeal(options)

(* The launch of a self-healing request must not touch what it finds.           *)
AllowPersistedContractRepair == phase # "launch" \/ ~SelfHeal(options)

HealthsGiven == IF phase = "heal" THEN work ELSE ready
ActivityManagerAnswer ==
  IF phase = "heal" THEN ActivityManagerReason(work) ELSE reason["activity_manager"]

RootSeen(f) == IF f = "process" THEN rootSeen ELSE Root(f) \in dirs

Built(f) ==
  LET why == ContractReason(f, HealthsGiven, ActivityManagerAnswer)
  IN  BuildReport(f, disk[f], why, ContractOk(f, why), AllowPersistedContractRepair,
                  RootSeen(f))

AtBridge(f) ==
  /\ phase \in {"launch", "heal", "refresh"}
  /\ at = f
  /\ phase = "heal" => f # "java"

(* Mutant: the words of the counters, not those of the journal.                  *)
OutcomeAsCounted(ok) == IF ok THEN "succeeded" ELSE "failed"

Outcome(ok) == IF ok THEN "attempted_succeeded" ELSE "attempted_failed"

Needed(step) ==
  IF step \in {"activity_manager", "process"}
  THEN ~work["activity_manager"] \/ ~work["process"]
  ELSE IF step = "intent" THEN ~work["intent"] \/ ~work["activity"]
  ELSE step \in Contracts /\ ~work[step]

BuildContract(f) ==
  LET built == Built(f)
  IN
  /\ AtBridge(f)
  /\ phase = "heal" /\ f # "process" => Needed(f)
  /\ disk' = [disk EXCEPT ![f] = built.content]
  /\ dirs' = dirs \cup {Root(f)}
  /\ rootSeen' = IF f = "activity_manager" THEN RootSeen(f) ELSE rootSeen
  /\ IF phase = "heal"
     THEN /\ work' = [work EXCEPT ![f] = built.ready]
          /\ journal' = IF f = "activity_manager" THEN journal
                        ELSE Append(journal, Entry(RepairAction[f],
                               Outcome(built.ready /\
                                       (f = "process" => work["activity_manager"]))))
          /\ at' = Following[f]
          /\ UNCHANGED <<ready, reason>>
     ELSE /\ ready' = [ready EXCEPT ![f] = built.ready]
          /\ reason' = [reason EXCEPT ![f] = built.reason]
          /\ at' = FileAfter(f)
          /\ UNCHANGED <<work, journal>>
  /\ UNCHANGED <<phase, options, fault, outcome, recoverable, verdict, launchHealth,
                 found, previous, counters>>

--------------------------------------------------------------------------------
(* The watchdog.                                                                *)

(* The watchdog never looks at the java proof.                                  *)
AllContractsReady(h) == Launched /\ \A c \in Contracts \ {"java"} : h[c]

ClassifyHealth(h, canRecover) ==
  IF AllContractsReady(h) THEN "healthy"
  ELSE IF ~canRecover THEN "unrecoverable"
  ELSE IF Launched /\ \A c \in Contracts \ {"java", "asset", "resource"} : h[c]
  THEN "degraded" ELSE "blocked"

(* RefreshAggregateLaunchHealth and DetermineRecoverable read the binder only     *)
(* through the activity and process contracts.                                  *)
EverythingReady == Launched /\ \A c \in Contracts \ {"binder"} : ready[c]

StartWatchdog ==
  /\ phase = "launch" /\ at = "finalize" /\ SelfHeal(options)
  /\ phase' = "heal"
  /\ work' = ready
  /\ recoverable' = ~EverythingReady
  /\ verdict' = Verdict(ClassifyHealth(ready, ~EverythingReady), "none")
  /\ IF AllContractsReady(ready)
     THEN journal' = <<Entry("no_action", "skipped")>> /\ at' = "verdict"
     ELSE journal' = <<>> /\ at' = "permission"
  /\ UNCHANGED <<disk, dirs, report, launchHealth, found, previous, counters>>

AtHealStep(step) ==
  /\ phase = "heal" /\ at = step
  /\ step \in {"permission", "storage", "asset", "resource"} \/ ~Gated

NothingToRepair(step) ==
  /\ AtHealStep(step)
  /\ step # "process" /\ step # "verdict"
  /\ ~Needed(step)
  /\ at' = IF step = "activity_manager" THEN "window" ELSE Following[step]
  /\ UNCHANGED <<disk, dirs, phase, report, watchdog, launchHealth, found, previous,
                 counters>>

(* The attempts that only run a proof again.  The lifecycle fixture has no way  *)
(* to fail, whether or not anything was launched.                               *)
RepairWorks(step) ==
  IF step = "surface" THEN Launched /\ WorksLater(step)
  ELSE step = "lifecycle" \/ WorksLater(step)

AttemptRepair(step) ==
  /\ AtHealStep(step)
  /\ step \in Proofs \ {"intent", "activity"}
  /\ Needed(step)
  /\ work' = [work EXCEPT ![step] = RepairWorks(step)]
  /\ journal' = Append(journal, Entry(RepairAction[step], Outcome(RepairWorks(step))))
  /\ at' = Following[step]
  /\ UNCHANGED <<disk, dirs, phase, report, recoverable, verdict, launchHealth, found,
                 previous, counters>>

(* The activity contract is rebuilt from the report's healths, not from what    *)
(* the watchdog has repaired since.                                             *)
ActivityAfterRerun ==
  ActivityReason([ready EXCEPT !["intent"] = WorksLater("intent")], Launched,
                 "no_launcher_activity")

AttemptRerunIntentResolution ==
  /\ AtHealStep("intent")
  /\ Needed("intent")
  /\ work' = [work EXCEPT !["intent"] = WorksLater("intent"),
                          !["activity"] = (ActivityAfterRerun = "none")]
  /\ recoverable' = (recoverable /\ WorksLater("intent"))
  /\ journal' = Append(journal, Entry(RepairAction["intent"],
                                      Outcome(ActivityAfterRerun = "none")))
  /\ at' = Following["intent"]
  /\ UNCHANGED <<disk, dirs, phase, report, verdict, launchHealth, found, previous,
                 counters>>

(* A known native blocker: what depends on the launch is only journaled.  The   *)
(* lifecycle entry stands for the lifecycle and the input-queue entries.        *)
SkippedIfNeeded(step) ==
  IF Needed(step) THEN <<Entry(RepairAction[step], "skipped_upstream_blocker")>> ELSE <<>>
GateLaunchDependentRepairs ==
  /\ phase = "heal" /\ at = "surface" /\ Gated
  /\ journal' = journal \o SkippedIfNeeded("surface") \o SkippedIfNeeded("lifecycle")
                  \o SkippedIfNeeded("binder") \o SkippedIfNeeded("dex")
                  \o SkippedIfNeeded("intent") \o SkippedIfNeeded("process")
                  \o SkippedIfNeeded("window") \o SkippedIfNeeded("runtime")
  /\ at' = "verdict"
  /\ UNCHANGED <<disk, dirs, phase, report, work, recoverable, verdict, launchHealth,
                 found, previous, counters>>

DecideVerdict ==
  LET raw == ClassifyHealth(work, recoverable)
  IN
  /\ phase = "heal" /\ at = "verdict"
  /\ verdict' = Verdict(verdict.initial,
       IF verdict.initial # "healthy" /\ raw = "healthy" THEN "recovered" ELSE raw)
  /\ phase' = "refresh" /\ at' = "proofs"
  /\ UNCHANGED <<disk, dirs, report, work, recoverable, journal, launchHealth, found,
                 previous, counters>>

(* The end of the launch.                                                       *)
Finalize ==
  /\ at = "finalize"
  /\ phase = "refresh" \/ (phase = "launch" /\ ~SelfHeal(options))
  /\ launchHealth' = EverythingReady
  /\ phase' = "settled" /\ at' = "nowhere"
  /\ UNCHANGED <<disk, dirs, report, watchdog, found, previous, counters>>

--------------------------------------------------------------------------------
(* What the program does not choose.                                            *)

GoIdle ==
  /\ phase' = "idle" /\ at' = "nowhere"
  /\ options' = {}
  /\ Forget
  /\ found' = {} /\ previous' = NoRun

Crash ==
  /\ phase \in {"launch", "heal", "refresh"}
  /\ upsets < plan.upsets
  /\ upsets' = upsets + 1
  /\ GoIdle
  /\ UNCHANGED <<disk, dirs, plan, launches>>

(* The process dies while a bridge writes its files, which it does even if they   *)
(* say the same already; only a bridge that is blocked leaves them alone.         *)
CrashWhileWriting(f) ==
  /\ AtBridge(f)
  /\ phase = "heal" /\ f # "process" => Needed(f)
  /\ upsets < plan.upsets
  /\ Built(f).reason # "persisted_state_invalid"
  /\ upsets' = upsets + 1
  /\ \E torn \in TornWrites(f, disk[f], Built(f).reason) :
       disk' = [disk EXCEPT ![f] = torn]
  /\ dirs' = dirs \cup {Root(f)}
  /\ GoIdle
  /\ UNCHANGED <<plan, launches>>

(* Between two launches somebody else removes or spoils a contract file, or     *)
(* loses its companions.                                                        *)
Damage(f) ==
  /\ phase \in {"idle", "settled"}
  /\ launches > 0 /\ launches < plan.launches
  /\ upsets < plan.upsets
  /\ disk[f].kind = "json"
  /\ upsets' = upsets + 1
  /\ \E c \in {Missing, Malformed, Incompatible} \cup
              (IF HasCompanions(f) THEN {[disk[f] EXCEPT !.companions = FALSE]} ELSE {}) :
       disk' = [disk EXCEPT ![f] = c]
  /\ GoIdle
  /\ UNCHANGED <<dirs, plan, launches>>

Next ==
  \/ \E o \in plan.requests : BeginLaunch(o)
  \/ \E p \in FaultPoints : Break(p[1], p[2])
  \/ \E o \in Outcomes : RunProofs(o)
  \/ RefreshProofs
  \/ \E f \in Files : BuildContract(f)
  \/ StartWatchdog
  \/ \E step \in Steps : NothingToRepair(step) \/ AttemptRepair(step)
  \/ AttemptRerunIntentResolution
  \/ GateLaunchDependentRepairs
  \/ DecideVerdict
  \/ Finalize
  \/ Crash
  \/ \E f \in Files : CrashWhileWriting(f) \/ Damage(f)

Spec == Init /\ [][Next]_vars

--------------------------------------------------------------------------------
(* Properties.                                                                  *)

Reasons ==
  {"none", "persisted_state_invalid", "art_runtime_unavailable",
   "runtime_bootstrap_failed", "no_launcher_activity",
   "simulated_intent_resolution_failure", "intent_resolution_not_ready",
   "native_launch_not_ready", "dex_not_ready", "storage_not_ready",
   "permission_not_ready", "runtime_bridge_not_ready"} \cup UpstreamReasons \cup Outcomes

ContentType ==
  [kind : Kinds, contract_ready : BOOLEAN, reason : Reasons, companions : BOOLEAN]

(* The shapes of the files, the report and the watchdog's copy of it.           *)
TypeOK ==
  /\ disk \in [Files -> ContentType]
  /\ dirs \subseteq Roots
  /\ phase \in Phases /\ at \in Steps
  /\ options \in plan.requests \cup {{}}
  /\ fault \in [Faultable -> FaultKinds]
  /\ outcome \in Outcomes
  /\ ready \in [Contracts -> BOOLEAN] /\ work \in [Contracts -> BOOLEAN]
  /\ reason \in [Files \cup {"intent", "activity"} -> Reasons]
  /\ rootSeen \in BOOLEAN /\ recoverable \in BOOLEAN /\ launchHealth \in BOOLEAN
  /\ \A i \in DOMAIN journal : journal[i].result \in Results
  /\ verdict.initial \in Healths /\ verdict.final \in Healths
  /\ found \subseteq Files
  /\ launches \in 0..plan.launches /\ upsets \in 0..plan.upsets

Settled == phase = "settled"

(* A watchdog that calls the session healthy or recovered, working on its own   *)
(* copy of the answers, is borne out by the proofs that are run again after it  *)
(* (FinalizeNativeApkLaunchReport).                                             *)
VerdictIsHonest ==
  Settled /\ verdict.final \in {"healthy", "recovered"} => launchHealth

(* Whatever earlier launches, crashes and strangers left in the sandbox, a      *)
(* launch whose native code ran and whose remaining faults do not last ends     *)
(* ready; without self-healing, the first answers must have been right.         *)
HealableIsHealed ==
  /\ Settled /\ Launched
  /\ \A c \in Faultable : IF SelfHeal(options) THEN fault[c] # "permanent"
                          ELSE fault[c] = "ok"
  => launchHealth

(* Every requested contract file on disk after a launch tells the blocking      *)
(* reason its report tells: nothing that was blamed on an old file, and no      *)
(* result of the watchdog's copy, survives the refresh.                         *)
FilesTellTheReport ==
  Settled => \A f \in Files \cap Requested :
               disk[f].kind = "json" /\ disk[f].reason = reason[f]

(* A damaged contract a self-healing launch found is not overwritten without    *)
(* trace: the recovery journal has its rebuild, attempted or skipped.  The java *)
(* proof is the watchdog's blind spot; a simulated storage failure removes the  *)
(* files with the sandbox.                                                      *)
RebuildOf(f) ==
  RepairAction[IF f = "activity_manager" THEN "process" ELSE f]
NoSilentHealing ==
  Settled /\ SelfHeal(options) /\ fault["storage"] # "simulated" =>
    \A f \in found \ {"java"} :
      \E i \in DOMAIN journal : journal[i].action = RebuildOf(f)

(* README.md: "the Self-Healing Android Device watchdog now emits stable,       *)
(* comparable recovery artifacts for repeated keyboard APK failures": the same  *)
(* request meeting the same native outcome, with nothing in between, journals   *)
(* the same actions.                                                            *)
RepeatedRunsAgree ==
  /\ Settled /\ fault = NoFault
  /\ previous # NoRun /\ previous.options = options /\ previous.outcome = outcome
  => journal = previous.journal

(* CHANGELOG.md: the java proof gives "useful blocked diagnostics for invalid   *)
(* DEX and missing runtime configuration".                                      *)
JavaReadyNeedsRuntime ==
  Settled /\ "java" \in Requested /\ ready["java"] => ArtAvailable
================================================================================
