----------------------------- MODULE NativeSession -----------------------------
(* RunNativeProcessBootstrap (src/native_lifecycle.cpp): the parent that writes *)
(* a session manifest, forks a native runner, waits for it and folds the        *)
(* runner's report into the manifest.  session_id is `<install_id>-default`, so *)
(* every launch of one app uses the same session root: session.json and         *)
(* runner-report.json outlive a launch, and nothing keeps two launches apart.   *)
(*                                                                              *)
(* The runners are modelled by what RunnerContract lets the parent rely on.     *)
EXTENDS Integers

CONSTANTS
  Sessions,   \* launches of the app: one parent and at most one runner each
  Reports,    \* reports a runner may publish
  NoSession   \* the author of a file nobody has written

RunnerReasons == {r.exit_reason : r \in Reports}

(* A report carries the fields ApplyNativeExecuteReport reads.                  *)
ReportFields ==
  [exit_reason : RunnerReasons, exit_code : Nat, activity_called : BOOLEAN]

ASSUME SessionAssumption ==
  /\ Reports \subseteq ReportFields
  /\ \A r \in Reports : r.exit_reason \notin {"absent", "truncated"}
  /\ NoSession \notin Sessions

Absent    == [exit_reason |-> "absent"]
Truncated == [exit_reason |-> "truncated"]

ExitCodes == {0, 1, 2}
Exited(code) == [kind |-> "EXITED", code |-> code]
Signaled     == [kind |-> "SIGNALED", code |-> 0]
Alive        == [kind |-> "alive", code |-> 0]
NotForked    == [kind |-> "not_forked", code |-> 0]
Ends         == {Signaled} \cup {Exited(c) : c \in ExitCodes}

VARIABLES
  parent,    \* where each parent is in RunNativeProcessBootstrap
  life,      \* each runner process
  file,      \* what each runner has done to the report file
  disk,      \* runner-report.json: its last writer and what it holds
  manifest,  \* session.json: its last writer and process_state
  status,    \* what waitpid told each parent
  result,    \* the NativeLifecycleShim each parent returned
  clean,     \* history: the launch began with no report on disk
  alone      \* history: no other launch or runner was around when the launch
             \* began, and no launch began before it was over

history == <<clean, alone>>
vars == <<parent, life, file, disk, manifest, status, result, history>>

ParentLabels ==
  {"idle", "built", "forked", "waiting", "reaped", "done", "threw", "killed"}
Active == {"built", "forked", "waiting", "reaped"}

ProcessStates ==
  {"BOOTSTRAPPED", "FORK_FAILED", "RUNNING", "WAIT_FAILED", "EXITED", "SIGNALED"}

NoResult ==
  [process_state |-> "none", exit_code |-> 0, exit_reason |-> "none",
   activity_called |-> FALSE, failure_reason |-> "none"]

Init ==
  /\ parent = [k \in Sessions |-> "idle"]
  /\ life = [k \in Sessions |-> NotForked]
  /\ file = [k \in Sessions |-> Absent]
  /\ disk = [by |-> NoSession, holds |-> Absent]
  /\ manifest = [by |-> NoSession, process_state |-> "BOOTSTRAPPED"]
  /\ status = [k \in Sessions |-> NotForked]
  /\ result = [k \in Sessions |-> NoResult]
  /\ clean = [k \in Sessions |-> FALSE]
  /\ alone = [k \in Sessions |-> FALSE]

--------------------------------------------------------------------------------
(* The parent.                                                                  *)

WriteLifecycleArtifacts(k, state) ==
  manifest' = [by |-> k, process_state |-> state]

(* Everything a launch leaves running or waiting is over.                       *)
NobodyAround ==
  \A j \in Sessions : parent[j] \notin Active /\ life[j] # Alive

(* BuildNativeLifecycleShim: the session root is created or reused; a report    *)
(* an earlier launch left in it stays.                                          *)
BuildNativeLifecycleShim(k) ==
  /\ parent[k] = "idle"
  /\ parent' = [parent EXCEPT ![k] = "built"]
  /\ WriteLifecycleArtifacts(k, "BOOTSTRAPPED")
  /\ clean' = [clean EXCEPT ![k] = (disk.holds = Absent)]
  /\ alone' = [j \in Sessions |-> IF j = k THEN NobodyAround
                                   ELSE alone[j] /\ parent[j] \notin Active]
  /\ UNCHANGED <<life, file, disk, status, result>>

Return(k, r) ==
  /\ result' = [result EXCEPT ![k] = r]
  /\ WriteLifecycleArtifacts(k, r.process_state)
  /\ parent' = [parent EXCEPT ![k] = "done"]

ForkFails(k) ==
  /\ parent[k] = "built"
  /\ Return(k, [process_state |-> "FORK_FAILED", exit_code |-> 2,
                exit_reason |-> "fork_failed", activity_called |-> FALSE,
                failure_reason |-> "fork_failed"])
  /\ UNCHANGED <<life, file, disk, status, history>>

Fork(k) ==
  /\ parent[k] = "built"
  /\ life' = [life EXCEPT ![k] = Alive]
  /\ parent' = [parent EXCEPT ![k] = "forked"]
  /\ UNCHANGED <<file, disk, manifest, status, result, history>>

RecordRunning(k) ==
  /\ parent[k] = "forked"
  /\ WriteLifecycleArtifacts(k, "RUNNING")
  /\ parent' = [parent EXCEPT ![k] = "waiting"]
  /\ UNCHANGED <<life, file, disk, status, result, history>>

(* waitpid returns an error at once (EINTR is not retried).                     *)
WaitFails(k) ==
  /\ parent[k] = "waiting"
  /\ Return(k, [process_state |-> "WAIT_FAILED", exit_code |-> 2,
                exit_reason |-> "waitpid_failed", activity_called |-> FALSE,
                failure_reason |-> "waitpid_failed"])
  /\ UNCHANGED <<life, file, disk, status, history>>

\* Mutant: waitpid with WNOHANG, whose zero status reads as a clean exit.
WaitNoHang(k) ==
  /\ parent[k] = "waiting"
  /\ status' = [status EXCEPT ![k] = IF life[k] = Alive THEN Exited(0) ELSE life[k]]
  /\ parent' = [parent EXCEPT ![k] = "reaped"]
  /\ UNCHANGED <<life, file, disk, manifest, result, history>>

\* Mutant: waits on until the runner has exited, and a signaled one never does.
WaitForExit(k) ==
  /\ parent[k] = "waiting" /\ life[k].kind = "EXITED"
  /\ status' = [status EXCEPT ![k] = life[k]]
  /\ parent' = [parent EXCEPT ![k] = "reaped"]
  /\ UNCHANGED <<life, file, disk, manifest, result, history>>

Wait(k) ==
  /\ parent[k] = "waiting" /\ life[k] # Alive
  /\ status' = [status EXCEPT ![k] = life[k]]
  /\ parent' = [parent EXCEPT ![k] = "reaped"]
  /\ UNCHANGED <<life, file, disk, manifest, result, history>>

\* Mutant: the exit code keeps its initial -1.
FromStatusNoCode(s) ==
  [process_state |-> s.kind, exit_code |-> -1, exit_reason |-> "none",
   activity_called |-> FALSE,
   failure_reason |-> IF s = Signaled THEN "terminated_by_signal" ELSE "none"]

(* What the wait status alone makes of the session.                             *)
FromStatus(s) ==
  [process_state   |-> s.kind,
   exit_code       |-> IF s = Signaled THEN 137 ELSE s.code,
   exit_reason     |-> IF s = Signaled   THEN "child_runner_signaled"
                       ELSE IF s.code = 0 THEN "child_runner_completed"
                                          ELSE "child_runner_nonzero_exit",
   activity_called |-> FALSE,
   failure_reason  |-> IF s = Signaled THEN "terminated_by_signal" ELSE "none"]

\* Mutant: activity_called is not taken over.
ApplyReportNotCalled(r, rep) ==
  [r EXCEPT !.exit_code = rep.exit_code, !.exit_reason = rep.exit_reason]

(* ApplyNativeExecuteReport: the report's exit code and reason replace those of *)
(* the wait status; process_state and an earlier failure reason stay.           *)
ApplyNativeExecuteReport(r, rep) ==
  [process_state   |-> r.process_state,
   exit_code       |-> rep.exit_code,
   exit_reason     |-> rep.exit_reason,
   activity_called |-> rep.activity_called,
   failure_reason  |-> IF rep.exit_code # 0 /\ r.failure_reason = "none"
                         THEN "exited_with_code" ELSE r.failure_reason]

\* Mutant: a silent exit is as good as its exit code.
ReportNotNeeded(r) == r

(* No report: a failure, unless the wait status already was one.                *)
ReportMissing(r) ==
  IF r.failure_reason # "none" THEN r
  ELSE [process_state   |-> r.process_state,
        exit_code       |-> 2,
        exit_reason     |-> "runner_report_missing",
        activity_called |-> r.activity_called,
        failure_reason  |-> "no_structured_report"]

FinishSession(k) ==
  /\ parent[k] = "reaped"
  /\ disk.holds # Truncated
  /\ LET r == FromStatus(status[k])
     IN  Return(k, IF disk.holds = Absent
                     THEN ReportMissing(r)
                     ELSE ApplyNativeExecuteReport(r, disk.holds))
  /\ UNCHANGED <<life, file, disk, status, history>>

(* A report without the expected fields: ExtractJsonString throws, main prints  *)
(* the error and leaves; the manifest stays as RecordRunning wrote it.          *)
ReadTruncatedReport(k) ==
  /\ parent[k] = "reaped"
  /\ disk.holds = Truncated
  /\ parent' = [parent EXCEPT ![k] = "threw"]
  /\ UNCHANGED <<life, file, disk, manifest, status, result, history>>

--------------------------------------------------------------------------------
(* The runners: RunnerContract's actions, on the shared report file.            *)

RunnerOpens(k) ==
  /\ life[k] = Alive /\ file[k] = Absent
  /\ file' = [file EXCEPT ![k] = Truncated]
  /\ disk' = [by |-> k, holds |-> Truncated]
  /\ UNCHANGED <<parent, life, manifest, status, result, history>>

RunnerPublishes(k) ==
  /\ life[k] = Alive /\ file[k] = Truncated
  /\ \E r \in Reports :
       /\ file' = [file EXCEPT ![k] = r]
       /\ disk' = [by |-> k, holds |-> r]
  /\ UNCHANGED <<parent, life, manifest, status, result, history>>

RunnerEnds(k) ==
  /\ life[k] = Alive
  /\ \E e \in Ends : life' = [life EXCEPT ![k] = e]
  /\ UNCHANGED <<parent, file, disk, manifest, status, result, history>>

(* The parent itself is killed; its runner, if any, runs on.                    *)
ParentKilled(k) ==
  /\ parent[k] \in Active
  /\ parent' = [parent EXCEPT ![k] = "killed"]
  /\ UNCHANGED <<life, file, disk, manifest, status, result, history>>

ParentSteps(k) ==
  \/ ForkFails(k) \/ Fork(k) \/ RecordRunning(k) \/ WaitFails(k) \/ Wait(k)
  \/ FinishSession(k) \/ ReadTruncatedReport(k)

RunnerSteps(k) == RunnerOpens(k) \/ RunnerPublishes(k) \/ RunnerEnds(k)

Next ==
  \E k \in Sessions :
    BuildNativeLifecycleShim(k) \/ ParentSteps(k) \/ RunnerSteps(k)
    \/ ParentKilled(k)

Spec == Init /\ [][Next]_vars

(* The parents are scheduled and, by RunnerContract's FairSpec, runners end.    *)
(* No failure of fork or waitpid is counted on to get a parent out.             *)
FairSpec ==
  /\ Spec
  /\ \A k \in Sessions :
       /\ WF_vars(Fork(k) \/ RecordRunning(k) \/ Wait(k) \/ FinishSession(k)
                  \/ ReadTruncatedReport(k))
       /\ WF_vars(RunnerEnds(k))

--------------------------------------------------------------------------------
(* Properties.                                                                  *)

ParentReasons ==
  {"fork_failed", "waitpid_failed", "child_runner_completed",
   "child_runner_nonzero_exit", "child_runner_signaled", "runner_report_missing"}
FailureReasons ==
  {"none", "fork_failed", "waitpid_failed", "terminated_by_signal",
   "exited_with_code", "no_structured_report"}

Results ==
  [process_state : ProcessStates, exit_code : Nat,
   exit_reason : RunnerReasons \cup ParentReasons,
   activity_called : BOOLEAN, failure_reason : FailureReasons]

FileContents == {Absent, Truncated} \cup Reports

(* Every variable keeps its type (NativeLifecycleShim and the session files).   *)
TypeOK ==
  /\ parent \in [Sessions -> ParentLabels]
  /\ life \in [Sessions -> {NotForked, Alive} \cup Ends]
  /\ file \in [Sessions -> FileContents]
  /\ disk \in [by : Sessions \cup {NoSession}, holds : FileContents]
  /\ manifest \in [by : Sessions \cup {NoSession}, process_state : ProcessStates]
  /\ status \in [Sessions -> {NotForked} \cup Ends]
  /\ result \in [Sessions -> Results \cup {NoResult}]
  /\ clean \in [Sessions -> BOOLEAN]
  /\ alone \in [Sessions -> BOOLEAN]

(* A manifest that calls the process EXITED or SIGNALED is right: the runner of *)
(* the launch that wrote it is gone (artifacts are written after waitpid,       *)
(* native_lifecycle.cpp:700-750), whatever the other launches do.               *)
TerminalMeansReaped ==
  manifest.process_state \in {"EXITED", "SIGNALED"} =>
    life[manifest.by] \in Ends

(* A launch never succeeds out of nothing: exit code 0 is backed by a report    *)
(* that some runner of the app published with that very outcome; a runner that  *)
(* ends silently with no report about is a failure (native_lifecycle.cpp:735).  *)
SuccessHasAReport ==
  \A k \in Sessions :
    parent[k] = "done" /\ result[k].exit_code = 0 =>
      \E j \in Sessions :
        /\ file[j] \in Reports
        /\ file[j].exit_reason = result[k].exit_reason
        /\ file[j].activity_called = result[k].activity_called

(* In a launch that finds a clean session root and has it to itself, the report *)
(* the parent believed is its own runner's.                                     *)
FreshSessionIsTruthful ==
  \A k \in Sessions :
    clean[k] /\ alone[k] /\ parent[k] = "done" /\ result[k].exit_code = 0 =>
      /\ file[k] \in Reports
      /\ file[k].exit_reason = result[k].exit_reason
      /\ file[k].activity_called = result[k].activity_called

(* A launch that began is over some day, whatever its runner does.              *)
LaunchEnds ==
  \A k \in Sessions :
    parent[k] = "built" ~> parent[k] \in {"done", "threw", "killed"}

(* README.md:1109 claims the path "persist[s] truthful session state": a        *)
(* launch recorded as having called the activity did so, at least when no other *)
(* launch or runner of the app was around.                                      *)
TruthfulSession ==
  \A k \in Sessions :
    alone[k] /\ parent[k] = "done" /\ result[k].activity_called =>
      file[k] \in Reports /\ file[k].activity_called

(* The same claim when the parent gives up with an error of its own: once no    *)
(* runner is alive, the manifest it leaves no longer calls the process RUNNING. *)
NoRunningLeftBehind ==
  \A k \in Sessions :
    parent[k] = "threw" /\ manifest.by = k /\ life[k] # Alive =>
      manifest.process_state # "RUNNING"
================================================================================
