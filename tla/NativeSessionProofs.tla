-------------------------- MODULE NativeSessionProofs --------------------------
(* What NativeSession guarantees for any number of launches of one app.          *)
EXTENDS NativeSession, TLAPS

USE DEF Absent, Truncated, Exited, Signaled, Alive, NotForked

(* The invariant with the facts the properties rest on.  A runner exists from    *)
(* the fork on; a parent past waitpid has the runner's own wait status; a        *)
(* report on disk is one its writer published; a manifest in a terminal state    *)
(* was written by a parent that had reaped its runner.                           *)
StatusIsFinal ==
  \A k \in Sessions :
    parent[k] = "reaped" => life[k] \in Ends /\ status[k] = life[k]

DiskIsPublished ==
  disk.holds \in Reports => disk.by \in Sessions /\ file[disk.by] = disk.holds

NotForkedYet ==
  \A k \in Sessions :
    /\ parent[k] \in {"idle", "built"} => life[k] = NotForked
    /\ parent[k] \in {"forked", "waiting", "reaped"} => life[k] # NotForked

IInv ==
  /\ TypeOK
  /\ StatusIsFinal
  /\ NotForkedYet
  /\ DiskIsPublished
  /\ TerminalMeansReaped
  /\ SuccessHasAReport

--------------------------------------------------------------------------------

(* A wait status of a runner that is gone becomes a result of the right type   *)
(* that calls the process EXITED or SIGNALED, and an exit code of 0 names no   *)
(* failure (the status decoding of RunNativeProcessBootstrap).                 *)
LEMMA FromStatusType ==
  ASSUME NEW s \in Ends
  PROVE  /\ FromStatus(s) \in Results
         /\ FromStatus(s).process_state \in {"EXITED", "SIGNALED"}
         /\ FromStatus(s).exit_code # 0 \/ FromStatus(s).failure_reason = "none"
  <1>1. CASE s = Signaled
    <2>1. /\ s.kind = "SIGNALED"
          /\ FromStatus(s) = [process_state |-> s.kind, exit_code |-> 137,
               exit_reason |-> "child_runner_signaled", activity_called |-> FALSE,
               failure_reason |-> "terminated_by_signal"]
      BY <1>1 DEF FromStatus
    <2>2. QED
      BY <2>1 DEF Results, ProcessStates, ParentReasons, FailureReasons
  <1>2. ASSUME NEW c \in ExitCodes, s = Exited(c)
        PROVE  /\ FromStatus(s) \in Results
               /\ FromStatus(s).process_state \in {"EXITED", "SIGNALED"}
               /\ FromStatus(s).exit_code # 0 \/ FromStatus(s).failure_reason = "none"
    <2>1. /\ s.kind = "EXITED" /\ s.code = c /\ c \in Nat
          /\ s # Signaled
      BY <1>2 DEF ExitCodes
    <2>2. PICK why \in ParentReasons :
            FromStatus(s) = [process_state |-> "EXITED", exit_code |-> c,
                             exit_reason |-> why, activity_called |-> FALSE,
                             failure_reason |-> "none"]
      BY <2>1 DEF FromStatus, ParentReasons
    <2>3. QED
      BY <2>1, <2>2 DEF Results, ProcessStates, FailureReasons
  <1>3. QED
    BY <1>1, <1>2 DEF Ends

(* A runner that left no report never leaves the parent with exit code 0       *)
(* (runner_report_missing in RunNativeProcessBootstrap).                       *)
LEMMA ReportMissingType ==
  ASSUME NEW r \in Results,
         r.process_state \in {"EXITED", "SIGNALED"},
         r.exit_code # 0 \/ r.failure_reason = "none"
  PROVE  /\ ReportMissing(r) \in Results
         /\ ReportMissing(r).exit_code # 0
         /\ ReportMissing(r).process_state = r.process_state
  <1>1. CASE r.failure_reason # "none"
    BY <1>1 DEF ReportMissing
  <1>2. CASE r.failure_reason = "none"
    <2>1. ReportMissing(r) =
            [process_state |-> r.process_state, exit_code |-> 2,
             exit_reason |-> "runner_report_missing",
             activity_called |-> r.activity_called,
             failure_reason |-> "no_structured_report"]
      BY <1>2 DEF ReportMissing
    <2>2. QED
      BY <2>1 DEF Results, ParentReasons, FailureReasons
  <1>3. QED
    BY <1>1, <1>2

(* ApplyNativeExecuteReport keeps the process state and takes the report's     *)
(* own exit reason and activity_called.                                        *)
LEMMA ApplyType ==
  ASSUME NEW r \in Results, NEW rep \in Reports
  PROVE  LET a == ApplyNativeExecuteReport(r, rep)
         IN  /\ a \in Results
             /\ a.process_state = r.process_state
             /\ a.exit_reason = rep.exit_reason
             /\ a.activity_called = rep.activity_called
  <1>1. rep \in ReportFields
    BY SessionAssumption
  <1>2. QED
    BY <1>1 DEF Results, ApplyNativeExecuteReport, ReportFields, FailureReasons

(* The contents of the report file that are no report, and the lives that are  *)
(* no ends, are told apart.                                                    *)
LEMMA Distinct ==
  /\ Absent \notin Reports /\ Truncated \notin Reports
  /\ Alive \notin Ends /\ NotForked \notin Ends
  <1>1. /\ Absent.exit_reason = "absent" /\ Truncated.exit_reason = "truncated"
    OBVIOUS
  <1>2. /\ Absent \notin Reports /\ Truncated \notin Reports
    BY <1>1, SessionAssumption
  <1>3. \A e \in Ends : e.kind \in {"SIGNALED", "EXITED"}
    BY DEF Ends
  <1>4. Alive.kind = "alive" /\ NotForked.kind = "not_forked"
    OBVIOUS
  <1>5. QED
    BY <1>2, <1>3, <1>4

(* The invariant holds before the first launch.                                *)
THEOREM InitInv == Init => IInv
  <1> SUFFICES ASSUME Init PROVE IInv
    OBVIOUS
  <1>1. TypeOK
    BY DEF Init, TypeOK, FileContents, ParentLabels, ProcessStates
  <1>2. StatusIsFinal /\ NotForkedYet /\ TerminalMeansReaped /\ SuccessHasAReport
    BY DEF Init, StatusIsFinal, NotForkedYet, TerminalMeansReaped, SuccessHasAReport
  <1>3. DiskIsPublished
    BY Distinct DEF Init, DiskIsPublished
  <1>4. QED
    BY <1>1, <1>2, <1>3 DEF IInv

(* Every step of a parent, a runner or the crash of either keeps the           *)
(* invariant; one step per action of NativeSession.                            *)
THEOREM NextInv == IInv /\ [Next]_vars => IInv'
  <1> SUFFICES ASSUME IInv, [Next]_vars PROVE IInv'
    OBVIOUS
  <1> USE Distinct DEF IInv
  <1>1. ASSUME NEW k \in Sessions, BuildNativeLifecycleShim(k) PROVE IInv'
    <2>1. TypeOK'
      <3>1. clean' \in [Sessions -> BOOLEAN]
        <4>1. (disk.holds = Absent) \in BOOLEAN
          OBVIOUS
        <4>2. QED
          BY <1>1, <4>1, Zenon DEF BuildNativeLifecycleShim, TypeOK
      <3>2. alone' \in [Sessions -> BOOLEAN]
        <4>1. \A j \in Sessions :
                (IF j = k THEN NobodyAround ELSE alone[j] /\ parent[j] \notin Active)
                  \in BOOLEAN
          BY Zenon DEF NobodyAround
        <4>2. QED
          BY <1>1, <4>1, Zenon DEF BuildNativeLifecycleShim
      <3>3. /\ parent' \in [Sessions -> ParentLabels]
            /\ manifest' \in [by : Sessions \cup {NoSession}, process_state : ProcessStates]
        BY <1>1 DEF BuildNativeLifecycleShim, WriteLifecycleArtifacts, TypeOK,
                    ParentLabels, ProcessStates
      <3>4. QED
        BY <1>1, <3>1, <3>2, <3>3 DEF BuildNativeLifecycleShim, TypeOK, FileContents
    <2>2. StatusIsFinal'
      BY <1>1 DEF BuildNativeLifecycleShim, WriteLifecycleArtifacts, Active, history,
         TypeOK, StatusIsFinal
    <2>3. NotForkedYet'
      BY <1>1 DEF BuildNativeLifecycleShim, WriteLifecycleArtifacts, Active, history,
         TypeOK, NotForkedYet
    <2>4. DiskIsPublished'
      BY <1>1 DEF BuildNativeLifecycleShim, WriteLifecycleArtifacts, Active, history,
         TypeOK, DiskIsPublished
    <2>5. TerminalMeansReaped'
      BY <1>1 DEF BuildNativeLifecycleShim, WriteLifecycleArtifacts, Active, history,
         TypeOK, TerminalMeansReaped, NotForkedYet, StatusIsFinal
    <2>6. SuccessHasAReport'
      BY <1>1 DEF BuildNativeLifecycleShim, WriteLifecycleArtifacts, Active, history,
         TypeOK, SuccessHasAReport
    <2>7. QED
      BY <2>1, <2>2, <2>3, <2>4, <2>5, <2>6
  <1>2. ASSUME NEW k \in Sessions, ForkFails(k) PROVE IInv'
    <2>1. TypeOK'
      BY <1>2 DEF ForkFails, Return, WriteLifecycleArtifacts, Results, ParentReasons,
         FailureReasons, history, TypeOK, ParentLabels, ProcessStates, FileContents
    <2>2. StatusIsFinal'
      BY <1>2 DEF ForkFails, Return, WriteLifecycleArtifacts, Results, ParentReasons,
         FailureReasons, history, TypeOK, StatusIsFinal
    <2>3. NotForkedYet'
      BY <1>2 DEF ForkFails, Return, WriteLifecycleArtifacts, Results, ParentReasons,
         FailureReasons, history, TypeOK, NotForkedYet
    <2>4. DiskIsPublished'
      BY <1>2 DEF ForkFails, Return, WriteLifecycleArtifacts, Results, ParentReasons,
         FailureReasons, history, TypeOK, DiskIsPublished
    <2>5. TerminalMeansReaped'
      BY <1>2 DEF ForkFails, Return, WriteLifecycleArtifacts, Results, ParentReasons,
         FailureReasons, history, TypeOK, TerminalMeansReaped, NotForkedYet,
         StatusIsFinal
    <2>6. SuccessHasAReport'
      <3> SUFFICES ASSUME NEW i \in Sessions, parent'[i] = "done", result'[i].exit_code = 0
                   PROVE  \E j \in Sessions :
                            /\ file'[j] \in Reports
                            /\ file'[j].exit_reason = result'[i].exit_reason
                            /\ file'[j].activity_called = result'[i].activity_called
        BY DEF SuccessHasAReport
      <3>1. i # k
        BY <1>2 DEF ForkFails, Return, TypeOK
      <3>2. parent[i] = "done" /\ result'[i] = result[i] /\ file' = file
        BY <1>2, <3>1 DEF ForkFails, Return, TypeOK
      <3>3. QED
        BY <3>2 DEF SuccessHasAReport
    <2>7. QED
      BY <2>1, <2>2, <2>3, <2>4, <2>5, <2>6
  <1>3. ASSUME NEW k \in Sessions, Fork(k) PROVE IInv'
    <2>1. TypeOK'
      BY <1>3 DEF Fork, history, TypeOK, ParentLabels, ProcessStates, FileContents
    <2>2. StatusIsFinal'
      BY <1>3 DEF Fork, history, TypeOK, StatusIsFinal
    <2>3. NotForkedYet'
      BY <1>3 DEF Fork, history, TypeOK, NotForkedYet
    <2>4. DiskIsPublished'
      BY <1>3 DEF Fork, history, TypeOK, DiskIsPublished
    <2>5. TerminalMeansReaped'
      BY <1>3 DEF Fork, history, TypeOK, TerminalMeansReaped, NotForkedYet,
         StatusIsFinal
    <2>6. SuccessHasAReport'
      BY <1>3 DEF Fork, history, TypeOK, SuccessHasAReport
    <2>7. QED
      BY <2>1, <2>2, <2>3, <2>4, <2>5, <2>6
  <1>4. ASSUME NEW k \in Sessions, RecordRunning(k) PROVE IInv'
    <2>1. TypeOK'
      BY <1>4 DEF RecordRunning, WriteLifecycleArtifacts, history, TypeOK,
         ParentLabels, ProcessStates, FileContents
    <2>2. StatusIsFinal'
      BY <1>4 DEF RecordRunning, WriteLifecycleArtifacts, history, TypeOK, StatusIsFinal
    <2>3. NotForkedYet'
      BY <1>4 DEF RecordRunning, WriteLifecycleArtifacts, history, TypeOK, NotForkedYet
    <2>4. DiskIsPublished'
      BY <1>4 DEF RecordRunning, WriteLifecycleArtifacts, history, TypeOK,
         DiskIsPublished
    <2>5. TerminalMeansReaped'
      BY <1>4 DEF RecordRunning, WriteLifecycleArtifacts, history, TypeOK,
         TerminalMeansReaped, NotForkedYet, StatusIsFinal
    <2>6. SuccessHasAReport'
      BY <1>4 DEF RecordRunning, WriteLifecycleArtifacts, history, TypeOK,
         SuccessHasAReport
    <2>7. QED
      BY <2>1, <2>2, <2>3, <2>4, <2>5, <2>6
  <1>5. ASSUME NEW k \in Sessions, WaitFails(k) PROVE IInv'
    <2>1. TypeOK'
      BY <1>5 DEF WaitFails, Return, WriteLifecycleArtifacts, Results, ParentReasons,
         FailureReasons, history, TypeOK, ParentLabels, ProcessStates, FileContents
    <2>2. StatusIsFinal'
      BY <1>5 DEF WaitFails, Return, WriteLifecycleArtifacts, Results, ParentReasons,
         FailureReasons, history, TypeOK, StatusIsFinal
    <2>3. NotForkedYet'
      BY <1>5 DEF WaitFails, Return, WriteLifecycleArtifacts, Results, ParentReasons,
         FailureReasons, history, TypeOK, NotForkedYet
    <2>4. DiskIsPublished'
      BY <1>5 DEF WaitFails, Return, WriteLifecycleArtifacts, Results, ParentReasons,
         FailureReasons, history, TypeOK, DiskIsPublished
    <2>5. TerminalMeansReaped'
      BY <1>5 DEF WaitFails, Return, WriteLifecycleArtifacts, Results, ParentReasons,
         FailureReasons, history, TypeOK, TerminalMeansReaped, NotForkedYet,
         StatusIsFinal
    <2>6. SuccessHasAReport'
      <3> SUFFICES ASSUME NEW i \in Sessions, parent'[i] = "done", result'[i].exit_code = 0
                   PROVE  \E j \in Sessions :
                            /\ file'[j] \in Reports
                            /\ file'[j].exit_reason = result'[i].exit_reason
                            /\ file'[j].activity_called = result'[i].activity_called
        BY DEF SuccessHasAReport
      <3>1. i # k
        BY <1>5 DEF WaitFails, Return, TypeOK
      <3>2. parent[i] = "done" /\ result'[i] = result[i] /\ file' = file
        BY <1>5, <3>1 DEF WaitFails, Return, TypeOK
      <3>3. QED
        BY <3>2 DEF SuccessHasAReport
    <2>7. QED
      BY <2>1, <2>2, <2>3, <2>4, <2>5, <2>6
  <1>6. ASSUME NEW k \in Sessions, Wait(k) PROVE IInv'
    <2>1. TypeOK'
      BY <1>6 DEF Wait, history, TypeOK, ParentLabels, ProcessStates, FileContents
    <2>2. StatusIsFinal'
      BY <1>6 DEF Wait, history, TypeOK, StatusIsFinal, NotForkedYet
    <2>3. NotForkedYet'
      BY <1>6 DEF Wait, history, TypeOK, NotForkedYet
    <2>4. DiskIsPublished'
      BY <1>6 DEF Wait, history, TypeOK, DiskIsPublished
    <2>5. TerminalMeansReaped'
      BY <1>6 DEF Wait, history, TypeOK, TerminalMeansReaped, NotForkedYet,
         StatusIsFinal
    <2>6. SuccessHasAReport'
      BY <1>6 DEF Wait, history, TypeOK, SuccessHasAReport
    <2>7. QED
      BY <2>1, <2>2, <2>3, <2>4, <2>5, <2>6
  <1>7. ASSUME NEW k \in Sessions, FinishSession(k) PROVE IInv'
    <2> DEFINE r == FromStatus(status[k])
               s == IF disk.holds = Absent THEN ReportMissing(r)
                                           ELSE ApplyNativeExecuteReport(r, disk.holds)
    <2>a. /\ parent[k] = "reaped" /\ status[k] \in Ends /\ life[k] \in Ends
          /\ disk.holds = Absent \/ disk.holds \in Reports
          /\ Return(k, s)
          /\ UNCHANGED <<life, file, disk, status, history>>
      BY <1>7 DEF FinishSession, TypeOK, FileContents, StatusIsFinal
    <2>b. /\ s \in Results
          /\ s.process_state \in {"EXITED", "SIGNALED"}
          /\ s.exit_code = 0 =>
               /\ disk.holds \in Reports
               /\ disk.holds.exit_reason = s.exit_reason
               /\ disk.holds.activity_called = s.activity_called
      <3>1. /\ r \in Results
            /\ r.process_state \in {"EXITED", "SIGNALED"}
            /\ r.exit_code # 0 \/ r.failure_reason = "none"
        BY <2>a, FromStatusType
      <3>2. CASE disk.holds = Absent
        BY <3>1, <3>2, ReportMissingType
      <3>3. CASE disk.holds \in Reports
        BY <3>1, <3>3, ApplyType
      <3>4. QED
        BY <2>a, <3>2, <3>3
    <2> HIDE DEF s
    <2>1. TypeOK'
      BY <2>a, <2>b DEF Return, WriteLifecycleArtifacts, history, TypeOK, ParentLabels,
                        ProcessStates
    <2>2. StatusIsFinal'
      BY <2>a DEF Return, TypeOK, StatusIsFinal
    <2>3. NotForkedYet'
      BY <2>a DEF Return, TypeOK, NotForkedYet
    <2>4. DiskIsPublished'
      BY <2>a DEF DiskIsPublished
    <2>5. TerminalMeansReaped'
      BY <2>a DEF Return, WriteLifecycleArtifacts, TerminalMeansReaped
    <2>6. SuccessHasAReport'
      <3> SUFFICES ASSUME NEW i \in Sessions, parent'[i] = "done", result'[i].exit_code = 0
                   PROVE  \E j \in Sessions :
                            /\ file'[j] \in Reports
                            /\ file'[j].exit_reason = result'[i].exit_reason
                            /\ file'[j].activity_called = result'[i].activity_called
        BY DEF SuccessHasAReport
      <3>1. CASE i = k
        <4>1. result'[i] = s
          BY <2>a, <3>1 DEF Return, TypeOK
        <4>2. QED
          BY <2>a, <2>b, <4>1 DEF DiskIsPublished
      <3>2. CASE i # k
        <4>1. parent[i] = "done" /\ result'[i] = result[i]
          BY <2>a, <3>2 DEF Return, TypeOK
        <4>2. QED
          BY <2>a, <4>1 DEF SuccessHasAReport
      <3>3. QED
        BY <3>1, <3>2
    <2>7. QED
      BY <2>1, <2>2, <2>3, <2>4, <2>5, <2>6
  <1>8. ASSUME NEW k \in Sessions, ReadTruncatedReport(k) PROVE IInv'
    <2>1. TypeOK'
      BY <1>8 DEF ReadTruncatedReport, history, TypeOK, ParentLabels, ProcessStates,
         FileContents
    <2>2. StatusIsFinal'
      BY <1>8 DEF ReadTruncatedReport, history, TypeOK, StatusIsFinal
    <2>3. NotForkedYet'
      BY <1>8 DEF ReadTruncatedReport, history, TypeOK, NotForkedYet
    <2>4. DiskIsPublished'
      BY <1>8 DEF ReadTruncatedReport, history, TypeOK, DiskIsPublished
    <2>5. TerminalMeansReaped'
      BY <1>8 DEF ReadTruncatedReport, history, TypeOK, TerminalMeansReaped,
         NotForkedYet, StatusIsFinal
    <2>6. SuccessHasAReport'
      BY <1>8 DEF ReadTruncatedReport, history, TypeOK, SuccessHasAReport
    <2>7. QED
      BY <2>1, <2>2, <2>3, <2>4, <2>5, <2>6
  <1>9. ASSUME NEW k \in Sessions, RunnerOpens(k) PROVE IInv'
    <2>1. TypeOK'
      BY <1>9 DEF RunnerOpens, history, TypeOK, ParentLabels, ProcessStates,
         FileContents
    <2>2. StatusIsFinal'
      BY <1>9 DEF RunnerOpens, history, TypeOK, StatusIsFinal
    <2>3. NotForkedYet'
      BY <1>9 DEF RunnerOpens, history, TypeOK, NotForkedYet
    <2>4. DiskIsPublished'
      BY <1>9 DEF RunnerOpens, history, TypeOK, DiskIsPublished
    <2>5. TerminalMeansReaped'
      BY <1>9 DEF RunnerOpens, history, TypeOK, TerminalMeansReaped, NotForkedYet,
         StatusIsFinal
    <2>6. SuccessHasAReport'
      BY <1>9 DEF RunnerOpens, history, TypeOK, SuccessHasAReport
    <2>7. QED
      BY <2>1, <2>2, <2>3, <2>4, <2>5, <2>6
  <1>10. ASSUME NEW k \in Sessions, RunnerPublishes(k) PROVE IInv'
    <2>1. TypeOK'
      BY <1>10 DEF RunnerPublishes, history, TypeOK, ParentLabels, ProcessStates,
         FileContents
    <2>2. StatusIsFinal'
      BY <1>10 DEF RunnerPublishes, history, TypeOK, StatusIsFinal
    <2>3. NotForkedYet'
      BY <1>10 DEF RunnerPublishes, history, TypeOK, NotForkedYet
    <2>4. DiskIsPublished'
      BY <1>10 DEF RunnerPublishes, history, TypeOK, DiskIsPublished
    <2>5. TerminalMeansReaped'
      BY <1>10 DEF RunnerPublishes, history, TypeOK, TerminalMeansReaped, NotForkedYet,
         StatusIsFinal
    <2>6. SuccessHasAReport'
      BY <1>10 DEF RunnerPublishes, history, TypeOK, SuccessHasAReport
    <2>7. QED
      BY <2>1, <2>2, <2>3, <2>4, <2>5, <2>6
  <1>11. ASSUME NEW k \in Sessions, RunnerEnds(k) PROVE IInv'
    <2>1. TypeOK'
      BY <1>11 DEF RunnerEnds, history, TypeOK, ParentLabels, ProcessStates,
         FileContents
    <2>2. StatusIsFinal'
      BY <1>11 DEF RunnerEnds, history, TypeOK, StatusIsFinal
    <2>3. NotForkedYet'
      BY <1>11 DEF RunnerEnds, history, TypeOK, NotForkedYet
    <2>4. DiskIsPublished'
      BY <1>11 DEF RunnerEnds, history, TypeOK, DiskIsPublished
    <2>5. TerminalMeansReaped'
      BY <1>11 DEF RunnerEnds, history, TypeOK, TerminalMeansReaped, NotForkedYet,
         StatusIsFinal
    <2>6. SuccessHasAReport'
      BY <1>11 DEF RunnerEnds, history, TypeOK, SuccessHasAReport
    <2>7. QED
      BY <2>1, <2>2, <2>3, <2>4, <2>5, <2>6
  <1>12. ASSUME NEW k \in Sessions, ParentKilled(k) PROVE IInv'
    <2>1. TypeOK'
      BY <1>12 DEF ParentKilled, Active, history, TypeOK, ParentLabels, ProcessStates,
         FileContents
    <2>2. StatusIsFinal'
      BY <1>12 DEF ParentKilled, Active, history, TypeOK, StatusIsFinal
    <2>3. NotForkedYet'
      BY <1>12 DEF ParentKilled, Active, history, TypeOK, NotForkedYet
    <2>4. DiskIsPublished'
      BY <1>12 DEF ParentKilled, Active, history, TypeOK, DiskIsPublished
    <2>5. TerminalMeansReaped'
      BY <1>12 DEF ParentKilled, Active, history, TypeOK, TerminalMeansReaped,
         NotForkedYet, StatusIsFinal
    <2>6. SuccessHasAReport'
      BY <1>12 DEF ParentKilled, Active, history, TypeOK, SuccessHasAReport
    <2>7. QED
      BY <2>1, <2>2, <2>3, <2>4, <2>5, <2>6
  <1>13. CASE UNCHANGED vars
    BY <1>13 DEF vars, history, TypeOK, StatusIsFinal, NotForkedYet, DiskIsPublished,
                 TerminalMeansReaped, SuccessHasAReport
  <1>14. QED
    BY <1>1, <1>2, <1>3, <1>4, <1>5, <1>6, <1>7, <1>8, <1>9, <1>10, <1>11, <1>12, <1>13
       DEF Next, ParentSteps, RunnerSteps

--------------------------------------------------------------------------------
(* The launch that has a clean session root to itself.  While it runs nobody     *)
(* else writes the report file, so what it finds there is its own runner's; and  *)
(* once it is over its runner no longer changes what it had published.           *)

NobodyElse ==
  \A k, j \in Sessions :
    alone[k] /\ parent[k] \in Active /\ j # k =>
      parent[j] \notin Active /\ life[j] # Alive

OwnReport ==
  \A k \in Sessions :
    alone[k] /\ clean[k] /\ parent[k] \in Active /\ disk.holds # Absent => disk.by = k

SuccessIsReaped ==
  \A k \in Sessions :
    parent[k] = "done" /\ result[k].exit_code = 0 => life[k] \in Ends

AloneInv == NobodyElse /\ OwnReport /\ SuccessIsReaped /\ FreshSessionIsTruthful

(* What is known of an undisturbed launch holds at the start.                  *)
THEOREM InitAlone == Init => AloneInv
  BY DEF Init, AloneInv, NobodyElse, OwnReport, SuccessIsReaped,
         FreshSessionIsTruthful

(* Every step keeps what is known of a launch that started in a clean session  *)
(* root and has had it to itself.                                              *)
THEOREM NextAlone == IInv /\ AloneInv /\ [Next]_vars => AloneInv'
  <1> SUFFICES ASSUME IInv, AloneInv, [Next]_vars PROVE AloneInv'
    OBVIOUS
  <1> USE Distinct DEF IInv, AloneInv
  <1>1. ASSUME NEW k \in Sessions, BuildNativeLifecycleShim(k) PROVE AloneInv'
    <2>1. NobodyElse'
      BY <1>1 DEF BuildNativeLifecycleShim, history, TypeOK, NobodyElse, NobodyAround,
         Active
    <2>2. OwnReport'
      BY <1>1 DEF BuildNativeLifecycleShim, history, TypeOK, OwnReport, NobodyElse,
         Active
    <2>3. SuccessIsReaped'
      BY <1>1 DEF BuildNativeLifecycleShim, history, TypeOK, SuccessIsReaped,
         StatusIsFinal, NotForkedYet
    <2>4. FreshSessionIsTruthful'
      BY <1>1 DEF BuildNativeLifecycleShim, history, TypeOK, FreshSessionIsTruthful,
         SuccessIsReaped, Active
    <2>5. QED
      BY <2>1, <2>2, <2>3, <2>4
  <1>2. ASSUME NEW k \in Sessions, ForkFails(k) PROVE AloneInv'
    <2>1. NobodyElse'
      BY <1>2 DEF ForkFails, Return, history, TypeOK, NobodyElse, NobodyAround, Active
    <2>2. OwnReport'
      BY <1>2 DEF ForkFails, Return, history, TypeOK, OwnReport, NobodyElse, Active
    <2>3. SuccessIsReaped'
      BY <1>2 DEF ForkFails, Return, history, TypeOK, SuccessIsReaped, StatusIsFinal,
         NotForkedYet
    <2>4. FreshSessionIsTruthful'
      <3> SUFFICES ASSUME NEW i \in Sessions, clean'[i], alone'[i], parent'[i] = "done",
                          result'[i].exit_code = 0
                   PROVE  /\ file'[i] \in Reports
                          /\ file'[i].exit_reason = result'[i].exit_reason
                          /\ file'[i].activity_called = result'[i].activity_called
        BY DEF FreshSessionIsTruthful
      <3>1. i # k
        BY <1>2 DEF ForkFails, Return, TypeOK
      <3>2. /\ parent[i] = "done" /\ result'[i] = result[i] /\ file' = file
            /\ clean[i] /\ alone[i]
        BY <1>2, <3>1 DEF ForkFails, Return, TypeOK, history
      <3>3. QED
        BY <3>2 DEF FreshSessionIsTruthful
    <2>5. QED
      BY <2>1, <2>2, <2>3, <2>4
  <1>3. ASSUME NEW k \in Sessions, Fork(k) PROVE AloneInv'
    <2>1. NobodyElse'
      BY <1>3 DEF Fork, history, TypeOK, NobodyElse, NobodyAround, Active
    <2>2. OwnReport'
      BY <1>3 DEF Fork, history, TypeOK, OwnReport, NobodyElse, Active
    <2>3. SuccessIsReaped'
      BY <1>3 DEF Fork, history, TypeOK, SuccessIsReaped, StatusIsFinal, NotForkedYet
    <2>4. FreshSessionIsTruthful'
      BY <1>3 DEF Fork, history, TypeOK, FreshSessionIsTruthful, SuccessIsReaped, Active
    <2>5. QED
      BY <2>1, <2>2, <2>3, <2>4
  <1>4. ASSUME NEW k \in Sessions, RecordRunning(k) PROVE AloneInv'
    <2>1. NobodyElse'
      BY <1>4 DEF RecordRunning, history, TypeOK, NobodyElse, NobodyAround, Active
    <2>2. OwnReport'
      BY <1>4 DEF RecordRunning, history, TypeOK, OwnReport, NobodyElse, Active
    <2>3. SuccessIsReaped'
      BY <1>4 DEF RecordRunning, history, TypeOK, SuccessIsReaped, StatusIsFinal,
         NotForkedYet
    <2>4. FreshSessionIsTruthful'
      BY <1>4 DEF RecordRunning, history, TypeOK, FreshSessionIsTruthful,
         SuccessIsReaped, Active
    <2>5. QED
      BY <2>1, <2>2, <2>3, <2>4
  <1>5. ASSUME NEW k \in Sessions, WaitFails(k) PROVE AloneInv'
    <2>1. NobodyElse'
      BY <1>5 DEF WaitFails, Return, history, TypeOK, NobodyElse, NobodyAround, Active
    <2>2. OwnReport'
      BY <1>5 DEF WaitFails, Return, history, TypeOK, OwnReport, NobodyElse, Active
    <2>3. SuccessIsReaped'
      BY <1>5 DEF WaitFails, Return, history, TypeOK, SuccessIsReaped, StatusIsFinal,
         NotForkedYet
    <2>4. FreshSessionIsTruthful'
      <3> SUFFICES ASSUME NEW i \in Sessions, clean'[i], alone'[i], parent'[i] = "done",
                          result'[i].exit_code = 0
                   PROVE  /\ file'[i] \in Reports
                          /\ file'[i].exit_reason = result'[i].exit_reason
                          /\ file'[i].activity_called = result'[i].activity_called
        BY DEF FreshSessionIsTruthful
      <3>1. i # k
        BY <1>5 DEF WaitFails, Return, TypeOK
      <3>2. /\ parent[i] = "done" /\ result'[i] = result[i] /\ file' = file
            /\ clean[i] /\ alone[i]
        BY <1>5, <3>1 DEF WaitFails, Return, TypeOK, history
      <3>3. QED
        BY <3>2 DEF FreshSessionIsTruthful
    <2>5. QED
      BY <2>1, <2>2, <2>3, <2>4
  <1>6. ASSUME NEW k \in Sessions, Wait(k) PROVE AloneInv'
    <2>1. NobodyElse'
      BY <1>6 DEF Wait, history, TypeOK, NobodyElse, NobodyAround, Active
    <2>2. OwnReport'
      BY <1>6 DEF Wait, history, TypeOK, OwnReport, NobodyElse, Active
    <2>3. SuccessIsReaped'
      BY <1>6 DEF Wait, history, TypeOK, SuccessIsReaped, StatusIsFinal, NotForkedYet
    <2>4. FreshSessionIsTruthful'
      BY <1>6 DEF Wait, history, TypeOK, FreshSessionIsTruthful, SuccessIsReaped, Active
    <2>5. QED
      BY <2>1, <2>2, <2>3, <2>4
  <1>7. ASSUME NEW k \in Sessions, FinishSession(k) PROVE AloneInv'
    <2>1. NobodyElse'
      BY <1>7 DEF FinishSession, Return, history, TypeOK, NobodyElse, NobodyAround,
         Active
    <2>2. OwnReport'
      BY <1>7 DEF FinishSession, Return, history, TypeOK, OwnReport, NobodyElse, Active
    <2>3. SuccessIsReaped'
      BY <1>7 DEF FinishSession, Return, history, TypeOK, SuccessIsReaped,
         StatusIsFinal, NotForkedYet
    <2>4. FreshSessionIsTruthful'
      <3> SUFFICES ASSUME NEW i \in Sessions, clean'[i], alone'[i], parent'[i] = "done",
                          result'[i].exit_code = 0
                   PROVE  /\ file'[i] \in Reports
                          /\ file'[i].exit_reason = result'[i].exit_reason
                          /\ file'[i].activity_called = result'[i].activity_called
        BY DEF FreshSessionIsTruthful
      <3>1. CASE i # k
        <4>1. /\ parent[i] = "done" /\ result'[i] = result[i] /\ file' = file
              /\ clean[i] /\ alone[i]
          BY <1>7, <3>1 DEF FinishSession, Return, TypeOK, history
        <4>2. QED
          BY <4>1 DEF FreshSessionIsTruthful
      <3>2. CASE i = k
        <4>1. /\ parent[k] = "reaped" /\ status[k] \in Ends /\ file' = file
              /\ clean[k] /\ alone[k]
              /\ disk.holds = Absent \/ disk.holds \in Reports
          BY <1>7, <3>2 DEF FinishSession, TypeOK, FileContents, StatusIsFinal, history
        <4>2. /\ FromStatus(status[k]) \in Results
              /\ FromStatus(status[k]).process_state \in {"EXITED", "SIGNALED"}
              /\ FromStatus(status[k]).exit_code # 0
                   \/ FromStatus(status[k]).failure_reason = "none"
          BY <4>1, FromStatusType
        <4>3. CASE disk.holds = Absent
          <5>1. result'[k] = ReportMissing(FromStatus(status[k]))
            BY <1>7, <4>3 DEF FinishSession, Return, TypeOK
          <5>2. QED
            BY <3>2, <4>2, <5>1, ReportMissingType
        <4>4. CASE disk.holds \in Reports
          <5>1. disk.holds = file[k]
            BY <4>1, <4>4 DEF OwnReport, DiskIsPublished, Active
          <5>2. result'[k] = ApplyNativeExecuteReport(FromStatus(status[k]), disk.holds)
            BY <1>7, <4>4 DEF FinishSession, Return, TypeOK
          <5>3. QED
            BY <3>2, <4>1, <4>2, <4>4, <5>1, <5>2, ApplyType
        <4>5. QED
          BY <4>1, <4>3, <4>4
      <3>3. QED
        BY <3>1, <3>2
    <2>5. QED
      BY <2>1, <2>2, <2>3, <2>4
  <1>8. ASSUME NEW k \in Sessions, ReadTruncatedReport(k) PROVE AloneInv'
    <2>1. NobodyElse'
      BY <1>8 DEF ReadTruncatedReport, history, TypeOK, NobodyElse, NobodyAround, Active
    <2>2. OwnReport'
      BY <1>8 DEF ReadTruncatedReport, history, TypeOK, OwnReport, NobodyElse, Active
    <2>3. SuccessIsReaped'
      BY <1>8 DEF ReadTruncatedReport, history, TypeOK, SuccessIsReaped, StatusIsFinal,
         NotForkedYet
    <2>4. FreshSessionIsTruthful'
      BY <1>8 DEF ReadTruncatedReport, history, TypeOK, FreshSessionIsTruthful,
         SuccessIsReaped, Active
    <2>5. QED
      BY <2>1, <2>2, <2>3, <2>4
  <1>9. ASSUME NEW k \in Sessions, RunnerOpens(k) PROVE AloneInv'
    <2>1. NobodyElse'
      BY <1>9 DEF RunnerOpens, history, TypeOK, NobodyElse, NobodyAround, Active
    <2>2. OwnReport'
      BY <1>9 DEF RunnerOpens, history, TypeOK, OwnReport, NobodyElse, Active
    <2>3. SuccessIsReaped'
      BY <1>9 DEF RunnerOpens, history, TypeOK, SuccessIsReaped, StatusIsFinal,
         NotForkedYet
    <2>4. FreshSessionIsTruthful'
      BY <1>9 DEF RunnerOpens, history, TypeOK, FreshSessionIsTruthful,
         SuccessIsReaped, Active
    <2>5. QED
      BY <2>1, <2>2, <2>3, <2>4
  <1>10. ASSUME NEW k \in Sessions, RunnerPublishes(k) PROVE AloneInv'
    <2>1. NobodyElse'
      BY <1>10 DEF RunnerPublishes, history, TypeOK, NobodyElse, NobodyAround, Active
    <2>2. OwnReport'
      BY <1>10 DEF RunnerPublishes, history, TypeOK, OwnReport, NobodyElse, Active
    <2>3. SuccessIsReaped'
      BY <1>10 DEF RunnerPublishes, history, TypeOK, SuccessIsReaped, StatusIsFinal,
         NotForkedYet
    <2>4. FreshSessionIsTruthful'
      BY <1>10 DEF RunnerPublishes, history, TypeOK, FreshSessionIsTruthful,
         SuccessIsReaped, Active
    <2>5. QED
      BY <2>1, <2>2, <2>3, <2>4
  <1>11. ASSUME NEW k \in Sessions, RunnerEnds(k) PROVE AloneInv'
    <2>1. NobodyElse'
      BY <1>11 DEF RunnerEnds, history, TypeOK, NobodyElse, NobodyAround, Active
    <2>2. OwnReport'
      BY <1>11 DEF RunnerEnds, history, TypeOK, OwnReport, NobodyElse, Active
    <2>3. SuccessIsReaped'
      BY <1>11 DEF RunnerEnds, history, TypeOK, SuccessIsReaped, StatusIsFinal,
         NotForkedYet
    <2>4. FreshSessionIsTruthful'
      BY <1>11 DEF RunnerEnds, history, TypeOK, FreshSessionIsTruthful,
         SuccessIsReaped, Active
    <2>5. QED
      BY <2>1, <2>2, <2>3, <2>4
  <1>12. ASSUME NEW k \in Sessions, ParentKilled(k) PROVE AloneInv'
    <2>1. NobodyElse'
      BY <1>12 DEF ParentKilled, history, TypeOK, NobodyElse, NobodyAround, Active
    <2>2. OwnReport'
      BY <1>12 DEF ParentKilled, history, TypeOK, OwnReport, NobodyElse, Active
    <2>3. SuccessIsReaped'
      BY <1>12 DEF ParentKilled, history, TypeOK, SuccessIsReaped, StatusIsFinal,
         NotForkedYet
    <2>4. FreshSessionIsTruthful'
      BY <1>12 DEF ParentKilled, history, TypeOK, FreshSessionIsTruthful,
         SuccessIsReaped, Active
    <2>5. QED
      BY <2>1, <2>2, <2>3, <2>4
  <1>13. CASE UNCHANGED vars
    BY <1>13 DEF vars, history, NobodyElse, OwnReport, SuccessIsReaped,
                 FreshSessionIsTruthful
  <1>14. QED
    BY <1>1, <1>2, <1>3, <1>4, <1>5, <1>6, <1>7, <1>8, <1>9, <1>10, <1>11, <1>12, <1>13
       DEF Next, ParentSteps, RunnerSteps

(* The manifest, the results and the types hold in every reachable state.        *)
THEOREM SessionInvariant == Spec => []IInv
  BY InitInv, NextInv, PTL DEF Spec

(* Every variable keeps its type, for any number of launches.                  *)
THEOREM SessionTypeOK == Spec => []TypeOK
  <1>1. IInv => TypeOK
    BY DEF IInv
  <1>2. QED
    BY <1>1, SessionInvariant, PTL

(* A manifest that says EXITED or SIGNALED speaks of a runner that is gone,    *)
(* whatever other launches of the app are doing.                               *)
THEOREM TerminalSessionsAreReaped == Spec => []TerminalMeansReaped
  <1>1. IInv => TerminalMeansReaped
    BY DEF IInv
  <1>2. QED
    BY <1>1, SessionInvariant, PTL

(* No launch returns exit code 0 unless a runner of this app published a       *)
(* report with that outcome.                                                   *)
THEOREM SuccessIsBackedByAReport == Spec => []SuccessHasAReport
  <1>1. IInv => SuccessHasAReport
    BY DEF IInv
  <1>2. QED
    BY <1>1, SessionInvariant, PTL

(* A launch that finds a clean session root and has it to itself believes its     *)
(* own runner only.                                                              *)
THEOREM FreshSessionsAreTruthful == Spec => []FreshSessionIsTruthful
  <1>1. Spec => [](IInv /\ AloneInv)
    BY InitInv, InitAlone, NextInv, NextAlone, PTL DEF Spec
  <1>2. AloneInv => FreshSessionIsTruthful
    BY DEF AloneInv
  <1>3. QED
    BY <1>1, <1>2, PTL
================================================================================
