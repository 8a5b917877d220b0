------------------------------ MODULE NativeRunner ------------------------------
(* The child process `native-execute-stub <package> ...`: ExecuteNativeStub     *)
(* with its signal trap and watchdog thread (src/native_execute_stub.cpp,       *)
(* src/signal_handler.cpp) and the report it writes on the way out              *)
(* (src/main.cpp).                                                              *)
(*                                                                              *)
(* Three actors step: the main thread (`pc`), the watchdog thread (`watchdog`)  *)
(* and code of the Android libraries, which once loaded may kill the process    *)
(* from any of its threads.  The library code itself is the environment.        *)
EXTENDS NativeLibraries

CONSTANTS
  MaxCallbacks,   \* bound: registration callbacks one library exports
  ShimCount       \* compatibility shims looked for beside the executable

ASSUME RunnerAssumption == MaxCallbacks \in Nat /\ ShimCount \in Nat \ {0}

VARIABLES
  pc,              \* where the main thread is
  dir,             \* the .so files under library_root
  candidates,      \* candidate_library_paths
  nextCandidate,   \* index of the load loop
  compat,          \* android_compat_state
  loaded,          \* libraries_loaded
  exports,         \* what dlsym finds in each library, fixed when it is loaded
  loadState,       \* load_state of each library_load_attempt
  jniState,        \* status of the JNI_OnLoad call
  jniFault,        \* history: the JNI_OnLoad call ended in a signal
  trap,            \* g_signal_trap_environment of the main thread is set
  callbacks,       \* registration callbacks still to be called
  report,          \* the NativeExecuteReport being filled in
  entryCompleted,  \* the atomic shared with the watchdog thread
  watchdog,        \* the watchdog thread
  file,            \* runner-report.json as this process leaves it
  life             \* the process: "alive", or how it ended

mainVars  == <<pc, dir, candidates, nextCandidate, compat, loaded, exports,
               loadState, jniState, jniFault, trap, callbacks, report>>
raceVars  == <<entryCompleted, watchdog>>
vars      == <<mainVars, raceVars, file, life>>

ExitReasons ==
  {"bootstrap_started", "no_native_libraries_found", "libraries_failed_to_load",
   "jni_onload_missing_or_failed", "native_entry_library_not_selected",
   "jni_onload_attempts_completed", "jni_registration_callback_crashed",
   "activity_oncreate_bundle_dispatch_required",
   "managed_activity_dispatch_required", "jni_registration_dispatch_required",
   "jni_direct_method_dispatch_required",
   "linuxoid_managed_app_start_bridge_required",
   "native_activity_entrypoint_missing", "native_activity_completed",
   "native_activity_completed_without_jni_ready"}

RegistrationOutcomes ==
  {"not_applicable", "registration_callback_symbol_missing",
   "registration_callback_crashed", "register_natives_completed",
   "find_class_without_register_natives", "no_jni_registration_observed"}

Reports ==
  [exit_reason                : ExitReasons,
   exit_code                  : {0, 1},
   entrypoint_found           : BOOLEAN,
   activity_called            : BOOLEAN,
   execution_engine_ready     : BOOLEAN,
   selected_library           : LibraryNames \cup {NoLibrary},
   registration_outcome_state : RegistrationOutcomes]

(* A report file is missing, truncated by the open that precedes the write, or *)
(* holds a report.                                                             *)
Absent    == [exit_reason |-> "absent"]
Truncated == [exit_reason |-> "truncated"]

(* How a process that no longer runs ended: WEXITSTATUS, or a signal. *)
ExitCodes == {0, 1, 2}
Exited(code) == [kind |-> "EXITED", code |-> code]
Signaled     == [kind |-> "SIGNALED", code |-> 0]
Alive        == [kind |-> "alive", code |-> 0]
Lives        == {Alive, Signaled} \cup {Exited(c) : c \in ExitCodes}

EmptyReport ==
  [exit_reason |-> "bootstrap_started", exit_code |-> 1,
   entrypoint_found |-> FALSE, activity_called |-> FALSE,
   execution_engine_ready |-> FALSE, selected_library |-> NoLibrary,
   registration_outcome_state |-> "not_applicable"]

Init ==
  /\ pc = "discover"
  /\ dir \in SUBSET LibraryNames
  /\ candidates = <<>>
  /\ nextCandidate = 1
  /\ compat = "not_attempted"
  /\ loaded = <<>>
  /\ exports = [l \in LibraryNames |-> {}]
  /\ loadState = [l \in LibraryNames |-> "none"]
  /\ jniState = "none"
  /\ jniFault = FALSE
  /\ trap = FALSE
  /\ callbacks = 0
  /\ report = EmptyReport
  /\ entryCompleted = FALSE
  /\ watchdog = "none"
  /\ file = Absent
  /\ life = Alive

--------------------------------------------------------------------------------
(* The main thread, up to the load loop.                                        *)

At(label) == life = Alive /\ pc = label

(* `return report` from ExecuteNativeStub: exit_code becomes 0 on every path.   *)
Return(r) ==
  /\ report' = [r EXCEPT !.exit_code = 0]
  /\ pc' = "open_report"

DiscoverCandidates ==
  /\ At("discover")
  /\ \E s \in BuildNativeLibraryCandidates(dir) : candidates' = s
  /\ \/ /\ dir = {}
        /\ Return([report EXCEPT !.exit_reason = "no_native_libraries_found"])
     \/ /\ dir # {}
        /\ pc' = "preload"
        /\ UNCHANGED report
  /\ UNCHANGED <<dir, nextCandidate, compat, loaded, exports, loadState, jniState,
                 jniFault, trap, callbacks, raceVars, file, life>>

(* Nothing needs the Bionic names, or every shim is tried in order.            *)
PreloadAndroidCompatibilityShims ==
  /\ At("preload")
  /\ \/ compat' = "not_required"
     \/ compat' = CompatState(<<>>, FALSE)
     \/ \E outcomes \in [1..ShimCount -> ShimOutcomes], normalized \in BOOLEAN :
          compat' = CompatState(outcomes, normalized)
  /\ pc' = "load"
  /\ UNCHANGED <<dir, candidates, nextCandidate, loaded, exports, loadState,
                 jniState, jniFault, trap, callbacks, report, raceVars, file, life>>

\* Mutants: one of the two symbols does not count.
PrimaryNeedsEntrypoint ==
  \E i \in DOMAIN loaded : "ANativeActivity_onCreate" \in exports[loaded[i]]
PrimaryNeedsJni == \E i \in DOMAIN loaded : "JNI_OnLoad" \in exports[loaded[i]]

(* primary_library_selected: a loaded library exports a symbol the runner uses. *)
PrimaryLibrarySelected == \E i \in DOMAIN loaded : exports[loaded[i]] # {}

Candidate == candidates[nextCandidate]

SkipCandidate ==
  /\ At("load") /\ nextCandidate <= Len(candidates)
  /\ PrimaryLibrarySelected
  /\ loadState' = [loadState EXCEPT ![Candidate] = "skipped_after_primary_selection"]
  /\ nextCandidate' = nextCandidate + 1
  /\ UNCHANGED <<pc, dir, candidates, compat, loaded, exports, jniState, jniFault,
                 trap, callbacks, report, raceVars, file, life>>

LoadCandidate ==
  /\ At("load") /\ nextCandidate <= Len(candidates)
  /\ ~PrimaryLibrarySelected
  /\ \/ /\ loadState' = [loadState EXCEPT ![Candidate] = "dlopen_failed"]
        /\ UNCHANGED <<loaded, exports>>
     \/ /\ loadState' = [loadState EXCEPT ![Candidate] = "loaded"]
        /\ loaded' = Append(loaded, Candidate)
        /\ \E visible \in SUBSET Symbols :
             exports' = [exports EXCEPT ![Candidate] = visible]
  /\ nextCandidate' = nextCandidate + 1
  /\ UNCHANGED <<pc, dir, candidates, compat, jniState, jniFault, trap, callbacks,
                 report, raceVars, file, life>>

EntrypointLibrary == SelectEntrypointLibrary(loaded, exports)
JniLibrary        == SelectJniLibrary(loaded, exports)

(* After the last candidate: give up if nothing loaded, or pick the entry point *)
(* and the library whose JNI_OnLoad is called.                                  *)
SelectLibraries ==
  /\ At("load") /\ nextCandidate > Len(candidates)
  /\ \/ /\ loaded = <<>>
        /\ Return([report EXCEPT !.exit_reason = "libraries_failed_to_load"])
     \/ /\ loaded # <<>>
        /\ LET found == [report EXCEPT
                          !.entrypoint_found = EntrypointLibrary # NoLibrary]
           IN  report' = [found EXCEPT
                 !.selected_library = IF EntrypointLibrary # NoLibrary
                                        THEN EntrypointLibrary ELSE JniLibrary]
        /\ pc' = IF JniLibrary = NoLibrary THEN "settle" ELSE "call_jni"
  /\ UNCHANGED <<dir, candidates, nextCandidate, compat, loaded, exports, loadState,
                 jniState, jniFault, trap, callbacks, raceVars, file, life>>

--------------------------------------------------------------------------------
(* JNI_OnLoad under the signal trap.                                            *)

BeginSignalTrap == trap' = TRUE

\* Mutant: the trap outlives the call.
EndSignalTrapForgotten == UNCHANGED trap
EndSignalTrap == trap' = FALSE

BeginJniOnLoad ==
  /\ At("call_jni")
  /\ BeginSignalTrap
  /\ pc' = "in_jni"
  /\ UNCHANGED <<dir, candidates, nextCandidate, compat, loaded, exports, loadState,
                 jniState, jniFault, callbacks, report, raceVars, file, life>>

JniOnLoadReturns ==
  /\ At("in_jni")
  /\ jniState' = "called"
  /\ EndSignalTrap
  /\ pc' = "settle"
  /\ UNCHANGED <<dir, candidates, nextCandidate, compat, loaded, exports, loadState,
                 jniFault, callbacks, report, raceVars, file, life>>

(* The handler jumps to an environment whose sigsetjmp ran in BeginSignalTrap,  *)
(* a frame that has returned.  Depending on the build, control reaches the      *)
(* `trapped_signal != 0` branch, or continues after the call as if JNI_OnLoad   *)
(* had returned the signal number.                                              *)
JniOnLoadFaults ==
  /\ At("in_jni") /\ trap
  /\ jniState' \in {"crashed", "called"}
  /\ jniFault' = TRUE
  /\ EndSignalTrap
  /\ pc' = "settle"
  /\ UNCHANGED <<dir, candidates, nextCandidate, compat, loaded, exports, loadState,
                 callbacks, report, raceVars, file, life>>

(* execution_engine_ready and the provisional exit reason; then the way on.     *)
SettleJni ==
  /\ At("settle")
  /\ LET settled == [report EXCEPT !.execution_engine_ready = jniState = "called"]
         r == [settled EXCEPT !.exit_reason =
                 IF jniState = "called" THEN "jni_onload_attempts_completed"
                 ELSE IF JniLibrary # NoLibrary THEN "jni_onload_missing_or_failed"
                 ELSE "native_entry_library_not_selected"]
     IN \/ /\ report.entrypoint_found
           /\ report' = r
           /\ pc' = "call_entry"
           /\ UNCHANGED callbacks
        \/ /\ ~report.entrypoint_found /\ jniState = "crashed"
           /\ Return(r)
           /\ UNCHANGED callbacks
        \/ /\ ~report.entrypoint_found /\ jniState = "called"
           /\ callbacks' \in 0..MaxCallbacks  \* CollectRegistrationCallbackSymbols
           /\ report' = r
           /\ pc' = "call_callback"
        \/ /\ ~report.entrypoint_found /\ jniState = "none"
           /\ Return([r EXCEPT !.exit_reason = "native_activity_entrypoint_missing"])
           /\ UNCHANGED callbacks
  /\ UNCHANGED <<dir, candidates, nextCandidate, compat, loaded, exports, loadState,
                 jniState, jniFault, trap, raceVars, file, life>>

--------------------------------------------------------------------------------
(* Registration callbacks: called in order until one completes or crashes.     *)

WaitsForCallback == At("call_callback") /\ callbacks > 0

(* The record AttemptRegistrationCallbackDispatch returns replaces the previous *)
(* one; the loop stops at a crash or at a completed registration.               *)
RecordCallback(outcome) ==
  /\ report' = [report EXCEPT !.registration_outcome_state = outcome]
  /\ callbacks' = IF outcome \in {"registration_callback_crashed",
                                  "register_natives_completed"}
                    THEN 0 ELSE callbacks - 1
  /\ pc' = "call_callback"

CallbackReturnStates ==
  {"register_natives_completed", "find_class_without_register_natives",
   "no_jni_registration_observed"}

CallbackSymbolMissing ==
  /\ WaitsForCallback
  /\ RecordCallback("registration_callback_symbol_missing")
  /\ UNCHANGED <<dir, candidates, nextCandidate, compat, loaded, exports, loadState,
                 jniState, jniFault, trap, raceVars, file, life>>

BeginCallback ==
  /\ WaitsForCallback
  /\ BeginSignalTrap
  /\ pc' = "in_callback"
  /\ UNCHANGED <<dir, candidates, nextCandidate, compat, loaded, exports, loadState,
                 jniState, jniFault, callbacks, report, raceVars, file, life>>

CallbackReturns ==
  /\ At("in_callback")
  /\ \E outcome \in CallbackReturnStates : RecordCallback(outcome)
  /\ EndSignalTrap
  /\ UNCHANGED <<dir, candidates, nextCandidate, compat, loaded, exports, loadState,
                 jniState, jniFault, raceVars, file, life>>

(* As JniOnLoadFaults: the crash branch, or on as if the callback had returned. *)
CallbackFaults ==
  /\ At("in_callback") /\ trap
  /\ \E outcome \in CallbackReturnStates \cup {"registration_callback_crashed"} :
       RecordCallback(outcome)
  /\ EndSignalTrap
  /\ UNCHANGED <<dir, candidates, nextCandidate, compat, loaded, exports, loadState,
                 jniState, jniFault, raceVars, file, life>>

(* DiscoverPostJniDispatchBoundary looks for the symbols the callbacks were     *)
(* collected from first, so it finds one of those whenever there was a callback.*)
PostJniBoundaries ==
  IF report.registration_outcome_state = "not_applicable"
    THEN {"jni_registration_dispatch_required", "jni_direct_method_dispatch_required",
          "linuxoid_managed_app_start_bridge_required"}
    ELSE {"jni_registration_dispatch_required"}

(* BuildManagedActivityDispatchAttempt: the launcher component names a class    *)
(* or it does not.                                                              *)
ManagedDispatchReasons ==
  {"activity_oncreate_bundle_dispatch_required", "managed_activity_dispatch_required"}

FinishRegistration ==
  /\ At("call_callback") /\ callbacks = 0
  /\ \E reason \in
          IF report.registration_outcome_state = "registration_callback_crashed"
            THEN {"jni_registration_callback_crashed"}
          ELSE IF report.registration_outcome_state = "register_natives_completed"
            THEN ManagedDispatchReasons
          ELSE PostJniBoundaries :
       Return([report EXCEPT !.exit_reason = reason])
  /\ UNCHANGED <<dir, candidates, nextCandidate, compat, loaded, exports, loadState,
                 jniState, jniFault, trap, callbacks, raceVars, file, life>>

--------------------------------------------------------------------------------
(* ANativeActivity_onCreate against the watchdog thread.                        *)

\* Mutant: no watchdog thread.
NoWatchdog == UNCHANGED watchdog
StartWatchdog == watchdog' = "sleeping"

CallEntrypoint ==
  /\ At("call_entry")
  /\ StartWatchdog
  /\ pc' = "in_entry"
  /\ UNCHANGED <<dir, candidates, nextCandidate, compat, loaded, exports, loadState,
                 jniState, jniFault, trap, callbacks, report, entryCompleted, file,
                 life>>

EntrypointReturns ==
  /\ At("in_entry")
  /\ report' = [report EXCEPT !.activity_called = TRUE]
  /\ pc' = "returned"
  /\ UNCHANGED <<dir, candidates, nextCandidate, compat, loaded, exports, loadState,
                 jniState, jniFault, trap, callbacks, raceVars, file, life>>

SetEntryCompleted ==
  /\ At("returned")
  /\ entryCompleted' = TRUE
  /\ pc' = "join"
  /\ UNCHANGED <<dir, candidates, nextCandidate, compat, loaded, exports, loadState,
                 jniState, jniFault, trap, callbacks, report, watchdog, file, life>>

(* The sleep is over: the thread reads the atomic, once.                        *)
WatchdogWakes ==
  /\ life = Alive /\ watchdog = "sleeping"
  /\ watchdog' = IF entryCompleted THEN "done" ELSE "expiring"
  /\ UNCHANGED <<mainVars, entryCompleted, file, life>>

(* It read FALSE: _Exit(0), whatever the main thread has done since.            *)
WatchdogExits ==
  /\ life = Alive /\ watchdog = "expiring"
  /\ life' = Exited(0)
  /\ UNCHANGED <<mainVars, raceVars, file>>

\* Mutant: the thread is detached.
WatchdogDetached  == TRUE
WatchdogJoinable  == watchdog = "done"

JoinWatchdog ==
  /\ At("join") /\ WatchdogJoinable
  /\ Return([report EXCEPT !.exit_reason =
               IF report.execution_engine_ready
                 THEN "native_activity_completed"
                 ELSE "native_activity_completed_without_jni_ready"])
  /\ UNCHANGED <<dir, candidates, nextCandidate, compat, loaded, exports, loadState,
                 jniState, jniFault, trap, callbacks, raceVars, file, life>>

--------------------------------------------------------------------------------
(* main: write the report, leave with its exit code.                            *)

(* std::ofstream truncates the file; if it cannot be opened WriteFile throws    *)
(* and main returns EXIT_FAILURE.                                               *)
OpenReport ==
  /\ At("open_report")
  /\ \/ /\ file' = Truncated
        /\ pc' = "write_report"
        /\ UNCHANGED life
     \/ /\ life' = Exited(1)
        /\ UNCHANGED <<file, pc>>
  /\ UNCHANGED <<dir, candidates, nextCandidate, compat, loaded, exports, loadState,
                 jniState, jniFault, trap, callbacks, report, raceVars>>

WriteReport ==
  /\ At("write_report")
  /\ file' = report
  /\ pc' = "flush"
  /\ UNCHANGED <<dir, candidates, nextCandidate, compat, loaded, exports, loadState,
                 jniState, jniFault, trap, callbacks, report, raceVars, life>>

\* Mutant: the report is opened a second time on the way out.
ReopenAndExit ==
  /\ At("flush")
  /\ life' = Exited(report.exit_code)
  /\ file' = Truncated
  /\ UNCHANGED <<mainVars, raceVars>>

FlushAndExit ==
  /\ At("flush")
  /\ life' = Exited(report.exit_code)
  /\ UNCHANGED <<mainVars, raceVars, file>>

--------------------------------------------------------------------------------
(* The environment.                                                             *)

(* Library code raises a signal where no trap is set for its thread (the        *)
(* handler leaves with _Exit(2)) or calls exit itself.                          *)
LibraryEndsProcess ==
  /\ life = Alive
  /\ loaded # <<>> \/ pc = "load"
  /\ life' \in {Exited(2), Exited(0)}
  /\ UNCHANGED <<mainVars, raceVars, file>>

(* A signal the runner installs no handler for (SIGKILL, SIGFPE, ...).          *)
KilledBySignal ==
  /\ life = Alive
  /\ life' = Signaled
  /\ UNCHANGED <<mainVars, raceVars, file>>

Ended ==
  /\ life # Alive
  /\ UNCHANGED vars

LoadSteps     == DiscoverCandidates \/ PreloadAndroidCompatibilityShims
                 \/ SkipCandidate \/ LoadCandidate \/ SelectLibraries
JniSteps      == BeginJniOnLoad \/ JniOnLoadReturns \/ SettleJni
CallbackSteps == CallbackSymbolMissing \/ BeginCallback \/ CallbackReturns
                 \/ FinishRegistration
WatchdogSteps == WatchdogWakes \/ WatchdogExits
ReportSteps   == OpenReport \/ WriteReport \/ FlushAndExit
Faults        == JniOnLoadFaults \/ CallbackFaults \/ LibraryEndsProcess
                 \/ KilledBySignal

Next ==
  \/ LoadSteps \/ JniSteps \/ CallbackSteps
  \/ CallEntrypoint \/ EntrypointReturns \/ SetEntryCompleted \/ JoinWatchdog
  \/ WatchdogSteps \/ ReportSteps \/ Faults \/ Ended

Spec == Init /\ [][Next]_vars

(* The kernel schedules both threads, and JNI_OnLoad and the callbacks return.  *)
(* Nothing is assumed of ANativeActivity_onCreate: the watchdog is there for    *)
(* the activity that never gives the thread back.                               *)
Fairness ==
  /\ WF_vars(LoadSteps \/ JniSteps \/ CallbackSteps \/ CallEntrypoint
             \/ SetEntryCompleted \/ JoinWatchdog \/ ReportSteps)
  /\ WF_vars(WatchdogSteps)

FairSpec == Spec /\ Fairness

--------------------------------------------------------------------------------
(* Properties.                                                                  *)

Labels ==
  {"discover", "preload", "load", "call_jni", "in_jni", "settle", "call_callback",
   "in_callback", "call_entry", "in_entry", "returned", "join", "open_report",
   "write_report", "flush"}

CompatStates ==
  {"not_attempted", "not_required", "executable_directory_unavailable",
   "shim_missing", "preload_failed", "preloaded", "preloaded_and_version_normalized"}

(* Every variable keeps its type (ExecuteNativeStub's locals and its report).   *)
TypeOK ==
  /\ pc \in Labels
  /\ dir \in SUBSET LibraryNames
  /\ candidates \in Seq(LibraryNames)
  /\ nextCandidate \in Nat \ {0}
  /\ compat \in CompatStates
  /\ loaded \in Seq(LibraryNames)
  /\ exports \in [LibraryNames -> SUBSET Symbols]
  /\ loadState \in [LibraryNames -> {"none", "loaded", "dlopen_failed",
                                     "skipped_after_primary_selection"}]
  /\ jniState \in {"none", "called", "crashed"}
  /\ jniFault \in BOOLEAN
  /\ trap \in BOOLEAN
  /\ callbacks \in 0..MaxCallbacks
  /\ report \in Reports
  /\ entryCompleted \in BOOLEAN
  /\ watchdog \in {"none", "sleeping", "expiring", "done"}
  /\ file \in {Absent, Truncated} \cup Reports
  /\ life \in Lives

(* The handler's jump target is set only while JNI_OnLoad or a callback runs: a *)
(* later crash, in ANativeActivity_onCreate say, never jumps to a dead frame of *)
(* an earlier call (EndSignalTrap on every path, signal_handler.cpp:67).        *)
NoStaleTrap == trap => pc \in {"in_jni", "in_callback"}

(* At most one loaded library exports what the runner looks for, it is the last *)
(* one loaded, and no name is tried twice; so the entry point and JNI_OnLoad    *)
(* are always taken from the same library (the load loop's                      *)
(* primary_library_selected, native_execute_stub.cpp:951-1003).                 *)
PrimaryIsLastLoaded ==
  /\ \A i \in DOMAIN loaded : exports[loaded[i]] # {} => i = Len(loaded)
  /\ \A i, j \in DOMAIN loaded : loaded[i] = loaded[j] => i = j

(* A report that says the activity was called has passed the whole watchdog     *)
(* gate: the entry point returned before the watchdog thread looked, and that   *)
(* thread has ended (the join before `return report`).  Once the thread has     *)
(* read FALSE the process can only end without a report, even if onCreate       *)
(* returns in the meantime (the detached _Exit(0) at                            *)
(* native_execute_stub.cpp:1335-1339 races the main thread).                    *)
ReportPassedGate ==
  /\ file \in Reports /\ file.activity_called => entryCompleted /\ watchdog = "done"
  /\ watchdog = "expiring" => file = Absent

(* A published report of success names a library that was loaded and exports    *)
(* the symbol the claim rests on.                                               *)
ReportNamesWhatRan ==
  file \in Reports =>
    /\ file.activity_called =>
         \E i \in DOMAIN loaded :
            /\ loaded[i] = file.selected_library
            /\ "ANativeActivity_onCreate" \in exports[loaded[i]]
    /\ file.execution_engine_ready =>
         \E i \in DOMAIN loaded :
            /\ loaded[i] = file.selected_library
            /\ "JNI_OnLoad" \in exports[loaded[i]]
    /\ file.registration_outcome_state # "not_applicable" =>
         file.execution_engine_ready /\ ~file.activity_called

(* What the parent relies on: the process publishes at most one report, in two  *)
(* steps, and nothing after it has ended.                                       *)
Contract == INSTANCE RunnerContract WITH
  Ends <- {Signaled} \cup {Exited(c) : c \in ExitCodes}

ImplementsContract == Contract!Spec

(* The runner ends even if onCreate never returns (the watchdog thread).        *)
RunnerEnds == <>(life # Alive)

(* docs/phased-build-plan.md:124 says of the runner "Catch `SIGSEGV`; every     *)
(* crash reveals the next required field": a JNI_OnLoad that ends in a signal   *)
(* is recorded as crashed, not as called.                                       *)
CrashIsRevealed == jniFault => jniState = "crashed"
================================================================================
