--------------------------- MODULE PersistedContracts ---------------------------
(* The session contracts a launch leaves under                                  *)
(* sandbox/data/data/<package>/ and the next launch validates before it trusts  *)
(* them: src/apk_process_bridge.cpp (two files), apk_window_bridge.cpp,         *)
(* apk_runtime_bridge.cpp and apk_java_proof_bridge.cpp.  Each bridge computes  *)
(* a blocking reason, validates the file an earlier launch left, and either     *)
(* rewrites it or, when it may not repair, refuses to be ready.                 *)
(*                                                                              *)
(* The clock a contract carries is computed from the package and the component  *)
(* and is taken to be the same in every launch of one APK and one request.      *)

Files == {"activity_manager", "process", "window", "runtime", "java"}

(* The two process-manager files share a directory.                             *)
Roots == {"process_manager", "window_manager", "runtime_manager", "java_proof"}
Root(f) ==
  IF f \in {"activity_manager", "process"} THEN "process_manager"
  ELSE IF f = "window" THEN "window_manager"
  ELSE IF f = "runtime" THEN "runtime_manager" ELSE "java_proof"

(* Companions: the session map and the event log written next to the state.     *)
HasCompanions(f) == f \in {"window", "runtime", "java"}

Kinds == {"missing", "malformed", "incompatible", "json"}

Content(kind, trusted, why, paired) ==
  [kind |-> kind, contract_ready |-> trusted, reason |-> why, companions |-> paired]

Missing      == Content("missing", FALSE, "none", FALSE)
Malformed    == Content("malformed", FALSE, "none", TRUE)
Incompatible == Content("incompatible", TRUE, "none", TRUE)

(* contract_ready is set before the state is rendered in the process and window *)
(* bridges, and after it in the runtime and java bridges: their files always    *)
(* say false.                                                                   *)
RendersContractReady(f) == f \in {"activity_manager", "process", "window"}

SavedAs(f, why) == Content("json", RendersContractReady(f), why, TRUE)

(* The bytes found at a contract's path, before anyone trusts them.             *)
ValidateExistingContract(c) ==
  IF c.kind # "json" THEN c.kind
  ELSE IF c.contract_ready THEN "valid" ELSE "stale"

(* A valid contract is still incomplete unless it tells today's story: the same *)
(* blocking reason, and its companion files.  The runtime and java bridges      *)
(* compare before they have computed the reason, so against its default.        *)
ExpectedReason(f, why) == IF f \in {"runtime", "java"} THEN "none" ELSE why

LooksComplete(f, c, why) ==
  /\ c.reason = ExpectedReason(f, why)
  /\ HasCompanions(f) => c.companions

(* A missing file is suspicious only when its directory was already there.      *)
PersistedStateInvalid(f, c, why, rootSeen) ==
  \/ ValidateExistingContract(c) = "valid" /\ ~LooksComplete(f, c, why)
  \/ ValidateExistingContract(c) \in {"malformed", "incompatible", "stale"}
  \/ ValidateExistingContract(c) = "missing" /\ rootSeen

(* Mutant: a file that validates is not written again.                           *)
BuildReportKeepsValid(f, c, why, ok, allowRepair, rootSeen) ==
  IF PersistedStateInvalid(f, c, why, rootSeen) /\ ~allowRepair
  THEN [ready |-> FALSE, reason |-> "persisted_state_invalid", content |-> c]
  ELSE [ready |-> ok, reason |-> why,
        content |-> IF ValidateExistingContract(c) = "valid" THEN c ELSE SavedAs(f, why)]

(* BuildReport: what the bridge answers and what it leaves at the path.  `ok`   *)
(* is whether the contract would be ready with the blocking reason `why`.       *)
BuildReport(f, c, why, ok, allowRepair, rootSeen) ==
  IF PersistedStateInvalid(f, c, why, rootSeen) /\ ~allowRepair
  THEN [ready |-> FALSE, reason |-> "persisted_state_invalid", content |-> c]
  ELSE [ready |-> ok, reason |-> why, content |-> SavedAs(f, why)]

(* A process that dies inside BuildReport may have created the directory only,  *)
(* or truncated the state file, or written the new state beside the companions  *)
(* of the old one: the window bridge writes its state first, the runtime and    *)
(* java bridges write it last.                                                  *)
TornWrites(f, c, why) ==
  {c, Content("malformed", FALSE, "none", f = "window" => c.companions)} \cup
  (IF f = "window" THEN {Content("json", TRUE, why, c.companions)} ELSE {})
================================================================================
