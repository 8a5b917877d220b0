----------------------------- MODULE MCNativeSession -----------------------------
(* Two launches of one app, so that one can find what the other left; a runner   *)
(* may report a completed activity or that it never got that far.                *)
EXTENDS NativeSession
MCReports ==
  {[exit_reason |-> "native_activity_completed", exit_code |-> 0,
    activity_called |-> TRUE],
   [exit_reason |-> "libraries_failed_to_load", exit_code |-> 0,
    activity_called |-> FALSE]}
================================================================================
