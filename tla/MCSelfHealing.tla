------------------------------ MODULE MCSelfHealing ------------------------------
(* The requests the command line can make that differ in what they pull in: the  *)
(* process contracts alone, the runtime and the java proof on top of them        *)
(* without self-healing, and the two self-healing requests.  Two launches with   *)
(* an upset in between show what one can tell the next; one launch with three    *)
(* faults shows faults that meet.                                                *)
EXTENDS SelfHealing
Requests == {{"process"}, {"runtime"}, {"java"}, {"self_heal"}, {"first_app_start"}}
SelfHealRequests == {{"self_heal"}, {"first_app_start"}}
Plan(requests, most_launches, most_upsets, most_faults) ==
  [requests |-> requests, launches |-> most_launches, upsets |-> most_upsets,
   faults |-> most_faults]

MCPlans == {Plan({{"runtime"}, {"first_app_start"}}, 2, 1, 1),
            Plan(Requests, 1, 0, 3)}
MCOneFault  == {Plan(SelfHealRequests, 1, 0, 1)}
MCUndisturbed == {Plan(SelfHealRequests, 2, 0, 0)}
================================================================================
