----------------------------- MODULE RunnerContract -----------------------------
(* What the parent process may rely on of a native runner: the process ends at  *)
(* some point, possibly without a word, and before that publishes at most one   *)
(* report, in two steps another process can see in between.  NativeRunner       *)
(* implements it; NativeSession composes the parent with runners that only      *)
(* promise this much.                                                           *)
CONSTANTS
  Reports,     \* the reports a runner may publish
  Absent,      \* it has not touched the report file
  Truncated,   \* it has opened, and so emptied, the report file
  Alive,       \* the process runs
  Ends         \* the ways it may end

VARIABLES file, life
vars == <<file, life>>

Init == file = Absent /\ life = Alive

Open ==
  /\ life = Alive /\ file = Absent
  /\ file' = Truncated
  /\ UNCHANGED life

Publish ==
  /\ life = Alive /\ file = Truncated
  /\ file' \in Reports
  /\ UNCHANGED life

End ==
  /\ life = Alive
  /\ life' \in Ends
  /\ UNCHANGED file

Next == Open \/ Publish \/ End
Spec == Init /\ [][Next]_vars
FairSpec == Spec /\ WF_vars(End)
================================================================================
