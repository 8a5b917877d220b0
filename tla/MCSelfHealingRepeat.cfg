SPECIFICATION Spec
CONSTANT Plans <- MCUndisturbed
INVARIANTS
  RepeatedRunsAgree
CHECK_DEADLOCK FALSE
