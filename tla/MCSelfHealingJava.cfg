SPECIFICATION Spec
CONSTANT Plans <- MCOneFault
INVARIANTS
  JavaReadyNeedsRuntime
CHECK_DEADLOCK FALSE
