SPECIFICATION Spec
CONSTANT Plans <- MCPlans
INVARIANTS
  TypeOK
  VerdictIsHonest
  HealableIsHealed
  FilesTellTheReport
  NoSilentHealing
CHECK_DEADLOCK FALSE
