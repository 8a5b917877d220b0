SPECIFICATION Spec
CONSTANTS
  LibraryNames <- MCSmallNames
  JniNamed <- MCSmallJniNamed
  NameOrder <- MCSmallOrder
  MaxCallbacks = 1
  ShimCount = 1
INVARIANTS
  CrashIsRevealed
