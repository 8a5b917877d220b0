SPECIFICATION FairSpec
CONSTANTS
  LibraryNames <- MCLibraryNames
  JniNamed <- MCJniNamed
  NameOrder <- MCNameOrder
  MaxCallbacks = 2
  ShimCount = 2
INVARIANTS
  TypeOK
  NoStaleTrap
  PrimaryIsLastLoaded
  ReportPassedGate
  ReportNamesWhatRan
PROPERTIES
  ImplementsContract
  RunnerEnds
