SPECIFICATION CommandsSpec
CONSTANTS
  WordBits = 4
  FieldTypes <- MCFieldTypes
  Classes <- MCClasses
  Apks <- MCApks
  TargetMethod = "onCreate"
  ProbeRegisters = 6
  MaxFrames = 4
  Scripts <- MCScripts
  Worlds <- MCWorlds
  DeviceStates <- MCDeviceStates
  StagedStates <- MCStagedStates
  AppClasses <- MCAppClasses
  MaxChanges = 1
  Specs <- MCSpecs
  Rooms <- MCRooms
  MaxPayload = 60
  Envelope = 20
  MaxFixtureRuns = 2
  MaxShort = 1
  Screens <- MCScreens
  InputEvents <- MCInputEvents
  MaxEvents = 2
  MaxProofs = 2
INVARIANTS
  CommandsTypeOK
  PendingIsLatest
  CollectionsHoldTheirOwn
  ProofTellsItsFiles
  ReadyWasUsable
  FullBarMeansReady
  NotesTellTheVerdict
  PreflightForetellsLaunch
  ReadyMetadataHasItsFiles
  NumbersDiffer
  LaterProofsReplay
  ReadyTellsTheSession
PROPERTIES
  LongsAgree
  LeavesNeverAlias
  ForwardProofsEnd
  QuestionsEnd
  FittingFixturesEnd
