SPECIFICATION DexSpec
CONSTANTS
  WordBits = 4
  FieldTypes <- MCFieldTypes
  Classes <- MCClasses
  Apks <- MCMakers
  TargetMethod = "onCreate"
  ProbeRegisters = 6
  MaxFrames = 4
INVARIANTS
  ReferencesKeepTheirObject
