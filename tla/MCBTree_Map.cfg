\* The tree is the map it should be, in every snapshot.
SPECIFICATION Spec
CONSTANTS
  Base = 4
  IdBytes = 2
  Objects <- MCObjects
  Values <- MCValues
  Batches <- MCBatches
  Deleted = Deleted
  BodySize = 54
  MaxInline = 1
  MaxOps = 2
  MaxBuilds = 2
INVARIANTS
  TypeOK
  RootsKeepContent
  ReadsAgree
  KeysIdentify
  MergeOverrides
PROPERTIES
  BuildsFit
  RebuildCompacts
CHECK_DEADLOCK FALSE
