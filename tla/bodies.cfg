SPECIFICATION Spec
CONSTANT Kinds <- MCKinds
CHECK_DEADLOCK FALSE
INVARIANTS
  NoUnregisteredValidator
  ModelsAgree
  ReadModelHolds
  OnlyNewFieldsBreak
PROPERTY
  PatchIsExact
