SPECIFICATION Spec
CONSTANT Kinds <- MCKinds
CHECK_DEADLOCK FALSE
INVARIANT
  NicknamesAreCharacters
