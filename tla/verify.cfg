SPECIFICATION Spec
CONSTANTS
  Callers = {c1, c2}
  Closers = {}
  MaxKey = 2
  Tokens <- MCTokens
SYMMETRY CallerSymmetry
INVARIANTS
  NoDataRace
  VerifierHasKey
  RetiredKeyRejected
  CurrentKeyAccepted
PROPERTIES
  KeyMonotone
  ImplementsKeyRegister
