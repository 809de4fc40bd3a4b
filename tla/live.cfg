SPECIFICATION FairSpec
CONSTANTS
  Callers = {c1}
  Closers = {s1, s2}
  MaxKey = 2
  Tokens <- MCGoodTokens
INVARIANTS
  IInv
  CloseTakesEffect
  ClosePanicsOnceOnNil
  StartupFailsForAReason
PROPERTIES
  NewVerifierEnds
  LoopStops
  RotationInstalled
  WriterGetsLock
  VerifyEnds
  CloseEnds
