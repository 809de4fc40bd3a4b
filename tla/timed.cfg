SPECIFICATION TimedSpec
CONSTANTS
  Callers = {}
  Closers = {s1}
  MaxKey = 2
  Tokens <- MCTokens
  Timeout = 5
  Interval = 12
INVARIANTS
  StartupBounded
  KeyFreshInTime
  LoopGoneAfterClose
