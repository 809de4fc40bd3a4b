SPECIFICATION Spec
CONSTANTS
  Callers = {}
  Closers = {s1, s2}
  MaxKey = 1
  Tokens <- MCTokens
INVARIANT CloseIsIdempotent
