SPECIFICATION Spec
CONSTANTS
  Operations <- MCOperations
  Plain = {"x"}
  Static = {}
INVARIANT ArgumentsArrive
