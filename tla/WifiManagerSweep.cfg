SPECIFICATION Spec
CONSTANTS
  a = a
  b = b
  c = c
  Nets = {a, b, c}
  None = None
  MaxSaved = 3
  MaxRetry = 1
  Saved <- MCSavedThree
  MaxCalls = 1
  Prompt = TRUE
CHECK_DEADLOCK FALSE
INVARIANT AllTried
