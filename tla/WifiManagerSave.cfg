SPECIFICATION Spec
CONSTANTS
  a = a
  b = b
  c = c
  Nets = {a, b, c}
  None = None
  MaxSaved = 2
  MaxRetry = 1
  Saved <- MCSaved
  MaxCalls = 1
  Prompt = TRUE
CHECK_DEADLOCK FALSE
INVARIANT SavedWorked
