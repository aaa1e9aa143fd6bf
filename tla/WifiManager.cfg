SPECIFICATION FairSpec
CONSTANTS
  a = a
  b = b
  c = c
  Nets = {a, b, c}
  None = None
  MaxSaved = 2
  MaxRetry = 1
  Saved <- MCSaved
  MaxCalls = 2
  Prompt = TRUE
CHECK_DEADLOCK FALSE
INVARIANT SavedListSound
 
INVARIANT NvsIsCurrent
 
PROPERTY AttemptsEnd
