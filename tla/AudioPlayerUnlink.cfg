SPECIFICATION Spec
CONSTANTS
  Tracks = {t1, t2}
  Tasks = {a1, a2}
  Blocks = 2
  RingSize = 1
  None = None
INVARIANT OpenFileExists
