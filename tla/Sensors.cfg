SPECIFICATION Spec
CONSTANTS
  FrameLen = 4
  B = 4
  Header = 3
  Types = {1, 2, 3}
  Angle = 1
  Accel = 2
  W = 6
  Timeout = 2
  MaxFaults = 2
INVARIANT Recovers
 
