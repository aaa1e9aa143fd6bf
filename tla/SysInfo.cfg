SPECIFICATION Spec
CONSTANTS
  idle0 = idle0
  idle1 = idle1
  a = a
  b = b
  Handles = {idle0, idle1, a, b}
  Idle = {idle0, idle1}
  W = 4
  MAX_TASKS = 3
  Hwm <- MCHwm
  MaxWindow = 2
SYMMETRY TaskSymmetry
PROPERTY SharesTrue
