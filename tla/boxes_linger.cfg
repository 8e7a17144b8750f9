\* A transaction left open in the first of two boxes.
CONSTANTS
  N = 2
  MaxCalls = 3
  MaxPipe = 2
  Careful = FALSE
SPECIFICATION Spec
PROPERTY FreeRollsBack
CHECK_DEADLOCK FALSE
