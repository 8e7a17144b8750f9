SPECIFICATION Spec
CONSTANTS
  MaxRows = 2
  MaxRuns = 2
  MaxPipe = 2
  ClientMemory = FALSE
PROPERTIES NeverTwice StepReturns
CHECK_DEADLOCK FALSE
