SPECIFICATION Spec
CONSTANTS
  MaxCalls = 3
  MaxPipe = 2
  Basis = 3
  Longest = 4
  Wire = 4
  Unheld = FALSE
  Cuts = 1
PROPERTIES FailureIsFinal
