\* Two boxes with four requests each, callers that end what they begin.
CONSTANTS
  N = 2
  MaxCalls = 4
  MaxPipe = 2
  Careful = TRUE
SPECIFICATION Spec
INVARIANTS OwnEnds NothingLeaked NoStandstill
PROPERTIES ExecReturns EndsAfterLater
CHECK_DEADLOCK FALSE
