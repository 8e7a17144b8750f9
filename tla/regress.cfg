SPECIFICATION Spec
CONSTANTS
  MaxId = 6
  MaxTrans = 2
INVARIANT AsExpected
PROPERTIES TestsEnd
CHECK_DEADLOCK FALSE
