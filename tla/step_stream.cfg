SPECIFICATION Spec
CONSTANTS
  MaxRows = 5
  MaxRuns = 4
  MaxPipe = 4
  ClientMemory = TRUE
INVARIANTS TypeOK RunsOnce NoStrayReply
PROPERTY ImplementsRowStream
CHECK_DEADLOCK FALSE
