SPECIFICATION Spec
CONSTANTS
  MaxCalls = 5
  MaxPipe = 2
  Basis = 3
  Longest = 3
  Wire = 4
  Unheld = TRUE
  Cuts = 1
INVARIANTS SameStatement QueuesMirror AnswerIsMine NothingDropped
PROPERTIES CallsReturn ServerEnds
