\* Frames shorter than, as long as and longer than the basis, cut in every way.
CONSTANTS
  Basis = 3
  Lengths = {2, 3, 4, 7}
  MaxFrames = 4
  Capacity = 5
  ReaderMemory = FALSE
  HangupAlone = FALSE
SPECIFICATION Spec
INVARIANTS
  InStep
PROPERTIES
  ImplementsFramePipe
CHECK_DEADLOCK FALSE
