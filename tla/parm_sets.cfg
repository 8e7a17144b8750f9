SPECIFICATION Spec
CONSTANTS
  Frame = 40
  CacheMax = 64
  Lengths = {0, 3}
  MaxParms = 2
  MaxSets = 3
INVARIANTS ShortByFour RoundTrip
CHECK_DEADLOCK FALSE
