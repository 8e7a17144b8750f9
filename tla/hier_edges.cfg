\* Every hierarchy of four roles, with one statement to permit.
CONSTANTS
  N = 4
  s1 = s1
  Perms <- OnePerm
SPECIFICATION FairSpec
INVARIANTS
  Forest EndsStandAlone NothingCountedForEnds RoomSuffices
  NothingExtra NothingMissing
PROPERTY GenReturns
