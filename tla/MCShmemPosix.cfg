CONSTANTS
  Creators = {c1, c2}
  Users = {u1, u2}
  None = None
  NumRetries = 1
  MaxVersion = 2
  MaxKilled = 1
SPECIFICATION FairSpec
INVARIANTS
  TypeOK
  FoundIsUsable
  NoTornRead
PROPERTIES
  UserCatchesUp
CHECK_DEADLOCK FALSE
