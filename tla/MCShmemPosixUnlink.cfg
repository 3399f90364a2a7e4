CONSTANTS
  Creators = {c1, c2}
  Users = {u1}
  None = None
  NumRetries = 1
  MaxVersion = 1
  MaxKilled = 1
SPECIFICATION Spec
PROPERTIES
  NameOutlivesOthers
CHECK_DEADLOCK FALSE
