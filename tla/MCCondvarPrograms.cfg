CONSTANTS
  NoThread = NoThread
  BurstLimit = 3
  MaxItems = 4
  MaxProducts = 4
SPECIFICATION ProgramsSpec
INVARIANTS
  TypeOK
  NoStrandedItem
  TurnsTypeOK
  NeverBothAsleep
  StatesTypeOK
PROPERTIES
  FeedSpec
  EveryItemWritten
  TurnsFeedSpec
  EveryProductConsumed
  MachineSpec
CHECK_DEADLOCK FALSE
