CONSTANTS
  Clients = {c1, c2}
  Scoids = {s1, s2}
  NoOne = NoOne
  Stages = {"initialization"}
  Requests <- MCRequests
  DataSize = 1
SPECIFICATION FairSpec
INVARIANTS
  AccessTimeOfDataRead
