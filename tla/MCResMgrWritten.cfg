CONSTANTS
  Clients = {c1, c2}
  Scoids = {s1, s2}
  NoOne = NoOne
  Stages = {"write"}
  Requests <- MCRequests
  DataSize = 1
SPECIFICATION FairSpec
PROPERTIES
  ToldWhatWasWritten
