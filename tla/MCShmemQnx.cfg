CONSTANTS
  Clients = {c1, c2}
  Scoids = {s1, s2}
  NoOne = NoOne
  MaxSize = 2
  AskedSizes = {1, 2, 3}
  Named = {0, 1, 2, 4}
  AnswerEnd = 2
  Modulus = 5
SPECIFICATION Spec
SYMMETRY Symmetry
INVARIANTS
  TypeOK
  CurrentClientsMemory
  MappingRespected
  NoReplyOwed
