CONSTANTS
  Clients = {c1, c2}
  Scoids = {s1, s2}
  NoOne = NoOne
  MaxSize = 1
  AskedSizes = {1, 2}
  Named = {0, 1, 2}
  AnswerEnd = 1
  Modulus = 4
SPECIFICATION Spec
INVARIANTS
  ReadInsideObject
