CONSTANTS
  Clients = {c1, c2}
  Scoids = {s1, s2}
  NoOne = NoOne
  Requests = {"register", "other"}
  Updateable = {c1}
  CountModulus = 2
SPECIFICATION FairSpec
INVARIANTS
  TypeOK
  SlotIsOneClient
  RegistrationKept
PROPERTIES
  ServerSpec
  SlotClientNotified
