CONSTANTS
  Clients = {c1, c2}
  Scoids = {s1, s2}
  NoOne = NoOne
  Servers = {"server", "pulse_server", "name_lookup_server", "iov_server"}
  Texts <- MCTexts
  MaxString = 2
SPECIFICATION CksumSpec
INVARIANTS
  CksumTypeOK
PROPERTIES
  ChecksumsServed
  ScoidReleased
