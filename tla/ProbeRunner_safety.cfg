SPECIFICATION FairSpec
CONSTANTS
  k1 = k1
  k2 = k2
  k3 = k3
  w1 = w1
  w2 = w2
  admin = admin
  None = None
  Key = {k1, k2, k3}
  Task = {w1, w2}
  Manual = {admin}
  Adapterless = {k3}
  Unresolved = {k2}
  Status = {403, 422}
  Body = {"billing"}
  MaxEvents = 4
INVARIANTS
  TypeOK
  ProbesAccounted
PROPERTIES
  KeysAreGates
  DueKeyProbed
