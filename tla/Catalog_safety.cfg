SPECIFICATION Spec
SYMMETRY MCSymmetry
CONSTANTS
  a1 = a1
  a2 = a2
  p = p
  k1 = k1
  k2 = k2
  s = s
  Admin = {a1, a2}
  Provider = {p}
  Key = {k1, k2}
  Slug = {s}
  ProviderOf <- MCProviderOf
  Stored <- MCStored
  MaxId = 1
  MaxWrites = 3
INVARIANTS
  TypeOK
  LoneReloadRefreshes
  SearchStaysInGroup
