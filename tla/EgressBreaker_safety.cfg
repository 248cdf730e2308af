SPECIFICATION Spec
CONSTANTS
  s1 = s1
  s2 = s2
  yahoo = yahoo
  brave = brave
  mojeek = mojeek
  google = google
  vpn = vpn
  tor = tor
  direct = direct
  Search = {s1, s2}
  Engine = {yahoo, brave, google, mojeek}
  Proxy = {vpn, tor}
  Direct = direct
  Orders <- MCOrders
  Enabled = {yahoo, brave, google}
  RoutesOf <- MCRoutesOf
  MaxAttempts = 2
  Base = 1
  Cap = 1
  Rounds = 1
INVARIANTS
  TypeOK
  ProbeExclusive
PROPERTIES
  LeaseReturns
CHECK_DEADLOCK FALSE
