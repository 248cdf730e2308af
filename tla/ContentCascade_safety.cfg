SPECIFICATION Spec
CONSTANTS
  deepseek = deepseek
  you = you
  nokey = nokey
  other = other
  u1 = u1
  u2 = u2
  u3 = u3
  Key = {deepseek, you, nokey}
  Url = {u1, u2, u3}
  Elsewhere = other
  TierOf <- MCTierOf
  MaxBatch <- MCMaxBatch
  Misconfigured = {nokey}
  MaxFallbacks = 1
INVARIANTS
  TypeOK
  NoUrlForgotten
  DocumentsExplained
PROPERTIES
  NoUrlPaidTwice
  FetchEnds
