SPECIFICATION FairSpec
CONSTANTS
  a1 = a1
  a2 = a2
  b1 = b1
  c2 = c2
  a = a
  b = b
  c = c
  Key = {a1, a2, b1, c2}
  Provider = {a, b, c}
  ProviderOf <- MCProviderOf
  TierOf <- MCTierOf
  Paced = {a1}
  Ineligible = {}
  Misconfigured = {c2}
  MaxFallbacks = 1
  FallbackOnEmpty = TRUE
  Timeout = 2
  RetryBackoff = 1
INVARIANTS
  TypeOK
  TiersInOrder
  RefusalIsUnanimous
  NoBlameWithoutCause
  AuditNamesFailure
PROPERTIES
  ImplementsFallback
  SearchEnds
