SPECIFICATION BudgetSpec
CONSTANTS
  search = search
  content = content
  probe = probe
  User = {search, content, probe}
  Limit = 2
  Calls <- MCCalls
  Rechecks = {search}
  Synced = TRUE
INVARIANTS
  BudgetTypeOK
  OverrunBounded
PROPERTIES
  LossOnlyAtFirstUse
