SPECIFICATION FairSpec
CONSTANTS
  Ranks = {0, 1, 2, 3}
  Servers = {0, 1}
  Root = 0
  Targets <- BulkClients
  MaxOps = 1
  Commits = 0
  Eager = FALSE
  Spurious = {}
  Faults = {}
PROPERTY OpsComplete
CHECK_DEADLOCK FALSE
