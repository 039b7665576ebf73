SPECIFICATION FairSpec
CONSTANTS
  Ranks = {0, 1, 2}
  Servers = {0, 1}
  Root = 0
  Targets <- QuietOne
  MaxOps = 1
  Commits = 1
  Eager = TRUE
  Spurious = {}
  Faults = {}
INVARIANT RequestPathInv
PROPERTY ImplementsAtomicCalls
PROPERTY OpsComplete
