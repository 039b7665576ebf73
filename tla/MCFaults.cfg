SPECIFICATION Spec
CONSTANTS
  Ranks = {0, 1, 2}
  Servers = {0, 1}
  Root = 0
  Targets <- FailingBulk
  MaxOps = 2
  Commits = 0
  Eager = TRUE
  Spurious = {"worker", "client"}
  Faults = {"pack", "unpack", "heap"}
INVARIANT NoLostWakeup
INVARIANT AppliedInOrder
CHECK_DEADLOCK FALSE
