SPECIFICATION Spec
CONSTANTS
  Ranks = {0, 1}
  Servers = {0}
  Root = 0
  Targets <- EveryTarget
  MaxOps = 2
  Commits = 1
  Eager = TRUE
  Spurious = {"client"}
  Faults = {}
INVARIANT AnswersMatch
