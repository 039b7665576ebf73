SPECIFICATION FairSpec
CONSTANTS
  Ranks = {0, 1}
  Servers = {0}
  Root = 0
  Targets <- EveryTarget
  MaxOps = 2
  Commits = 1
  Eager = FALSE
  Spurious = {"worker"}
  Faults = {}
INVARIANT TypeOK
INVARIANT AnswersMatch
INVARIANT SlotNotOverwritten
INVARIANT QuiescentStop
INVARIANT CommitSeesAllWrites
INVARIANT AppliedInOrder
PROPERTY ImplementsAtomicCalls
PROPERTY OpsComplete
PROPERTY CloseCompletes
