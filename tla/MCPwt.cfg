SPECIFICATION FairSpec
CONSTANTS
  Workers = {1, 2}
  Path <- MCPath
  Entries <- MCEntries
  Src <- MCSrc
  Dest <- MCDest
  PATH_BUFFER_MAX = 2
  start_chunking = 4
  WORKREQ_DEADLOCK_LIMIT = 4
  Options <- MCOptions
INVARIANT EndIsComplete
INVARIANT PathsOnce
INVARIANT VerdictsRight
PROPERTY JobEnds
CHECK_DEADLOCK FALSE
