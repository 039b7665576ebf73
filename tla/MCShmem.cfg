SPECIFICATION FairSpec
CONSTANTS
  NumPes = 3
  LibLen = 10
  UsrLen = 6
  Width <- MCWidth
  ByValue <- MCByValue
  Programs <- MCPrograms
  HeapFaults = TRUE
INVARIANT TypeOK
INVARIANT CollectivesDeliver
INVARIANT RecvGetsMessage
INVARIANT TestCompletes
INVARIANT PackRoundTrip
INVARIANT BarriersMatch
INVARIANT CommsAgree
PROPERTY Terminates
CHECK_DEADLOCK FALSE
