SPECIFICATION Spec
CONSTANTS
  HdrLen = 3
  IntLen = 2
  MaxMsg = 15
  Lens = {0, 1, 2, 14}
  MaxRecords = 2
  HeapFaults = TRUE
INVARIANT PackExact
INVARIANT RoundTrip
INVARIANT ReleaseComplete
