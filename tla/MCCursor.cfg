SPECIFICATION Spec
CONSTANTS
  CommSize = 3
  range_server_factor = 2
  mdhim_max_recs_per_slice = 2
  MDHIM_MAX_SLICES = 3
  KeyType = "string"
  Val <- MCStrings
  Alphabet = {1, 2, 4, 5}
  MDHIM_ALPHABET_EXPONENT = 2
  ByteBits = 2
  MaxKeyLen = 3
  NegativeFloat = "wraps"
  Keys = {1, 2, 3, 4, 5}
  Batches <- MCOneEmpty
  DelLists <- MCDelOne
  Append_ = FALSE
  Faults = {"crash"}
  MaxLen = 1
  MaxNum = 2
INVARIANT EverySliceServed
INVARIANT CursorInSlice
INVARIANT CursorEnds
INVARIANT ScanExact
