SPECIFICATION FairSpec
CONSTANTS
  CommSize = 3
  range_server_factor = 2
  mdhim_max_recs_per_slice = 2
  MDHIM_MAX_SLICES = 3
  KeyType = "float"
  Val <- MCFloats
  Alphabet = {1}
  MDHIM_ALPHABET_EXPONENT = 1
  ByteBits = 1
  MaxKeyLen = 1
  NegativeFloat = "zero"
  Keys = {1, 2, 3, 4}
  Append_ = TRUE
  Faults = {"crash"}
  MaxLen = 2
  MaxNum = 2
  Writer = 0
  PutLists <- MCPutLists
  KeyLists <- MCKeyLists
  MAX_BULK_OPS = 4
  MaxErrors = 1
INVARIANT BulkIsSequential
PROPERTY FlushIsAtomic
PROPERTY FlushReturns
CHECK_DEADLOCK FALSE
