SPECIFICATION Spec
CONSTANTS
  CommSize = 3
  range_server_factor = 2
  mdhim_max_recs_per_slice = 2
  MDHIM_MAX_SLICES = 3
  KeyType = "int"
  Val <- MCInts
  Alphabet = {1, 2, 4, 5}
  MDHIM_ALPHABET_EXPONENT = 2
  ByteBits = 2
  MaxKeyLen = 3
  NegativeFloat = "wraps"
  Keys = {1, 2, 3, 4}
  Batches <- MCOnes
  DelLists <- MCNoDels
  Append_ = FALSE
  Faults = {}
  MaxLen = 2
  MaxNum = 3
INVARIANT NextIsSuccessor
