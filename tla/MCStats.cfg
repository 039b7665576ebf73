SPECIFICATION Spec
CONSTANTS
  CommSize = 3
  range_server_factor = 2
  mdhim_max_recs_per_slice = 2
  MDHIM_MAX_SLICES = 3
  KeyType = "byte"
  Val <- MCBytes
  Alphabet = {1, 2, 4, 5}
  MDHIM_ALPHABET_EXPONENT = 2
  ByteBits = 2
  MaxKeyLen = 3
  NegativeFloat = "wraps"
  Keys = {1, 2, 3}
  Batches <- MCPairs
  DelLists <- MCDels
  Append_ = FALSE
  Faults = {"read", "write"}
  MaxLen = 2
  MaxNum = 3
INVARIANT TypeOK
INVARIANT StatsCoverKeys
INVARIANT NumBoundsKeys
INVARIANT ReadsIdeal
