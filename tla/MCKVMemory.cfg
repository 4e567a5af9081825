SPECIFICATION KVSpec
CONSTANTS
  Blocks = {b1, b2, b3}
  Seqs = {s1, s2}
  Unwritten = Unwritten
  BlockSize = 2
  CacheCap = 1
  Caching = TRUE
  MaxLen = 5
  Tokens <- MCTokens
  Prompts <- MCPrompts
  Chunks <- MCChunks
INVARIANTS
  KVTypeOK
  RefAccounting
  Readable
  CacheSound
  VictimUnique
PROPERTY
  StoreSpec
SYMMETRY MCSymmetry
