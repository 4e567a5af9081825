SPECIFICATION Spec
CONSTANTS
  Blocks = {b1, b2, b3}
  Seqs = {r1, r2, r3}
  Unwritten = Unwritten
  BlockSize = 2
  CacheCap = 2
  MaxLen = 7
  Tokens <- MCTokens
  Prompts <- MCPrompts
  Chunks <- MCChunks
  OutTokens <- MCTokens
  Eos = 2
  OutLimits <- MCCapLimits
  MaxNumSeqs = 2
  MaxBatchedTokens = 2
  ChunkedModes = {TRUE}
  Preemption = TRUE
  Watermark = 0
  Caching = TRUE
INVARIANTS
  EngineTypeOK
  NeverOutOfBlocks
  ReservationCovers
  WritesArePrivate
  KVIsOwnTokens
  QueuesConsistent
  OnlyNewestPrefills
  WaitersPinOnlyCached
PROPERTIES
  HeadNeverPreempted
  KVSpec
SYMMETRY MCSymmetry
