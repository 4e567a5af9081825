SPECIFICATION FairSpec
CONSTANTS
  Blocks = {b1, b2, b3}
  Seqs = {r1, r2}
  Unwritten = Unwritten
  BlockSize = 2
  CacheCap = 2
  MaxLen = 6
  Tokens <- MCTokens
  Prompts <- MCGrowing
  Chunks <- MCChunks
  OutTokens <- MCTokens
  Eos = 2
  OutLimits <- MCGrowLimits
  MaxNumSeqs = 2
  MaxBatchedTokens = 4
  ChunkedModes = {TRUE, FALSE}
  Preemption = TRUE
  Watermark = 1
  Caching = FALSE
INVARIANTS
  KVIsOwnTokens
  NoTokenSkipped
PROPERTIES
  Served
