SPECIFICATION FairSpec
CONSTANTS
  Blocks = {b1, b2, b3, b4}
  Seqs = {r1, r2}
  Unwritten = Unwritten
  BlockSize = 2
  CacheCap = 3
  MaxLen = 6
  Tokens <- MCTokens
  Prompts <- MCPrompts
  Chunks <- MCChunks
  OutTokens <- MCTokens
  Eos = 2
  OutLimits <- MCLimits
  MaxNumSeqs = 2
  MaxBatchedTokens = 2
  ChunkedModes = {TRUE}
  Preemption = TRUE
  Watermark = 1
  Caching = TRUE
PROPERTIES AdmissionProgress
