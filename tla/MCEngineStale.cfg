SPECIFICATION Spec
CONSTANTS
  Blocks = {b1, b2, b3, b4}
  Seqs = {r1, r2, r3}
  Unwritten = Unwritten
  BlockSize = 2
  CacheCap = 3
  MaxLen = 6
  Tokens <- MCTokens
  Prompts <- MCLong
  Chunks <- MCChunks
  OutTokens <- MCTokens
  Eos = 2
  OutLimits <- MCLongLimits
  MaxNumSeqs = 3
  MaxBatchedTokens = 4
  ChunkedModes = {FALSE}
  Preemption = TRUE
  Watermark = 0
  Caching = TRUE
INVARIANTS PositionsHeld
SYMMETRY MCSymmetry
