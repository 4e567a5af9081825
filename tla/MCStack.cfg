\* The launcher, and an answer on a health URL that is not HTTP.
CONSTANTS
  ProgramsRun = {"stack"}
  SpecTokens = {1, 2}
  SpecPrompts <- MCPrompts
  DraftTokens = 2
  SpecLimits = {1, 2, 4, 5}
  SpecEos = {0, 2}
  SpecTargets <- MCTargets
  Argmax <- MCArgmax
  Slots = 6
  N = 3
  Rooms = {0, 1, 2}
  MaxLate = 2
  Peers = {0, 1}
  IntervalTicks = 2
  FailureThreshold = 2
  ReportedSteps <- MCReportedSteps
  MaxLag = 1
  Pools <- MCPools
  Capacity <- MCCapacity
  Cost <- MCCost
  Requests <- MCRequests
  Slo <- MCSlo
  Prefill <- MCPrefill
  Decode <- MCDecode
  Names = {"default"}
  Metrics <- MCMetrics
  Samples = {100, 110, 200}
  Typical = {100, 110}
  Window = 3
  TolerancePct = 15
  Keep = 2
  MaxLines = 4
  Machines <- MCMachines
  MaxLost = 1
  MaxProcs = 2
  Services <- MCServices
  Occupied = {"dashboard"}
  MaxCuts = 2
  c1 = c1
  c2 = c2
  w1 = w1
  w2 = w2
  Calls <- MCCalls
  Threads = 1
  Workers <- MCWorkers
  Concurrencies = {1, 2}
  MaxStarts = 2
  MaxPosts = 3
SPECIFICATION MCSpec
INVARIANT ShutDownTogether
CHECK_DEADLOCK FALSE
