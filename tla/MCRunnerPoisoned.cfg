\* One client who may lose patience; the model never raises.
CONSTANTS
  c1 = c1
  c2 = c2
  Clients <- MCOneClient
  Impatient <- MCOneClient
  Passes <- MCPasses
  MaxFailures = 0
SPECIFICATION FairSpec
PROPERTIES
  GracefulStop
CHECK_DEADLOCK FALSE
