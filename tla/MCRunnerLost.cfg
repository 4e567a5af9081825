\* Two clients, one of whom may lose patience; the model never raises.
CONSTANTS
  c1 = c1
  c2 = c2
  Clients <- MCTwoClients
  Impatient <- MCOneClient
  Passes <- MCPasses
  MaxFailures = 0
SPECIFICATION Spec
INVARIANTS
  InFlightDrained
CHECK_DEADLOCK FALSE
