\* Two clients, one of whom may lose patience; answers of one or three passes;
\* one exception of the model.  The system really stops.
CONSTANTS
  c1 = c1
  c2 = c2
  Clients <- MCTwoClients
  Impatient <- MCOneClient
  Passes <- MCPasses
  MaxFailures = 1
SPECIFICATION FairSpec
INVARIANTS
  RunnerTypeOK
  AnswersAreComplete
  DrainedAtExit
PROPERTIES
  AnsweredOnce
  Answered
  StopsUnlessPoisoned
CHECK_DEADLOCK FALSE
