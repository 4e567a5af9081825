--------------------------- MODULE MCEngineRunner ---------------------------
(* Small instances of EngineRunner for TLC.                                *)
EXTENDS EngineRunner, TLC

CONSTANTS c1, c2   \* the HTTP threads

MCOneClient == {c1}
MCTwoClients == {c1, c2}
MCPasses == {1, 3}

=============================================================================
