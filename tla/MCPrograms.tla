---------------------------- MODULE MCPrograms ----------------------------
(***************************************************************************)
(* The programs of the repository beside the engine and its server, one at *)
(* a time, on small instances: each behaviour is one program's.            *)
(***************************************************************************)
EXTENDS Speculative, RingAllReduce, HealthMonitor, MultiPool, Regression, Toolchain,
        Stack, Dashboard, TLC

CONSTANTS
  ProgramsRun,           \* the programs considered, see MCProgram
  c1, c2, w1, w2         \* handler instances and load workers

VARIABLE program

idleSpec == UNCHANGED specVars
idleRing == UNCHANGED ringVars
idleHealth == UNCHANGED healthVars
idlePool == UNCHANGED poolVars
idleTrack == UNCHANGED trackVars
idleTool == UNCHANGED toolVars
idleStack == UNCHANGED stackVars
idleLoad == UNCHANGED <<httpVars, loadVars>>

\* A Windows machine with Visual Studio, and the ways others differ from it.
MCWindows ==
  [windows |-> TRUE, vs |-> "ok", onPath |-> TRUE, inInstall |-> TRUE, prompt |-> FALSE,
   unix |-> FALSE, missing |-> {}, httpx |-> TRUE, pip |-> {"pybind11"}, tools |-> {"node"}]
MCMachines ==
  { MCWindows,
    [MCWindows EXCEPT !.onPath = FALSE],
    [MCWindows EXCEPT !.vs = "broken", !.unix = TRUE],
    [MCWindows EXCEPT !.vs = "none", !.prompt = TRUE],
    [MCWindows EXCEPT !.vs = "no_vcvars", !.missing = {"fastapi"}],
    [MCWindows EXCEPT !.windows = FALSE, !.vs = "none", !.unix = TRUE,
                      !.httpx = FALSE, !.tools = {}] }

MCInit ==
  /\ program \in ProgramsRun
  /\ SpecInit /\ RingInit /\ HealthInit /\ PoolInit /\ TrackInit /\ StackInit
  /\ HttpInit /\ LoadInit
  /\ ToolInit /\ (program = "kernels" \/ machine = MCWindows)

MCNext ==
  /\ UNCHANGED program
  /\ \/ /\ program = "speculative" /\ SpecNext
        /\ idleRing /\ idleHealth /\ idlePool /\ idleTrack /\ idleTool /\ idleStack /\ idleLoad
     \/ /\ program = "allreduce" /\ RingNext
        /\ idleSpec /\ idleHealth /\ idlePool /\ idleTrack /\ idleTool /\ idleStack /\ idleLoad
     \/ /\ program = "health" /\ HealthNext
        /\ idleSpec /\ idleRing /\ idlePool /\ idleTrack /\ idleTool /\ idleStack /\ idleLoad
     \/ /\ program = "fleet" /\ PoolNext
        /\ idleSpec /\ idleRing /\ idleHealth /\ idleTrack /\ idleTool /\ idleStack /\ idleLoad
     \/ /\ program = "bench" /\ TrackNext
        /\ idleSpec /\ idleRing /\ idleHealth /\ idlePool /\ idleTool /\ idleStack /\ idleLoad
     \/ /\ program = "kernels" /\ ToolNext
        /\ idleSpec /\ idleRing /\ idleHealth /\ idlePool /\ idleTrack /\ idleStack /\ idleLoad
     \/ /\ program = "stack" /\ StackNext
        /\ idleSpec /\ idleRing /\ idleHealth /\ idlePool /\ idleTrack /\ idleTool /\ idleLoad
     \/ /\ program = "dashboard" /\ LoadNext
        /\ idleSpec /\ idleRing /\ idleHealth /\ idlePool /\ idleTrack /\ idleTool /\ idleStack

MCVars == <<program, specVars, ringVars, healthVars, poolVars, trackVars, toolVars, stackVars,
            httpVars, loadVars>>
MCSpec == MCInit /\ [][MCNext]_MCVars
MCFairSpec == MCSpec /\ RingFairness /\ LoadFairness

\* Speculative decoding.
MCPrompts == {<<1>>, <<2, 1>>}
\* Targets that look at a digest of the whole text: no two texts that differ in
\* one token have the same.
MCTargets == [0..3 -> SpecTokens]
MCArgmax(t, s) == t[FoldLeft(LAMBDA d, x : (3 * d + x) % 4, 0, s)]
\* The failure detector.
MCReportedSteps == {-1, 0}
\* Three pools, six requests: two sizes for each of three latency targets.  A
\* decode step reads the weights, and the context of each request of its batch.
MCPools == {1, 2, 3}
MCCapacity == <<2, 2, 1>>
MCCost == <<10, 26, 54>>
MCRequests == 1 .. 6
MCSlo == <<5, 5, 20, 20, 100, 100>>
MCPrefill ==
  <<<<2, 1, 1>>, <<4, 2, 1>>, <<2, 1, 1>>, <<4, 2, 1>>, <<2, 1, 1>>, <<4, 2, 1>>>>
MCWeights ==
  <<<<4, 2, 1>>, <<36, 20, 9>>, <<8, 5, 2>>, <<60, 36, 15>>, <<80, 45, 20>>, <<440, 260, 110>>>>
MCContext ==
  <<<<1, 0, 0>>, <<2, 1, 1>>, <<1, 0, 0>>, <<2, 1, 1>>, <<3, 2, 1>>, <<8, 5, 2>>>>
MCDecode ==
  [q \in MCRequests |-> [p \in MCPools |->
     [b \in 1 .. 2 |-> MCWeights[q][p] + b * MCContext[q][p]]]]
\* The regression tracker.
MCMetrics == [ttft |-> "lower_is_better", tput |-> "higher_is_better"]
\* The stack.
MCServices == <<"server", "dashboard", "prometheus">>
\* The load generator and the API.
MCCalls == {c1, c2}
MCWorkers == {w1, w2}

=============================================================================
