------------------------------- MODULE Stack -------------------------------
(***************************************************************************)
(* scripts/run_stack.py: starts the inference server and its optional      *)
(* companions, watches them, and stops them in reverse order.              *)
(*                                                                         *)
(* A signal reaches the launcher only: that is `kill`, and it is Ctrl+C    *)
(* too on Windows, where every service has a process group of its own.     *)
(***************************************************************************)
EXTENDS Naturals, Sequences, FiniteSets, SequencesExt

CONSTANTS
  Services,  \* what build_services() may return, in order; the first is mandatory
  Occupied,  \* the services on whose port another process may answer
  MaxCuts    \* bound on the signals that no handler catches

ASSUME StackAssumption ==
  /\ Services # <<>> /\ IsInjective(Services)
  /\ Occupied \subseteq ToSet(Tail(Services))
  /\ MaxCuts \in Nat

VARIABLES
  stage,      \* where main() is
  smoke,      \* --smoke
  todo,       \* the services still to be started
  started,    \* `started`
  stopping,   \* of shutdown(): the services still to be stopped
  handlers,   \* the signal handlers are installed
  process,    \* per service: "none", "running", "killed" (kill() is not awaited) or "gone"
  squatters,  \* the services on whose port another process does answer
  cuts,       \* the uncaught signals, with the stage each found main() in
  raised      \* an exception left start() after Popen

stackVars == <<stage, smoke, todo, started, stopping, handlers, process, squatters, cuts,
               raised>>

Mandatory == Head(Services)

StackInit ==
  /\ stage = "port" /\ smoke = FALSE /\ todo = Services /\ started = <<>>
  /\ stopping = <<>> /\ handlers = FALSE
  /\ process = [s \in ToSet(Services) |-> "none"] /\ squatters = {} /\ cuts = {}
  /\ raised = FALSE

\* build_services() leaves out what is disabled or not installed.
Installed(present) == SelectSeq(Services, LAMBDA s : s \in present \cup {Mandatory})

\* main() up to the loop: the server's port must be free; nobody looks at the
\* other ports.
CheckPort ==
  /\ stage = "port"
  /\ smoke' \in BOOLEAN
  /\ \/ stage' = "ended" /\ UNCHANGED <<todo, squatters>>
     \/ /\ stage' = "next"
        /\ \E present \in SUBSET ToSet(Tail(Services)) : todo' = Installed(present)
        /\ squatters' \in SUBSET Occupied
  /\ UNCHANGED <<started, stopping, handlers, process, cuts, raised>>

\* shutdown() begins: from the try, or from the finally block.
Shutdown == stage' = "stop" /\ stopping' = Reverse(started)

\* Service.start(): the command is missing, or the process is there.
Popen ==
  /\ stage = "next" /\ todo # <<>>
  /\ \/ stage' = "wait" /\ process' = [process EXCEPT ![Head(todo)] = "running"]
     \/ stage' = "failed" /\ UNCHANGED process
  /\ UNCHANGED <<smoke, todo, started, stopping, handlers, squatters, cuts, raised>>

\* wait_for_http(): anyone's answer on the URL will do.
HealthAnswered ==
  /\ stage = "wait"
  /\ process[Head(todo)] = "running" \/ Head(todo) \in squatters
  /\ stage' = "next"
  /\ started' = Append(started, Head(todo)) /\ todo' = Tail(todo)
  /\ UNCHANGED <<smoke, stopping, handlers, process, squatters, cuts, raised>>

\* Service.stop(): SIGTERM, ten seconds, then kill() without a wait().
Stopped_OnlyTerminated(s) ==   \* mutant: the TimeoutExpired is swallowed
  {[process EXCEPT ![s] = IF @ = "running" THEN e ELSE @] : e \in {"gone", "running"}}
Stopped(s) ==
  {[process EXCEPT ![s] = IF @ = "running" THEN e ELSE @] : e \in {"gone", "killed"}}

\* wait_for_http() ran into its deadline.
HealthFailed ==
  /\ stage = "wait" /\ Head(todo) \notin squatters
  /\ process' \in Stopped(Head(todo))
  /\ stage' = "failed"
  /\ UNCHANGED <<smoke, todo, started, stopping, handlers, squatters, cuts, raised>>

\* start() raises, which nothing but the finally block sees: before Popen, where
\* the log cannot be opened, or after it, when the other process on the port does
\* not speak HTTP (http.client.HTTPException is no OSError).  The service may be
\* running then, and is not in `started`.
LogFails ==
  /\ stage = "next" /\ todo # <<>>
  /\ Shutdown
  /\ UNCHANGED <<smoke, todo, started, handlers, process, squatters, cuts, raised>>
HealthRaises ==
  /\ stage = "wait" /\ Head(todo) \in squatters
  /\ Shutdown /\ raised' = TRUE
  /\ UNCHANGED <<smoke, todo, started, handlers, process, squatters, cuts>>

\* start() returned False: only a mandatory service ends the launcher.
StartFailed ==
  /\ stage = "failed"
  /\ IF Head(todo) = Mandatory
     THEN Shutdown /\ UNCHANGED todo
     ELSE stage' = "next" /\ todo' = Tail(todo) /\ UNCHANGED stopping
  /\ UNCHANGED <<smoke, started, handlers, process, squatters, cuts, raised>>

\* Everything is up: one smoke request, or the handlers and the loop.
StackUp ==
  /\ stage = "next" /\ todo = <<>>
  /\ stage' = IF smoke THEN "smoke" ELSE "watch"
  /\ handlers' = ~smoke
  /\ UNCHANGED <<smoke, todo, started, stopping, process, squatters, cuts, raised>>

\* The smoke request is answered or raises; the loop is told to stop by a
\* handled signal or by the death of the mandatory service.
StackDone ==
  /\ stage = "smoke" \/ stage = "watch"
  /\ Shutdown
  /\ UNCHANGED <<smoke, todo, started, handlers, process, squatters, cuts, raised>>

\* The rounds of shutdown(), and the end.  A second call, from the finally
\* block, finds shutdown_done set.
StopNext ==
  /\ stage = "stop" /\ stopping # <<>>
  /\ process' \in Stopped(Head(stopping))
  /\ stopping' = Tail(stopping)
  /\ UNCHANGED <<stage, smoke, todo, started, handlers, squatters, cuts, raised>>
StackEnds ==
  /\ stage = "stop" /\ stopping = <<>>
  /\ stage' = "ended"
  /\ UNCHANGED <<smoke, todo, started, stopping, handlers, process, squatters, cuts, raised>>

\* KeyboardInterrupt: the finally block calls shutdown(), which returns at once
\* when it had begun already; from within the finally block it is not caught.
\* SIGTERM ends the launcher where it is.
CutBy(signal) ==
  /\ ~handlers /\ stage \notin {"port", "ended"} /\ Cardinality(cuts) < MaxCuts
  /\ cuts' = cuts \cup {<<signal, stage>>}
  /\ IF signal = "TERM" \/ stage = "stop"
     THEN stage' = "ended" /\ UNCHANGED stopping
     ELSE Shutdown
  /\ UNCHANGED <<smoke, todo, started, handlers, process, squatters, raised>>

\* A service exits, or is gone after kill().
ServiceExits(s) ==
  /\ process[s] \in {"running", "killed"}
  /\ process' = [process EXCEPT ![s] = "gone"]
  /\ UNCHANGED <<stage, smoke, todo, started, stopping, handlers, squatters, cuts, raised>>

StackNext ==
  \/ CheckPort \/ Popen \/ HealthAnswered \/ HealthFailed \/ LogFails \/ HealthRaises
  \/ StartFailed \/ StackUp \/ StackDone \/ StopNext \/ StackEnds
  \/ \E signal \in {"INT", "TERM"} : CutBy(signal)
  \/ \E s \in ToSet(Services) : ServiceExits(s)
StackSpec == StackInit /\ [][StackNext]_stackVars

-----------------------------------------------------------------------------
\* The launcher leaves no service running but what was lost on the way: the one
\* being started, which `started` does not have yet, to Ctrl+C or to an exception
\* out of start(); those shutdown() had not reached, to Ctrl+C; any, to SIGTERM.
LostInStart(s) == (raised \/ <<"INT", "wait">> \in cuts) /\ s = Head(todo)
LostToTerm == \E where \in {"next", "wait", "failed", "smoke", "stop"} : <<"TERM", where>> \in cuts
Left == {s \in ToSet(Services) : process[s] = "running"}
LeavesNothing ==
  stage = "ended" =>
    \A s \in Left :
      \/ LostInStart(s) \/ LostToTerm
      \/ <<"INT", "stop">> \in cuts /\ s \in ToSet(stopping)

\* "Starts, supervises and shuts down together ... Ctrl+C shuts the whole stack
\* down in reverse order." (run_stack.py:6 and 17): unless SIGTERM ends it, the
\* launcher leaves nothing running.
ShutDownTogether == stage = "ended" /\ (\A cut \in cuts : cut[1] = "INT") => Left = {}
=============================================================================
