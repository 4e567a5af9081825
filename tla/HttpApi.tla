------------------------------ MODULE HttpApi ------------------------------
(***************************************************************************)
(* POST /generate of server/api.py and the counters of server/metrics.py.  *)
(*                                                                         *)
(* The handlers are coroutines of one event loop, so that what they do     *)
(* between two awaits is one step.  The wait for the engine runs in the    *)
(* default executor, which has fewer threads than there may be calls: the  *)
(* REQUEST_TIMEOUT_S of a call begin when a thread takes it up.  What the  *)
(* engine driver does with a request is module EngineRunner; here it       *)
(* answers or does not.                                                    *)
(***************************************************************************)
EXTENDS Naturals, Sequences, FiniteSets

CONSTANTS
  Calls,   \* the handler instances there may be at a time
  Threads  \* max_workers of the default executor

ASSUME HttpAssumption == IsFiniteSet(Calls) /\ Threads \in Nat \ {0}

VARIABLES
  handler,   \* "none", "submitted" (no thread has it yet), "waiting", or the status answered
  answer,    \* PendingRequest: "none", "output" or "error"
  lineup,    \* the executor's queue
  gone,      \* the calls whose client has given up
  accepted,  \* the number of calls submitted to the engine
  counted,   \* requests_total by outcome
  escaped    \* the number of calls that an exception nobody catches ended

httpVars == <<handler, answer, lineup, gone, accepted, counted, escaped>>

Statuses == {"200", "400", "500", "504"}
Outcomes == {"success", "timeout", "error"}

HttpInit ==
  /\ handler = [c \in Calls |-> "none"] /\ answer = [c \in Calls |-> "none"]
  /\ lineup = <<>> /\ gone = {} /\ accepted = 0
  /\ counted = [o \in Outcomes |-> 0] /\ escaped = 0

\* generate() up to its await: a request that fails validation, or finds the
\* server stopping (503), is answered at once and counted nowhere; another is
\* submitted and lines up for a thread.
Reject(c) ==
  /\ handler[c] = "none"
  /\ handler' = [handler EXCEPT ![c] = "400"]
  /\ UNCHANGED <<answer, lineup, gone, accepted, counted, escaped>>

Accept(c) ==
  /\ handler[c] = "none"
  /\ handler' = [handler EXCEPT ![c] = "submitted"]
  /\ answer' = [answer EXCEPT ![c] = "none"]
  /\ lineup' = Append(lineup, c)
  /\ accepted' = accepted + 1
  /\ UNCHANGED <<gone, counted, escaped>>

\* The engine finishes or fails the request, whether or not a thread waits.
EngineAnswers(c) ==
  /\ handler[c] \in {"submitted", "waiting"} /\ answer[c] = "none"
  /\ \E a \in {"output", "error"} : answer' = [answer EXCEPT ![c] = a]
  /\ UNCHANGED <<handler, lineup, gone, accepted, counted, escaped>>

\* A thread calls wait() for the first call in line.
Busy == {c \in Calls : handler[c] = "waiting"}
StartWait ==
  /\ lineup # <<>> /\ Cardinality(Busy) < Threads
  /\ handler' = [handler EXCEPT ![Head(lineup)] = "waiting"]
  /\ lineup' = Tail(lineup)
  /\ UNCHANGED <<answer, gone, accepted, counted, escaped>>

\* generate() after its await.  Nobody reads what is sent to a client that has
\* given up.
Respond(c, status) ==
  /\ handler' = [handler EXCEPT ![c] = IF c \in gone THEN "none" ELSE status]
  /\ gone' = gone \ {c}
  /\ UNCHANGED <<answer, lineup, accepted>>

\* The outcome is counted, and the call answered.
Conclude_ErrorsUncounted(c, outcome, status) ==   \* mutant
  /\ counted' = [counted EXCEPT ![outcome] = IF outcome = "success" THEN @ + 1 ELSE @]
  /\ Respond(c, status) /\ UNCHANGED escaped
Conclude(c, outcome, status) ==
  /\ counted' = [counted EXCEPT ![outcome] = @ + 1]
  /\ Respond(c, status) /\ UNCHANGED escaped

WaitReturns(c) ==
  /\ handler[c] = "waiting"
  /\ \/ answer[c] = "output" /\ Conclude(c, "success", "200")
     \/ answer[c] = "error" /\ Conclude(c, "error", "400")

\* wait() times out, and its abort finds the request or misses it.
WaitExpires(c) ==
  /\ handler[c] = "waiting" /\ answer[c] = "none"
  /\ Conclude(c, "timeout", "504")

\* wait() times out, and its abort raises ValueError, for the driver has taken
\* the request off its queue between the search and the remove() (AbortRemove of
\* EngineRunner).  generate() catches TimeoutError and RuntimeError only.
WaitRaises(c) ==
  /\ handler[c] = "waiting" /\ answer[c] = "none"
  /\ escaped' = escaped + 1
  /\ Respond(c, "500") /\ UNCHANGED counted

ServeCall(c) == WaitReturns(c) \/ WaitExpires(c) \/ WaitRaises(c)

-----------------------------------------------------------------------------
\* The calls submitted to the engine that have not ended.
InFlight == {c \in Calls : handler[c] \in {"submitted", "waiting"}}
Total == counted["success"] + counted["timeout"] + counted["error"]

\* However calls, answers, timeouts and clients that give up interleave, every
\* call submitted to the engine that has ended is counted once, under one
\* outcome, unless the abort of its timeout raised.
CountedOnce == accepted = Total + escaped + Cardinality(InFlight)
=============================================================================
