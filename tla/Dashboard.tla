----------------------------- MODULE Dashboard -----------------------------
(***************************************************************************)
(* The load generator of clients/node/dashboard.js against the HTTP API.   *)
(* Node runs one callback at a time: what a worker does between two awaits *)
(* is one step, but startLoad() and stopLoad() run while the workers of an *)
(* earlier run still await their answers.                                  *)
(***************************************************************************)
EXTENDS HttpApi

CONSTANTS
  Workers,        \* the worker loops there may be at a time
  Concurrencies,  \* the values of concurrency asked for
  MaxStarts,      \* bound on the runs started
  MaxPosts        \* bound on the requests sent

ASSUME DashboardAssumption ==
  /\ IsFiniteSet(Workers) /\ Calls \cap {"off", "sending", "backoff", "cut"} = {}
  /\ Concurrencies \subseteq 1 .. 64
  /\ MaxStarts \in Nat /\ MaxPosts \in Nat

VARIABLES
  loading,      \* load.running
  concurrency,  \* load.concurrency
  sent, completed, failures,  \* load.sent, load.completed, load.failed
  worker,       \* per loop: "off", "sending", the call it awaits, "backoff", or "cut"
  starts, posts,  \* runs started, requests sent so far
  leftover      \* the workers that were not off when the latest run was started

loadVars == <<loading, concurrency, sent, completed, failures, worker, starts, posts, leftover>>

LoadInit ==
  /\ loading = FALSE /\ concurrency = 0 /\ sent = 0 /\ completed = 0 /\ failures = 0
  /\ worker = [w \in Workers |-> "off"]
  /\ starts = 0 /\ posts = 0 /\ leftover = {}

Active == {w \in Workers : worker[w] # "off"}
Outstanding == {w \in Workers : worker[w] \notin {"off", "backoff"}}

\* startLoad(): stopLoad() only clears a flag that is set again at once; the
\* workers of the last run go on as workers of this one.  Each new worker runs
\* up to its first await.
StartLoad ==
  /\ starts < MaxStarts
  /\ \E n \in Concurrencies, new \in SUBSET (Workers \ Active) :
       /\ Cardinality(new) = n /\ posts + n <= MaxPosts
       /\ concurrency' = n /\ sent' = n /\ posts' = posts + n
       /\ worker' = [w \in Workers |-> IF w \in new THEN "sending" ELSE worker[w]]
  /\ loading' = TRUE /\ completed' = 0 /\ failures' = 0
  /\ starts' = starts + 1 /\ leftover' = Active
  /\ UNCHANGED httpVars

\* stopLoad(), from its route or from shutdown().
StopLoad ==
  /\ loading /\ loading' = FALSE /\ concurrency' = 0
  /\ UNCHANGED <<sent, completed, failures, worker, starts, posts, leftover, httpVars>>

\* The head of a worker's loop.
NextRound_Endless(w) ==   \* mutant: the flag is not looked at
  /\ posts < MaxPosts
  /\ worker' = [worker EXCEPT ![w] = "sending"]
  /\ sent' = sent + 1 /\ posts' = posts + 1
NextRound(w) ==
  IF loading
  THEN /\ posts < MaxPosts
       /\ worker' = [worker EXCEPT ![w] = "sending"]
       /\ sent' = sent + 1 /\ posts' = posts + 1
  ELSE worker' = [worker EXCEPT ![w] = "off"] /\ UNCHANGED <<sent, posts>>

\* The request reaches the server.
Post(w) ==
  /\ worker[w] = "sending"
  /\ \E c \in Calls :
       /\ Accept(c) \/ Reject(c)
       /\ worker' = [worker EXCEPT ![w] = c]
  /\ UNCHANGED <<loading, concurrency, sent, completed, failures, starts, posts, leftover>>

\* The answer is back: it is counted in the run of now, whichever asked for it.
Reply_AgainOnError(w, status) ==   \* mutant: a refusal is counted twice
  /\ completed' = IF status = "200" THEN completed + 1 ELSE completed
  /\ failures' = IF status = "200" THEN failures ELSE failures + 2
Reply(w, status) ==
  /\ completed' = IF status = "200" THEN completed + 1 ELSE completed
  /\ failures' = IF status = "200" THEN failures ELSE failures + 1

GetReply(w) ==
  /\ worker[w] \in Calls /\ handler[worker[w]] \in Statuses
  /\ Reply(w, handler[worker[w]])
  /\ handler' = [handler EXCEPT ![worker[w]] = "none"]
  /\ NextRound(w)
  /\ UNCHANGED <<answer, lineup, gone, accepted, counted, escaped>>
  /\ UNCHANGED <<loading, concurrency, starts, leftover>>

\* The server closes the connection before the answer is complete.  The request
\* raises no 'error' any more and the response has no 'end': upstream() settles
\* nothing, and the worker awaits it for ever.
CutOff(w) ==
  /\ worker[w] \in Calls /\ handler[worker[w]] \in Statuses
  /\ handler' = [handler EXCEPT ![worker[w]] = "none"]
  /\ worker' = [worker EXCEPT ![w] = "cut"]
  /\ UNCHANGED <<answer, lineup, gone, accepted, counted, escaped>>
  /\ UNCHANGED <<loading, concurrency, sent, completed, failures, starts, posts, leftover>>

\* The connection fails, or the socket is silent for 180 s.  The server goes
\* on with a call whose client has left.
GiveUp(w) ==
  /\ worker[w] \in {"sending"} \cup Calls
  /\ failures' = failures + 1
  /\ worker' = [worker EXCEPT ![w] = IF loading THEN "backoff" ELSE "off"]
  /\ IF worker[w] = "sending" THEN UNCHANGED <<handler, gone>>
     ELSE LET c == worker[w] IN
          IF handler[c] \in Statuses
          THEN handler' = [handler EXCEPT ![c] = "none"] /\ UNCHANGED gone
          ELSE gone' = gone \cup {c} /\ UNCHANGED handler
  /\ UNCHANGED <<answer, lineup, accepted, counted, escaped>>
  /\ UNCHANGED <<loading, concurrency, sent, completed, starts, posts, leftover>>

BackoffOver(w) ==
  /\ worker[w] = "backoff"
  /\ NextRound(w)
  /\ UNCHANGED <<loading, concurrency, completed, failures, starts, leftover, httpVars>>

HttpNext ==
  /\ \/ StartWait
     \/ \E c \in Calls : EngineAnswers(c) \/ ServeCall(c)
  /\ UNCHANGED loadVars

LoadNext ==
  \/ StartLoad \/ StopLoad \/ HttpNext
  \/ \E w \in Workers : Post(w) \/ GetReply(w) \/ CutOff(w) \/ GiveUp(w) \/ BackoffOver(w)
LoadSpec == HttpInit /\ LoadInit /\ [][LoadNext]_<<httpVars, loadVars>>

\* The event loops of both programs run what is ready, timers fire, and the
\* executor's threads run.  What the server has answered arrives, unless the
\* connection is lost first.  Nothing says the engine ever answers.
LoadFairness ==
  LET vars == <<httpVars, loadVars>> IN
  /\ WF_vars(StartWait /\ UNCHANGED loadVars)
  /\ \A c \in Calls : WF_vars(ServeCall(c) /\ UNCHANGED loadVars)
  /\ \A w \in Workers : WF_vars(Post(w)) /\ WF_vars(GetReply(w)) /\ WF_vars(BackoffOver(w))

-----------------------------------------------------------------------------
\* A load that is stopped for good drains, even if the engine never answers and
\* clients outnumber the server's threads: every worker leaves its loop, but for
\* those whose answer was cut off.
LoadDrains == (<>[]~loading) => <>[](\A w \in Active : worker[w] = "cut")

\* The figures of a run describe that run, but for the workers of earlier runs
\* that were left over when it was started: each request sent is completed, failed
\* or outstanding, and besides at most one of each such worker; those at work are
\* as many as were asked for, and them.
FiguresOfRun ==
  /\ \E inherited \in 0 .. Cardinality(leftover) :
       sent + inherited = completed + failures + Cardinality(Outstanding)
  /\ loading => Cardinality(Active) = concurrency + Cardinality(leftover)
=============================================================================
