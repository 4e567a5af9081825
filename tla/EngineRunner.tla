---------------------------- MODULE EngineRunner ----------------------------
(***************************************************************************)
(* The background driver (server/engine_runner.py): HTTP threads submit    *)
(* requests and wait; one engine thread admits them, steps the engine and  *)
(* delivers the answers; a shutdown drains what is in flight.              *)
(*                                                                         *)
(* wait() aborts a request from its HTTP thread while the engine thread    *)
(* may be anywhere in step(), so the engine is kept in as much detail as   *)
(* the two threads can disturb: which queue holds a request, whether it    *)
(* has its SequenceKV, and whether that SequenceKV has blocks.  Memory is  *)
(* never short here (no preemption, no refused admission), a prefill is    *)
(* one chunk, and a request is finished by its left[c]-th forward pass.    *)
(*                                                                         *)
(* Python threads may switch between any two statements.  Taken as one     *)
(* step: the passes of schedule() over its copies of the running list,     *)
(* _release(), _fail_all(), and what step() does to a request once a       *)
(* forward pass has returned.  Which of the waiting requests is the first  *)
(* is left open.                                                           *)
(***************************************************************************)
EXTENDS Integers, Sequences, FiniteSets

CONSTANTS
  Clients,      \* HTTP threads; each makes one request, which bears its name
  Impatient,    \* the clients whose wait() may expire
  Passes,       \* the numbers of forward passes an answer may take
  MaxFailures   \* bound on the exceptions that come out of the model itself

ASSUME RunnerAssumption ==
  /\ IsFiniteSet(Clients)
  /\ Impatient \subseteq Clients
  /\ Passes \subseteq Nat \ {0}
  /\ MaxFailures \in Nat

VARIABLES
  stopping,    \* _stopping
  submissions, \* _submissions
  pending,     \* the keys of _pending
  named,       \* the clients whose PendingRequest.request_id is assigned
  done,        \* the clients whose PendingRequest.done is set
  result,      \* PendingRequest.output / .error: "none", "output" or "error"
  client,      \* where each HTTP thread is
  found,       \* the queue in which abort() has found the client's request
  loop,        \* where the engine thread is
  state,       \* Request.state
  queue,       \* the list that holds the request: "waiting", "running", "none"
  kv,          \* the requests whose kv is not None
  holds,       \* the requests whose SequenceKV, attached or not, has blocks
  prefilled,   \* the requests with prefill_done
  left,        \* the forward passes each request still needs
  todo,        \* the copied running list, to schedule or to retire; in between:
               \* prefill chunks to execute
  decodes,     \* SchedulerOutput.decode_requests
  current,     \* the request being admitted or retired; the requests whose kv
               \* the running forward pass was handed
  outputs,     \* the outputs of this step that are finished
  failures     \* exceptions of the model so far

driver == <<stopping, submissions, pending, named, done, result>>
http == <<client, found>>
engine == <<state, queue, kv, holds, prefilled, left>>
step == <<todo, decodes, current, outputs, failures>>
vars == <<driver, http, loop, engine, step>>

Over == {"finished", "aborted"}
In(q) == {c \in Clients : queue[c] = q}

Init ==
  /\ stopping = FALSE /\ submissions = <<>>
  /\ pending = {} /\ named = {} /\ done = {}
  /\ result = [c \in Clients |-> "none"]
  /\ client = [c \in Clients |-> "idle"]
  /\ found = [c \in Clients |-> "none"]
  /\ loop = "drain"
  /\ state = [c \in Clients |-> "none"]
  /\ queue = [c \in Clients |-> "none"]
  /\ kv = {} /\ holds = {} /\ prefilled = {}
  /\ left \in [Clients -> Passes]
  /\ todo = {} /\ decodes = {} /\ current = {} /\ outputs = {}
  /\ failures = 0

Goto(c, place) == client' = [client EXCEPT ![c] = place]

\* output or error is assigned, then done is set.
Resolve(S, what) ==
  /\ result' = [c \in Clients |-> IF c \in S THEN what ELSE result[c]]
  /\ done' = done \cup S

\* Scheduler._release(): without a kv there is nothing to give back.
ReleaseKV_Forgets(c) == kv' = kv \ {c} /\ UNCHANGED holds   \* mutant: no release()
ReleaseKV(c) ==
  /\ kv' = kv \ {c}
  /\ holds' = IF c \in kv THEN holds \ {c} ELSE holds

-----------------------------------------------------------------------------
(* HTTP threads.                                                           *)

\* submit() reads the stop flag ...
SubmitCheck(c) ==
  /\ client[c] = "idle"
  /\ Goto(c, IF stopping THEN "refused" ELSE "submitting")
  /\ UNCHANGED <<driver, found, loop, engine, step>>

\* ... and enqueues; the flag may have been set in between.
SubmitPut(c) ==
  /\ client[c] = "submitting"
  /\ submissions' = Append(submissions, c)
  /\ Goto(c, "waiting")
  /\ UNCHANGED <<stopping, pending, named, done, result, found, loop, engine, step>>

WaitReturns(c) ==
  /\ client[c] = "waiting"
  /\ c \in done
  /\ Goto(c, result[c])
  /\ UNCHANGED <<driver, found, loop, engine, step>>

\* done.wait() returns False; request_id is looked at next.
WaitExpires(c) ==
  /\ c \in Impatient
  /\ client[c] = "waiting"
  /\ c \notin done
  /\ Goto(c, "expired")
  /\ UNCHANGED <<driver, found, loop, engine, step>>

ReadRequestId(c) ==
  /\ client[c] = "expired"
  /\ Goto(c, IF c \in named THEN "abort_check" ELSE "timeout")
  /\ UNCHANGED <<driver, found, loop, engine, step>>

\* abort_request(): a request that is over is left alone.
AbortCheck(c) ==
  /\ client[c] = "abort_check"
  /\ Goto(c, IF state[c] \in Over THEN "timeout" ELSE "abort_scan")
  /\ UNCHANGED <<driver, found, loop, engine, step>>

\* Scheduler.abort() copies a queue and finds the request in the copy ...
AbortScan(c) ==
  /\ client[c] = "abort_scan"
  /\ found' = [found EXCEPT ![c] = queue[c]]
  /\ Goto(c, IF queue[c] = "none" THEN "abort_finish" ELSE "abort_release")
  /\ UNCHANGED <<driver, loop, engine, step>>

\* ... releases its KV ...
AbortRelease(c) ==
  /\ client[c] = "abort_release"
  /\ ReleaseKV(c)
  /\ Goto(c, "abort_remove")
  /\ UNCHANGED <<driver, found, loop, state, queue, prefilled, left, step>>

\* ... and removes it from that queue: list.remove() raises if it has left.
AbortRemove(c) ==
  /\ client[c] = "abort_remove"
  /\ IF queue[c] = found[c]
     THEN queue' = [queue EXCEPT ![c] = "none"] /\ Goto(c, "abort_finish")
     ELSE UNCHANGED queue /\ Goto(c, "exception")
  /\ UNCHANGED <<driver, found, loop, state, kv, holds, prefilled, left, step>>

AbortFinish(c) ==
  /\ client[c] = "abort_finish"
  /\ state' = [state EXCEPT ![c] = "aborted"]
  /\ Goto(c, "timeout")
  /\ UNCHANGED <<driver, found, loop, queue, kv, holds, prefilled, left, step>>

\* stop(): the join that follows changes nothing.
Stop ==
  /\ ~stopping
  /\ stopping' = TRUE
  /\ UNCHANGED <<submissions, pending, named, done, result, http, loop, engine, step>>

-----------------------------------------------------------------------------
(* The engine thread: _drain_submissions().                                *)

\* The driver is stopping, or add_request() rejects the prompt.
DrainRefuse ==
  /\ loop = "drain" /\ submissions # <<>>
  /\ submissions' = Tail(submissions)
  /\ Resolve({Head(submissions)}, "error")
  /\ UNCHANGED <<stopping, pending, named, http, loop, engine, step>>

DrainAdmit ==
  /\ loop = "drain" /\ submissions # <<>>
  /\ ~stopping
  /\ state' = [state EXCEPT ![Head(submissions)] = "waiting"]
  /\ queue' = [queue EXCEPT ![Head(submissions)] = "waiting"]
  /\ loop' = "name"
  /\ UNCHANGED <<driver, http, kv, holds, prefilled, left, step>>

\* request_id and _pending are assigned once the engine has the request.
DrainName ==
  /\ loop = "name"
  /\ submissions' = Tail(submissions)
  /\ named' = named \cup {Head(submissions)}
  /\ pending' = pending \cup {Head(submissions)}
  /\ loop' = "drain"
  /\ UNCHANGED <<stopping, done, result, http, engine, step>>

DrainDone ==
  /\ loop = "drain" /\ submissions = <<>>
  /\ loop' = "check"
  /\ UNCHANGED <<driver, http, engine, step>>

-----------------------------------------------------------------------------
(* The engine thread: _loop(), LLMEngine.step(), Scheduler.retire().       *)

Queued == In("waiting") \cup In("running")

Exit_WaitsForPending == stopping /\ submissions = <<>> /\ pending = {}   \* mutant: awaits everybody
Exit == stopping /\ submissions = <<>>

LoopIdle ==
  /\ loop = "check" /\ Queued = {}
  /\ loop' = IF Exit THEN "exited" ELSE "drain"
  /\ UNCHANGED <<driver, http, engine, step>>

\* schedule() copies the running list ...
ScheduleBegin ==
  /\ loop = "check" /\ Queued # {}
  /\ todo' = In("running")
  /\ loop' = "schedule"
  /\ UNCHANGED <<driver, http, engine, decodes, current, outputs, failures>>

\* ... and serves of it whom the budget reaches, each of whom must have KV; an
\* abort may have emptied the list before its second copy.
ScheduleRunning ==
  /\ loop = "schedule"
  /\ \E S \in SUBSET (todo \cap kv) :
       /\ todo \cap In("running") # {} => S # {}
       /\ todo' = S \ prefilled
       /\ decodes' = S \cap prefilled
  /\ loop' = "admit"
  /\ UNCHANGED <<driver, http, engine, current, outputs, failures>>

\* Somebody waits ...
AdmitLook ==
  /\ loop = "admit" /\ In("waiting") # {}
  /\ loop' = "admit_head"
  /\ UNCHANGED <<driver, http, engine, step>>

\* ... the first of the waiting list is looked at and gets its KV ...
AdmitHead ==
  /\ loop = "admit_head"
  /\ \E c \in In("waiting") : current' = {c} /\ kv' = kv \cup {c}
  /\ loop' = "admit_ready"
  /\ UNCHANGED <<driver, http, state, queue, holds, prefilled, left, todo, decodes, outputs,
                 failures>>

\* ... _admit() sizes it and says yes ...
AdmitReady ==
  /\ loop = "admit_ready" /\ current \subseteq kv
  /\ state' = [c \in Clients |-> IF c \in current THEN "prefill" ELSE state[c]]
  /\ loop' = "admit_pop"
  /\ UNCHANGED <<driver, http, queue, kv, holds, prefilled, left, step>>

\* ... pop(0) takes whoever is the first by now ...
AdmitPop ==
  /\ loop = "admit_pop"
  /\ \E c \in In("waiting") :
       /\ current \subseteq In("waiting") => c \in current
       /\ queue' = [queue EXCEPT ![c] = "none"]
  /\ loop' = "admit_append"
  /\ UNCHANGED <<driver, http, state, kv, holds, prefilled, left, step>>

\* ... the request that was looked at joins the running list ...
AdmitAppend ==
  /\ loop = "admit_append"
  /\ queue' = [c \in Clients |-> IF c \in current THEN "running" ELSE queue[c]]
  /\ loop' = "admit_chunk"
  /\ UNCHANGED <<driver, http, state, kv, holds, prefilled, left, step>>

\* ... and gets its chunk.
AdmitChunk ==
  /\ loop = "admit_chunk" /\ current \subseteq kv
  /\ todo' = todo \cup current
  /\ current' = {}
  /\ loop' = "admit"
  /\ UNCHANGED <<driver, http, engine, decodes, outputs, failures>>

\* Nobody waits, or the budget or the running list is used up; a step that
\* schedules nobody returns no outputs.
ScheduleDone ==
  /\ loop = "admit" /\ (In("waiting") = {} \/ todo \cup decodes # {})
  /\ loop' = IF todo \cup decodes = {} THEN "drain" ELSE "execute"
  /\ UNCHANGED <<driver, http, engine, step>>

\* A chunk's kv is not None and goes to forward_prefill().
PrefillStart ==
  /\ loop = "execute"
  /\ \E c \in todo \cap kv : current' = {c} /\ todo' = todo \ {c}
  /\ loop' = "prefill"
  /\ UNCHANGED <<driver, http, engine, decodes, outputs, failures>>

\* The request becomes RUNNING whatever an abort made of it, and emits.
PrefillEnd ==
  /\ loop = "prefill"
  /\ \E c \in current :
       /\ holds' = holds \cup {c}
       /\ prefilled' = prefilled \cup {c}
       /\ left' = [left EXCEPT ![c] = @ - 1]
       /\ state' = [state EXCEPT ![c] = IF left[c] = 1 THEN "finished" ELSE "running"]
       /\ outputs' = IF left[c] = 1 THEN outputs \cup {c} ELSE outputs
  /\ current' = {}
  /\ loop' = "execute"
  /\ UNCHANGED <<driver, http, queue, kv, todo, decodes, failures>>

Decodable_Unfiltered == decodes \cap kv   \* mutant: also those that have finished
Decodable == {c \in decodes \cap kv : state[c] = "running"}

DecodeStart ==
  /\ loop = "execute" /\ todo = {}
  /\ current' = Decodable
  /\ decodes' = {}
  /\ loop' = "decode"
  /\ UNCHANGED <<driver, http, engine, todo, outputs, failures>>

Finishing_All == current   \* mutant: every output of the step is delivered
Finishing == {c \in current : left[c] = 1 \/ state[c] = "aborted"}

\* One batched pass into the SequenceKVs it was handed; the running list is
\* then copied to be retired.
DecodeEnd ==
  /\ loop = "decode"
  /\ holds' = holds \cup current
  /\ left' = [c \in Clients |-> IF c \in current THEN left[c] - 1 ELSE left[c]]
  /\ state' = [c \in Clients |-> IF c \in current /\ left[c] = 1 THEN "finished"
                                 ELSE state[c]]
  /\ outputs' = outputs \cup Finishing
  /\ current' = {}
  /\ todo' = In("running")
  /\ loop' = "retire"
  /\ UNCHANGED <<driver, http, queue, kv, prefilled, decodes, failures>>

\* retire(): the KV is released ...
RetireRelease ==
  /\ loop = "retire"
  /\ \E c \in todo :
       /\ todo' = todo \ {c}
       /\ IF state[c] \in Over
          THEN ReleaseKV(c) /\ current' = {c} /\ loop' = "retire_check"
          ELSE UNCHANGED <<kv, holds, current, loop>>
  /\ UNCHANGED <<driver, http, state, queue, prefilled, left, decodes, outputs, failures>>

\* ... the running list is searched, and then the request is removed from it.
RetireCheck ==
  /\ loop = "retire_check"
  /\ IF current \subseteq In("running")
     THEN loop' = "retire_remove" /\ UNCHANGED current
     ELSE loop' = "retire" /\ current' = {}
  /\ UNCHANGED <<driver, http, engine, todo, decodes, outputs, failures>>

RetireRemove ==
  /\ loop = "retire_remove" /\ current \subseteq In("running")
  /\ queue' = [c \in Clients |-> IF c \in current THEN "none" ELSE queue[c]]
  /\ current' = {}
  /\ loop' = "retire"
  /\ UNCHANGED <<driver, http, state, kv, holds, prefilled, left, todo, decodes, outputs,
                 failures>>

RetireDone ==
  /\ loop = "retire" /\ todo = {}
  /\ loop' = "deliver"
  /\ UNCHANGED <<driver, http, engine, step>>

\* _pending.pop(id, None): whoever is not there any more gets nothing.
Deliver ==
  /\ loop = "deliver"
  /\ \E c \in outputs :
       /\ outputs' = outputs \ {c}
       /\ pending' = pending \ {c}
       /\ Resolve({c} \cap pending, "output")
  /\ UNCHANGED <<stopping, submissions, named, http, loop, engine, todo, decodes, current,
                 failures>>

Delivered ==
  /\ loop = "deliver" /\ outputs = {}
  /\ loop' = "drain"
  /\ UNCHANGED <<driver, http, engine, step>>

\* _fail_all(): everybody gets the error; the engine keeps its requests.
FailAll_Silent ==   \* mutant: the error is noted and done is not set
  /\ pending' = {}
  /\ UNCHANGED <<result, done>>
FailAll_Keeps ==    \* mutant: _pending is not cleared
  /\ Resolve(pending, "error")
  /\ UNCHANGED pending
FailAll ==
  /\ Resolve(pending, "error")
  /\ pending' = {}

\* An exception leaves step(): the outputs of the step are lost.
StepRaises ==
  /\ FailAll
  /\ todo' = {} /\ decodes' = {} /\ current' = {} /\ outputs' = {}
  /\ loop' = "drain"
  /\ UNCHANGED <<stopping, submissions, named, http, state, queue, kv, prefilled, left>>

\* The model raises, before or after it has taken blocks.
ModelRaises ==
  /\ loop \in {"prefill", "decode"} /\ current # {}
  /\ failures < MaxFailures /\ failures' = failures + 1
  /\ holds' \in {holds, holds \cup current}
  /\ StepRaises

\* request.kv is None, for a running request, in _admit() or _make_chunk(), or
\* before a prefill.
AssertionRaises ==
  /\ \/ loop \in {"schedule", "execute"} /\ ~ todo \subseteq kv
     \/ loop \in {"admit_ready", "admit_chunk"} /\ ~ current \subseteq kv
  /\ UNCHANGED <<holds, failures>>
  /\ StepRaises

\* waiting[0] or pop(0) of a list that an abort has emptied.
PopRaises ==
  /\ loop \in {"admit_head", "admit_pop"} /\ In("waiting") = {}
  /\ UNCHANGED <<holds, failures>>
  /\ StepRaises

\* list.remove() of a request that an abort has removed since it was seen.
RemoveRaises ==
  /\ loop = "retire_remove" /\ ~ current \subseteq In("running")
  /\ UNCHANGED <<holds, failures>>
  /\ StepRaises

-----------------------------------------------------------------------------
HttpThread(c) ==
  \/ SubmitPut(c) \/ WaitReturns(c) \/ ReadRequestId(c)
  \/ AbortCheck(c) \/ AbortScan(c) \/ AbortRelease(c) \/ AbortRemove(c) \/ AbortFinish(c)

EngineThread ==
  \/ DrainRefuse \/ DrainAdmit \/ DrainName \/ DrainDone
  \/ LoopIdle
  \/ ScheduleBegin \/ ScheduleRunning
  \/ AdmitLook \/ AdmitHead \/ AdmitReady \/ AdmitPop \/ AdmitAppend \/ AdmitChunk
  \/ ScheduleDone
  \/ PrefillStart \/ PrefillEnd \/ DecodeStart \/ DecodeEnd
  \/ RetireRelease \/ RetireCheck \/ RetireRemove \/ RetireDone
  \/ Deliver \/ Delivered
  \/ ModelRaises \/ AssertionRaises \/ PopRaises \/ RemoveRaises

Next ==
  \/ \E c \in Clients : SubmitCheck(c) \/ WaitExpires(c) \/ HttpThread(c)
  \/ EngineThread
  \/ Stop

Spec == Init /\ [][Next]_vars

\* Both threads run on; nobody has to submit, to lose patience or to stop.
FairSpec == Spec /\ WF_vars(EngineThread) /\ \A c \in Clients : WF_vars(HttpThread(c))

-----------------------------------------------------------------------------
HttpPlaces ==
  {"idle", "refused", "submitting", "waiting", "expired", "abort_check", "abort_scan",
   "abort_release", "abort_remove", "abort_finish", "timeout", "exception", "output", "error"}

EnginePlaces ==
  {"drain", "name", "check", "schedule", "admit", "admit_head", "admit_ready", "admit_pop",
   "admit_append", "admit_chunk", "execute", "prefill", "decode", "retire", "retire_check", "retire_remove",
   "deliver", "exited"}

\* Every variable has its type; left \in Nat says that no request gets a
\* forward pass after its last one (the filter of step() before a decode).
RunnerTypeOK ==
  /\ stopping \in BOOLEAN
  /\ submissions \in Seq(Clients)
  /\ pending \subseteq Clients /\ named \subseteq Clients /\ done \subseteq Clients
  /\ result \in [Clients -> {"none", "output", "error"}]
  /\ client \in [Clients -> HttpPlaces]
  /\ found \in [Clients -> {"none", "waiting", "running"}]
  /\ loop \in EnginePlaces
  /\ state \in [Clients -> {"none", "waiting", "prefill", "running"} \cup Over]
  /\ queue \in [Clients -> {"none", "waiting", "running"}]
  /\ kv \subseteq Clients /\ holds \subseteq Clients /\ prefilled \subseteq Clients
  /\ left \in [Clients -> Nat]
  /\ todo \subseteq Clients /\ decodes \subseteq Clients
  /\ current \subseteq Clients /\ outputs \subseteq Clients
  /\ failures \in 0 .. MaxFailures

\* What a client is told is told once: after _fail_all() the engine still works
\* on the request, and its late answer must not replace the error that wait()
\* may be about to return.
AnsweredOnce == [][\A c \in done : c \in done' /\ result'[c] = result[c]]_vars

\* wait() returns an output only of a request that ran to its end, also when
\* steps failed in between and other clients' aborts went through the queues.
AnswersAreComplete ==
  \A c \in Clients : client[c] = "output" => state[c] = "finished" /\ left[c] = 0

\* Whose abort found the request in a queue, and who was lost: pending and never
\* admitted, but in no queue any more.
Found == {c \in Clients : found[c] # "none"}
Lost == {c \in pending : queue[c] = "none" /\ state[c] = "waiting"}

\* What the engine thread may leave behind when it exits.  Blocks: only of a
\* request that an abort took from a queue, so a client that times out before
\* its request has a name costs nothing.  _pending entries: of requests that were
\* aborted or lost, and to lose one takes an abort from the waiting list.
DrainedAtExit ==
  loop = "exited" =>
    /\ Queued = {}
    /\ holds \subseteq Found
    /\ pending \subseteq Found \cup Lost \cup {c \in Clients : state[c] = "aborted"}
    /\ Lost # {} => \E c \in Clients : found[c] = "waiting"

\* An abort has removed the request that is being admitted; the pop takes another.
Overtaken == loop = "admit_pop" /\ ~ current \subseteq In("waiting")

\* As long as no abort overtakes an admission: whoever waits while the engine
\* thread lives is woken, by an answer or an error, whatever steps fail, whatever
\* other aborts do to them and whenever stop() comes.
Answered ==
  [] ~Overtaken =>
    \A c \in Clients : (client[c] = "waiting" /\ loop # "exited") ~> (client[c] # "waiting")

\* A running request whose KV an abort took that is over and will not remove it.
Poisoned ==
  \E c \in In("running") : c \notin kv /\ client[c] \in {"exception", "timeout"}

\* stop() ends the engine thread, unless an abort has left for good a running
\* request without KV, which steps stumble over.
StopsUnlessPoisoned == stopping ~> (loop = "exited" \/ []Poisoned)

\* "Graceful shutdown: stop admitting, drain in-flight work, then exit."
GracefulStop == stopping ~> (loop = "exited")

\* The same line: when the engine thread has exited, nobody it admitted still waits.
InFlightDrained == loop = "exited" => \A c \in pending : client[c] # "waiting"

=============================================================================
