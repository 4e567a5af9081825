# A TLA+ model of infer_lab

infer_lab is an LLM serving engine written for study: continuous batching with chunked prefill,
a paged and reference-counted KV cache, a radix tree that shares prompt prefixes, preemption by
recomputation, speculative decoding, a small distributed layer, and the programs around it: an HTTP
server, a dashboard that generates load, a launcher, a native build and its verification script. This
directory specifies the parts where a mistake is silent: who owns which KV block, who is told what and
when, what survives a failure, and which of several observations of the same thing may disagree.

Source paths below are relative to `src/infer_lab/` in the repository, except those that begin with
`scripts/`, `clients/`, `tests/` or `README`, which are relative to its root.

## 1. The system

| Component | State | Operations | Interacts with | What makes it correct |
|---|---|---|---|---|
| Block allocator `kv/block_allocator.py` | free list, reference count per block | allocate(_many), incref, free(_many), prepare_for_write | called by block tables and the radix cache | a count is the number of references; free = count 0 |
| Paged KV cache `kv/paged_cache.py` | K/V pools; block table and length per sequence | new_sequence, ensure_capacity, write (copy-on-write), gather, adopt_prefix, release | allocator, model forward pass | a sequence reads back what was written for it, whatever it shares |
| Radix cache `kv/radix_cache.py` | tree of full blocks, last-access clock | match, insert, evict, evict_to, reset | allocator, scheduler | a cached block encodes its path; only unused leaves are evicted |
| Request `engine/request.py` | state, tokens, num_computed_tokens, its SequenceKV | append_token, finish, reset_for_recompute | scheduler, engine | the KV holds positions [0, num_computed_tokens) |
| Scheduler `engine/scheduler.py` | waiting and running queues | add_request, abort, schedule, retire | all of the above | a scheduled step fits in memory; nobody is lost; somebody advances |
| Engine `engine/llm_engine.py` | requests, sampling state | add_request, abort_request, step | scheduler, model | every request is answered with the tokens of an undisturbed run |
| Speculative decoder `engine/speculative.py` | draft and target KV lengths | propose, verify, roll back | paged KV cache | the output is the target model's |
| Background driver `server/engine_runner.py` | submission queue, pending map, stop flag | submit, wait, stop, the engine loop | HTTP threads, engine | every client gets one answer; a drained engine keeps nothing |
| HTTP API `server/api.py`, metrics `server/metrics.py` | open calls, executor queue, counters | POST /generate, read-only routes, reset of the cache | driver, dashboard | a call that was accepted ends under one outcome |
| Ring all-reduce `distributed/ring_allreduce.py` | chunks and step per rank, sockets | run | other ranks | all ranks end with the full sum, or an error is reported |
| Failure detector `distributed/health.py` | last heartbeat and step per rank | heartbeat, evaluate, is_quorate, snapshot | ranks | a silent rank is found, a live one is not |
| Fleet placement `fleet/multi_pool.py` | active and assigned requests per pool | place, release, predict_latency_ms | hardware profiles | the SLO comes before the cost |
| Regression tracker `bench/regression.py` | the history file | record, check, prune | benchmark command | outliers and torn lines do not move the verdict |
| Native build `kernels/build.py`, loader and registry | cached vcvars environment, artifacts on disk | detect, build, clean, discover | Visual Studio, compilers, `verify.py` | what is reported built can be loaded |
| Verification script `scripts/verify.py` | the stages that failed | seven stages | build, API, engine, clients | its stages agree about the machine |
| Stack launcher `scripts/run_stack.py` | started services, shutdown_done | start, watch, shutdown | services, signals | it leaves no process behind |
| Dashboard `clients/node/dashboard.js` | one load run and its counters | start, stop, worker loops | HTTP API | its figures describe the run they are shown for |
| Pipeline and tensor parallelism | none that persists | pure computations | | agreement with a definition |
| Kernels, quantisation, MoE, sampling, weights, instability debugger | none | floating-point computation | | outside a state model |
| CLI, logging, other clients | none | I/O | | outside a state model |

Hard behaviours: requests sized one by one against memory they share; eviction and preemption in the
middle of a scheduling pass; a write that copies shared blocks and may run out half way; aborts
between any two steps; a cache that takes memory requests need; threads that meet at the driver; ranks
that block each other, fail or close their sockets while others still read; a clock read before a lock; a
signal or an exception between a start and its bookkeeping; a crash in the middle of a line or of a rewrite; a query
that is lost once and cached; callbacks of an old run that count in a new one, or that never come.
`PROJECT.json` lists each one as a hazard, at its line, with the properties that cover it.

## 2. The modules

**`KVMemory`** is the allocator, the block tables and the radix cache as one memory, one action per
call a client can make: `Open` (new_sequence, match, adopt_prefix), `Write` (one forward pass),
`Rollback` (assignment of a smaller `length`), `Release`, `Publish` (insert), `Evict`/`EvictOne`/
`EvictNoMore` (the loop of evict, one victim per step, nothing else runs in between) and `Reset`.

| TLA+ | Code |
|---|---|
| `free`, `ref` | `BlockAllocator._free` (as a set: block ids are not observable), `_ref` |
| `open`, `table[s]`, `Len(text[s])` | `request.kv is not None`, `block_table`, `length` |
| `text[s]` | the tokens fed at positions 1..length (a history of the inputs of the forward passes) |
| `data[b][j]` | `k_pool`/`v_pool`: the token prefix that the slot encodes. The K/V of a position is a function of the tokens up to it, so the prefix stands for the vectors of every layer |
| `tree` | the radix tree, as a function from paths to block ids |
| `older` | the order of `last_access` (ties are pairs related in neither direction) |
| `toEvict` | what is left of the bound of the running `evict()` call |

`ensure_capacity` raises before it changes anything, so it is a guard of `Write`. `prepare_for_write`
may raise in the middle: `Write` then keeps the grown table, the copies made and what was written, and
leaves the length, which `forward_prefill` moves only after the first layer was written. Freed blocks
are blanked (`Forget`): nobody may read them, and `Readable` would tell if somebody did.

**`SequenceStore`** is what the memory promises: each sequence has a memory of its own that starts with a
proper prefix of its prompt, is extended and cut. `KVMemory` is shown to implement it with
`kv[s] <- Gather(s)`, the tokens `gather()` returns.

**`Engine`** extends `KVMemory` with the requests, the queues and the one engine thread. `pc` follows
`schedule()` and `step()`; each action is one iteration or one call, and performs at most one action of
`KVMemory`:

| `pc` | Code | Actions |
|---|---|---|
| `idle` | between steps | `AddRequest`, `AbortRequest`, `BeginStep` |
| `decode`, `decode_room`, `decode_retry` | stage 1, `_make_room`, the second test | `DecodeScan`, `PreemptNewest`, `RoomMade`, `DecodeRetry`, `DecodesDone` |
| `prefill` | stage 2, `_make_chunk` | `PrefillScan`, `PrefillsDone` |
| `admit` | stage 3, `_admit`, roll-back | `AdmitOpen`, `AdmitRefuse`, `Admit`, `AdmitRollback`, `AdmitDone` |
| `progress`, `progress_room`, `progress_retry` | stage 4 | `BreakStall`, `AdvanceHead`, `ProgressRetry`, `NothingToForce` |
| `execute`, `batch` | prefill chunks, then the decode batch | `ExecuteChunk`, `BeginBatch`, `DecodeWrite`, `DecodeEmit` |
| `retire`, `release` | the retire loop | `BeginRetire`, `RetireSkip`, `RetirePublish`, `RetireRelease`, `EndStep` |
| `crashed` | an exception left `step()` | none: what the driver does then is not part of this module |

`CacheEviction` runs the eviction loop that `_make_room`, `insert` or the stall branch started; the
actions that follow wait for `toEvict = 0`. Sampling returns any token of `OutTokens`; `ignore_eos` is the
case where `Eos` is never returned. A request id is reused once its request is over, which keeps the
instance finite while clients keep coming. `_reserved_blocks()` is the constant `Watermark`.

**`EngineRunner`** is the background driver with the HTTP threads around it. `wait()` aborts from its own
thread, so `step()` is not atomic here: `loop` and `client[c]` follow the two kinds of threads statement by
statement where they meet, and the engine is reduced to what they can disturb. It stands beside `Engine`
rather than on top of it: `Engine` has the memory in detail and aborts between steps, `EngineRunner` has the
threads in detail and never runs short of memory (no preemption, one chunk per prefill).

| TLA+ | Code |
|---|---|
| `stopping`, `submissions`, `pending` | `_stopping`, `_submissions`, the keys of `_pending` |
| `named`, `done`, `result` | `PendingRequest.request_id` assigned, `.done` set, `.output` / `.error` |
| `queue[c]`, `state[c]`, `prefilled` | the list that holds the request, `Request.state`, `prefill_done` |
| `kv`, `holds` | `request.kv is not None`; the SequenceKV, attached or not, has blocks |
| `SubmitCheck`, `SubmitPut`, `WaitReturns`, `WaitExpires`, `ReadRequestId` | `submit()`, `wait()` |
| `AbortCheck`, `AbortScan`, `AbortRelease`, `AbortRemove`, `AbortFinish` | `abort_request()` and `Scheduler.abort()`, in the HTTP thread |
| `Drain...`, `LoopIdle` | `_drain_submissions()`, the idle branch of `_loop()` |
| `ScheduleBegin`, `ScheduleRunning` | stages 1 and 2 of `schedule()`, on a copy of the running list |
| `AdmitLook`, `AdmitHead`, `AdmitReady`, `AdmitPop`, `AdmitAppend`, `AdmitChunk`, `ScheduleDone` | stage 3, statement by statement: `while self.waiting`, `waiting[0]` and its KV, the answer of `_admit()`, `waiting.pop(0)`, `running.append()`, `_make_chunk()` |
| `PrefillStart/End`, `DecodeStart/End`, `Retire...` | the rest of `step()`; between Start and End the forward pass runs on the KV it was handed |
| `Deliver`, `Delivered` | the answers |
| `ModelRaises`, `AssertionRaises`, `PopRaises`, `RemoveRaises` | the `except` branch with `_fail_all()`, from wherever `step()` can raise |

An abort can come between any two of these steps; in `AdmitPop` the list may begin with somebody else than the request that
was admitted, or be empty. Taken as one step: stages 1 and 2 once the running list is copied (what they find of each request is
whether it has KV, and an abort in the middle of them is one before or after), `_release()`, `_fail_all()`, and the bookkeeping
after a forward pass. Two threads inside `_release()` of one request at the same time are therefore not covered; this
is an open hazard. Steps of stages 1 and 2 that pick nobody of a list that is not empty are left out.

**`Speculative`** is one call of `generate()`. `Generate` is both prefills and the first token, `Propose` and
`Verify` one round, `OutOfSlots` the `OutOfBlocks` that leaves `generate()`, `Finish` its end. `slots` is the target's
KV: what each position encodes, with `<<>>` for a position that encodes no text (never written, or computed after such a
position). The target, `Argmax`, is any function of the whole text it attends to (`Attended`: what its slots hold, rightly or
wrongly, and the window), so a KV of another text gives other answers; over unsound slots, or when sampling, it may say
anything. The draft may propose anything.

**`RingAllReduce`** has the N rank threads and the driver. A chunk's value is kept as what it is made of (how often
each rank's values were added), so partial, full and doubled sums differ. **`AllReduce`** is what the
caller is promised: one answer, an error or the full sum everywhere; the ring is shown to implement it.

| TLA+ | Code |
|---|---|
| `wire[r]`, `steps[r]` | what rank r has sent on its socket; what it has received (`RingStats.steps`) |
| `room` | whole chunks the socket buffers hold; 0 when one chunk exceeds them |
| `SplitChunks`, `ConnectNext`, `AcceptPrev` | the start of `RingNode.run()` and `connect()` |
| `SendMsg`, `SendFails`, `RecvMsg`, `RecvFails` | `_send_msg`, `_recv_msg` with the update of `chunks`; the peer has closed |
| `Timeout`, `TimeoutEarly` | a socket timeout, when nobody can go on or though the peer is alive but slow |
| `RunAllReduce`, `JoinRanks`, `JoinTimesOut` | `run_ring_allreduce()` |

**`HealthMonitor`** has `heartbeat()` and the three evaluations of `snapshot()`: `ReadClock` and `Evaluate` are separate
because `evaluate()` reads the clock before it waits for the lock. Time is kept as ages; `lag` is the wait.

**`MultiPool`** has `place()` and `release()` with the latency prediction, the score and its tie-break in
integers; roofline times are tables. **`Regression`** has the history as lines, one of which a crash may
leave torn, `check_and_record()` and `prune()`, and a crash in the write of each: `CrashInRecord` leaves part of a line, `CrashInPrune`
what `write_text()` had written back to the file it empties first. `safe` is a history variable: the records that were
written whole and not pruned since.

**`Toolchain`** is a sequence of processes on one machine, each a run of `verify.py`, of the build or of `infer-lab
kernels`: `Detections` is what `detect_compiler()` may answer and what it leaves cached, when a vswhere or vcvarsall
query is lost; `BuildTarget` one iteration of `build_all()`; `Discover` the registry; `Environment`, `ImportsToHttp`
and `Clients` the stages of `verify.py`. **`Stack`** is `run_stack.py`: `Popen`, `HealthAnswered` and `HealthFailed` are
`Service.start()`, `LogFails` and `HealthRaises` the exceptions it does not catch, before and behind the start of the
process, `StopNext` one round of `shutdown()`, `CutBy` a signal that no handler catches.

**`HttpApi`** is POST /generate: what a coroutine does between two awaits is one step (`Accept`, `Reject`,
`Respond`), the wait runs in the executor (`StartWait`), whose threads are fewer than the calls, and ends with an answer,
a timeout, or the exception of the timeout's abort (`WaitReturns`, `WaitExpires`, `WaitRaises`). **`Dashboard`** extends it
with the load generator, whose worker loops post, await and pause (`Post`, `GetReply`, `GiveUp`, `BackoffOver`)
while `StartLoad` and `StopLoad` come at any time. `CutOff` is a connection that closes behind the head of the response: nothing
in `upstream()` settles then, and the worker stays where it is. The engine behind the API is the nondeterministic
`EngineAnswers`, since `EngineRunner` has its details.

**`MCKVMemory`, `MCEngine`, `MCEngineRunner`, `MCPrograms`** give the constants small values. `MCPrograms` runs the
programs that do not interact one at a time: a behaviour chooses one in its initial state and the others
stay where they are, so each sees exactly its own specification. The modules **`..._proofs`** hold the theorems.
Definitions whose comment says *mutant* are wrong variants of the one that follows them, each a plausible
bug; no specification uses them. They show that each property notices such a bug.

## 3. The runs

| Run | Instance | Shows |
|---|---|---|
| `kv_memory` | 3 blocks of 2 tokens, 2 sequences of up to 5 tokens, prompts of 5 and 4, cap 1 | `KVTypeOK`, `RefAccounting`, `Readable`, `CacheSound`, `VictimUnique`, and that the memory implements `SequenceStore` |
| `engine_cached` | 3 requests, 3 blocks, cap 2, budget 2, chunked, no watermark | every step fits (`ReservationCovers`, `NeverOutOfBlocks`), writes are private, KV is the request's own tokens, the queues are consistent, the head of the line is never preempted, the engine implements `KVSpec` |
| `engine_plain` | 2 requests, 3 blocks, no cache, watermark 1, chunked and unchunked | `KVIsOwnTokens`, `NoTokenSkipped` and `Served` under a watermark |
| `engine_admission` | 2 requests, 4 blocks, cap 3, watermark 1 | `AdmissionProgress`, the claim of ADR-0008 |
| `engine_stall` | as `engine_admission` | `Served` is violated (finding 1) |
| `engine_stale_prefix` | 3 requests, 4 blocks, unchunked | `PositionsHeld` is violated (finding 2) |
| `runner` | 2 clients, one of them impatient, answers of 1 or 3 passes, 1 exception of the model | everybody is told once and completely, and everybody who waits is told unless an abort overtakes an admission; what is left at exit goes back to an abort; the loop exits unless an abort poisoned it |
| `runner_poisoned` | 1 impatient client, no exception of the model | `GracefulStop` is violated (finding 3) |
| `runner_lost` | as `runner`, no exception of the model | `InFlightDrained` is violated (finding 4) |
| `programs` | the programs beside the engine, see below | `LosslessWithoutBonus`; `ErrorsHaveACause`, `AllReduceSpec`; `NoFalseAlarm`, `QuorateExplained`; `SloFirst`; `OneLostPerCrash`, `OutliersMeanNothing`; `StagesAgree`, `OkIsLoadable`; `LeavesNothing`; `CountedOnce`, `FiguresOfRun`, `LoadDrains` |
| `speculative_lossless` | the speculative part of `programs` | `Lossless` is violated (finding 5) |
| `stack` | the launcher of `programs` | `ShutDownTogether` is violated (finding 6) |

Why the bounds are enough. Blocks of two tokens have every position a block can have: empty, half full and
full. Three blocks make every pool pressure case occur: a shared block that must be copied with nothing
free, a decode that preempts, an admission refused, rolled back or waiting for the cache. Two sequences
share a prefix and diverge from it; with three requests one can wait while two compete. In `kv_memory` the
chunk of two tokens spans two blocks, so that a write can fail at its second copy; the prompt of five can
adopt two blocks; the prompt of four ends with a block, so that all of it can be cached and only one block of it may be
adopted; `evict()` is asked for one block up to one more than there are (`MaxEvict`). In the engine runs, `MaxLen` lets an answer outgrow the blocks of its prompt. TLC's
action coverage confirms that each action and each branch fires in some passing run: roll-back, refusal,
preemption, the stall branch and the forced head among them.

In `runner`, two clients are enough for one to disturb the other's step by an abort, by a failed step or by
stopping; three passes are a prefill and two decodes, with an abort before, during, between or after them; one exception of the model lets a
finished request survive the step that finished it. All interleavings of the three threads and `stop()` are
explored, between any two of the steps of the table in section 2 (265,996 states).

In `programs` (547,079 states): two tokens per vocabulary and two proposals a round give every acceptance count, six slots
let a call run out of them, limits of 1 to 5 truncate a round at every place, an end token that is or is
not in the vocabulary, all targets that tell four classes of texts apart, each of which depends on every token. Three ranks are the least for which a rank's two neighbours differ; links of 0, 1 and
2 chunks block always, sometimes and hardly; two slow waits can hit two different ranks. Two peers with an
interval and a threshold of two ticks pass through healthy, suspect and dead within the bound on ages. Three
pools of different cost and six requests of two sizes for three targets fill every pool. Four
lines with a window of three hold two torn ones, an even window, and a prune that leaves two; of the three values a metric takes
two are typical, within the tolerance of each other and not equal. Six machines
differ in each fact detection looks at; two processes let the second find what the first left; one lost
query splits the detections of one process. Three services and two signals cut the launcher at every stage, also in the
middle of the shutdown that the first signal began. For the load, two workers, two calls and one
executor thread let a call wait for a thread until its client has gone; two runs make workers
left over from the first count in the second; three requests end both.

Symmetry over blocks and sequences is used in runs that check safety only. `Fresh` uses CHOOSE to pick free
blocks; another choice permutes blocks that nobody references and whose content is blank, so each orbit
keeps all its behaviours. The liveness runs use none.

Fairness. `FairSpec` has weak fairness of the engine thread only: the driver's loop calls `step()` while
there is work, and no lock or callback can stop that thread in the middle. Clients are never assumed to
submit or abort. In `EngineRunner` the engine thread and each HTTP thread have weak fairness of their own,
as the operating system schedules both; submitting, losing patience and `stop()` are not fair. The engine
runs check for deadlock: `crashed` is the only state without a successor. The driver
really stops, so its runs do not check for deadlock; `Answered` and `StopsUnlessPoisoned` say when it may.
`RingFairness`: each rank thread runs and its socket timeouts expire, and the driver's `join()` returns once
they have ended; a slow peer (`TimeoutEarly`) is never forced. `LoadFairness`: the two event loops run what is
ready, timers fire and the executor's threads run; the engine need never answer, nobody has to start or
stop a load, and `LoadDrains` holds without them because `wait()` has a timeout. What the server has answered arrives
(`GetReply`) unless the connection is cut or lost first (`CutOff`, `GiveUp`). The programs really end, so
these runs do not check for deadlock.

## 4. Findings

1. **A prefilling request can starve** (`Served`, run `engine_stall`). `engine/scheduler.py:286` promises
   that the oldest sequence always advances. When the only running request is still prefilling and cached
   blocks fill the pool, stage 2 makes no chunk and never evicts; the stall branch requires an empty running
   list and the forced-head branch `prefill_done`. Every later step schedules nothing.
2. **A stale prefix length** (`PositionsHeld`, run `engine_stale_prefix`). With chunked prefill off, a
   rolled-back admission keeps `num_computed_tokens`; if the adopted prefix is evicted before the next
   admission, prefill starts behind positions nobody wrote, against the invariant of
   `engine/request.py:139`.
3. **An abort can poison the engine thread** (`GracefulStop`, run `runner_poisoned`). `wait()` calls
   `abort_request` from an HTTP thread. If `schedule()` admits the request after `abort()` found it in the
   waiting list, `abort()` takes the KV of a running request, `waiting.remove()` raises, and the request is
   never finished: `assert request.kv is not None` (`engine/scheduler.py:229`) fails in every later step,
   every client gets an error and `stop()` does not end the thread. `server/engine_runner.py:64` promises a
   graceful shutdown, lines 8 to 11 that one thread touches the engine. An abort between `_admit()` and
   `waiting.pop(0)` ends the same way, with a timeout for its client. `StopsUnlessPoisoned` shows that a running
   request without KV is what keeps the loop from exiting, and nothing else.
4. **An admission can drop another client's request** (`InFlightDrained`, run `runner_lost`). `schedule()` admits
   `waiting[0]` (`engine/scheduler.py:263`) and then calls `waiting.pop(0)` (line 266). If an abort has removed the
   request in between, the pop takes the next one off the list: its client is patient, its entry stays in `_pending`,
   and no queue has it any more. `Answered` holds only as long as that does not happen (`Overtaken`), and
   `DrainedAtExit` says that such a loss takes an abort that found its request waiting.
5. **A fully accepted round breaks losslessness** (`Lossless`, run `speculative_lossless`). The verification
   window leaves out the last proposal (`engine/speculative.py:120`), so the bonus token is sampled at the
   position of that proposal: under greedy decoding it repeats it, and the KV of the last accepted
   position is never written. Lines 10 to 12 promise token-for-token identity with plain decoding. The promise
   fails a second time at the end of the text: line 142 looks at the last token between rounds only, so what a round
   accepts, or corrects, behind an end token is emitted, bonus or not. `LosslessWithoutBonus` shows that these two
   are all: without a bonus each token is the one plain decoding puts there, up to the first end token, and none is
   missing.
6. **Ctrl+C does not stop all of the stack** (`ShutDownTogether`, run `stack`). The service that is being started is not
   in `started` yet (`scripts/run_stack.py:265`), so Ctrl+C during its health check leaves it running. A second one
   during the shutdown leaves those that have not been reached. This bites where the interrupt
   reaches the launcher alone, as on Windows, where each service has a process group of its own. It takes no
   signal at all when `http.client.HTTPException` escapes `wait_for_http()` (lines 79 to 83), from another
   process on a companion's port. `LeavesNothing` says that this, and SIGTERM, is all that leaves a service behind.

Some properties of the passing runs are weaker than what the code's own words suggest, because the code is.
Each says how much weaker:

- An abort during the forward pass leaks blocks: the pass goes on with the SequenceKV it was handed
  (`engine/llm_engine.py:154`) and takes blocks that nobody releases. `DrainedAtExit` bounds the loss to requests that an
  abort found in a queue; without impatient clients nothing is left.
- A crash in the rewrite of `prune()` can cost the whole history: `write_text()` (`bench/regression.py:167`) empties the
  file first. `OneLostPerCrash` allows exactly what is not back yet.
- Where `cl.exe` is not on the PATH of vcvars, `kernels/build.py:300` asks vswhere outside the cache, and one lost query lets
  two stages disagree, which `scripts/verify.py:91` excludes. `StagesAgree` has the other cases.
- The abort in `wait()` can raise ValueError (`engine/scheduler.py:114`, `AbortRemove` of `EngineRunner`), which
  `server/api.py:164` does not catch: the request has no outcome in the metrics. `CountedOnce` counts these apart (`escaped`).
- A response of the API that is cut behind its head keeps a worker of the load generator for ever
  (`clients/node/dashboard.js:69`). `LoadDrains` excuses such workers only.

Two claims have no property. `insert()` trims the cache before the retiring sequence gives its references back
(`kv/radix_cache.py:126`), so that the new blocks cannot be evicted and the cache may own the whole pool, which
`tests/test_kv_pressure.py:101` calls structurally impossible. And `fleet/multi_pool.py:105` divides one request's tokens by the
throughput of the whole batch, so that a pool looks faster under load, where line 100 says "inflated by current queue depth".

Smaller things met on the way, none of which a property is about. The `tests/test_speculative.py` that the docstring of
speculative decoding names does not exist. In the native build a timeout of vcvarsall.bat is no `BuildError` and leaves `main()` as a traceback; the
intermediates stay when the compiler fails; `verify.py` fails stage 6 without the optional httpx. The shutdown
of the server (`server/api.py:96`) joins the engine thread on the event loop, so /ready cannot answer 503
while it drains. `server/metrics.py:162` observes the latest step again at each scrape, and scrapes of the
dashboard may overlap (`clients/node/dashboard.js:165`). `run_stack.py` exits with 0 after its server died, accepts the
health answer of any process on a companion's port, and does not wait after `kill()`. With an SLO above about 62 s the weighted
cost of a pool can outweigh the penalty for missing it, which `SloFirst` with its short targets does not see.

`KVIsOwnTokens` includes the equality of length and `num_computed_tokens` and holds in the configurations
of `engine_cached` and `engine_plain`: the second finding needs caching without chunking.

## 5. The proofs

`KVMemory_proofs` proves, for every pool, block size, capacity, prompt set and chunk set that satisfy
`KVAssumption` (the pool and the set of sequences are finite, blocks hold at least one token, prompts and
chunks are nonempty token lists):

- `KVTypeCorrect == KVSpec => []KVTypeOK`,
- `RefAccountingHolds == KVSpec => []RefAccounting`: no leak, no double free, no block on the free list
  that a sequence or the cache names;
- `ReadableHolds` and `CacheSoundHolds`: what a sequence gathers is what it wrote, and a cached path holds the KV of
  its own tokens;
- `MemoryImplementsStore == KVSpec => StoreSpec`: paging, sharing, copy-on-write and eviction together are a store of
  one token list per sequence;
- `VictimUniqueHolds`: the evictable leaf that was used least recently is unique.

The inductive invariant `KVInv` is `KVTypeOK /\ RefAccounting /\ TablesCover`. Neither goal is inductive
alone: a count stays a natural number only because it counts references that exist, and `Publish` stays
inside the block table only because a table always covers the length of its sequence (`TablesCover`), which
a rollback and a write that fails half way must both keep.

Each action has a lemma. The counting rests on `RefsChange` (changing one table changes the references to a
block by what that table loses and gains), `InitialSegment` (copy-on-write makes at most as many copies as
blocks are free after growth) and `FreshIsInjective` (that many blocks can be had, all distinct).
`WriteInv` combines them, for any starting position, so it also covers passes that the client specification
`KVNext` does not make.

On top of it, `Content` says what the blocks hold: those of a sequence what it wrote (`Holds`), those of a cached path
its own tokens (`Encodes`); no block table names a block twice (`OwnPlaces`), and every prefix of a cached path is
cached (`Rooted`). A write keeps it because copy-on-write leaves it no block that another sequence or the cache
reads; that a block is not shared is what `RefAccounting` says its count means. `Ordered` says that the cache clock tells
apart every two nodes that are not on one branch: a walk stamps one branch, and a leaf is never on the branch of another.

`Engine_proofs`, for any set of requests, pool, token budget, chunking mode and watermark that satisfy
`EngineAssumption`, has five inductive invariants, each resting on the ones before it:

| Invariant | Says | Hence |
|---|---|---|
| `EngineInv` | types, queues, `KVInv`, and what the loop variables of a step mean (`LoopInv`) | `EngineTypeCorrect`, `QueuesConsistentHolds`, `EngineMemoryHolds`, `WaitersPinOnlyCachedHolds` |
| `Plan` | a step serves a request once, from where it stands; who decodes has fed all its tokens but the last | `NoTokenSkippedHolds` |
| `Room` | what the rest of the step takes is free and within what it reserved | `ReservationCoversHolds`, `WritesArePrivateHolds`, `NeverOutOfBlocksHolds` |
| `Own` | the KV of a request is the start of its own tokens; who waits stands where its KV ends | `KVIsOwnTokensHolds`, `PositionsHeldHolds`, `EngineReadsBack`, `EngineImplementsKV` |
| `Line` | who is still prefilling was given all the budget or all the memory there was | `OnlyNewestPrefillsHolds`, `HeadNeverPreemptedHolds` |

The queues are consistent only because the loop variables of a step keep their meaning while `_make_room` preempts: a
submitted request has a prompt (`Submitted`); nobody in `running` is over except who is still to be retired
(`RunningLive`); what was scheduled still runs (`ScheduledRuns`); a chunk feeds tokens that exist (`ChunksFit`);
whoever a loop still visits runs or was preempted (`ScanRuns`). `Keeping` in `Engine` writes SelectSeq without
recursion so that `KeepingFacts` can be proved about it.

No pass raises OutOfBlocks because two things meet: the scheduler reserved a block for every boundary
the step crosses (`Reserve`), and no pass needs a copy, since every block it writes to is its own (`WritesArePrivate`).
The second holds because adopted prefixes are whole blocks, and a request never writes before the end of its KV.

The theorems from `Own` assume `ChunkedOrUncached`: chunked prefill, or no prefix cache. Without it they are false, as the second
finding shows (run `engine_stale_prefix`). With it a pass only ever appends, so that `Content` of `KVMemory_proofs`, whose lemmas
are about any call and not about `KVSpec` alone, is kept by the engine's calls. The theorems from `Line` assume
`AlwaysChunked`, the default configuration, and the one of `engine_cached`, the run that checks both properties: all-or-nothing prefills
are passed over when they do not fit, so that younger requests are served first.

`EngineImplementsKV == Spec => KVSpec` ties the two modules together: each step of the engine is a call that
`KVNext` allows, or leaves the memory alone. What that needs beyond `Own` is that the calls stay within the bounds that `KVNext`
puts on its arguments: no request grows past its limit (`InLimit`), no chunk past the token budget (`InBudget`), and nobody asks to
evict more than the pool and one block (`RoomAsked`, `StallAsked`; this is the bound `MaxEvict`). The set `Chunks` of
`KVMemory` is a bound too, and the theorem assumes that it has all that one step may feed (`FeedsAll`), as it has in
`MCEngine`. So everything proved of `KVMemory` holds under its one client.

`EngineRunner_proofs` proves, for any set of clients, any of them impatient, any positive numbers of passes
and any bound on failures (`RunnerAssumption`):

- `RunnerTypeCorrect == Spec => []RunnerTypeOK`, with `left \in Nat`: no forward pass after the last;
- `AnsweredOnceHolds == Spec => AnsweredOnce`: nobody is told twice.

The inductive invariant `RunnerInv` adds three parts to the types. `ToldOnce`: a client is in the submission
queue at most once, and then neither named nor answered; `_pending` holds only the named and unanswered.
`Admitted`: what the engine works on was taken out of the queue. `PassesLeft`: a request without a pass left
is over, chunks are not prefilled and decodes are; this is what keeps a request that an aborted or failed
step left behind from being decoded again. Each part has a lemma with one step per action. Two more
invariants rest on it:

- `AnswersAreCompleteHolds`, by `CompleteInv`: an output on its way, or delivered, is of a request without a
  pass left or of one that was aborted, and an aborted request's client has timed out;
- `DrainedAtExitHolds`, by `DrainedInv`: as long as no abort has found a request in a queue, its blocks belong to a KV, its KV
  to a request that is running or being admitted, and it is pending only while it is in a queue, to be delivered, or dropped
  (`UntouchedKept`); to drop somebody takes an abort that found the admitted request waiting (`LostInv`); the loop exits with
  empty queues and nothing to deliver (`LoopInv`).

`Distributed_proofs` has the two programs of `distributed/`. The ring, for every number of ranks, all sets of link sizes and any bound on slow peers:

- `RingInvHolds`: `RingInv` says that the k-th chunk on a link is the sum that step calls for (`WireSums`), and the
  chunk d places behind a rank's own is the sum its steps call for (`ChunkSums`), in terms of distances
  round the ring;
- `RingImplementsAllReduce`: initial states and steps of the ring map to those of `AllReduce` (its safety part);
- `ErrorsHaveACauseHolds`: by `CauseInv`, as long as nothing is in the way (`Trouble`) nobody has failed (`Smooth`). Were all
  ranks blocked or done, take one with the fewest steps (`SlowestRank`, by well-founded minimality on the naturals): it, or
  the rank before it, could go on (`NeverAllBlocked`). So no timeout expires, and a rank that has
  closed its sockets has already sent all its neighbour will read (`ClosedIsDone`).

The failure detector, for any peers, interval, threshold and wait for the lock: `NoFalseAlarmHolds` and
`QuorateExplainedHolds`. A peer younger than the clock's reading was heard of since (`YoungIsAlive`), and one found
missing stays so until it is (`StillMissing`); the bound on ages leaves room for every wait (`Ages`).

`Speculative_proofs`, for any vocabulary, prompts, limits and number of proposals, any target that answers by the text it
attends to, and whatever the draft proposes: `LosslessWithoutBonusHolds`. Without a bonus the settled slots hold prompt and
output up to the last token, whatever rejected proposals have left behind them (`SpecInv`). So the verification pass
attends to that text and the proposals (`PassHolds`), and what is emitted is, token for token, the target's argmax behind the
text before it (`VerifyInv`).

`Dashboard_proofs`, for any numbers of calls, executor threads, workers and runs: `CountedOnceHolds`, where a call
lines up once while it is open (`LinedUpOnce`) and the cardinality of the open calls moves with the counters and with the
calls whose abort raised, and `FiguresOfRunHolds`: a worker left over brings at most one request of an earlier run
(`SameBalance`), and workers that await an answer for ever stay outstanding.

`Tools_proofs` has three of the tools around the engine. The stack launcher, for any list of services and any signals:
`LeavesNothingHolds`. A running service is known, or is the one being started (`KnownRunning`); from the shutdown on it
is still to be stopped, or an exception or a signal is to blame (`StoppingRest`). The verification script and the build, for any set of
machines, lost queries and processes: `StagesAgreeHolds`, because what the first detection caches (`CachedFirst`) makes each
later one answer the same (`AllVerdict`), and `OkIsLoadableHolds`. The regression tracker, for any names, metrics, runs and
crashes: `OneLostPerCrashHolds`. What lies before a line
without newline parses to `safe` (`TrackInv`): a write behind such a line adds nothing that parses, and any other write adds its
record at the end (`WrittenFacts`, `ParsedAppend`); `load()` finds that and the open line, if it parses (`LoadIsWhole`); what
a rewrite has put back is a start of what `prune()` keeps (`RewrittenFacts`). `Regression` filters
by counting positions (`Picked`) and takes the median by ranks (`Smallest`), where the code sorts, so that no recursion is in
the way of `OutliersMeanNothingHolds`: the slice `history[-window:]` has the runs that `LastRuns` names, one for one (`RecentIs`);
there is a k-th smallest of them (`KthExists`), and the two in the middle lie between typical runs when these are more
than half (`Middle`); then the tolerance decides as it does between typical runs (`VerdictIs`).

`MultiPool_proofs`, for any set of pools, capacities, requests and roofline times: `SloFirstHolds`. The pool that `place()`
takes has the lowest score of those with room (`BestIsBest`: there is a lowest, and the name decides a tie), and a
pool that meets the target scores below one that misses it (`PenaltyWins`). It assumes `Affordable`, that 0.3 times a
pool's cost times a target in seconds is at most 100: beyond that the property can fail, see the remark in section 4.

Every invariant of the passing runs has a theorem. Out of the prover's reach: liveness (`Served`, `AdmissionProgress`, `Answered`, `StopsUnlessPoisoned`,
`LoadDrains`, the termination part of `AllReduceSpec`), which needs fairness and ENABLED.

## 6. Not modelled, and the plan

Not modelled: the arithmetic of the model, the kernels, quantisation and the roofline estimates
(floating point); the instability debugger, which analyses arrays offline; pipeline and tensor parallelism, one
sequential pass that computes a schedule or a sharded product from its arguments, all of it within reach of unit tests;
statistics, logging and the text of the metrics; CLI and other clients. In `Engine`, aborts happen between steps;
`EngineRunner` has the thread that calls `abort_request` while a step runs. Not in `EngineRunner`: two threads inside `_release()`, a
second `start()` after `stop()`, the join timeout, `snapshot()`. Not in `HttpApi`: the read-only routes and
/admin/reset_prefix_cache, which touches the radix cache from the event loop while the engine thread may be in the middle of a
step; that hazard needs `Engine` with a second thread at the grain of single allocator calls. Not in `Toolchain`: `--doctor`,
which only prints, and the clean-up of intermediates. Not in `Dashboard`: the scrape of /metrics, the proxy routes and the page.

Open hazards without a property: all-or-nothing prefill of a prompt longer than the budget
(`engine/scheduler.py:346`), `submit()` racing the exit of the engine thread (`server/engine_runner.py:87`), two threads in `_release()`
(`engine/scheduler.py:182`), the reset of the cache during a step (`server/api.py:252`), the cache cap between steps (`kv/radix_cache.py:126`). The two with a second thread in the memory need `KVMemory` at the grain of
single allocator calls.

Proofs to come: the invariants of `Engine` under a second thread, once /admin/reset_prefix_cache is modelled.
