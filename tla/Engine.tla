------------------------------- MODULE Engine -------------------------------
(***************************************************************************)
(* The serving engine of infer_lab: Scheduler.schedule (engine/scheduler.py)*)
(* and LLMEngine.step (engine/llm_engine.py) over the requests of          *)
(* engine/request.py, on top of the KV memory of module KVMemory.          *)
(*                                                                         *)
(* One engine step is a sequence of small steps of the one engine thread:  *)
(* pc says where it is, and every small step performs at most one call on  *)
(* the KV memory.  Requests arrive and are aborted between engine steps.   *)
(* Timing, metrics, logging and the model's arithmetic are abstracted: the *)
(* model may emit any token of OutTokens.                                  *)
(***************************************************************************)
EXTENDS KVMemory

CONSTANTS
  OutTokens,        \* the tokens sampling may return
  Eos,              \* EOS_ID
  OutLimits,        \* the values of max_tokens clients ask for
  MaxNumSeqs,       \* EngineConfig.max_num_seqs
  MaxBatchedTokens, \* EngineConfig.max_num_batched_tokens
  ChunkedModes,     \* the values of EngineConfig.enable_chunked_prefill
  Preemption,       \* EngineConfig.enable_preemption
  Watermark         \* _reserved_blocks(): int(num_blocks * watermark)

ASSUME EngineAssumption ==
  /\ OutTokens \subseteq Tokens /\ OutTokens # {}
  /\ OutLimits \subseteq Nat \ {0}
  /\ MaxNumSeqs \in Nat \ {0} /\ MaxBatchedTokens \in Nat \ {0}
  /\ ChunkedModes \subseteq BOOLEAN /\ Preemption \in BOOLEAN
  /\ Watermark \in 0..Cardinality(Blocks)

Requests == Seqs   \* a request has at most one SequenceKV: its own

VARIABLES
  chunked,   \* EngineConfig.enable_chunked_prefill, fixed when the engine is built
  state,     \* Request.state, or "new" before it is submitted
  prompt,    \* Request.prompt_token_ids
  limit,     \* Request.sampling.max_tokens
  out,       \* Request.output_token_ids
  computed,  \* Request.num_computed_tokens
  waiting,   \* Scheduler.waiting
  running,   \* Scheduler.running
  pc,        \* where the engine thread is
  budget,    \* schedule(): tokens this step may still batch
  reserved,  \* schedule(): blocks the scheduled work will take
  chunks,    \* SchedulerOutput.prefill_chunks still to execute
  decodes,   \* SchedulerOutput.decode_requests still to execute
  scan,      \* what is left of the list the current loop goes through
  need       \* _make_room's blocks_needed

reqvars == <<state, prompt, limit, out, computed>>
queues == <<waiting, running>>
locals == <<budget, reserved, chunks, decodes, scan, need>>
vars == <<chunked, kvvars, reqvars, queues, pc, locals>>

-----------------------------------------------------------------------------
Members(q) == {q[i] : i \in DOMAIN q}

\* The elements of q that are in S, in their order (SelectSeq, without recursion):
\* the k-th is the one at the index that has k such indices up to it.
Keeping(q, S) ==
  LET I == {i \in DOMAIN q : q[i] \in S}
  IN  [k \in 1..Cardinality(I) |-> q[CHOOSE i \in I : Cardinality({j \in I : j <= i}) = k]]
Without(q, r) == Keeping(q, Requests \ {r})

Over == {"finished", "aborted"}
AllTokens(r) == prompt[r] \o out[r]

\* prefill_target_len: all tokens but the last emitted one, which decode feeds.
Target_All(r) == Len(prompt[r]) + Len(out[r])   \* mutant: replays the last token too
Target_Prompt(r) == Len(prompt[r])   \* mutant: emitted tokens are not replayed
Target(r) == Len(prompt[r]) + Max2(0, Len(out[r]) - 1)
PrefillDone(r) == computed[r] >= Target(r)

\* Blocks the next token of r needs, and blocks schedule() may hand out.
NextNeed_NoNext(r) == BlocksNeeded(r, computed[r])   \* mutant: the next token is forgotten
NextNeed(r) == BlocksNeeded(r, computed[r] + 1)
Headroom == NumFree - Watermark
Available_Each == Headroom   \* mutant: every request sees the same free blocks
Available == Headroom - reserved

PrefillChunk == [req : Requests, start : Nat, take : Nat \ {0}, final : BOOLEAN]
IsEmpty == chunks = <<>> /\ decodes = <<>>
Scheduled == {c.req : c \in Members(chunks)} \cup Members(decodes)

Init ==
  /\ KVInit
  /\ chunked \in ChunkedModes
  /\ state = [r \in Requests |-> "new"]
  /\ prompt = [r \in Requests |-> <<>>]
  /\ limit = [r \in Requests |-> 1]
  /\ out = [r \in Requests |-> <<>>]
  /\ computed = [r \in Requests |-> 0]
  /\ waiting = <<>> /\ running = <<>>
  /\ pc = "idle"
  /\ budget = 0 /\ reserved = 0 /\ need = 0
  /\ chunks = <<>> /\ decodes = <<>> /\ scan = <<>>

-----------------------------------------------------------------------------
(* Between steps: submission and abort.                                    *)

\* add_request() validates the length before anything is stored.  A client whose
\* request is over may submit the next one in its place.
AddRequest(r, p, m) ==
  /\ pc = "idle"
  /\ state[r] \in Over \cup {"new"}
  /\ Len(p) + m <= MaxLen
  /\ state' = [state EXCEPT ![r] = "waiting"]
  /\ prompt' = [prompt EXCEPT ![r] = p]
  /\ limit' = [limit EXCEPT ![r] = m]
  /\ out' = [out EXCEPT ![r] = <<>>]
  /\ computed' = [computed EXCEPT ![r] = 0]
  /\ waiting' = Append(waiting, r)
  /\ UNCHANGED <<chunked, kvvars, running, pc, locals>>

AbortRequest_First(r) ==   \* mutant: only the first queue is looked through
  /\ pc = "idle"
  /\ state[r] \notin Over \cup {"new"}
  /\ state' = [state EXCEPT ![r] = "aborted"]
  /\ waiting' = Without(waiting, r)
  /\ IF r \in open /\ r \in Members(waiting) THEN Release(r) ELSE UNCHANGED kvvars
  /\ UNCHANGED <<chunked, prompt, limit, out, computed, running, pc, locals>>
AbortRequest(r) ==
  /\ pc = "idle"
  /\ state[r] \notin Over \cup {"new"}
  /\ state' = [state EXCEPT ![r] = "aborted"]
  /\ waiting' = Without(waiting, r)
  /\ running' = Without(running, r)
  /\ IF r \in open THEN Release(r) ELSE UNCHANGED kvvars
  /\ UNCHANGED <<chunked, prompt, limit, out, computed, pc, locals>>

\* The engine loop calls step() while there is work.
BeginStep ==
  /\ pc = "idle"
  /\ waiting # <<>> \/ running # <<>>
  /\ pc' = "decode"
  /\ budget' = MaxBatchedTokens
  /\ reserved' = 0
  /\ scan' = running
  /\ UNCHANGED <<chunked, kvvars, reqvars, queues, chunks, decodes, need>>

-----------------------------------------------------------------------------
(* _make_room: reclaim from the prefix cache, then preempt the newest.     *)

MakeRoom(n, room) ==
  /\ pc' = room
  /\ need' = n
  /\ IF Caching /\ n > Headroom THEN Evict(n - Headroom) ELSE UNCHANGED kvvars

\* The running requests not yet committed to this step, but for the one asking.
Victims_Asker == {i \in DOMAIN running : running[i] \notin Scheduled}   \* mutant: asker too
Victims == {i \in DOMAIN running : running[i] \notin Scheduled \cup {Head(scan)}}

RoomRetry == IF pc = "decode_room" THEN "decode_retry" ELSE "progress_retry"

PreemptNewest ==
  /\ pc \in {"decode_room", "progress_room"}
  /\ toEvict = 0
  /\ Preemption
  /\ Headroom < need
  /\ \E i \in Victims :
       LET victim == running[i]
       IN  /\ \A j \in Victims : j <= i
           /\ Release(victim)
           /\ computed' = [computed EXCEPT ![victim] = 0]
           /\ state' = [state EXCEPT ![victim] = "preempted"]
           /\ running' = Without(running, victim)
           /\ waiting' = <<victim>> \o waiting
  /\ UNCHANGED <<chunked, prompt, limit, out, pc, locals>>

RoomMade ==
  /\ pc \in {"decode_room", "progress_room"}
  /\ toEvict = 0
  /\ ~Preemption \/ Headroom >= need \/ Victims = {}
  /\ pc' = RoomRetry
  /\ need' = 0
  /\ UNCHANGED <<chunked, kvvars, reqvars, queues, budget, reserved, chunks, decodes, scan>>

\* The eviction loop that _make_room, insert or the stall branch started.
CacheEviction ==
  /\ EvictOne \/ EvictNoMore
  /\ UNCHANGED <<chunked, reqvars, queues, pc, locals>>

-----------------------------------------------------------------------------
(* schedule(), stage 1: decodes.                                           *)

Skip == scan' = Tail(scan) /\ UNCHANGED <<budget, reserved, chunks, decodes>>

ScheduleDecode(r) ==
  /\ reserved' = reserved + NextNeed(r)
  /\ decodes' = Append(decodes, r)
  /\ budget' = budget - 1
  /\ scan' = Tail(scan)
  /\ UNCHANGED chunks

DecodeScan ==
  /\ pc = "decode"
  /\ scan # <<>> /\ budget > 0
  /\ LET r == Head(scan)
         ready == state[r] # "preempted" /\ PrefillDone(r)
     IN  \/ /\ ~ready
            /\ Skip
            /\ UNCHANGED <<kvvars, pc, need>>
         \/ /\ ready /\ NextNeed(r) <= Available
            /\ ScheduleDecode(r)
            /\ UNCHANGED <<kvvars, pc, need>>
         \/ /\ ready /\ NextNeed(r) > Available
            /\ MakeRoom(NextNeed(r) + reserved, "decode_room")
            /\ UNCHANGED <<budget, reserved, chunks, decodes, scan>>
  /\ UNCHANGED <<chunked, reqvars, queues>>

\* Without room the request skips this step; allocating anyway would abort it.
DecodeRetry ==
  /\ pc = "decode_retry"
  /\ IF NextNeed(Head(scan)) <= Available THEN ScheduleDecode(Head(scan)) ELSE Skip
  /\ pc' = "decode"
  /\ UNCHANGED <<chunked, kvvars, reqvars, queues, need>>

DecodesDone ==
  /\ pc = "decode"
  /\ scan = <<>> \/ budget <= 0
  /\ pc' = "prefill"
  /\ scan' = running
  /\ UNCHANGED <<chunked, kvvars, reqvars, queues, budget, reserved, chunks, decodes, need>>

-----------------------------------------------------------------------------
(* Stages 2 and 3: prefill chunks of running requests, then admissions.    *)

\* _make_chunk, as far as the token budget goes; 0 stands for None.
Remaining(r) == Max2(0, Target(r) - computed[r])
Want_Unbounded(r) == Remaining(r)   \* mutant: the budget is ignored
Want(r) ==
  IF chunked THEN Min2(Remaining(r), budget)
  ELSE IF Remaining(r) > budget THEN 0 ELSE Remaining(r)

\* _make_chunk: how many tokens r may prefill now, shrunk to what memory allows.
Take(r) ==
  LET capacity == (Len(table[r]) + Max2(0, Available)) * BlockSize
  IN  IF BlocksNeeded(r, computed[r] + Want(r)) > Available
      THEN Max2(0, Min2(Want(r), capacity - computed[r]))
      ELSE Want(r)

ScheduleChunk_Free(r) ==   \* mutant: a chunk costs no budget
  /\ chunks' = Append(chunks, [req |-> r, start |-> computed[r], take |-> Take(r),
                               final |-> computed[r] + Take(r) >= Target(r)])
  /\ reserved' = reserved + BlocksNeeded(r, computed[r] + Take(r))
  /\ UNCHANGED budget
ScheduleChunk(r) ==
  /\ chunks' = Append(chunks, [req |-> r, start |-> computed[r], take |-> Take(r),
                               final |-> computed[r] + Take(r) >= Target(r)])
  /\ reserved' = reserved + BlocksNeeded(r, computed[r] + Take(r))
  /\ budget' = budget - Take(r)

PrefillScan ==
  /\ pc = "prefill"
  /\ scan # <<>> /\ budget > 0
  /\ LET r == Head(scan)
     IN  IF PrefillDone(r) \/ state[r] = "preempted" \/ Take(r) = 0
         THEN Skip
         ELSE ScheduleChunk(r) /\ scan' = Tail(scan) /\ UNCHANGED decodes
  /\ UNCHANGED <<chunked, kvvars, reqvars, queues, pc, need>>

PrefillsDone ==
  /\ pc = "prefill"
  /\ scan = <<>> \/ budget <= 0
  /\ pc' = "admit"
  /\ scan' = <<>>
  /\ UNCHANGED <<chunked, kvvars, reqvars, queues, budget, reserved, chunks, decodes, need>>

MayAdmit == waiting # <<>> /\ budget > 0 /\ Len(running) < MaxNumSeqs

\* _admit gives a request its KV, with whatever the prefix cache holds of it ...
AdmitOpen_FromZero ==   \* mutant: the adopted prefix is computed again, in place
  /\ pc = "admit" /\ MayAdmit
  /\ Open(Head(waiting), prompt[Head(waiting)])
  /\ UNCHANGED <<chunked, reqvars, queues, pc, locals>>
AdmitOpen ==
  /\ pc = "admit" /\ MayAdmit
  /\ LET r == Head(waiting)
     IN  /\ Open(r, prompt[r])
         /\ computed' = [computed EXCEPT ![r] = IF text'[r] # <<>> THEN Len(text'[r]) ELSE @]
  /\ UNCHANGED <<chunked, state, prompt, limit, out, queues, pc, locals>>

\* ... and asks for headroom; a refused request keeps that KV while it waits.
AdmitRefuse ==
  /\ pc = "admit" /\ MayAdmit
  /\ Head(waiting) \in open
  /\ NextNeed(Head(waiting)) > Available
  /\ pc' = "progress"
  /\ UNCHANGED <<chunked, kvvars, reqvars, queues, locals>>

Admit ==
  /\ pc = "admit" /\ MayAdmit
  /\ LET r == Head(waiting)
     IN  /\ r \in open
         /\ NextNeed(r) <= Available
         /\ Take(r) > 0
         /\ state' = [state EXCEPT ![r] = "prefill"]
         /\ waiting' = Tail(waiting)
         /\ running' = Append(running, r)
         /\ ScheduleChunk(r)
  /\ UNCHANGED <<chunked, kvvars, prompt, limit, out, computed, pc, decodes, scan, need>>

\* No chunk fits: the admission is rolled back.  num_computed_tokens stays.
AdmitRollback ==
  /\ pc = "admit" /\ MayAdmit
  /\ LET r == Head(waiting)
     IN  /\ r \in open
         /\ NextNeed(r) <= Available
         /\ Take(r) = 0
         /\ Release(r)
         /\ state' = [state EXCEPT ![r] = "waiting"]
  /\ pc' = "progress"
  /\ UNCHANGED <<chunked, prompt, limit, out, computed, queues, locals>>

AdmitDone ==
  /\ pc = "admit" /\ ~MayAdmit
  /\ pc' = "progress"
  /\ UNCHANGED <<chunked, kvvars, reqvars, queues, locals>>

-----------------------------------------------------------------------------
(* Stage 4: the forward-progress guarantee.                                *)

\* Nothing runs and nothing was scheduled: the cache gives blocks back.
BreakStall_NoMinimum ==   \* mutant: evicts nothing when only the watermark is in the way
  /\ pc = "progress"
  /\ IsEmpty /\ running = <<>> /\ waiting # <<>> /\ Caching
  /\ Evict(Max2(0, BlocksFor(computed[Head(waiting)] + 1) - NumFree))
  /\ pc' = "execute"
  /\ UNCHANGED <<chunked, reqvars, queues, locals>>
BreakStall ==
  /\ pc = "progress"
  /\ IsEmpty /\ running = <<>> /\ waiting # <<>> /\ Caching
  /\ Evict(Max2(1, BlocksFor(computed[Head(waiting)] + 1) - NumFree))
  /\ pc' = "execute"
  /\ UNCHANGED <<chunked, reqvars, queues, locals>>

HeadMayDecode_Alone ==   \* mutant: the head is forced only when nobody waits
  /\ IsEmpty /\ running # <<>> /\ PrefillDone(Head(running)) /\ Head(running) \in open
  /\ waiting = <<>>
HeadMayDecode ==
  IsEmpty /\ running # <<>> /\ PrefillDone(Head(running)) /\ Head(running) \in open

\* The oldest running sequence takes its next block, below the watermark if need be.
AdvanceHead ==
  /\ pc = "progress"
  /\ HeadMayDecode
  /\ scan' = <<Head(running)>>
  /\ IF NextNeed(Head(running)) > NumFree
     THEN MakeRoom(NextNeed(Head(running)), "progress_room")
     ELSE pc' = "progress_retry" /\ UNCHANGED <<kvvars, need>>
  /\ UNCHANGED <<chunked, reqvars, queues, budget, reserved, chunks, decodes>>

ProgressRetry ==
  /\ pc = "progress_retry"
  /\ decodes' = IF NextNeed(Head(scan)) <= NumFree THEN scan ELSE decodes
  /\ scan' = <<>>
  /\ pc' = "execute"
  /\ UNCHANGED <<chunked, kvvars, reqvars, queues, budget, reserved, chunks, need>>

NothingToForce ==
  /\ pc = "progress"
  /\ ~HeadMayDecode
  /\ ~(IsEmpty /\ running = <<>> /\ waiting # <<>> /\ Caching)
  /\ pc' = "execute"
  /\ UNCHANGED <<chunked, kvvars, reqvars, queues, locals>>

-----------------------------------------------------------------------------
(* step(): execute what was scheduled, then retire.                        *)

\* _emit: st is the state the request has if this token does not finish it.
Emit(r, t, st) ==
  /\ out' = [out EXCEPT ![r] = Append(@, t)]
  /\ state' = [state EXCEPT ![r] =
                 IF t = Eos \/ Len(out[r]) + 1 >= limit[r] THEN "finished" ELSE st]

\* One forward pass.  OutOfBlocks leaves the length where it was; it escapes
\* step(), and what was done stays done.
Forward(r, start, toks) ==
  IF BlocksNeeded(r, start + Len(toks)) > NumFree
  THEN UNCHANGED kvvars
  ELSE Write(r, start, toks)
Raised(r) == text'[r] = text[r]
OrCrash(r) == pc' = IF Raised(r) THEN "crashed" ELSE pc

\* forward_prefill for one chunk; the last chunk of a request that has emitted
\* nothing yet samples its first token.
ExecuteChunk ==
  /\ pc = "execute" /\ chunks # <<>>
  /\ LET c == Head(chunks)
         end == c.start + c.take
     IN  /\ Forward(c.req, c.start, SubSeq(AllTokens(c.req), c.start + 1, end))
         /\ OrCrash(c.req)
         /\ computed' = IF Raised(c.req) THEN computed ELSE [computed EXCEPT ![c.req] = end]
         /\ IF c.final /\ ~Raised(c.req)
            THEN IF out[c.req] = <<>>
                 THEN \E t \in OutTokens : Emit(c.req, t, "running")
                 ELSE state' = [state EXCEPT ![c.req] = "running"] /\ out' = out
            ELSE UNCHANGED <<state, out>>
  /\ chunks' = Tail(chunks)
  /\ UNCHANGED <<chunked, prompt, limit, queues, budget, reserved, decodes, scan, need>>

\* The decode batch drops what was finished or lost its KV since it was scheduled.
BeginBatch ==
  /\ pc = "execute" /\ chunks = <<>> /\ toEvict = 0
  /\ LET batch == Keeping(decodes, {r \in open : state[r] = "running"})
     IN  decodes' = batch /\ scan' = batch
  /\ pc' = "batch"
  /\ UNCHANGED <<chunked, kvvars, reqvars, queues, budget, reserved, chunks, need>>

LastToken(r) == AllTokens(r)[Len(AllTokens(r))]

\* forward_decode_batch writes the KV of the whole batch ...
DecodeWrite ==
  /\ pc = "batch" /\ scan # <<>>
  /\ Forward(Head(scan), computed[Head(scan)], <<LastToken(Head(scan))>>)
  /\ OrCrash(Head(scan))
  /\ scan' = Tail(scan)
  /\ UNCHANGED <<chunked, reqvars, queues, budget, reserved, chunks, decodes, need>>

\* ... before any of its tokens is emitted.
DecodeEmit ==
  /\ pc = "batch" /\ scan = <<>> /\ decodes # <<>>
  /\ computed' = [computed EXCEPT ![Head(decodes)] = @ + 1]
  /\ \E t \in OutTokens : Emit(Head(decodes), t, "running")
  /\ decodes' = Tail(decodes)
  /\ UNCHANGED <<chunked, kvvars, prompt, limit, queues, pc, budget, reserved, chunks, scan, need>>

\* The retire loop; after a step that scheduled nothing it finds nothing.
BeginRetire ==
  /\ pc = "batch" /\ scan = <<>> /\ decodes = <<>>
  /\ pc' = "retire"
  /\ scan' = running
  /\ UNCHANGED <<chunked, kvvars, reqvars, queues, budget, reserved, chunks, decodes, need>>

RetireSkip ==
  /\ pc = "retire" /\ scan # <<>>
  /\ state[Head(scan)] \notin Over
  /\ scan' = Tail(scan)
  /\ UNCHANGED <<chunked, kvvars, reqvars, queues, pc, budget, reserved, chunks, decodes, need>>

\* commit_prefix() publishes the full blocks of the whole sequence ...
RetirePublish ==
  /\ pc = "retire" /\ scan # <<>>
  /\ state[Head(scan)] \in Over
  /\ IF Caching /\ Head(scan) \in open
     THEN Publish(Head(scan), AllTokens(Head(scan)))
     ELSE UNCHANGED kvvars
  /\ pc' = "release"
  /\ UNCHANGED <<chunked, reqvars, queues, locals>>

\* ... and, once the cache is trimmed, the request lets go of its KV.
RetireRelease ==
  /\ pc = "release" /\ toEvict = 0
  /\ IF Head(scan) \in open THEN Release(Head(scan)) ELSE UNCHANGED kvvars
  /\ running' = Without(running, Head(scan))
  /\ scan' = Tail(scan)
  /\ pc' = "retire"
  /\ UNCHANGED <<chunked, reqvars, waiting, budget, reserved, chunks, decodes, need>>

EndStep ==
  /\ pc = "retire" /\ scan = <<>>
  /\ pc' = "idle"
  /\ budget' = 0 /\ reserved' = 0
  /\ UNCHANGED <<chunked, kvvars, reqvars, queues, chunks, decodes, scan, need>>

-----------------------------------------------------------------------------
Schedule ==
  \/ BeginStep
  \/ DecodeScan \/ PreemptNewest \/ RoomMade \/ DecodeRetry \/ DecodesDone
  \/ PrefillScan \/ PrefillsDone
  \/ AdmitOpen \/ AdmitRefuse \/ Admit \/ AdmitRollback \/ AdmitDone
  \/ BreakStall \/ AdvanceHead \/ ProgressRetry \/ NothingToForce
  \/ CacheEviction

Execute ==
  \/ ExecuteChunk \/ BeginBatch \/ DecodeWrite \/ DecodeEmit
  \/ BeginRetire \/ RetireSkip \/ RetirePublish \/ RetireRelease \/ EndStep

\* The one thread that drives the engine.
EngineThread == Schedule \/ Execute

Clients ==
  \E r \in Requests :
    \/ \E p \in Prompts, m \in OutLimits : AddRequest(r, p, m)
    \/ AbortRequest(r)

Next == EngineThread \/ Clients

Spec == Init /\ [][Next]_vars
FairSpec == Spec /\ WF_vars(EngineThread)

-----------------------------------------------------------------------------
(* Properties.                                                             *)

RequestTypes ==
  /\ chunked \in ChunkedModes
  /\ state \in [Requests -> {"new", "waiting", "prefill", "running", "preempted"} \cup Over]
  /\ prompt \in [Requests -> Prompts \cup {<<>>}]
  /\ limit \in [Requests -> Nat \ {0}]
  /\ out \in [Requests -> Seq(Tokens)]
  /\ computed \in [Requests -> Nat]
  /\ waiting \in Seq(Requests) /\ running \in Seq(Requests)
StepTypes ==
  /\ pc \in {"idle", "decode", "decode_room", "decode_retry", "prefill", "admit",
             "progress", "progress_room", "progress_retry", "execute", "batch",
             "retire", "release", "crashed"}
  /\ budget \in Nat /\ reserved \in Nat /\ need \in Nat
  /\ chunks \in Seq(PrefillChunk)
  /\ decodes \in Seq(Requests) /\ scan \in Seq(Requests)
EngineTypeOK == RequestTypes /\ StepTypes

\* A scheduled step never runs out of blocks half-way (ADR-0006): what schedule()
\* reserved covers every write, although each request was sized on its own.
NeverOutOfBlocks == pc # "crashed"

\* The blocks the rest of this step will allocate, and that they are there.
Demand ==
  UNION ({{chunks[i].req} \X Missing(chunks[i].req, chunks[i].start + chunks[i].take)
            : i \in DOMAIN chunks}
    \cup {{r} \X Missing(r, computed[r] + 1)
            : r \in Members(IF pc = "batch" THEN scan ELSE decodes)})
ReservationCovers == Cardinality(Demand) <= NumFree

\* The block a sequence writes next is its own, so the engine never needs a copy
\* (and never finds itself short of the block a copy takes).
WritesArePrivate ==
  \A r \in open : \A i \in DOMAIN table[r] :
    i > Len(text[r]) \div BlockSize => ref[table[r][i]] = 1

\* What the KV of a request holds is the start of its own tokens, up to
\* num_computed_tokens: preemption, prefix hits, chunking and rollback never make
\* attention read anything but what an undisturbed run would have fed.
KVIsOwnTokens ==
  \A r \in open :
    /\ Len(text[r]) <= Len(AllTokens(r))
    /\ \A p \in DOMAIN text[r] : text[r][p] = AllTokens(r)[p]
    /\ pc # "batch" => Len(text[r]) = computed[r]

\* Between steps a decoding request has fed all its tokens but the last: none is
\* skipped and none is fed twice, however often it was preempted and replayed.
NoTokenSkipped ==
  pc = "idle" =>
    \A r \in Requests :
      state[r] = "running" => computed[r] = Len(AllTokens(r)) - 1 /\ out[r] # <<>>

\* Every unfinished request is in exactly one queue, once, and only requests in a
\* queue hold KV: nothing is lost, served twice or leaked.
Distinct(q) == \A i, j \in DOMAIN q : q[i] = q[j] => i = j
QueuesConsistent ==
  /\ Distinct(waiting) /\ Distinct(running)
  /\ Members(waiting) \cap Members(running) = {}
  /\ Members(waiting) = {r \in Requests : state[r] \in {"waiting", "preempted"}}
  /\ {r \in Requests : state[r] \in {"prefill", "running"}} \subseteq Members(running)
  /\ open \subseteq Members(waiting) \cup Members(running)
  /\ Len(running) <= MaxNumSeqs
  /\ pc = "idle" => \A r \in Members(running) : state[r] \notin Over

\* A request that waits pins nothing but cached blocks.
WaitersPinOnlyCached ==
  \A r \in open \cap Members(waiting) : Image(table[r]) \subseteq Image(tree)

\* Only the newest running sequence can still be prefilling: whatever the chunk
\* sizes, no sequence is admitted past one whose prompt is not in the KV yet.
OnlyNewestPrefills ==
  pc = "idle" => \A i \in DOMAIN running : ~PrefillDone(running[i]) => i = Len(running)

\* The sequence at the head of the line is never the one preempted (ADR-0004).
HeadNeverPreempted ==
  [][running # <<>> => state'[Head(running)] # "preempted"]_vars

\* Every submitted request is answered.
Served ==
  \A r \in Requests : state[r] = "waiting" ~> state[r] \in Over

\* Admission is never starved while nothing runs (ADR-0008).
AdmissionProgress == (waiting # <<>>) ~> (waiting = <<>> \/ running # <<>>)

\* KV holds positions [0, num_computed_tokens) of every running request, so its
\* next token is written right behind them (the invariant of next_position).
PositionsHeld ==
  \A r \in Members(running) \cap open : pc # "batch" => Len(text[r]) = computed[r]
=============================================================================
