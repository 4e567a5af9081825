---------------------------- MODULE Engine_proofs ----------------------------
(***************************************************************************)
(* What holds of the engine for any number of requests, any pool and any   *)
(* budget.  Five inductive invariants, each resting on the ones before it: *)
(*                                                                         *)
(* EngineInv: types, queues and the accounting of the KV memory.  The      *)
(* queues are consistent only because the loop variables of one step keep  *)
(* their meaning while _make_room preempts: what was scheduled still runs  *)
(* (ScheduledRuns), whoever a loop still visits runs or was preempted      *)
(* (ScanRuns), who is over is still to be retired (RunningLive), and a     *)
(* chunk feeds tokens that exist (ChunksFit).                              *)
(*                                                                         *)
(* Plan: a step serves a request once, from where it stands (OneVisit,     *)
(* ChunkPlan, DecodePlan), so a decoding request has fed all its tokens    *)
(* but the last (Replayed).                                                *)
(*                                                                         *)
(* Room: the blocks that the rest of the step takes are free and within    *)
(* what it reserved (Reserve), because no pass needs a copy                *)
(* (WritesArePrivate) and no sequence is longer than its request has       *)
(* computed (TextFits).  So no pass raises OutOfBlocks.                    *)
(*                                                                         *)
(* Own: the KV of a request is the start of its own tokens (OwnText), and  *)
(* who waits stands where its KV ends (WaitersFresh).  Passes then only    *)
(* ever append, and Content of KVMemory_proofs holds under the calls the   *)
(* engine makes: what is gathered is what was fed.                         *)
(*                                                                         *)
(* Line: with chunked prefill, who waits with a KV needs a block for its   *)
(* next token (WaitersWhole), and who is still prefilling was given all    *)
(* the budget or all the memory there was (Stuck).  So nobody is admitted  *)
(* behind such a request (NewestOnly), and the head of the line is never   *)
(* the newest that a preemption may choose (Asking, HeadFirst).            *)
(*                                                                         *)
(* Last, the engine implements KVSpec, the client specification under      *)
(* which KVMemory is checked and proved: with no request past its limit    *)
(* (InLimit) and no chunk past the budget (InBudget), each of its steps    *)
(* makes a call that specification allows, or leaves the memory alone.     *)
(***************************************************************************)
EXTENDS Engine, KVMemory_proofs

-----------------------------------------------------------------------------
(* The inductive invariant.                                                *)

Scheduling == {"decode", "decode_room", "decode_retry", "prefill", "admit",
               "progress", "progress_room", "progress_retry"}
Sized == {"decode_room", "decode_retry", "progress_room", "progress_retry"}

\* Whoever was submitted has a prompt.
Submitted == \A r \in Requests : state[r] # "new" => prompt[r] \in Prompts

\* Who runs has not ended, until a step emits tokens; who ended then is still to
\* be retired.
RunningLive ==
  /\ \A r \in Members(running) : state[r] # "new"
  /\ pc \in Scheduling \cup {"idle"} => \A r \in Members(running) : state[r] \notin Over
  /\ pc \in {"retire", "release"} =>
       \A r \in Members(running) : state[r] \in Over => r \in Members(scan)
  /\ pc = "release" => scan # <<>> /\ state[Head(scan)] \in Over

\* What was scheduled runs: a preemption leaves alone what this step committed to.
ScheduledRuns ==
  /\ Scheduled \subseteq Members(running)
  /\ pc \in {"idle", "batch", "retire", "release"} => chunks = <<>>
  /\ pc \in {"idle", "retire", "release"} => decodes = <<>>

\* A chunk never goes past what there is to replay.
ChunksFit ==
  \A c \in Members(chunks) : c.start + c.take <= Target(c.req)

\* The list a loop goes through.
ScanRuns ==
  /\ pc \in {"decode", "decode_room", "decode_retry", "prefill"} =>
       \A r \in Members(scan) : r \in Members(running) \/ state[r] = "preempted"
  /\ pc = "batch" => Members(scan) \subseteq Members(running)
  /\ pc \in Sized => scan # <<>> /\ Head(scan) \in Members(running)
  /\ pc \in {"progress_room", "progress_retry"} => Members(scan) = {Head(scan)}
  /\ pc \in {"decode_room", "decode_retry"} => budget > 0

LoopInv == Submitted /\ RunningLive /\ ScheduledRuns /\ ChunksFit /\ ScanRuns
EngineInv == KVInv /\ EngineTypeOK /\ QueuesConsistent /\ LoopInv

-----------------------------------------------------------------------------
(* Queues.                                                                 *)

\* What is in a sequence over S is in S.
LEMMA MembersOf ==
  ASSUME NEW S, NEW q \in Seq(S)
  PROVE  Members(q) \subseteq S /\ \A i \in DOMAIN q : q[i] \in S /\ q[i] \in Members(q)
  BY DEF Members

\* Among finitely many indices each rank is taken once.
LEMMA Ranks ==
  ASSUME NEW I \in SUBSET Nat, IsFiniteSet(I)
  PROVE  /\ Cardinality(I) \in Nat
         /\ \A i, j \in I :
              Cardinality({n \in I : n <= i}) = Cardinality({n \in I : n <= j}) => i = j
         /\ \A k \in 1 .. Cardinality(I) : \E i \in I : Cardinality({n \in I : n <= i}) = k
         /\ \A i \in I : Cardinality({n \in I : n <= i}) \in 1 .. Cardinality(I)
<1> DEFINE Up(i) == {n \in I : n <= i}
           rank == [i \in I |-> Cardinality(Up(i))]
<1>1. \A i \in I : /\ IsFiniteSet(Up(i)) /\ Cardinality(Up(i)) \in Nat
                    /\ Cardinality(Up(i)) <= Cardinality(I) /\ Cardinality(Up(i)) # 0
  <2> SUFFICES ASSUME NEW i \in I
               PROVE  /\ IsFiniteSet(Up(i)) /\ Cardinality(Up(i)) \in Nat
                      /\ Cardinality(Up(i)) <= Cardinality(I) /\ Cardinality(Up(i)) # 0
    OBVIOUS
  <2>1. Up(i) \subseteq I /\ i \in Up(i)
    <3>1. i \in Nat /\ i <= i
      OBVIOUS
    <3> QED BY <3>1
  <2> HIDE DEF Up
  <2> QED BY <2>1, FS_Subset, FS_CardinalityType, FS_EmptySet
<1>2. Cardinality(I) \in Nat
  BY FS_CardinalityType
<1>3. \A i, j \in I : i < j => Cardinality(Up(i)) < Cardinality(Up(j))
  <2> SUFFICES ASSUME NEW i \in I, NEW j \in I, i < j
               PROVE  Cardinality(Up(i)) < Cardinality(Up(j))
    OBVIOUS
  <2>1. Up(i) \subseteq Up(j) /\ j \in Up(j) /\ j \notin Up(i)
    <3>1. i \in Nat /\ j \in Nat /\ \A n \in I : n \in Nat
      OBVIOUS
    <3>2. j <= j /\ ~(j <= i) /\ \A n \in I : n <= i => n <= j
      BY <3>1
    <3> QED BY <3>2
  <2>2. IsFiniteSet(Up(j)) /\ Cardinality(Up(i)) \in Nat /\ Cardinality(Up(j)) \in Nat
    BY <1>1
  <2> HIDE DEF Up
  <2>3. Cardinality(Up(i)) <= Cardinality(Up(j)) /\ Cardinality(Up(i)) # Cardinality(Up(j))
    BY <2>1, <2>2, FS_Subset
  <2> QED BY <2>2, <2>3
<1>4. rank \in Injection(I, 1 .. Cardinality(I))
  <2>1. \A i \in I : Cardinality(Up(i)) \in 1 .. Cardinality(I)
    <3> HIDE DEF Up
    <3> QED BY <1>1, <1>2
  <2>2. \A i, j \in I : Cardinality(Up(i)) = Cardinality(Up(j)) => i = j
    <3> SUFFICES ASSUME NEW i \in I, NEW j \in I, Cardinality(Up(i)) = Cardinality(Up(j)), i # j
                 PROVE  FALSE
      OBVIOUS
    <3>1. i < j \/ j < i
      OBVIOUS
    <3> HIDE DEF Up
    <3> QED BY <1>1, <1>3, <3>1
  <2> HIDE DEF Up
  <2> QED BY <2>1, <2>2 DEF Injection, IsInjective
<1>5. rank \in Surjection(I, 1 .. Cardinality(I))
  <2>1. IsFiniteSet(1 .. Cardinality(I)) /\ Cardinality(1 .. Cardinality(I)) = Cardinality(I)
    BY <1>2, FS_Interval
  <2> HIDE DEF rank
  <2> QED BY <1>4, <2>1, FS_Injection
<1>6. \A k \in 1 .. Cardinality(I) : \E i \in I : Cardinality(Up(i)) = k
  <2> HIDE DEF Up
  <2> QED BY <1>5 DEF Surjection
<1>7. \A i \in I : Cardinality(Up(i)) \in 1 .. Cardinality(I)
  <2> HIDE DEF Up
  <2> QED BY <1>1, <1>2
<1>8. \A i, j \in I : Cardinality(Up(i)) = Cardinality(Up(j)) => i = j
  <2> HIDE DEF Up
  <2> QED BY <1>4 DEF Injection, IsInjective
<1> QED BY <1>2, <1>6, <1>7, <1>8

\* What list.remove() and the filter of the decode batch leave of a list.
LEMMA KeepingFacts ==
  ASSUME NEW S, NEW q \in Seq(S), NEW T
  PROVE  /\ Keeping(q, T) \in Seq(S) /\ Len(Keeping(q, T)) <= Len(q)
         /\ Members(Keeping(q, T)) = Members(q) \cap T
         /\ Distinct(q) => Distinct(Keeping(q, T))
<1> DEFINE I == {i \in DOMAIN q : q[i] \in T}
           Rank(i) == Cardinality({n \in I : n <= i})
           at == [k \in 1 .. Cardinality(I) |-> CHOOSE i \in I : Rank(i) = k]
<1>1. I \subseteq 1 .. Len(q) /\ Len(q) \in Nat
  OBVIOUS
<1>2. IsFiniteSet(1 .. Len(q)) /\ Cardinality(1 .. Len(q)) = Len(q)
  <2>1. ASSUME NEW n \in Nat PROVE IsFiniteSet(1 .. n) /\ Cardinality(1 .. n) = n
    BY FS_Interval
  <2> QED BY <1>1, <2>1, Zenon
<1>3. IsFiniteSet(I) /\ Cardinality(I) <= Len(q) /\ I \in SUBSET Nat
  <2>1. I \in SUBSET Nat
    BY <1>1
  <2>2. IsFiniteSet(I) /\ Cardinality(I) <= Len(q)
    <3> HIDE DEF I
    <3> QED BY <1>1, <1>2, FS_Subset
  <2> QED BY <2>1, <2>2
<1>4. /\ Cardinality(I) \in Nat
      /\ \A i, j \in I : Rank(i) = Rank(j) => i = j
      /\ \A k \in 1 .. Cardinality(I) : \E i \in I : Rank(i) = k
      /\ \A i \in I : Rank(i) \in 1 .. Cardinality(I)
  <2> HIDE DEF I
  <2> QED BY <1>3, Ranks
<1>5. \A k \in 1 .. Cardinality(I) : at[k] \in I /\ Rank(at[k]) = k
  <2> HIDE DEF I, Rank
  <2> QED BY <1>4
<1>6. Keeping(q, T) = [k \in 1 .. Cardinality(I) |-> q[at[k]]]
  BY DEF Keeping
<1>7. \A k \in 1 .. Cardinality(I) : q[at[k]] \in S /\ q[at[k]] \in Members(q) \cap T
  <2> HIDE DEF at, Rank
  <2> QED BY <1>5 DEF Members
<1>8. Keeping(q, T) \in Seq(S) /\ Len(Keeping(q, T)) = Cardinality(I)
  <2> HIDE DEF at, Rank, I
  <2> QED BY <1>4, <1>6, <1>7
<1>9. Members(Keeping(q, T)) = Members(q) \cap T
  <2>1. ASSUME NEW i \in I PROVE q[i] \in Members(Keeping(q, T))
    <3>1. Rank(i) \in 1 .. Cardinality(I) /\ at[Rank(i)] = i
      <4> HIDE DEF I, Rank, at
      <4> QED BY <1>4, <1>5, <2>1
    <3> HIDE DEF I, Rank, at
    <3> QED BY <1>6, <3>1 DEF Members
  <2>2. \A x \in Members(q) \cap T : \E i \in I : x = q[i]
    BY DEF Members
  <2>3. \A x \in Members(Keeping(q, T)) : \E k \in 1 .. Cardinality(I) : x = q[at[k]]
    <3> HIDE DEF I, Rank, at
    <3> QED BY <1>6 DEF Members
  <2> HIDE DEF I, Rank, at
  <2> QED BY <1>7, <2>1, <2>2, <2>3
<1>10. Distinct(q) => Distinct(Keeping(q, T))
  <2> SUFFICES ASSUME Distinct(q), NEW k \in 1 .. Cardinality(I), NEW m \in 1 .. Cardinality(I),
                      q[at[k]] = q[at[m]]
               PROVE  k = m
    <3> HIDE DEF I, Rank, at
    <3> QED BY <1>6 DEF Distinct
  <2>1. at[k] \in DOMAIN q /\ at[m] \in DOMAIN q
    <3> HIDE DEF Rank, at
    <3> QED BY <1>5
  <2> HIDE DEF I, Rank, at
  <2> QED BY <1>5, <2>1 DEF Distinct
<1> HIDE DEF I, Rank, at
<1> QED BY <1>3, <1>4, <1>8, <1>9, <1>10

\* a is q with e behind it, and with e before it.
Behind(a, q, e) ==
  Len(a) = Len(q) + 1 /\ a[Len(q) + 1] = e /\ \A i \in 1 .. Len(q) : a[i] = q[i]
Before(a, q, e) ==
  Len(a) = Len(q) + 1 /\ a[1] = e /\ \A i \in 1 .. Len(q) : a[i + 1] = q[i]

\* Appending to a queue.
LEMMA Appended ==
  ASSUME NEW S, NEW q \in Seq(S), NEW e \in S, NEW a \in Seq(S), Behind(a, q, e)
  PROVE  /\ Members(a) = Members(q) \cup {e}
         /\ Distinct(q) /\ e \notin Members(q) => Distinct(a)
<1>1. /\ DOMAIN a = 1 .. Len(a) /\ DOMAIN q = 1 .. Len(q) /\ Len(q) \in Nat
      /\ Len(a) = Len(q) + 1 /\ a[Len(q) + 1] = e /\ \A i \in 1 .. Len(q) : a[i] = q[i]
  BY DEF Behind
<1>2. Members(a) = Members(q) \cup {e}
  BY <1>1 DEF Members
<1>3. Distinct(q) /\ e \notin Members(q) => Distinct(a)
  BY <1>1 DEF Members, Distinct
<1> QED BY <1>2, <1>3

\* Putting something back at the head of a queue.
LEMMA Prepended ==
  ASSUME NEW S, NEW q \in Seq(S), NEW e \in S, NEW b \in Seq(S), Before(b, q, e)
  PROVE  /\ Members(b) = Members(q) \cup {e}
         /\ Distinct(q) /\ e \notin Members(q) => Distinct(b)
<1>1. /\ DOMAIN b = 1 .. Len(b) /\ DOMAIN q = 1 .. Len(q) /\ Len(q) \in Nat
      /\ Len(b) = Len(q) + 1 /\ b[1] = e /\ \A i \in 1 .. Len(q) : b[i + 1] = q[i]
  BY DEF Before
<1>2. \A i \in 2 .. Len(b) : i \in Int /\ i - 1 \in DOMAIN q /\ b[i] = q[i - 1]
  BY <1>1
<1>3. \A i \in DOMAIN b : i = 1 \/ i \in 2 .. Len(b)
  BY <1>1
<1>4. Members(b) = Members(q) \cup {e}
  <2>1. \A i \in DOMAIN b : b[i] = e \/ b[i] \in Members(q)
    BY <1>1, <1>2, <1>3 DEF Members
  <2>2. \A i \in DOMAIN q : q[i] \in Members(b)
    BY <1>1 DEF Members
  <2>3. e \in Members(b)
    BY <1>1 DEF Members
  <2> QED BY <2>1, <2>2, <2>3 DEF Members
<1>5. Distinct(q) /\ e \notin Members(q) => Distinct(b)
  <2> SUFFICES ASSUME Distinct(q), e \notin Members(q), NEW i \in DOMAIN b, NEW j \in DOMAIN b,
                      b[i] = b[j]
               PROVE  i = j
    BY DEF Distinct
  <2>1. \A n \in 2 .. Len(b) : b[n] # e
    BY <1>2 DEF Members
  <2>2. CASE i = 1 \/ j = 1
    BY <1>1, <1>3, <2>1, <2>2
  <2>3. CASE i \in 2 .. Len(b) /\ j \in 2 .. Len(b)
    <3>1. i - 1 = j - 1
      BY <1>2, <2>3 DEF Distinct
    <3> QED BY <1>2, <2>3, <3>1
  <2> QED BY <1>3, <2>2, <2>3
<1> QED BY <1>4, <1>5

\* Taking the first element of a list.
LEMMA Taking ==
  ASSUME NEW S, NEW q \in Seq(S), q # <<>>
  PROVE  /\ Head(q) \in S /\ Head(q) \in Members(q) /\ Tail(q) \in Seq(S)
         /\ Members(q) = Members(Tail(q)) \cup {Head(q)}
         /\ Distinct(q) => Distinct(Tail(q)) /\ Head(q) \notin Members(Tail(q))
<1> DEFINE t == Tail(q)
<1>1. /\ Head(q) = q[1] /\ q[1] \in S /\ 1 \in DOMAIN q
      /\ t \in Seq(S) /\ Len(t) = Len(q) - 1 /\ DOMAIN t = 1 .. Len(t)
      /\ \A i \in 1 .. Len(t) : i + 1 \in DOMAIN q /\ t[i] = q[i + 1]
      /\ \A i \in 2 .. Len(q) : i - 1 \in DOMAIN t /\ q[i] = t[i - 1]
      /\ \A i \in DOMAIN q : i = 1 \/ i \in 2 .. Len(q)
  OBVIOUS
<1> HIDE DEF t
<1>2. Members(q) = Members(t) \cup {q[1]}
  <2>1. \A i \in DOMAIN t : t[i] \in Members(q)
    BY <1>1 DEF Members
  <2>2. \A i \in DOMAIN q : q[i] = q[1] \/ q[i] \in Members(t)
    BY <1>1 DEF Members
  <2>3. /\ \A x \in Members(t) : \E i \in DOMAIN t : x = t[i]
        /\ \A x \in Members(q) : \E i \in DOMAIN q : x = q[i]
    BY DEF Members
  <2>4. q[1] \in Members(q)
    BY <1>1 DEF Members
  <2> QED BY <2>1, <2>2, <2>3, <2>4
<1>3. Distinct(q) => Distinct(t) /\ q[1] \notin Members(t)
  <2> SUFFICES ASSUME Distinct(q) PROVE Distinct(t) /\ q[1] \notin Members(t)
    OBVIOUS
  <2>1. \A i \in DOMAIN t : i \in Int /\ i + 1 \in DOMAIN q /\ t[i] = q[i + 1] /\ i + 1 # 1
    BY <1>1
  <2>2. ASSUME NEW i \in DOMAIN t, NEW j \in DOMAIN t, t[i] = t[j] PROVE i = j
    <3>1. i + 1 = j + 1
      BY <2>1, <2>2 DEF Distinct
    <3> QED BY <2>1, <3>1
  <2>3. ASSUME NEW i \in DOMAIN t PROVE t[i] # q[1]
    BY <1>1, <2>1 DEF Distinct
  <2> QED BY <2>2, <2>3 DEF Distinct, Members
<1> QED BY <1>1, <1>2, <1>3 DEF t, Members

-----------------------------------------------------------------------------
(* What schedule() computes.                                               *)

\* Every queue holds requests.
LEMMA QueueOfRequests ==
  ASSUME EngineTypeOK
  PROVE  /\ Members(waiting) \subseteq Requests /\ Members(running) \subseteq Requests
         /\ Members(scan) \subseteq Requests /\ Members(decodes) \subseteq Requests
         /\ Members(chunks) \subseteq PrefillChunk
         /\ \A c \in Members(chunks) : c.req \in Requests /\ c.start \in Nat /\ c.take \in Nat
<1>1. /\ waiting \in Seq(Requests) /\ running \in Seq(Requests)
      /\ scan \in Seq(Requests) /\ decodes \in Seq(Requests)
  BY DEF EngineTypeOK, RequestTypes, StepTypes
<1>2. Members(chunks) \subseteq PrefillChunk
  BY MembersOf DEF EngineTypeOK, StepTypes
<1>3. \A c \in PrefillChunk : c.req \in Requests /\ c.start \in Nat /\ c.take \in Nat
  BY DEF PrefillChunk
<1> QED BY <1>1, <1>2, <1>3, MembersOf

\* Lengths: what is to be replayed is part of what there is.
LEMMA Lengths ==
  ASSUME EngineTypeOK, NEW r \in Requests
  PROVE  /\ prompt[r] \in Seq(Tokens) /\ out[r] \in Seq(Tokens) /\ AllTokens(r) \in Seq(Tokens)
         /\ Target(r) \in Nat /\ Len(AllTokens(r)) \in Nat /\ Target(r) <= Len(AllTokens(r))
<1>1. prompt[r] \in Seq(Tokens) /\ out[r] \in Seq(Tokens)
  <2>1. prompt[r] \in Prompts \cup {<<>>} /\ out[r] \in Seq(Tokens)
    BY DEF EngineTypeOK, RequestTypes
  <2>2. <<>> \in Seq(Tokens)
    OBVIOUS
  <2> QED BY <2>1, <2>2, KVAssumption
<1> DEFINE m == Len(prompt[r])
           n == Len(out[r])
<1>2. AllTokens(r) \in Seq(Tokens) /\ Len(AllTokens(r)) = m + n /\ m \in Nat /\ n \in Nat
  BY <1>1 DEF AllTokens
<1>3. Target(r) = m + Max2(0, n - 1)
  BY DEF Target
<1> HIDE DEF m, n
<1>4. m + n \in Nat /\ m + Max2(0, n - 1) \in Nat /\ m + Max2(0, n - 1) <= m + n
  BY <1>2 DEF Max2
<1> QED BY <1>1, <1>2, <1>3, <1>4

\* Block counts are counts.
LEMMA Counts ==
  ASSUME KVInv, EngineTypeOK
  PROVE  /\ NumFree \in Nat /\ Headroom \in Int /\ Available \in Int
         /\ \A r \in Requests, n \in Nat :
              BlocksNeeded(r, n) \in Nat /\ BlocksFor(n) \in Nat /\ Len(table[r]) \in Nat
         /\ \A r \in Requests : NextNeed(r) \in Nat
<1>1. NumFree \in Nat
  <2>1. free \in SUBSET Blocks /\ IsFiniteSet(Blocks)
    BY KVAssumption DEF KVInv, KVTypeOK
  <2> QED BY <2>1, FS_Subset, FS_CardinalityType DEF NumFree
<1>2. Watermark \in Int
  <2>1. Cardinality(Blocks) \in Nat
    BY KVAssumption, FS_CardinalityType
  <2> QED BY <2>1, EngineAssumption
<1>3. ASSUME NEW r \in Requests, NEW n \in Nat
      PROVE  BlocksNeeded(r, n) \in Nat /\ BlocksFor(n) \in Nat /\ Len(table[r]) \in Nat
  <2>1. Len(table[r]) \in Nat
    BY DEF KVInv, KVTypeOK, Requests
  <2>2. BlocksFor(n) \in Nat
    BY BlocksForType
  <2>3. IsFiniteSet(Missing(r, n))
    <3> DEFINE lo == Len(table[r]) + 1
               hi == BlocksFor(n)
    <3>1. lo \in Int /\ hi \in Int
      BY <2>1, <2>2
    <3> HIDE DEF lo, hi
    <3>2. IsFiniteSet(lo .. hi)
      BY <3>1, FS_Interval
    <3> QED BY <3>2 DEF lo, hi, Missing
  <2> QED BY <2>1, <2>2, <2>3, FS_CardinalityType DEF BlocksNeeded
<1>4. ASSUME NEW r \in Requests PROVE NextNeed(r) \in Nat
  <2>1. computed[r] + 1 \in Nat
    BY DEF EngineTypeOK, RequestTypes
  <2> QED BY <1>3, <2>1 DEF NextNeed
<1>5. reserved \in Nat
  BY DEF EngineTypeOK, StepTypes
<1> QED BY <1>1, <1>2, <1>3, <1>4, <1>5 DEF Headroom, Available

\* A chunk fits the budget and stays within what is left to replay.
LEMMA TakeBounds ==
  ASSUME KVInv, EngineTypeOK, NEW r \in Requests
  PROVE  /\ Take(r) \in Nat /\ Take(r) <= budget
         /\ Take(r) # 0 => computed[r] + Take(r) <= Target(r)
         /\ computed[r] \in Nat /\ computed[r] + Take(r) \in Nat
         /\ BlocksNeeded(r, computed[r] + Take(r)) \in Nat
<1>1. computed[r] \in Nat /\ budget \in Nat /\ Target(r) \in Nat
  BY Lengths DEF EngineTypeOK, RequestTypes, StepTypes
<1>2. Remaining(r) \in Nat /\ (Remaining(r) # 0 => computed[r] + Remaining(r) = Target(r))
  BY <1>1 DEF Remaining, Max2
<1>3. Want(r) \in Nat /\ Want(r) <= budget /\ Want(r) <= Remaining(r)
  BY <1>1, <1>2 DEF Want, Min2
<1> DEFINE capacity == (Len(table[r]) + Max2(0, Available)) * BlockSize
<1>4. capacity \in Int
  <2>1. Len(table[r]) \in Int /\ Available \in Int
    BY Counts, 0 \in Nat
  <2>2. Len(table[r]) + Max2(0, Available) \in Int
    BY <2>1 DEF Max2
  <2>3. BlockSize \in Int
    BY KVAssumption
  <2> QED BY <2>2, <2>3
<1>5. Take(r) = IF BlocksNeeded(r, computed[r] + Want(r)) > Available
                THEN Max2(0, Min2(Want(r), capacity - computed[r])) ELSE Want(r)
  BY DEF Take
<1> HIDE DEF capacity
<1>6. Take(r) \in Nat /\ Take(r) <= Want(r)
  BY <1>1, <1>3, <1>4, <1>5 DEF Max2, Min2
<1>7. Take(r) # 0 => computed[r] + Take(r) <= Target(r)
  BY <1>1, <1>2, <1>3, <1>6
<1>8. computed[r] + Take(r) \in Nat
  BY <1>1, <1>6
<1>9. BlocksNeeded(r, computed[r] + Take(r)) \in Nat
  BY <1>8, Counts
<1> QED BY <1>1, <1>3, <1>6, <1>7, <1>8, <1>9

\* A step that leaves requests and queues alone keeps what holds of them.
LEMMA Bookkeeping ==
  ASSUME EngineInv, KVInv', open' = open, UNCHANGED <<chunked, reqvars, queues>>,
         StepTypes', RunningLive', ScheduledRuns', ChunksFit', ScanRuns'
  PROVE  EngineInv'
<1>1. EngineTypeOK'
  <2>1. RequestTypes'
    BY DEF EngineInv, EngineTypeOK, RequestTypes, reqvars, queues
  <2> QED BY <2>1 DEF EngineTypeOK
<1>2. QueuesConsistent'
  <2>1. pc' = "idle" => \A r \in Members(running') : state'[r] \notin Over
    BY DEF RunningLive
  <2>2. /\ state' = state /\ waiting' = waiting /\ running' = running
        /\ Members(waiting)' = Members(waiting) /\ Members(running)' = Members(running)
    BY DEF reqvars, queues, Members
  <2>3. \A r \in Members(running) : pc' = "idle" => state[r] \notin Over
    BY <2>1, <2>2 DEF Members
  <2>4. QueuesConsistent
    BY DEF EngineInv
  <2> QED BY <2>2, <2>3, <2>4 DEF QueuesConsistent, Distinct
<1>3. Submitted'
  BY DEF EngineInv, LoopInv, Submitted, reqvars
<1> QED BY <1>1, <1>2, <1>3 DEF EngineInv, LoopInv

\* A step that leaves the KV memory alone, and one that starts or goes on with an eviction.
LEMMA MemoryKept ==
  ASSUME KVInv, UNCHANGED kvvars
  PROVE  KVInv' /\ open' = open
  BY DEF KVInv, KVTypeOK, RefAccounting, TableRefs, CacheRefs, TablesCover, kvvars

\* Starting an eviction changes no reference.
LEMMA EvictKept ==
  ASSUME KVInv, NEW n \in Nat, Evict(n)
  PROVE  KVInv' /\ open' = open
<1>1. KVInv'
  BY EvictInv
<1> QED BY <1>1 DEF Evict

\* _make_room starts with an eviction, or with nothing to reclaim.
LEMMA MakeRoomKept ==
  ASSUME KVInv, EngineTypeOK, NEW n \in Nat, NEW room, MakeRoom(n, room)
  PROVE  KVInv' /\ open' = open /\ pc' = room /\ need' \in Nat
<1>1. pc' = room /\ need' \in Nat
  BY DEF MakeRoom
<1>2. Headroom \in Int
  BY Counts
<1>3. CASE Caching /\ n > Headroom
  <2>1. n - Headroom \in Nat /\ Evict(n - Headroom)
    BY <1>2, <1>3 DEF MakeRoom
  <2> QED BY <1>1, <2>1, EvictKept
<1>4. CASE ~(Caching /\ n > Headroom)
  <2>1. UNCHANGED kvvars
    BY <1>4 DEF MakeRoom
  <2> QED BY <1>1, <2>1, MemoryKept
<1> QED BY <1>3, <1>4

\* Requests, queues and scheduled work stay: so does what holds of them.
LEMMA SameWork ==
  ASSUME EngineInv, UNCHANGED <<reqvars, queues, chunks, decodes>>
  PROVE  /\ Members(running)' = Members(running) /\ Members(waiting)' = Members(waiting)
         /\ Scheduled' = Scheduled /\ ChunksFit'
         /\ state' = state /\ prompt' = prompt /\ running' = running /\ chunks' = chunks
         /\ decodes' = decodes
<1>1. /\ state' = state /\ prompt' = prompt /\ out' = out /\ running' = running
      /\ waiting' = waiting /\ chunks' = chunks /\ decodes' = decodes
  BY DEF reqvars, queues
<1>2. /\ Members(running)' = Members(running) /\ Members(waiting)' = Members(waiting)
      /\ Scheduled' = Scheduled
  BY <1>1 DEF Members, Scheduled
<1>3. ChunksFit'
  BY <1>1 DEF EngineInv, LoopInv, ChunksFit, Members, Target
<1> QED BY <1>1, <1>2, <1>3

-----------------------------------------------------------------------------
(* The steps that only move the engine thread.                             *)

\* Between steps nobody in running is over, so a step starts with live requests.
LEMMA BeginStepInv ==
  ASSUME EngineInv, BeginStep
  PROVE  EngineInv'
<1>1. /\ pc = "idle" /\ pc' = "decode" /\ budget' = MaxBatchedTokens /\ reserved' = 0
      /\ scan' = running /\ need' = need /\ UNCHANGED <<chunked, kvvars, reqvars, queues>>
      /\ UNCHANGED <<reqvars, queues, chunks, decodes>>
  BY DEF BeginStep
<1>2. KVInv' /\ open' = open
  BY <1>1, MemoryKept DEF EngineInv
<1>3. StepTypes'
  BY <1>1, EngineAssumption DEF EngineInv, EngineTypeOK, StepTypes, RequestTypes
<1>4. RunningLive' /\ ScheduledRuns' /\ ScanRuns'
  <2>1. Members(scan)' = Members(running)
    BY <1>1 DEF Members
  <2> QED BY <1>1, <2>1, SameWork
          DEF EngineInv, LoopInv, RunningLive, ScheduledRuns, ScanRuns, Scheduling, Sized
<1> QED BY <1>1, <1>2, <1>3, <1>4, SameWork, Bookkeeping

\* Stage 1 takes r into the decode batch, at once or after room was made.
LEMMA DecodeScheduled ==
  ASSUME EngineInv, scan # <<>>, budget > 0, Head(scan) \in Members(running),
         pc \in {"decode", "decode_retry"}, pc' = "decode", ScheduleDecode(Head(scan)),
         \A x \in Members(scan) : x \in Members(running) \/ state[x] = "preempted",
         UNCHANGED <<chunked, kvvars, reqvars, queues, need>>
  PROVE  EngineInv'
<1> DEFINE r == Head(scan)
<1>1. /\ scan' = Tail(scan) /\ reserved' = reserved + NextNeed(r) /\ budget' = budget - 1
      /\ decodes' = Append(decodes, r) /\ chunks' = chunks
  BY DEF ScheduleDecode
<1>2. /\ r \in Requests /\ Tail(scan) \in Seq(Requests)
      /\ Members(Tail(scan)) \subseteq Members(scan)
  BY Taking DEF EngineInv, EngineTypeOK, StepTypes
<1>3. NextNeed(r) \in Nat /\ reserved \in Nat /\ budget \in Nat /\ decodes \in Seq(Requests)
  BY <1>2, Counts DEF EngineInv, EngineTypeOK, StepTypes
<1>4. KVInv' /\ open' = open
  BY MemoryKept DEF EngineInv
<1>5. decodes' \in Seq(Requests) /\ Members(decodes)' = Members(decodes) \cup {r}
  <2> HIDE DEF r
  <2>1. decodes' = Append(decodes, r)
    BY <1>1
  <2>2. decodes \in Seq(Requests) /\ r \in Requests
    BY <1>2, <1>3
  <2>3. decodes' \in Seq(Requests) /\ Behind(decodes', decodes, r)
    BY <2>1, <2>2 DEF Behind
  <2>4. Members(decodes') = Members(decodes) \cup {r}
    BY <2>2, <2>3, Appended
  <2> QED BY <2>3, <2>4 DEF Members
<1>6. StepTypes'
  <2>1. reserved' \in Nat /\ budget' \in Nat
    BY <1>1, <1>3
  <2> QED BY <1>1, <1>2, <1>5, <2>1 DEF EngineInv, EngineTypeOK, StepTypes
<1>7. /\ state' = state /\ running' = running /\ out' = out /\ prompt' = prompt
      /\ Members(scan)' = Members(Tail(scan)) /\ Members(running)' = Members(running)
      /\ Members(chunks)' = Members(chunks)
  BY <1>1 DEF reqvars, queues, Members
<1>8. Scheduled' = Scheduled \cup {r}
  BY <1>5, <1>7 DEF Scheduled
<1>9. RunningLive' /\ ScheduledRuns' /\ ScanRuns'
  BY <1>1, <1>2, <1>7, <1>8
     DEF EngineInv, LoopInv, RunningLive, ScheduledRuns, ScanRuns, Scheduling, Sized
<1>10. ChunksFit'
  BY <1>7 DEF EngineInv, LoopInv, ChunksFit, Target
<1> QED BY <1>4, <1>6, <1>9, <1>10, Bookkeeping

\* Stage 1: a ready request joins the batch, is skipped, or asks for room.
LEMMA DecodeScanInv ==
  ASSUME EngineInv, DecodeScan
  PROVE  EngineInv'
<1> DEFINE r == Head(scan)
<1>1. /\ pc = "decode" /\ scan # <<>> /\ budget > 0
      /\ UNCHANGED <<chunked, reqvars, queues>>
  BY DEF DecodeScan
<1>2. /\ r \in Requests /\ r \in Members(scan) /\ Tail(scan) \in Seq(Requests)
      /\ Members(Tail(scan)) \subseteq Members(scan)
  BY <1>1, Taking DEF EngineInv, EngineTypeOK, StepTypes
<1>3. NextNeed(r) \in Nat /\ reserved \in Nat /\ budget \in Nat /\ decodes \in Seq(Requests)
  BY <1>2, Counts DEF EngineInv, EngineTypeOK, StepTypes
<1>4. CASE Skip /\ UNCHANGED <<kvvars, pc, need>>
  <2>1. /\ scan' = Tail(scan) /\ UNCHANGED <<budget, reserved, chunks, decodes, kvvars, pc, need>>
        /\ UNCHANGED <<reqvars, queues, chunks, decodes>>
    BY <1>1, <1>4 DEF Skip
  <2>2. KVInv' /\ open' = open
    BY <2>1, MemoryKept DEF EngineInv
  <2>3. StepTypes'
    BY <2>1, <1>2 DEF EngineInv, EngineTypeOK, StepTypes
  <2>4. RunningLive' /\ ScheduledRuns' /\ ScanRuns'
    <3>1. Members(scan)' = Members(Tail(scan))
      BY <2>1 DEF Members
    <3> QED BY <1>1, <1>2, <2>1, <3>1, SameWork
            DEF EngineInv, LoopInv, RunningLive, ScheduledRuns, ScanRuns, Scheduling, Sized
  <2> QED BY <1>1, <2>1, <2>2, <2>3, <2>4, SameWork, Bookkeeping
<1>5. CASE state[r] # "preempted" /\ ScheduleDecode(r) /\ UNCHANGED <<kvvars, pc, need>>
  <2>1. /\ scan' = Tail(scan) /\ reserved' = reserved + NextNeed(r) /\ budget' = budget - 1
        /\ decodes' = Append(decodes, r) /\ UNCHANGED <<chunks, kvvars, pc, need>>
    BY <1>5 DEF ScheduleDecode
  <2>2. r \in Members(running)
    BY <1>1, <1>2, <1>5 DEF EngineInv, LoopInv, ScanRuns
  <2>3. \A x \in Members(scan) : x \in Members(running) \/ state[x] = "preempted"
    BY <1>1 DEF EngineInv, LoopInv, ScanRuns
  <2>4. pc' = "decode"
    BY <1>1, <2>1
  <2> QED BY <1>1, <1>5, <2>1, <2>2, <2>3, <2>4, DecodeScheduled
<1>6. CASE MakeRoom(NextNeed(r) + reserved, "decode_room")
           /\ state[r] # "preempted" /\ UNCHANGED <<budget, reserved, chunks, decodes, scan>>
  <2>1. r \in Members(running)
    BY <1>1, <1>2, <1>6 DEF EngineInv, LoopInv, ScanRuns
  <2>2. NextNeed(r) + reserved \in Nat
    BY <1>3
  <2>3. KVInv' /\ open' = open /\ pc' = "decode_room" /\ need' \in Nat
    BY <1>6, <2>2, MakeRoomKept DEF EngineInv
  <2>4. UNCHANGED <<reqvars, queues, chunks, decodes>> /\ scan' = scan
    BY <1>1, <1>6
  <2>5. StepTypes'
    BY <1>6, <2>3 DEF EngineInv, EngineTypeOK, StepTypes
  <2>6. RunningLive' /\ ScheduledRuns' /\ ScanRuns'
    <3>1. Members(scan)' = Members(scan)
      BY <2>4 DEF Members
    <3> QED BY <1>1, <1>6, <2>1, <2>3, <2>4, <3>1, SameWork
            DEF EngineInv, LoopInv, RunningLive, ScheduledRuns, ScanRuns, Scheduling, Sized
  <2> QED BY <1>1, <2>3, <2>4, <2>5, <2>6, SameWork, Bookkeeping
<1> QED BY <1>4, <1>5, <1>6 DEF DecodeScan

\* After room was made the request decodes or skips this step; it was not the victim.
LEMMA DecodeRetryInv ==
  ASSUME EngineInv, DecodeRetry
  PROVE  EngineInv'
<1>1. /\ pc = "decode_retry" /\ pc' = "decode"
      /\ UNCHANGED <<chunked, kvvars, reqvars, queues, need>>
      /\ ScheduleDecode(Head(scan)) \/ Skip
  BY DEF DecodeRetry
<1>2. /\ scan # <<>> /\ Head(scan) \in Members(running) /\ budget > 0
      /\ \A x \in Members(scan) : x \in Members(running) \/ state[x] = "preempted"
  BY <1>1 DEF EngineInv, LoopInv, ScanRuns, Sized
<1>3. CASE ScheduleDecode(Head(scan))
  BY <1>1, <1>2, <1>3, DecodeScheduled
<1>4. CASE Skip
  <2>1. /\ scan' = Tail(scan) /\ UNCHANGED <<budget, reserved, chunks, decodes>>
        /\ UNCHANGED <<reqvars, queues, chunks, decodes>>
    BY <1>1, <1>4 DEF Skip
  <2>2. Tail(scan) \in Seq(Requests) /\ Members(Tail(scan)) \subseteq Members(scan)
    BY <1>2, Taking DEF EngineInv, EngineTypeOK, StepTypes
  <2>3. KVInv' /\ open' = open
    BY <1>1, MemoryKept DEF EngineInv
  <2>4. StepTypes'
    BY <1>1, <2>1, <2>2 DEF EngineInv, EngineTypeOK, StepTypes
  <2>5. RunningLive' /\ ScheduledRuns' /\ ScanRuns'
    <3>1. Members(scan)' = Members(Tail(scan))
      BY <2>1 DEF Members
    <3> QED BY <1>1, <1>2, <2>1, <2>2, <3>1, SameWork
            DEF EngineInv, LoopInv, RunningLive, ScheduledRuns, ScanRuns, Scheduling, Sized
  <2> QED BY <1>1, <2>1, <2>3, <2>4, <2>5, SameWork, Bookkeeping
<1> QED BY <1>1, <1>3, <1>4

\* _make_room gives up or has enough: who asked still runs.
LEMMA RoomMadeInv ==
  ASSUME EngineInv, RoomMade
  PROVE  EngineInv'
<1>1. /\ UNCHANGED <<chunked, kvvars, reqvars, queues>> /\ need' = 0
      /\ UNCHANGED <<reqvars, queues, chunks, decodes>> /\ UNCHANGED <<budget, reserved, scan>>
      /\ \/ pc = "decode_room" /\ pc' = "decode_retry"
         \/ pc = "progress_room" /\ pc' = "progress_retry"
  BY DEF RoomMade, RoomRetry
<1>2. KVInv' /\ open' = open
  BY <1>1, MemoryKept DEF EngineInv
<1>3. StepTypes'
  BY <1>1 DEF EngineInv, EngineTypeOK, StepTypes
<1>4. RunningLive' /\ ScheduledRuns' /\ ScanRuns'
  <2>1. Members(scan)' = Members(scan)
    BY <1>1 DEF Members
  <2> QED BY <1>1, <2>1, SameWork
          DEF EngineInv, LoopInv, RunningLive, ScheduledRuns, ScanRuns, Scheduling, Sized
<1> QED BY <1>1, <1>2, <1>3, <1>4, SameWork, Bookkeeping

\* From one stage of schedule() to the next.
LEMMA StageDoneInv ==
  ASSUME EngineInv, DecodesDone \/ PrefillsDone \/ AdmitRefuse \/ AdmitDone \/ NothingToForce
  PROVE  EngineInv'
<1>1. /\ UNCHANGED <<chunked, kvvars, reqvars, queues>> /\ UNCHANGED <<budget, reserved, need>>
      /\ UNCHANGED <<reqvars, queues, chunks, decodes>>
      /\ \/ pc = "decode" /\ pc' = "prefill" /\ scan' = running
         \/ pc = "prefill" /\ pc' = "admit" /\ scan' = <<>>
         \/ pc = "admit" /\ pc' = "progress" /\ scan' = scan
         \/ pc = "progress" /\ pc' = "execute" /\ scan' = scan
  BY DEF DecodesDone, PrefillsDone, AdmitRefuse, AdmitDone, NothingToForce, locals
<1>2. KVInv' /\ open' = open
  BY <1>1, MemoryKept DEF EngineInv
<1>3. StepTypes'
  <2>1. scan' \in Seq(Requests)
    <3>1. scan \in Seq(Requests) /\ running \in Seq(Requests) /\ <<>> \in Seq(Requests)
      BY DEF EngineInv, EngineTypeOK, StepTypes, RequestTypes
    <3> QED BY <1>1, <3>1
  <2> QED BY <1>1, <2>1 DEF EngineInv, EngineTypeOK, StepTypes
<1>4. RunningLive' /\ ScheduledRuns' /\ ScanRuns'
  <2>1. pc' = "prefill" => Members(scan)' = Members(running)
    BY <1>1 DEF Members
  <2> QED BY <1>1, <2>1, SameWork
          DEF EngineInv, LoopInv, RunningLive, ScheduledRuns, ScanRuns, Scheduling, Sized
<1> QED BY <1>1, <1>2, <1>3, <1>4, SameWork, Bookkeeping

\* The stall branch evicts at least one block and schedules nothing.
LEMMA BreakStallInv ==
  ASSUME EngineInv, BreakStall
  PROVE  EngineInv'
<1> DEFINE n == Max2(1, BlocksFor(computed[Head(waiting)] + 1) - NumFree)
<1>1. /\ pc = "progress" /\ pc' = "execute" /\ waiting # <<>> /\ Evict(n)
      /\ UNCHANGED <<chunked, reqvars, queues>>
      /\ UNCHANGED <<reqvars, queues, chunks, decodes>>
      /\ UNCHANGED <<budget, reserved, scan, need>>
  BY DEF BreakStall, locals
<1>2. n \in Nat
  <2>1. Head(waiting) \in Requests
    BY <1>1, Taking DEF EngineInv, EngineTypeOK, RequestTypes
  <2>2. computed[Head(waiting)] + 1 \in Nat
    BY <2>1 DEF EngineInv, EngineTypeOK, RequestTypes
  <2>3. BlocksFor(computed[Head(waiting)] + 1) \in Nat /\ NumFree \in Nat
    BY <2>1, <2>2, Counts DEF EngineInv
  <2> QED BY <2>3 DEF Max2
<1> HIDE DEF n
<1>3. KVInv' /\ open' = open
  BY <1>1, <1>2, EvictKept DEF EngineInv
<1>4. StepTypes'
  BY <1>1 DEF EngineInv, EngineTypeOK, StepTypes
<1>5. RunningLive' /\ ScheduledRuns' /\ ScanRuns'
  BY <1>1, SameWork DEF EngineInv, LoopInv, RunningLive, ScheduledRuns, ScanRuns, Scheduling, Sized
<1> QED BY <1>1, <1>3, <1>4, <1>5, SameWork, Bookkeeping

\* The eviction loop runs at any place of the step: it changes no table.
LEMMA CacheEvictionInv ==
  ASSUME EngineInv, CacheEviction
  PROVE  EngineInv'
<1>1. /\ UNCHANGED <<chunked, reqvars, queues>> /\ pc' = pc
      /\ UNCHANGED <<reqvars, queues, chunks, decodes>>
      /\ UNCHANGED <<budget, reserved, scan, need>>
      /\ EvictOne \/ EvictNoMore
  BY DEF CacheEviction, locals
<1>2. KVInv' /\ open' = open
  <2>1. KVInv'
    BY <1>1, EvictOneInv, EvictInv, 0 \in Nat DEF EngineInv
  <2> QED BY <1>1, <2>1 DEF EvictOne, EvictNoMore
<1>3. StepTypes'
  BY <1>1 DEF EngineInv, EngineTypeOK, StepTypes
<1>4. RunningLive' /\ ScheduledRuns' /\ ScanRuns'
  <2>1. Members(scan)' = Members(scan)
    BY <1>1 DEF Members
  <2> QED BY <1>1, <2>1, SameWork DEF EngineInv, LoopInv, RunningLive, ScheduledRuns, ScanRuns
<1> QED BY <1>1, <1>2, <1>3, <1>4, SameWork, Bookkeeping

\* The forced decode of the oldest running request asks for room.
LEMMA AdvanceHeadInv ==
  ASSUME EngineInv, AdvanceHead
  PROVE  EngineInv'
<1> DEFINE r == Head(running)
<1>1. /\ pc = "progress" /\ running # <<>> /\ scan' = <<r>>
      /\ UNCHANGED <<chunked, reqvars, queues>> /\ UNCHANGED <<budget, reserved>>
      /\ UNCHANGED <<reqvars, queues, chunks, decodes>>
      /\ \/ MakeRoom(NextNeed(r), "progress_room")
         \/ pc' = "progress_retry" /\ UNCHANGED <<kvvars, need>>
  BY DEF AdvanceHead, HeadMayDecode
<1>2. r \in Requests /\ r \in Members(running)
  BY <1>1, Taking DEF EngineInv, EngineTypeOK, RequestTypes
<1>3. NextNeed(r) \in Nat
  BY <1>2, Counts DEF EngineInv
<1>4. /\ KVInv' /\ open' = open /\ pc' \in {"progress_room", "progress_retry"}
      /\ need' \in Nat
  <2>1. CASE MakeRoom(NextNeed(r), "progress_room")
    BY <1>3, <2>1, MakeRoomKept DEF EngineInv
  <2>2. CASE pc' = "progress_retry" /\ UNCHANGED <<kvvars, need>>
    BY <2>2, MemoryKept DEF EngineInv, EngineTypeOK, StepTypes
  <2> QED BY <1>1, <2>1, <2>2
<1> HIDE DEF r
<1>5. /\ scan' \in Seq(Requests) /\ scan' # <<>> /\ Head(scan') = r
      /\ Members(scan)' = {r}
  <2>1. /\ scan' \in Seq(Requests) /\ scan' # <<>> /\ Head(scan') = r
        /\ DOMAIN scan' = {1} /\ scan'[1] = r
    BY <1>1, <1>2
  <2> QED BY <2>1 DEF Members
<1>6. StepTypes'
  BY <1>1, <1>4, <1>5 DEF EngineInv, EngineTypeOK, StepTypes
<1>7. RunningLive' /\ ScheduledRuns' /\ ScanRuns'
  BY <1>1, <1>2, <1>4, <1>5, SameWork
     DEF EngineInv, LoopInv, RunningLive, ScheduledRuns, ScanRuns, Scheduling, Sized
<1> QED BY <1>1, <1>4, <1>6, <1>7, SameWork, Bookkeeping

\* What the decode batch may become without a step writing anything.
LEMMA BatchChosen ==
  ASSUME EngineInv, UNCHANGED <<chunked, kvvars, reqvars, queues>>,
         UNCHANGED <<budget, reserved, chunks, need>>,
         decodes' \in Seq(Requests), Members(decodes') \subseteq Members(running),
         scan' \in Seq(Requests), pc' \in {"execute", "batch"},
         pc' = "batch" => Members(scan') \subseteq Members(running) /\ chunks = <<>>
  PROVE  EngineInv'
<1>1. KVInv' /\ open' = open
  BY MemoryKept DEF EngineInv
<1>2. StepTypes'
  BY DEF EngineInv, EngineTypeOK, StepTypes
<1>3. /\ state' = state /\ running' = running /\ out' = out /\ prompt' = prompt
      /\ Members(running)' = Members(running) /\ Members(chunks)' = Members(chunks)
      /\ Members(scan)' = Members(scan') /\ Members(decodes)' = Members(decodes')
  BY DEF reqvars, queues, Members
<1>4. Scheduled' \subseteq Members(running)
  BY <1>3 DEF Scheduled, EngineInv, LoopInv, ScheduledRuns
<1>5. RunningLive' /\ ScheduledRuns' /\ ScanRuns'
  BY <1>3, <1>4 DEF EngineInv, LoopInv, RunningLive, ScheduledRuns, ScanRuns, Scheduling, Sized
<1>6. ChunksFit'
  BY <1>3 DEF EngineInv, LoopInv, ChunksFit, Target
<1> QED BY <1>1, <1>2, <1>5, <1>6, Bookkeeping

\* The forced decode is scheduled, or nothing is.
LEMMA ProgressRetryInv ==
  ASSUME EngineInv, ProgressRetry
  PROVE  EngineInv'
<1>1. /\ pc = "progress_retry" /\ pc' = "execute" /\ scan' = <<>>
      /\ UNCHANGED <<chunked, kvvars, reqvars, queues>>
      /\ UNCHANGED <<budget, reserved, chunks, need>>
      /\ decodes' = scan \/ decodes' = decodes
  BY DEF ProgressRetry
<1>2. /\ decodes \in Seq(Requests) /\ scan \in Seq(Requests)
      /\ Members(decodes) \subseteq Members(running) /\ Members(scan) \subseteq Members(running)
  BY <1>1 DEF EngineInv, EngineTypeOK, StepTypes, LoopInv, ScheduledRuns, Scheduled, ScanRuns, Sized
<1>3. decodes' \in Seq(Requests) /\ Members(decodes') \subseteq Members(running)
  BY <1>1, <1>2
<1>4. scan' \in Seq(Requests) /\ pc' \in {"execute", "batch"} /\ pc' # "batch"
  BY <1>1
<1>5. /\ UNCHANGED <<chunked, kvvars, reqvars, queues>>
      /\ UNCHANGED <<budget, reserved, chunks, need>>
  BY <1>1
<1> QED BY <1>3, <1>4, <1>5, BatchChosen

\* The batch is what is left of the scheduled decodes.
LEMMA BeginBatchInv ==
  ASSUME EngineInv, BeginBatch
  PROVE  EngineInv'
<1> DEFINE T == {r \in open : state[r] = "running"}
<1>1. /\ pc = "execute" /\ chunks = <<>> /\ pc' = "batch"
      /\ decodes' = Keeping(decodes, T) /\ scan' = decodes'
      /\ UNCHANGED <<chunked, kvvars, reqvars, queues>>
      /\ UNCHANGED <<budget, reserved, chunks, need>>
  BY DEF BeginBatch
<1> HIDE DEF T
<1>2. decodes \in Seq(Requests) /\ Members(decodes) \subseteq Members(running)
  BY DEF EngineInv, EngineTypeOK, StepTypes, LoopInv, ScheduledRuns, Scheduled
<1>3. decodes' \in Seq(Requests) /\ Members(decodes') \subseteq Members(running)
  BY <1>1, <1>2, KeepingFacts
<1> QED BY <1>1, <1>3, BatchChosen

\* The retire loop skips whoever goes on; at its end nobody over is left in running.
LEMMA RetireLoopInv ==
  ASSUME EngineInv, BeginRetire \/ RetireSkip \/ EndStep
  PROVE  EngineInv'
<1>1. /\ UNCHANGED <<chunked, kvvars, reqvars, queues>> /\ need' = need
      /\ UNCHANGED <<reqvars, queues, chunks, decodes>>
      /\ budget' \in Nat /\ reserved' \in Nat
      /\ \/ pc = "batch" /\ decodes = <<>> /\ pc' = "retire" /\ scan' = running
         \/ /\ pc = "retire" /\ pc' = "retire" /\ scan # <<>> /\ scan' = Tail(scan)
            /\ state[Head(scan)] \notin Over
         \/ pc = "retire" /\ scan = <<>> /\ pc' = "idle" /\ scan' = scan
  BY DEF BeginRetire, RetireSkip, EndStep, EngineInv, EngineTypeOK, StepTypes
<1>2. KVInv' /\ open' = open
  BY <1>1, MemoryKept DEF EngineInv
<1>3. /\ scan' \in Seq(Requests)
      /\ scan # <<>> => Members(scan) = Members(Tail(scan)) \cup {Head(scan)}
      /\ scan = <<>> => Members(scan) = {}
  <2>1. scan \in Seq(Requests) /\ running \in Seq(Requests)
    BY DEF EngineInv, EngineTypeOK, RequestTypes, StepTypes
  <2>2. scan # <<>> => /\ Members(scan) = Members(Tail(scan)) \cup {Head(scan)}
                       /\ Tail(scan) \in Seq(Requests)
    BY <2>1, Taking
  <2>3. scan = <<>> => Members(scan) = {}
    BY DEF Members
  <2> QED BY <1>1, <2>1, <2>2, <2>3
<1>4. StepTypes'
  BY <1>1, <1>3 DEF EngineInv, EngineTypeOK, StepTypes
<1>5. RunningLive' /\ ScheduledRuns' /\ ScanRuns'
  <2>1. Members(scan)' = Members(scan')
    BY DEF Members
  <2>2. pc \in {"batch", "retire"} => chunks = <<>>
    BY DEF EngineInv, LoopInv, ScheduledRuns
  <2>3. ScheduledRuns'
    BY <1>1, <2>2, SameWork DEF EngineInv, LoopInv, ScheduledRuns
  <2>4. RunningLive'
    BY <1>1, <1>3, <2>1, SameWork DEF EngineInv, LoopInv, RunningLive, Scheduling
  <2>5. ScanRuns'
    BY <1>1, SameWork DEF ScanRuns, Sized
  <2> QED BY <2>3, <2>4, <2>5
<1> QED BY <1>1, <1>2, <1>4, <1>5, SameWork, Bookkeeping

\* What one more chunk costs.
LEMMA ChunkScheduled ==
  ASSUME KVInv, EngineTypeOK, NEW r \in Requests, ScheduleChunk(r), Take(r) # 0
  PROVE  /\ budget' \in Nat /\ reserved' \in Nat /\ chunks' \in Seq(PrefillChunk)
         /\ \E c \in PrefillChunk : /\ c.req = r /\ c.start + c.take <= Target(r)
                                  /\ Members(chunks') = Members(chunks) \cup {c}
<1> DEFINE c == [req |-> r, start |-> computed[r], take |-> Take(r),
                 final |-> computed[r] + Take(r) >= Target(r)]
<1>1. /\ chunks' = Append(chunks, c) /\ budget' = budget - Take(r)
      /\ reserved' = reserved + BlocksNeeded(r, computed[r] + Take(r))
  BY DEF ScheduleChunk
<1>2. /\ Take(r) \in Nat /\ Take(r) <= budget /\ computed[r] \in Nat
      /\ computed[r] + Take(r) <= Target(r)
      /\ BlocksNeeded(r, computed[r] + Take(r)) \in Nat
  BY TakeBounds
<1>3. budget \in Nat /\ reserved \in Nat /\ chunks \in Seq(PrefillChunk)
  BY DEF EngineTypeOK, StepTypes
<1>4. budget' \in Nat /\ reserved' \in Nat
  BY <1>1, <1>2, <1>3
<1>5. c \in PrefillChunk /\ c.req = r /\ c.start + c.take <= Target(r)
  BY <1>2 DEF PrefillChunk
<1> HIDE DEF c
<1>6. chunks' \in Seq(PrefillChunk) /\ Behind(chunks', chunks, c)
  BY <1>1, <1>3, <1>5 DEF Behind
<1>7. Members(chunks') = Members(chunks) \cup {c}
  BY <1>3, <1>5, <1>6, Appended
<1> QED BY <1>4, <1>5, <1>6, <1>7

\* Stage 2: a running request that was not preempted gets its next chunk.
LEMMA PrefillScanInv ==
  ASSUME EngineInv, PrefillScan
  PROVE  EngineInv'
<1> DEFINE r == Head(scan)
<1>1. /\ pc = "prefill" /\ scan # <<>> /\ scan' = Tail(scan) /\ decodes' = decodes
      /\ UNCHANGED <<chunked, kvvars, reqvars, queues, pc, need>>
      /\ \/ UNCHANGED <<budget, reserved, chunks>>
         \/ state[r] # "preempted" /\ Take(r) # 0 /\ ScheduleChunk(r)
  BY DEF PrefillScan, Skip
<1>2. KVInv' /\ open' = open
  BY <1>1, MemoryKept DEF EngineInv
<1>3. /\ r \in Requests /\ r \in Members(scan) /\ Tail(scan) \in Seq(Requests)
      /\ Members(Tail(scan)) \subseteq Members(scan)
  BY <1>1, Taking DEF EngineInv, EngineTypeOK, StepTypes
<1> HIDE DEF r
<1>4. /\ \A x \in Members(scan) : x \in Members(running) \/ state[x] = "preempted"
      /\ Scheduled \subseteq Members(running)
      /\ \A x \in Members(chunks) : x.start + x.take <= Target(x.req)
  BY <1>1 DEF EngineInv, LoopInv, ScanRuns, ScheduledRuns, ChunksFit
<1>5. /\ state' = state /\ running' = running /\ out' = out /\ prompt' = prompt
      /\ Members(running)' = Members(running) /\ Members(chunks)' = Members(chunks')
      /\ Members(scan)' = Members(Tail(scan)) /\ Members(decodes)' = Members(decodes)
      /\ \A x : Target(x)' = Target(x)
  BY <1>1 DEF reqvars, queues, Members, Target
<1>6. /\ budget' \in Nat /\ reserved' \in Nat /\ chunks' \in Seq(PrefillChunk)
      /\ \A x \in Members(chunks') : x.req \in Members(running) /\ x.start + x.take <= Target(x.req)
  <2>1. CASE UNCHANGED <<budget, reserved, chunks>>
    BY <1>4, <2>1 DEF EngineInv, EngineTypeOK, StepTypes, Scheduled
  <2>2. CASE state[r] # "preempted" /\ Take(r) # 0 /\ ScheduleChunk(r)
    <3>1. r \in Members(running)
      BY <1>3, <1>4, <2>2
    <3>2. /\ budget' \in Nat /\ reserved' \in Nat /\ chunks' \in Seq(PrefillChunk)
          /\ \E c \in PrefillChunk : /\ c.req = r /\ c.start + c.take <= Target(r)
                                   /\ Members(chunks') = Members(chunks) \cup {c}
      BY <1>3, <2>2, ChunkScheduled DEF EngineInv
    <3> QED BY <1>4, <3>1, <3>2 DEF Scheduled
  <2> QED BY <1>1, <2>1, <2>2
<1>7. StepTypes'
  BY <1>1, <1>3, <1>6 DEF EngineInv, EngineTypeOK, StepTypes
<1>8. Scheduled' \subseteq Members(running)
  BY <1>4, <1>5, <1>6 DEF Scheduled
<1>9. RunningLive' /\ ScheduledRuns' /\ ScanRuns'
  BY <1>1, <1>3, <1>4, <1>5, <1>8
     DEF EngineInv, LoopInv, RunningLive, ScheduledRuns, ScanRuns, Scheduling, Sized
<1>10. ChunksFit'
  BY <1>5, <1>6 DEF ChunksFit
<1> QED BY <1>1, <1>2, <1>7, <1>9, <1>10, Bookkeeping

-----------------------------------------------------------------------------
(* The steps that move requests between the queues.                        *)

\* list.remove() of scheduler.py.
LEMMA WithoutFacts ==
  ASSUME NEW q \in Seq(Requests), NEW r
  PROVE  /\ Without(q, r) \in Seq(Requests) /\ Len(Without(q, r)) <= Len(q)
         /\ Members(Without(q, r)) = Members(q) \ {r}
         /\ Distinct(q) => Distinct(Without(q, r))
<1>1. Members(q) \subseteq Requests
  BY MembersOf
<1>2. Members(q) \cap (Requests \ {r}) = Members(q) \ {r}
  BY <1>1
<1> QED BY <1>2, KeepingFacts DEF Without

\* release() closes one sequence and keeps the accounting.
LEMMA ReleaseKept ==
  ASSUME KVInv, NEW r \in Requests, Release(r)
  PROVE  KVInv' /\ open' = open \ {r}
<1>1. KVInv'
  BY ReleaseInv DEF Requests
<1> QED BY <1>1 DEF Release

\* A queue and its parts: what holds of every queue the engine keeps.
LEMMA Parts ==
  ASSUME EngineInv
  PROVE  /\ RequestTypes /\ StepTypes
         /\ waiting \in Seq(Requests) /\ running \in Seq(Requests) /\ scan \in Seq(Requests)
         /\ decodes \in Seq(Requests) /\ chunks \in Seq(PrefillChunk)
         /\ Members(waiting) \subseteq Requests /\ Members(running) \subseteq Requests
         /\ \A r \in Members(waiting) :
              state[r] \in {"waiting", "preempted"} /\ r \notin Members(running)
         /\ \A r \in Requests : state[r] \in {"waiting", "preempted"} => r \in Members(waiting)
         /\ \A r \in Requests : state[r] \in {"prefill", "running"} => r \in Members(running)
         /\ \A r \in open : r \in Members(waiting) \/ r \in Members(running)
         /\ Distinct(waiting) /\ Distinct(running)
         /\ Len(running) <= MaxNumSeqs /\ Len(running) \in Nat
<1>1. RequestTypes /\ StepTypes /\ EngineTypeOK
  BY DEF EngineInv, EngineTypeOK
<1>2. /\ waiting \in Seq(Requests) /\ running \in Seq(Requests) /\ scan \in Seq(Requests)
      /\ decodes \in Seq(Requests) /\ chunks \in Seq(PrefillChunk)
  BY <1>1 DEF RequestTypes, StepTypes
<1> QED BY <1>1, <1>2, QueueOfRequests DEF EngineInv, QueuesConsistent

\* The queues stay consistent when the members of each change as its states do.
LEMMA QueuesKept ==
  ASSUME state' \in [Requests -> {"new", "waiting", "prefill", "running", "preempted"} \cup Over],
         Distinct(waiting'), Distinct(running'), Len(running') <= MaxNumSeqs,
         Members(waiting') \subseteq Requests,
         \A r \in Members(waiting') :
           state'[r] \in {"waiting", "preempted"} /\ r \notin Members(running'),
         \A r \in Requests : state'[r] \in {"waiting", "preempted"} => r \in Members(waiting'),
         \A r \in Requests : state'[r] \in {"prefill", "running"} => r \in Members(running'),
         \A r \in open' : r \in Members(waiting') \/ r \in Members(running'),
         pc' = "idle" => \A r \in Members(running') : state'[r] \notin Over
  PROVE  QueuesConsistent'
<1>1. Members(waiting)' = Members(waiting') /\ Members(running)' = Members(running')
  BY DEF Members
<1>2. Distinct(waiting)' /\ Distinct(running)'
  BY DEF Distinct
<1> QED BY <1>1, <1>2 DEF QueuesConsistent

\* A new request was in no queue: one that is over left both.
LEMMA AddRequestInv ==
  ASSUME EngineInv, NEW r \in Requests, NEW p \in Prompts, NEW m \in OutLimits, AddRequest(r, p, m)
  PROVE  EngineInv'
<1>1. /\ pc = "idle" /\ pc' = pc /\ state[r] \in Over \cup {"new"}
      /\ state' = [state EXCEPT ![r] = "waiting"] /\ prompt' = [prompt EXCEPT ![r] = p]
      /\ limit' = [limit EXCEPT ![r] = m] /\ out' = [out EXCEPT ![r] = <<>>]
      /\ computed' = [computed EXCEPT ![r] = 0] /\ waiting' = Append(waiting, r)
      /\ UNCHANGED <<chunked, kvvars, running>>
      /\ UNCHANGED <<budget, reserved, chunks, decodes, scan, need>>
  BY DEF AddRequest, locals
<1>2. KVInv' /\ open' = open
  BY <1>1, MemoryKept DEF EngineInv
<1>3. RequestTypes /\ StepTypes
  BY Parts
<1>4. r \notin Members(waiting) /\ r \notin Members(running)
  BY <1>1, Parts DEF EngineInv, LoopInv, RunningLive, Over
<1>5. waiting' \in Seq(Requests) /\ Behind(waiting', waiting, r)
  BY <1>1, <1>3 DEF Behind, RequestTypes
<1>6. Members(waiting') = Members(waiting) \cup {r} /\ Distinct(waiting')
  BY <1>4, <1>5, Parts, Appended
<1>7. RequestTypes'
  <2>1. limit' \in [Requests -> Nat \ {0}] /\ out' \in [Requests -> Seq(Tokens)]
    BY <1>1, <1>3, EngineAssumption DEF RequestTypes
  <2> QED BY <1>1, <1>3, <1>5, <2>1 DEF RequestTypes
<1>8. StepTypes'
  BY <1>1, <1>3 DEF StepTypes
<1>9. \A x \in Requests : state'[x] = IF x = r THEN "waiting" ELSE state[x]
  BY <1>1, <1>3 DEF RequestTypes
<1>10. \A x \in Members(running) : state[x] \notin Over /\ state[x] # "new"
  BY <1>1 DEF EngineInv, LoopInv, RunningLive
<1>11. QueuesConsistent'
  <2>1. /\ state' \in [Requests -> {"new", "waiting", "prefill", "running", "preempted"} \cup Over]
        /\ running' = running
    BY <1>1, <1>7 DEF RequestTypes
  <2>2. /\ Members(waiting') \subseteq Requests /\ Members(running') = Members(running)
        /\ Distinct(running') /\ Len(running') <= MaxNumSeqs
    BY <1>6, <2>1, Parts
  <2>3. \A x \in Members(waiting') :
          state'[x] \in {"waiting", "preempted"} /\ x \notin Members(running')
    BY <1>4, <1>6, <1>9, <2>2, Parts
  <2>4. \A x \in Requests : /\ state'[x] \in {"waiting", "preempted"} => x \in Members(waiting')
                            /\ state'[x] \in {"prefill", "running"} => x \in Members(running')
    BY <1>6, <1>9, <2>2, Parts
  <2>5. \A x \in open' : x \in Members(waiting') \/ x \in Members(running')
    BY <1>2, <1>6, <2>2, Parts
  <2>6. \A x \in Members(running') : state'[x] \notin Over
    BY <1>4, <1>9, <1>10, <2>2, Parts
  <2> QED BY <1>6, <2>1, <2>2, <2>3, <2>4, <2>5, <2>6, QueuesKept
<1>12. Submitted'
  BY <1>1, <1>3, <1>9 DEF EngineInv, LoopInv, Submitted, RequestTypes
<1>13. /\ Members(running)' = Members(running) /\ Members(chunks)' = Members(chunks)
       /\ Scheduled' = Scheduled
  BY <1>1 DEF Members, Scheduled
<1>14. RunningLive' /\ ScheduledRuns' /\ ScanRuns'
  BY <1>1, <1>4, <1>9, <1>10, <1>13, Parts
     DEF EngineInv, LoopInv, RunningLive, ScheduledRuns, ScanRuns, Sized
<1>15. ChunksFit'
  <2>1. Members(chunks) = {}
    BY <1>1 DEF EngineInv, LoopInv, ScheduledRuns, Members
  <2> QED BY <1>13, <2>1 DEF ChunksFit
<1> QED BY <1>2, <1>7, <1>8, <1>11, <1>12, <1>14, <1>15 DEF EngineInv, EngineTypeOK, LoopInv

\* An abort takes the request out of both queues and closes its KV.
LEMMA AbortRequestInv ==
  ASSUME EngineInv, NEW r \in Requests, AbortRequest(r)
  PROVE  EngineInv'
<1>1. /\ pc = "idle" /\ pc' = pc /\ state' = [state EXCEPT ![r] = "aborted"]
      /\ waiting' = Without(waiting, r) /\ running' = Without(running, r)
      /\ IF r \in open THEN Release(r) ELSE UNCHANGED kvvars
      /\ UNCHANGED <<chunked, prompt, limit, out, computed>>
      /\ UNCHANGED <<budget, reserved, chunks, decodes, scan, need>>
      /\ state[r] # "new"
  BY DEF AbortRequest, locals
<1>2. KVInv' /\ open' = open \ {r}
  BY <1>1, MemoryKept, ReleaseKept DEF EngineInv
<1>3. RequestTypes /\ StepTypes
  BY Parts
<1>4. /\ waiting' \in Seq(Requests) /\ running' \in Seq(Requests)
      /\ Members(waiting') = Members(waiting) \ {r} /\ Members(running') = Members(running) \ {r}
      /\ Distinct(waiting') /\ Distinct(running') /\ Len(running') <= Len(running)
      /\ Len(running') \in Nat
  BY <1>1, Parts, WithoutFacts
<1>5. \A x \in Requests : state'[x] = IF x = r THEN "aborted" ELSE state[x]
  BY <1>1, <1>3 DEF RequestTypes
<1>6. RequestTypes'
  BY <1>1, <1>3, <1>4 DEF RequestTypes, Over
<1>7. StepTypes'
  BY <1>1, <1>3 DEF StepTypes
<1>8. \A x \in Members(running) : state[x] \notin Over /\ state[x] # "new"
  BY <1>1 DEF EngineInv, LoopInv, RunningLive
<1>9. QueuesConsistent'
  <2>1. state' \in [Requests -> {"new", "waiting", "prefill", "running", "preempted"} \cup Over]
    BY <1>6 DEF RequestTypes
  <2>2. Len(running') <= MaxNumSeqs
    BY <1>4, Parts, EngineAssumption
  <2> QED BY <1>2, <1>4, <1>5, <1>8, <2>1, <2>2, Parts, QueuesKept
<1>10. Submitted'
  BY <1>1, <1>5 DEF EngineInv, LoopInv, Submitted
<1>11. chunks = <<>> /\ decodes = <<>>
  BY <1>1 DEF EngineInv, LoopInv, ScheduledRuns
<1>12. /\ Members(chunks)' = {} /\ Scheduled' = {} /\ Members(running)' = Members(running')
  BY <1>1, <1>11 DEF Members, Scheduled
<1>13. RunningLive' /\ ScheduledRuns' /\ ScanRuns'
  BY <1>1, <1>4, <1>5, <1>8, <1>11, <1>12, Parts DEF RunningLive, ScheduledRuns, ScanRuns, Sized
<1>14. ChunksFit'
  BY <1>12 DEF ChunksFit
<1> QED BY <1>2, <1>6, <1>7, <1>9, <1>10, <1>13, <1>14 DEF EngineInv, EngineTypeOK, LoopInv

\* A victim is running, not committed to this step and not the one asking: it moves
\* to the head of the waiting queue, and every loop variable keeps its meaning.
LEMMA PreemptNewestInv ==
  ASSUME EngineInv, PreemptNewest
  PROVE  EngineInv'
<1>1. /\ pc \in {"decode_room", "progress_room"} /\ pc' = pc
      /\ UNCHANGED <<chunked, prompt, limit, out>>
      /\ UNCHANGED <<budget, reserved, chunks, decodes, scan, need>>
  BY DEF PreemptNewest, locals
<1>2. PICK i \in Victims :
        /\ Release(running[i])
        /\ computed' = [computed EXCEPT ![running[i]] = 0]
        /\ state' = [state EXCEPT ![running[i]] = "preempted"]
        /\ running' = Without(running, running[i])
        /\ waiting' = <<running[i]>> \o waiting
  BY DEF PreemptNewest
<1> DEFINE v == running[i]
<1>3. /\ v \in Members(running) /\ v \in Requests /\ v \notin Scheduled /\ v # Head(scan)
  BY <1>2, Parts DEF Victims, Members
<1>4. /\ Release(v) /\ computed' = [computed EXCEPT ![v] = 0]
      /\ state' = [state EXCEPT ![v] = "preempted"]
      /\ running' = Without(running, v) /\ waiting' = <<v>> \o waiting
  BY <1>2
<1> HIDE DEF v
<1>5. KVInv' /\ open' = open \ {v}
  BY <1>3, <1>4, ReleaseKept DEF EngineInv
<1>6. RequestTypes /\ StepTypes
  BY Parts
<1>7. /\ running' \in Seq(Requests) /\ Members(running') = Members(running) \ {v}
      /\ Distinct(running') /\ Len(running') <= Len(running) /\ Len(running') \in Nat
  BY <1>4, Parts, WithoutFacts
<1>8. v \notin Members(waiting)
  BY <1>3, Parts
<1>9. waiting' \in Seq(Requests) /\ Before(waiting', waiting, v)
  BY <1>3, <1>4, <1>6 DEF Before, RequestTypes
<1>10. Members(waiting') = Members(waiting) \cup {v} /\ Distinct(waiting')
  BY <1>3, <1>8, <1>9, Parts, Prepended
<1>11. \A x \in Requests : state'[x] = IF x = v THEN "preempted" ELSE state[x]
  BY <1>4, <1>6 DEF RequestTypes
<1>12. RequestTypes'
  BY <1>1, <1>4, <1>6, <1>7, <1>9 DEF RequestTypes
<1>13. StepTypes'
  BY <1>1, <1>6 DEF StepTypes
<1>14. QueuesConsistent'
  <2>1. state' \in [Requests -> {"new", "waiting", "prefill", "running", "preempted"} \cup Over]
    BY <1>12 DEF RequestTypes
  <2>2. Len(running') <= MaxNumSeqs /\ Members(waiting') \subseteq Requests
    BY <1>3, <1>7, <1>10, Parts, EngineAssumption
  <2>3. \A x \in Members(waiting') :
          state'[x] \in {"waiting", "preempted"} /\ x \notin Members(running')
    BY <1>7, <1>10, <1>11, <2>2, Parts
  <2>4. \A x \in Requests : /\ state'[x] \in {"waiting", "preempted"} => x \in Members(waiting')
                            /\ state'[x] \in {"prefill", "running"} => x \in Members(running')
    BY <1>7, <1>10, <1>11, Parts
  <2>5. \A x \in open' : x \in Members(waiting') \/ x \in Members(running')
    BY <1>5, <1>7, <1>10, Parts
  <2>6. pc' # "idle"
    BY <1>1
  <2> QED BY <1>7, <1>10, <2>1, <2>2, <2>3, <2>4, <2>5, <2>6, QueuesKept
<1>15. Submitted'
  BY <1>1, <1>3, <1>11 DEF EngineInv, LoopInv, Submitted, RunningLive
<1>16. /\ Members(running)' = Members(running') /\ Members(chunks)' = Members(chunks)
       /\ Members(scan)' = Members(scan) /\ Scheduled' = Scheduled /\ scan' = scan
       /\ \A x : Target(x)' = Target(x)
  BY <1>1 DEF Members, Scheduled, Target
<1>17. RunningLive' /\ ScheduledRuns'
  BY <1>1, <1>3, <1>7, <1>11, <1>16, Parts
     DEF EngineInv, LoopInv, RunningLive, ScheduledRuns, Scheduling
<1>18. ScanRuns'
  <2>1. /\ scan # <<>> /\ Head(scan) \in Members(running)
        /\ pc = "progress_room" => Members(scan) = {Head(scan)}
        /\ pc = "decode_room" => budget > 0
        /\ pc = "decode_room" =>
             \A x \in Members(scan) : x \in Members(running) \/ state[x] = "preempted"
    BY <1>1 DEF EngineInv, LoopInv, ScanRuns, Sized
  <2>2. Members(scan) \subseteq Requests
    BY Parts, MembersOf
  <2>3. \A x \in Members(scan) : x \in Members(running) \/ state[x] = "preempted"
          => x \in Members(running') \/ state'[x] = "preempted"
    BY <1>7, <1>11, <2>2
  <2>4. Head(scan) \in Members(running')
    BY <1>3, <1>7, <2>1
  <2> QED BY <1>1, <1>16, <2>1, <2>3, <2>4 DEF ScanRuns, Sized
<1>19. ChunksFit'
  BY <1>16 DEF EngineInv, LoopInv, ChunksFit
<1> QED BY <1>5, <1>12, <1>13, <1>14, <1>15, <1>17, <1>18, <1>19
        DEF EngineInv, EngineTypeOK, LoopInv

\* The head of the waiting queue.
LEMMA HeadWaits ==
  ASSUME EngineInv, waiting # <<>>
  PROVE  /\ Head(waiting) \in Requests /\ Head(waiting) \in Members(waiting)
         /\ state[Head(waiting)] \in {"waiting", "preempted"}
         /\ Head(waiting) \notin Members(running) /\ prompt[Head(waiting)] \in Prompts
         /\ Tail(waiting) \in Seq(Requests) /\ Distinct(Tail(waiting))
         /\ Members(Tail(waiting)) = Members(waiting) \ {Head(waiting)}
<1>1. /\ Head(waiting) \in Requests /\ Head(waiting) \in Members(waiting)
      /\ Members(waiting) = Members(Tail(waiting)) \cup {Head(waiting)}
      /\ Distinct(Tail(waiting)) /\ Head(waiting) \notin Members(Tail(waiting))
      /\ Tail(waiting) \in Seq(Requests)
  BY Parts, Taking
<1>2. state[Head(waiting)] \in {"waiting", "preempted"} /\ Head(waiting) \notin Members(running)
  BY <1>1, Parts
<1>3. prompt[Head(waiting)] \in Prompts
  BY <1>1, <1>2 DEF EngineInv, LoopInv, Submitted
<1> QED BY <1>1, <1>2, <1>3

\* Opening a KV for the head of the waiting queue adds one sequence to the memory.
LEMMA AdmitOpenInv ==
  ASSUME EngineInv, AdmitOpen
  PROVE  EngineInv'
<1> DEFINE r == Head(waiting)
<1>1. /\ pc = "admit" /\ pc' = pc /\ waiting # <<>> /\ Open(r, prompt[r])
      /\ computed' = [computed EXCEPT ![r] = IF text'[r] # <<>> THEN Len(text'[r]) ELSE @]
      /\ UNCHANGED <<chunked, state, prompt, limit, out, queues>>
      /\ UNCHANGED <<budget, reserved, chunks, decodes, scan, need>>
  BY DEF AdmitOpen, MayAdmit, locals
<1>2. r \in Requests /\ r \in Members(waiting) /\ prompt[r] \in Prompts
  BY <1>1, HeadWaits
<1> HIDE DEF r
<1>3. KVInv' /\ open' = open \cup {r}
  <2>1. KVInv'
    BY <1>1, <1>2, OpenInv DEF EngineInv, Requests
  <2> QED BY <1>1, <2>1 DEF Open
<1>4. RequestTypes /\ StepTypes
  BY Parts
<1>5. /\ state' = state /\ prompt' = prompt /\ out' = out /\ waiting' = waiting
      /\ running' = running /\ limit' = limit /\ chunked' = chunked
  BY <1>1 DEF queues
<1>6. computed' \in [Requests -> Nat]
  <2>1. Len(text'[r]) \in Nat
    BY <1>2, <1>3 DEF KVInv, KVTypeOK, Fed, Requests
  <2> QED BY <1>1, <1>4, <2>1 DEF RequestTypes
<1>7. RequestTypes'
  BY <1>4, <1>5, <1>6 DEF RequestTypes
<1>8. StepTypes'
  BY <1>1, <1>4 DEF StepTypes
<1>9. /\ Members(waiting)' = Members(waiting) /\ Members(running)' = Members(running)
      /\ Members(chunks)' = Members(chunks) /\ Members(scan)' = Members(scan)
      /\ Scheduled' = Scheduled /\ \A x : Target(x)' = Target(x)
  BY <1>1, <1>5 DEF Members, Scheduled, Target
<1>10. QueuesConsistent'
  BY <1>1, <1>2, <1>3, <1>5, <1>9 DEF EngineInv, QueuesConsistent, Distinct
<1>11. LoopInv'
  BY <1>1, <1>5, <1>9
     DEF EngineInv, LoopInv, Submitted, RunningLive, ScheduledRuns, ChunksFit, ScanRuns
<1> QED BY <1>3, <1>7, <1>8, <1>10, <1>11 DEF EngineInv, EngineTypeOK

\* An admission moves the head of the waiting queue to the end of running, below the cap.
LEMMA AdmitInv ==
  ASSUME EngineInv, Admit
  PROVE  EngineInv'
<1> DEFINE r == Head(waiting)
<1>1. /\ pc = "admit" /\ pc' = pc /\ waiting # <<>> /\ Len(running) < MaxNumSeqs
      /\ Take(r) > 0 /\ ScheduleChunk(r)
      /\ state' = [state EXCEPT ![r] = "prefill"]
      /\ waiting' = Tail(waiting) /\ running' = Append(running, r)
      /\ UNCHANGED <<chunked, kvvars, prompt, limit, out, computed>>
      /\ decodes' = decodes /\ scan' = scan /\ need' = need
  BY DEF Admit, MayAdmit
<1>2. /\ r \in Requests /\ r \in Members(waiting) /\ prompt[r] \in Prompts
      /\ r \notin Members(running) /\ waiting' \in Seq(Requests) /\ Distinct(waiting')
      /\ Members(waiting') = Members(waiting) \ {r}
  BY <1>1, HeadWaits
<1> HIDE DEF r
<1>3. KVInv' /\ open' = open
  BY <1>1, MemoryKept DEF EngineInv
<1>4. RequestTypes /\ StepTypes
  BY Parts
<1>5. running' \in Seq(Requests) /\ Behind(running', running, r)
  BY <1>1, <1>2, <1>4 DEF Behind, RequestTypes
<1>6. /\ Members(running') = Members(running) \cup {r} /\ Distinct(running')
      /\ Len(running') <= MaxNumSeqs
  <2>1. Members(running') = Members(running) \cup {r} /\ Distinct(running')
    BY <1>2, <1>5, Parts, Appended
  <2>2. Len(running') = Len(running) + 1 /\ Len(running) \in Nat
    BY <1>5, Parts DEF Behind
  <2> QED BY <1>1, <2>1, <2>2, EngineAssumption
<1>7. \A x \in Requests : state'[x] = IF x = r THEN "prefill" ELSE state[x]
  BY <1>1, <1>4 DEF RequestTypes
<1>8. RequestTypes'
  BY <1>1, <1>2, <1>4, <1>5 DEF RequestTypes
<1>9. /\ budget' \in Nat /\ reserved' \in Nat /\ chunks' \in Seq(PrefillChunk)
      /\ \E c \in PrefillChunk : /\ c.req = r /\ c.start + c.take <= Target(r)
                               /\ Members(chunks') = Members(chunks) \cup {c}
  BY <1>1, <1>2, ChunkScheduled DEF EngineInv
<1>10. StepTypes'
  BY <1>1, <1>4, <1>9 DEF StepTypes
<1>11. QueuesConsistent'
  <2>1. state' \in [Requests -> {"new", "waiting", "prefill", "running", "preempted"} \cup Over]
    BY <1>8 DEF RequestTypes
  <2>2. \A x \in Members(waiting') : /\ state'[x] \in {"waiting", "preempted"}
                                     /\ x \notin Members(running') /\ x \in Requests
    BY <1>2, <1>6, <1>7, Parts
  <2>3. \A x \in Requests : /\ state'[x] \in {"waiting", "preempted"} => x \in Members(waiting')
                            /\ state'[x] \in {"prefill", "running"} => x \in Members(running')
    BY <1>2, <1>6, <1>7, Parts
  <2>4. \A x \in open' : x \in Members(waiting') \/ x \in Members(running')
    BY <1>2, <1>3, <1>6, Parts
  <2>5. pc' # "idle"
    BY <1>1
  <2> QED BY <1>2, <1>6, <2>1, <2>2, <2>3, <2>4, <2>5, QueuesKept
<1>12. Submitted'
  BY <1>1, <1>2, <1>7 DEF EngineInv, LoopInv, Submitted
<1>13. /\ Members(running)' = Members(running') /\ Members(chunks)' = Members(chunks')
       /\ Members(decodes)' = Members(decodes) /\ \A x : Target(x)' = Target(x)
  BY <1>1 DEF Members, Target
<1>14. RunningLive'
  BY <1>1, <1>2, <1>6, <1>7, <1>13, Parts DEF EngineInv, LoopInv, RunningLive, Scheduling, Over
<1>15. ScheduledRuns'
  <2>1. /\ \A c \in Members(chunks) : c.req \in Members(running)
        /\ Members(decodes) \subseteq Members(running)
    BY DEF EngineInv, LoopInv, ScheduledRuns, Scheduled
  <2>2. \A c \in Members(chunks') : c.req \in Members(running')
    BY <1>6, <1>9, <2>1
  <2>3. Scheduled' \subseteq Members(running')
    BY <1>6, <1>13, <2>1, <2>2 DEF Scheduled
  <2> QED BY <1>1, <1>13, <2>3 DEF ScheduledRuns
<1>16. ScanRuns'
  BY <1>1 DEF ScanRuns, Sized
<1>17. ChunksFit'
  BY <1>9, <1>13 DEF EngineInv, LoopInv, ChunksFit
<1> QED BY <1>3, <1>8, <1>10, <1>11, <1>12, <1>14, <1>15, <1>16, <1>17
        DEF EngineInv, EngineTypeOK, LoopInv

\* A rolled back admission closes the KV it opened and leaves the queues alone.
LEMMA AdmitRollbackInv ==
  ASSUME EngineInv, AdmitRollback
  PROVE  EngineInv'
<1> DEFINE r == Head(waiting)
<1>1. /\ pc = "admit" /\ pc' = "progress" /\ waiting # <<>> /\ Release(r)
      /\ state' = [state EXCEPT ![r] = "waiting"]
      /\ UNCHANGED <<chunked, prompt, limit, out, computed, queues>>
      /\ UNCHANGED <<budget, reserved, chunks, decodes, scan, need>>
  BY DEF AdmitRollback, MayAdmit, locals
<1>2. /\ r \in Requests /\ r \in Members(waiting) /\ r \notin Members(running)
      /\ prompt[r] \in Prompts
  BY <1>1, HeadWaits
<1> HIDE DEF r
<1>3. KVInv' /\ open' = open \ {r}
  BY <1>1, <1>2, ReleaseKept DEF EngineInv
<1>4. RequestTypes /\ StepTypes
  BY Parts
<1>5. /\ prompt' = prompt /\ out' = out /\ waiting' = waiting /\ running' = running
      /\ limit' = limit /\ chunked' = chunked /\ computed' = computed
  BY <1>1 DEF queues
<1>6. \A x \in Requests : state'[x] = IF x = r THEN "waiting" ELSE state[x]
  BY <1>1, <1>4 DEF RequestTypes
<1>7. RequestTypes'
  BY <1>1, <1>4, <1>5 DEF RequestTypes
<1>8. StepTypes'
  BY <1>1, <1>4 DEF StepTypes
<1>9. /\ Members(waiting)' = Members(waiting) /\ Members(running)' = Members(running)
      /\ Members(chunks)' = Members(chunks) /\ Scheduled' = Scheduled
      /\ \A x : Target(x)' = Target(x)
  BY <1>1, <1>5 DEF Members, Scheduled, Target
<1>10. QueuesConsistent'
  <2>1. state' \in [Requests -> {"new", "waiting", "prefill", "running", "preempted"} \cup Over]
    BY <1>7 DEF RequestTypes
  <2>2. \A x \in Members(waiting') : /\ state'[x] \in {"waiting", "preempted"}
                                     /\ x \notin Members(running') /\ x \in Requests
    BY <1>2, <1>5, <1>6, Parts
  <2>3. \A x \in Requests : /\ state'[x] \in {"waiting", "preempted"} => x \in Members(waiting')
                            /\ state'[x] \in {"prefill", "running"} => x \in Members(running')
    BY <1>2, <1>5, <1>6, Parts
  <2>4. \A x \in open' : x \in Members(waiting') \/ x \in Members(running')
    BY <1>3, <1>5, Parts
  <2>5. pc' # "idle" /\ Distinct(waiting') /\ Distinct(running') /\ Len(running') <= MaxNumSeqs
    BY <1>1, <1>5, Parts
  <2> QED BY <2>1, <2>2, <2>3, <2>4, <2>5, QueuesKept
<1>11. Submitted'
  BY <1>2, <1>5, <1>6 DEF EngineInv, LoopInv, Submitted
<1>12. RunningLive' /\ ScheduledRuns' /\ ScanRuns'
  BY <1>1, <1>2, <1>5, <1>6, <1>9, Parts
     DEF EngineInv, LoopInv, RunningLive, ScheduledRuns, ScanRuns, Scheduling, Sized
<1>13. ChunksFit'
  BY <1>9 DEF EngineInv, LoopInv, ChunksFit
<1> QED BY <1>3, <1>7, <1>8, <1>10, <1>11, <1>12, <1>13 DEF EngineInv, EngineTypeOK, LoopInv

-----------------------------------------------------------------------------
(* The steps that execute the schedule and retire.                         *)

\* A forward pass writes or raises; either way the memory stays accounted for.
LEMMA ForwardKept ==
  ASSUME KVInv, NEW r \in Requests, NEW start \in Nat, NEW toks \in Seq(Tokens),
         Forward(r, start, toks)
  PROVE  KVInv' /\ open' = open
<1>1. CASE UNCHANGED kvvars
  BY <1>1, MemoryKept
<1>2. CASE Write(r, start, toks)
  <2>1. KVInv'
    BY <1>2, WriteInv DEF Requests
  <2> QED BY <1>2, <2>1 DEF Write
<1> QED BY <1>1, <1>2 DEF Forward

\* A running request that emits goes on running or is over: the queues do not notice, and
\* there is at least as much to replay as before.
LEMMA Emitting ==
  ASSUME EngineInv, NEW r \in Members(running),
         \/ state' = state
         \/ \E st \in {"running", "finished"} : state' = [state EXCEPT ![r] = st],
         \/ out' = out
         \/ \E t \in OutTokens : out' = [out EXCEPT ![r] = Append(@, t)],
         computed' \in [Requests -> Nat], UNCHANGED <<chunked, prompt, limit, queues>>,
         open' = open, pc' \in {"execute", "batch", "crashed"}
  PROVE  /\ RequestTypes' /\ QueuesConsistent' /\ Submitted'
         /\ \A x \in Members(running) : state'[x] # "new"
         /\ \A x \in Requests : Target(x) \in Nat /\ Target(x)' \in Nat /\ Target(x) <= Target(x)'
<1>1. r \in Requests /\ RequestTypes /\ StepTypes
  BY Parts
<1>2. /\ waiting' = waiting /\ running' = running /\ prompt' = prompt
      /\ \A x \in Members(running) : state[x] # "new"
  BY DEF queues, EngineInv, LoopInv, RunningLive
<1>3. /\ state' \in [Requests -> {"new", "waiting", "prefill", "running", "preempted"} \cup Over]
      /\ \A x \in Requests : x # r => state'[x] = state[x]
      /\ state'[r] = state[r] \/ state'[r] \in {"running", "finished"}
  BY <1>1 DEF RequestTypes, Over
<1>4. /\ out' \in [Requests -> Seq(Tokens)]
      /\ \A x \in Requests : Len(out'[x]) >= Len(out[x])
  <2>1. CASE out' = out
    BY <1>1, <2>1 DEF RequestTypes
  <2>2. ASSUME NEW t \in OutTokens, out' = [out EXCEPT ![r] = Append(@, t)]
        PROVE  /\ out' \in [Requests -> Seq(Tokens)]
               /\ \A x \in Requests : Len(out'[x]) >= Len(out[x])
    <3>1. out \in [Requests -> Seq(Tokens)] /\ t \in Tokens
      BY <1>1, EngineAssumption DEF RequestTypes
    <3>2. Append(out[r], t) \in Seq(Tokens) /\ Len(Append(out[r], t)) = Len(out[r]) + 1
      BY <1>1, <3>1
    <3>3. out' \in [Requests -> Seq(Tokens)]
      BY <2>2, <3>1, <3>2
    <3>4. \A x \in Requests : x # r => out'[x] = out[x]
      BY <2>2, <3>1
    <3>5. Len(out'[r]) = Len(out[r]) + 1
      BY <1>1, <2>2, <3>1, <3>2
    <3>6. \A x \in Requests : Len(out[x]) \in Nat
      BY <3>1
    <3>7. \A n \in Nat : n >= n /\ n + 1 >= n
      OBVIOUS
    <3>8. ASSUME NEW x \in Requests PROVE Len(out'[x]) >= Len(out[x])
      <4>1. CASE x = r
        BY <3>5, <3>6, <3>7, <4>1, Zenon
      <4>2. CASE x # r
        BY <3>4, <3>6, <3>7, <4>2, Zenon
      <4> QED BY <4>1, <4>2
    <3> QED BY <3>3, <3>8
  <2> QED BY <2>1, <2>2
<1>5. RequestTypes'
  BY <1>1, <1>2, <1>3, <1>4 DEF RequestTypes
<1>6. QueuesConsistent'
  <2>1. \A x \in Members(waiting) : x # r
    BY Parts
  <2>2. \A x \in Members(waiting') : /\ state'[x] \in {"waiting", "preempted"}
                                     /\ x \notin Members(running') /\ x \in Requests
    BY <1>2, <1>3, <2>1, Parts
  <2>3. \A x \in Requests : /\ state'[x] \in {"waiting", "preempted"} => x \in Members(waiting')
                            /\ state'[x] \in {"prefill", "running"} => x \in Members(running')
    BY <1>2, <1>3, Parts
  <2>4. /\ \A x \in open' : x \in Members(waiting') \/ x \in Members(running')
        /\ pc' # "idle" /\ Distinct(waiting') /\ Distinct(running') /\ Len(running') <= MaxNumSeqs
    BY <1>2, Parts
  <2> QED BY <1>3, <2>2, <2>3, <2>4, QueuesKept
<1>7. \A x \in Members(running) : state'[x] # "new"
  BY <1>2, <1>3, Parts
<1>8. Submitted'
  <2>1. \A x \in Requests : state'[x] # "new" => state[x] # "new"
    BY <1>2, <1>3
  <2> QED BY <1>2, <2>1 DEF EngineInv, LoopInv, Submitted
<1>9. ASSUME NEW x \in Requests
      PROVE  Target(x) \in Nat /\ Target(x)' \in Nat /\ Target(x) <= Target(x)'
  <2> DEFINE m == Len(prompt[x])
             n == Len(out[x])
             k == Len(out'[x])
  <2>1. Target(x) = m + Max2(0, n - 1) /\ Target(x)' = m + Max2(0, k - 1)
    BY <1>2 DEF Target
  <2>2. m \in Nat /\ n \in Nat /\ k \in Nat /\ n <= k
    <3>1. prompt[x] \in Seq(Tokens) /\ out[x] \in Seq(Tokens) /\ out'[x] \in Seq(Tokens)
      BY <1>4, Lengths DEF EngineInv
    <3> QED BY <1>4, <3>1
  <2> HIDE DEF m, n, k
  <2> QED BY <2>1, <2>2 DEF Max2
<1> QED BY <1>5, <1>6, <1>7, <1>8, <1>9

\* A chunk writes tokens that exist, and may emit the first one.
LEMMA ExecuteChunkInv ==
  ASSUME EngineInv, ExecuteChunk
  PROVE  EngineInv'
<1> DEFINE c == Head(chunks)
           end == c.start + c.take
           r == c.req
<1>1. /\ pc = "execute" /\ chunks # <<>> /\ chunks' = Tail(chunks)
      /\ Forward(r, c.start, SubSeq(AllTokens(r), c.start + 1, end))
      /\ pc' = IF Raised(r) THEN "crashed" ELSE pc
      /\ computed' = computed \/ computed' = [computed EXCEPT ![r] = end]
      /\ UNCHANGED <<chunked, prompt, limit, queues>>
      /\ UNCHANGED <<budget, reserved, decodes, scan, need>>
  BY DEF ExecuteChunk, OrCrash
<1>2. \/ UNCHANGED <<state, out>>
      \/ \E t \in OutTokens : Emit(r, t, "running")
      \/ state' = [state EXCEPT ![r] = "running"] /\ out' = out
  BY DEF ExecuteChunk
<1>3. /\ c \in Members(chunks) /\ c \in PrefillChunk /\ Tail(chunks) \in Seq(PrefillChunk)
      /\ Members(Tail(chunks)) \subseteq Members(chunks)
  BY <1>1, Parts, Taking
<1>4. r \in Members(running) /\ end <= Target(r)
  BY <1>3 DEF EngineInv, LoopInv, ScheduledRuns, Scheduled, ChunksFit
<1>5. r \in Requests /\ c.start \in Nat /\ c.take \in Nat
  BY <1>3 DEF PrefillChunk
<1>6. end \in Nat /\ c.start <= end
  BY <1>5
<1> HIDE DEF c, end, r
<1>7. SubSeq(AllTokens(r), c.start + 1, end) \in Seq(Tokens)
  <2>1. AllTokens(r) \in Seq(Tokens) /\ Len(AllTokens(r)) \in Nat /\ end <= Len(AllTokens(r))
    BY <1>4, <1>5, <1>6, Lengths DEF EngineInv
  <2>2. \A i \in (c.start + 1) .. end : i \in 1 .. Len(AllTokens(r))
    BY <1>5, <1>6, <2>1
  <2>3. \A i \in (c.start + 1) .. end : AllTokens(r)[i] \in Tokens
    BY <2>1, <2>2
  <2> QED BY <1>5, <1>6, <2>1, <2>3, SubSeqProperties
<1>8. KVInv' /\ open' = open
  BY <1>1, <1>5, <1>7, ForwardKept DEF EngineInv
<1>9. RequestTypes /\ StepTypes
  BY Parts
<1>10. computed' \in [Requests -> Nat]
  BY <1>1, <1>6, <1>9 DEF RequestTypes
<1>11. /\ state' = state \/ \E st \in {"running", "finished"} : state' = [state EXCEPT ![r] = st]
       /\ out' = out \/ \E t \in OutTokens : out' = [out EXCEPT ![r] = Append(@, t)]
  BY <1>2 DEF Emit
<1>12. pc' \in {"execute", "crashed"}
  BY <1>1
<1>13. /\ RequestTypes' /\ QueuesConsistent' /\ Submitted'
       /\ \A x \in Members(running) : state'[x] # "new"
       /\ \A x \in Requests : Target(x) \in Nat /\ Target(x)' \in Nat /\ Target(x) <= Target(x)'
  BY <1>1, <1>4, <1>8, <1>10, <1>11, <1>12, Emitting
<1>14. StepTypes'
  BY <1>1, <1>3, <1>9, <1>12 DEF StepTypes
<1>15. /\ Members(running)' = Members(running) /\ Members(chunks)' = Members(chunks')
       /\ Members(decodes)' = Members(decodes)
  BY <1>1 DEF queues, Members
<1>16. RunningLive' /\ ScheduledRuns' /\ ScanRuns'
  <2>1. Scheduled' \subseteq Members(running)
    BY <1>1, <1>3, <1>15 DEF Scheduled, EngineInv, LoopInv, ScheduledRuns
  <2> QED BY <1>12, <1>13, <1>15, <2>1 DEF RunningLive, ScheduledRuns, ScanRuns, Scheduling, Sized
<1>17. ChunksFit'
  <2>1. ASSUME NEW x \in Members(chunks') PROVE x.start + x.take <= Target(x.req)'
    <3>1. x \in Members(chunks)
      BY <1>1, <1>3
    <3>2. x.start + x.take <= Target(x.req) /\ x.req \in Requests /\ x.start + x.take \in Nat
      <4>1. x \in PrefillChunk /\ x.start + x.take <= Target(x.req)
        BY <3>1, Parts, MembersOf DEF EngineInv, LoopInv, ChunksFit
      <4> QED BY <4>1 DEF PrefillChunk
    <3> QED BY <1>13, <3>2
  <2> QED BY <1>15, <2>1 DEF ChunksFit, Target
<1> QED BY <1>8, <1>13, <1>14, <1>16, <1>17 DEF EngineInv, EngineTypeOK, LoopInv

\* A decode feeds the last token of a request that has one.
LEMMA DecodeWriteInv ==
  ASSUME EngineInv, DecodeWrite
  PROVE  EngineInv'
<1> DEFINE r == Head(scan)
<1>1. /\ pc = "batch" /\ scan # <<>> /\ scan' = Tail(scan)
      /\ Forward(r, computed[r], <<LastToken(r)>>)
      /\ pc' = IF Raised(r) THEN "crashed" ELSE pc
      /\ UNCHANGED <<chunked, reqvars, queues>> /\ UNCHANGED <<reqvars, queues, chunks, decodes>>
      /\ UNCHANGED <<budget, reserved, need>>
  BY DEF DecodeWrite, OrCrash
<1>2. /\ r \in Members(scan) /\ r \in Requests /\ Tail(scan) \in Seq(Requests)
      /\ Members(Tail(scan)) \subseteq Members(scan)
  BY <1>1, Parts, Taking
<1>3. Members(scan) \subseteq Members(running) /\ chunks = <<>>
  BY <1>1 DEF EngineInv, LoopInv, ScanRuns, ScheduledRuns
<1> HIDE DEF r
<1>4. computed[r] \in Nat /\ <<LastToken(r)>> \in Seq(Tokens)
  <2>1. prompt[r] \in Prompts
    BY <1>2, <1>3 DEF EngineInv, LoopInv, Submitted, RunningLive
  <2>2. prompt[r] \in Seq(Tokens) /\ prompt[r] # <<>> /\ out[r] \in Seq(Tokens)
    BY <1>2, <2>1, KVAssumption, Lengths DEF EngineInv
  <2>3. Len(AllTokens(r)) \in Nat \ {0} /\ AllTokens(r) \in Seq(Tokens)
    <3>1. Len(prompt[r]) \in Nat \ {0} /\ Len(out[r]) \in Nat
      BY <2>2
    <3>2. /\ AllTokens(r) \in Seq(Tokens)
          /\ Len(AllTokens(r)) = Len(prompt[r]) + Len(out[r])
      BY <2>2 DEF AllTokens
    <3>3. \A m \in Nat \ {0}, n \in Nat : m + n \in Nat \ {0}
      OBVIOUS
    <3>4. Len(prompt[r]) + Len(out[r]) \in Nat \ {0}
      BY <3>1, <3>3, Zenon
    <3> QED BY <3>2, <3>4, Zenon
  <2>4. LastToken(r) \in Tokens
    BY <2>3 DEF LastToken
  <2> QED BY <1>2, <2>4, Parts DEF RequestTypes
<1>5. KVInv' /\ open' = open
  BY <1>1, <1>2, <1>4, ForwardKept DEF EngineInv
<1>6. StepTypes'
  BY <1>1, <1>2, Parts DEF StepTypes
<1>7. RunningLive' /\ ScheduledRuns' /\ ScanRuns'
  <2>1. Members(scan)' = Members(Tail(scan))
    BY <1>1 DEF Members
  <2> QED BY <1>1, <1>2, <1>3, <2>1, SameWork
          DEF EngineInv, LoopInv, RunningLive, ScheduledRuns, ScanRuns, Scheduling, Sized
<1> QED BY <1>1, <1>5, <1>6, <1>7, SameWork, Bookkeeping

\* The batch emits one token for each of its requests.
LEMMA DecodeEmitInv ==
  ASSUME EngineInv, DecodeEmit
  PROVE  EngineInv'
<1> DEFINE r == Head(decodes)
<1>1. /\ pc = "batch" /\ pc' = "batch" /\ decodes # <<>> /\ decodes' = Tail(decodes)
      /\ computed' = [computed EXCEPT ![r] = @ + 1] /\ scan = <<>> /\ scan' = scan
      /\ \E t \in OutTokens : Emit(r, t, "running")
      /\ UNCHANGED <<chunked, kvvars, prompt, limit, queues>>
      /\ UNCHANGED <<budget, reserved, chunks, need>>
  BY DEF DecodeEmit
<1>2. /\ r \in Members(decodes) /\ Tail(decodes) \in Seq(Requests)
      /\ Members(Tail(decodes)) \subseteq Members(decodes)
  BY <1>1, Parts, Taking
<1>3. /\ Members(decodes) \subseteq Members(running) /\ chunks = <<>> /\ chunks' = <<>>
  BY <1>1 DEF EngineInv, LoopInv, ScheduledRuns, Scheduled
<1> HIDE DEF r
<1>4. KVInv' /\ open' = open
  BY <1>1, MemoryKept DEF EngineInv
<1>5. computed' \in [Requests -> Nat]
  <2>1. computed \in [Requests -> Nat] /\ r \in Requests
    BY <1>2, <1>3, Parts DEF RequestTypes
  <2> QED BY <1>1, <2>1
<1>6. /\ \E st \in {"running", "finished"} : state' = [state EXCEPT ![r] = st]
      /\ \E t \in OutTokens : out' = [out EXCEPT ![r] = Append(@, t)]
  BY <1>1 DEF Emit
<1>7. /\ RequestTypes' /\ QueuesConsistent' /\ Submitted'
      /\ \A x \in Members(running) : state'[x] # "new"
  BY <1>1, <1>2, <1>3, <1>4, <1>5, <1>6, Emitting
<1>8. StepTypes'
  BY <1>1, <1>2, Parts DEF StepTypes
<1>9. /\ Members(running)' = Members(running) /\ Members(decodes)' = Members(Tail(decodes))
      /\ Members(chunks)' = {} /\ Members(scan)' = {}
  BY <1>1, <1>3 DEF queues, Members
<1>10. RunningLive' /\ ScheduledRuns' /\ ScanRuns' /\ ChunksFit'
  <2>1. Scheduled' \subseteq Members(running)
    BY <1>2, <1>3, <1>9 DEF Scheduled
  <2> QED BY <1>1, <1>3, <1>7, <1>9, <2>1
          DEF RunningLive, ScheduledRuns, ScanRuns, ChunksFit, Scheduling, Sized
<1> QED BY <1>4, <1>7, <1>8, <1>10 DEF EngineInv, EngineTypeOK, LoopInv

\* Publishing gives the cache references of its own.
LEMMA RetirePublishInv ==
  ASSUME EngineInv, RetirePublish
  PROVE  EngineInv'
<1> DEFINE r == Head(scan)
<1>1. /\ pc = "retire" /\ pc' = "release" /\ scan # <<>> /\ state[r] \in Over
      /\ Publish(r, AllTokens(r)) \/ UNCHANGED kvvars
      /\ UNCHANGED <<chunked, reqvars, queues>> /\ UNCHANGED <<reqvars, queues, chunks, decodes>>
      /\ UNCHANGED <<budget, reserved, scan, need>>
  BY DEF RetirePublish, locals
<1>2. r \in Requests
  BY <1>1, Parts, Taking
<1>3. KVInv' /\ open' = open
  <2>1. CASE UNCHANGED kvvars
    BY <2>1, MemoryKept DEF EngineInv
  <2>2. CASE Publish(r, AllTokens(r))
    <3>1. AllTokens(r) \in Fed
      <4>1. AllTokens(r) \in Seq(Tokens)
        BY <1>2, Lengths DEF EngineInv
      <4> QED BY <4>1 DEF Fed
    <3>2. KVInv'
      BY <1>2, <2>2, <3>1, PublishInv DEF EngineInv, Requests
    <3> QED BY <2>2, <3>2 DEF Publish
  <2> QED BY <1>1, <2>1, <2>2
<1>4. StepTypes'
  BY <1>1, Parts DEF StepTypes
<1>5. RunningLive' /\ ScheduledRuns' /\ ScanRuns'
  <2>1. Members(scan)' = Members(scan) /\ scan' = scan
    BY <1>1 DEF Members
  <2> QED BY <1>1, <2>1, SameWork
          DEF EngineInv, LoopInv, RunningLive, ScheduledRuns, ScanRuns, Scheduling, Sized
<1> QED BY <1>1, <1>3, <1>4, <1>5, SameWork, Bookkeeping

\* Who is over leaves running together with its KV.
LEMMA RetireReleaseInv ==
  ASSUME EngineInv, RetireRelease
  PROVE  EngineInv'
<1> DEFINE r == Head(scan)
<1>1. /\ pc = "release" /\ pc' = "retire" /\ scan' = Tail(scan) /\ running' = Without(running, r)
      /\ IF r \in open THEN Release(r) ELSE UNCHANGED kvvars
      /\ UNCHANGED <<chunked, reqvars, waiting>>
      /\ UNCHANGED <<budget, reserved, chunks, decodes, need>>
  BY DEF RetireRelease
<1>2. scan # <<>> /\ state[r] \in Over /\ chunks = <<>> /\ decodes = <<>>
  BY <1>1 DEF EngineInv, LoopInv, RunningLive, ScheduledRuns
<1>3. /\ r \in Requests /\ Tail(scan) \in Seq(Requests)
      /\ Members(scan) = Members(Tail(scan)) \cup {r}
  BY <1>2, Parts, Taking
<1> HIDE DEF r
<1>4. KVInv' /\ open' = open \ {r}
  BY <1>1, <1>3, MemoryKept, ReleaseKept DEF EngineInv
<1>5. /\ state' = state /\ prompt' = prompt /\ out' = out /\ limit' = limit
      /\ computed' = computed /\ waiting' = waiting /\ chunked' = chunked
  BY <1>1 DEF reqvars
<1>6. /\ running' \in Seq(Requests) /\ Members(running') = Members(running) \ {r}
      /\ Distinct(running') /\ Len(running') <= Len(running) /\ Len(running') \in Nat
  BY <1>1, Parts, WithoutFacts
<1>7. RequestTypes'
  BY <1>5, <1>6, Parts DEF RequestTypes
<1>8. StepTypes'
  BY <1>1, <1>3, Parts DEF StepTypes
<1>9. r \notin Members(waiting)
  BY <1>2, Parts DEF Over
<1>10. QueuesConsistent'
  <2>1. state' \in [Requests -> {"new", "waiting", "prefill", "running", "preempted"} \cup Over]
    BY <1>7 DEF RequestTypes
  <2>2. \A x \in Members(waiting') : /\ state'[x] \in {"waiting", "preempted"}
                                     /\ x \notin Members(running') /\ x \in Requests
    BY <1>5, <1>6, Parts
  <2>3. \A x \in Requests : /\ state'[x] \in {"waiting", "preempted"} => x \in Members(waiting')
                            /\ state'[x] \in {"prefill", "running"} => x \in Members(running')
    BY <1>2, <1>5, <1>6, Parts DEF Over
  <2>4. \A x \in open' : x \in Members(waiting') \/ x \in Members(running')
    BY <1>4, <1>5, <1>6, Parts
  <2>5. pc' # "idle" /\ Distinct(waiting') /\ Len(running') <= MaxNumSeqs
    BY <1>1, <1>5, <1>6, Parts, EngineAssumption
  <2> QED BY <1>6, <2>1, <2>2, <2>3, <2>4, <2>5, QueuesKept
<1>11. Submitted'
  BY <1>5 DEF EngineInv, LoopInv, Submitted
<1>12. /\ Members(running)' = Members(running') /\ Members(scan)' = Members(Tail(scan))
       /\ Members(chunks)' = {} /\ Members(decodes)' = {} /\ Scheduled' = {}
  BY <1>1, <1>2 DEF Members, Scheduled
<1>13. RunningLive' /\ ScheduledRuns' /\ ScanRuns' /\ ChunksFit'
  BY <1>1, <1>2, <1>3, <1>5, <1>6, <1>12
     DEF EngineInv, LoopInv, RunningLive, ScheduledRuns, ScanRuns, ChunksFit, Scheduling, Sized
<1> QED BY <1>4, <1>7, <1>8, <1>10, <1>11, <1>13 DEF EngineInv, EngineTypeOK, LoopInv

-----------------------------------------------------------------------------
(* The theorems.                                                           *)

\* The engine starts with empty queues and an untouched pool.
LEMMA EngineStarts == Init => EngineInv
<1> SUFFICES ASSUME Init PROVE EngineInv
  OBVIOUS
<1>1. KVInv /\ open = {}
  <2>1. KVInit
    BY DEF Init
  <2> QED BY <2>1, InitInv DEF KVInit
<1>2. RequestTypes /\ StepTypes
  <2>1. <<>> \in Seq(Requests) /\ <<>> \in Seq(PrefillChunk) /\ <<>> \in Seq(Tokens)
    OBVIOUS
  <2> QED BY <2>1 DEF Init, RequestTypes, StepTypes
<1>3. Members(<<>>) = {} /\ Distinct(<<>>) /\ Len(<<>>) = 0
  BY DEF Members, Distinct
<1>4. \A r \in Requests : state[r] = "new"
  BY DEF Init
<1>5. QueuesConsistent
  BY <1>1, <1>3, <1>4, EngineAssumption DEF Init, QueuesConsistent
<1>6. LoopInv
  BY <1>3, <1>4
     DEF Init, LoopInv, Submitted, RunningLive, ScheduledRuns, Scheduled, ChunksFit, ScanRuns,
         Sized, Scheduling
<1> QED BY <1>1, <1>2, <1>5, <1>6 DEF EngineInv, EngineTypeOK

\* Every step of the engine thread or of a client keeps the invariant.
LEMMA EngineSteps == EngineInv /\ [Next]_vars => EngineInv'
<1> SUFFICES ASSUME EngineInv, [Next]_vars PROVE EngineInv'
  OBVIOUS
<1>1. CASE Schedule
  BY <1>1, BeginStepInv, DecodeScanInv, PreemptNewestInv, RoomMadeInv, DecodeRetryInv, StageDoneInv,
     PrefillScanInv, AdmitOpenInv, AdmitInv, AdmitRollbackInv, BreakStallInv, AdvanceHeadInv,
     ProgressRetryInv, CacheEvictionInv DEF Schedule
<1>2. CASE Execute
  BY <1>2, ExecuteChunkInv, BeginBatchInv, DecodeWriteInv, DecodeEmitInv, RetireLoopInv,
     RetirePublishInv, RetireReleaseInv DEF Execute
<1>3. CASE Clients
  BY <1>3, AddRequestInv, AbortRequestInv DEF Clients
<1>4. CASE UNCHANGED vars
  <2>1. /\ UNCHANGED <<chunked, kvvars, reqvars, queues>> /\ pc' = pc
        /\ UNCHANGED <<reqvars, queues, chunks, decodes>>
        /\ UNCHANGED <<budget, reserved, scan, need>>
    BY <1>4 DEF vars, locals
  <2>2. KVInv' /\ open' = open
    BY <2>1, MemoryKept DEF EngineInv
  <2>3. StepTypes'
    BY <2>1, Parts DEF StepTypes
  <2>4. RunningLive' /\ ScheduledRuns' /\ ScanRuns'
    <3>1. Members(scan)' = Members(scan)
      BY <2>1 DEF Members
    <3> QED BY <2>1, <3>1, SameWork DEF EngineInv, LoopInv, RunningLive, ScheduledRuns, ScanRuns
  <2> QED BY <2>1, <2>2, <2>3, <2>4, SameWork, Bookkeeping
<1> QED BY <1>1, <1>2, <1>3, <1>4 DEF Next, EngineThread

\* The inductive invariant holds for every set of requests, pool and budget.
THEOREM EngineInvHolds == Spec => []EngineInv
BY EngineStarts, EngineSteps, PTL DEF Spec

\* Types of the engine's state: budgets and reservations never go below zero, a chunk always
\* feeds something (Scheduler.schedule).
THEOREM EngineTypeCorrect == Spec => []EngineTypeOK
<1>1. EngineInv => EngineTypeOK
  BY DEF EngineInv
<1> QED BY <1>1, EngineInvHolds, PTL

\* No request is lost, queued twice, or holds KV outside the queues, whatever is preempted,
\* rolled back, aborted or retired (Scheduler.waiting, Scheduler.running, Request.state).
THEOREM QueuesConsistentHolds == Spec => []QueuesConsistent
<1>1. EngineInv => QueuesConsistent
  BY DEF EngineInv
<1> QED BY <1>1, EngineInvHolds, PTL

\* The engine keeps every reference count of the KV memory exact and its free list the
\* unreferenced blocks: it never releases twice and never leaks (LLMEngine.step).
THEOREM EngineMemoryHolds == Spec => []RefAccounting
<1>1. EngineInv => RefAccounting
  BY DEF EngineInv, KVInv
<1> QED BY <1>1, EngineInvHolds, PTL

-----------------------------------------------------------------------------
(* What a call on the KV memory leaves to the sequences it is not about.   *)

\* A set has as many pairs over one request as it has elements.
LEMMA Tagged ==
  ASSUME NEW I, IsFiniteSet(I), NEW r
  PROVE  IsFiniteSet({r} \X I) /\ Cardinality({r} \X I) = Cardinality(I)
<1> DEFINE f == [i \in I |-> <<r, i>>]
<1>1. f \in Surjection(I, {r} \X I) /\ f \in Injection(I, {r} \X I)
  <2>1. f \in [I -> {r} \X I] /\ \A i \in I : f[i] = <<r, i>>
    OBVIOUS
  <2> HIDE DEF f
  <2>2. \A t \in {r} \X I : \E i \in I : f[i] = t
    <3>1. \A t \in {r} \X I : t[2] \in I /\ t = <<r, t[2]>>
      OBVIOUS
    <3> QED BY <2>1, <3>1
  <2>3. \A i, j \in I : f[i] = f[j] => i = j
    BY <2>1
  <2> QED BY <2>1, <2>2, <2>3 DEF Surjection, Injection, IsInjective
<1> HIDE DEF f
<1> QED BY <1>1, FS_Surjection

\* A bijective image has as many elements.
LEMMA ImageSize ==
  ASSUME NEW I, IsFiniteSet(I), NEW T, NEW f \in [I -> T],
         \A i, j \in I : f[i] = f[j] => i = j
  PROVE  /\ IsFiniteSet(Image(f)) /\ Cardinality(Image(f)) = Cardinality(I)
         /\ Image(f) \subseteq T /\ \A i \in I : f[i] \in Image(f)
<1>1. /\ f \in Surjection(I, Image(f)) /\ f \in Injection(I, Image(f))
      /\ Image(f) \subseteq T /\ \A i \in I : f[i] \in Image(f)
  BY DEF Surjection, Injection, IsInjective, Image
<1> QED BY <1>1, FS_Surjection

\* Only the blocks behind the full ones of a sequence may be written: they are its own.
Private(s) ==
  \A i \in DOMAIN table[s] : i > Len(text[s]) \div BlockSize => ref[table[s][i]] = 1

\* A forward pass that starts at the end of a sequence or behind it and finds its blocks
\* private takes exactly the blocks its table lacks and goes through.
LEMMA PrivateWrite ==
  ASSUME KVInv, NEW s \in Seqs, NEW start \in Nat, NEW toks \in Seq(Tokens),
         Len(text[s]) <= start, Private(s), Write(s, start, toks)
  PROVE  LET grow == Missing(s, start + Len(toks))
         IN  /\ IsFiniteSet(grow) /\ Cardinality(grow) <= NumFree /\ Len(toks) > 0
             /\ NumFree' = NumFree - Cardinality(grow)
             /\ Len(text'[s]) = start + Len(toks)
             /\ s \in open /\ open' = open /\ tree' = tree
             /\ \A t \in Seqs \ {s} : table'[t] = table[t] /\ text'[t] = text[t]
             /\ \A b \in Blocks : ref[b] # 0 => ref'[b] = ref[b]
             /\ \A i \in DOMAIN table'[s] :
                  \/ i \in DOMAIN table[s] /\ table'[s][i] = table[s][i]
                  \/ ref'[table'[s][i]] = 1
             /\ text'[s] = [p \in 1..start |-> IF p <= Len(text[s]) THEN text[s][p]
                                                 ELSE Unwritten] \o toks
<1> DEFINE n == Len(toks)
           m == Len(table[s])
           B == BlocksFor(start + n)
           M == Max2(m, B)
           grow == Missing(s, start + n)
           shared == {i \in DOMAIN table[s] :
                        i \in IndexOf(start + 1)..IndexOf(start + n) /\ Shared(table[s][i])}
           copies == {i \in shared : Cardinality({j \in shared : j <= i})
                                       <= NumFree - Cardinality(grow)}
           fresh == Fresh(grow \cup copies)
           blocks == [i \in 1..M |-> IF i \in grow \cup copies THEN fresh[i] ELSE table[s][i]]
           fed == [p \in 1..start |-> IF p <= Len(text[s]) THEN text[s][p] ELSE Unwritten] \o toks
<1>1. /\ s \in open /\ n > 0 /\ Cardinality(grow) <= NumFree
      /\ table' = [table EXCEPT ![s] = blocks]
      /\ ref' = [b \in Blocks |->
                   IF b \in Image(fresh) THEN 1
                   ELSE ref[b] - Cardinality(Places(table[s], b) \cap copies)]
      /\ free' = (free \ Image(fresh)) \cup {b \in Blocks : ref[b] > 0 /\ ref'[b] = 0}
      /\ text' = IF copies = shared THEN [text EXCEPT ![s] = fed] ELSE text
      /\ open' = open /\ tree' = tree
  BY DEF Write, Recycle
<1>2. /\ KVTypeOK /\ RefAccounting
      /\ n \in Nat /\ m \in Nat /\ B \in Nat /\ M \in Nat
      /\ table[s] \in Seq(Blocks) /\ DOMAIN table[s] = 1..m
      /\ grow = (m + 1)..B /\ copies \subseteq shared
      /\ 1..M = (1..m) \cup grow
      /\ fresh \in [grow \cup copies -> free]
      /\ \A i, j \in grow \cup copies : fresh[i] = fresh[j] => i = j
  BY <1>1, WriteFresh DEF KVInv
<1>3. shared = {}
  <2>1. Len(text[s]) \in Nat /\ BlockSize \in Nat \ {0}
    BY <1>2, KVAssumption DEF KVTypeOK, Fed
  <2>2. IndexOf(start + 1) > Len(text[s]) \div BlockSize /\ IndexOf(start + 1) \in Int
    <3> DEFINE l == Len(text[s])
    <3>1. l + 1 \in Nat \ {0} /\ start + 1 \in Nat \ {0} /\ l + 1 <= start + 1
      BY <2>1
    <3>2. l \div BlockSize \in Nat /\ IndexOf(l + 1) = (l \div BlockSize) + 1
      <4>1. l \in Nat /\ (l + 1) - 1 = l
        BY <2>1
      <4> HIDE DEF l
      <4>2. l \div BlockSize \in Nat
        BY <2>1, <4>1
      <4> QED BY <4>1, <4>2 DEF IndexOf
    <3> HIDE DEF l
    <3>3. IndexOf(l + 1) <= IndexOf(start + 1) /\ IndexOf(start + 1) \in Nat
      BY <3>1, IndexMonotonic, IndexAt
    <3>4. \A a, c \in Nat : a + 1 <= c => c > a
      OBVIOUS
    <3>5. IndexOf(start + 1) > l \div BlockSize
      BY <3>2, <3>3, <3>4
    <3> QED BY <3>3, <3>5 DEF l
  <2>3. Len(text[s]) \div BlockSize \in Int
    BY <2>1
  <2>4. ASSUME NEW i \in DOMAIN table[s], i \in IndexOf(start + 1)..IndexOf(start + n)
        PROVE  ~Shared(table[s][i])
    <3>1. i \in Int /\ i >= IndexOf(start + 1)
      BY <2>4
    <3>2. i > Len(text[s]) \div BlockSize
      BY <2>2, <2>3, <3>1
    <3>3. ref[table[s][i]] = 1
      BY <2>4, <3>2 DEF Private
    <3> QED BY <3>3 DEF Shared
  <2> QED BY <2>4
<1>4. copies = {} /\ grow \cup copies = grow
  <2> HIDE DEF shared, grow
  <2> QED BY <1>2, <1>3
<1>5. IsFiniteSet(grow)
  <2>1. m + 1 \in Int /\ B \in Int
    BY <1>2
  <2> HIDE DEF m, B, grow
  <2> QED BY <1>2, <2>1, FS_Interval
<1>6. /\ IsFiniteSet(Image(fresh)) /\ Cardinality(Image(fresh)) = Cardinality(grow)
      /\ Image(fresh) \subseteq free /\ \A i \in grow : fresh[i] \in Image(fresh)
  <2>1. fresh \in [grow -> free] /\ \A i, j \in grow : fresh[i] = fresh[j] => i = j
    <3> HIDE DEF fresh, grow, copies
    <3> QED BY <1>2, <1>4
  <2> HIDE DEF fresh, grow
  <2> QED BY <1>5, <2>1, ImageSize
<1>7. \A b \in Blocks : ref'[b] = IF b \in Image(fresh) THEN 1 ELSE ref[b]
  <2> HIDE DEF fresh, copies
  <2> SUFFICES ASSUME NEW b \in Blocks PROVE ref'[b] = IF b \in Image(fresh) THEN 1 ELSE ref[b]
    OBVIOUS
  <2>1. Cardinality(Places(table[s], b) \cap copies) = 0
    <3>1. Places(table[s], b) \cap copies = {}
      BY <1>4
    <3> QED BY <3>1, FS_EmptySet
  <2>2. ref[b] - 0 = ref[b]
    BY <1>2 DEF KVTypeOK
  <2>3. ref'[b] = IF b \in Image(fresh) THEN 1
                  ELSE ref[b] - Cardinality(Places(table[s], b) \cap copies)
    BY <1>1
  <2> QED BY <2>1, <2>2, <2>3
<1>8. \A b \in Blocks : ref[b] # 0 => b \notin Image(fresh) /\ ref'[b] = ref[b]
  <2> HIDE DEF fresh
  <2> QED BY <1>2, <1>6, <1>7 DEF RefAccounting
<1>9. NumFree' = NumFree - Cardinality(grow)
  <2> HIDE DEF fresh, grow
  <2>1. free' = free \ Image(fresh)
    <3>1. \A b \in Blocks : ref[b] > 0 => ref[b] # 0
      OBVIOUS
    <3>2. {b \in Blocks : ref[b] > 0 /\ ref'[b] = 0} = {}
      BY <1>8, <3>1
    <3> QED BY <1>1, <3>2
  <2>2. free \cap Image(fresh) = Image(fresh)
    BY <1>6
  <2>3. Cardinality(free \ Image(fresh)) = Cardinality(free) - Cardinality(Image(fresh))
    BY <1>2, <2>2, FreeFinite, FS_Difference DEF KVInv
  <2> QED BY <1>6, <2>1, <2>3 DEF NumFree
<1>10. /\ text' = [text EXCEPT ![s] = fed] /\ text'[s] = fed
       /\ \A t \in Seqs \ {s} : text'[t] = text[t]
  <2> HIDE DEF fed, copies, shared
  <2>1. text' = [text EXCEPT ![s] = fed]
    BY <1>1, <1>3, <1>4
  <2> QED BY <1>2, <2>1 DEF KVTypeOK
<1>11. Len(fed) = start + n
  <2> DEFINE old == [p \in 1..start |-> IF p <= Len(text[s]) THEN text[s][p] ELSE Unwritten]
  <2>1. text[s] \in Fed /\ toks \in Fed
    BY <1>2 DEF KVTypeOK, Fed
  <2>2. old \in [1..start -> Tokens \cup {Unwritten}]
    BY <2>1 DEF Fed
  <2> HIDE DEF old
  <2>3. old \in Fed /\ Len(old) = start
    BY <2>2, FunIsSeq DEF Fed
  <2>4. PICK S : old \in Seq(S) /\ toks \in Seq(S)
    BY <2>1, <2>3 DEF Fed
  <2>5. Len(old \o toks) = Len(old) + Len(toks)
    BY <2>4
  <2> QED BY <2>3, <2>5 DEF old
<1>12. /\ table'[s] = blocks /\ \A t \in Seqs \ {s} : table'[t] = table[t]
  <2> HIDE DEF blocks
  <2> QED BY <1>1, <1>2 DEF KVTypeOK
<1>13. ASSUME NEW i \in DOMAIN table'[s]
       PROVE  \/ i \in DOMAIN table[s] /\ table'[s][i] = table[s][i]
              \/ ref'[table'[s][i]] = 1
  <2>1. i \in 1..M /\ blocks[i] = IF i \in grow THEN fresh[i] ELSE table[s][i]
    <3> HIDE DEF fresh, grow, copies, M
    <3> QED BY <1>4, <1>12, <1>13
  <2>2. CASE i \in grow
    <3>1. fresh[i] \in Image(fresh) /\ fresh[i] \in Blocks
      <4> HIDE DEF fresh, grow
      <4> QED BY <1>2, <1>6, <2>2 DEF KVTypeOK
    <3> HIDE DEF fresh, grow, blocks
    <3> QED BY <1>7, <1>12, <2>1, <2>2, <3>1
  <2>3. CASE i \notin grow
    <3> HIDE DEF fresh, grow, blocks, m, M
    <3> QED BY <1>2, <1>12, <2>1, <2>3
  <2> QED BY <2>2, <2>3
<1> HIDE DEF fed, grow
<1> QED BY <1>1, <1>5, <1>8, <1>9, <1>10, <1>11, <1>12, <1>13 DEF fed, grow

\* Sequence x has the same KV as before, and what was its own still is.
KeptWhole(x) == table'[x] = table[x] /\ text'[x] = text[x] /\ (Private(x) => Private(x)')

\* More free blocks than before.
LEMMA MoreFree ==
  ASSUME KVInv, KVInv', free \subseteq free'
  PROVE  NumFree' >= NumFree
<1>1. IsFiniteSet(free') /\ free \in SUBSET free' /\ NumFree' = Cardinality(free')
  BY KVAssumption, FS_Subset DEF KVInv, KVTypeOK, NumFree
<1>2. NumFree \in Nat /\ Cardinality(free') \in Nat
  BY <1>1, FreeFinite, FS_CardinalityType DEF KVInv
<1> QED BY <1>1, <1>2, FS_Subset DEF NumFree

\* A block that only one table entry names is named by nothing else.
LEMMA Alone ==
  ASSUME KVInv, NEW s \in Seqs, NEW i \in DOMAIN table[s], ref[table[s][i]] = 1
  PROVE  /\ table[s][i] \in Blocks /\ \A p \in DOMAIN tree : tree[p] # table[s][i]
         /\ \A t \in Seqs : \A j \in DOMAIN table[t] :
              table[t][j] = table[s][i] => t = s /\ j = i
<1>1. /\ \A t \in Seqs : table[t] \in Seq(Blocks) /\ DOMAIN table[t] = 1..Len(table[t])
      /\ table[s][i] \in Blocks
  BY DEF KVInv, KVTypeOK
<1>2. ~Shared(table[s][i])
  BY DEF Shared
<1> QED BY <1>1, <1>2, NamedIsCounted DEF Counted

\* Closing a sequence takes nothing from another.
LEMMA ReleaseLeaves ==
  ASSUME KVInv, NEW r \in Seqs, Release(r)
  PROVE  /\ KVInv' /\ r \in open /\ open' = open \ {r} /\ tree' = tree /\ NumFree' >= NumFree
         /\ \A x \in Seqs \ {r} : KeptWhole(x)
<1>1. /\ r \in open /\ open' = open \ {r} /\ tree' = tree
      /\ table' = [table EXCEPT ![r] = <<>>] /\ text' = [text EXCEPT ![r] = <<>>]
      /\ ref' = [b \in Blocks |-> ref[b] - Cardinality(Places(table[r], b))]
      /\ Recycle({})
  BY DEF Release
<1>2. KVInv'
  BY ReleaseInv
<1>3. NumFree' >= NumFree
  BY <1>1, <1>2, MoreFree DEF Recycle
<1>4. ASSUME NEW x \in Seqs \ {r} PROVE KeptWhole(x)
  <2>1. table'[x] = table[x] /\ text'[x] = text[x]
    BY <1>1 DEF KVInv, KVTypeOK
  <2>2. ASSUME NEW i \in DOMAIN table[x], ref[table[x][i]] = 1 PROVE ref'[table[x][i]] = 1
    <3>1. table[x][i] \in Blocks /\ Places(table[r], table[x][i]) = {}
      BY <2>2, Alone DEF Places
    <3>2. Cardinality(Places(table[r], table[x][i])) = 0
      BY <3>1, FS_EmptySet
    <3>3. ref'[table[x][i]] = ref[table[x][i]] - Cardinality(Places(table[r], table[x][i]))
      BY <1>1, <3>1
    <3> QED BY <2>2, <3>2, <3>3
  <2> QED BY <2>1, <2>2 DEF KeptWhole, Private
<1> QED BY <1>1, <1>2, <1>3, <1>4

\* An eviction drops a cached block that no sequence names.
LEMMA EvictionLeaves ==
  ASSUME KVInv, EvictOne \/ EvictNoMore
  PROVE  /\ KVInv' /\ open' = open /\ NumFree' >= NumFree /\ \A x \in Seqs : KeptWhole(x)
         /\ \A x \in Seqs : Image(table[x]) \subseteq Image(tree)
                              => Image(table[x]) \subseteq Image(tree')
<1>1. CASE EvictOne
  <2>1. PICK p \in LRU : /\ tree' = [q \in DOMAIN tree \ {p} |-> tree[q]]
                         /\ ref' = [ref EXCEPT ![tree[p]] = @ - 1]
    BY <1>1 DEF EvictOne
  <2>2. p \in DOMAIN tree /\ ref[tree[p]] = 1 /\ tree[p] \in Blocks
    BY DEF LRU, Evictable, KVInv, KVTypeOK
  <2>3. /\ open' = open /\ table' = table /\ text' = text /\ Recycle({})
    BY <1>1 DEF EvictOne
  <2>4. KVInv'
    BY <1>1, EvictOneInv
  <2>5. NumFree' >= NumFree
    BY <2>3, <2>4, MoreFree DEF Recycle
  <2>6. ASSUME NEW x \in Seqs, NEW i \in DOMAIN table[x] PROVE table[x][i] # tree[p]
    <3>1. table[x] \in Seq(Blocks) /\ DOMAIN table[x] = 1..Len(table[x])
      BY DEF KVInv, KVTypeOK
    <3>2. ~Shared(tree[p])
      BY <2>2 DEF Shared
    <3> QED BY <2>2, <2>6, <3>1, <3>2, NamedIsCounted DEF Counted
  <2>7. ASSUME NEW x \in Seqs PROVE KeptWhole(x)
    <3>1. \A i \in DOMAIN table[x] : table[x][i] \in Blocks /\ ref'[table[x][i]] = ref[table[x][i]]
      BY <2>1, <2>6 DEF KVInv, KVTypeOK
    <3> QED BY <2>3, <3>1 DEF KeptWhole, Private
  <2>8. ASSUME NEW x \in Seqs, Image(table[x]) \subseteq Image(tree)
        PROVE  Image(table[x]) \subseteq Image(tree')
    <3> SUFFICES ASSUME NEW i \in DOMAIN table[x] PROVE table[x][i] \in Image(tree')
      BY DEF Image
    <3>1. PICK q \in DOMAIN tree : tree[q] = table[x][i]
      BY <2>8 DEF Image
    <3>2. q # p
      BY <2>6, <3>1
    <3>3. q \in DOMAIN tree' /\ tree'[q] = table[x][i]
      BY <2>1, <3>1, <3>2
    <3> QED BY <3>3 DEF Image
  <2> QED BY <2>3, <2>4, <2>5, <2>7, <2>8
<1>2. CASE EvictNoMore
  <2>1. UNCHANGED <<free, ref, open, table, text, data, tree, older>>
    BY <1>2 DEF EvictNoMore
  <2>2. KVInv'
    BY <1>2, EvictInv, 0 \in Nat
  <2>3. NumFree' >= NumFree
    BY <2>1, <2>2, MoreFree
  <2> QED BY <2>1, <2>2, <2>3 DEF KeptWhole, Private
<1> QED BY <1>1, <1>2

\* Adopting a cached prefix gives references to cached blocks only; the new sequence holds
\* full blocks and nothing behind them.
LEMMA OpenLeaves ==
  ASSUME KVInv, NEW r \in Seqs, NEW p \in Prompts, Open(r, p)
  PROVE  /\ KVInv' /\ r \notin open /\ open' = open \cup {r} /\ tree' = tree /\ free' = free
         /\ \A x \in Seqs \ {r} : KeptWhole(x)
         /\ Private(r)' /\ Image(table'[r]) \subseteq Image(tree)
         /\ \E n \in 0..(Len(p) - 1) : /\ Caching \/ n = 0
                                       /\ text'[r] = SubSeq(p, 1, n) /\ Len(text'[r]) = n
<1>1. PICK k \in 0..Len(p) :
        LET hit == [i \in 1..k |-> tree[Path(p, i)]]
        IN  /\ MatchIs(p, k)
            /\ table' = [table EXCEPT ![r] = hit]
            /\ text' = [text EXCEPT ![r] = SubSeq(p, 1, k * BlockSize)]
            /\ ref' = [b \in Blocks |-> ref[b] + Cardinality(Places(hit, b))]
            /\ UNCHANGED <<free, data, tree, toEvict>>
  BY DEF Open
<1>2. r \notin open /\ open' = open \cup {r}
  BY DEF Open
<1> DEFINE hit == [i \in 1..k |-> tree[Path(p, i)]]
<1>3. /\ table'[r] = hit /\ text'[r] = SubSeq(p, 1, k * BlockSize)
      /\ \A x \in Seqs \ {r} : table'[x] = table[x] /\ text'[x] = text[x]
      /\ \A i \in 1..k : hit[i] = tree[Path(p, i)] /\ Path(p, i) \in DOMAIN tree
      /\ DOMAIN hit = 1..k
  <2>1. \A i \in 1..k : Path(p, i) \in DOMAIN tree
    BY <1>1 DEF MatchIs
  <2>2. \A i \in 1..k : hit[i] = tree[Path(p, i)]
    OBVIOUS
  <2> HIDE DEF hit
  <2>3. table' = [table EXCEPT ![r] = hit]
    BY <1>1 DEF hit
  <2>4. DOMAIN hit = 1..k
    BY DEF hit
  <2> QED BY <1>1, <2>1, <2>2, <2>3, <2>4 DEF KVInv, KVTypeOK
<1>4. KVInv'
  BY OpenInv
<1>5. /\ p \in Seq(Tokens) /\ Len(p) \in Nat /\ k \in Nat
      /\ k * BlockSize \in 0..(Len(p) - 1) /\ (Caching \/ k * BlockSize = 0)
  <2>1. /\ p \in Seq(Tokens) /\ Len(p) \in Nat /\ k \in Nat
        /\ k * BlockSize \in 0..(Len(p) - 1)
    BY <1>1, MatchBounds
  <2>2. ~Caching => k = 0
    BY <1>1 DEF MatchIs, Usable
  <2>3. 0 * BlockSize = 0
    BY KVAssumption
  <2> QED BY <2>1, <2>2, <2>3
<1>6. Len(text'[r]) = k * BlockSize
  <2>1. k * BlockSize \in 0..Len(p)
    BY <1>5
  <2> QED BY <1>3, <1>5, <2>1, Prefixes
<1>7. ASSUME NEW x \in Seqs \ {r} PROVE KeptWhole(x)
  <2>1. ASSUME NEW i \in DOMAIN table[x], ref[table[x][i]] = 1 PROVE ref'[table[x][i]] = 1
    <3>1. table[x][i] \in Blocks /\ \A q \in DOMAIN tree : tree[q] # table[x][i]
      BY <2>1, Alone
    <3>2. Places(hit, table[x][i]) = {}
      <4> HIDE DEF hit
      <4> QED BY <1>3, <3>1 DEF Places
    <3> HIDE DEF hit
    <3>3. ref'[table[x][i]] = ref[table[x][i]] + Cardinality(Places(hit, table[x][i]))
      BY <1>1, <3>1 DEF hit
    <3>4. Cardinality(Places(hit, table[x][i])) = 0
      BY <3>2, FS_EmptySet
    <3> QED BY <2>1, <3>3, <3>4
  <2> HIDE DEF hit
  <2> QED BY <1>3, <2>1 DEF KeptWhole, Private
<1>8. Private(r)'
  <2>1. Len(text'[r]) \div BlockSize = k
    BY <1>5, <1>6, BlocksForFull
  <2>2. \A i \in DOMAIN table'[r] : ~(i > k)
    <3> HIDE DEF hit
    <3> QED BY <1>3, <1>5
  <2> QED BY <2>1, <2>2 DEF Private
<1>9. Image(table'[r]) \subseteq Image(tree)
  <2> HIDE DEF hit
  <2> QED BY <1>3 DEF Image
<1>10. tree' = tree /\ free' = free
  BY <1>1
<1> QED BY <1>2, <1>3, <1>4, <1>5, <1>6, <1>7, <1>8, <1>9, <1>10

\* Only full blocks enter the cache.
LEMMA PublishLeaves ==
  ASSUME KVInv, NEW r \in Seqs, NEW toks \in Fed, Publish(r, toks)
  PROVE  /\ KVInv' /\ open' = open /\ free' = free /\ \A x \in Seqs : KeptWhole(x)
         /\ Image(tree) \subseteq Image(tree')
<1> DEFINE k == Min2(FullBlocks(r), Len(toks) \div BlockSize)
           walked == {Path(toks, i) : i \in 1..k}
           added == walked \ DOMAIN tree
           BlockOf(q) == table[r][Len(q) \div BlockSize]
<1>1. /\ r \in open /\ UNCHANGED <<free, open, table, text, data>>
      /\ tree' = [q \in DOMAIN tree \cup walked |->
                    IF q \in added THEN BlockOf(q) ELSE tree[q]]
      /\ ref' = [b \in Blocks |-> ref[b] + Cardinality({q \in added : BlockOf(q) = b})]
  BY DEF Publish
<1>2. KVInv'
  BY PublishInv
<1>3. /\ k \in Nat /\ k <= Len(toks) \div BlockSize /\ k <= FullBlocks(r)
      /\ FullBlocks(r) \in Nat /\ FullBlocks(r) <= Len(table[r]) /\ Len(table[r]) \in Nat
      /\ DOMAIN table[r] = 1..Len(table[r])
  <2>1. Len(text[r]) \in Nat /\ Len(toks) \in Nat /\ table[r] \in Seq(Blocks)
    BY DEF KVInv, KVTypeOK, Fed
  <2>2. FullBlocks(r) \in Nat /\ Len(toks) \div BlockSize \in Nat
    BY <2>1, BlocksForType DEF FullBlocks
  <2>3. FullBlocks(r) <= Len(table[r])
    <3>1. /\ FullBlocks(r) <= BlocksFor(Len(text[r])) /\ BlocksFor(Len(text[r])) <= Len(table[r])
          /\ BlocksFor(Len(text[r])) \in Nat
      BY <2>1, BlocksForType DEF FullBlocks, KVInv, TablesCover
    <3> QED BY <2>1, <2>2, <3>1
  <2> QED BY <2>1, <2>2, <2>3 DEF Min2
<1>4. \A q \in walked : Len(q) \div BlockSize \in 1..k
  <2> SUFFICES ASSUME NEW i \in 1..k PROVE Len(Path(toks, i)) \div BlockSize \in 1..k
    OBVIOUS
  <2> HIDE DEF k
  <2>1. i \in Nat \ {0} /\ i <= Len(toks) \div BlockSize
    <3>1. Len(toks) \div BlockSize \in Nat
      BY BlocksForType DEF Fed
    <3> QED BY <1>3, <3>1
  <2> QED BY <2>1, Paths
<1>5. ASSUME NEW x \in Seqs PROVE KeptWhole(x)
  <2>1. ASSUME NEW i \in DOMAIN table[x], i > Len(text[x]) \div BlockSize, ref[table[x][i]] = 1
        PROVE  ref'[table[x][i]] = 1
    <3>1. table[x][i] \in Blocks
      BY <2>1, Alone
    <3>2. ASSUME NEW q \in added, BlockOf(q) = table[x][i] PROVE FALSE
      <4>1. Len(q) \div BlockSize \in 1..k
        BY <1>4
      <4>2. Len(q) \div BlockSize \in DOMAIN table[r] /\ Len(q) \div BlockSize <= FullBlocks(r)
        <5> HIDE DEF k
        <5> QED BY <1>3, <4>1
      <4>3. x = r /\ i = Len(q) \div BlockSize
        <5> HIDE DEF added
        <5> QED BY <2>1, <3>2, <4>2, Alone
      <4> HIDE DEF added, k
      <4> QED BY <1>3, <2>1, <4>1, <4>2, <4>3 DEF FullBlocks
    <3>3. {q \in added : BlockOf(q) = table[x][i]} = {}
      BY <3>2
    <3> HIDE DEF added, BlockOf
    <3>4. ref'[table[x][i]] = ref[table[x][i]]
                                + Cardinality({q \in added : BlockOf(q) = table[x][i]})
      BY <1>1, <3>1
    <3>5. Cardinality({q \in added : BlockOf(q) = table[x][i]}) = 0
      BY <3>3, FS_EmptySet
    <3> QED BY <2>1, <3>4, <3>5
  <2> QED BY <1>1, <2>1 DEF KeptWhole, Private
<1>6. Image(tree) \subseteq Image(tree')
  <2>1. \A q \in DOMAIN tree : q \in DOMAIN tree' /\ tree'[q] = tree[q]
    BY <1>1
  <2> QED BY <2>1 DEF Image
<1> QED BY <1>1, <1>2, <1>5, <1>6

\* A forward pass into private blocks leaves the other sequences alone.
LEMMA WriteLeaves ==
  ASSUME KVInv, NEW s \in Seqs, NEW start \in Nat, NEW toks \in Seq(Tokens),
         Len(text[s]) <= start, Private(s), Write(s, start, toks)
  PROVE  Private(s)' /\ \A x \in Seqs \ {s} : KeptWhole(x)
<1>1. /\ Len(text'[s]) = start + Len(toks)
      /\ \A t \in Seqs \ {s} : table'[t] = table[t] /\ text'[t] = text[t]
      /\ \A b \in Blocks : ref[b] # 0 => ref'[b] = ref[b]
      /\ \A i \in DOMAIN table'[s] :
           \/ i \in DOMAIN table[s] /\ table'[s][i] = table[s][i]
           \/ ref'[table'[s][i]] = 1
  BY PrivateWrite
<1>2. \A x \in Seqs : \A i \in DOMAIN table[x] :
         table[x][i] \in Blocks /\ (ref[table[x][i]] = 1 => ref'[table[x][i]] = 1)
  BY <1>1 DEF KVInv, KVTypeOK
<1>3. Private(s)'
  <2>1. Len(text[s]) \in Nat /\ Len(toks) \in Nat /\ DOMAIN table'[s] \subseteq Int
    <3>1. KVInv'
      BY WriteInv
    <3> QED BY <3>1 DEF KVInv, KVTypeOK, Fed
  <2>2. Len(text[s]) \div BlockSize <= (start + Len(toks)) \div BlockSize
    <3> DEFINE l == Len(text[s])
               e == start + Len(toks)
    <3>1. l + 1 \in Nat \ {0} /\ e + 1 \in Nat \ {0} /\ l + 1 <= e + 1 /\ l \in Nat /\ e \in Nat
      BY <2>1
    <3> HIDE DEF l, e
    <3>2. IndexOf(l + 1) <= IndexOf(e + 1)
      BY <3>1, IndexMonotonic
    <3>3. IndexOf(l + 1) = (l \div BlockSize) + 1 /\ IndexOf(e + 1) = (e \div BlockSize) + 1
      <4>1. (l + 1) - 1 = l /\ (e + 1) - 1 = e
        BY <3>1
      <4> QED BY <4>1 DEF IndexOf
    <3>4. l \div BlockSize \in Nat /\ e \div BlockSize \in Nat
      BY <3>1, BlocksForType
    <3> QED BY <3>2, <3>3, <3>4 DEF l, e
  <2>3. Len(text[s]) \div BlockSize \in Nat /\ (start + Len(toks)) \div BlockSize \in Nat
    <3>1. start + Len(toks) \in Nat
      BY <2>1
    <3> QED BY <2>1, <3>1, BlocksForType
  <2>4. ASSUME NEW i \in DOMAIN table'[s], i > Len(text'[s]) \div BlockSize
        PROVE  ref'[table'[s][i]] = 1
    <3>1. i > Len(text[s]) \div BlockSize
      <4>1. i \in Int /\ i > (start + Len(toks)) \div BlockSize
        BY <1>1, <2>1, <2>4
      <4> QED BY <2>2, <2>3, <4>1
    <3> QED BY <1>1, <1>2, <3>1 DEF Private
  <2> QED BY <2>4 DEF Private
<1> QED BY <1>1, <1>2, <1>3 DEF KeptWhole, Private

-----------------------------------------------------------------------------
(* The plan of a step: whom it serves, once, and how far.                  *)

\* The stages of schedule() that visit requests past prefill.
Decoding == {"decode", "decode_room", "decode_retry"}

\* No two chunks of a list are of the same request.
Apart(q) == \A i, j \in DOMAIN q : q[i].req = q[j].req => i = j

\* A step visits a request once: it prefills or decodes it, and is asked for it once.
OneVisit ==
  /\ Distinct(decodes) /\ Apart(chunks)
  /\ pc \in Decoding => chunks = <<>> /\ Members(scan) \cap Members(decodes) = {}
  /\ pc \in Decoding \cup Sized \cup {"prefill", "batch"} => Distinct(scan)
  /\ pc \in {"progress_room", "progress_retry"} => IsEmpty
  /\ pc = "prefill" => \A c \in Members(chunks) : c.req \notin Members(scan)
  /\ pc = "batch" => Members(scan) \subseteq Members(decodes)

\* A chunk goes on where its request stands and knows whether it is the last.
ChunkPlan ==
  \A c \in Members(chunks) :
    c.start = computed[c.req] /\ c.final = (c.start + c.take >= Target(c.req))

\* Only requests whose prompt is in the KV are sized for a decode.
DecodePlan ==
  /\ \A r \in Members(decodes) : PrefillDone(r)
  /\ pc \in Sized => PrefillDone(Head(scan))
  /\ pc = "batch" => \A r \in Members(decodes) : state[r] = "running"

\* A decoding request has fed all its tokens but the last.
Replayed ==
  \A r \in Requests :
    state[r] = "running" => computed[r] = Len(AllTokens(r)) - 1 /\ out[r] # <<>>

Plan == OneVisit /\ ChunkPlan /\ DecodePlan /\ Replayed

\* Taking the first chunk leaves chunks of other requests.
LEMMA ChunkTaken ==
  ASSUME NEW q \in Seq(PrefillChunk), q # <<>>, Apart(q)
  PROVE  Apart(Tail(q)) /\ \A c \in Members(Tail(q)) : c.req # Head(q).req
<1> DEFINE t == Tail(q)
<1>1. /\ Head(q) = q[1] /\ 1 \in DOMAIN q
      /\ DOMAIN t = 1 .. Len(t)
      /\ \A i \in DOMAIN t : i \in Int /\ i + 1 \in DOMAIN q /\ t[i] = q[i + 1] /\ i + 1 # 1
  OBVIOUS
<1> HIDE DEF t
<1>2. ASSUME NEW i \in DOMAIN t, NEW j \in DOMAIN t, t[i].req = t[j].req PROVE i = j
  <2>1. i + 1 = j + 1
    BY <1>1, <1>2 DEF Apart
  <2> QED BY <1>1, <2>1
<1>3. ASSUME NEW i \in DOMAIN t PROVE t[i].req # q[1].req
  BY <1>1 DEF Apart
<1> QED BY <1>1, <1>2, <1>3 DEF Apart, Members, t

\* One more chunk, of a request that has none.
LEMMA ChunkAdded ==
  ASSUME NEW q \in Seq(PrefillChunk), NEW c \in PrefillChunk, NEW a \in Seq(PrefillChunk),
         Behind(a, q, c), Apart(q), \A d \in Members(q) : d.req # c.req
  PROVE  Apart(a)
<1>1. /\ DOMAIN a = 1 .. Len(a) /\ DOMAIN q = 1 .. Len(q) /\ Len(q) \in Nat
      /\ Len(a) = Len(q) + 1 /\ a[Len(q) + 1] = c /\ \A i \in 1 .. Len(q) : a[i] = q[i]
  BY DEF Behind
<1>2. \A i \in 1 .. Len(q) : q[i].req # c.req
  BY <1>1 DEF Members
<1>3. \A i \in DOMAIN a : i \in 1 .. Len(q) \/ i = Len(q) + 1
  BY <1>1
<1>4. \A i, j \in 1 .. Len(q) : q[i].req = q[j].req => i = j
  BY <1>1 DEF Apart
<1> HIDE DEF PrefillChunk
<1> QED BY <1>1, <1>2, <1>3, <1>4 DEF Apart

\* Requests, chunks and decodes stay, the thread moves on.
LEMMA PlanMoves ==
  ASSUME EngineInv, Plan, UNCHANGED <<reqvars, chunks, decodes>>,
         pc' \in Decoding => chunks = <<>> /\ Members(scan') \cap Members(decodes) = {},
         pc' \in Decoding \cup Sized \cup {"prefill", "batch"} => Distinct(scan'),
         pc' \in {"progress_room", "progress_retry"} => IsEmpty,
         pc' = "prefill" => \A c \in Members(chunks) : c.req \notin Members(scan'),
         pc' \in Sized => PrefillDone(Head(scan')),
         pc' = "batch" => pc = "batch" /\ Members(scan') \subseteq Members(decodes)
  PROVE  Plan'
<1>1. /\ state' = state /\ prompt' = prompt /\ out' = out /\ computed' = computed
      /\ chunks' = chunks /\ decodes' = decodes
  BY DEF reqvars
<1>2. /\ Members(chunks)' = Members(chunks) /\ Members(decodes)' = Members(decodes)
      /\ Members(scan)' = Members(scan') /\ Distinct(scan)' = Distinct(scan')
      /\ Distinct(decodes)' = Distinct(decodes) /\ Apart(chunks)' = Apart(chunks)
      /\ IsEmpty' = IsEmpty
  BY <1>1 DEF Members, Distinct, Apart, IsEmpty
<1>3. OneVisit'
  BY <1>1, <1>2 DEF Plan, OneVisit
<1>4. ChunkPlan'
  BY <1>1, <1>2 DEF Plan, ChunkPlan, Target
<1>5. /\ \A r : PrefillDone(r)' = PrefillDone(r)
      /\ PrefillDone(Head(scan))' = PrefillDone(Head(scan'))
  BY <1>1 DEF PrefillDone, Target
<1>6. DecodePlan'
  BY <1>1, <1>2, <1>5 DEF Plan, DecodePlan
<1>7. Replayed'
  BY <1>1 DEF Plan, Replayed, AllTokens
<1> QED BY <1>3, <1>4, <1>6, <1>7 DEF Plan

\* The steps that plan nothing and leave the requests alone.
LEMMA PlanWaits ==
  ASSUME EngineInv, Plan,
         \/ BeginStep \/ RoomMade \/ DecodesDone \/ PrefillsDone \/ AdmitRefuse \/ AdmitDone
         \/ BreakStall \/ AdvanceHead \/ NothingToForce \/ CacheEviction \/ DecodeWrite
         \/ BeginRetire \/ RetireSkip \/ RetirePublish \/ RetireRelease \/ EndStep
         \/ UNCHANGED vars
  PROVE  Plan'
<1>1. Distinct(running) /\ Distinct(decodes) /\ running \in Seq(Requests) /\ scan \in Seq(Requests)
  BY Parts DEF Plan, OneVisit
<1>2. CASE BeginStep
  <2>1. /\ pc = "idle" /\ pc' = "decode" /\ scan' = running
        /\ UNCHANGED <<reqvars, chunks, decodes>>
    BY <1>2 DEF BeginStep
  <2>2. chunks = <<>> /\ Members(decodes) = {}
    BY <2>1 DEF EngineInv, LoopInv, ScheduledRuns, Members
  <2>3. Distinct(scan')
    BY <1>1, <2>1 DEF Distinct
  <2> QED BY <2>1, <2>2, <2>3, PlanMoves DEF Sized
<1>3. CASE RoomMade
  <2>1. /\ UNCHANGED <<reqvars, chunks, decodes>> /\ scan' = scan
        /\ \/ pc = "decode_room" /\ pc' = "decode_retry"
           \/ pc = "progress_room" /\ pc' = "progress_retry"
    BY <1>3 DEF RoomMade, RoomRetry
  <2> QED BY <2>1, PlanMoves DEF Sized, Decoding, Plan, OneVisit, DecodePlan
<1>4. CASE DecodesDone
  <2>1. /\ pc = "decode" /\ pc' = "prefill" /\ scan' = running
        /\ UNCHANGED <<reqvars, chunks, decodes>>
    BY <1>4 DEF DecodesDone
  <2>2. Members(chunks) = {}
    BY <2>1 DEF Plan, OneVisit, Decoding, Members
  <2>3. Distinct(scan')
    BY <1>1, <2>1 DEF Distinct
  <2> QED BY <2>1, <2>2, <2>3, PlanMoves DEF Sized, Decoding
<1>5. CASE PrefillsDone \/ AdmitRefuse \/ AdmitDone \/ BreakStall \/ NothingToForce
  <2>1. /\ UNCHANGED <<reqvars, chunks, decodes>> /\ pc' \in {"admit", "progress", "execute"}
    BY <1>5 DEF PrefillsDone, AdmitRefuse, AdmitDone, BreakStall, NothingToForce, locals
  <2> QED BY <2>1, PlanMoves DEF Sized, Decoding
<1>6. CASE AdvanceHead
  <2>1. /\ UNCHANGED <<reqvars, chunks, decodes>> /\ HeadMayDecode
        /\ pc' \in {"progress_room", "progress_retry"} /\ scan' = <<Head(running)>>
    BY <1>6 DEF AdvanceHead, MakeRoom
  <2>2. Distinct(scan') /\ Head(scan') = Head(running)
    BY <2>1 DEF Distinct
  <2> QED BY <2>1, <2>2, PlanMoves DEF HeadMayDecode, Decoding
<1>7. CASE CacheEviction \/ UNCHANGED vars
  <2>1. /\ UNCHANGED <<reqvars, chunks, decodes>> /\ pc' = pc /\ scan' = scan
    BY <1>7 DEF CacheEviction, vars, locals
  <2> QED BY <2>1, PlanMoves DEF Plan, OneVisit, DecodePlan
<1>8. CASE DecodeWrite
  <2>1. /\ UNCHANGED <<reqvars, chunks, decodes>> /\ pc = "batch" /\ pc' \in {"batch", "crashed"}
        /\ scan # <<>> /\ scan' = Tail(scan)
    BY <1>8 DEF DecodeWrite, OrCrash
  <2>2. Distinct(scan) /\ Members(scan) \subseteq Members(decodes)
    BY <2>1 DEF Plan, OneVisit
  <2>3. Distinct(scan') /\ Members(scan') \subseteq Members(decodes)
    BY <1>1, <2>1, <2>2, Taking
  <2> QED BY <2>1, <2>3, PlanMoves DEF Sized, Decoding
<1>9. CASE BeginRetire \/ RetireSkip \/ RetirePublish \/ RetireRelease \/ EndStep
  <2>1. /\ UNCHANGED <<reqvars, chunks, decodes>> /\ pc' \in {"retire", "release", "idle"}
    BY <1>9 DEF BeginRetire, RetireSkip, RetirePublish, RetireRelease, EndStep, locals
  <2> QED BY <2>1, PlanMoves DEF Sized, Decoding
<1> QED BY <1>2, <1>3, <1>4, <1>5, <1>6, <1>7, <1>8, <1>9

\* Stage 1 takes a request whose prompt is in the KV.
LEMMA PlanDecode ==
  ASSUME EngineInv, Plan, pc \in {"decode", "decode_retry"}, pc' = "decode", scan # <<>>,
         PrefillDone(Head(scan)), ScheduleDecode(Head(scan)), UNCHANGED reqvars
  PROVE  Plan'
<1> DEFINE r == Head(scan)
<1>1. /\ scan' = Tail(scan) /\ decodes' = Append(decodes, r) /\ chunks' = chunks
      /\ chunks = <<>>
      /\ state' = state /\ prompt' = prompt /\ out' = out /\ computed' = computed
  BY DEF ScheduleDecode, reqvars, Plan, OneVisit, Decoding
<1>2. /\ scan \in Seq(Requests) /\ decodes \in Seq(Requests) /\ Distinct(scan) /\ Distinct(decodes)
      /\ Members(scan) \cap Members(decodes) = {}
  BY Parts DEF Plan, OneVisit, Decoding
<1>3. /\ r \in Requests /\ r \in Members(scan) /\ Members(Tail(scan)) \subseteq Members(scan)
      /\ Distinct(Tail(scan)) /\ r \notin Members(Tail(scan))
  BY <1>2, Taking
<1>4. Members(decodes') = Members(decodes) \cup {r} /\ Distinct(decodes')
  <2> HIDE DEF r
  <2>1. decodes' \in Seq(Requests) /\ Behind(decodes', decodes, r)
    BY <1>1, <1>2, <1>3 DEF Behind
  <2> QED BY <1>2, <1>3, <2>1, Appended
<1>5. /\ Members(scan)' = Members(Tail(scan)) /\ Distinct(scan)' = Distinct(Tail(scan))
      /\ Members(decodes)' = Members(decodes') /\ Distinct(decodes)' = Distinct(decodes')
      /\ Members(chunks)' = {} /\ Apart(chunks)' = Apart(chunks)
      /\ \A x : PrefillDone(x)' = PrefillDone(x)
  BY <1>1 DEF Members, Distinct, Apart, PrefillDone, Target
<1> HIDE DEF r
<1>6. OneVisit'
  BY <1>1, <1>2, <1>3, <1>4, <1>5 DEF Plan, OneVisit, Decoding
<1>7. ChunkPlan' /\ DecodePlan'
  BY <1>4, <1>5 DEF Plan, ChunkPlan, DecodePlan, Sized, r
<1>8. Replayed'
  BY <1>1 DEF Plan, Replayed, AllTokens
<1> QED BY <1>6, <1>7, <1>8 DEF Plan

\* Stage 1 skips, schedules or sizes a request.
LEMMA PlanStage1 ==
  ASSUME EngineInv, Plan, DecodeScan \/ DecodeRetry
  PROVE  Plan'
<1>1. /\ UNCHANGED reqvars /\ pc \in {"decode", "decode_retry"}
      /\ pc = "decode" => scan # <<>>
      /\ pc = "decode_retry" => scan # <<>> /\ PrefillDone(Head(scan))
  BY DEF DecodeScan, DecodeRetry, Plan, DecodePlan, EngineInv, LoopInv, ScanRuns, Sized
<1>2. /\ scan \in Seq(Requests) /\ Distinct(scan) /\ Members(scan) \cap Members(decodes) = {}
      /\ chunks = <<>>
  BY <1>1, Parts DEF Plan, OneVisit, Decoding
<1>3. Members(Tail(scan)) \subseteq Members(scan) /\ Distinct(Tail(scan))
  BY <1>1, <1>2, Taking
<1>4. \/ pc' = "decode" /\ Skip
      \/ pc' = "decode" /\ ScheduleDecode(Head(scan)) /\ PrefillDone(Head(scan))
      \/ /\ pc' = "decode_room" /\ UNCHANGED <<chunks, decodes, scan>>
         /\ PrefillDone(Head(scan))
  BY <1>1 DEF DecodeScan, DecodeRetry, MakeRoom
<1>5. CASE pc' = "decode" /\ Skip
  <2>1. UNCHANGED <<reqvars, chunks, decodes>> /\ scan' = Tail(scan)
    BY <1>1, <1>5 DEF Skip
  <2> QED BY <1>2, <1>3, <1>5, <2>1, PlanMoves DEF Sized, Decoding
<1>6. CASE pc' = "decode" /\ ScheduleDecode(Head(scan)) /\ PrefillDone(Head(scan))
  BY <1>1, <1>6, PlanDecode
<1>7. CASE /\ pc' = "decode_room" /\ UNCHANGED <<chunks, decodes, scan>>
           /\ PrefillDone(Head(scan))
  BY <1>1, <1>2, <1>7, PlanMoves DEF Sized, Decoding
<1> QED BY <1>4, <1>5, <1>6, <1>7

\* The decodes of a step become the forced one, or the batch.
LEMMA PlanBatch ==
  ASSUME EngineInv, Plan, ProgressRetry \/ BeginBatch
  PROVE  Plan'
<1>1. /\ state' = state /\ prompt' = prompt /\ out' = out /\ computed' = computed
      /\ chunks' = chunks
  BY DEF ProgressRetry, BeginBatch, reqvars
<1>2. scan \in Seq(Requests) /\ decodes \in Seq(Requests) /\ Distinct(decodes)
  BY Parts DEF Plan, OneVisit
<1>3. /\ Distinct(decodes') /\ pc' \in {"execute", "batch"}
      /\ \A r \in Members(decodes') : PrefillDone(r)
      /\ pc' = "batch" => scan' = decodes' /\ \A r \in Members(decodes') : state[r] = "running"
  <2>1. CASE ProgressRetry
    <3>1. /\ pc = "progress_retry" /\ pc' = "execute"
          /\ decodes' = scan \/ decodes' = decodes
      BY <2>1 DEF ProgressRetry
    <3>2. Distinct(scan) /\ Members(scan) = {Head(scan)} /\ PrefillDone(Head(scan))
      BY <3>1 DEF EngineInv, LoopInv, ScanRuns, Plan, OneVisit, DecodePlan, Sized, Decoding
    <3>3. \A r \in Members(decodes) : PrefillDone(r)
      BY DEF Plan, DecodePlan
    <3>4. CASE decodes' = scan
      BY <3>1, <3>2, <3>4 DEF Distinct, Members
    <3>5. CASE decodes' = decodes
      BY <1>2, <3>1, <3>3, <3>5 DEF Distinct, Members
    <3> QED BY <3>1, <3>4, <3>5
  <2>2. CASE BeginBatch
    <3> DEFINE T == {r \in open : state[r] = "running"}
    <3>1. decodes' = Keeping(decodes, T) /\ scan' = decodes' /\ pc' = "batch"
      BY <2>2 DEF BeginBatch
    <3>2. \A r \in T : state[r] = "running"
      OBVIOUS
    <3> HIDE DEF T
    <3>3. Members(decodes') = Members(decodes) \cap T /\ Distinct(decodes')
      BY <1>2, <3>1, KeepingFacts
    <3> QED BY <3>1, <3>2, <3>3 DEF Plan, DecodePlan
  <2> QED BY <2>1, <2>2
<1>4. /\ Members(scan)' = Members(scan') /\ Distinct(scan)' = Distinct(scan')
      /\ Members(decodes)' = Members(decodes') /\ Distinct(decodes)' = Distinct(decodes')
      /\ Members(chunks)' = Members(chunks) /\ Apart(chunks)' = Apart(chunks)
      /\ \A x : PrefillDone(x)' = PrefillDone(x) /\ Target(x)' = Target(x)
  BY <1>1 DEF Members, Distinct, Apart, PrefillDone, Target
<1>5. OneVisit'
  <2>1. pc' = "batch" => Distinct(scan') /\ Members(scan') = Members(decodes')
    BY <1>3
  <2> QED BY <1>1, <1>3, <1>4, <2>1 DEF Plan, OneVisit, Decoding, Sized
<1>6. ChunkPlan'
  BY <1>1, <1>4 DEF Plan, ChunkPlan
<1>7. DecodePlan'
  BY <1>1, <1>3, <1>4 DEF DecodePlan, Sized
<1>8. Replayed'
  BY <1>1 DEF Plan, Replayed, AllTokens
<1> QED BY <1>5, <1>6, <1>7, <1>8 DEF Plan

\* One more chunk, of a request that has none yet.
LEMMA PlanChunk ==
  ASSUME EngineInv, Plan, NEW r \in Requests, Take(r) # 0, ScheduleChunk(r),
         \A c \in Members(chunks) : c.req # r,
         pc \in {"prefill", "admit"}, pc' = pc, decodes' = decodes,
         pc = "prefill" => /\ Distinct(scan') /\ r \notin Members(scan')
                           /\ Members(scan') \subseteq Members(scan),
         UNCHANGED <<prompt, limit, out, computed>>,
         \A x \in Requests : state'[x] = "running" => state[x] = "running"
  PROVE  Plan'
<1> DEFINE c == [req |-> r, start |-> computed[r], take |-> Take(r),
                 final |-> computed[r] + Take(r) >= Target(r)]
<1>1. chunks' = Append(chunks, c) /\ chunks \in Seq(PrefillChunk)
  BY Parts DEF ScheduleChunk
<1>2. Take(r) \in Nat /\ computed[r] \in Nat
  BY TakeBounds DEF EngineInv
<1>3. /\ c.req = r /\ c.start = computed[r]
      /\ c.final = (c.start + c.take >= Target(r))
  OBVIOUS
<1>11. c \in PrefillChunk
  BY <1>2 DEF PrefillChunk
<1> HIDE DEF c
<1>12. chunks \in Seq(PrefillChunk)
  BY <1>1
<1>4. chunks' \in Seq(PrefillChunk) /\ Behind(chunks', chunks, c)
  BY <1>1, <1>11 DEF Behind
<1>5. Members(chunks') = Members(chunks) \cup {c} /\ Apart(chunks')
  <2>1. Apart(chunks)
    BY DEF Plan, OneVisit
  <2>2. Members(chunks') = Members(chunks) \cup {c}
    BY <1>4, <1>11, <1>12, Appended
  <2>3. \A d \in Members(chunks) : d.req # c.req
    BY <1>3
  <2> QED BY <1>4, <1>11, <1>12, <2>1, <2>2, <2>3, ChunkAdded
<1>6. /\ prompt' = prompt /\ out' = out /\ computed' = computed
      /\ Members(chunks)' = Members(chunks') /\ Apart(chunks)' = Apart(chunks')
      /\ Members(scan)' = Members(scan') /\ Distinct(scan)' = Distinct(scan')
      /\ Members(decodes)' = Members(decodes) /\ Distinct(decodes)' = Distinct(decodes)
      /\ \A x : PrefillDone(x)' = PrefillDone(x) /\ Target(x)' = Target(x)
  BY DEF Members, Distinct, Apart, PrefillDone, Target
<1>7. OneVisit'
  BY <1>3, <1>5, <1>6 DEF Plan, OneVisit, Decoding, Sized
<1>8. ChunkPlan'
  <2>1. \A d \in Members(chunks') : d.start = computed[d.req]
                                    /\ d.final = (d.start + d.take >= Target(d.req))
    BY <1>3, <1>5 DEF Plan, ChunkPlan
  <2> QED BY <1>6, <2>1 DEF ChunkPlan
<1>9. DecodePlan'
  BY <1>6 DEF Plan, DecodePlan, Sized
<1>10. Replayed'
  BY <1>6 DEF Plan, Replayed, AllTokens
<1> QED BY <1>7, <1>8, <1>9, <1>10 DEF Plan

\* Stages 2 and 3 give a chunk to a request that has none.
LEMMA PlanPrefill ==
  ASSUME EngineInv, Plan, PrefillScan \/ Admit
  PROVE  Plan'
<1>1. CASE PrefillScan
  <2>1. /\ pc = "prefill" /\ pc' = pc /\ scan # <<>> /\ scan' = Tail(scan) /\ decodes' = decodes
        /\ UNCHANGED reqvars
        /\ \/ UNCHANGED chunks
           \/ Take(Head(scan)) # 0 /\ ScheduleChunk(Head(scan))
    BY <1>1 DEF PrefillScan, Skip
  <2>2. /\ Distinct(scan) /\ \A c \in Members(chunks) : c.req \notin Members(scan)
        /\ scan \in Seq(Requests)
    BY <2>1, Parts DEF Plan, OneVisit
  <2>3. /\ Head(scan) \in Requests /\ Head(scan) \in Members(scan) /\ Distinct(scan')
        /\ Head(scan) \notin Members(scan') /\ Members(scan') \subseteq Members(scan)
    BY <2>1, <2>2, Taking
  <2>4. CASE UNCHANGED chunks
    <3>1. UNCHANGED <<reqvars, chunks, decodes>> /\ pc' = "prefill"
      BY <2>1, <2>4
    <3> QED BY <2>2, <2>3, <3>1, PlanMoves DEF Sized, Decoding
  <2>5. CASE Take(Head(scan)) # 0 /\ ScheduleChunk(Head(scan))
    <3>1. UNCHANGED <<prompt, limit, out, computed>> /\ state' = state
      BY <2>1 DEF reqvars
    <3> QED BY <2>1, <2>2, <2>3, <2>5, <3>1, PlanChunk
  <2> QED BY <2>1, <2>4, <2>5
<1>2. CASE Admit
  <2>1. /\ pc = "admit" /\ pc' = pc /\ waiting # <<>> /\ Take(Head(waiting)) > 0
        /\ ScheduleChunk(Head(waiting)) /\ decodes' = decodes
        /\ state' = [state EXCEPT ![Head(waiting)] = "prefill"]
        /\ UNCHANGED <<prompt, limit, out, computed>>
    BY <1>2 DEF Admit, MayAdmit
  <2>2. Head(waiting) \in Requests /\ Head(waiting) \notin Members(running)
    BY <2>1, HeadWaits
  <2>3. \A c \in Members(chunks) : c.req # Head(waiting)
    BY <2>2 DEF EngineInv, LoopInv, ScheduledRuns, Scheduled
  <2>4. Take(Head(waiting)) # 0
    BY <2>1
  <2>5. \A x \in Requests : state'[x] = "running" => state[x] = "running"
    BY <2>1, <2>2, Parts DEF RequestTypes
  <2> QED BY <2>1, <2>2, <2>3, <2>4, <2>5, PlanChunk
<1> QED BY <1>1, <1>2

\* Whatever happens to a request that is not planned for leaves the plan alone.
LEMMA PlanBystander ==
  ASSUME EngineInv, Plan, NEW r \in Requests, r \notin Scheduled,
         pc \in Sized => r # Head(scan),
         pc \notin {"prefill", "batch"}, UNCHANGED <<chunks, decodes, scan>>,
         pc' = pc \/ pc' \in {"idle", "admit", "progress"},
         \A x \in Requests \ {r} : /\ state'[x] = state[x] /\ computed'[x] = computed[x]
                                   /\ prompt'[x] = prompt[x] /\ out'[x] = out[x],
         state'[r] # "running"
  PROVE  Plan'
<1>1. /\ chunks \in Seq(PrefillChunk) /\ decodes \in Seq(Requests) /\ scan \in Seq(Requests)
      /\ chunks' = chunks /\ decodes' = decodes /\ scan' = scan
  BY Parts
<1>2. /\ \A c \in Members(chunks) : c.req \in Requests \ {r}
      /\ \A x \in Members(decodes) : x \in Requests \ {r}
      /\ pc \in Sized => Head(scan) \in Requests \ {r}
  <2>1. /\ \A c \in Members(chunks) : c.req \in Requests
        /\ \A x \in Members(decodes) : x \in Requests
    BY QueueOfRequests DEF EngineInv
  <2>2. pc \in Sized => Head(scan) \in Requests
    BY Parts DEF EngineInv, LoopInv, ScanRuns
  <2> QED BY <2>1, <2>2 DEF Scheduled
<1>3. \A x \in Requests \ {r} : Target(x)' = Target(x) /\ PrefillDone(x)' = PrefillDone(x)
  BY DEF Target, PrefillDone
<1>4. /\ Members(chunks)' = Members(chunks) /\ Members(decodes)' = Members(decodes)
      /\ Members(scan)' = Members(scan) /\ Distinct(scan)' = Distinct(scan)
      /\ Distinct(decodes)' = Distinct(decodes) /\ Apart(chunks)' = Apart(chunks)
      /\ IsEmpty' = IsEmpty
  BY <1>1 DEF Members, Distinct, Apart, IsEmpty
<1>5. OneVisit'
  BY <1>1, <1>4 DEF Plan, OneVisit, Decoding, Sized
<1>6. ChunkPlan'
  <2>1. \A c \in Members(chunks) :
          c.start = computed'[c.req] /\ c.final = (c.start + c.take >= Target(c.req)')
    BY <1>2, <1>3 DEF Plan, ChunkPlan
  <2> QED BY <1>4, <2>1 DEF ChunkPlan, Target
<1>7. DecodePlan'
  <2>1. \A x \in Members(decodes) : PrefillDone(x)'
    BY <1>2, <1>3 DEF Plan, DecodePlan
  <2>2. pc' \in Sized => PrefillDone(Head(scan))'
    <3>1. pc' \in Sized => pc \in Sized
      BY DEF Sized
    <3> QED BY <1>1, <1>2, <1>3, <3>1 DEF Plan, DecodePlan, PrefillDone, Target
  <2> QED BY <1>4, <2>1, <2>2 DEF DecodePlan
<1>8. Replayed'
  BY DEF Plan, Replayed, AllTokens
<1> QED BY <1>5, <1>6, <1>7, <1>8 DEF Plan

\* Clients, preemption and the admission that is not scheduled yet.
LEMMA PlanBystanders ==
  ASSUME EngineInv, Plan,
         \/ \E r \in Requests : \/ \E p \in Prompts, m \in OutLimits : AddRequest(r, p, m)
                                \/ AbortRequest(r)
         \/ PreemptNewest \/ AdmitOpen \/ AdmitRollback
  PROVE  Plan'
<1>1. RequestTypes
  BY Parts
<1>2. CASE \E r \in Requests : \/ \E p \in Prompts, m \in OutLimits : AddRequest(r, p, m)
                               \/ AbortRequest(r)
  <2>1. PICK r \in Requests : \/ \E p \in Prompts, m \in OutLimits : AddRequest(r, p, m)
                              \/ AbortRequest(r)
    BY <1>2
  <2>2. /\ pc = "idle" /\ pc' = pc /\ UNCHANGED <<chunks, decodes, scan>>
        /\ \A x \in Requests \ {r} : /\ state'[x] = state[x] /\ computed'[x] = computed[x]
                                     /\ prompt'[x] = prompt[x] /\ out'[x] = out[x]
        /\ state'[r] # "running"
    BY <1>1, <2>1 DEF AddRequest, AbortRequest, locals, RequestTypes
  <2>3. r \notin Scheduled
    BY <2>2 DEF EngineInv, LoopInv, ScheduledRuns, Scheduled, Members
  <2> QED BY <2>2, <2>3, PlanBystander DEF Sized
<1>3. CASE PreemptNewest
  <2>1. PICK i \in Victims :
          /\ computed' = [computed EXCEPT ![running[i]] = 0]
          /\ state' = [state EXCEPT ![running[i]] = "preempted"]
    BY <1>3 DEF PreemptNewest
  <2>2. /\ running[i] \in Requests /\ running[i] \notin Scheduled /\ running[i] # Head(scan)
    BY <2>1, Parts DEF Victims, Members
  <2>3. /\ pc \in {"decode_room", "progress_room"} /\ pc' = pc /\ prompt' = prompt /\ out' = out
        /\ UNCHANGED <<chunks, decodes, scan>>
    BY <1>3 DEF PreemptNewest, locals
  <2>4. /\ \A x \in Requests \ {running[i]} : state'[x] = state[x] /\ computed'[x] = computed[x]
        /\ state'[running[i]] # "running"
    BY <1>1, <2>1, <2>2 DEF RequestTypes
  <2> QED BY <2>2, <2>3, <2>4, PlanBystander
<1>4. CASE AdmitOpen \/ AdmitRollback
  <2> DEFINE r == Head(waiting)
  <2>1. /\ pc = "admit" /\ waiting # <<>> /\ pc' \in {"admit", "progress"}
        /\ UNCHANGED <<chunks, decodes, scan>>
        /\ computed' = computed \/ \E n : computed' = [computed EXCEPT ![r] = n]
        /\ state' = state \/ state' = [state EXCEPT ![r] = "waiting"]
        /\ prompt' = prompt /\ out' = out
    BY <1>4 DEF AdmitOpen, AdmitRollback, MayAdmit, locals
  <2>2. r \in Requests /\ r \notin Members(running) /\ state[r] # "running"
    BY <2>1, HeadWaits
  <2> HIDE DEF r
  <2>3. r \notin Scheduled
    BY <2>2 DEF EngineInv, LoopInv, ScheduledRuns
  <2>4. /\ \A x \in Requests \ {r} : state'[x] = state[x] /\ computed'[x] = computed[x]
        /\ state'[r] # "running"
    BY <1>1, <2>1, <2>2 DEF RequestTypes
  <2> QED BY <2>1, <2>2, <2>3, <2>4, PlanBystander DEF Sized
<1> QED BY <1>2, <1>3, <1>4

\* What there is to feed, and what is to be replayed once a token was emitted.
LEMMA Sizes ==
  ASSUME EngineTypeOK, NEW r \in Requests
  PROVE  /\ Len(prompt[r]) \in Nat /\ Len(out[r]) \in Nat
         /\ Len(AllTokens(r)) = Len(prompt[r]) + Len(out[r])
         /\ out[r] # <<>> <=> Len(out[r]) # 0
         /\ out[r] # <<>> => Target(r) = Len(AllTokens(r)) - 1
         /\ out[r] = <<>> => Target(r) = Len(AllTokens(r))
<1>1. prompt[r] \in Seq(Tokens) /\ out[r] \in Seq(Tokens)
  BY Lengths
<1>2. /\ Len(AllTokens(r)) = Len(prompt[r]) + Len(out[r])
      /\ Len(prompt[r]) \in Nat /\ Len(out[r]) \in Nat
  BY <1>1 DEF AllTokens
<1>3. out[r] # <<>> <=> Len(out[r]) # 0
  BY <1>1
<1>4. \A m, n \in Nat : /\ n # 0 => m + Max2(0, n - 1) = (m + n) - 1
                        /\ n = 0 => m + Max2(0, n - 1) = m + n
  BY DEF Max2
<1>5. Target(r) = Len(prompt[r]) + Max2(0, Len(out[r]) - 1)
  BY DEF Target
<1> QED BY <1>2, <1>3, <1>4, <1>5, Zenon

\* One request is served: its chunk or its decode leaves the plan, the rest stays.
LEMMA PlanServes ==
  ASSUME EngineInv, EngineInv', Plan, NEW r \in Requests,
         \/ pc' \in {"execute", "crashed"}
         \/ pc' = "batch" /\ pc = "batch" /\ scan' = <<>>,
         Members(chunks') \subseteq Members(chunks), Apart(chunks'),
         \A c \in Members(chunks') : c.req # r,
         Members(decodes') \subseteq Members(decodes), Distinct(decodes'),
         r \notin Members(decodes'), prompt' = prompt,
         \A x \in Requests \ {r} : /\ state'[x] = state[x] /\ computed'[x] = computed[x]
                                   /\ out'[x] = out[x],
         state'[r] = "running" =>
           computed'[r] = (Len(prompt'[r]) + Len(out'[r])) - 1 /\ out'[r] # <<>>
  PROVE  Plan'
<1>1. /\ Members(chunks)' = Members(chunks') /\ Apart(chunks)' = Apart(chunks')
      /\ Members(decodes)' = Members(decodes') /\ Distinct(decodes)' = Distinct(decodes')
      /\ Members(scan)' = Members(scan')
  BY DEF Members, Distinct, Apart
<1>2. /\ \A c \in Members(chunks') : c.req \in Requests \ {r}
      /\ \A x \in Members(decodes') : x \in Requests \ {r}
  <2>1. /\ \A c \in Members(chunks) : c.req \in Requests
        /\ \A x \in Members(decodes) : x \in Requests
    BY QueueOfRequests DEF EngineInv
  <2> QED BY <2>1
<1>3. \A x \in Requests \ {r} : Target(x)' = Target(x) /\ PrefillDone(x)' = PrefillDone(x)
  BY DEF Target, PrefillDone
<1>4. OneVisit'
  <2>1. scan' = <<>> => Members(scan') = {} /\ Distinct(scan')
    BY DEF Members, Distinct
  <2>2. Distinct(scan)' = Distinct(scan')
    BY DEF Distinct
  <2> QED BY <1>1, <2>1, <2>2 DEF OneVisit, Decoding, Sized
<1>5. ChunkPlan'
  <2>1. \A c \in Members(chunks') :
          c.start = computed'[c.req] /\ c.final = (c.start + c.take >= Target(c.req)')
    BY <1>2, <1>3 DEF Plan, ChunkPlan
  <2> QED BY <1>1, <2>1 DEF ChunkPlan, Target
<1>6. DecodePlan'
  <2>1. \A x \in Members(decodes') : PrefillDone(x)'
    BY <1>2, <1>3 DEF Plan, DecodePlan
  <2>2. pc' = "batch" => \A x \in Members(decodes') : state'[x] = "running"
    BY <1>2 DEF Plan, DecodePlan
  <2> QED BY <1>1, <2>1, <2>2 DEF DecodePlan, Sized
<1>7. Replayed'
  <2>1. ASSUME NEW x \in Requests, state'[x] = "running", x # r
        PROVE  computed'[x] = Len(AllTokens(x)') - 1 /\ out'[x] # <<>>
    BY <2>1 DEF Plan, Replayed, AllTokens
  <2>2. Len(prompt'[r] \o out'[r]) = Len(prompt'[r]) + Len(out'[r])
    <3>2. EngineTypeOK'
      BY DEF EngineInv
    <3>3. prompt'[r] \in Seq(Tokens) /\ out'[r] \in Seq(Tokens)
      <4>1. prompt'[r] \in Seq(Tokens)
        BY Lengths DEF EngineInv
      <4>2. out' \in [Requests -> Seq(Tokens)]
        BY <3>2 DEF EngineTypeOK, RequestTypes
      <4> QED BY <4>1, <4>2
    <3> QED BY <3>3
  <2>3. state'[r] = "running" => computed'[r] = Len(prompt'[r] \o out'[r]) - 1 /\ out'[r] # <<>>
    BY <2>2
  <2> QED BY <2>1, <2>3 DEF Replayed, AllTokens
<1> QED BY <1>4, <1>5, <1>6, <1>7 DEF Plan

\* The request of a chunk still has something to replay: it does not decode yet.
LEMMA ChunkBehind ==
  ASSUME EngineInv, Plan, NEW c \in Members(chunks)
  PROVE  /\ c.req \in Requests /\ c.start = computed[c.req] /\ c.take \in Nat \ {0}
         /\ c.start \in Nat /\ c.start + c.take <= Target(c.req)
         /\ c.final => c.start + c.take = Target(c.req)
         /\ state[c.req] # "running" /\ c.req \notin Members(decodes)
         /\ c.req \in Members(running)
<1>1. c \in PrefillChunk
  BY QueueOfRequests DEF EngineInv
<1>2. c.req \in Requests /\ c.take \in Nat \ {0} /\ c.start \in Nat
  BY <1>1 DEF PrefillChunk
<1>3. c.start = computed[c.req] /\ c.final = (c.start + c.take >= Target(c.req))
  BY DEF Plan, ChunkPlan
<1>4. c.start + c.take <= Target(c.req) /\ Target(c.req) \in Nat
  BY <1>2, Lengths DEF EngineInv, LoopInv, ChunksFit
<1>5. computed[c.req] < Target(c.req) /\ (c.final => c.start + c.take = Target(c.req))
  <2>1. c.final => c.start + c.take >= Target(c.req)
    BY <1>3
  <2>2. \A s \in Nat, n \in Nat \ {0}, t \in Nat : s + n <= t => s < t /\ (s + n >= t => s + n = t)
    OBVIOUS
  <2> QED BY <1>2, <1>3, <1>4, <2>1, <2>2, Zenon
<1>6. c.req \notin Members(decodes)
  <2>1. ~PrefillDone(c.req)
    BY <1>2, <1>3, <1>4, <1>5 DEF PrefillDone
  <2> QED BY <2>1 DEF Plan, DecodePlan
<1>7. state[c.req] # "running"
  <2> SUFFICES ASSUME state[c.req] = "running" PROVE FALSE
    OBVIOUS
  <2>1. computed[c.req] = Len(AllTokens(c.req)) - 1 /\ out[c.req] # <<>>
    BY <1>2 DEF Plan, Replayed
  <2>2. computed[c.req] = Target(c.req)
    BY <1>2, <2>1, Sizes DEF EngineInv
  <2> QED BY <1>4, <1>5, <2>2
<1>8. c.req \in Members(running)
  BY DEF EngineInv, LoopInv, ScheduledRuns, Scheduled
<1> QED BY <1>2, <1>3, <1>4, <1>5, <1>6, <1>7, <1>8

\* The last chunk of a request leaves exactly its last token to be fed.
LEMMA PlanExecute ==
  ASSUME EngineInv, EngineInv', Plan, ExecuteChunk
  PROVE  Plan'
<1> DEFINE c == Head(chunks)
           r == c.req
           end == c.start + c.take
<1>1. /\ pc = "execute" /\ chunks # <<>> /\ chunks' = Tail(chunks)
      /\ pc' \in {"execute", "crashed"} /\ prompt' = prompt /\ decodes' = decodes
  BY DEF ExecuteChunk, OrCrash
<1>2. /\ c \in Members(chunks) /\ Members(Tail(chunks)) \subseteq Members(chunks)
      /\ Apart(Tail(chunks)) /\ \A d \in Members(Tail(chunks)) : d.req # r
  <2>1. chunks \in Seq(PrefillChunk) /\ Apart(chunks)
    BY Parts DEF Plan, OneVisit
  <2>2. c \in Members(chunks) /\ Members(Tail(chunks)) \subseteq Members(chunks)
    BY <1>1, <2>1, Taking
  <2> QED BY <1>1, <2>1, <2>2, ChunkTaken
<1>3. /\ r \in Requests /\ r \notin Members(decodes) /\ state[r] # "running"
      /\ c.final => end = Target(r)
  BY <1>2, ChunkBehind
<1>4. /\ computed' = IF Raised(r) THEN computed ELSE [computed EXCEPT ![r] = end]
      /\ IF c.final /\ ~Raised(r)
         THEN IF out[r] = <<>>
              THEN \E t \in OutTokens : Emit(r, t, "running")
              ELSE state' = [state EXCEPT ![r] = "running"] /\ out' = out
         ELSE UNCHANGED <<state, out>>
  BY DEF ExecuteChunk
<1> HIDE DEF c, r, end
<1>5. RequestTypes /\ EngineTypeOK
  BY Parts DEF EngineInv
<1>6. \A x \in Requests \ {r} : /\ state'[x] = state[x] /\ computed'[x] = computed[x]
                                /\ out'[x] = out[x]
  BY <1>3, <1>4, <1>5 DEF RequestTypes, Emit
<1>7. state'[r] = "running" =>
        computed'[r] = (Len(prompt'[r]) + Len(out'[r])) - 1 /\ out'[r] # <<>>
  <2> SUFFICES ASSUME state'[r] = "running"
               PROVE  computed'[r] = (Len(prompt'[r]) + Len(out'[r])) - 1 /\ out'[r] # <<>>
    OBVIOUS
  <2>1. c.final /\ ~Raised(r)
    BY <1>3, <1>4
  <2>2. computed'[r] = Target(r)
    BY <1>3, <1>4, <1>5, <2>1 DEF RequestTypes
  <2>3. CASE out[r] = <<>>
    <3>1. PICK t \in OutTokens : out' = [out EXCEPT ![r] = Append(@, t)]
      BY <1>4, <2>1, <2>3 DEF Emit
    <3>2. t \in Tokens /\ out[r] \in Seq(Tokens)
      BY <1>3, <1>5, EngineAssumption DEF RequestTypes
    <3>3. out'[r] = Append(<<>>, t)
      BY <1>3, <1>5, <2>3, <3>1 DEF RequestTypes
    <3>4. Len(out'[r]) = 1 /\ out'[r] # <<>>
      BY <3>2, <3>3
    <3>5. computed'[r] = Len(prompt[r]) /\ Len(prompt[r]) \in Nat
      <4>1. /\ Target(r) = Len(AllTokens(r)) /\ Len(prompt[r]) \in Nat /\ Len(out[r]) = 0
            /\ Len(AllTokens(r)) = Len(prompt[r]) + Len(out[r])
        BY <1>3, <1>5, <2>3, Sizes
      <4> QED BY <2>2, <4>1
    <3> QED BY <1>1, <3>4, <3>5
  <2>4. CASE out[r] # <<>>
    <3>1. out' = out
      BY <1>4, <2>1, <2>4
    <3>2. computed'[r] = (Len(prompt[r]) + Len(out[r])) - 1
      <4>1. /\ Target(r) = Len(AllTokens(r)) - 1
            /\ Len(AllTokens(r)) = Len(prompt[r]) + Len(out[r])
        BY <1>3, <1>5, <2>4, Sizes
      <4> QED BY <2>2, <4>1, Zenon
    <3> QED BY <1>1, <2>4, <3>1, <3>2
  <2> QED BY <2>3, <2>4
<1>8. Members(decodes') \subseteq Members(decodes) /\ Distinct(decodes')
      /\ r \notin Members(decodes')
  BY <1>1, <1>3 DEF Plan, OneVisit
<1> QED BY <1>1, <1>2, <1>3, <1>6, <1>7, <1>8, PlanServes

\* A decode feeds one token and emits one.
LEMMA PlanEmit ==
  ASSUME EngineInv, EngineInv', Plan, DecodeEmit
  PROVE  Plan'
<1> DEFINE r == Head(decodes)
<1>1. /\ pc = "batch" /\ pc' = "batch" /\ decodes # <<>> /\ decodes' = Tail(decodes)
      /\ computed' = [computed EXCEPT ![r] = @ + 1] /\ scan' = <<>> /\ chunks' = chunks
      /\ prompt' = prompt
  BY DEF DecodeEmit
<1>2. PICK t \in OutTokens : Emit(r, t, "running")
  BY DEF DecodeEmit
<1>3. /\ r \in Members(decodes) /\ r \in Requests /\ r \notin Members(Tail(decodes))
      /\ Distinct(Tail(decodes)) /\ Members(Tail(decodes)) \subseteq Members(decodes)
  BY <1>1, Parts, Taking DEF Plan, OneVisit
<1>4. chunks = <<>> /\ Members(chunks) = {} /\ Apart(chunks)
  BY <1>1 DEF EngineInv, LoopInv, ScheduledRuns, Members, Apart
<1>5. computed[r] = Len(AllTokens(r)) - 1
  BY <1>1, <1>3 DEF Plan, DecodePlan, Replayed
<1> HIDE DEF r
<1>6. RequestTypes /\ EngineTypeOK
  BY Parts DEF EngineInv
<1>7. /\ \A x \in Requests \ {r} : /\ state'[x] = state[x] /\ computed'[x] = computed[x]
                                   /\ out'[x] = out[x]
      /\ out'[r] = Append(out[r], t) /\ computed'[r] = computed[r] + 1
  BY <1>1, <1>2, <1>3, <1>6 DEF RequestTypes, Emit
<1>8. computed'[r] = (Len(prompt'[r]) + Len(out'[r])) - 1 /\ out'[r] # <<>>
  <2>1. t \in Tokens /\ out[r] \in Seq(Tokens)
    BY <1>3, <1>6, EngineAssumption DEF RequestTypes
  <2>2. Len(out'[r]) = Len(out[r]) + 1 /\ out'[r] # <<>>
    BY <1>7, <2>1
  <2>3. /\ Len(AllTokens(r)) = Len(prompt[r]) + Len(out[r])
        /\ Len(prompt[r]) \in Nat /\ Len(out[r]) \in Nat
    BY <1>3, <1>6, Sizes
  <2>4. computed[r] = (Len(prompt[r]) + Len(out[r])) - 1
    BY <1>5, <2>3, Zenon
  <2>5. computed'[r] = (Len(prompt[r]) + (Len(out[r]) + 1)) - 1
    <3> DEFINE m == Len(prompt[r])
               n == Len(out[r])
    <3>1. m \in Nat /\ n \in Nat /\ computed'[r] = ((m + n) - 1) + 1
      BY <1>7, <2>3, <2>4
    <3> HIDE DEF m, n
    <3>2. computed'[r] = (m + (n + 1)) - 1
      BY <3>1
    <3> QED BY <3>2 DEF m, n
  <2> QED BY <1>1, <2>2, <2>5, Zenon
<1> QED BY <1>1, <1>3, <1>4, <1>7, <1>8, PlanServes

\* Every step keeps to the plan.
LEMMA PlanSteps == EngineInv /\ Plan /\ [Next]_vars => Plan'
<1> SUFFICES ASSUME EngineInv, Plan, [Next]_vars PROVE Plan'
  OBVIOUS
<1>1. EngineInv'
  BY EngineSteps
<1>2. CASE Schedule
  BY <1>2, PlanWaits, PlanStage1, PlanBatch, PlanPrefill, PlanBystanders DEF Schedule
<1>3. CASE Execute
  BY <1>1, <1>3, PlanWaits, PlanBatch, PlanExecute, PlanEmit DEF Execute
<1>4. CASE Clients
  BY <1>4, PlanBystanders DEF Clients
<1>5. CASE UNCHANGED vars
  BY <1>5, PlanWaits
<1> QED BY <1>2, <1>3, <1>4, <1>5 DEF Next, EngineThread

\* Nothing is planned at the start.
LEMMA PlanStarts == Init => Plan
<1> SUFFICES ASSUME Init PROVE Plan
  OBVIOUS
<1>1. Members(<<>>) = {} /\ Distinct(<<>>) /\ Apart(<<>>)
  BY DEF Members, Distinct, Apart
<1>2. \A r \in Requests : state[r] # "running"
  BY DEF Init
<1> QED BY <1>1, <1>2
        DEF Init, Plan, OneVisit, ChunkPlan, DecodePlan, Replayed, Decoding, Sized

\* Between steps a decoding request has fed all its tokens but the last, whatever was
\* preempted, replayed, chunked or rolled back before (Request.prefill_target_len).
THEOREM NoTokenSkippedHolds == Spec => []NoTokenSkipped
<1>1. Init => EngineInv /\ Plan
  BY EngineStarts, PlanStarts
<1>2. EngineInv /\ Plan /\ [Next]_vars => (EngineInv /\ Plan)'
  BY EngineSteps, PlanSteps
<1>3. EngineInv /\ Plan => NoTokenSkipped
  BY DEF Plan, Replayed, NoTokenSkipped
<1> QED BY <1>1, <1>2, <1>3, PTL DEF Spec

-----------------------------------------------------------------------------
(* Who waits pins nothing that could not be evicted.                       *)

\* The KV memory as sequences and cache see it.
Quiet == UNCHANGED <<free, ref, open, table, text, data, tree>>

\* The steps that call nothing of the KV memory, or only start an eviction.
LEMMA QuietSteps ==
  ASSUME \/ BeginStep \/ DecodeScan \/ RoomMade \/ DecodeRetry \/ DecodesDone \/ PrefillScan
         \/ PrefillsDone \/ AdmitRefuse \/ AdmitDone \/ BreakStall \/ AdvanceHead \/ ProgressRetry
         \/ NothingToForce \/ BeginBatch \/ DecodeEmit \/ BeginRetire \/ RetireSkip \/ EndStep
         \/ UNCHANGED vars
  PROVE  Quiet /\ UNCHANGED queues
<1>1. CASE BeginStep \/ RoomMade \/ DecodeRetry \/ DecodesDone \/ PrefillScan \/ PrefillsDone
           \/ AdmitRefuse \/ AdmitDone \/ ProgressRetry \/ NothingToForce \/ BeginBatch
           \/ DecodeEmit \/ BeginRetire \/ RetireSkip \/ EndStep \/ UNCHANGED vars
  BY <1>1 DEF BeginStep, RoomMade, DecodeRetry, DecodesDone, PrefillScan, PrefillsDone, AdmitRefuse,
     AdmitDone, ProgressRetry, NothingToForce, BeginBatch, DecodeEmit, BeginRetire, RetireSkip,
     EndStep, vars, Quiet, kvvars
<1>2. CASE DecodeScan \/ AdvanceHead
  BY <1>2 DEF DecodeScan, AdvanceHead, MakeRoom, Evict, Quiet, kvvars
<1>3. CASE BreakStall
  BY <1>3 DEF BreakStall, Evict, Quiet
<1> QED BY <1>1, <1>2, <1>3

\* Waiting sequences stay as they are and the cache loses nothing.
LEMMA WaitersStay ==
  ASSUME WaitersPinOnlyCached,
         \A x \in open' : x \in Members(waiting') =>
           x \in open /\ x \in Members(waiting) /\ table'[x] = table[x],
         Image(tree) \subseteq Image(tree')
  PROVE  WaitersPinOnlyCached'
<1>1. Members(waiting)' = Members(waiting') /\ Image(tree)' = Image(tree')
  BY DEF Members, Image
<1>2. \A x \in open' \cap Members(waiting') : Image(table'[x]) \subseteq Image(tree')
  <2> SUFFICES ASSUME NEW x \in open', x \in Members(waiting')
               PROVE  Image(table'[x]) \subseteq Image(tree')
    OBVIOUS
  <2>1. table'[x] = table[x] /\ Image(table[x]) \subseteq Image(tree)
    BY DEF WaitersPinOnlyCached
  <2> QED BY <2>1
<1>3. \A x : Image(table[x])' = Image(table'[x])
  BY DEF Image
<1> QED BY <1>1, <1>2, <1>3 DEF WaitersPinOnlyCached

\* A forward pass writes the table of its own sequence only.
LEMMA ForwardTables ==
  ASSUME KVInv, NEW r \in Requests, NEW start, NEW toks, Forward(r, start, toks)
  PROVE  /\ open' = open /\ tree' = tree
         /\ \A x \in Seqs \ {r} : table'[x] = table[x] /\ text'[x] = text[x]
<1>1. CASE UNCHANGED kvvars
  BY <1>1 DEF kvvars
<1>2. CASE Write(r, start, toks)
  <2>1. /\ open' = open /\ tree' = tree /\ \E q : table' = [table EXCEPT ![r] = q]
        /\ text' = text \/ \E q : text' = [text EXCEPT ![r] = q]
    BY <1>2 DEF Write
  <2> QED BY <2>1 DEF KVInv, KVTypeOK
<1> QED BY <1>1, <1>2 DEF Forward

\* Every step: whoever waits pins nothing but cached blocks.
LEMMA WaitersSteps == EngineInv /\ WaitersPinOnlyCached /\ [Next]_vars => WaitersPinOnlyCached'
<1> SUFFICES ASSUME EngineInv, WaitersPinOnlyCached, [Next]_vars PROVE WaitersPinOnlyCached'
  OBVIOUS
<1> USE DEF Requests
<1>1. CASE \/ BeginStep \/ DecodeScan \/ RoomMade \/ DecodeRetry \/ DecodesDone \/ PrefillScan
           \/ PrefillsDone \/ AdmitRefuse \/ AdmitDone \/ BreakStall \/ AdvanceHead \/ ProgressRetry
           \/ NothingToForce \/ BeginBatch \/ DecodeEmit \/ BeginRetire \/ RetireSkip \/ EndStep
           \/ UNCHANGED vars
  <2>1. Quiet /\ UNCHANGED queues
    BY <1>1, QuietSteps
  <2> QED BY <2>1, WaitersStay DEF Quiet, queues
<1>2. CASE PreemptNewest
  <2>1. PICK i \in Victims : Release(running[i]) /\ waiting' = <<running[i]>> \o waiting
    BY <1>2 DEF PreemptNewest
  <2> DEFINE v == running[i]
  <2>2. v \in Seqs /\ v \notin Members(waiting)
    BY <2>1, Parts DEF Victims, Members
  <2>3. Release(v) /\ waiting' = <<v>> \o waiting
    BY <2>1
  <2> HIDE DEF v
  <2>4. open' = open \ {v} /\ tree' = tree /\ \A x \in Seqs \ {v} : KeptWhole(x)
    BY <2>2, <2>3, ReleaseLeaves DEF EngineInv
  <2>5. Members(waiting') = Members(waiting) \cup {v}
    <3>1. waiting' \in Seq(Requests) /\ Before(waiting', waiting, v) /\ waiting \in Seq(Requests)
      BY <2>2, <2>3, Parts DEF Before
    <3> QED BY <2>2, <3>1, Prepended
  <2>6. \A x \in open' : x \in Seqs
    BY <2>4 DEF EngineInv, KVInv, KVTypeOK
  <2> QED BY <2>4, <2>5, <2>6, WaitersStay DEF KeptWhole
<1>3. CASE CacheEviction
  <2>1. /\ open' = open /\ waiting' = waiting
        /\ \A x \in Seqs : KeptWhole(x)
        /\ \A x \in Seqs : Image(table[x]) \subseteq Image(tree)
                             => Image(table[x]) \subseteq Image(tree')
    BY <1>3, EvictionLeaves DEF CacheEviction, queues, EngineInv
  <2>2. open \subseteq Seqs
    BY DEF EngineInv, KVInv, KVTypeOK
  <2>3. \A x \in open \cap Members(waiting) : Image(table'[x]) \subseteq Image(tree')
    BY <2>1, <2>2 DEF WaitersPinOnlyCached, KeptWhole
  <2> QED BY <2>1, <2>3 DEF WaitersPinOnlyCached, Members, Image
<1>4. CASE AdmitOpen
  <2> DEFINE r == Head(waiting)
  <2>1. Open(r, prompt[r]) /\ waiting' = waiting /\ r \in Seqs /\ prompt[r] \in Prompts
    BY <1>4, HeadWaits DEF AdmitOpen, MayAdmit, queues
  <2> HIDE DEF r
  <2>2. /\ open' = open \cup {r} /\ tree' = tree /\ \A x \in Seqs \ {r} : KeptWhole(x)
        /\ Image(table'[r]) \subseteq Image(tree)
    BY <2>1, OpenLeaves DEF EngineInv
  <2>3. open \subseteq Seqs
    BY DEF EngineInv, KVInv, KVTypeOK
  <2>4. \A x \in open' \cap Members(waiting') : Image(table'[x]) \subseteq Image(tree')
    BY <2>1, <2>2, <2>3 DEF WaitersPinOnlyCached, KeptWhole
  <2> QED BY <2>4 DEF WaitersPinOnlyCached, Members, Image
<1>5. CASE Admit
  <2>1. UNCHANGED kvvars /\ Members(Tail(waiting)) \subseteq Members(waiting)
        /\ waiting' = Tail(waiting)
    BY <1>5, HeadWaits DEF Admit, MayAdmit
  <2> QED BY <2>1, WaitersStay DEF kvvars
<1>6. CASE AdmitRollback
  <2>1. Release(Head(waiting)) /\ waiting' = waiting /\ Head(waiting) \in Seqs
    BY <1>6, HeadWaits DEF AdmitRollback, MayAdmit, queues
  <2>2. /\ open' = open \ {Head(waiting)} /\ tree' = tree
        /\ \A x \in Seqs \ {Head(waiting)} : KeptWhole(x)
    BY <2>1, ReleaseLeaves DEF EngineInv
  <2>3. open \subseteq Seqs
    BY DEF EngineInv, KVInv, KVTypeOK
  <2> QED BY <2>1, <2>2, <2>3, WaitersStay DEF KeptWhole
<1>7. CASE ExecuteChunk \/ DecodeWrite
  <2>1. PICK r \in Members(running) :
          waiting' = waiting /\ \E start, toks : Forward(r, start, toks)
    <3>1. CASE ExecuteChunk
      <4>1. chunks # <<>> /\ Head(chunks) \in Members(chunks)
        BY <3>1, Parts, Taking DEF ExecuteChunk
      <4>2. Head(chunks).req \in Members(running)
        BY <4>1 DEF EngineInv, LoopInv, ScheduledRuns, Scheduled
      <4> QED BY <3>1, <4>2 DEF ExecuteChunk, queues
    <3>2. CASE DecodeWrite
      <4>1. pc = "batch" /\ Head(scan) \in Members(scan)
        BY <3>2, Parts, Taking DEF DecodeWrite
      <4>2. Head(scan) \in Members(running)
        BY <4>1 DEF EngineInv, LoopInv, ScanRuns
      <4> QED BY <3>2, <4>2 DEF DecodeWrite, queues
    <3> QED BY <1>7, <3>1, <3>2
  <2>2. r \in Requests /\ r \notin Members(waiting)
    BY Parts
  <2>3. open' = open /\ tree' = tree /\ \A x \in Seqs \ {r} : table'[x] = table[x]
    BY <2>1, <2>2, ForwardTables DEF EngineInv
  <2>4. open \subseteq Seqs
    BY DEF EngineInv, KVInv, KVTypeOK
  <2> QED BY <2>1, <2>2, <2>3, <2>4, WaitersStay
<1>8. CASE RetirePublish
  <2>1. /\ waiting' = waiting /\ scan # <<>>
        /\ UNCHANGED kvvars \/ Publish(Head(scan), AllTokens(Head(scan)))
    BY <1>8 DEF RetirePublish, queues
  <2>2. Head(scan) \in Requests
    BY <2>1, Parts, Taking
  <2>3. AllTokens(Head(scan)) \in Fed
    <3>1. AllTokens(Head(scan)) \in Seq(Tokens)
      BY <2>2, Lengths DEF EngineInv
    <3> QED BY <3>1 DEF Fed
  <2>4. open' = open /\ table' = table /\ Image(tree) \subseteq Image(tree')
    <3>1. CASE UNCHANGED kvvars
      BY <3>1 DEF kvvars
    <3>2. CASE Publish(Head(scan), AllTokens(Head(scan)))
      <4>1. open' = open /\ Image(tree) \subseteq Image(tree')
        BY <2>2, <2>3, <3>2, PublishLeaves DEF EngineInv
      <4> QED BY <3>2, <4>1 DEF Publish
    <3> QED BY <2>1, <3>1, <3>2
  <2> QED BY <2>1, <2>4, WaitersStay
<1>9. CASE RetireRelease
  <2>1. waiting' = waiting /\ IF Head(scan) \in open THEN Release(Head(scan)) ELSE UNCHANGED kvvars
    BY <1>9 DEF RetireRelease
  <2>2. open \subseteq Seqs
    BY DEF EngineInv, KVInv, KVTypeOK
  <2>3. CASE Head(scan) \in open
    <3>1. /\ open' = open \ {Head(scan)} /\ tree' = tree
          /\ \A x \in Seqs \ {Head(scan)} : KeptWhole(x)
      BY <2>1, <2>2, <2>3, ReleaseLeaves DEF EngineInv
    <3> QED BY <2>1, <2>2, <3>1, WaitersStay DEF KeptWhole
  <2>4. CASE Head(scan) \notin open
    BY <2>1, <2>4, WaitersStay DEF kvvars
  <2> QED BY <2>3, <2>4
<1>10. CASE Clients
  <2>1. PICK r \in Requests : \/ \E p \in Prompts, m \in OutLimits : AddRequest(r, p, m)
                              \/ AbortRequest(r)
    BY <1>10 DEF Clients
  <2>2. CASE \E p \in Prompts, m \in OutLimits : AddRequest(r, p, m)
    <3>1. /\ pc = "idle" /\ state[r] \in Over \cup {"new"} /\ UNCHANGED kvvars
          /\ waiting' = Append(waiting, r)
      BY <2>2 DEF AddRequest
    <3>2. r \notin open
      BY <3>1, Parts DEF EngineInv, LoopInv, RunningLive, Over
    <3>3. Members(waiting') = Members(waiting) \cup {r}
      <4>1. waiting' \in Seq(Requests) /\ Behind(waiting', waiting, r)
        BY <3>1, Parts DEF Behind
      <4> QED BY <4>1, Parts, Appended
    <3> QED BY <3>1, <3>2, <3>3, WaitersStay DEF kvvars
  <2>3. CASE AbortRequest(r)
    <3>1. /\ waiting' = Without(waiting, r)
          /\ IF r \in open THEN Release(r) ELSE UNCHANGED kvvars
      BY <2>3 DEF AbortRequest
    <3>2. Members(waiting') = Members(waiting) \ {r}
      BY <3>1, Parts, WithoutFacts
    <3>3. open \subseteq Seqs
      BY DEF EngineInv, KVInv, KVTypeOK
    <3>4. CASE r \in open
      <4>1. open' = open \ {r} /\ tree' = tree /\ \A x \in Seqs \ {r} : KeptWhole(x)
        BY <3>1, <3>4, ReleaseLeaves DEF EngineInv
      <4> QED BY <3>2, <3>3, <4>1, WaitersStay DEF KeptWhole
    <3>5. CASE r \notin open
      BY <3>1, <3>2, <3>5, WaitersStay DEF kvvars
    <3> QED BY <3>4, <3>5
  <2> QED BY <2>1, <2>2, <2>3
<1> QED BY <1>1, <1>2, <1>3, <1>4, <1>5, <1>6, <1>7, <1>8, <1>9, <1>10
        DEF Next, EngineThread, Schedule, Execute

\* A request that waits with the KV a refused admission gave it pins nothing but cached blocks,
\* for any pool and any queue (_admit of scheduler.py).
THEOREM WaitersPinOnlyCachedHolds == Spec => []WaitersPinOnlyCached
<1>1. Init => WaitersPinOnlyCached
  BY DEF Init, KVInit, WaitersPinOnlyCached
<1> QED BY <1>1, EngineStarts, EngineSteps, WaitersSteps, PTL DEF Spec

-----------------------------------------------------------------------------
(* What schedule() reserved covers what the step writes.                   *)

\* The requests the rest of the step decodes.
Planned == Members(IF pc = "batch" THEN scan ELSE decodes)

\* Demand, element by element.
LEMMA DemandIs ==
  \A t : t \in Demand <=>
           \/ \E c \in Members(chunks) : t \in {c.req} \X Missing(c.req, c.start + c.take)
           \/ \E r \in Planned : t \in {r} \X Missing(r, computed[r] + 1)
<1>1. \A t : t \in Demand <=>
        \/ \E i \in DOMAIN chunks :
             t \in {chunks[i].req} \X Missing(chunks[i].req, chunks[i].start + chunks[i].take)
        \/ \E r \in Planned : t \in {r} \X Missing(r, computed[r] + 1)
  BY DEF Demand, Planned
<1>2. /\ \A i \in DOMAIN chunks : chunks[i] \in Members(chunks)
      /\ \A c \in Members(chunks) : \E i \in DOMAIN chunks : c = chunks[i]
  BY DEF Members
<1> QED BY <1>1, <1>2

\* The entries a table lacks for n tokens: finitely many, and they are counted.
LEMMA MissingFinite ==
  ASSUME KVTypeOK, NEW r \in Requests, NEW n \in Nat
  PROVE  /\ IsFiniteSet(Missing(r, n)) /\ BlocksNeeded(r, n) \in Nat
         /\ IsFiniteSet({r} \X Missing(r, n))
         /\ Cardinality({r} \X Missing(r, n)) = BlocksNeeded(r, n)
<1>1. Len(table[r]) + 1 \in Int /\ BlocksFor(n) \in Int
  BY BlocksForType DEF KVTypeOK, Requests
<1>2. IsFiniteSet(Missing(r, n))
  BY <1>1, FS_Interval DEF Missing
<1> QED BY <1>2, Tagged, FS_CardinalityType DEF BlocksNeeded

\* As many blocks as the room left reach far enough for what fits in them.
LEMMA CapacityFits ==
  ASSUME KVTypeOK, NEW r \in Requests, NEW n \in Nat, NEW k \in Nat,
         n <= (Len(table[r]) + k) * BlockSize
  PROVE  BlocksNeeded(r, n) <= k
<1> DEFINE m == Len(table[r])
<1>1. m \in Nat /\ m + k \in Nat /\ BlockSize \in Nat
  BY KVAssumption DEF KVTypeOK, Requests
<1> HIDE DEF m
<1>2. (m + k) * BlockSize \in Nat
  BY <1>1
<1>3. BlocksFor(n) <= m + k /\ BlocksFor(n) \in Nat
  BY <1>1, <1>2, BlocksForMonotonic, BlocksForFull, BlocksForType DEF m
<1>4. Cardinality((m + 1) .. BlocksFor(n)) =
        IF m + 1 > BlocksFor(n) THEN 0 ELSE BlocksFor(n) - (m + 1) + 1
  <2> DEFINE lo == m + 1
             hi == BlocksFor(n)
  <2>1. lo \in Int /\ hi \in Int
    BY <1>1, <1>3
  <2> HIDE DEF lo, hi
  <2>2. Cardinality(lo .. hi) = IF lo > hi THEN 0 ELSE hi - lo + 1
    BY <2>1, FS_Interval
  <2> QED BY <2>2 DEF lo, hi
<1> QED BY <1>1, <1>3, <1>4 DEF BlocksNeeded, Missing, m

\* What the elements of a list are is finite.
LEMMA MembersFinite ==
  ASSUME NEW S, NEW q \in Seq(S)
  PROVE  IsFiniteSet(Members(q))
<1>1. q \in Surjection(1 .. Len(q), Members(q)) /\ Len(q) \in Nat
  BY DEF Members, Surjection
<1>2. IsFiniteSet(1 .. Len(q))
  BY <1>1, FS_Interval
<1> QED BY <1>1, <1>2, FS_Surjection

\* Demand is finite: it counts.
LEMMA DemandFinite ==
  ASSUME EngineInv
  PROVE  IsFiniteSet(Demand) /\ Cardinality(Demand) \in Nat
<1> DEFINE F(c) == {c.req} \X Missing(c.req, c.start + c.take)
           G(r) == {r} \X Missing(r, computed[r] + 1)
           f == [c \in Members(chunks) |-> F(c)]
           g == [r \in Planned |-> G(r)]
           A == {F(c) : c \in Members(chunks)}
           B == {G(r) : r \in Planned}
<1>1. /\ IsFiniteSet(Members(chunks)) /\ IsFiniteSet(Planned) /\ KVTypeOK
      /\ \A c \in Members(chunks) : c.req \in Requests /\ c.start + c.take \in Nat
      /\ \A r \in Planned : r \in Requests /\ computed[r] + 1 \in Nat
  <2>1. /\ chunks \in Seq(PrefillChunk)
        /\ (IF pc = "batch" THEN scan ELSE decodes) \in Seq(Requests)
    BY Parts
  <2>2. computed \in [Requests -> Nat] /\ KVTypeOK
    BY Parts DEF RequestTypes, EngineInv, KVInv
  <2>3. \A c \in Members(chunks) : c.req \in Requests /\ c.start + c.take \in Nat
    <3>1. \A c \in PrefillChunk : c.req \in Requests /\ c.start + c.take \in Nat
      BY DEF PrefillChunk
    <3> QED BY <2>1, <3>1, MembersOf
  <2>4. Planned \subseteq Requests
    BY <2>1, MembersOf DEF Planned
  <2> QED BY <2>1, <2>2, <2>3, <2>4, MembersFinite DEF Planned
<1>2. (\A c \in Members(chunks) : IsFiniteSet(F(c))) /\ \A r \in Planned : IsFiniteSet(G(r))
  BY <1>1, MissingFinite
<1>3. f \in Surjection(Members(chunks), A) /\ g \in Surjection(Planned, B)
  <2> HIDE DEF F, G
  <2> QED BY DEF Surjection
<1> HIDE DEF F, G, f, g
<1>4. IsFiniteSet(A) /\ IsFiniteSet(B)
  <2> HIDE DEF A, B
  <2> QED BY <1>1, <1>3, FS_Surjection
<1>5. \A T \in A \cup B : IsFiniteSet(T)
  BY <1>2
<1>6. IsFiniteSet(UNION (A \cup B))
  <2> HIDE DEF A, B
  <2>1. IsFiniteSet(A \cup B)
    BY <1>4, FS_Union
  <2> QED BY <1>5, <2>1, FS_UNION
<1>7. Demand \subseteq UNION (A \cup B)
  BY DemandIs DEF F, G
<1> HIDE DEF A, B
<1> QED BY <1>6, <1>7, FS_Subset, FS_CardinalityType

\* Demand after a step, element by element.
LEMMA DemandNext ==
  \A t : t \in Demand' <=>
           \/ \E c \in Members(chunks') : t \in {c.req} \X Missing(c.req, c.start + c.take)'
           \/ \E r \in Planned' : t \in {r} \X Missing(r, computed[r] + 1)'
<1>1. (\A t : t \in Demand <=>
         \/ \E c \in Members(chunks) : t \in {c.req} \X Missing(c.req, c.start + c.take)
         \/ \E r \in Planned : t \in {r} \X Missing(r, computed[r] + 1))'
  BY DemandIs, PTL
<1> QED BY <1>1 DEF Members

\* Work that was planned before demands nothing new.
LEMMA DemandLess ==
  ASSUME EngineInv, Members(chunks') \subseteq Members(chunks), Planned' \subseteq Planned,
         \A c \in Members(chunks') : table'[c.req] = table[c.req],
         \A r \in Planned' : table'[r] = table[r] /\ computed'[r] = computed[r]
  PROVE  Demand' \subseteq Demand
<1>2. \A c \in Members(chunks') :
        Missing(c.req, c.start + c.take)' = Missing(c.req, c.start + c.take)
  BY DEF Missing
<1>3. \A r \in Planned' : Missing(r, computed[r] + 1)' = Missing(r, computed[r] + 1)
  BY DEF Missing
<1> QED BY <1>2, <1>3, DemandIs, DemandNext

\* The steps that do not write: no sequence changes but the one that opens or closes, and
\* blocks are only given back.
LEMMA OtherMemory ==
  ASSUME EngineInv, [Next]_vars, ~ExecuteChunk, ~DecodeWrite
  PROVE  /\ NumFree' >= NumFree
         /\ \A x \in open' : \/ x \in open /\ KeptWhole(x)
                             \/ x = Head(waiting) /\ AdmitOpen /\ Private(x)'
<1> USE DEF Requests
<1>1. open \subseteq Seqs /\ NumFree \in Nat
  BY Counts DEF EngineInv, KVInv, KVTypeOK
<1>2. CASE Quiet
  <2>1. \A x : KeptWhole(x)
    BY <1>2 DEF Quiet, KeptWhole, Private
  <2>2. NumFree' = NumFree
    BY <1>2 DEF Quiet, NumFree
  <2> QED BY <1>1, <1>2, <2>1, <2>2 DEF Quiet
<1>3. ASSUME NEW v \in Seqs, Release(v)
      PROVE  NumFree' >= NumFree /\ \A x \in open' : x \in open /\ KeptWhole(x)
  <2>1. /\ open' = open \ {v} /\ NumFree' >= NumFree
        /\ \A x \in Seqs \ {v} : KeptWhole(x)
    BY <1>3, ReleaseLeaves DEF EngineInv
  <2> QED BY <1>1, <2>1
<1>4. CASE \/ BeginStep \/ DecodeScan \/ RoomMade \/ DecodeRetry \/ DecodesDone \/ PrefillScan
           \/ PrefillsDone \/ AdmitRefuse \/ AdmitDone \/ BreakStall \/ AdvanceHead \/ ProgressRetry
           \/ NothingToForce \/ BeginBatch \/ DecodeEmit \/ BeginRetire \/ RetireSkip \/ EndStep
           \/ UNCHANGED vars
  <2>1. Quiet
    BY <1>4, QuietSteps
  <2> QED BY <1>2, <2>1
<1>5. CASE Admit
  <2>1. Quiet
    BY <1>5 DEF Admit, Quiet, kvvars
  <2> QED BY <1>2, <2>1
<1>6. CASE PreemptNewest
  <2>1. PICK i \in Victims : Release(running[i])
    BY <1>6 DEF PreemptNewest
  <2>2. running[i] \in Seqs
    BY <2>1, Parts DEF Victims
  <2> QED BY <1>3, <2>1, <2>2
<1>7. CASE CacheEviction
  <2>1. /\ open' = open /\ NumFree' >= NumFree /\ \A x \in Seqs : KeptWhole(x)
    BY <1>7, EvictionLeaves DEF CacheEviction, EngineInv
  <2> QED BY <1>1, <2>1
<1>8. CASE AdmitOpen
  <2>1. PICK r \in Seqs : r = Head(waiting) /\ Open(r, prompt[r]) /\ prompt[r] \in Prompts
    BY <1>8, HeadWaits DEF AdmitOpen, MayAdmit
  <2>2. /\ open' = open \cup {r} /\ free' = free /\ \A x \in Seqs \ {r} : KeptWhole(x)
        /\ Private(r)'
    BY <2>1, OpenLeaves DEF EngineInv
  <2>3. NumFree' = NumFree
    BY <2>2 DEF NumFree
  <2>4. r \notin open
    BY <2>1 DEF Open
  <2> QED BY <1>1, <1>8, <2>1, <2>2, <2>3, <2>4
<1>9. CASE AdmitRollback
  <2>1. Release(Head(waiting)) /\ Head(waiting) \in Seqs
    BY <1>9, HeadWaits DEF AdmitRollback, MayAdmit
  <2> QED BY <1>3, <2>1
<1>10. CASE RetirePublish
  <2>1. UNCHANGED kvvars \/ Publish(Head(scan), AllTokens(Head(scan)))
    BY <1>10 DEF RetirePublish
  <2>2. CASE UNCHANGED kvvars
    <3>1. Quiet
      BY <2>2 DEF kvvars, Quiet
    <3> QED BY <1>2, <3>1
  <2>3. CASE Publish(Head(scan), AllTokens(Head(scan)))
    <3>1. Head(scan) \in Requests
      BY <1>10, Parts, Taking DEF RetirePublish
    <3>2. AllTokens(Head(scan)) \in Fed
      <4>1. AllTokens(Head(scan)) \in Seq(Tokens)
        BY <3>1, Lengths DEF EngineInv
      <4> QED BY <4>1 DEF Fed
    <3>3. open' = open /\ free' = free /\ \A x \in Seqs : KeptWhole(x)
      BY <2>3, <3>1, <3>2, PublishLeaves DEF EngineInv
    <3>4. NumFree' = NumFree
      BY <3>3 DEF NumFree
    <3> QED BY <1>1, <3>3, <3>4
  <2> QED BY <2>1, <2>2, <2>3
<1>11. CASE RetireRelease
  <2>1. IF Head(scan) \in open THEN Release(Head(scan)) ELSE UNCHANGED kvvars
    BY <1>11 DEF RetireRelease
  <2>2. CASE Head(scan) \in open
    BY <1>1, <1>3, <2>1, <2>2
  <2>3. CASE Head(scan) \notin open
    <3>1. Quiet
      BY <2>1, <2>3 DEF kvvars, Quiet
    <3> QED BY <1>2, <3>1
  <2> QED BY <2>2, <2>3
<1>12. CASE Clients
  <2>1. \/ Quiet
        \/ \E r \in Requests : Release(r)
    BY <1>12 DEF Clients, AddRequest, AbortRequest, Quiet, kvvars
  <2> QED BY <1>2, <1>3, <2>1
<1> QED BY <1>4, <1>5, <1>6, <1>7, <1>8, <1>9, <1>10, <1>11, <1>12
        DEF Next, EngineThread, Schedule, Execute

\* No sequence holds more than it has computed, but for a decode that was written and not
\* emitted yet.
TextFits ==
  \A r \in open :
    \/ Len(text[r]) <= computed[r]
    \/ /\ pc = "batch" /\ r \in Members(decodes) \ Members(scan)
       /\ Len(text[r]) <= computed[r] + 1

\* What the step will take is there; while it schedules, within what it reserved.
Reserve ==
  /\ Cardinality(Demand) <= NumFree
  /\ pc \in Scheduling => Cardinality(Demand) <= reserved /\ reserved <= NumFree

Room == WritesArePrivate /\ TextFits /\ Reserve /\ pc # "crashed"

\* A scheduled pass finds its blocks: it takes them from the free ones and goes through.
LEMMA PassWrites ==
  ASSUME EngineInv, Room, NEW r \in Requests, NEW start \in Nat, NEW toks \in Seq(Tokens),
         Forward(r, start, toks), {r} \X Missing(r, start + Len(toks)) \subseteq Demand,
         r \in open => Len(text[r]) <= start
  PROVE  /\ NumFree' = NumFree - BlocksNeeded(r, start + Len(toks))
         /\ BlocksNeeded(r, start + Len(toks)) <= NumFree
         /\ r \in open /\ open' = open /\ ~Raised(r)
         /\ Len(text'[r]) = start + Len(toks) /\ Private(r)'
         /\ \A x \in Seqs \ {r} : KeptWhole(x)
<1> USE DEF Requests
<1> DEFINE n == start + Len(toks)
<1>1. n \in Nat /\ Len(toks) \in Nat
  OBVIOUS
<1> HIDE DEF n
<1>2. /\ BlocksNeeded(r, n) \in Nat /\ Cardinality({r} \X Missing(r, n)) = BlocksNeeded(r, n)
  BY <1>1, MissingFinite DEF EngineInv, KVInv
<1>3. BlocksNeeded(r, n) <= NumFree
  <2>1. Cardinality({r} \X Missing(r, n)) <= Cardinality(Demand)
    BY DemandFinite, FS_Subset DEF n
  <2>2. Cardinality(Demand) <= NumFree /\ Cardinality(Demand) \in Nat /\ NumFree \in Nat
    BY DemandFinite, Counts DEF Room, Reserve, EngineInv
  <2> QED BY <1>2, <2>1, <2>2
<1>4. Write(r, start, toks)
  <2>1. NumFree \in Nat
    BY Counts DEF EngineInv
  <2>2. ~(BlocksNeeded(r, n) > NumFree)
    BY <1>2, <1>3, <2>1
  <2> QED BY <2>2 DEF Forward, n
<1>5. r \in open /\ Len(text[r]) <= start /\ Private(r)
  BY <1>4 DEF Write, Room, WritesArePrivate, Private
<1>6. /\ Len(toks) > 0 /\ NumFree' = NumFree - Cardinality(Missing(r, n))
      /\ Len(text'[r]) = n /\ open' = open
  BY <1>4, <1>5, PrivateWrite DEF n, EngineInv
<1>7. Private(r)' /\ \A x \in Seqs \ {r} : KeptWhole(x)
  BY <1>4, <1>5, WriteLeaves DEF EngineInv
<1>8. ~Raised(r)
  <2>1. Len(text[r]) \in Nat
    BY DEF EngineInv, KVInv, KVTypeOK, Fed
  <2>2. Len(text'[r]) # Len(text[r])
    BY <1>1, <1>5, <1>6, <2>1 DEF n
  <2> QED BY <2>2 DEF Raised
<1> QED BY <1>3, <1>5, <1>6, <1>7, <1>8 DEF n, BlocksNeeded

\* Whom the rest of the step serves.
LEMMA PlannedTypes ==
  ASSUME EngineInv
  PROVE  /\ \A c \in Members(chunks) : c.req \in Seqs /\ c.start + c.take \in Nat
         /\ \A x \in Planned : x \in Seqs /\ computed[x] + 1 \in Nat
<1>1. /\ chunks \in Seq(PrefillChunk) /\ (IF pc = "batch" THEN scan ELSE decodes) \in Seq(Requests)
      /\ computed \in [Requests -> Nat]
  BY Parts DEF RequestTypes
<1>2. \A c \in PrefillChunk : c.req \in Requests /\ c.start + c.take \in Nat
  BY DEF PrefillChunk
<1>3. Planned \subseteq Requests
  BY <1>1, MembersOf DEF Planned
<1> QED BY <1>1, <1>2, <1>3, MembersOf DEF Requests

\* A pass uses up exactly the demand it was planned with.
LEMMA RoomPass ==
  ASSUME EngineInv, Room, NEW r \in Requests, NEW start \in Nat, NEW toks \in Seq(Tokens),
         Forward(r, start, toks), {r} \X Missing(r, start + Len(toks)) \subseteq Demand,
         r \in open => Len(text[r]) <= start,
         Members(chunks') \subseteq Members(chunks), Planned' \subseteq Planned,
         \A c \in Members(chunks') : c.req # r,
         r \notin Planned', \A x \in Planned' : computed'[x] = computed[x],
         pc \in {"execute", "batch"}, pc' = IF Raised(r) THEN "crashed" ELSE pc
  PROVE  WritesArePrivate' /\ Reserve' /\ pc' = pc
<1> DEFINE N == BlocksNeeded(r, start + Len(toks))
           D == {r} \X Missing(r, start + Len(toks))
<1>1. /\ NumFree' = NumFree - N /\ open' = open /\ ~Raised(r) /\ Private(r)'
      /\ \A x \in Seqs \ {r} : KeptWhole(x)
  BY PassWrites
<1>2. pc' = pc
  BY <1>1
<1>3. WritesArePrivate'
  <2>1. open \subseteq Seqs
    BY DEF EngineInv, KVInv, KVTypeOK
  <2>2. \A x \in open : Private(x)
    BY DEF Room, WritesArePrivate, Private
  <2>3. \A x \in open' : Private(x)'
    BY <1>1, <2>1, <2>2 DEF KeptWhole
  <2> QED BY <2>3 DEF WritesArePrivate, Private
<1>4. Demand' \subseteq Demand \ D
  <2>1. \A c \in Members(chunks') : c.req \in Seqs \ {r}
    BY PlannedTypes
  <2>2. \A x \in Planned' : x \in Seqs \ {r}
    BY PlannedTypes
  <2>3. Demand' \subseteq Demand
    BY <1>1, <2>1, <2>2, DemandLess DEF KeptWhole
  <2>4. \A t \in Demand' : t \notin D
    <3>3. \A t \in Demand' : t[1] # r
      BY <2>1, <2>2, DemandNext
    <3> QED BY <3>3
  <2> QED BY <2>3, <2>4
<1>5. Reserve'
  <2>1. start + Len(toks) \in Nat /\ KVTypeOK
    BY DEF EngineInv, KVInv
  <2>2. N \in Nat /\ Cardinality(D) = N /\ D \subseteq Demand
    BY <2>1, MissingFinite
  <2>3. IsFiniteSet(Demand) /\ Cardinality(Demand) \in Nat /\ Cardinality(Demand) <= NumFree
        /\ NumFree \in Nat
    BY DemandFinite, Counts DEF Room, Reserve, EngineInv
  <2> HIDE DEF N, D
  <2>4. Demand \cap D = D
    BY <2>2
  <2>5. /\ IsFiniteSet(Demand \ D)
        /\ Cardinality(Demand \ D) = Cardinality(Demand) - Cardinality(Demand \cap D)
    BY <2>3, FS_Difference
  <2>6. /\ Cardinality(Demand') <= Cardinality(Demand \ D) /\ Cardinality(Demand') \in Nat
    BY <1>4, <2>5, FS_Subset, FS_CardinalityType
  <2>7. Cardinality(Demand \ D) = Cardinality(Demand) - N
    BY <2>2, <2>4, <2>5
  <2>8. Cardinality(Demand') <= NumFree'
    BY <1>1, <2>2, <2>3, <2>6, <2>7
  <2> QED BY <1>2, <2>8 DEF Reserve, Scheduling
<1> QED BY <1>2, <1>3, <1>5

\* The tokens a chunk feeds.
LEMMA ChunkTokens ==
  ASSUME EngineInv, Plan, NEW c \in Members(chunks)
  PROVE  LET toks == SubSeq(AllTokens(c.req), c.start + 1, c.start + c.take)
         IN  /\ toks \in Seq(Tokens) /\ Len(toks) = c.take
             /\ c.start + Len(toks) = c.start + c.take
<1> DEFINE all == AllTokens(c.req)
           s == c.start
           e == c.start + c.take
<1>1. /\ s \in Nat /\ e \in Nat /\ s <= e /\ c.take \in Nat /\ e = s + c.take
      /\ all \in Seq(Tokens) /\ Len(all) \in Nat /\ e <= Len(all)
  <2>1. /\ c.req \in Requests /\ c.take \in Nat /\ c.start \in Nat
        /\ c.start + c.take <= Target(c.req)
    BY ChunkBehind
  <2>2. /\ all \in Seq(Tokens) /\ Len(all) \in Nat /\ Target(c.req) \in Nat
        /\ Target(c.req) <= Len(all)
    BY <2>1, Lengths DEF EngineInv
  <2> HIDE DEF all
  <2> QED BY <2>1, <2>2
<1> HIDE DEF all, s, e
<1>2. \A i \in (s + 1) .. e : all[i] \in Tokens
  BY <1>1
<1>3. SubSeq(all, s + 1, e) \in Seq(Tokens) /\ Len(SubSeq(all, s + 1, e)) = c.take
  BY <1>1, <1>2, SubSeqProperties
<1> QED BY <1>3 DEF all, s, e

\* A chunk and a decode find what was reserved for them.
LEMMA RoomServes ==
  ASSUME EngineInv, Plan, Room, ExecuteChunk \/ DecodeWrite
  PROVE  Room'
<1>1. RequestTypes /\ KVTypeOK
  BY Parts DEF EngineInv, KVInv
<1>2. CASE ExecuteChunk
  <2>1. /\ pc = "execute" /\ chunks # <<>> /\ chunks' = Tail(chunks) /\ decodes' = decodes
        /\ scan' = scan
    BY <1>2 DEF ExecuteChunk
  <2>2. PICK c \in Members(chunks) :
          /\ c = Head(chunks) /\ \A d \in Members(Tail(chunks)) : d.req # c.req
          /\ Members(Tail(chunks)) \subseteq Members(chunks)
    <3>1. chunks \in Seq(PrefillChunk) /\ Apart(chunks)
      BY Parts DEF Plan, OneVisit
    <3> QED BY <2>1, <3>1, Taking, ChunkTaken
  <2> DEFINE toks == SubSeq(AllTokens(c.req), c.start + 1, c.start + c.take)
  <2>3. /\ Forward(c.req, c.start, toks)
        /\ pc' = IF Raised(c.req) THEN "crashed" ELSE pc
        /\ computed' = IF Raised(c.req) THEN computed
                       ELSE [computed EXCEPT ![c.req] = c.start + c.take]
    BY <1>2, <2>2 DEF ExecuteChunk, OrCrash
  <2>4. toks \in Seq(Tokens) /\ c.start + Len(toks) = c.start + c.take
    BY ChunkTokens
  <2>5. /\ c.req \in Requests /\ c.start = computed[c.req] /\ c.start \in Nat /\ c.take \in Nat
        /\ c.req \notin Members(decodes)
    BY ChunkBehind
  <2> HIDE DEF toks
  <2>6. {c.req} \X Missing(c.req, c.start + Len(toks)) \subseteq Demand
    BY <2>4, DemandIs
  <2>7. \A x \in open : Len(text[x]) <= computed[x]
    BY <2>1 DEF Room, TextFits
  <2>8. Planned = Members(decodes)
    BY <2>1 DEF Planned
  <2>9. \A x \in Members(decodes) : computed'[x] = computed[x]
    BY <1>1, <2>3, <2>5 DEF RequestTypes
  <2>10. Planned' = Members(decodes)
    BY <2>1, <2>3 DEF Planned, Members
  <2>11. WritesArePrivate' /\ Reserve' /\ pc' = pc
    <3>1. \A d \in Members(chunks') : d.req # c.req
      BY <2>1, <2>2
    <3>2. Members(chunks') \subseteq Members(chunks)
      BY <2>1, <2>2
    <3>3. c.req \in open => Len(text[c.req]) <= c.start
      BY <2>5, <2>7
    <3> QED BY <2>1, <2>3, <2>4, <2>5, <2>6, <2>8, <2>9, <2>10, <3>1, <3>2, <3>3, RoomPass
  <2>12. TextFits'
    <3>1. /\ open' = open /\ ~Raised(c.req) /\ Len(text'[c.req]) = c.start + Len(toks)
          /\ \A x \in Seqs \ {c.req} : KeptWhole(x)
      BY <2>3, <2>4, <2>5, <2>6, <2>7, PassWrites
    <3>2. /\ computed'[c.req] = c.start + c.take
          /\ \A x \in Requests \ {c.req} : computed'[x] = computed[x]
      BY <1>1, <2>3, <2>5, <3>1 DEF RequestTypes
    <3>3. c.start + c.take \in Nat /\ \A n \in Nat : n <= n
      BY <2>5
    <3>4. \A x \in open' : Len(text'[x]) <= computed'[x]
      <4> SUFFICES ASSUME NEW x \in open' PROVE Len(text'[x]) <= computed'[x]
        OBVIOUS
      <4>1. x \in Requests
        BY <1>1, <3>1 DEF KVTypeOK, Requests
      <4>2. CASE x = c.req
        BY <2>4, <3>1, <3>2, <3>3, <4>2
      <4>3. CASE x # c.req
        BY <2>7, <3>1, <3>2, <4>1, <4>3 DEF KeptWhole, Requests
      <4> QED BY <4>2, <4>3
    <3> QED BY <3>4 DEF TextFits
  <2> QED BY <2>1, <2>11, <2>12 DEF Room
<1>3. CASE DecodeWrite
  <2>1. /\ pc = "batch" /\ scan # <<>> /\ scan' = Tail(scan) /\ UNCHANGED <<chunks, decodes>>
        /\ computed' = computed
    BY <1>3 DEF DecodeWrite, reqvars
  <2>2. PICK r \in Requests :
          /\ r = Head(scan) /\ r \in Members(scan) /\ r \notin Members(Tail(scan))
          /\ Members(Tail(scan)) \subseteq Members(scan) /\ Members(scan) \subseteq Members(decodes)
          /\ Members(scan) = Members(Tail(scan)) \cup {r}
    BY <2>1, Parts, Taking DEF Plan, OneVisit
  <2> DEFINE toks == <<LastToken(r)>>
  <2>3. Forward(r, computed[r], toks) /\ pc' = IF Raised(r) THEN "crashed" ELSE pc
    BY <1>3, <2>2 DEF DecodeWrite, OrCrash
  <2>4. /\ toks \in Seq(Tokens) /\ computed[r] \in Nat /\ Len(toks) = 1
        /\ computed[r] + Len(toks) = computed[r] + 1
    <3>1. prompt[r] \in Prompts
      BY <2>1, <2>2 DEF EngineInv, LoopInv, Submitted, RunningLive, ScanRuns
    <3>2. Len(AllTokens(r)) \in Nat /\ Len(AllTokens(r)) # 0 /\ AllTokens(r) \in Seq(Tokens)
      <4>1. Len(prompt[r]) # 0
        BY <3>1, KVAssumption
      <4>2. /\ Len(prompt[r]) \in Nat /\ Len(out[r]) \in Nat
            /\ Len(AllTokens(r)) = Len(prompt[r]) + Len(out[r])
        BY Sizes DEF EngineInv
      <4>3. \A m, n \in Nat : m # 0 => m + n # 0 /\ m + n \in Nat
        OBVIOUS
      <4> QED BY <4>1, <4>2, <4>3, Lengths DEF EngineInv
    <3>3. LastToken(r) \in Tokens
      BY <3>2 DEF LastToken
    <3> QED BY <1>1, <3>3 DEF RequestTypes
  <2> HIDE DEF toks
  <2>5. Planned = Members(scan) /\ chunks = <<>> /\ Members(chunks') = {}
    BY <2>1 DEF Planned, EngineInv, LoopInv, ScheduledRuns, Members
  <2>6. {r} \X Missing(r, computed[r] + Len(toks)) \subseteq Demand
    BY <2>2, <2>4, <2>5, DemandIs
  <2>7. r \in open => Len(text[r]) <= computed[r]
    BY <2>1, <2>2 DEF Room, TextFits
  <2>8. /\ open' = open /\ ~Raised(r) /\ Len(text'[r]) = computed[r] + 1
        /\ \A x \in Seqs \ {r} : KeptWhole(x)
    BY <2>3, <2>4, <2>6, <2>7, PassWrites
  <2>9. pc' = "batch"
    BY <2>1, <2>3, <2>8
  <2>10. Planned' = Members(scan')
    BY <2>9 DEF Planned, Members
  <2>11. WritesArePrivate' /\ Reserve'
    <3>1. pc \in {"execute", "batch"} /\ Planned' \subseteq Planned /\ r \notin Planned'
      BY <2>1, <2>2, <2>5, <2>10
    <3>2. \A x \in Planned' : computed'[x] = computed[x]
      BY <2>1
    <3>3. Members(chunks') \subseteq Members(chunks) /\ \A c \in Members(chunks') : c.req # r
      BY <2>5
    <3> QED BY <2>3, <2>4, <2>6, <2>7, <3>1, <3>2, <3>3, RoomPass
  <2>12. TextFits'
    <3>1. /\ Members(decodes)' = Members(decodes) /\ Members(scan)' = Members(Tail(scan))
      BY <2>1 DEF Members
    <3>2. r \in Members(decodes) \ Members(Tail(scan)) /\ computed[r] + 1 <= computed[r] + 1
      BY <2>2, <2>4
    <3>3. \A x \in open' : \/ Len(text'[x]) <= computed[x]
                           \/ /\ x \in Members(decodes) \ Members(Tail(scan))
                              /\ Len(text'[x]) <= computed[x] + 1
      <4> SUFFICES ASSUME NEW x \in open'
                   PROVE  \/ Len(text'[x]) <= computed[x]
                          \/ /\ x \in Members(decodes) \ Members(Tail(scan))
                             /\ Len(text'[x]) <= computed[x] + 1
        OBVIOUS
      <4>1. CASE x = r
        BY <2>8, <3>2, <4>1
      <4>2. CASE x # r
        <5>1. x \in open /\ x \in Seqs /\ text'[x] = text[x]
          BY <1>1, <2>8, <4>2 DEF KVTypeOK, KeptWhole
        <5>2. \/ Len(text[x]) <= computed[x]
              \/ x \in Members(decodes) \ Members(scan) /\ Len(text[x]) <= computed[x] + 1
          BY <5>1 DEF Room, TextFits
        <5> QED BY <2>2, <5>1, <5>2
      <4> QED BY <4>1, <4>2
    <3> QED BY <2>1, <2>9, <3>1, <3>3 DEF TextFits
  <2> QED BY <2>9, <2>11, <2>12 DEF Room
<1> QED BY <1>2, <1>3

\* What a step that writes nothing leaves private.
LEMMA PrivateElsewhere ==
  ASSUME EngineInv, WritesArePrivate, [Next]_vars, ~ExecuteChunk, ~DecodeWrite
  PROVE  WritesArePrivate'
<1>1. \A x \in open : Private(x)
  BY DEF WritesArePrivate, Private
<1>2. \A x \in open' : Private(x)'
  BY <1>1, OtherMemory DEF KeptWhole
<1> QED BY <1>2 DEF WritesArePrivate, Private

\* Sequences that stay as they are, with requests that stay where they are.
LEMMA FitsStay ==
  ASSUME EngineInv, TextFits, [Next]_vars, ~ExecuteChunk, ~DecodeWrite, ~AdmitOpen,
         \A x \in open \cap open' : computed'[x] = computed[x],
         \/ pc # "batch"
         \/ decodes = <<>>
         \/ pc' = pc /\ UNCHANGED <<decodes, scan>>
  PROVE  TextFits'
<1>1. \A x \in open' : x \in open /\ text'[x] = text[x] /\ computed'[x] = computed[x]
  BY OtherMemory DEF KeptWhole
<1>2. CASE pc # "batch" \/ decodes = <<>>
  <2>1. \A x \in open : Len(text[x]) <= computed[x]
    BY <1>2 DEF TextFits, Members
  <2> QED BY <1>1, <2>1 DEF TextFits
<1>3. CASE pc' = pc /\ UNCHANGED <<decodes, scan>>
  <2>1. Members(decodes)' = Members(decodes) /\ Members(scan)' = Members(scan)
    BY <1>3 DEF Members
  <2> QED BY <1>1, <1>3, <2>1 DEF TextFits
<1> QED BY <1>2, <1>3

\* No step that writes nothing leaves a sequence longer than what its request has computed.
LEMMA FitsElsewhere ==
  ASSUME EngineInv, EngineInv', TextFits, [Next]_vars, ~ExecuteChunk, ~DecodeWrite
  PROVE  TextFits'
<1>1. RequestTypes /\ open \subseteq Requests
  BY Parts DEF EngineInv, KVInv, KVTypeOK, Requests
<1>2. CASE AdmitOpen
  <2>1. PICK r \in Requests : /\ r = Head(waiting) /\ pc = "admit" /\ pc' = pc
                              /\ Open(r, prompt[r]) /\ prompt[r] \in Prompts
                              /\ computed' = [computed EXCEPT ![r] =
                                   IF text'[r] # <<>> THEN Len(text'[r]) ELSE @]
    BY <1>2, HeadWaits DEF AdmitOpen, MayAdmit
  <2>2. open' = open \cup {r} /\ \A x \in Seqs \ {r} : KeptWhole(x)
    BY <2>1, OpenLeaves DEF EngineInv, Requests
  <2>3. Len(text'[r]) <= computed'[r]
    <3>1. computed'[r] = IF text'[r] # <<>> THEN Len(text'[r]) ELSE computed[r]
      BY <1>1, <2>1 DEF RequestTypes
    <3>2. Len(text'[r]) \in Nat /\ computed[r] \in Nat /\ Len(<<>>) = 0
      BY <1>1 DEF EngineInv, KVInv, KVTypeOK, Fed, RequestTypes, Requests
    <3> QED BY <3>1, <3>2
  <2>4. \A x \in open \ {r} : Len(text'[x]) <= computed'[x]
    <3>1. \A x \in Requests \ {r} : computed'[x] = computed[x]
      BY <1>1, <2>1 DEF RequestTypes
    <3>2. \A x \in open : Len(text[x]) <= computed[x]
      BY <2>1 DEF TextFits
    <3> QED BY <1>1, <2>2, <3>1, <3>2 DEF KeptWhole, Requests
  <2> QED BY <2>2, <2>3, <2>4 DEF TextFits
<1>3. CASE DecodeEmit
  <2>1. /\ pc = "batch" /\ pc' = "batch" /\ scan = <<>> /\ scan' = <<>> /\ decodes # <<>>
        /\ decodes' = Tail(decodes) /\ computed' = [computed EXCEPT ![Head(decodes)] = @ + 1]
        /\ open' = open /\ text' = text
    BY <1>3 DEF DecodeEmit, kvvars
  <2>2. PICK r \in Requests : /\ r = Head(decodes)
                              /\ Members(decodes) = Members(Tail(decodes)) \cup {r}
    BY <2>1, Parts, Taking
  <2>3. /\ computed'[r] = computed[r] + 1 /\ computed[r] \in Nat
        /\ \A x \in Requests \ {r} : computed'[x] = computed[x]
    BY <1>1, <2>1, <2>2 DEF RequestTypes
  <2>4. /\ Members(decodes)' = Members(Tail(decodes)) /\ Members(scan)' = {}
        /\ Members(scan) = {}
    BY <2>1 DEF Members
  <2> SUFFICES ASSUME NEW x \in open
               PROVE  \/ Len(text[x]) <= computed'[x]
                      \/ x \in Members(Tail(decodes)) /\ Len(text[x]) <= computed'[x] + 1
    BY <2>1, <2>4 DEF TextFits
  <2>5. \/ Len(text[x]) <= computed[x]
        \/ x \in Members(decodes) /\ Len(text[x]) <= computed[x] + 1
    BY DEF TextFits
  <2>6. Len(text[x]) \in Nat /\ x \in Requests
    BY <1>1 DEF EngineInv, KVInv, KVTypeOK, Fed, Requests
  <2>7. CASE x = r
    BY <2>3, <2>5, <2>6, <2>7
  <2>8. CASE x # r
    BY <2>2, <2>3, <2>5, <2>6, <2>8
  <2> QED BY <2>7, <2>8
<1>4. CASE PreemptNewest
  <2>1. PICK i \in Victims : Release(running[i]) /\ computed' = [computed EXCEPT ![running[i]] = 0]
    BY <1>4 DEF PreemptNewest
  <2>2. open' = open \ {running[i]}
    BY <2>1 DEF Release
  <2>3. \A x \in open \cap open' : computed'[x] = computed[x]
    BY <1>1, <2>1, <2>2 DEF RequestTypes
  <2>4. pc # "batch" /\ pc \notin {"admit"}
    BY <1>4 DEF PreemptNewest
  <2>5. ~AdmitOpen
    BY <2>4 DEF AdmitOpen
  <2> QED BY <2>3, <2>4, <2>5, FitsStay
<1>5. CASE Clients
  <2>1. PICK r \in Requests : \/ \E p \in Prompts, m \in OutLimits : AddRequest(r, p, m)
                              \/ AbortRequest(r)
    BY <1>5 DEF Clients
  <2>2. pc = "idle"
    BY <2>1 DEF AddRequest, AbortRequest
  <2>3. ~AdmitOpen
    BY <2>2 DEF AdmitOpen
  <2>4. CASE AbortRequest(r)
    BY <2>2, <2>3, <2>4, FitsStay DEF AbortRequest
  <2>5. CASE \E p \in Prompts, m \in OutLimits : AddRequest(r, p, m)
    <3>1. state[r] \in Over \cup {"new"} /\ computed' = [computed EXCEPT ![r] = 0]
      BY <2>5 DEF AddRequest
    <3>2. r \notin open
      BY <2>2, <3>1, Parts DEF EngineInv, LoopInv, RunningLive, Over
    <3>3. \A x \in open \cap open' : computed'[x] = computed[x]
      BY <1>1, <3>1, <3>2 DEF RequestTypes
    <3> QED BY <2>2, <2>3, <3>3, FitsStay
  <2> QED BY <2>1, <2>4, <2>5
<1>6. CASE \/ BeginStep \/ DecodeScan \/ RoomMade \/ DecodeRetry \/ DecodesDone \/ PrefillScan
           \/ PrefillsDone \/ AdmitRefuse \/ Admit \/ AdmitRollback \/ AdmitDone \/ BreakStall
           \/ AdvanceHead \/ ProgressRetry \/ NothingToForce \/ CacheEviction \/ BeginBatch
           \/ BeginRetire \/ RetireSkip \/ RetirePublish \/ RetireRelease \/ EndStep
           \/ UNCHANGED vars
  <2>1. /\ computed' = computed
        /\ \/ pc # "batch"
           \/ decodes = <<>>
           \/ pc' = pc /\ UNCHANGED <<decodes, scan>>
    <3>1. CASE \/ BeginStep \/ DecodeScan \/ RoomMade \/ DecodeRetry \/ DecodesDone \/ PrefillScan
               \/ PrefillsDone \/ AdmitRefuse \/ Admit \/ AdmitRollback \/ AdmitDone
      BY <3>1 DEF BeginStep, DecodeScan, RoomMade, DecodeRetry, DecodesDone, PrefillScan,
         PrefillsDone, AdmitRefuse, Admit, AdmitRollback, AdmitDone, reqvars
    <3>2. CASE \/ BreakStall \/ AdvanceHead \/ ProgressRetry \/ NothingToForce \/ CacheEviction
               \/ BeginBatch \/ BeginRetire \/ RetireSkip \/ RetirePublish \/ RetireRelease
               \/ EndStep \/ UNCHANGED vars
      BY <3>2 DEF BreakStall, AdvanceHead, ProgressRetry, NothingToForce, CacheEviction, BeginBatch,
         BeginRetire, RetireSkip, RetirePublish, RetireRelease, EndStep, vars, reqvars, locals
    <3> QED BY <1>6, <3>1, <3>2
  <2>2. CASE ~AdmitOpen
    BY <2>1, <2>2, FitsStay
  <2> QED BY <1>2, <2>2
<1> QED BY <1>2, <1>3, <1>4, <1>5, <1>6 DEF Next, EngineThread, Schedule, Execute

\* Free blocks are counted.
LEMMA FreeCounts == EngineInv => NumFree \in Nat
  BY Counts DEF EngineInv

\* Less demand, more blocks, and no new reservation.
LEMMA ReserveStay ==
  ASSUME EngineInv, EngineInv', Reserve, Demand' \subseteq Demand, NumFree' >= NumFree,
         pc' \in Scheduling => pc \in Scheduling /\ reserved' = reserved
  PROVE  Reserve'
<1>1. /\ IsFiniteSet(Demand) /\ Cardinality(Demand) \in Nat /\ NumFree \in Nat
      /\ reserved \in Nat
  BY DemandFinite, Counts, Parts DEF EngineInv, StepTypes
<1>2. NumFree' \in Nat
  <2>1. (NumFree \in Nat)'
    BY FreeCounts, PTL
  <2> QED BY <2>1
<1>3. Cardinality(Demand') <= Cardinality(Demand) /\ Cardinality(Demand') \in Nat
  BY <1>1, FS_Subset, FS_CardinalityType
<1> QED BY <1>1, <1>2, <1>3 DEF Reserve

\* Nothing left to do demands nothing.
LEMMA ReserveNothing ==
  ASSUME EngineInv, EngineInv', Members(chunks') = {}, Planned' = {},
         pc' \in Scheduling => reserved' = 0
  PROVE  Reserve'
<1>1. Demand' = {}
  BY DemandNext
<1>2. Cardinality(Demand') = 0
  BY <1>1, FS_EmptySet
<1>3. NumFree' \in Nat
  <2>1. (NumFree \in Nat)'
    BY FreeCounts, PTL
  <2> QED BY <2>1
<1> QED BY <1>2, <1>3 DEF Reserve

\* One more request is committed to, and fits what is available.
LEMMA ReserveMore ==
  ASSUME EngineInv, Reserve, pc \in Scheduling, free' = free,
         NEW r \in Requests, NEW n \in Nat,
         Demand' \subseteq Demand \cup ({r} \X Missing(r, n)),
         BlocksNeeded(r, n) <= Max2(0, Available), reserved' = reserved + BlocksNeeded(r, n)
  PROVE  Reserve'
<1> DEFINE D == {r} \X Missing(r, n)
           k == BlocksNeeded(r, n)
           d == Cardinality(Demand)
<1>1. IsFiniteSet(D) /\ Cardinality(D) = k /\ k \in Nat
  BY MissingFinite DEF EngineInv, KVInv
<1>2. /\ IsFiniteSet(Demand) /\ d \in Nat /\ NumFree \in Nat /\ reserved \in Nat
      /\ d <= reserved /\ reserved <= NumFree
  BY DemandFinite, Counts, Parts DEF EngineInv, StepTypes, Reserve
<1>3. Watermark \in Nat
  BY KVAssumption, EngineAssumption, FS_CardinalityType
<1>4. Available = (NumFree - Watermark) - reserved
  BY DEF Available, Headroom
<1> HIDE DEF D, d
<1>5. Cardinality(Demand') <= d + k /\ Cardinality(Demand') \in Nat
  <2>1. /\ IsFiniteSet(Demand \cup D)
        /\ Cardinality(Demand \cup D)
             = Cardinality(Demand) + Cardinality(D) - Cardinality(Demand \cap D)
    BY <1>1, <1>2, FS_Union
  <2>2. Cardinality(Demand \cap D) \in Nat
    <3>1. Demand \cap D \subseteq D
      OBVIOUS
    <3> QED BY <1>1, <3>1, FS_Subset, FS_CardinalityType
  <2>3. /\ Cardinality(Demand') <= Cardinality(Demand \cup D) /\ Cardinality(Demand') \in Nat
        /\ Cardinality(Demand \cup D) \in Nat
    BY <2>1, FS_Subset, FS_CardinalityType DEF D
  <2>4. Cardinality(Demand) = d /\ d \in Nat
    BY <1>2 DEF d
  <2> HIDE DEF k
  <2> QED BY <1>1, <2>1, <2>2, <2>3, <2>4
<1>6. NumFree' = NumFree
  BY DEF NumFree
<1> HIDE DEF k
<1>7. reserved' = reserved + k /\ k <= Max2(0, Available)
  BY DEF k
<1>8. d + k <= reserved + k /\ reserved + k <= NumFree /\ d + k \in Nat
  BY <1>1, <1>2, <1>3, <1>4, <1>7 DEF Max2
<1> QED BY <1>1, <1>2, <1>5, <1>6, <1>7, <1>8 DEF Reserve

\* Stage 1 commits to the next block of a request.
LEMMA ReserveDecode ==
  ASSUME EngineInv, Reserve, pc \in {"decode", "decode_retry"}, pc' = "decode", scan # <<>>,
         NextNeed(Head(scan)) <= Available, ScheduleDecode(Head(scan)), Quiet, UNCHANGED reqvars
  PROVE  Reserve'
<1>1. PICK r \in Requests : r = Head(scan)
  BY Parts, Taking
<1>2. /\ reserved' = reserved + NextNeed(r) /\ decodes' = Append(decodes, r) /\ chunks' = chunks
      /\ computed' = computed /\ table' = table /\ free' = free
  BY <1>1 DEF ScheduleDecode, Quiet, reqvars
<1>3. Members(decodes') = Members(decodes) \cup {r}
  <2>1. decodes' \in Seq(Requests) /\ Behind(decodes', decodes, r)
    BY <1>2, Parts DEF Behind
  <2> QED BY <2>1, Parts, Appended
<1>4. Planned' = Planned \cup {r}
  BY <1>3 DEF Planned, Members
<1>5. Demand' \subseteq Demand \cup ({r} \X Missing(r, computed[r] + 1))
  <2>1. \A x, n : Missing(x, n)' = Missing(x, n)
    BY <1>2 DEF Missing
  <2>2. \A x : Missing(x, computed[x] + 1)' = Missing(x, computed[x] + 1)
    BY <1>2 DEF Missing
  <2>3. \A c : Missing(c.req, c.start + c.take)' = Missing(c.req, c.start + c.take)
    BY <1>2 DEF Missing
  <2> QED BY <1>2, <1>4, <2>2, <2>3, DemandIs, DemandNext
<1>6. computed[r] + 1 \in Nat
  BY Parts DEF RequestTypes
<1>7. BlocksNeeded(r, computed[r] + 1) <= Max2(0, Available)
  <2>1. Available \in Int /\ NextNeed(r) \in Nat /\ NextNeed(r) <= Available
    BY <1>1, Counts DEF EngineInv
  <2>2. NextNeed(r) <= Max2(0, Available)
    BY <2>1 DEF Max2
  <2> QED BY <2>2 DEF NextNeed
<1> QED BY <1>2, <1>5, <1>6, <1>7, ReserveMore DEF NextNeed, Scheduling

\* A chunk is cut to what memory allows.
LEMMA TakeFits ==
  ASSUME EngineInv, NEW r \in Requests, Take(r) # 0
  PROVE  BlocksNeeded(r, computed[r] + Take(r)) <= Max2(0, Available)
<1> DEFINE k == Max2(0, Available)
           want == Want(r)
           reach == computed[r] + want
<1>1. /\ Available \in Int /\ k \in Nat /\ Available <= k /\ computed[r] \in Nat
      /\ Take(r) \in Nat /\ computed[r] + Take(r) \in Nat
  <2>1. Available \in Int
    BY Counts DEF EngineInv
  <2>2. k \in Nat /\ Available <= k
    BY <2>1 DEF Max2
  <2> HIDE DEF k
  <2> QED BY <2>1, <2>2, TakeBounds DEF EngineInv
<1>2. Take(r) = IF BlocksNeeded(r, reach) > Available
                THEN Max2(0, Min2(want, (Len(table[r]) + k) * BlockSize - computed[r]))
                ELSE want
  BY DEF Take
<1>3. want \in Nat
  <2>1. Remaining(r) \in Nat /\ budget \in Nat
    <3>1. Target(r) \in Nat /\ budget \in Nat
      BY Lengths, Parts DEF EngineInv, StepTypes
    <3> QED BY <1>1, <3>1 DEF Remaining, Max2
  <2> QED BY <2>1 DEF Want, Min2
<1>4. reach \in Nat /\ BlocksNeeded(r, reach) \in Nat
  <2> HIDE DEF want, k
  <2>1. reach \in Nat
    BY <1>1, <1>3
  <2> HIDE DEF reach
  <2> QED BY <2>1, Counts DEF EngineInv
<1>5. (Len(table[r]) + k) * BlockSize \in Nat
  <2>1. Len(table[r]) + k \in Nat /\ BlockSize \in Nat
    BY <1>1, KVAssumption DEF EngineInv, KVInv, KVTypeOK, Requests
  <2> QED BY <2>1
<1>6. CASE BlocksNeeded(r, reach) > Available
  <2> DEFINE cap == (Len(table[r]) + k) * BlockSize
  <2>1. Take(r) = Max2(0, Min2(want, cap - computed[r])) /\ cap \in Nat
    BY <1>2, <1>5, <1>6
  <2> HIDE DEF cap, want
  <2>2. computed[r] + Take(r) <= cap
    BY <1>1, <1>3, <2>1 DEF Max2, Min2
  <2> HIDE DEF k
  <2>3. computed[r] + Take(r) <= (Len(table[r]) + k) * BlockSize
    BY <2>2 DEF cap
  <2>4. KVTypeOK
    BY DEF EngineInv, KVInv
  <2>5. BlocksNeeded(r, computed[r] + Take(r)) <= k
    BY <1>1, <2>3, <2>4, CapacityFits
  <2> QED BY <2>5 DEF k
<1>7. CASE ~(BlocksNeeded(r, reach) > Available)
  <2> HIDE DEF k, want
  <2>1. BlocksNeeded(r, computed[r] + Take(r)) = BlocksNeeded(r, reach)
    BY <1>2, <1>7
  <2>2. BlocksNeeded(r, reach) <= k
    <3> HIDE DEF reach
    <3> QED BY <1>1, <1>4, <1>7
  <2> QED BY <2>1, <2>2 DEF k
<1> QED BY <1>6, <1>7

\* Stages 2 and 3 commit to a chunk.
LEMMA ReserveChunk ==
  ASSUME EngineInv, Reserve, NEW r \in Requests, Take(r) # 0, ScheduleChunk(r),
         pc \in {"prefill", "admit"}, pc' = pc, decodes' = decodes, Quiet,
         computed' = computed
  PROVE  Reserve'
<1>1. reserved' = reserved + BlocksNeeded(r, computed[r] + Take(r))
  BY DEF ScheduleChunk
<1>2. PICK c : /\ c.req = r /\ c.start + c.take = computed[r] + Take(r)
               /\ Members(chunks') = Members(chunks) \cup {c}
  <2> DEFINE c == [req |-> r, start |-> computed[r], take |-> Take(r),
                   final |-> computed[r] + Take(r) >= Target(r)]
  <2>1. chunks' = Append(chunks, c) /\ chunks \in Seq(PrefillChunk)
    BY Parts DEF ScheduleChunk
  <2>2. c.req = r /\ c.start + c.take = computed[r] + Take(r)
    OBVIOUS
  <2>3. c \in PrefillChunk
    BY TakeBounds DEF PrefillChunk, EngineInv
  <2> HIDE DEF c
  <2>6. chunks \in Seq(PrefillChunk)
    BY <2>1
  <2>4. chunks' \in Seq(PrefillChunk) /\ Behind(chunks', chunks, c)
    BY <2>1, <2>3 DEF Behind
  <2>5. Members(chunks') = Members(chunks) \cup {c}
    BY <2>3, <2>4, <2>6, Appended
  <2> QED BY <2>2, <2>5
<1>3. Planned' = Planned
  BY DEF Planned, Members
<1>4. Demand' \subseteq Demand \cup ({r} \X Missing(r, computed[r] + Take(r)))
  <2>1. \A x : Missing(x, computed[x] + 1)' = Missing(x, computed[x] + 1)
    BY DEF Missing, Quiet
  <2>2. \A d : Missing(d.req, d.start + d.take)' = Missing(d.req, d.start + d.take)
    BY DEF Missing, Quiet
  <2> QED BY <1>2, <1>3, <2>1, <2>2, DemandIs, DemandNext
<1>5. computed[r] + Take(r) \in Nat
  BY TakeBounds DEF EngineInv
<1> QED BY <1>1, <1>4, <1>5, TakeFits, ReserveMore DEF Scheduling, Quiet

\* What is scheduled is left alone: the reservation still covers it.
LEMMA ReserveUnplanned ==
  ASSUME EngineInv, EngineInv', Reserve, NumFree' >= NumFree, UNCHANGED <<chunks, decodes>>,
         pc # "batch", pc' # "batch",
         \A x \in Scheduled : table'[x] = table[x] /\ computed'[x] = computed[x],
         pc' \in Scheduling => pc \in Scheduling /\ reserved' = reserved
  PROVE  Reserve'
<1>1. /\ Members(chunks') = Members(chunks) /\ Planned' = Members(decodes)
      /\ Planned = Members(decodes)
  BY DEF Members, Planned
<1>2. /\ \A c \in Members(chunks) : c.req \in Scheduled
      /\ \A x \in Members(decodes) : x \in Scheduled
  BY DEF Scheduled
<1>3. Demand' \subseteq Demand
  BY <1>1, <1>2, DemandLess
<1> QED BY <1>3, ReserveStay

\* The steps that schedule nothing while the step is being planned.
LEMMA ReservePlanning ==
  ASSUME EngineInv, EngineInv', Reserve, [Next]_vars, UNCHANGED <<chunks, decodes, reserved>>,
         \/ DecodeScan \/ RoomMade \/ DecodeRetry \/ DecodesDone \/ PrefillScan \/ PrefillsDone
         \/ AdmitRefuse \/ AdmitDone \/ BreakStall \/ AdvanceHead \/ NothingToForce
  PROVE  Reserve'
<1>1. Quiet /\ NumFree' >= NumFree
  <2>1. Quiet
    BY QuietSteps
  <2>2. NumFree' = NumFree /\ NumFree \in Nat
    BY <2>1, FreeCounts DEF Quiet, NumFree
  <2> QED BY <2>1, <2>2
<1>2. /\ computed' = computed
      /\ pc \in Scheduling /\ pc' \in Scheduling \cup {"execute"}
  BY DEF DecodeScan, RoomMade, RoomRetry, DecodeRetry, DecodesDone, PrefillScan, PrefillsDone,
     AdmitRefuse, AdmitDone, BreakStall, AdvanceHead, NothingToForce, MakeRoom, reqvars, Scheduling
<1> QED BY <1>1, <1>2, ReserveUnplanned DEF Quiet, Scheduling

\* The steps that find nothing to do, or leave nothing.
LEMMA ReserveIdle ==
  ASSUME EngineInv, EngineInv', [Next]_vars,
         \/ BeginStep \/ DecodeEmit \/ BeginRetire \/ RetireSkip \/ RetirePublish \/ RetireRelease
         \/ EndStep \/ Clients
  PROVE  Reserve'
<1>1. CASE BeginStep
  <2>1. /\ pc = "idle" /\ pc' = "decode" /\ reserved' = 0 /\ UNCHANGED <<chunks, decodes>>
    BY <1>1 DEF BeginStep
  <2>2. chunks' = <<>> /\ decodes' = <<>>
    BY <2>1 DEF EngineInv, LoopInv, ScheduledRuns
  <2>3. Members(chunks') = {} /\ Planned' = {}
    BY <2>1, <2>2 DEF Members, Planned
  <2> QED BY <2>1, <2>3, ReserveNothing
<1>2. CASE DecodeEmit
  <2>1. /\ pc = "batch" /\ pc' = "batch" /\ scan' = <<>> /\ chunks' = chunks
    BY <1>2 DEF DecodeEmit
  <2>2. chunks = <<>>
    BY <2>1 DEF EngineInv, LoopInv, ScheduledRuns
  <2>3. Members(chunks') = {} /\ Planned' = {}
    BY <2>1, <2>2 DEF Members, Planned
  <2> QED BY <2>1, <2>3, ReserveNothing DEF Scheduling
<1>3. CASE BeginRetire \/ RetireSkip \/ RetirePublish \/ RetireRelease \/ EndStep \/ Clients
  <2>1. pc' \in {"idle", "retire", "release"}
    BY <1>3 DEF BeginRetire, RetireSkip, RetirePublish, RetireRelease, EndStep, Clients, AddRequest,
       AbortRequest
  <2>2. chunks' = <<>> /\ decodes' = <<>>
    BY <2>1 DEF EngineInv, LoopInv, ScheduledRuns
  <2>3. Members(chunks') = {} /\ Planned' = {}
    BY <2>1, <2>2 DEF Members, Planned
  <2> QED BY <2>1, <2>3, ReserveNothing DEF Scheduling
<1> QED BY <1>1, <1>2, <1>3

\* The steps that move blocks without touching what is scheduled.
LEMMA ReserveBystanders ==
  ASSUME EngineInv, EngineInv', Reserve, [Next]_vars,
         PreemptNewest \/ AdmitOpen \/ AdmitRollback
  PROVE  Reserve'
<1>1. PICK r \in Requests :
        /\ r \notin Scheduled
        /\ \A x \in Requests \ {r} : table'[x] = table[x] /\ computed'[x] = computed[x]
  <2>1. RequestTypes
    BY Parts
  <2>2. CASE PreemptNewest
    <3>1. PICK i \in Victims :
            Release(running[i]) /\ computed' = [computed EXCEPT ![running[i]] = 0]
      BY <2>2 DEF PreemptNewest
    <3>2. running[i] \in Requests /\ running[i] \notin Scheduled
      BY <3>1, Parts DEF Victims
    <3>3. \A x \in Requests \ {running[i]} : table'[x] = table[x]
      BY <3>1, <3>2, ReleaseLeaves DEF KeptWhole, EngineInv, Requests
    <3> QED BY <2>1, <3>1, <3>2, <3>3 DEF RequestTypes
  <2>3. CASE AdmitOpen \/ AdmitRollback
    <3>1. PICK r \in Requests : /\ r = Head(waiting) /\ prompt[r] \in Prompts
                                /\ r \notin Members(running)
      BY <2>3, HeadWaits DEF AdmitOpen, AdmitRollback, MayAdmit
    <3>2. r \notin Scheduled
      BY <3>1 DEF EngineInv, LoopInv, ScheduledRuns
    <3>3. \/ Open(r, prompt[r]) /\ \E n : computed' = [computed EXCEPT ![r] = n]
          \/ Release(r) /\ computed' = computed
      BY <2>3, <3>1 DEF AdmitOpen, AdmitRollback
    <3>4. \A x \in Requests \ {r} : table'[x] = table[x]
      BY <3>1, <3>3, ReleaseLeaves, OpenLeaves DEF KeptWhole, EngineInv, Requests
    <3> QED BY <2>1, <3>2, <3>3, <3>4 DEF RequestTypes
  <2> QED BY <2>2, <2>3
<1>2. /\ UNCHANGED <<chunks, decodes, reserved>> /\ pc \in Scheduling /\ pc' \in Scheduling
      /\ pc # "batch" /\ pc' # "batch"
  BY DEF PreemptNewest, AdmitOpen, AdmitRollback, locals, Scheduling
<1>3. Scheduled \subseteq Requests
  BY Parts DEF EngineInv, LoopInv, ScheduledRuns
<1>4. NumFree' >= NumFree
  <2>1. ~ExecuteChunk /\ ~DecodeWrite
    BY <1>2 DEF ExecuteChunk, DecodeWrite, Scheduling
  <2> QED BY <2>1, OtherMemory
<1> QED BY <1>1, <1>2, <1>3, <1>4, ReserveUnplanned

\* Every step that writes nothing keeps the reservation.
LEMMA ReserveElsewhere ==
  ASSUME EngineInv, EngineInv', Plan, Reserve, [Next]_vars, ~ExecuteChunk, ~DecodeWrite
  PROVE  Reserve'
<1>1. CASE \/ BeginStep \/ DecodeEmit \/ BeginRetire \/ RetireSkip \/ RetirePublish \/ RetireRelease
           \/ EndStep \/ Clients
  BY <1>1, ReserveIdle
<1>2. CASE PreemptNewest \/ AdmitOpen \/ AdmitRollback
  BY <1>2, ReserveBystanders
<1>3. CASE RoomMade \/ DecodesDone \/ PrefillsDone \/ AdmitRefuse \/ AdmitDone \/ BreakStall
           \/ AdvanceHead \/ NothingToForce
  <2>1. UNCHANGED <<chunks, decodes, reserved>>
    BY <1>3 DEF RoomMade, DecodesDone, PrefillsDone, AdmitRefuse, AdmitDone, BreakStall,
       AdvanceHead, NothingToForce, locals
  <2> QED BY <1>3, <2>1, ReservePlanning
<1>4. CASE DecodeScan \/ DecodeRetry
  <2>1. \/ UNCHANGED <<chunks, decodes, reserved>>
        \/ /\ pc \in {"decode", "decode_retry"} /\ pc' = "decode"
           /\ NextNeed(Head(scan)) <= Available /\ ScheduleDecode(Head(scan)) /\ UNCHANGED reqvars
    BY <1>4 DEF DecodeScan, DecodeRetry, Skip
  <2>2. scan # <<>>
    BY <1>4 DEF DecodeScan, DecodeRetry, EngineInv, LoopInv, ScanRuns, Sized
  <2>3. Quiet
    BY <1>4, QuietSteps
  <2> QED BY <1>4, <2>1, <2>2, <2>3, ReservePlanning, ReserveDecode
<1>5. CASE PrefillScan \/ Admit
  <2>1. PICK r \in Requests :
          \/ PrefillScan /\ UNCHANGED <<chunks, decodes, reserved>>
          \/ /\ Take(r) # 0 /\ ScheduleChunk(r) /\ pc \in {"prefill", "admit"} /\ pc' = pc
             /\ decodes' = decodes /\ computed' = computed
    <3>1. CASE PrefillScan
      <4>1. Head(scan) \in Requests
        BY <3>1, Parts, Taking DEF PrefillScan
      <4> QED BY <3>1, <4>1 DEF PrefillScan, Skip, reqvars
    <3>2. CASE Admit
      <4>1. Head(waiting) \in Requests /\ Take(Head(waiting)) > 0 /\ Take(Head(waiting)) # 0
        BY <3>2, HeadWaits DEF Admit, MayAdmit
      <4> QED BY <3>2, <4>1 DEF Admit
    <3> QED BY <1>5, <3>1, <3>2
  <2>2. Quiet
    BY <1>5, QuietSteps DEF Admit, Quiet, kvvars
  <2> QED BY <2>1, <2>2, ReservePlanning, ReserveChunk
<1>6. CASE CacheEviction \/ UNCHANGED vars
  <2>1. /\ UNCHANGED <<pc, chunks, decodes, scan, reserved>> /\ computed' = computed
    BY <1>6 DEF CacheEviction, vars, locals, reqvars
  <2>2. \A x \in Seqs : table'[x] = table[x]
    BY <1>6, EvictionLeaves DEF CacheEviction, vars, kvvars, KeptWhole, EngineInv
  <2>3. Members(chunks') = Members(chunks) /\ Planned' = Planned
    BY <2>1 DEF Members, Planned
  <2>4. Demand' \subseteq Demand
    BY <2>1, <2>2, <2>3, PlannedTypes, DemandLess
  <2> QED BY <2>1, <2>4, OtherMemory, ReserveStay
<1>7. CASE BeginBatch
  <2>1. /\ pc = "execute" /\ pc' = "batch" /\ chunks' = chunks /\ scan' = decodes'
        /\ decodes' = Keeping(decodes, {r \in open : state[r] = "running"})
        /\ computed' = computed
    BY <1>7 DEF BeginBatch, reqvars
  <2>2. Members(decodes') \subseteq Members(decodes)
    BY <2>1, Parts, KeepingFacts
  <2>3. /\ Members(chunks') = Members(chunks)
        /\ Planned' = Members(decodes') /\ Planned = Members(decodes)
    BY <2>1 DEF Members, Planned
  <2>4. table' = table
    BY <1>7, QuietSteps DEF Quiet
  <2>5. Demand' \subseteq Demand
    BY <2>1, <2>2, <2>3, <2>4, DemandLess
  <2> QED BY <2>1, <2>5, OtherMemory, ReserveStay DEF Scheduling
<1>8. CASE ProgressRetry
  <2>1. /\ pc = "progress_retry" /\ pc' = "execute" /\ chunks' = chunks /\ computed' = computed
        /\ decodes' = IF NextNeed(Head(scan)) <= NumFree THEN scan ELSE decodes
    BY <1>8 DEF ProgressRetry, reqvars
  <2>2. chunks = <<>> /\ decodes = <<>> /\ scan # <<>> /\ Members(scan) = {Head(scan)}
    BY <2>1 DEF Plan, OneVisit, IsEmpty, EngineInv, LoopInv, ScanRuns, Sized
  <2>3. CASE decodes' = <<>>
    <3>1. Members(chunks') = {} /\ Planned' = {}
      BY <2>1, <2>2, <2>3 DEF Members, Planned
    <3> QED BY <2>1, <3>1, ReserveNothing DEF Scheduling
  <2>4. CASE NextNeed(Head(scan)) <= NumFree /\ decodes' = scan
    <3>1. PICK r \in Requests : r = Head(scan) /\ NextNeed(r) <= NumFree
      BY <2>2, <2>4, Parts, Taking
    <3>2. Members(chunks') = {} /\ Planned' = {r}
      BY <2>1, <2>2, <2>4, <3>1 DEF Members, Planned
    <3>3. table' = table /\ NumFree' = NumFree
      BY <1>8, QuietSteps DEF Quiet, NumFree
    <3>4. Demand' \subseteq {r} \X Missing(r, computed[r] + 1)
      <4>1. Missing(r, computed[r] + 1)' = Missing(r, computed[r] + 1)
        BY <2>1, <3>3 DEF Missing
      <4> QED BY <3>2, <4>1, DemandNext
    <3>5. computed[r] + 1 \in Nat /\ KVTypeOK
      BY Parts DEF RequestTypes, EngineInv, KVInv
    <3>6. /\ IsFiniteSet({r} \X Missing(r, computed[r] + 1)) /\ NextNeed(r) \in Nat
          /\ Cardinality({r} \X Missing(r, computed[r] + 1)) = NextNeed(r)
      BY <3>5, MissingFinite DEF NextNeed
    <3>7. Cardinality(Demand') <= NextNeed(r) /\ Cardinality(Demand') \in Nat
      BY <3>4, <3>6, FS_Subset, FS_CardinalityType
    <3>8. Cardinality(Demand') <= NumFree'
      BY <3>1, <3>3, <3>6, <3>7, FreeCounts
    <3> QED BY <2>1, <3>8 DEF Reserve, Scheduling
  <2> QED BY <2>1, <2>2, <2>3, <2>4
<1> QED BY <1>1, <1>2, <1>3, <1>4, <1>5, <1>6, <1>7, <1>8 DEF Next, EngineThread, Schedule, Execute

\* Only a forward pass can find the free list too short.
LEMMA NoCrashElsewhere ==
  ASSUME EngineInv, [Next]_vars, pc # "crashed", ~ExecuteChunk, ~DecodeWrite
  PROVE  pc' # "crashed"
<1>1. CASE UNCHANGED vars
  BY <1>1 DEF vars
<1>2. CASE Schedule
  <2>1. CASE BeginStep \/ DecodeRetry \/ DecodesDone \/ PrefillScan \/ PrefillsDone
    BY <2>1 DEF BeginStep, DecodeRetry, DecodesDone, PrefillScan, PrefillsDone
  <2>2. CASE DecodeScan \/ AdvanceHead
    BY <2>2 DEF DecodeScan, AdvanceHead, MakeRoom
  <2>3. CASE PreemptNewest \/ RoomMade \/ CacheEviction
    BY <2>3 DEF PreemptNewest, RoomMade, RoomRetry, CacheEviction
  <2>4. CASE AdmitOpen \/ AdmitRefuse \/ Admit \/ AdmitRollback \/ AdmitDone
    BY <2>4 DEF AdmitOpen, AdmitRefuse, Admit, AdmitRollback, AdmitDone
  <2>5. CASE BreakStall \/ ProgressRetry \/ NothingToForce
    BY <2>5 DEF BreakStall, ProgressRetry, NothingToForce
  <2> QED BY <1>2, <2>1, <2>2, <2>3, <2>4, <2>5 DEF Schedule
<1>3. CASE Execute
  <2>1. \/ BeginBatch \/ DecodeEmit \/ BeginRetire \/ RetireSkip
        \/ RetirePublish \/ RetireRelease \/ EndStep
    BY <1>3 DEF Execute
  <2>2. CASE BeginBatch \/ DecodeEmit \/ BeginRetire \/ RetireSkip
    BY <2>2 DEF BeginBatch, DecodeEmit, BeginRetire, RetireSkip
  <2>3. CASE RetirePublish \/ RetireRelease \/ EndStep
    BY <2>3 DEF RetirePublish, RetireRelease, EndStep
  <2> QED BY <2>1, <2>2, <2>3
<1>4. CASE Clients
  BY <1>4 DEF Clients, AddRequest, AbortRequest
<1> QED BY <1>1, <1>2, <1>3, <1>4 DEF Next, EngineThread

\* Every step keeps the blocks the rest of the step needs.
LEMMA RoomSteps == EngineInv /\ Plan /\ Room /\ [Next]_vars => Room'
<1> SUFFICES ASSUME EngineInv, Plan, Room, [Next]_vars PROVE Room'
  OBVIOUS
<1>1. EngineInv'
  BY EngineSteps
<1>2. CASE ExecuteChunk \/ DecodeWrite
  BY <1>2, RoomServes
<1>3. CASE ~ExecuteChunk /\ ~DecodeWrite
  <2>1. WritesArePrivate'
    BY <1>3, PrivateElsewhere DEF Room
  <2>2. TextFits'
    BY <1>1, <1>3, FitsElsewhere DEF Room
  <2>3. Reserve'
    BY <1>1, <1>3, ReserveElsewhere DEF Room
  <2>4. pc' # "crashed"
    BY <1>3, NoCrashElsewhere DEF Room
  <2> QED BY <2>1, <2>2, <2>3, <2>4 DEF Room
<1> QED BY <1>2, <1>3

\* The engine starts with nothing scheduled.
LEMMA RoomStarts == Init => Room
<1> SUFFICES ASSUME Init PROVE Room
  OBVIOUS
<1>1. EngineInv
  BY EngineStarts
<1>2. open = {} /\ chunks = <<>> /\ decodes = <<>> /\ pc = "idle"
  BY DEF Init, KVInit
<1>3. Members(chunks) = {} /\ Planned = {}
  BY <1>2 DEF Members, Planned
<1>4. Demand = {}
  BY <1>3, DemandIs
<1>5. Cardinality(Demand) = 0
  BY <1>4, FS_EmptySet
<1>6. NumFree \in Nat
  BY <1>1, FreeCounts
<1>7. Reserve
  BY <1>2, <1>5, <1>6 DEF Reserve, Scheduling
<1> QED BY <1>2, <1>7 DEF Room, WritesArePrivate, TextFits

\* The whole inductive invariant of the reservation.
LEMMA RoomHolds == Spec => [](EngineInv /\ Plan /\ Room)
<1>1. Init => EngineInv /\ Plan /\ Room
  BY EngineStarts, PlanStarts, RoomStarts
<1>2. EngineInv /\ Plan /\ Room /\ [Next]_vars => (EngineInv /\ Plan /\ Room)'
  BY EngineSteps, PlanSteps, RoomSteps
<1> QED BY <1>1, <1>2, PTL DEF Spec

\* No sequence ever writes a block that another sequence or the prefix cache reads: a
\* forward pass needs no copy, for every size of the memory and every request mix.
THEOREM WritesArePrivateHolds == Spec => []WritesArePrivate
<1>1. Room => WritesArePrivate
  BY DEF Room
<1> QED BY <1>1, RoomHolds, PTL

\* The blocks that the rest of the step will take are free, at every point of the step:
\* what schedule() adds up request by request covers the step as a whole.
THEOREM ReservationCoversHolds == Spec => []ReservationCovers
<1>1. Room => ReservationCovers
  BY DEF Room, Reserve, ReservationCovers
<1> QED BY <1>1, RoomHolds, PTL

\* ADR-0006 for every number of blocks, requests and every budget: no forward pass of a
\* scheduled step raises OutOfBlocks.
THEOREM NeverOutOfBlocksHolds == Spec => []NeverOutOfBlocks
<1>1. Room => NeverOutOfBlocks
  BY DEF Room, NeverOutOfBlocks
<1> QED BY <1>1, RoomHolds, PTL

-----------------------------------------------------------------------------
(* The KV of a request is the start of its own tokens.                     *)

\* The configurations in which a rolled-back admission cannot leave num_computed_tokens
\* behind: the prefix cache only together with chunked prefill.
ChunkedOrUncached == Caching => ChunkedModes \subseteq {TRUE}

\* The requests whose next token is in the KV but not emitted yet.
Ahead == IF pc = "batch" THEN Members(decodes) \ Members(scan) ELSE {}

\* The KV of a request is the start of its tokens, up to what it has computed.
Starts(s, t) == Len(s) <= Len(t) /\ \A p \in DOMAIN s : s[p] = t[p]
OwnText ==
  \A r \in open : /\ Starts(text[r], AllTokens(r))
                  /\ r \in Ahead => Len(text[r]) = computed[r] + 1
                  /\ r \notin Ahead => Len(text[r]) = computed[r]

\* Who waits has computed nothing but what its KV adopted from the cache.
WaitersFresh ==
  \A r \in Members(waiting) :
    /\ computed[r] < Len(prompt[r])
    /\ (r \in open /\ Caching) \/ computed[r] = 0

Own == OwnText /\ WaitersFresh

\* A start of a start is a start.
LEMMA StartsStart ==
  ASSUME NEW S, NEW s \in Seq(S), NEW t \in Seq(S), NEW u \in Seq(S), Starts(s, t), Starts(t, u)
  PROVE  Starts(s, u)
<1>1. /\ DOMAIN s = 1 .. Len(s) /\ DOMAIN t = 1 .. Len(t)
      /\ Len(s) \in Nat /\ Len(t) \in Nat /\ Len(u) \in Nat
  OBVIOUS
<1>2. \A p \in DOMAIN s : p \in DOMAIN t
  BY <1>1 DEF Starts
<1> QED BY <1>1, <1>2 DEF Starts

\* Emitting a token keeps the tokens that were there.
LEMMA StartsAppended ==
  ASSUME NEW S, NEW p \in Seq(S), NEW o \in Seq(S), NEW t \in S
  PROVE  Starts(p \o o, p \o Append(o, t)) /\ p \o Append(o, t) \in Seq(S)
<1> DEFINE m == Len(p)
           n == Len(o)
           a == Append(o, t)
<1>1. /\ m \in Nat /\ n \in Nat /\ a \in Seq(S) /\ Len(a) = n + 1
      /\ \A i \in 1 .. n : a[i] = o[i]
  OBVIOUS
<1>2. /\ Len(p \o o) = m + n /\ DOMAIN (p \o o) = 1 .. (m + n)
      /\ \A i \in 1 .. (m + n) : (p \o o)[i] = IF i <= m THEN p[i] ELSE o[i - m]
  OBVIOUS
<1> HIDE DEF a
<1>3. /\ Len(p \o a) = m + (n + 1) /\ p \o a \in Seq(S)
      /\ \A i \in 1 .. (m + (n + 1)) : (p \o a)[i] = IF i <= m THEN p[i] ELSE a[i - m]
  BY <1>1, SMTT(30)
<1> HIDE DEF m, n
<1>4. \A i \in 1 .. (m + n) : i \in 1 .. (m + (n + 1)) /\ (i <= m \/ i - m \in 1 .. n)
  BY <1>1
<1>5. Len(p \o o) <= Len(p \o a)
  BY <1>1, <1>2, <1>3
<1>6. \A i \in DOMAIN (p \o o) : (p \o o)[i] = (p \o a)[i]
  BY <1>1, <1>2, <1>3, <1>4
<1>7. Starts(p \o o, p \o a)
  BY <1>5, <1>6 DEF Starts
<1> QED BY <1>3, <1>7 DEF a

\* An emitted token goes behind the tokens of its request.
LEMMA StartsEmitted ==
  ASSUME EngineInv, NEW r \in Requests, NEW s \in Seq(Tokens), Starts(s, AllTokens(r)),
         prompt'[r] = prompt[r],
         \/ out'[r] = out[r]
         \/ \E t \in OutTokens : out'[r] = Append(out[r], t)
  PROVE  Starts(s, AllTokens(r)')
<1>1. /\ prompt[r] \in Seq(Tokens) /\ out[r] \in Seq(Tokens)
      /\ Starts(s, prompt[r] \o out[r]) /\ prompt[r] \o out[r] \in Seq(Tokens)
  BY Lengths DEF EngineInv, AllTokens
<1>2. CASE out'[r] = out[r]
  BY <1>1, <1>2 DEF AllTokens
<1>3. ASSUME NEW t \in OutTokens, out'[r] = Append(out[r], t)
      PROVE  Starts(s, prompt[r] \o Append(out[r], t))
  <2>1. t \in Tokens
    BY EngineAssumption
  <2>2. /\ Starts(prompt[r] \o out[r], prompt[r] \o Append(out[r], t))
        /\ prompt[r] \o Append(out[r], t) \in Seq(Tokens)
    BY <1>1, <2>1, StartsAppended
  <2> QED BY <1>1, <2>2, StartsStart
<1> QED BY <1>2, <1>3 DEF AllTokens

\* Feeding the next tokens of a request behind its start makes a longer start.
LEMMA StartsFed ==
  ASSUME NEW S, NEW s \in Seq(S), NEW t \in Seq(S), NEW u \in Seq(S), Starts(s, t),
         Len(s) + Len(u) <= Len(t), \A i \in 1 .. Len(u) : u[i] = t[Len(s) + i]
  PROVE  Starts(s \o u, t)
<1>1. Len(s) \in Nat /\ Len(u) \in Nat /\ Len(t) \in Nat /\ DOMAIN s = 1 .. Len(s)
  OBVIOUS
<1>2. /\ Len(s \o u) = Len(s) + Len(u) /\ DOMAIN (s \o u) = 1 .. (Len(s) + Len(u))
      /\ \A i \in 1 .. Len(s) : (s \o u)[i] = s[i]
      /\ \A i \in (Len(s) + 1) .. (Len(s) + Len(u)) : (s \o u)[i] = u[i - Len(s)]
  OBVIOUS
<1>3. ASSUME NEW p \in DOMAIN (s \o u) PROVE (s \o u)[p] = t[p]
  <2>1. CASE p \in 1 .. Len(s)
    BY <1>1, <1>2, <2>1 DEF Starts
  <2>2. CASE p \in (Len(s) + 1) .. (Len(s) + Len(u))
    <3>1. p - Len(s) \in 1 .. Len(u) /\ p = Len(s) + (p - Len(s))
      BY <1>1, <2>2
    <3> QED BY <1>2, <2>2, <3>1
  <2> QED BY <1>1, <1>2, <2>1, <2>2
<1> QED BY <1>2, <1>3 DEF Starts

\* Sequences that stay as they are, of requests that stay as they are.
LEMMA OwnStays ==
  ASSUME EngineInv, OwnText, [Next]_vars, ~ExecuteChunk, ~DecodeWrite, ~AdmitOpen,
         \A x \in open \cap open' :
           prompt'[x] = prompt[x] /\ out'[x] = out[x] /\ computed'[x] = computed[x],
         Ahead' = Ahead
  PROVE  OwnText'
<1>1. \A x \in open' : x \in open /\ text'[x] = text[x]
  BY OtherMemory DEF KeptWhole
<1>2. \A x \in open' : AllTokens(x)' = AllTokens(x) /\ computed'[x] = computed[x]
  BY <1>1 DEF AllTokens
<1>3. ASSUME NEW x \in open'
      PROVE  /\ Starts(text'[x], AllTokens(x)')
             /\ x \in Ahead' => Len(text'[x]) = computed'[x] + 1
             /\ x \notin Ahead' => Len(text'[x]) = computed'[x]
  BY <1>1, <1>2, <1>3 DEF OwnText, Starts
<1> QED BY <1>3 DEF OwnText, Starts

\* A new KV is a start of the prompt.
LEMMA OwnOpened ==
  ASSUME EngineInv, Own, AdmitOpen
  PROVE  OwnText'
<1>1. RequestTypes /\ open \subseteq Requests /\ KVTypeOK
  BY Parts DEF EngineInv, KVInv, KVTypeOK, Requests
<1>2. PICK r \in Requests : /\ r = Head(waiting) /\ r \in Members(waiting) /\ pc = "admit"
                            /\ Open(r, prompt[r]) /\ prompt[r] \in Prompts
                            /\ computed' = [computed EXCEPT ![r] =
                                 IF text'[r] # <<>> THEN Len(text'[r]) ELSE @]
                            /\ pc' = pc /\ prompt' = prompt /\ out' = out
  BY HeadWaits DEF AdmitOpen, MayAdmit
<1>3. /\ open' = open \cup {r} /\ r \notin open /\ \A x \in Seqs \ {r} : KeptWhole(x)
      /\ \E n \in 0..(Len(prompt[r]) - 1) :
            text'[r] = SubSeq(prompt[r], 1, n) /\ Len(text'[r]) = n
  BY <1>2, OpenLeaves DEF EngineInv, Requests
<1>4. Ahead = {} /\ Ahead' = {}
  BY <1>2 DEF Ahead
<1>5. computed[r] = 0
  BY <1>2, <1>3 DEF Own, WaitersFresh
<1>6. Len(text'[r]) = computed'[r]
  <2>1. computed'[r] = IF text'[r] # <<>> THEN Len(text'[r]) ELSE computed[r]
    BY <1>1, <1>2 DEF RequestTypes
  <2>2. Len(<<>>) = 0
    OBVIOUS
  <2> QED BY <1>5, <2>1, <2>2
<1>7. Starts(text'[r], AllTokens(r)')
  <2> DEFINE p == prompt[r]
             o == out[r]
  <2>1. p \in Seq(Tokens) /\ o \in Seq(Tokens)
    BY Lengths DEF EngineInv
  <2>2. PICK n \in 0..(Len(p) - 1) : text'[r] = SubSeq(p, 1, n) /\ Len(text'[r]) = n
    BY <1>3
  <2>3. AllTokens(r)' = p \o o
    BY <1>2 DEF AllTokens
  <2> HIDE DEF p, o
  <2>4. /\ Len(p \o o) = Len(p) + Len(o) /\ Len(p) \in Nat /\ Len(o) \in Nat
        /\ \A i \in 1 .. Len(p) : (p \o o)[i] = p[i]
    BY <2>1
  <2>5. n \in Nat /\ n <= Len(p) /\ n <= Len(p) + Len(o)
    BY <2>4
  <2>6. DOMAIN SubSeq(p, 1, n) = 1 .. n /\ \A i \in 1 .. n : SubSeq(p, 1, n)[i] = p[i]
    BY <2>1, <2>5
  <2>7. \A i \in 1 .. n : i \in 1 .. Len(p)
    BY <2>4, <2>5
  <2> QED BY <2>2, <2>3, <2>4, <2>5, <2>6, <2>7 DEF Starts
<1>8. ASSUME NEW x \in open
      PROVE  x # r /\ Starts(text'[x], AllTokens(x)') /\ Len(text'[x]) = computed'[x]
  <2>1. x # r /\ text'[x] = text[x]
    BY <1>1, <1>3 DEF KeptWhole, Requests
  <2>2. computed'[x] = computed[x]
    BY <1>1, <1>2, <2>1 DEF RequestTypes
  <2>3. AllTokens(x)' = AllTokens(x)
    BY <1>2 DEF AllTokens
  <2> QED BY <1>4, <2>1, <2>2, <2>3 DEF Own, OwnText, Starts
<1>9. \A x \in open' : Starts(text'[x], AllTokens(x)') /\ Len(text'[x]) = computed'[x]
  BY <1>3, <1>6, <1>7, <1>8
<1> QED BY <1>4, <1>9 DEF OwnText, Starts

\* An emitted decode has computed what was written for it.
LEMMA OwnEmitted ==
  ASSUME EngineInv, Plan, OwnText, DecodeEmit
  PROVE  OwnText'
<1>1. RequestTypes /\ open \subseteq Requests /\ KVTypeOK
  BY Parts DEF EngineInv, KVInv, KVTypeOK, Requests
<1>2. /\ pc = "batch" /\ pc' = "batch" /\ scan = <<>> /\ scan' = <<>> /\ decodes # <<>>
      /\ decodes' = Tail(decodes) /\ computed' = [computed EXCEPT ![Head(decodes)] = @ + 1]
      /\ open' = open /\ text' = text /\ prompt' = prompt
      /\ \E t \in OutTokens : out' = [out EXCEPT ![Head(decodes)] = Append(@, t)]
  BY DEF DecodeEmit, kvvars, Emit
<1>3. PICK r \in Requests : /\ r = Head(decodes) /\ r \notin Members(Tail(decodes))
                            /\ Members(decodes) = Members(Tail(decodes)) \cup {r}
  BY <1>2, Parts, Taking DEF Plan, OneVisit
<1>4. Ahead = Members(Tail(decodes)) \cup {r} /\ Ahead' = Members(Tail(decodes))
  <2>1. Members(scan) = {} /\ Members(scan)' = {} /\ Members(decodes)' = Members(Tail(decodes))
    BY <1>2 DEF Members
  <2> QED BY <1>2, <1>3, <2>1 DEF Ahead
<1>5. /\ computed'[r] = computed[r] + 1 /\ computed[r] \in Nat
      /\ \A x \in Requests \ {r} : computed'[x] = computed[x] /\ out'[x] = out[x]
      /\ \E t \in OutTokens : out'[r] = Append(out[r], t)
  BY <1>1, <1>2, <1>3 DEF RequestTypes
<1>6. ASSUME NEW x \in open
      PROVE  Starts(text[x], AllTokens(x)')
  <2>1. x \in Requests /\ Starts(text[x], AllTokens(x)) /\ Len(text[x]) \in Nat
    BY <1>1 DEF OwnText, KVTypeOK, Fed, Requests
  <2>2. text[x] \in Seq(Tokens)
    <3>1. text[x] \in Fed
      BY <1>1, <2>1 DEF KVTypeOK, Requests
    <3>2. \A p \in DOMAIN text[x] : text[x][p] \in Tokens
      <4>1. AllTokens(x) \in Seq(Tokens)
        BY <2>1, Lengths DEF EngineInv
      <4>2. \A p \in DOMAIN text[x] : p \in DOMAIN AllTokens(x)
        BY <2>1, <3>1, <4>1 DEF Starts, Fed
      <4> QED BY <2>1, <4>1, <4>2 DEF Starts
    <3> QED BY <3>1, <3>2 DEF Fed
  <2> QED BY <1>2, <1>5, <2>1, <2>2, StartsEmitted
<1>7. ASSUME NEW x \in open
      PROVE  /\ x \in Ahead' => Len(text[x]) = computed'[x] + 1
             /\ x \notin Ahead' => Len(text[x]) = computed'[x]
  <2>1. x \in Requests
    BY <1>1
  <2>2. CASE x = r
    BY <1>3, <1>4, <1>5, <2>2 DEF OwnText
  <2>3. CASE x # r
    BY <1>4, <1>5, <2>1, <2>3 DEF OwnText
  <2> QED BY <2>2, <2>3
<1> QED BY <1>2, <1>6, <1>7 DEF OwnText, Starts

\* A start of a token list is a token list.
LEMMA StartsType ==
  ASSUME NEW S, NEW T, NEW s \in Seq(S), NEW t \in Seq(T), Starts(s, t)
  PROVE  s \in Seq(T)
<1>1. /\ Len(s) \in Nat /\ DOMAIN s = 1 .. Len(s) /\ s = [i \in 1 .. Len(s) |-> s[i]]
      /\ Len(t) \in Nat /\ \A i \in 1 .. Len(t) : t[i] \in T
  OBVIOUS
<1>2. \A i \in 1 .. Len(s) : i \in 1 .. Len(t)
  BY <1>1 DEF Starts
<1>3. \A i \in 1 .. Len(s) : s[i] \in T
  BY <1>1, <1>2 DEF Starts
<1>4. s \in [1 .. Len(s) -> T]
  BY <1>1, <1>3
<1> QED BY <1>1, <1>4

\* A pass that starts where the KV ends goes through and appends its tokens.
LEMMA OwnFed ==
  ASSUME EngineInv, Room, NEW r \in Requests, NEW start \in Nat, NEW toks \in Seq(Tokens),
         NEW all \in Seq(Tokens),
         Forward(r, start, toks), {r} \X Missing(r, start + Len(toks)) \subseteq Demand,
         r \in open => Len(text[r]) = start /\ Starts(text[r], all),
         start + Len(toks) <= Len(all), \A i \in 1 .. Len(toks) : toks[i] = all[start + i]
  PROVE  /\ Write(r, start, toks) /\ r \in open /\ open' = open /\ ~Raised(r)
         /\ Starts(text'[r], all) /\ Len(text'[r]) = start + Len(toks)
         /\ text'[r] \in Seq(Tokens)
         /\ \A x \in Seqs \ {r} : text'[x] = text[x]
<1> USE DEF Requests
<1>1. text[r] \in Fed /\ Len(text[r]) \in Nat /\ KVInv
  BY SMTT(30) DEF EngineInv, KVInv, KVTypeOK, Fed
<1>2. r \in open => Len(text[r]) <= start
  BY <1>1
<1>3. /\ r \in open /\ open' = open /\ ~Raised(r) /\ Len(text'[r]) = start + Len(toks)
      /\ \A x \in Seqs \ {r} : KeptWhole(x)
  BY <1>2, PassWrites
<1>4. Write(r, start, toks)
  <2>1. text'[r] # text[r]
    BY <1>3 DEF Raised
  <2>2. ~UNCHANGED kvvars
    BY <2>1 DEF kvvars
  <2> QED BY <2>2 DEF Forward
<1>5. Private(r)
  BY <1>3 DEF Room, WritesArePrivate, Private
<1>6. text'[r] = [p \in 1..start |-> IF p <= Len(text[r]) THEN text[r][p] ELSE Unwritten] \o toks
  BY <1>1, <1>2, <1>3, <1>4, <1>5, PrivateWrite
<1>7. Len(text[r]) = start /\ Starts(text[r], all)
  BY <1>3
<1>8. text[r] \in Seq(Tokens)
  BY <1>1, <1>7, StartsType DEF Fed
<1>9. Starts(text'[r], all)
  <2>1. [p \in 1..start |-> IF p <= Len(text[r]) THEN text[r][p] ELSE Unwritten] = text[r]
    BY <1>1, <1>7 DEF Fed
  <2>2. text'[r] = text[r] \o toks
    BY <1>6, <2>1
  <2>3. /\ Len(text[r]) + Len(toks) <= Len(all)
        /\ \A i \in 1 .. Len(toks) : toks[i] = all[Len(text[r]) + i]
    BY <1>7
  <2>4. Starts(text[r] \o toks, all)
    BY <1>7, <1>8, <2>3, StartsFed
  <2> QED BY <2>2, <2>4
<1>10. text'[r] \in Seq(Tokens)
  <2>1. text'[r] \in Fed
    <3>1. KVInv'
      BY <1>1, <1>4, WriteInv
    <3> QED BY <3>1 DEF KVInv, KVTypeOK
  <2> QED BY <1>9, <2>1, StartsType DEF Fed
<1> QED BY <1>3, <1>4, <1>9, <1>10 DEF KeptWhole

\* A forward pass that appends the next tokens of request r to its KV.
Feeds(r, toks) ==
  /\ Write(r, Len(text[r]), toks) /\ toks \in Seq(Tokens)
  /\ r \in open /\ open' = open /\ ~Raised(r)
  /\ Starts(text'[r], AllTokens(r)) /\ text'[r] \in Seq(Tokens)
  /\ \A x \in Seqs \ {r} : text'[x] = text[x]

\* A chunk feeds the tokens behind those in the KV.
LEMMA ChunkFeeds ==
  ASSUME EngineInv, Plan, Room, OwnText, ExecuteChunk
  PROVE  \E c \in Members(chunks), toks \in Seq(Tokens) :
           /\ c = Head(chunks) /\ Feeds(c.req, toks) /\ Len(text'[c.req]) = c.start + c.take
<1>1. pc = "execute" /\ chunks # <<>>
  BY DEF ExecuteChunk
<1>2. PICK c \in Members(chunks) : c = Head(chunks)
  BY <1>1, Parts, Taking
<1> DEFINE all == AllTokens(c.req)
           s == c.start
           n == c.take
           toks == SubSeq(all, s + 1, s + n)
<1>3. Forward(c.req, s, toks)
  BY <1>2 DEF ExecuteChunk
<1>4. toks \in Seq(Tokens) /\ Len(toks) = n /\ s + Len(toks) = s + n
  BY ChunkTokens
<1>5. /\ c.req \in Requests /\ s = computed[c.req] /\ s \in Nat /\ n \in Nat
      /\ s + n <= Target(c.req)
  BY ChunkBehind
<1>6. all \in Seq(Tokens) /\ Len(all) \in Nat /\ Target(c.req) \in Nat /\ Target(c.req) <= Len(all)
  BY <1>5, Lengths DEF EngineInv
<1> HIDE DEF all
<1>7. s + Len(toks) <= Len(all) /\ \A i \in 1 .. Len(toks) : toks[i] = all[s + i]
  <2> HIDE DEF s, n
  <2>1. s + n <= Len(all)
    BY <1>5, <1>6
  <2>2. \A i \in 1 .. n : SubSeq(all, s + 1, s + n)[i] = all[(s + 1) + i - 1]
    <3>1. s + 1 \in 1 .. (Len(all) + 1) /\ s + n \in ((s + 1) - 1) .. Len(all)
          /\ (s + n) - (s + 1) + 1 = n
      BY <1>5, <1>6, <2>1, SMTT(30)
    <3> QED BY <1>6, <3>1, SubSeqProperties
  <2>3. \A i \in 1 .. n : (s + 1) + i - 1 = s + i
    BY <1>5
  <2> QED BY <1>4, <2>1, <2>2, <2>3
<1> HIDE DEF toks
<1>8. {c.req} \X Missing(c.req, s + Len(toks)) \subseteq Demand
  BY <1>4, DemandIs
<1>9. c.req \in open => Len(text[c.req]) = s /\ Starts(text[c.req], all)
  BY <1>1, <1>5 DEF OwnText, Ahead, all
<1> HIDE DEF s, n
<1>10. /\ Write(c.req, s, toks) /\ c.req \in open /\ open' = open /\ ~Raised(c.req)
       /\ Starts(text'[c.req], all) /\ Len(text'[c.req]) = s + Len(toks)
       /\ text'[c.req] \in Seq(Tokens)
       /\ \A x \in Seqs \ {c.req} : text'[x] = text[x]
  BY <1>3, <1>4, <1>5, <1>6, <1>7, <1>8, <1>9, OwnFed
<1>11. Feeds(c.req, toks)
  BY <1>4, <1>9, <1>10 DEF Feeds, all
<1> QED BY <1>2, <1>4, <1>10, <1>11 DEF s, n

\* A decode feeds the last token, the only one that is not in the KV yet.
LEMMA DecodeFeeds ==
  ASSUME EngineInv, Plan, Room, OwnText, DecodeWrite
  PROVE  \E r \in Requests, toks \in Seq(Tokens) :
           /\ r = Head(scan) /\ Feeds(r, toks) /\ Len(text'[r]) = computed[r] + 1
<1>1. pc = "batch" /\ scan # <<>>
  BY DEF DecodeWrite
<1>2. PICK r \in Requests : /\ r = Head(scan) /\ r \in Members(scan) /\ r \in Members(decodes)
  BY <1>1, Parts, Taking DEF Plan, OneVisit
<1> DEFINE all == AllTokens(r)
           toks == <<LastToken(r)>>
<1>3. Forward(r, computed[r], toks)
  BY <1>2 DEF DecodeWrite
<1>4. state[r] = "running" /\ computed[r] = Len(all) - 1
  BY <1>1, <1>2 DEF Plan, DecodePlan, Replayed
<1>5. all \in Seq(Tokens) /\ Len(all) \in Nat /\ computed[r] \in Nat
  BY <1>2, Parts, Lengths DEF EngineInv, RequestTypes
<1>6. Len(all) \in 1 .. Len(all) /\ computed[r] + 1 = Len(all)
  BY <1>4, <1>5
<1>7. /\ toks \in Seq(Tokens) /\ Len(toks) = 1 /\ toks[1] = all[Len(all)]
  <2>1. all[Len(all)] \in Tokens
    BY <1>5, <1>6
  <2> QED BY <2>1 DEF LastToken
<1> HIDE DEF all, toks
<1>8. /\ computed[r] + Len(toks) <= Len(all)
      /\ \A i \in 1 .. Len(toks) : toks[i] = all[computed[r] + i]
  BY <1>5, <1>6, <1>7
<1>9. {r} \X Missing(r, computed[r] + Len(toks)) \subseteq Demand
  <2>1. r \in Planned /\ computed[r] + Len(toks) = computed[r] + 1
    BY <1>1, <1>2, <1>7 DEF Planned
  <2> QED BY <2>1, DemandIs
<1>10. r \in open => Len(text[r]) = computed[r] /\ Starts(text[r], all)
  BY <1>1, <1>2 DEF OwnText, Ahead, all
<1>11. /\ Write(r, computed[r], toks) /\ r \in open /\ open' = open /\ ~Raised(r)
       /\ Starts(text'[r], all) /\ Len(text'[r]) = computed[r] + Len(toks)
       /\ text'[r] \in Seq(Tokens)
       /\ \A x \in Seqs \ {r} : text'[x] = text[x]
  BY <1>3, <1>5, <1>7, <1>8, <1>9, <1>10, OwnFed
<1>12. Feeds(r, toks)
  BY <1>7, <1>10, <1>11 DEF Feeds, all
<1> QED BY <1>2, <1>7, <1>11, <1>12

\* A pass leaves every KV the start of the tokens of its request.
LEMMA OwnServes ==
  ASSUME EngineInv, EngineInv', Plan, Room, OwnText, ExecuteChunk \/ DecodeWrite
  PROVE  OwnText'
<1>1. RequestTypes /\ open \subseteq Requests
  BY Parts DEF EngineInv, KVInv, KVTypeOK, Requests
<1>2. CASE ExecuteChunk
  <2>1. PICK c \in Members(chunks), toks \in Seq(Tokens) :
          c = Head(chunks) /\ Feeds(c.req, toks) /\ Len(text'[c.req]) = c.start + c.take
    BY <1>2, ChunkFeeds
  <2>2. c.req \in Requests
    BY ChunkBehind
  <2>3. /\ pc = "execute" /\ pc' = "execute" /\ prompt' = prompt
        /\ computed' = [computed EXCEPT ![c.req] = c.start + c.take]
        /\ \/ out' = out
           \/ \E t \in OutTokens : out' = [out EXCEPT ![c.req] = Append(@, t)]
    BY <1>2, <2>1 DEF ExecuteChunk, Emit, OrCrash, Feeds
  <2>4. Ahead = {} /\ Ahead' = {}
    BY <2>3 DEF Ahead
  <2>5. ASSUME NEW x \in open
        PROVE  Starts(text'[x], AllTokens(x)')
    <3>1. x \in Requests /\ text'[x] \in Seq(Tokens) /\ Starts(text'[x], AllTokens(x))
      <4>1. x \in Requests /\ x \in Seqs
        BY <1>1 DEF Requests
      <4>2. CASE x = c.req
        BY <2>1, <4>1, <4>2 DEF Feeds
      <4>3. CASE x # c.req
        <5>1. text'[x] = text[x] /\ Starts(text[x], AllTokens(x))
          BY <2>1, <4>1, <4>3 DEF Feeds, OwnText
        <5>2. text[x] \in Fed /\ AllTokens(x) \in Seq(Tokens)
          BY <4>1, Lengths DEF EngineInv, KVInv, KVTypeOK
        <5> QED BY <4>1, <5>1, <5>2, StartsType DEF Fed
      <4> QED BY <4>2, <4>3
    <3>2. \/ out'[x] = out[x]
          \/ \E t \in OutTokens : out'[x] = Append(out[x], t)
      BY <1>1, <2>2, <2>3, <3>1 DEF RequestTypes
    <3> QED BY <2>3, <3>1, <3>2, StartsEmitted
  <2>6. ASSUME NEW x \in open
        PROVE  Len(text'[x]) = computed'[x]
    <3>1. x \in Seqs /\ x \in Requests
      BY <1>1 DEF Requests
    <3>2. CASE x = c.req
      BY <1>1, <2>1, <2>2, <2>3, <3>2 DEF RequestTypes
    <3>3. CASE x # c.req
      BY <1>1, <2>1, <2>2, <2>3, <2>4, <3>1, <3>3 DEF RequestTypes, Feeds, OwnText
    <3> QED BY <3>2, <3>3
  <2> QED BY <2>1, <2>4, <2>5, <2>6 DEF OwnText, Starts, Feeds
<1>3. CASE DecodeWrite
  <2>1. PICK r \in Requests, toks \in Seq(Tokens) :
          r = Head(scan) /\ Feeds(r, toks) /\ Len(text'[r]) = computed[r] + 1
    BY <1>3, DecodeFeeds
  <2>2. /\ pc = "batch" /\ pc' = "batch" /\ scan # <<>> /\ scan' = Tail(scan)
        /\ UNCHANGED <<decodes, computed, prompt, out>>
    BY <1>3, <2>1 DEF DecodeWrite, OrCrash, Feeds, reqvars
  <2>3. /\ Members(scan) = Members(Tail(scan)) \cup {r} /\ r \notin Members(Tail(scan))
        /\ Members(scan) \subseteq Members(decodes)
    BY <2>1, <2>2, Parts, Taking DEF Plan, OneVisit
  <2>4. Members(decodes)' = Members(decodes) /\ Members(scan)' = Members(Tail(scan))
    BY <2>2 DEF Members
  <2>5. Ahead' = Ahead \cup {r} /\ r \notin Ahead
    BY <2>2, <2>3, <2>4 DEF Ahead
  <2>6. ASSUME NEW x \in open
        PROVE  /\ Starts(text'[x], AllTokens(x))
               /\ x \in Ahead' => Len(text'[x]) = computed[x] + 1
               /\ x \notin Ahead' => Len(text'[x]) = computed[x]
    <3>1. x \in Seqs
      BY <1>1 DEF Requests
    <3>2. CASE x = r
      BY <2>1, <2>5, <3>2 DEF Feeds
    <3>3. CASE x # r
      BY <2>1, <2>5, <3>1, <3>3 DEF Feeds, OwnText
    <3> QED BY <3>2, <3>3
  <2>7. \A x : AllTokens(x)' = AllTokens(x)
    BY <2>2 DEF AllTokens
  <2> QED BY <2>1, <2>2, <2>6, <2>7 DEF OwnText, Starts, Feeds
<1> QED BY <1>2, <1>3

\* A step that writes nothing leaves every KV the start of the tokens of its request.
LEMMA OwnElsewhere ==
  ASSUME EngineInv, Plan, Own, [Next]_vars, ~ExecuteChunk, ~DecodeWrite
  PROVE  OwnText'
<1>1. RequestTypes /\ open \subseteq Requests
  BY Parts DEF EngineInv, KVInv, KVTypeOK, Requests
<1>2. CASE AdmitOpen
  BY <1>2, OwnOpened
<1>3. CASE DecodeEmit
  BY <1>3, OwnEmitted DEF Own
<1>4. CASE PreemptNewest
  <2>1. PICK i \in Victims : Release(running[i]) /\ computed' = [computed EXCEPT ![running[i]] = 0]
    BY <1>4 DEF PreemptNewest
  <2>2. open' = open \ {running[i]}
    BY <2>1 DEF Release
  <2>3. \A x \in open \cap open' : computed'[x] = computed[x]
    BY <1>1, <2>1, <2>2 DEF RequestTypes
  <2>4. pc # "batch" /\ pc # "admit" /\ pc' = pc /\ prompt' = prompt /\ out' = out
    BY <1>4 DEF PreemptNewest
  <2>5. ~AdmitOpen /\ Ahead' = Ahead
    BY <2>4 DEF AdmitOpen, Ahead
  <2> QED BY <2>3, <2>4, <2>5, OwnStays DEF Own
<1>5. CASE Clients
  <2>1. PICK r \in Requests : \/ \E p \in Prompts, m \in OutLimits : AddRequest(r, p, m)
                              \/ AbortRequest(r)
    BY <1>5 DEF Clients
  <2>2. pc = "idle" /\ pc' = pc
    BY <2>1 DEF AddRequest, AbortRequest
  <2>3. ~AdmitOpen /\ Ahead' = Ahead
    BY <2>2 DEF AdmitOpen, Ahead
  <2>4. CASE AbortRequest(r)
    BY <2>3, <2>4, OwnStays DEF Own, AbortRequest
  <2>5. ASSUME NEW p \in Prompts, NEW m \in OutLimits, AddRequest(r, p, m)
        PROVE  OwnText'
    <3>1. /\ state[r] \in Over \cup {"new"} /\ computed' = [computed EXCEPT ![r] = 0]
          /\ prompt' = [prompt EXCEPT ![r] = p] /\ out' = [out EXCEPT ![r] = <<>>]
      BY <2>5 DEF AddRequest
    <3>2. r \notin open
      BY <2>2, <3>1, Parts DEF EngineInv, LoopInv, RunningLive, Over
    <3>3. \A x \in open \cap open' :
             prompt'[x] = prompt[x] /\ out'[x] = out[x] /\ computed'[x] = computed[x]
      BY <1>1, <3>1, <3>2 DEF RequestTypes
    <3> QED BY <2>3, <3>3, OwnStays DEF Own
  <2> QED BY <2>1, <2>4, <2>5
<1>6. CASE \/ BeginStep \/ DecodeScan \/ RoomMade \/ DecodeRetry \/ DecodesDone \/ PrefillScan
           \/ PrefillsDone \/ AdmitRefuse \/ Admit \/ AdmitRollback \/ AdmitDone \/ BreakStall
           \/ AdvanceHead \/ ProgressRetry \/ NothingToForce \/ CacheEviction \/ BeginBatch
           \/ BeginRetire \/ RetireSkip \/ RetirePublish \/ RetireRelease \/ EndStep
           \/ UNCHANGED vars
  <2>1. UNCHANGED <<prompt, out, computed>>
    <3>1. CASE \/ BeginStep \/ DecodeScan \/ RoomMade \/ DecodeRetry \/ DecodesDone \/ PrefillScan
               \/ PrefillsDone \/ AdmitRefuse \/ Admit \/ AdmitRollback \/ AdmitDone
      BY <3>1 DEF BeginStep, DecodeScan, RoomMade, DecodeRetry, DecodesDone, PrefillScan,
         PrefillsDone, AdmitRefuse, Admit, AdmitRollback, AdmitDone, reqvars
    <3>2. CASE \/ BreakStall \/ AdvanceHead \/ ProgressRetry \/ NothingToForce \/ CacheEviction
               \/ BeginBatch \/ BeginRetire \/ RetireSkip \/ RetirePublish \/ RetireRelease
               \/ EndStep \/ UNCHANGED vars
      BY <3>2 DEF BreakStall, AdvanceHead, ProgressRetry, NothingToForce, CacheEviction, BeginBatch,
         BeginRetire, RetireSkip, RetirePublish, RetireRelease, EndStep, vars, reqvars
    <3> QED BY <1>6, <3>1, <3>2
  <2>2. Ahead' = Ahead
    <3>1. CASE \/ BeginStep \/ DecodeScan \/ RoomMade \/ DecodeRetry \/ DecodesDone \/ PrefillScan
               \/ PrefillsDone \/ AdmitRefuse \/ Admit \/ AdmitRollback \/ AdmitDone
      BY <3>1 DEF BeginStep, DecodeScan, RoomMade, DecodeRetry, DecodesDone, PrefillScan,
         PrefillsDone, AdmitRefuse, Admit, AdmitRollback, AdmitDone, MakeRoom, RoomRetry, Ahead
    <3>2. CASE \/ BreakStall \/ AdvanceHead \/ ProgressRetry \/ NothingToForce
               \/ RetireSkip \/ RetirePublish \/ RetireRelease \/ EndStep
      BY <3>2 DEF BreakStall, AdvanceHead, ProgressRetry, NothingToForce, MakeRoom,
         RetireSkip, RetirePublish, RetireRelease, EndStep, Ahead
    <3>3. CASE CacheEviction \/ UNCHANGED vars
      BY <3>3 DEF CacheEviction, vars, locals, Ahead, Members
    <3>4. CASE BeginBatch
      <4>1. pc = "execute" /\ decodes' = scan'
        BY <3>4 DEF BeginBatch
      <4>2. Members(decodes)' = Members(scan)'
        BY <4>1 DEF Members
      <4> QED BY <4>1, <4>2 DEF Ahead
    <3>5. CASE BeginRetire
      BY <3>5 DEF BeginRetire, Ahead, Members
    <3> QED BY <1>6, <3>1, <3>2, <3>3, <3>4, <3>5
  <2>3. CASE ~AdmitOpen
    BY <2>1, <2>2, <2>3, OwnStays DEF Own
  <2> QED BY <1>2, <2>3
<1> QED BY <1>2, <1>3, <1>4, <1>5, <1>6 DEF Next, EngineThread, Schedule, Execute

\* Blocks that suffice for n tokens have room for them.
LEMMA FitsCapacity ==
  ASSUME KVTypeOK, NEW r \in Requests, NEW n \in Nat, NEW k \in Nat, BlocksNeeded(r, n) <= k
  PROVE  n <= (Len(table[r]) + k) * BlockSize
<1> DEFINE m == Len(table[r])
           B == BlocksFor(n)
           lo == m + 1
<1>1. m \in Nat /\ m + k \in Nat /\ BlockSize \in Nat \ {0} /\ B \in Nat /\ lo \in Int
  BY KVAssumption, BlocksForType DEF KVTypeOK, Requests
<1>2. BlocksNeeded(r, n) = Cardinality(lo .. B)
  BY DEF BlocksNeeded, Missing
<1> HIDE DEF B, lo
<1>3. Cardinality(lo .. B) = IF lo > B THEN 0 ELSE B - lo + 1
  BY <1>1, FS_Interval
<1> HIDE DEF m
<1>4. B <= m + k
  BY <1>1, <1>2, <1>3 DEF lo
<1>5. (m + k) * BlockSize \in Nat
  BY <1>1
<1>6. CASE (m + k) * BlockSize < n
  <2>1. m + k + 1 \in Nat \ {0} /\ 1 \in 1 .. BlockSize /\ (m + k + 1) - 1 = m + k
    BY <1>1
  <2>2. At(m + k + 1, 1) <= n
    BY <1>5, <1>6, <2>1 DEF At
  <2>3. m + k + 1 <= B
    BY <2>1, <2>2, AtCovered DEF B
  <2> QED BY <1>1, <1>4, <2>3
<1> QED BY <1>5, <1>6 DEF m

\* Chunked prefill always finds room for a token of a request that was granted its headroom.
LEMMA ChunkedTakes ==
  ASSUME EngineInv, NEW r \in Requests, chunked = TRUE, budget > 0,
         computed[r] < Len(prompt[r]), NextNeed(r) <= Available
  PROVE  Take(r) # 0
<1>1. /\ computed[r] \in Nat /\ budget \in Nat /\ Available \in Int /\ Len(table[r]) \in Nat
      /\ Target(r) \in Nat /\ Len(prompt[r]) \in Nat /\ BlockSize \in Nat \ {0}
  BY Parts, Counts, Lengths, Sizes, KVAssumption
     DEF EngineInv, KVInv, KVTypeOK, RequestTypes, StepTypes, Requests
<1>2. computed[r] < Target(r)
  <2>1. Len(out[r]) \in Nat /\ Target(r) = Len(prompt[r]) + Max2(0, Len(out[r]) - 1)
    BY Sizes DEF EngineInv, Target
  <2>2. Max2(0, Len(out[r]) - 1) \in Nat
    BY <2>1 DEF Max2
  <2> QED BY <1>1, <2>1, <2>2
<1>3. Want(r) \in Nat \ {0}
  BY <1>1, <1>2 DEF Want, Remaining, Max2, Min2
<1> DEFINE k == Max2(0, Available)
           capacity == (Len(table[r]) + k) * BlockSize
<1>4. computed[r] + 1 <= capacity
  <2>1. computed[r] + 1 \in Nat /\ BlocksNeeded(r, computed[r] + 1) \in Nat
    <3>1. computed[r] + 1 \in Nat
      BY <1>1
    <3> QED BY <3>1, Counts DEF EngineInv
  <2>2. BlocksNeeded(r, computed[r] + 1) <= k /\ k \in Nat
    BY <1>1, <2>1 DEF NextNeed, Max2
  <2>3. KVTypeOK
    BY DEF EngineInv, KVInv
  <2> HIDE DEF k
  <2> QED BY <2>1, <2>2, <2>3, FitsCapacity
<1>5. capacity \in Nat
  <2>1. k \in Nat
    BY <1>1 DEF Max2
  <2> QED BY <1>1, <2>1
<1>6. Take(r) = IF BlocksNeeded(r, computed[r] + Want(r)) > Available
                THEN Max2(0, Min2(Want(r), capacity - computed[r]))
                ELSE Want(r)
  BY DEF Take
<1> HIDE DEF k, capacity
<1>7. Max2(0, Min2(Want(r), capacity - computed[r])) # 0
  BY <1>1, <1>3, <1>4, <1>5 DEF Max2, Min2
<1> QED BY <1>3, <1>6, <1>7

\* Who waited and is left alone waits as before.
LEMMA FreshStays ==
  ASSUME EngineInv, WaitersFresh,
         \A x \in Members(waiting') :
           \/ /\ x \in Members(waiting)
              /\ prompt'[x] = prompt[x] /\ computed'[x] = computed[x]
              /\ x \in open => x \in open'
           \/ /\ computed'[x] = 0 /\ prompt'[x] \in Prompts
  PROVE  WaitersFresh'
<1>1. Members(waiting)' = Members(waiting')
  BY DEF Members
<1>2. \A p \in Prompts : Len(p) \in Nat /\ Len(p) # 0
  BY KVAssumption
<1>3. \A x \in Members(waiting') :
        computed'[x] < Len(prompt'[x]) /\ ((x \in open' /\ Caching) \/ computed'[x] = 0)
  BY <1>2 DEF WaitersFresh
<1> QED BY <1>1, <1>3 DEF WaitersFresh

\* Who is preempted, or waits, is not released by a client or by the retire loop.
LEMMA FreshReleased ==
  ASSUME EngineInv, WaitersFresh, NEW v \in Requests, v \notin Members(waiting'),
         Members(waiting') \subseteq Members(waiting),
         UNCHANGED <<prompt, computed>>, open' = open \/ open' = open \ {v}
  PROVE  WaitersFresh'
<1>1. \A x \in Members(waiting') :
        /\ x \in Members(waiting) /\ prompt'[x] = prompt[x] /\ computed'[x] = computed[x]
        /\ x \in open => x \in open'
  OBVIOUS
<1> QED BY <1>1, FreshStays

\* The steps that touch no waiting request.
LEMMA FreshQuiet ==
  ASSUME EngineInv, WaitersFresh,
         \/ BeginStep \/ DecodeScan \/ RoomMade \/ DecodeRetry \/ DecodesDone \/ PrefillScan
         \/ PrefillsDone \/ AdmitRefuse \/ AdmitDone \/ BreakStall \/ AdvanceHead \/ ProgressRetry
         \/ NothingToForce \/ CacheEviction \/ BeginBatch \/ BeginRetire \/ RetireSkip
         \/ RetirePublish \/ EndStep \/ UNCHANGED vars
  PROVE  WaitersFresh'
<1>1. UNCHANGED <<prompt, computed, waiting, open>>
  <2>1. CASE \/ BeginStep \/ DecodeScan \/ RoomMade \/ DecodeRetry \/ DecodesDone \/ PrefillScan
             \/ PrefillsDone \/ AdmitRefuse \/ AdmitDone \/ BreakStall \/ AdvanceHead
    BY <2>1 DEF BeginStep, DecodeScan, RoomMade, DecodeRetry, DecodesDone, PrefillScan,
       PrefillsDone, AdmitRefuse, AdmitDone, BreakStall, AdvanceHead, MakeRoom, Evict, reqvars,
       queues, kvvars
  <2>2. CASE \/ ProgressRetry \/ NothingToForce \/ CacheEviction \/ BeginBatch \/ BeginRetire
             \/ RetireSkip \/ RetirePublish \/ EndStep \/ UNCHANGED vars
    BY <2>2 DEF ProgressRetry, NothingToForce, CacheEviction, EvictOne, EvictNoMore, BeginBatch,
       BeginRetire, RetireSkip, RetirePublish, Publish, EndStep, vars, reqvars, queues, kvvars
  <2> QED BY <2>1, <2>2
<1> QED BY <1>1, FreshStays

\* A pass or an emission is for a request that runs, not for one that waits.
LEMMA FreshServes ==
  ASSUME EngineInv, Plan, WaitersFresh, ExecuteChunk \/ DecodeWrite \/ DecodeEmit
  PROVE  WaitersFresh'
<1>1. RequestTypes
  BY Parts
<1>2. CASE ExecuteChunk
  <2>1. PICK c \in Members(chunks) : c = Head(chunks)
    BY <1>2, Parts, Taking DEF ExecuteChunk
  <2>2. c.req \in Requests /\ c.req \in Members(running)
    BY ChunkBehind
  <2>3. /\ prompt' = prompt /\ waiting' = waiting
        /\ \A x \in Requests \ {c.req} : computed'[x] = computed[x]
    BY <1>1, <1>2, <2>1 DEF ExecuteChunk, RequestTypes, queues
  <2>4. open' = open
    <3>1. \E start, toks : Forward(c.req, start, toks)
      BY <1>2, <2>1 DEF ExecuteChunk
    <3> QED BY <2>2, <3>1, ForwardTables DEF EngineInv
  <2>5. \A x \in Members(waiting) : x \in Requests /\ x # c.req
    BY <2>2, Parts
  <2> QED BY <2>3, <2>4, <2>5, FreshStays
<1>3. CASE DecodeWrite
  <2>1. PICK r \in Requests : r = Head(scan)
    BY <1>3, Parts, Taking DEF DecodeWrite
  <2>2. open' = open
    <3>1. \E start, toks : Forward(r, start, toks)
      BY <1>3, <2>1 DEF DecodeWrite
    <3> QED BY <3>1, ForwardTables DEF EngineInv
  <2> QED BY <1>3, <2>2, FreshStays DEF DecodeWrite, reqvars, queues
<1>4. CASE DecodeEmit
  <2>1. PICK r \in Requests : r = Head(decodes) /\ r \in Members(decodes)
    BY <1>4, Parts, Taking DEF DecodeEmit
  <2>2. r \in Members(running)
    BY <2>1 DEF EngineInv, LoopInv, ScheduledRuns, Scheduled
  <2>3. /\ prompt' = prompt /\ waiting' = waiting /\ open' = open
        /\ \A x \in Requests \ {r} : computed'[x] = computed[x]
    BY <1>1, <1>4, <2>1 DEF DecodeEmit, RequestTypes, queues, kvvars
  <2>4. \A x \in Members(waiting) : x \in Requests /\ x # r
    BY <2>2, Parts
  <2> QED BY <2>3, <2>4, FreshStays
<1> QED BY <1>2, <1>3, <1>4

\* A preempted request starts over.
LEMMA FreshPreempted ==
  ASSUME EngineInv, WaitersFresh, PreemptNewest
  PROVE  WaitersFresh'
<1>1. PICK i \in Victims :
        /\ Release(running[i]) /\ computed' = [computed EXCEPT ![running[i]] = 0]
        /\ waiting' = <<running[i]>> \o waiting /\ prompt' = prompt
  BY DEF PreemptNewest
<1>2. PICK v \in Requests : v = running[i] /\ v \in Members(running)
  BY Parts, MembersOf DEF Victims, Members
<1>3. prompt[v] \in Prompts /\ RequestTypes
  BY <1>2, Parts DEF EngineInv, LoopInv, Submitted, RunningLive
<1>4. Members(waiting') = Members(waiting) \cup {v}
  <2>1. waiting \in Seq(Requests)
    BY Parts
  <2>2. waiting' = <<v>> \o waiting
    BY <1>1, <1>2
  <2>3. waiting' \in Seq(Requests) /\ Before(waiting', waiting, v)
    BY <2>1, <2>2 DEF Before
  <2> QED BY <2>1, <2>3, Prepended
<1>5. /\ computed'[v] = 0 /\ open' = open \ {v}
      /\ \A x \in Requests \ {v} : computed'[x] = computed[x]
  BY <1>1, <1>2, <1>3 DEF Release, RequestTypes
<1>6. \A x \in Members(waiting) : x \in Requests /\ x # v
  BY <1>2, Parts
<1> QED BY <1>1, <1>3, <1>4, <1>5, <1>6, FreshStays

\* Admission: the head gets a KV, keeps it while it waits, or runs.
LEMMA FreshAdmission ==
  ASSUME EngineInv, WaitersFresh, ChunkedOrUncached, AdmitOpen \/ Admit \/ AdmitRollback
  PROVE  WaitersFresh'
<1>1. RequestTypes
  BY Parts
<1>2. CASE Admit
  <2>1. /\ waiting # <<>> /\ waiting' = Tail(waiting)
        /\ UNCHANGED <<prompt, computed, open>>
    BY <1>2 DEF Admit, MayAdmit, kvvars
  <2>2. Members(waiting') \subseteq Members(waiting)
    BY <2>1, HeadWaits
  <2> QED BY <2>1, <2>2, FreshStays
<1>3. CASE AdmitOpen
  <2>1. PICK r \in Requests : /\ r = Head(waiting) /\ r \in Members(waiting)
                              /\ Open(r, prompt[r]) /\ prompt[r] \in Prompts
                              /\ computed' = [computed EXCEPT ![r] =
                                   IF text'[r] # <<>> THEN Len(text'[r]) ELSE @]
                              /\ prompt' = prompt /\ waiting' = waiting
    BY <1>3, HeadWaits DEF AdmitOpen, MayAdmit, queues
  <2>2. /\ open' = open \cup {r} /\ r \notin open
        /\ \E n \in 0..(Len(prompt[r]) - 1) : (Caching \/ n = 0) /\ Len(text'[r]) = n
    BY <2>1, OpenLeaves DEF EngineInv, Requests
  <2>3. computed[r] = 0
    BY <2>1, <2>2 DEF WaitersFresh
  <2>4. computed'[r] = Len(text'[r])
    <3>1. computed'[r] = IF text'[r] # <<>> THEN Len(text'[r]) ELSE computed[r]
      BY <1>1, <2>1 DEF RequestTypes
    <3>2. Len(<<>>) = 0
      OBVIOUS
    <3> QED BY <2>3, <3>1, <3>2
  <2>5. Len(prompt[r]) \in Nat
    BY Sizes DEF EngineInv
  <2>6. computed'[r] < Len(prompt[r]) /\ (Caching \/ computed'[r] = 0)
    BY <2>2, <2>4, <2>5
  <2>7. \A x \in Requests \ {r} : computed'[x] = computed[x]
    BY <1>1, <2>1 DEF RequestTypes
  <2>8. Members(waiting)' = Members(waiting) /\ Members(waiting) \subseteq Requests
    BY <2>1, Parts DEF Members
  <2> QED BY <2>1, <2>2, <2>6, <2>7, <2>8 DEF WaitersFresh
<1>4. CASE AdmitRollback
  <2>1. PICK r \in Requests :
          /\ r = Head(waiting) /\ r \in Members(waiting) /\ budget > 0
          /\ NextNeed(r) <= Available /\ Take(r) = 0 /\ open' = open \ {r}
          /\ prompt' = prompt /\ computed' = computed /\ waiting' = waiting
    BY <1>4, HeadWaits DEF AdmitRollback, MayAdmit, queues, Release
  <2>2. computed[r] < Len(prompt[r])
    BY <2>1 DEF WaitersFresh
  <2>3. chunked # TRUE
    BY <2>1, <2>2, ChunkedTakes
  <2>4. ~Caching
    BY <1>1, <2>3 DEF ChunkedOrUncached, RequestTypes
  <2>5. Members(waiting)' = Members(waiting)
    BY <2>1 DEF Members
  <2> QED BY <2>1, <2>4, <2>5 DEF WaitersFresh
<1> QED BY <1>2, <1>3, <1>4

\* Who leaves the queues leaves the others alone; who comes new has computed nothing.
LEMMA FreshClients ==
  ASSUME EngineInv, WaitersFresh, Clients \/ RetireRelease
  PROVE  WaitersFresh'
<1>1. RequestTypes /\ waiting \in Seq(Requests)
  BY Parts
<1>2. CASE RetireRelease
  <2>1. /\ pc = "release" /\ waiting' = waiting /\ UNCHANGED <<prompt, computed>>
    BY <1>2 DEF RetireRelease, reqvars
  <2>2. PICK v \in Requests : v = Head(scan) /\ state[v] \in Over
    BY <2>1, Parts, Taking DEF EngineInv, LoopInv, RunningLive
  <2>3. v \notin Members(waiting)
    BY <2>2, Parts DEF Over
  <2>4. open' = open \/ open' = open \ {v}
    BY <1>2, <2>2 DEF RetireRelease, Release, kvvars
  <2> QED BY <2>1, <2>2, <2>3, <2>4, FreshReleased
<1>3. ASSUME NEW r \in Requests, AbortRequest(r)
      PROVE  WaitersFresh'
  <2>1. /\ waiting' = Without(waiting, r) /\ UNCHANGED <<prompt, computed>>
        /\ open' = open \/ open' = open \ {r}
    BY <1>3 DEF AbortRequest, Release, kvvars
  <2>2. Members(waiting') = Members(waiting) \ {r}
    BY <1>1, <2>1, WithoutFacts
  <2> QED BY <2>1, <2>2, FreshReleased
<1>4. ASSUME NEW r \in Requests, NEW p \in Prompts, NEW m \in OutLimits, AddRequest(r, p, m)
      PROVE  WaitersFresh'
  <2>1. /\ waiting' = Append(waiting, r) /\ open' = open
        /\ prompt' = [prompt EXCEPT ![r] = p] /\ computed' = [computed EXCEPT ![r] = 0]
    BY <1>4 DEF AddRequest, kvvars
  <2>2. Members(waiting') = Members(waiting) \cup {r}
    <3>1. waiting' \in Seq(Requests) /\ Behind(waiting', waiting, r)
      BY <1>1, <2>1 DEF Behind
    <3> QED BY <1>1, <3>1, Appended
  <2>3. /\ computed'[r] = 0 /\ prompt'[r] \in Prompts
        /\ \A x \in Requests \ {r} : computed'[x] = computed[x] /\ prompt'[x] = prompt[x]
    BY <1>1, <2>1 DEF RequestTypes
  <2>4. Members(waiting) \subseteq Requests
    BY Parts
  <2> QED BY <2>1, <2>2, <2>3, <2>4, FreshStays
<1> QED BY <1>2, <1>3, <1>4 DEF Clients

\* Publishing the tokens of a request publishes what its KV holds.
LEMMA PublishesOwn ==
  ASSUME EngineInv, OwnText, NEW r \in Requests, Publish(r, AllTokens(r))
  PROVE  Publish(r, text[r])
<1> USE DEF Requests
<1> DEFINE s == text[r]
           t == AllTokens(r)
           full == FullBlocks(r)
           K(q) == Min2(full, Len(q) \div BlockSize)
<1>1. /\ s \in Fed /\ t \in Seq(Tokens) /\ Len(s) \in Nat /\ Len(t) \in Nat
  BY Lengths DEF EngineInv, KVInv, KVTypeOK, Fed
<1>2. Starts(s, t)
  BY DEF Publish, OwnText
<1>3. full = Len(s) \div BlockSize
  BY DEF FullBlocks
<1> HIDE DEF s, t
<1>4. /\ full \in Nat /\ Len(t) \div BlockSize \in Nat /\ full <= Len(t) \div BlockSize
      /\ full * BlockSize <= Len(s)
  <2>1. Len(s) <= Len(t)
    BY <1>2 DEF Starts
  <2>2. \A m, n \in Nat : m <= n => m \div BlockSize <= n \div BlockSize
    BY KVAssumption
  <2>3. Len(s) \div BlockSize \in Nat /\ Len(t) \div BlockSize \in Nat
    BY <1>1, BlocksForType
  <2>4. full * BlockSize <= Len(s)
    BY <1>1, <1>3, <2>3, DivLe
  <2> QED BY <1>1, <1>3, <2>1, <2>2, <2>3, <2>4
<1> HIDE DEF full
<1>5. K(s) = full /\ K(t) = full
  BY <1>1, <1>3, <1>4 DEF Min2
<1>6. \A i \in 1 .. full : Path(t, i) = Path(s, i)
  <2> SUFFICES ASSUME NEW i \in 1 .. full PROVE Path(t, i) = Path(s, i)
    OBVIOUS
  <2>1. i * BlockSize \in Nat /\ i * BlockSize <= full * BlockSize /\ full * BlockSize \in Nat
    BY <1>4, KVAssumption
  <2>2. i * BlockSize <= Len(s) /\ i * BlockSize <= Len(t)
    BY <1>1, <1>2, <1>4, <2>1 DEF Starts
  <2> DEFINE n == i * BlockSize
  <2> HIDE DEF n
  <2>3. n \in 0 .. Len(s) /\ n \in 0 .. Len(t)
    BY <1>1, <2>1, <2>2 DEF n
  <2>4. \A j \in 1 .. n : s[j] = t[j]
    BY <1>1, <1>2, <2>3 DEF Starts, Fed
  <2>5. SubSeq(t, 1, n) = [j \in 1 .. n |-> t[j]] /\ SubSeq(s, 1, n) = [j \in 1 .. n |-> s[j]]
    BY <1>1, <2>3 DEF Fed
  <2>6. SubSeq(t, 1, n) = SubSeq(s, 1, n)
    BY <2>4, <2>5
  <2> QED BY <2>6 DEF Path, n
<1>7. {Path(t, i) : i \in 1 .. full} = {Path(s, i) : i \in 1 .. full}
  BY <1>6
<1>8. /\ Min2(FullBlocks(r), Len(t) \div BlockSize) = full
      /\ Min2(FullBlocks(r), Len(s) \div BlockSize) = full
  BY <1>5 DEF full
<1>9. Publish(r, t)
  BY DEF t
<1>10. Publish(r, s)
  BY <1>7, <1>8, <1>9 DEF Publish
<1> QED BY <1>10 DEF s

\* Every step keeps the KV of every request the start of its own tokens.
LEMMA OwnSteps ==
  ASSUME ChunkedOrUncached, EngineInv, Plan, Room, Own, [Next]_vars
  PROVE  Own'
<1>1. EngineInv'
  BY EngineSteps
<1>2. OwnText'
  <2>1. CASE ExecuteChunk \/ DecodeWrite
    BY <1>1, <2>1, OwnServes DEF Own
  <2>2. CASE ~ExecuteChunk /\ ~DecodeWrite
    BY <2>2, OwnElsewhere
  <2> QED BY <2>1, <2>2
<1>3. WaitersFresh'
  <2>1. WaitersFresh
    BY DEF Own
  <2>2. CASE ExecuteChunk \/ DecodeWrite \/ DecodeEmit
    BY <2>1, <2>2, FreshServes
  <2>3. CASE PreemptNewest
    BY <2>1, <2>3, FreshPreempted
  <2>4. CASE AdmitOpen \/ Admit \/ AdmitRollback
    BY <2>1, <2>4, FreshAdmission
  <2>5. CASE Clients \/ RetireRelease
    BY <2>1, <2>5, FreshClients
  <2>6. CASE \/ BeginStep \/ DecodeScan \/ RoomMade \/ DecodeRetry \/ DecodesDone \/ PrefillScan
             \/ PrefillsDone \/ AdmitRefuse \/ AdmitDone \/ BreakStall \/ AdvanceHead
             \/ ProgressRetry \/ NothingToForce \/ CacheEviction \/ BeginBatch \/ BeginRetire
             \/ RetireSkip \/ RetirePublish \/ EndStep \/ UNCHANGED vars
    BY <2>1, <2>6, FreshQuiet
  <2> QED BY <2>2, <2>3, <2>4, <2>5, <2>6 DEF Next, EngineThread, Schedule, Execute
<1> QED BY <1>2, <1>3 DEF Own

\* The engine starts with no KV and nobody waiting.
LEMMA OwnStarts == Init => Own
  BY DEF Init, KVInit, Own, OwnText, WaitersFresh, Members

\* The calls the engine makes on the KV memory keep what its blocks encode: it writes where
\* the KV ends and publishes what the KV holds.
LEMMA EngineContent ==
  ASSUME EngineInv, EngineInv', Plan, Room, Own, Content, [Next]_vars
  PROVE  Content'
<1> USE DEF Requests
<1>1. KVInv /\ KVInv' /\ OwnText
  BY DEF EngineInv, Own
<1>2. CASE Quiet
  BY <1>2 DEF Quiet, Content, Holds, OwnPlaces, Rooted, Encodes
<1>3. ASSUME NEW v \in Seqs, Release(v) PROVE Content'
  BY <1>1, <1>3, ReleaseContent
<1>4. CASE \/ BeginStep \/ DecodeScan \/ RoomMade \/ DecodeRetry \/ DecodesDone \/ PrefillScan
           \/ PrefillsDone \/ AdmitRefuse \/ AdmitDone \/ BreakStall \/ AdvanceHead \/ ProgressRetry
           \/ NothingToForce \/ BeginBatch \/ DecodeEmit \/ BeginRetire \/ RetireSkip \/ EndStep
           \/ UNCHANGED vars
  BY <1>2, <1>4, QuietSteps
<1>5. CASE Admit
  BY <1>2, <1>5 DEF Admit, Quiet, kvvars
<1>6. CASE PreemptNewest
  <2>1. PICK i \in Victims : Release(running[i])
    BY <1>6 DEF PreemptNewest
  <2>2. running[i] \in Seqs
    BY <2>1, Parts DEF Victims
  <2> QED BY <1>3, <2>1, <2>2
<1>7. CASE CacheEviction
  <2>1. CASE EvictOne
    BY <1>1, <2>1, EvictOneContent
  <2>2. CASE EvictNoMore
    BY <1>2, <2>2 DEF EvictNoMore, Quiet
  <2> QED BY <1>7, <2>1, <2>2 DEF CacheEviction
<1>8. CASE AdmitOpen
  <2>1. PICK r \in Seqs : Open(r, prompt[r]) /\ prompt[r] \in Prompts
    BY <1>8, HeadWaits DEF AdmitOpen, MayAdmit
  <2> QED BY <1>1, <2>1, OpenContent
<1>9. CASE AdmitRollback
  <2>1. Release(Head(waiting)) /\ Head(waiting) \in Seqs
    BY <1>9, HeadWaits DEF AdmitRollback, MayAdmit
  <2> QED BY <1>3, <2>1
<1>10. CASE RetirePublish
  <2>1. PICK r \in Requests : r = Head(scan)
    BY <1>10, Parts, Taking DEF RetirePublish
  <2>2. UNCHANGED kvvars \/ Publish(r, AllTokens(r))
    BY <1>10, <2>1 DEF RetirePublish
  <2>3. CASE UNCHANGED kvvars
    BY <1>2, <2>3 DEF kvvars, Quiet
  <2>4. CASE Publish(r, AllTokens(r))
    BY <1>1, <2>4, PublishesOwn, PublishContent
  <2> QED BY <2>2, <2>3, <2>4
<1>11. CASE RetireRelease
  <2>1. open \subseteq Seqs
    BY <1>1 DEF KVInv, KVTypeOK
  <2>2. UNCHANGED kvvars \/ \E v \in Seqs : Release(v)
    BY <1>11, <2>1 DEF RetireRelease
  <2>3. CASE UNCHANGED kvvars
    BY <1>2, <2>3 DEF kvvars, Quiet
  <2> QED BY <1>3, <2>2, <2>3
<1>12. CASE Clients
  <2>1. Quiet \/ \E r \in Requests : Release(r)
    BY <1>12 DEF Clients, AddRequest, AbortRequest, Quiet, kvvars
  <2> QED BY <1>2, <1>3, <2>1
<1>13. ASSUME NEW r \in Requests, NEW toks, Feeds(r, toks) PROVE Content'
  <2>1. toks \in Seq(Tokens) /\ Write(r, Len(text[r]), toks)
    BY <1>13 DEF Feeds
  <2> QED BY <1>1, <2>1, WriteContent
<1>14. CASE ExecuteChunk
  <2>1. PICK c \in Members(chunks), toks \in Seq(Tokens) : Feeds(c.req, toks)
    BY <1>1, <1>14, ChunkFeeds
  <2>2. c.req \in Requests
    BY ChunkBehind
  <2> QED BY <1>13, <2>1, <2>2
<1>15. CASE DecodeWrite
  BY <1>1, <1>13, <1>15, DecodeFeeds
<1> QED BY <1>4, <1>5, <1>6, <1>7, <1>8, <1>9, <1>10, <1>11, <1>12, <1>14, <1>15
        DEF Next, EngineThread, Schedule, Execute

\* The whole invariant of what the KV of the engine's requests holds.
LEMMA OwnHolds ==
  ASSUME ChunkedOrUncached
  PROVE  Spec => [](EngineInv /\ Own /\ Content)
<1>1. Init => EngineInv /\ Plan /\ Room /\ Own /\ Content
  <2>1. Init => KVInit
    BY DEF Init
  <2> QED BY <2>1, EngineStarts, PlanStarts, RoomStarts, OwnStarts, InitContent
<1>2. EngineInv /\ Plan /\ Room /\ Own /\ Content /\ [Next]_vars
        => (EngineInv /\ Plan /\ Room /\ Own /\ Content)'
  BY EngineSteps, PlanSteps, RoomSteps, OwnSteps, EngineContent
<1> QED BY <1>1, <1>2, PTL DEF Spec

\* Whatever is preempted, chunked or found in the cache, the KV of a request is the start of
\* its own tokens, up to num_computed_tokens, unless the cache is used without chunked prefill.
THEOREM KVIsOwnTokensHolds ==
  ASSUME ChunkedOrUncached
  PROVE  Spec => []KVIsOwnTokens
<1>1. EngineInv /\ Own => KVIsOwnTokens
  BY DEF Own, OwnText, Starts, Ahead, KVIsOwnTokens
<1> QED BY <1>1, OwnHolds, PTL

\* The next token of a running request goes right behind its KV (next_position): only the
\* cache without chunked prefill can break it, as the run engine_stale_prefix does.
THEOREM PositionsHeldHolds ==
  ASSUME ChunkedOrUncached
  PROVE  Spec => []PositionsHeld
<1>1. EngineInv /\ Own => PositionsHeld
  BY DEF Own, OwnText, Ahead, PositionsHeld
<1> QED BY <1>1, OwnHolds, PTL

\* What attention gathers for a request of the engine is what the request was fed, and every
\* cached prefix encodes its tokens, through preemption, adoption, copies and eviction.
THEOREM EngineReadsBack ==
  ASSUME ChunkedOrUncached
  PROVE  Spec => [](Readable /\ CacheSound)
<1>1. EngineInv /\ Content => Readable /\ CacheSound
  BY HoldsIsReadable, ContentIsSound DEF EngineInv, Readable
<1> QED BY <1>1, OwnHolds, PTL

-----------------------------------------------------------------------------
(* The line: only its newest still prefills, its head is never preempted.  *)

\* What is left of a list stands in the order it had.
LEMMA KeepingOrder ==
  ASSUME NEW S, NEW q \in Seq(S), NEW T
  PROVE  \A k, m \in DOMAIN Keeping(q, T) : k < m =>
           \E i, j \in DOMAIN q : i < j /\ q[i] = Keeping(q, T)[k] /\ q[j] = Keeping(q, T)[m]
<1> DEFINE I == {i \in DOMAIN q : q[i] \in T}
           UpTo(i) == {n \in I : n <= i}
           at == [k \in 1 .. Cardinality(I) |-> CHOOSE i \in I : Cardinality(UpTo(i)) = k]
<1>1. I \subseteq 1 .. Len(q) /\ Len(q) \in Nat
  OBVIOUS
<1>2. IsFiniteSet(I) /\ I \in SUBSET Nat
  <2>1. ASSUME NEW n \in Nat PROVE IsFiniteSet(1 .. n)
    BY FS_Interval
  <2>2. IsFiniteSet(1 .. Len(q))
    BY <1>1, <2>1, Zenon
  <2>3. IsFiniteSet(I)
    <3> HIDE DEF I
    <3> QED BY <1>1, <2>2, FS_Subset
  <2> QED BY <1>1, <2>3
<1>3. \A k \in 1 .. Cardinality(I) : \E i \in I : Cardinality(UpTo(i)) = k
  <2> HIDE DEF I
  <2> QED BY <1>2, Ranks
<1>4. \A k \in 1 .. Cardinality(I) : at[k] \in I /\ Cardinality(UpTo(at[k])) = k
  <2> HIDE DEF I, UpTo
  <2> QED BY <1>3
<1>5. Keeping(q, T) = [k \in 1 .. Cardinality(I) |-> q[at[k]]]
  BY DEF Keeping
<1>6. Cardinality(I) \in Nat /\ \A i \in I : i \in Nat /\ i \in DOMAIN q
  <2>1. Cardinality(I) \in Nat
    <3> HIDE DEF I
    <3> QED BY <1>2, FS_CardinalityType
  <2> QED BY <1>2, <2>1
<1>7. ASSUME NEW i \in I, NEW j \in I, j <= i
      PROVE  Cardinality(UpTo(j)) <= Cardinality(UpTo(i))
  <2>1. UpTo(j) \subseteq UpTo(i) /\ UpTo(i) \subseteq I
    <3> HIDE DEF I
    <3> QED BY <1>6, <1>7
  <2>2. IsFiniteSet(UpTo(i))
    <3> HIDE DEF UpTo, I
    <3> QED BY <1>2, <2>1, FS_Subset
  <2> HIDE DEF UpTo
  <2> QED BY <2>1, <2>2, FS_Subset
<1> HIDE DEF I, UpTo, at
<1> SUFFICES ASSUME NEW k \in 1 .. Cardinality(I), NEW m \in 1 .. Cardinality(I), k < m
             PROVE  \E i, j \in DOMAIN q : i < j /\ q[i] = q[at[k]] /\ q[j] = q[at[m]]
  BY <1>5
<1>8. at[k] < at[m]
  <2>1. /\ at[k] \in I /\ at[m] \in I /\ at[k] \in Nat /\ at[m] \in Nat /\ k \in Nat /\ m \in Nat
        /\ Cardinality(UpTo(at[k])) = k /\ Cardinality(UpTo(at[m])) = m
    BY <1>4, <1>6
  <2>2. at[m] <= at[k] => m <= k
    BY <1>7, <2>1
  <2> QED BY <2>1, <2>2
<1> QED BY <1>4, <1>6, <1>8

\* Taking out anybody else leaves the head of a queue where it is.
LEMMA WithoutHead ==
  ASSUME NEW q \in Seq(Requests), q # <<>>, Distinct(q), NEW r, r # q[1]
  PROVE  Without(q, r) # <<>> /\ Without(q, r)[1] = q[1]
<1>1. Members(Without(q, r)) = Members(q) \ {r} /\ Without(q, r) \in Seq(Requests)
  BY WithoutFacts
<1>2. q[1] \in Members(q) /\ 1 \in DOMAIN q /\ \A i \in DOMAIN q : i \in Nat /\ ~(i < 1)
  BY DEF Members
<1>3. PICK m \in DOMAIN Without(q, r) : Without(q, r)[m] = q[1]
  BY <1>1, <1>2 DEF Members
<1>4. 1 \in DOMAIN Without(q, r) /\ m \in Nat /\ (m = 1 \/ 1 < m)
  BY <1>1, <1>3
<1>5. ~(1 < m)
  <2> SUFFICES ASSUME 1 < m PROVE FALSE
    OBVIOUS
  <2>1. PICK i, j \in DOMAIN q : i < j /\ q[j] = Without(q, r)[m]
    BY <1>3, <1>4, KeepingOrder DEF Without
  <2>2. j = 1
    BY <1>2, <1>3, <2>1 DEF Distinct
  <2> QED BY <1>2, <2>1, <2>2
<1>6. Without(q, r) # <<>>
  BY <1>4
<1> QED BY <1>3, <1>4, <1>5, <1>6

\* The eviction loop is over where schedule() sizes and admits.
Settled ==
  pc \in {"idle", "decode", "decode_retry", "prefill", "admit", "batch", "retire"} => toEvict = 0

\* Who runs has a KV, and the KV of who waits ends with a block.
RunnersHold == Members(running) \subseteq open
WaitersWhole ==
  \A r \in Members(waiting) \cap open : Len(text[r]) = Len(table[r]) * BlockSize

\* Every step finishes the evictions it starts before it sizes another request.
LEMMA SettledSteps ==
  ASSUME EngineInv, Settled, [Next]_vars
  PROVE  Settled'
<1>1. ASSUME NEW r \in Requests, NEW start, NEW toks, Forward(r, start, toks)
      PROVE  toEvict' = toEvict
  BY <1>1 DEF Forward, Write, kvvars
<1>2. ASSUME NEW r, Release(r) PROVE toEvict = 0 /\ toEvict' = 0
  BY <1>2 DEF Release
<1>3. CASE BeginStep \/ RoomMade \/ DecodeRetry \/ DecodesDone \/ PrefillScan \/ PrefillsDone
           \/ AdmitRefuse \/ AdmitDone \/ ProgressRetry \/ NothingToForce \/ BeginBatch
           \/ DecodeEmit \/ BeginRetire \/ RetireSkip \/ EndStep \/ Admit \/ UNCHANGED vars
  BY <1>3 DEF BeginStep, RoomMade, DecodeRetry, DecodesDone, PrefillScan, PrefillsDone, AdmitRefuse,
     AdmitDone, ProgressRetry, NothingToForce, BeginBatch, DecodeEmit, BeginRetire, RetireSkip,
     EndStep, Admit, vars, kvvars, Settled, RoomRetry
<1>4. CASE DecodeScan \/ AdvanceHead \/ BreakStall
  BY <1>4 DEF DecodeScan, AdvanceHead, BreakStall, MakeRoom, kvvars, Settled
<1>5. CASE PreemptNewest \/ AdmitRollback \/ RetireRelease
  <2>1. (toEvict = 0 /\ toEvict' = 0) \/ (toEvict = 0 /\ UNCHANGED kvvars)
    BY <1>2, <1>5 DEF PreemptNewest, AdmitRollback, RetireRelease
  <2> QED BY <2>1 DEF kvvars, Settled
<1>6. CASE AdmitOpen
  BY <1>6 DEF AdmitOpen, Open, Settled
<1>7. CASE CacheEviction
  BY <1>7 DEF CacheEviction, EvictOne, EvictNoMore, Settled, EngineInv, KVInv, KVTypeOK
<1>8. CASE ExecuteChunk
  BY <1>8 DEF ExecuteChunk, OrCrash, Settled
<1>9. CASE DecodeWrite
  <2>1. scan # <<>> /\ Head(scan) \in Requests
    BY <1>9, Parts, Taking DEF DecodeWrite
  <2>2. toEvict' = toEvict /\ pc = "batch"
    BY <1>1, <1>9, <2>1 DEF DecodeWrite
  <2> QED BY <2>2 DEF Settled
<1>10. CASE RetirePublish
  BY <1>10 DEF RetirePublish, Settled
<1>11. CASE Clients
  <2>1. pc = "idle" /\ (UNCHANGED kvvars \/ toEvict' = 0)
    BY <1>2, <1>11 DEF Clients, AddRequest, AbortRequest
  <2> QED BY <2>1 DEF kvvars, Settled
<1> QED BY <1>3, <1>4, <1>5, <1>6, <1>7, <1>8, <1>9, <1>10, <1>11
        DEF Next, EngineThread, Schedule, Execute

\* Who runs and who waits after the passes and the publication.
LEMMA QueuesElsewhere ==
  ASSUME EngineInv, ExecuteChunk \/ DecodeWrite \/ RetirePublish
  PROVE  /\ UNCHANGED queues /\ open' = open
         /\ \A x \in Members(waiting) : table'[x] = table[x] /\ text'[x] = text[x]
<1> USE DEF Requests
<1>1. CASE ExecuteChunk \/ DecodeWrite
  <2>1. PICK r \in Members(running) :
          UNCHANGED queues /\ \E start, toks : Forward(r, start, toks)
    <3>1. CASE ExecuteChunk
      <4>1. chunks # <<>> /\ Head(chunks) \in Members(chunks)
        BY <3>1, Parts, Taking DEF ExecuteChunk
      <4>2. Head(chunks).req \in Members(running)
        BY <4>1 DEF EngineInv, LoopInv, ScheduledRuns, Scheduled
      <4> QED BY <3>1, <4>2 DEF ExecuteChunk
    <3>2. CASE DecodeWrite
      <4>1. pc = "batch" /\ Head(scan) \in Members(scan)
        BY <3>2, Parts, Taking DEF DecodeWrite
      <4>2. Head(scan) \in Members(running)
        BY <4>1 DEF EngineInv, LoopInv, ScanRuns
      <4> QED BY <3>2, <4>2 DEF DecodeWrite
    <3> QED BY <1>1, <3>1, <3>2
  <2>2. r \in Requests /\ r \notin Members(waiting) /\ Members(waiting) \subseteq Requests
    BY Parts
  <2>3. open' = open /\ \A x \in Seqs \ {r} : table'[x] = table[x] /\ text'[x] = text[x]
    BY <2>1, <2>2, ForwardTables DEF EngineInv
  <2> QED BY <2>1, <2>2, <2>3
<1>2. CASE RetirePublish
  BY <1>2 DEF RetirePublish, Publish, kvvars
<1> QED BY <1>1, <1>2

\* A sequence that waits is one that waited, with the KV it had.
StillWaits(x) ==
  x \in open /\ x \in Members(waiting) /\ table'[x] = table[x] /\ text'[x] = text[x]

\* A new KV takes whole blocks from the cache.
LEMMA OpensWhole ==
  ASSUME KVInv, NEW r \in Seqs, NEW p \in Prompts, Open(r, p)
  PROVE  Len(text'[r]) = Len(table'[r]) * BlockSize
<1>1. PICK k \in 0..Len(p) :
        /\ MatchIs(p, k)
        /\ table' = [table EXCEPT ![r] = [i \in 1..k |-> tree[Path(p, i)]]]
        /\ text' = [text EXCEPT ![r] = SubSeq(p, 1, k * BlockSize)]
  BY DEF Open
<1>2. /\ p \in Seq(Tokens) /\ Len(p) \in Nat /\ k \in Nat
      /\ k * BlockSize \in 0..(Len(p) - 1)
  BY <1>1, MatchBounds
<1>3. Len(text'[r]) = k * BlockSize
  <2>1. k * BlockSize \in 0..Len(p)
    BY <1>2
  <2>2. text'[r] = SubSeq(p, 1, k * BlockSize)
    BY <1>1 DEF KVInv, KVTypeOK
  <2> QED BY <1>2, <2>1, <2>2, Prefixes
<1>4. Len(table'[r]) = k
  <2>1. \A i \in 1..k : tree[Path(p, i)] \in Blocks
    BY <1>1 DEF MatchIs, KVInv, KVTypeOK
  <2> DEFINE hit == [i \in 1..k |-> tree[Path(p, i)]]
  <2>2. hit \in [1..k -> Blocks]
    BY <2>1
  <2>3. table'[r] = hit
    BY <1>1 DEF KVInv, KVTypeOK
  <2> HIDE DEF hit
  <2> QED BY <1>2, <2>2, <2>3, FunIsSeq
<1> QED BY <1>3, <1>4

\* A released sequence leaves the queues as it leaves the memory.
LEMMA HoldReleased ==
  ASSUME EngineInv, RunnersHold, NEW v \in Requests,
         IF v \in open THEN Release(v) ELSE UNCHANGED kvvars,
         Members(waiting') \subseteq Members(waiting) \cup {v},
         Members(running') \subseteq Members(running) \ {v}
  PROVE  /\ Members(running') \subseteq open'
         /\ \A x \in open' \cap Members(waiting') : StillWaits(x)
<1> USE DEF Requests
<1>1. open \subseteq Seqs
  BY DEF EngineInv, KVInv, KVTypeOK
<1>2. CASE v \in open
  <2>1. open' = open \ {v} /\ \A x \in Seqs \ {v} : KeptWhole(x)
    BY <1>2, ReleaseLeaves DEF EngineInv
  <2> QED BY <1>1, <2>1 DEF KeptWhole, StillWaits, RunnersHold
<1>3. CASE v \notin open
  BY <1>3 DEF kvvars, StillWaits, RunnersHold
<1> QED BY <1>2, <1>3

\* Every step but the opening of a KV.
LEMMA HoldStays ==
  ASSUME EngineInv, RunnersHold, [Next]_vars, ~AdmitOpen
  PROVE  /\ Members(running') \subseteq open'
         /\ \A x \in open' \cap Members(waiting') : StillWaits(x)
<1> USE DEF Requests
<1>1. CASE \/ BeginStep \/ DecodeScan \/ RoomMade \/ DecodeRetry \/ DecodesDone \/ PrefillScan
           \/ PrefillsDone \/ AdmitRefuse \/ AdmitDone \/ BreakStall \/ AdvanceHead \/ ProgressRetry
           \/ NothingToForce \/ BeginBatch \/ DecodeEmit \/ BeginRetire \/ RetireSkip \/ EndStep
           \/ UNCHANGED vars
  <2>1. Quiet /\ UNCHANGED queues
    BY <1>1, QuietSteps
  <2> QED BY <2>1 DEF Quiet, queues, StillWaits, RunnersHold
<1>2. CASE PreemptNewest
  <2>1. PICK i \in Victims : /\ Release(running[i]) /\ running' = Without(running, running[i])
                             /\ waiting' = <<running[i]>> \o waiting
    BY <1>2 DEF PreemptNewest
  <2>2. PICK v \in Requests : v = running[i] /\ v \in Members(running)
    BY <2>1, Parts DEF Victims, Members
  <2>3. Release(v) /\ waiting' = <<v>> \o waiting /\ running' = Without(running, v)
    BY <2>1, <2>2
  <2>4. Members(waiting') = Members(waiting) \cup {v}
    <3>1. waiting' \in Seq(Requests) /\ Before(waiting', waiting, v) /\ waiting \in Seq(Requests)
      BY <2>2, <2>3, Parts DEF Before
    <3> QED BY <2>2, <3>1, Prepended
  <2>5. Members(running') = Members(running) \ {v}
    BY <2>3, Parts, WithoutFacts
  <2>6. v \in open
    BY <2>3 DEF Release
  <2> QED BY <2>2, <2>3, <2>4, <2>5, <2>6, HoldReleased
<1>3. CASE CacheEviction
  <2>1. /\ open' = open /\ waiting' = waiting /\ running' = running
        /\ table' = table /\ text' = text
    BY <1>3 DEF CacheEviction, queues, EvictOne, EvictNoMore
  <2> QED BY <2>1 DEF StillWaits, RunnersHold
<1>4. CASE Admit
  <2>1. /\ UNCHANGED kvvars /\ Members(Tail(waiting)) \subseteq Members(waiting)
        /\ waiting' = Tail(waiting) /\ running' = Append(running, Head(waiting))
        /\ Head(waiting) \in open /\ Head(waiting) \in Requests
    BY <1>4, HeadWaits DEF Admit, MayAdmit
  <2>2. PICK r \in Requests : r = Head(waiting)
    BY <2>1
  <2>3. Members(running') = Members(running) \cup {r}
    <3>1. running' \in Seq(Requests) /\ Behind(running', running, r) /\ running \in Seq(Requests)
      BY <2>1, <2>2, Parts DEF Behind
    <3> QED BY <3>1, Appended
  <2> QED BY <2>1, <2>2, <2>3 DEF kvvars, StillWaits, RunnersHold
<1>5. CASE AdmitRollback
  <2>1. /\ Release(Head(waiting)) /\ UNCHANGED queues /\ Head(waiting) \in Requests
        /\ Head(waiting) \notin Members(running) /\ Head(waiting) \in open
    BY <1>5, HeadWaits DEF AdmitRollback, MayAdmit
  <2> QED BY <2>1, HoldReleased DEF queues
<1>6. CASE ExecuteChunk \/ DecodeWrite \/ RetirePublish
  BY <1>6, QueuesElsewhere DEF queues, StillWaits, RunnersHold
<1>7. CASE RetireRelease
  <2>1. /\ pc = "release" /\ waiting' = waiting /\ running' = Without(running, Head(scan))
        /\ IF Head(scan) \in open THEN Release(Head(scan)) ELSE UNCHANGED kvvars
    BY <1>7 DEF RetireRelease
  <2>2. PICK v \in Requests : v = Head(scan)
    BY <2>1, Parts, Taking DEF EngineInv, LoopInv, RunningLive
  <2>3. Members(running') = Members(running) \ {v}
    BY <2>1, <2>2, Parts, WithoutFacts
  <2> QED BY <2>1, <2>2, <2>3, HoldReleased
<1>8. CASE Clients
  <2>1. PICK r \in Requests : \/ \E p \in Prompts, m \in OutLimits : AddRequest(r, p, m)
                              \/ AbortRequest(r)
    BY <1>8 DEF Clients
  <2>2. CASE \E p \in Prompts, m \in OutLimits : AddRequest(r, p, m)
    <3>1. /\ pc = "idle" /\ state[r] \in Over \cup {"new"} /\ UNCHANGED kvvars
          /\ waiting' = Append(waiting, r) /\ running' = running
      BY <2>2 DEF AddRequest
    <3>2. r \notin open
      BY <3>1, Parts DEF EngineInv, LoopInv, RunningLive, Over
    <3>3. Members(waiting') = Members(waiting) \cup {r}
      <4>1. waiting' \in Seq(Requests) /\ Behind(waiting', waiting, r)
        BY <3>1, Parts DEF Behind
      <4> QED BY <4>1, Parts, Appended
    <3> QED BY <3>1, <3>2, <3>3 DEF kvvars, StillWaits, RunnersHold
  <2>3. CASE AbortRequest(r)
    <3>1. /\ waiting' = Without(waiting, r) /\ running' = Without(running, r)
          /\ IF r \in open THEN Release(r) ELSE UNCHANGED kvvars
      BY <2>3 DEF AbortRequest
    <3>2. Members(waiting') = Members(waiting) \ {r} /\ Members(running') = Members(running) \ {r}
      BY <3>1, Parts, WithoutFacts
    <3> QED BY <3>1, <3>2, HoldReleased
  <2> QED BY <2>1, <2>2, <2>3
<1> QED BY <1>1, <1>2, <1>3, <1>4, <1>5, <1>6, <1>7, <1>8
        DEF Next, EngineThread, Schedule, Execute

\* Every step: whoever runs has a KV, and the KV of whoever waits is whole.
LEMMA HoldSteps ==
  ASSUME EngineInv, RunnersHold, WaitersWhole, [Next]_vars
  PROVE  RunnersHold' /\ WaitersWhole'
<1> USE DEF Requests
<1>1. CASE ~AdmitOpen
  <2>1. /\ Members(running') \subseteq open'
        /\ \A x \in open' \cap Members(waiting') : StillWaits(x)
    BY <1>1, HoldStays
  <2>2. \A x \in open' \cap Members(waiting') : Len(text'[x]) = Len(table'[x]) * BlockSize
    BY <2>1 DEF StillWaits, WaitersWhole
  <2> QED BY <2>1, <2>2 DEF RunnersHold, WaitersWhole, Members
<1>2. CASE AdmitOpen
  <2>1. PICK r \in Requests : r = Head(waiting) /\ prompt[r] \in Prompts
    BY <1>2, HeadWaits DEF AdmitOpen, MayAdmit
  <2>2. Open(r, prompt[r]) /\ waiting' = waiting /\ running' = running
    BY <1>2, <2>1 DEF AdmitOpen, queues
  <2>3. /\ open' = open \cup {r} /\ \A x \in Seqs \ {r} : KeptWhole(x)
        /\ Len(text'[r]) = Len(table'[r]) * BlockSize
    BY <2>1, <2>2, OpenLeaves, OpensWhole DEF EngineInv
  <2>4. open \subseteq Seqs
    BY DEF EngineInv, KVInv, KVTypeOK
  <2>5. \A x \in open' \cap Members(waiting') : Len(text'[x]) = Len(table'[x]) * BlockSize
    BY <2>2, <2>3, <2>4 DEF KeptWhole, WaitersWhole
  <2> QED BY <2>2, <2>3, <2>5 DEF RunnersHold, WaitersWhole, Members
<1> QED BY <1>1, <1>2

\* The request has its prompt in the KV, or gets the last of it in this step.
Prefilled(r) == PrefillDone(r) \/ \E c \in Members(chunks) : c.req = r /\ c.final

\* All requests but the newest are past prefill.
NewestOnly == \A i, j \in DOMAIN running : i < j => Prefilled(running[i])

\* Whoever is still prefilling was given all the budget, or all the memory, that was left.
Stuck ==
  pc \in {"prefill", "admit"} =>
    \A r \in Members(running) :
      Prefilled(r) \/ (pc = "prefill" /\ r \in Members(scan)) \/ budget = 0 \/ Available <= 0

Hold == Settled /\ RunnersHold /\ WaitersWhole

\* The KV of a request at rest ends where its request stands, within its table.
LEMMA Standing ==
  ASSUME EngineInv, OwnText, pc # "batch", NEW r \in open
  PROVE  /\ r \in Requests /\ Len(text[r]) = computed[r] /\ computed[r] \in Nat
         /\ Len(table[r]) \in Nat /\ computed[r] <= Len(table[r]) * BlockSize
         /\ Len(table[r]) * BlockSize \in Nat
<1>1. r \in Requests /\ Len(text[r]) \in Nat /\ Len(table[r]) \in Nat /\ KVTypeOK
  <2>1. KVTypeOK
    BY DEF EngineInv, KVInv
  <2>2. r \in Seqs /\ text[r] \in Fed /\ table[r] \in Seq(Blocks)
    BY <2>1 DEF KVTypeOK
  <2> QED BY <2>1, <2>2 DEF Fed, Requests
<1>2. Len(text[r]) = computed[r]
  BY DEF OwnText, Ahead
<1>3. BlocksFor(Len(text[r])) <= Len(table[r])
  BY <1>1 DEF EngineInv, KVInv, TablesCover, Requests
<1>4. BlocksNeeded(r, Len(text[r])) <= 0
  <2> DEFINE lo == Len(table[r]) + 1
             B == BlocksFor(Len(text[r]))
  <2>1. lo \in Int /\ B \in Int /\ lo > B
    <3>1. B \in Nat /\ B <= Len(table[r])
      BY <1>1, <1>3, BlocksForType
    <3> HIDE DEF B
    <3> QED BY <1>1, <3>1
  <2>2. BlocksNeeded(r, Len(text[r])) = Cardinality(lo .. B)
    BY DEF BlocksNeeded, Missing
  <2> HIDE DEF lo, B
  <2> QED BY <2>1, <2>2, FS_Interval
<1>5. Len(text[r]) <= (Len(table[r]) + 0) * BlockSize
  <2>1. 0 \in Nat
    OBVIOUS
  <2> QED BY <1>1, <1>4, <2>1, FitsCapacity
<1>6. Len(table[r]) + 0 = Len(table[r]) /\ Len(table[r]) * BlockSize \in Nat
  BY <1>1, KVAssumption
<1> QED BY <1>1, <1>2, <1>5, <1>6

\* A waiting request with a KV needs a block for its next token.
LEMMA WaitersNeed ==
  ASSUME EngineInv, OwnText, WaitersWhole, pc # "batch", NEW r \in open, r \in Members(waiting)
  PROVE  NextNeed(r) # 0
<1>1. /\ r \in Requests /\ computed[r] = Len(table[r]) * BlockSize /\ computed[r] \in Nat
      /\ Len(table[r]) \in Nat
  BY Standing DEF WaitersWhole
<1>2. KVTypeOK /\ computed[r] + 1 \in Nat /\ BlocksNeeded(r, computed[r] + 1) \in Nat
  <2>1. computed[r] + 1 \in Nat
    BY <1>1
  <2> QED BY <1>1, <2>1, Counts DEF EngineInv, KVInv
<1>3. BlocksNeeded(r, computed[r] + 1) <= 0 => computed[r] + 1 <= (Len(table[r]) + 0) * BlockSize
  <2>1. 0 \in Nat
    OBVIOUS
  <2> QED BY <1>1, <1>2, <2>1, FitsCapacity
<1>4. Len(table[r]) + 0 = Len(table[r])
  BY <1>1
<1>5. BlocksNeeded(r, computed[r] + 1) # 0
  BY <1>1, <1>2, <1>3, <1>4
<1> QED BY <1>5 DEF NextNeed

\* The blocks that fill the whole capacity left are all that is available.
LEMMA FullCapacity ==
  ASSUME KVTypeOK, NEW r \in Requests, NEW k \in Nat \ {0}
  PROVE  LET n == (Len(table[r]) + k) * BlockSize
         IN  /\ n \in Nat /\ Len(table[r]) * BlockSize < n
             /\ BlocksNeeded(r, n) \in Nat => BlocksNeeded(r, n) >= k
<1> DEFINE m == Len(table[r])
           n == (m + k) * BlockSize
<1>1. m \in Nat /\ BlockSize \in Nat \ {0} /\ k - 1 \in Nat
  BY KVAssumption DEF KVTypeOK, Requests
<1>2. n = (m + (k - 1)) * BlockSize + BlockSize
  <2>1. m + k = (m + (k - 1)) + 1
    BY <1>1
  <2> DEFINE a == m + (k - 1)
  <2>2. a \in Nat
    BY <1>1
  <2> HIDE DEF a
  <2>3. (a + 1) * BlockSize = a * BlockSize + BlockSize
    BY <1>1, <2>2
  <2> QED BY <2>1, <2>3 DEF a
<1>3. m * BlockSize \in Nat /\ (m + (k - 1)) * BlockSize \in Nat
      /\ m * BlockSize <= (m + (k - 1)) * BlockSize
  <2>1. \A a, b \in Nat : a * BlockSize \in Nat /\ a * BlockSize <= (a + b) * BlockSize
    BY <1>1
  <2>2. m + (k - 1) \in Nat
    BY <1>1
  <2> QED BY <1>1, <2>1, <2>2
<1>4. n \in Nat /\ m * BlockSize < n /\ (m + (k - 1)) * BlockSize < n
  BY <1>1, <1>2, <1>3
<1>5. ASSUME BlocksNeeded(r, n) \in Nat PROVE BlocksNeeded(r, n) >= k
  <2> SUFFICES ASSUME BlocksNeeded(r, n) <= k - 1 PROVE FALSE
    BY <1>1, <1>5
  <2>1. n <= (m + (k - 1)) * BlockSize
    <3> HIDE DEF n
    <3> QED BY <1>1, <1>4, FitsCapacity DEF m
  <2> QED BY <1>3, <1>4, <2>1
<1> QED BY <1>4, <1>5

\* A chunk finishes the prompt, or takes all the budget or all the memory there is; none is
\* taken only when there is no memory.
LEMMA ChunkExhausts ==
  ASSUME EngineInv, OwnText, pc # "batch", NEW r \in open, chunked = TRUE, budget > 0,
         ~PrefillDone(r)
  PROVE  /\ Take(r) = 0 => Available <= 0
         /\ \/ computed[r] + Take(r) >= Target(r)
            \/ budget - Take(r) = 0
            \/ Available - BlocksNeeded(r, computed[r] + Take(r)) <= 0
<1> DEFINE k == Max2(0, Available)
           want == Want(r)
           cap == (Len(table[r]) + k) * BlockSize
<1>1. /\ r \in Requests /\ computed[r] \in Nat /\ Len(table[r]) * BlockSize \in Nat
      /\ computed[r] <= Len(table[r]) * BlockSize
  BY Standing
<1>2. budget \in Nat /\ Available \in Int /\ Target(r) \in Nat /\ KVTypeOK
      /\ computed[r] < Target(r)
  <2>1. budget \in Nat /\ Available \in Int /\ Target(r) \in Nat /\ KVTypeOK
    BY <1>1, Parts, Counts, Lengths DEF EngineInv, StepTypes, KVInv
  <2> QED BY <1>1, <2>1 DEF PrefillDone
<1>3. want \in Nat \ {0} /\ (want = budget \/ computed[r] + want = Target(r))
  BY <1>1, <1>2 DEF Want, Remaining, Max2, Min2
<1>4. /\ Take(r) \in Nat /\ BlocksNeeded(r, computed[r] + Take(r)) \in Nat
      /\ Take(r) = IF BlocksNeeded(r, computed[r] + want) > Available
                   THEN Max2(0, Min2(want, cap - computed[r])) ELSE want
  <2>1. Take(r) \in Nat /\ BlocksNeeded(r, computed[r] + Take(r)) \in Nat
    BY <1>1, TakeBounds DEF EngineInv
  <2> QED BY <2>1 DEF Take
<1> HIDE DEF want
<1>5. CASE Available <= 0
  <2>1. Available - BlocksNeeded(r, computed[r] + Take(r)) <= 0
    BY <1>2, <1>4, <1>5
  <2> QED BY <1>5, <2>1
<1>6. CASE ~(Available <= 0) /\ ~(BlocksNeeded(r, computed[r] + want) > Available)
  <2>1. Take(r) = want
    BY <1>4, <1>6
  <2> QED BY <1>1, <1>2, <1>3, <2>1
<1>7. CASE ~(Available <= 0) /\ BlocksNeeded(r, computed[r] + want) > Available
  <2>1. k = Available /\ k \in Nat \ {0}
    BY <1>2, <1>7 DEF Max2
  <2> HIDE DEF k
  <2>2. /\ cap \in Nat /\ Len(table[r]) * BlockSize < cap
        /\ BlocksNeeded(r, cap) \in Nat => BlocksNeeded(r, cap) >= k
    BY <1>1, <1>2, <2>1, FullCapacity
  <2>3. cap < computed[r] + want
    <3>1. computed[r] + want \in Nat /\ BlocksNeeded(r, computed[r] + want) \in Nat
      <4>1. computed[r] + want \in Nat
        BY <1>1, <1>3
      <4> HIDE DEF k
      <4> QED BY <1>1, <4>1, Counts DEF EngineInv
    <3>2. computed[r] + want <= cap => BlocksNeeded(r, computed[r] + want) <= k
      BY <1>1, <1>2, <2>1, <3>1, CapacityFits
    <3> HIDE DEF cap
    <3> QED BY <1>2, <1>7, <2>1, <2>2, <3>1, <3>2
  <2> HIDE DEF cap
  <2>4. Take(r) = cap - computed[r] /\ Take(r) # 0 /\ computed[r] + Take(r) = cap
    BY <1>1, <1>3, <1>4, <1>7, <2>2, <2>3 DEF Max2, Min2
  <2>5. Available - BlocksNeeded(r, computed[r] + Take(r)) <= 0
    BY <1>2, <1>4, <2>1, <2>2, <2>4
  <2> QED BY <2>4, <2>5
<1> QED BY <1>5, <1>6, <1>7

\* A request past prefill stays so while its chunks stay planned.
LEMMA PrefilledStays ==
  ASSUME NEW x, Prefilled(x), computed'[x] = computed[x], prompt'[x] = prompt[x],
         out'[x] = out[x], Members(chunks) \subseteq Members(chunks')
  PROVE  Prefilled(x)'
<1>1. PrefillDone(x)' = PrefillDone(x) /\ Members(chunks)' = Members(chunks')
  BY DEF PrefillDone, Target, Members
<1> QED BY <1>1 DEF Prefilled

\* Nobody new is asked about, and nothing is given back.
LEMMA StuckStays ==
  ASSUME EngineInv, Stuck, pc \in {"prefill", "admit"}, pc' \in {"prefill", "admit"},
         running' = running, budget' = budget, NumFree' = NumFree, reserved' = reserved,
         UNCHANGED <<prompt, out, chunks>>,
         \A x \in Members(running) : computed'[x] = computed[x],
         \A x \in Members(running) :
           (pc = "prefill" /\ x \in Members(scan)) =>
              \/ Prefilled(x) \/ budget = 0 \/ Available <= 0
              \/ pc' = "prefill" /\ x \in Members(scan')
  PROVE  Stuck'
<1>1. Members(running)' = Members(running) /\ Members(scan)' = Members(scan')
  BY DEF Members
<1>2. Available' = Available
  BY DEF Available, Headroom
<1>3. \A x \in Members(running) : Prefilled(x) => Prefilled(x)'
  BY PrefilledStays
<1>4. ASSUME NEW x \in Members(running)
      PROVE  \/ Prefilled(x)' \/ (pc' = "prefill" /\ x \in Members(scan'))
             \/ budget' = 0 \/ Available' <= 0
  BY <1>2, <1>3 DEF Stuck
<1> QED BY <1>1, <1>4 DEF Stuck

\* One more chunk: its request is through, or takes what is left; the others stay as they were.
LEMMA StuckChunk ==
  ASSUME EngineInv, OwnText, pc \in {"prefill", "admit"}, pc' = pc, chunked = TRUE, budget > 0,
         NEW r \in open, ~PrefillDone(r), Take(r) # 0, ScheduleChunk(r), NumFree' = NumFree,
         UNCHANGED <<prompt, out, computed>>, Members(running') \subseteq Members(running) \cup {r},
         \A x \in Members(running) \ {r} :
           Prefilled(x) \/ Available <= 0 \/ (pc = "prefill" /\ x \in Members(scan'))
  PROVE  Stuck'
<1> DEFINE c == [req |-> r, start |-> computed[r], take |-> Take(r),
                 final |-> computed[r] + Take(r) >= Target(r)]
           cost == BlocksNeeded(r, computed[r] + Take(r))
<1>1. /\ r \in Requests /\ Take(r) \in Nat /\ cost \in Nat /\ computed[r] \in Nat
      /\ budget \in Nat /\ reserved \in Nat /\ NumFree \in Nat /\ Headroom \in Int
      /\ Available \in Int /\ chunks \in Seq(PrefillChunk)
  <2>1. r \in Requests
    BY Standing
  <2> QED BY <2>1, Parts, Counts, TakeBounds DEF EngineInv, StepTypes
<1>2. /\ chunks' = Append(chunks, c) /\ reserved' = reserved + cost /\ budget' = budget - Take(r)
  BY DEF ScheduleChunk
<1>3. c \in PrefillChunk /\ c.req = r /\ c.final = (computed[r] + Take(r) >= Target(r))
  BY <1>1 DEF PrefillChunk
<1> HIDE DEF c, cost
<1>4. Members(chunks') = Members(chunks) \cup {c}
  <2>1. chunks' \in Seq(PrefillChunk) /\ Behind(chunks', chunks, c)
    BY <1>1, <1>2, <1>3 DEF Behind
  <2> QED BY <1>1, <1>3, <2>1, Appended
<1>5. Available' = Available - cost
  <2>1. Headroom' = Headroom
    BY DEF Headroom
  <2>2. Available' = Headroom - (reserved + cost) /\ Available = Headroom - reserved
    BY <1>2, <2>1 DEF Available
  <2> QED BY <1>1, <2>2
<1>6. Available <= 0 => Available' <= 0
  BY <1>1, <1>5
<1>7. /\ Members(running)' = Members(running') /\ Members(scan)' = Members(scan')
      /\ Members(chunks)' = Members(chunks')
  BY DEF Members
<1>8. Prefilled(r)' \/ budget' = 0 \/ Available' <= 0
  <2>1. \/ computed[r] + Take(r) >= Target(r) \/ budget - Take(r) = 0 \/ Available - cost <= 0
    BY ChunkExhausts DEF cost
  <2>2. computed[r] + Take(r) >= Target(r) => Prefilled(r)'
    BY <1>3, <1>4, <1>7 DEF Prefilled
  <2> QED BY <1>2, <1>5, <2>1, <2>2
<1>9. ASSUME NEW x \in Members(running) \ {r}
      PROVE  Prefilled(x)' \/ Available' <= 0 \/ (pc' = "prefill" /\ x \in Members(scan'))
  <2>1. Prefilled(x) => Prefilled(x)'
    BY <1>4, PrefilledStays
  <2> QED BY <1>6, <2>1
<1>10. ASSUME NEW x \in Members(running')
       PROVE  \/ Prefilled(x)' \/ (pc' = "prefill" /\ x \in Members(scan'))
              \/ budget' = 0 \/ Available' <= 0
  BY <1>8, <1>9
<1> QED BY <1>7, <1>10 DEF Stuck

\* Stages 2 and 3 give out budget and memory in the order of the line.
LEMMA StuckSteps ==
  ASSUME EngineInv, OwnText, Hold, Stuck, chunked = TRUE, [Next]_vars
  PROVE  Stuck'
<1>1. CASE pc' \notin {"prefill", "admit"}
  BY <1>1 DEF Stuck
<1>2. CASE DecodesDone
  <2>1. pc' = "prefill" /\ scan' = running /\ running' = running
    BY <1>2 DEF DecodesDone, queues
  <2>2. Members(running') = Members(scan')
    BY <2>1
  <2> QED BY <2>1, <2>2 DEF Stuck, Members
<1>3. CASE PrefillScan
  <2>1. /\ pc = "prefill" /\ pc' = "prefill" /\ scan # <<>> /\ budget > 0
        /\ UNCHANGED <<free, prompt, out, computed, running>>
    BY <1>3 DEF PrefillScan, kvvars, reqvars, queues
  <2>2. PICK r \in Requests : /\ r = Head(scan) /\ Members(scan) = Members(Tail(scan)) \cup {r}
                              /\ Distinct(scan) => r \notin Members(Tail(scan))
    BY <2>1, Parts, Taking
  <2>3. NumFree' = NumFree /\ budget # 0
    BY <2>1, Parts DEF NumFree, StepTypes
  <2>4. r \in Members(running) => r \in open /\ state[r] # "preempted"
    BY <2>2, Parts DEF Hold, RunnersHold
  <2>5. scan' = Tail(scan)
    BY <1>3 DEF PrefillScan, Skip
  <2>6. CASE PrefillDone(r) \/ state[r] = "preempted" \/ Take(r) = 0
    <3>1. UNCHANGED <<budget, reserved, chunks>>
      BY <1>3, <2>2, <2>6 DEF PrefillScan, Skip
    <3>2. r \in Members(running) => Prefilled(r) \/ Available <= 0
      <4> SUFFICES ASSUME r \in Members(running), ~PrefillDone(r) PROVE Available <= 0
        BY DEF Prefilled
      <4>1. r \in open /\ Take(r) = 0
        BY <2>4, <2>6
      <4> QED BY <2>1, <4>1, ChunkExhausts
    <3> QED BY <2>1, <2>2, <2>3, <2>5, <3>1, <3>2, StuckStays
  <2>7. CASE ~(PrefillDone(r) \/ state[r] = "preempted" \/ Take(r) = 0)
    <3>1. ScheduleChunk(r) /\ UNCHANGED decodes
      BY <1>3, <2>2, <2>7 DEF PrefillScan
    <3>2. r \in Members(running)
      <4>1. r \in Members(scan)
        BY <2>2
      <4> QED BY <2>1, <2>7, <4>1 DEF EngineInv, LoopInv, ScanRuns
    <3>3. \A x \in Members(running) \ {r} :
            Prefilled(x) \/ Available <= 0 \/ (pc = "prefill" /\ x \in Members(scan'))
      BY <2>1, <2>2, <2>3, <2>5 DEF Stuck
    <3> QED BY <2>1, <2>3, <2>4, <2>7, <3>1, <3>2, <3>3, StuckChunk
  <2> QED BY <2>6, <2>7
<1>4. CASE PrefillsDone
  <2>1. /\ pc = "prefill" /\ pc' = "admit" /\ (scan = <<>> \/ budget <= 0)
        /\ UNCHANGED <<free, reserved, budget, prompt, out, computed, running, chunks>>
    BY <1>4 DEF PrefillsDone, kvvars, reqvars, queues
  <2>2. NumFree' = NumFree /\ (budget <= 0 => budget = 0) /\ Members(<<>>) = {}
    BY <2>1, Parts DEF NumFree, StepTypes, Members
  <2>3. \A x \in Members(running) : x \in Members(scan) => budget = 0
    BY <2>1, <2>2
  <2> QED BY <2>1, <2>2, <2>3, StuckStays
<1>5. CASE AdmitOpen
  <2>1. PICK r \in Requests : /\ r = Head(waiting) /\ prompt[r] \in Prompts
                              /\ r \notin Members(running)
    BY <1>5, HeadWaits DEF AdmitOpen, MayAdmit
  <2>2. /\ Open(r, prompt[r]) /\ \E n : computed' = [computed EXCEPT ![r] = n]
        /\ pc = "admit" /\ pc' = "admit"
        /\ UNCHANGED <<running, budget, reserved, chunks, prompt, out>>
    BY <1>5, <2>1 DEF AdmitOpen, queues, locals
  <2>3. NumFree' = NumFree
    BY <2>2 DEF Open, NumFree
  <2>4. \A x \in Members(running) : computed'[x] = computed[x]
    BY <2>1, <2>2, Parts DEF RequestTypes
  <2> QED BY <2>2, <2>3, <2>4, StuckStays
<1>6. CASE Admit
  <2>1. PICK r \in Requests :
          r = Head(waiting) /\ r \in Members(waiting) /\ r \notin Members(running)
    BY <1>6, HeadWaits DEF Admit, MayAdmit
  <2>2. /\ r \in open /\ NextNeed(r) <= Available /\ Take(r) > 0 /\ ScheduleChunk(r)
        /\ running' = Append(running, r) /\ pc = "admit" /\ pc' = "admit" /\ budget > 0
        /\ UNCHANGED <<free, prompt, out, computed>>
    BY <1>6, <2>1 DEF Admit, MayAdmit, kvvars
  <2>3. Available \in Int /\ NextNeed(r) \in Nat /\ Take(r) \in Nat /\ budget \in Nat
    BY Parts, Counts, TakeBounds DEF EngineInv, StepTypes
  <2>4. NextNeed(r) # 0
    BY <2>1, <2>2, WaitersNeed DEF Hold
  <2>5. Take(r) # 0 /\ budget # 0 /\ ~(Available <= 0) /\ NumFree' = NumFree
    BY <2>2, <2>3, <2>4 DEF NumFree
  <2>6. ~PrefillDone(r)
    <3>1. Take(r) # 0 => computed[r] + Take(r) <= Target(r)
      BY TakeBounds DEF EngineInv
    <3>2. computed[r] \in Nat /\ Target(r) \in Nat
      BY Parts, Lengths DEF EngineInv, RequestTypes
    <3> QED BY <2>3, <2>5, <3>1, <3>2 DEF PrefillDone
  <2>7. Members(running') = Members(running) \cup {r}
    <3>1. running' \in Seq(Requests) /\ Behind(running', running, r) /\ running \in Seq(Requests)
      BY <2>2, Parts DEF Behind
    <3> QED BY <3>1, Appended
  <2>8. \A x \in Members(running) \ {r} :
            Prefilled(x) \/ Available <= 0 \/ (pc = "prefill" /\ x \in Members(scan'))
    BY <2>2, <2>5 DEF Stuck
  <2> QED BY <2>2, <2>5, <2>6, <2>7, <2>8, StuckChunk
<1>7. CASE CacheEviction
  <2>1. pc' = pc /\ toEvict > 0
    BY <1>7 DEF CacheEviction, EvictOne, EvictNoMore
  <2>2. ~(0 > 0)
    OBVIOUS
  <2>3. pc \notin {"prefill", "admit"}
    BY <2>1, <2>2 DEF Hold, Settled
  <2> QED BY <2>1, <2>3 DEF Stuck
<1>8. CASE UNCHANGED vars
  <2>1. /\ pc' = pc /\ scan' = scan
        /\ UNCHANGED <<free, running, budget, reserved, chunks, prompt, out, computed>>
    BY <1>8 DEF vars, kvvars, reqvars, queues, locals
  <2>2. NumFree' = NumFree
    BY <2>1 DEF NumFree
  <2> QED BY <1>1, <2>1, <2>2, StuckStays
<1>9. \/ DecodesDone \/ PrefillScan \/ PrefillsDone \/ AdmitOpen \/ Admit \/ CacheEviction
      \/ UNCHANGED vars \/ pc' \notin {"prefill", "admit"}
  <2>1. CASE \/ BeginStep \/ DecodeScan \/ PreemptNewest \/ RoomMade \/ DecodeRetry \/ AdmitRefuse
             \/ AdmitRollback \/ AdmitDone \/ BreakStall \/ AdvanceHead \/ ProgressRetry
             \/ NothingToForce
    BY <2>1 DEF BeginStep, DecodeScan, PreemptNewest, RoomMade, RoomRetry, DecodeRetry, AdmitRefuse,
                AdmitRollback, AdmitDone, BreakStall, AdvanceHead, ProgressRetry, NothingToForce,
                MakeRoom
  <2>2. CASE Execute
    BY <2>2 DEF Execute, ExecuteChunk, OrCrash, BeginBatch, DecodeWrite, DecodeEmit, BeginRetire,
                RetireSkip, RetirePublish, RetireRelease, EndStep
  <2>3. CASE Clients
    BY <2>3 DEF Clients, AddRequest, AbortRequest
  <2> QED BY <2>1, <2>2, <2>3 DEF Next, EngineThread, Schedule
<1> QED BY <1>1, <1>2, <1>3, <1>4, <1>5, <1>6, <1>7, <1>8, <1>9

\* The line loses at most one request, and whoever was past prefill still is.
LEMMA NewestStays ==
  ASSUME EngineInv, NewestOnly,
         running' = running \/ \E v : running' = Without(running, v),
         \A x \in Members(running) : x \in Members(running') => (Prefilled(x) => Prefilled(x)')
  PROVE  NewestOnly'
<1>1. running \in Seq(Requests)
  BY Parts
<1>2. \A i, j \in DOMAIN running' : i < j =>
        \E k, m \in DOMAIN running : k < m /\ running[k] = running'[i]
  <2>1. CASE running' = running
    BY <2>1
  <2>2. CASE \E v : running' = Without(running, v)
    <3>1. PICK v : running' = Without(running, v)
      BY <2>2
    <3> QED BY <1>1, <3>1, KeepingOrder DEF Without
  <2> QED BY <2>1, <2>2
<1>3. ASSUME NEW i \in DOMAIN running', NEW j \in DOMAIN running', i < j
      PROVE  \E x \in Members(running) : x = running'[i] /\ Prefilled(x)'
  <2>1. PICK k, m \in DOMAIN running : k < m /\ running[k] = running'[i]
    BY <1>2, <1>3
  <2>2. Prefilled(running[k]) /\ running[k] \in Members(running)
    BY <2>1 DEF NewestOnly, Members
  <2>3. running'[i] \in Members(running')
    BY DEF Members
  <2>4. PICK x \in Members(running) : x = running[k] /\ Prefilled(x) /\ x \in Members(running')
    BY <2>1, <2>2, <2>3
  <2>5. Prefilled(x)' /\ x = running'[i]
    BY <2>1, <2>4
  <2> QED BY <2>5
<1> QED BY <1>3 DEF NewestOnly, Prefilled, PrefillDone, Target

\* The steps that leave the work of who still runs as it is.
LEMMA NewestKept ==
  ASSUME EngineInv, NewestOnly, [Next]_vars, ~Admit, ~ExecuteChunk, ~DecodeEmit
  PROVE  NewestOnly'
<1>1. CASE \/ BeginStep \/ DecodeScan \/ RoomMade \/ DecodeRetry \/ DecodesDone \/ PrefillScan
           \/ PrefillsDone \/ AdmitRefuse \/ AdmitDone \/ BreakStall \/ AdvanceHead \/ ProgressRetry
           \/ NothingToForce \/ CacheEviction \/ BeginBatch \/ DecodeWrite \/ BeginRetire
           \/ RetireSkip \/ RetirePublish \/ EndStep \/ AdmitRollback \/ UNCHANGED vars
  <2>1. /\ UNCHANGED <<running, computed, prompt, out>>
        /\ chunks' = chunks \/ \E c : chunks' = Append(chunks, c) /\ PrefillScan
    <3>1. CASE PrefillScan
      BY <3>1 DEF PrefillScan, Skip, ScheduleChunk, reqvars, queues
    <3>2. CASE DecodeScan \/ DecodeRetry
      BY <3>2 DEF DecodeScan, DecodeRetry, Skip, ScheduleDecode, reqvars, queues
    <3>3. CASE \/ BeginStep \/ RoomMade \/ DecodesDone \/ PrefillsDone \/ AdmitRefuse \/ AdmitDone
               \/ BreakStall \/ AdvanceHead \/ ProgressRetry \/ NothingToForce \/ CacheEviction
      BY <3>3 DEF BeginStep, RoomMade, DecodesDone, PrefillsDone, AdmitRefuse, AdmitDone,
                  BreakStall,
                  AdvanceHead, ProgressRetry, NothingToForce, CacheEviction, reqvars, queues, locals
    <3>4. CASE \/ BeginBatch \/ DecodeWrite \/ BeginRetire \/ RetireSkip \/ RetirePublish \/ EndStep
               \/ AdmitRollback \/ UNCHANGED vars
      BY <3>4 DEF BeginBatch, DecodeWrite, BeginRetire, RetireSkip, RetirePublish, EndStep,
                  AdmitRollback, vars, reqvars, queues, locals
    <3> QED BY <1>1, <3>1, <3>2, <3>3, <3>4
  <2>2. Members(chunks) \subseteq Members(chunks')
    <3>1. chunks \in Seq(PrefillChunk)
      BY Parts
    <3>2. ASSUME NEW c, chunks' = Append(chunks, c) PROVE Members(chunks) \subseteq Members(chunks')
      <4>1. \A i \in DOMAIN chunks : i \in DOMAIN chunks' /\ chunks'[i] = chunks[i]
        BY <3>1, <3>2
      <4> QED BY <4>1 DEF Members
    <3> QED BY <2>1, <3>2
  <2> QED BY <2>1, <2>2, NewestStays, PrefilledStays
<1>2. CASE PreemptNewest
  <2>1. PICK i \in Victims :
          /\ running' = Without(running, running[i])
          /\ computed' = [computed EXCEPT ![running[i]] = 0] /\ UNCHANGED <<prompt, out, chunks>>
    BY <1>2 DEF PreemptNewest, locals
  <2>2. PICK v \in Requests : v = running[i]
    BY <2>1, Parts DEF Victims, Members
  <2>3. \A x \in Requests \ {v} : computed'[x] = computed[x]
    BY <2>1, <2>2, Parts DEF RequestTypes
  <2>4. Members(running') = Members(running) \ {v} /\ Members(running) \subseteq Requests
    BY <2>1, <2>2, Parts, WithoutFacts
  <2>5. \A x \in Members(running) : x \in Members(running') => (Prefilled(x) => Prefilled(x)')
    BY <2>1, <2>3, <2>4, PrefilledStays
  <2> QED BY <2>1, <2>5, NewestStays
<1>3. CASE AdmitOpen
  <2>1. PICK r \in Requests : r = Head(waiting) /\ r \notin Members(running)
    BY <1>3, HeadWaits DEF AdmitOpen, MayAdmit
  <2>2. /\ \E n : computed' = [computed EXCEPT ![r] = n] /\ running' = running
        /\ UNCHANGED <<prompt, out, chunks>>
    BY <1>3, <2>1 DEF AdmitOpen, queues, locals
  <2>3. \A x \in Members(running) : computed'[x] = computed[x]
    BY <2>1, <2>2, Parts DEF RequestTypes
  <2> QED BY <2>2, <2>3, NewestStays, PrefilledStays
<1>4. CASE RetireRelease
  <2>1. /\ running' = Without(running, Head(scan))
        /\ UNCHANGED <<computed, prompt, out, chunks>>
    BY <1>4 DEF RetireRelease, reqvars
  <2> QED BY <2>1, NewestStays, PrefilledStays
<1>5. CASE Clients
  <2>1. PICK r \in Requests : \/ \E p \in Prompts, m \in OutLimits : AddRequest(r, p, m)
                              \/ AbortRequest(r)
    BY <1>5 DEF Clients
  <2>2. CASE \E p \in Prompts, m \in OutLimits : AddRequest(r, p, m)
    <3>1. /\ pc = "idle" /\ state[r] \in Over \cup {"new"} /\ running' = running
          /\ chunks' = chunks /\ computed' = [computed EXCEPT ![r] = 0]
          /\ out' = [out EXCEPT ![r] = <<>>] /\ \E p : prompt' = [prompt EXCEPT ![r] = p]
      BY <2>2 DEF AddRequest, locals
    <3>2. r \notin Members(running)
      BY <3>1 DEF EngineInv, LoopInv, RunningLive
    <3>3. \A x \in Members(running) :
            computed'[x] = computed[x] /\ out'[x] = out[x] /\ prompt'[x] = prompt[x]
      BY <3>1, <3>2, Parts DEF RequestTypes
    <3> QED BY <3>1, <3>3, NewestStays, PrefilledStays
  <2>3. CASE AbortRequest(r)
    <3>1. running' = Without(running, r) /\ UNCHANGED <<computed, prompt, out, chunks>>
      BY <2>3 DEF AbortRequest, locals
    <3> QED BY <3>1, NewestStays, PrefilledStays
  <2> QED BY <2>1, <2>2, <2>3
<1> QED BY <1>1, <1>2, <1>3, <1>4, <1>5 DEF Next, EngineThread, Schedule, Execute

\* Nobody is admitted behind a request that is still prefilling.
LEMMA NewestAdmitted ==
  ASSUME EngineInv, OwnText, Hold, NewestOnly, Stuck, Admit
  PROVE  NewestOnly'
<1>1. PICK r \in Requests : r = Head(waiting) /\ r \in Members(waiting)
  BY HeadWaits DEF Admit, MayAdmit
<1>2. /\ r \in open /\ NextNeed(r) <= Available /\ pc = "admit" /\ budget > 0
      /\ running' = Append(running, r) /\ ScheduleChunk(r) /\ UNCHANGED <<prompt, out, computed>>
  BY <1>1 DEF Admit, MayAdmit
<1>3. \A x \in Members(running) : Prefilled(x)
  <2>1. Available \in Int /\ NextNeed(r) \in Nat /\ budget \in Nat
    BY Parts, Counts DEF EngineInv, StepTypes
  <2>2. NextNeed(r) # 0
    BY <1>1, <1>2, WaitersNeed DEF Hold
  <2>3. budget # 0 /\ ~(Available <= 0)
    BY <1>2, <2>1, <2>2
  <2> QED BY <1>2, <2>3 DEF Stuck
<1>4. Members(chunks) \subseteq Members(chunks')
  <2>1. chunks \in Seq(PrefillChunk) /\ \E c : chunks' = Append(chunks, c)
    BY <1>2, Parts DEF ScheduleChunk
  <2>2. \A i \in DOMAIN chunks : i \in DOMAIN chunks' /\ chunks'[i] = chunks[i]
    BY <2>1
  <2> QED BY <2>2 DEF Members
<1>5. ASSUME NEW i \in DOMAIN running', NEW j \in DOMAIN running', i < j
      PROVE  \E x \in Members(running) : x = running'[i] /\ Prefilled(x)'
  <2>1. i \in DOMAIN running /\ running'[i] = running[i]
    <3>1. running \in Seq(Requests) /\ running' = Append(running, r)
      BY <1>2, Parts
    <3> QED BY <1>5, <3>1
  <2>2. PICK x \in Members(running) : x = running'[i]
    BY <2>1 DEF Members
  <2>3. Prefilled(x)'
    BY <1>2, <1>3, <1>4, PrefilledStays
  <2> QED BY <2>2, <2>3
<1> QED BY <1>5 DEF NewestOnly, Prefilled, PrefillDone, Target

\* Executing the last chunk of a request completes its prefill, others are not concerned.
LEMMA NewestExecuted ==
  ASSUME EngineInv, EngineInv', Plan, NewestOnly, ExecuteChunk, pc' # "crashed"
  PROVE  NewestOnly'
<1>1. PICK c \in Members(chunks) :
        /\ c = Head(chunks) /\ \A d \in Members(chunks) : d = c \/ d \in Members(Tail(chunks))
        /\ \A d \in Members(Tail(chunks)) : d.req # c.req
  <2>1. chunks # <<>> /\ chunks \in Seq(PrefillChunk) /\ Apart(chunks)
    BY Parts DEF ExecuteChunk, Plan, OneVisit
  <2> QED BY <2>1, Taking, ChunkTaken
<1>2. /\ c.req \in Requests /\ c.start = computed[c.req] /\ c.take \in Nat \ {0}
      /\ c.start \in Nat /\ c.start + c.take <= Target(c.req)
      /\ c.final => c.start + c.take = Target(c.req)
  BY ChunkBehind
<1>3. PICK r \in Requests : r = c.req
  BY <1>2
<1>4. ~Raised(r)
  BY <1>1, <1>3 DEF ExecuteChunk, OrCrash
<1>5. /\ computed' = [computed EXCEPT ![r] = c.start + c.take] /\ running' = running
      /\ prompt' = prompt /\ chunks' = Tail(chunks)
      /\ IF c.final
         THEN IF out[r] = <<>> THEN \E t \in OutTokens : Emit(r, t, "running") ELSE out' = out
         ELSE out' = out
  BY <1>1, <1>3, <1>4 DEF ExecuteChunk, queues
<1>6. \/ out' = out
      \/ c.final /\ out[r] = <<>> /\ \E t \in OutTokens : out' = [out EXCEPT ![r] = <<t>>]
  <2>1. CASE c.final /\ out[r] = <<>>
    <3>1. PICK t \in OutTokens : out' = [out EXCEPT ![r] = Append(@, t)]
      BY <1>5, <2>1 DEF Emit
    <3>2. Append(out[r], t) = <<t>>
      BY <2>1
    <3>3. out' = [out EXCEPT ![r] = <<t>>]
      BY <1>3, <3>1, <3>2, Parts DEF RequestTypes
    <3> QED BY <2>1, <3>3
  <2> QED BY <1>5, <2>1
<1>7. ASSUME NEW x \in Members(running), x # r, Prefilled(x) PROVE Prefilled(x)'
  <2>1. x \in Requests
    BY Parts
  <2>2. computed'[x] = computed[x] /\ out'[x] = out[x]
    BY <1>3, <1>5, <1>6, <1>7, <2>1, Parts DEF RequestTypes
  <2>3. PrefillDone(x)' = PrefillDone(x)
    BY <1>5, <2>2 DEF PrefillDone, Target
  <2>4. \A d \in Members(chunks) : d.req = x => d \in Members(chunks')
    BY <1>1, <1>3, <1>5, <1>7
  <2>5. Members(chunks)' = Members(chunks')
    BY DEF Members
  <2> QED BY <1>7, <2>3, <2>4, <2>5 DEF Prefilled
<1>8. ASSUME Prefilled(r) PROVE Prefilled(r)'
  <2>1. computed[r] < Target(r) /\ Target(r) \in Nat
    BY <1>2, <1>3, Lengths DEF EngineInv
  <2>2. c.final
    <3>1. ~PrefillDone(r)
      BY <1>2, <1>3, <2>1 DEF PrefillDone
    <3> QED BY <1>1, <1>3, <1>8, <3>1 DEF Prefilled
  <2>3. computed'[r] = Target(r)
    BY <1>2, <1>3, <1>5, <2>2, Parts DEF RequestTypes
  <2>4. Target(r)' = Target(r)
    <3>1. CASE out' = out
      BY <1>5, <3>1 DEF Target
    <3>2. CASE out[r] = <<>> /\ \E t \in OutTokens : out' = [out EXCEPT ![r] = <<t>>]
      <4>1. PICK t \in OutTokens : out'[r] = <<t>>
        BY <3>2, Parts DEF RequestTypes
      <4>2. Len(out'[r]) = 1 /\ Len(out[r]) = 0
        BY <3>2, <4>1
      <4>3. Max2(0, 1 - 1) = 0 /\ Max2(0, 0 - 1) = 0
        BY DEF Max2
      <4> QED BY <1>5, <4>2, <4>3 DEF Target
    <3> QED BY <1>6, <3>1, <3>2
  <2> QED BY <2>1, <2>3, <2>4 DEF Prefilled, PrefillDone
<1> QED BY <1>5, <1>7, <1>8, NewestStays

\* Emitting a token of a decoding request leaves exactly that token to be fed.
LEMMA NewestEmitted ==
  ASSUME EngineInv, EngineInv', Plan, NewestOnly, DecodeEmit
  PROVE  NewestOnly'
<1>1. PICK r \in Requests : r = Head(decodes) /\ r \in Members(decodes)
  BY Parts, Taking DEF DecodeEmit
<1>2. PICK t \in OutTokens : out' = [out EXCEPT ![r] = Append(@, t)]
  BY <1>1 DEF DecodeEmit, Emit
<1>3. /\ pc = "batch" /\ computed' = [computed EXCEPT ![r] = @ + 1]
      /\ UNCHANGED <<prompt, running, chunks>>
  BY <1>1 DEF DecodeEmit, queues
<1>4. computed[r] = Len(AllTokens(r)) - 1
  BY <1>1, <1>3 DEF Plan, DecodePlan, Replayed
<1>5. Prefilled(r)'
  <2>1. t \in Tokens /\ out[r] \in Seq(Tokens)
    BY EngineAssumption, Parts DEF RequestTypes
  <2>2. out'[r] = Append(out[r], t) /\ computed'[r] = computed[r] + 1
    BY <1>2, <1>3, Parts DEF RequestTypes
  <2>3. Len(out'[r]) = Len(out[r]) + 1
    BY <2>1, <2>2
  <2>4. /\ Len(AllTokens(r)) = Len(prompt[r]) + Len(out[r]) /\ Len(prompt[r]) \in Nat
        /\ Len(out[r]) \in Nat
    BY Sizes DEF EngineInv
  <2>5. Target(r)' = Len(prompt[r]) + Len(out[r])
    <3>1. Max2(0, (Len(out[r]) + 1) - 1) = Len(out[r])
      BY <2>4 DEF Max2
    <3> QED BY <1>3, <2>3, <3>1 DEF Target
  <2>6. computed'[r] = Len(prompt[r]) + Len(out[r])
    BY <1>4, <2>2, <2>4
  <2>7. PrefillDone(r)'
    BY <2>4, <2>5, <2>6 DEF PrefillDone
  <2> QED BY <2>7 DEF Prefilled
<1>6. ASSUME NEW x \in Members(running), x # r, Prefilled(x) PROVE Prefilled(x)'
  <2>1. x \in Requests
    BY Parts
  <2>2. computed'[x] = computed[x] /\ out'[x] = out[x] /\ prompt'[x] = prompt[x]
    BY <1>2, <1>3, <1>6, <2>1, Parts DEF RequestTypes
  <2> QED BY <1>3, <1>6, <2>2, PrefilledStays
<1> QED BY <1>3, <1>5, <1>6, NewestStays

\* Chunked prefill is on (the default of EngineConfig).
AlwaysChunked == ChunkedModes \subseteq {TRUE}

Line == Hold /\ NewestOnly /\ Stuck

\* Every step keeps the line: all but the newest are past prefill.
LEMMA LineSteps ==
  ASSUME AlwaysChunked, EngineInv, Plan, Room, Own, Line, [Next]_vars
  PROVE  Line'
<1>1. EngineInv' /\ pc' # "crashed"
  <2>1. Room'
    BY RoomSteps
  <2> QED BY <2>1, EngineSteps DEF Room
<1>2. chunked = TRUE /\ OwnText
  BY Parts DEF RequestTypes, AlwaysChunked, Own
<1>3. Hold'
  BY SettledSteps, HoldSteps DEF Line, Hold
<1>4. Stuck'
  BY <1>2, StuckSteps DEF Line
<1>5. NewestOnly'
  <2>1. CASE Admit
    BY <1>2, <2>1, NewestAdmitted DEF Line
  <2>2. CASE ExecuteChunk
    BY <1>1, <2>2, NewestExecuted DEF Line
  <2>3. CASE DecodeEmit
    BY <1>1, <2>3, NewestEmitted DEF Line
  <2>4. CASE ~Admit /\ ~ExecuteChunk /\ ~DecodeEmit
    BY <2>4, NewestKept DEF Line
  <2> QED BY <2>1, <2>2, <2>3, <2>4
<1> QED BY <1>3, <1>4, <1>5 DEF Line

\* The engine starts with an empty line.
LEMMA LineStarts == Init => Line
<1>1. ASSUME Init PROVE Settled /\ RunnersHold /\ WaitersWhole /\ Stuck
  BY <1>1 DEF Init, KVInit, Settled, RunnersHold, WaitersWhole, Stuck, Members
<1>2. ASSUME Init PROVE NewestOnly
  <2>1. DOMAIN running = {}
    BY <1>2 DEF Init
  <2> QED BY <2>1 DEF NewestOnly
<1> QED BY <1>1, <1>2 DEF Line, Hold

\* The whole inductive invariant of the line.
LEMMA LineHolds ==
  ASSUME AlwaysChunked
  PROVE  Spec => [](EngineInv /\ Plan /\ Line)
<1>1. ChunkedOrUncached
  BY DEF AlwaysChunked, ChunkedOrUncached
<1>2. Init => EngineInv /\ Plan /\ Room /\ Own /\ Line
  BY EngineStarts, PlanStarts, RoomStarts, OwnStarts, LineStarts
<1>3. EngineInv /\ Plan /\ Room /\ Own /\ Line /\ [Next]_vars
        => (EngineInv /\ Plan /\ Room /\ Own /\ Line)'
  BY <1>1, EngineSteps, PlanSteps, RoomSteps, OwnSteps, LineSteps
<1> QED BY <1>2, <1>3, PTL DEF Spec

\* With chunked prefill nobody is admitted past a request whose prompt is not in the KV yet,
\* because a chunk that does not end its prompt leaves no budget or no memory.
THEOREM OnlyNewestPrefillsHolds ==
  ASSUME AlwaysChunked
  PROVE  Spec => []OnlyNewestPrefills
<1>1. EngineInv /\ Line => OnlyNewestPrefills
  <2> SUFFICES ASSUME EngineInv, Line, pc = "idle", NEW i \in DOMAIN running,
                      ~PrefillDone(running[i])
               PROVE  i = Len(running)
    BY DEF OnlyNewestPrefills
  <2>1. Members(chunks) = {}
    BY DEF EngineInv, LoopInv, ScheduledRuns, Members
  <2>2. ~Prefilled(running[i])
    BY <2>1 DEF Prefilled
  <2>3. running \in Seq(Requests)
    BY Parts
  <2>4. i \in 1..Len(running) /\ Len(running) \in Nat
    BY <2>3
  <2>5. ~(i < Len(running))
    BY <2>2, <2>3, <2>4 DEF Line, NewestOnly
  <2> QED BY <2>4, <2>5
<1> QED BY <1>1, LineHolds, PTL

\* What _make_room was asked for, and why it gave up.
Asking ==
  /\ pc = "decode_room" => need = NextNeed(Head(scan)) + reserved
  /\ pc = "decode_retry" => ~Preemption \/ NextNeed(Head(scan)) <= Available \/ Victims = {}
  /\ pc = "progress_room" => Head(scan) = Head(running)

\* The head of the line is asked first; it is then served, alone, or still prefilling.
HeadServed(h) ==
  \/ scan # <<>> /\ Head(scan) = h /\ decodes = <<>>
  \/ h \in Members(decodes)
  \/ Len(running) = 1
  \/ ~PrefillDone(h)
HeadFirst == pc \in Decoding /\ running # <<>> /\ Preemption => HeadServed(running[1])

\* The newest victim is not the head: if all behind it are committed or asking, so is the head.
LEMMA HeadSpared ==
  ASSUME EngineInv, Plan, NewestOnly, Asking, HeadFirst, NEW i \in Victims,
         \A j \in Victims : j <= i, pc \in {"decode_room", "progress_room"}, Preemption
  PROVE  i # 1 /\ running # <<>> /\ running[i] # running[1]
<1>1. running \in Seq(Requests) /\ Distinct(running) /\ Len(running) \in Nat
      /\ i \in DOMAIN running /\ DOMAIN running = 1 .. Len(running)
      /\ 1 \in DOMAIN running /\ running # <<>> /\ Head(running) = running[1]
  BY Parts DEF Victims
<1>2. SUFFICES ASSUME i = 1 PROVE FALSE
  BY <1>1 DEF Distinct
<1>3. running[1] \notin Scheduled /\ Head(scan) # running[1]
  BY <1>2 DEF Victims
<1>4. pc = "decode_room"
  BY <1>1, <1>3 DEF Asking
<1>5. chunks = <<>> /\ Members(chunks) = {}
  BY <1>4 DEF Plan, OneVisit, Decoding, Members
<1>6. Head(scan) \in Members(running)
  BY <1>4 DEF EngineInv, LoopInv, ScanRuns, Sized
<1>7. Len(running) # 1
  <2>1. PICK k \in DOMAIN running : running[k] = Head(scan)
    BY <1>6 DEF Members
  <2>2. k # 1
    BY <1>3, <2>1
  <2> QED BY <1>1, <2>1, <2>2
<1>8. PrefillDone(running[1])
  <2>1. 2 \in DOMAIN running
    BY <1>1, <1>7
  <2>2. Prefilled(running[1])
    BY <1>1, <2>1 DEF NewestOnly
  <2> QED BY <1>5, <2>2 DEF Prefilled
<1>9. HeadServed(running[1])
  BY <1>1, <1>4 DEF HeadFirst, Decoding
<1> QED BY <1>3, <1>7, <1>8, <1>9 DEF HeadServed, Scheduled

\* The head is served, alone or prefilling after a step that leaves it the head.
LEMMA HeadStays ==
  ASSUME NEW h, running' # <<>> => running'[1] = h, HeadServed(h)'
  PROVE  HeadFirst'
<1>1. CASE running' # <<>>
  <2>1. running'[1] = h
    BY <1>1
  <2> QED BY <2>1 DEF HeadFirst, HeadServed, PrefillDone, Target
<1>2. CASE running' = <<>>
  BY <1>2 DEF HeadFirst
<1> QED BY <1>1, <1>2

\* A visit of the decode loop serves the request it leaves behind, or has a reason.
LEMMA HeadVisited ==
  ASSUME EngineInv, Plan, Asking, HeadFirst, DecodeScan \/ DecodeRetry
  PROVE  HeadFirst'
<1> SUFFICES ASSUME running # <<>>, Preemption PROVE HeadFirst'
  <2>1. running' = running
    BY DEF DecodeScan, DecodeRetry, queues
  <2> QED BY <2>1 DEF HeadFirst
<1>1. PICK h \in Requests : h = running[1] /\ h \in Members(running)
  <2>1. running \in Seq(Requests) /\ running # <<>>
    BY Parts
  <2> QED BY <2>1 DEF Members
<1>2. UNCHANGED <<running, computed, prompt, out, state>> /\ pc \in {"decode", "decode_retry"}
  BY DEF DecodeScan, DecodeRetry, queues, reqvars
<1>3. HeadServed(h)
  BY <1>1, <1>2 DEF HeadFirst, Decoding
<1>4. PICK r \in Requests : r = Head(scan) /\ scan # <<>>
  <2>1. scan # <<>> /\ scan \in Seq(Requests)
    BY Parts DEF DecodeScan, DecodeRetry, EngineInv, LoopInv, ScanRuns, Sized
  <2> QED BY <2>1
<1>5. Members(decodes) \subseteq Members(decodes')
      /\ (ScheduleDecode(r) => r \in Members(decodes'))
  <2>1. decodes' = decodes \/ (ScheduleDecode(r) /\ decodes' = Append(decodes, r))
    BY <1>4 DEF DecodeScan, DecodeRetry, Skip, ScheduleDecode
  <2>2. ASSUME decodes' = Append(decodes, r)
        PROVE  Members(decodes) \subseteq Members(decodes') /\ r \in Members(decodes')
    <3>1. decodes \in Seq(Requests)
      BY Parts
    <3>2. decodes' \in Seq(Requests) /\ Behind(decodes', decodes, r)
      BY <2>2, <3>1 DEF Behind
    <3> QED BY <3>1, <3>2, Appended
  <2> QED BY <1>4, <2>1, <2>2 DEF ScheduleDecode
<1>6. HeadServed(h)'
  <2>1. CASE h \in Members(decodes)
    BY <1>5, <2>1 DEF HeadServed, Members
  <2>2. CASE Len(running) = 1
    BY <1>2, <2>2 DEF HeadServed
  <2>3. CASE ~PrefillDone(h)
    BY <1>2, <2>3 DEF HeadServed, PrefillDone, Target
  <2>4. CASE Head(scan) = h /\ decodes = <<>> /\ PrefillDone(h)
    <3>1. r = h /\ state[r] # "preempted"
      BY <1>1, <1>4, <2>4, Parts
    <3>2. CASE ScheduleDecode(r)
      BY <1>5, <3>1, <3>2 DEF HeadServed, Members
    <3>3. CASE DecodeScan /\ ~ScheduleDecode(r)
      <4>1. UNCHANGED <<decodes, scan>>
        BY <1>4, <2>4, <3>1, <3>3 DEF DecodeScan
      <4> QED BY <1>4, <2>4, <4>1 DEF HeadServed
    <3>4. CASE DecodeRetry /\ ~ScheduleDecode(r)
      <4>1. pc = "decode_retry" /\ ~(NextNeed(r) <= Available)
        BY <1>4, <3>4 DEF DecodeRetry
      <4>2. Victims = {} /\ chunks = <<>>
        BY <1>4, <4>1 DEF Asking, Plan, OneVisit, Decoding
      <4>3. Scheduled = {}
        BY <2>4, <4>2 DEF Scheduled, Members
      <4>4. \A j \in DOMAIN running : running[j] = running[1]
        BY <1>1, <2>4, <4>2, <4>3 DEF Victims
      <4>5. /\ running \in Seq(Requests) /\ Len(running) \in Nat /\ Distinct(running)
            /\ DOMAIN running = 1 .. Len(running) /\ Len(running) # 0
        BY Parts
      <4>6. \A j \in 1 .. Len(running) : j = 1
        BY <4>4, <4>5 DEF Distinct
      <4>7. Len(running) = 1
        BY <4>5, <4>6
      <4> QED BY <1>2, <4>7 DEF HeadServed
    <3> QED BY <3>2, <3>3, <3>4
  <2> QED BY <1>3, <2>1, <2>2, <2>3, <2>4 DEF HeadServed
<1> QED BY <1>1, <1>2, <1>6, HeadStays

\* A preemption leaves the head of the line and whoever asked where they are.
LEMMA AskingPreempts ==
  ASSUME EngineInv, Plan, NewestOnly, Asking, HeadFirst, PreemptNewest
  PROVE  Asking' /\ HeadFirst'
<1>1. PICK i \in Victims :
        /\ \A j \in Victims : j <= i /\ Release(running[i])
        /\ computed' = [computed EXCEPT ![running[i]] = 0]
        /\ running' = Without(running, running[i])
  BY DEF PreemptNewest
<1>2. UNCHANGED <<prompt, out, pc, need, reserved, scan, chunks, decodes>>
      /\ pc \in {"decode_room", "progress_room"} /\ Preemption
  BY DEF PreemptNewest, locals
<1>3. running # <<>> /\ running[i] # running[1]
  BY <1>1, <1>2, HeadSpared
<1>4. PICK v \in Requests : v = running[i] /\ Release(v) /\ v # Head(scan)
  BY <1>1, Parts DEF Victims
<1>5. running' # <<>> /\ running'[1] = running[1]
  BY <1>1, <1>3, Parts, WithoutHead
<1>6. \A x \in Requests \ {v} : computed'[x] = computed[x] /\ table'[x] = table[x]
  <2>1. \A x \in Requests \ {v} : computed'[x] = computed[x]
    BY <1>1, <1>4, Parts DEF RequestTypes
  <2>2. \A x \in Requests \ {v} : table'[x] = table[x]
    BY <1>4, ReleaseLeaves DEF EngineInv, KeptWhole, Requests
  <2> QED BY <2>1, <2>2
<1>7. Asking'
  <2>1. Head(scan) \in Requests
    BY <1>2, Parts, Taking DEF EngineInv, LoopInv, ScanRuns, Sized
  <2>2. NextNeed(Head(scan))' = NextNeed(Head(scan))
    BY <1>2, <1>4, <1>6, <2>1 DEF NextNeed, BlocksNeeded, Missing
  <2>3. Head(running) = running[1] /\ Head(running') = running'[1]
    BY <1>3, <1>5, Parts
  <2> QED BY <1>2, <1>5, <2>2, <2>3 DEF Asking
<1>8. HeadFirst'
  <2>1. CASE pc = "decode_room"
    <3>1. PICK h \in Requests : h = running[1] /\ h # v
      BY <1>3, <1>4, Parts
    <3>2. HeadServed(h)
      BY <1>2, <1>3, <2>1, <3>1 DEF HeadFirst, Decoding
    <3>3. Len(running) # 1
      <4>1. running \in Seq(Requests) /\ i \in DOMAIN running
        BY Parts DEF Victims
      <4>2. i # 1
        BY <1>3
      <4> QED BY <4>1, <4>2
    <3>4. HeadServed(h)'
      BY <1>2, <1>6, <3>1, <3>2, <3>3 DEF HeadServed, PrefillDone, Target, Members
    <3> QED BY <1>5, <3>1, <3>4, HeadStays
  <2>2. CASE pc = "progress_room"
    BY <1>2, <2>2 DEF HeadFirst, Decoding
  <2> QED BY <1>2, <2>1, <2>2
<1> QED BY <1>7, <1>8

\* What _make_room was asked for is what it looks at when it is back.
LEMMA AskingSteps ==
  ASSUME EngineInv, Plan, Settled, NewestOnly, Asking, HeadFirst, [Next]_vars
  PROVE  Asking'
<1>1. CASE PreemptNewest
  BY <1>1, AskingPreempts
<1>2. CASE DecodeScan
  <2>1. CASE pc' = "decode_room"
    <3>1. /\ need' = NextNeed(Head(scan)) + reserved
          /\ UNCHANGED <<scan, reserved, computed, table>>
      BY <1>2, <2>1 DEF DecodeScan, MakeRoom, Evict, kvvars, reqvars
    <3>2. NextNeed(Head(scan))' = NextNeed(Head(scan))
      BY <3>1 DEF NextNeed, BlocksNeeded, Missing
    <3> QED BY <2>1, <3>1, <3>2 DEF Asking
  <2>2. CASE pc' # "decode_room"
    BY <1>2, <2>2 DEF DecodeScan, MakeRoom, Asking
  <2> QED BY <2>1, <2>2
<1>3. CASE RoomMade
  <2>1. CASE pc = "decode_room"
    <3>1. /\ ~Preemption \/ Headroom >= need \/ Victims = {}
          /\ need = NextNeed(Head(scan)) + reserved /\ pc' = "decode_retry"
          /\ UNCHANGED <<scan, reserved, computed, table, free, running, chunks, decodes>>
      BY <1>3, <2>1 DEF RoomMade, Asking, RoomRetry, kvvars, reqvars, queues
    <3>2. /\ NextNeed(Head(scan))' = NextNeed(Head(scan)) /\ Available' = Available
          /\ Victims' = Victims
      BY <3>1 DEF NextNeed, BlocksNeeded, Missing, Available, Headroom, NumFree, Victims, Scheduled,
                  Members
    <3>3. Headroom \in Int /\ reserved \in Int /\ NextNeed(Head(scan)) \in Int
      <4>1. Head(scan) \in Requests
        BY <2>1, Parts, Taking DEF EngineInv, LoopInv, ScanRuns, Sized
      <4>2. Headroom \in Int /\ NextNeed(Head(scan)) \in Nat
        BY <4>1, Counts DEF EngineInv
      <4> QED BY <4>2, Parts DEF StepTypes
    <3>4. Headroom >= need => NextNeed(Head(scan)) <= Available
      BY <3>1, <3>3 DEF Available
    <3> QED BY <3>1, <3>2, <3>4 DEF Asking
  <2>2. CASE pc # "decode_room"
    BY <1>3, <2>2 DEF RoomMade, Asking, RoomRetry
  <2> QED BY <2>1, <2>2
<1>4. CASE AdvanceHead
  <2>1. running # <<>> /\ scan' = <<Head(running)>> /\ running' = running
        /\ pc' \in {"progress_room", "progress_retry"}
    BY <1>4 DEF AdvanceHead, HeadMayDecode, MakeRoom, queues
  <2>2. Head(scan') = Head(running)
    BY <2>1
  <2> QED BY <2>1, <2>2 DEF Asking
<1>5. CASE CacheEviction
  <2>1. UNCHANGED <<scan, reserved, computed, running, chunks, decodes, pc, need>>
    BY <1>5 DEF CacheEviction, locals, queues, reqvars
  <2>2. table' = table /\ toEvict # 0
    <3>1. toEvict > 0 /\ table' = table
      BY <1>5 DEF CacheEviction, EvictOne, EvictNoMore
    <3> QED BY <3>1
  <2>3. NextNeed(Head(scan))' = NextNeed(Head(scan))
    BY <2>1, <2>2 DEF NextNeed, BlocksNeeded, Missing
  <2>4. pc # "decode_retry"
    BY <2>2 DEF Settled
  <2> QED BY <2>1, <2>3, <2>4 DEF Asking
<1>6. CASE UNCHANGED vars
  <2>1. UNCHANGED <<scan, reserved, computed, running, chunks, decodes, pc, need, table, free>>
    BY <1>6 DEF vars, kvvars, locals, queues, reqvars
  <2>2. NextNeed(Head(scan))' = NextNeed(Head(scan)) /\ Available' = Available /\ Victims' = Victims
    BY <2>1 DEF NextNeed, BlocksNeeded, Missing, Available, Headroom, NumFree, Victims, Scheduled,
                Members
  <2> QED BY <2>1, <2>2 DEF Asking
<1>7. CASE \/ BeginStep \/ DecodeRetry \/ DecodesDone \/ PrefillScan \/ PrefillsDone \/ AdmitRefuse
           \/ AdmitDone \/ BreakStall \/ ProgressRetry \/ NothingToForce \/ AdmitOpen \/ Admit
           \/ AdmitRollback
  BY <1>7 DEF BeginStep, DecodeRetry, DecodesDone, PrefillScan, PrefillsDone, AdmitRefuse,
              AdmitDone, BreakStall, ProgressRetry, NothingToForce, AdmitOpen, Admit,
              AdmitRollback, Asking, locals
<1>8. CASE Execute
  BY <1>8 DEF Execute, ExecuteChunk, BeginBatch, DecodeWrite, DecodeEmit, BeginRetire, RetireSkip,
              RetirePublish, RetireRelease, EndStep, OrCrash, Asking, locals
<1>9. CASE Clients
  BY <1>9 DEF Clients, AddRequest, AbortRequest, Asking, locals
<1> QED BY <1>1, <1>2, <1>3, <1>4, <1>5, <1>6, <1>7, <1>8, <1>9 DEF Next, EngineThread, Schedule

\* Every step of the decode loop leaves the head served, or with a reason.
LEMMA HeadSteps ==
  ASSUME EngineInv, Plan, NewestOnly, Asking, HeadFirst, [Next]_vars
  PROVE  HeadFirst'
<1>1. CASE PreemptNewest
  BY <1>1, AskingPreempts
<1>2. CASE DecodeScan \/ DecodeRetry
  BY <1>2, HeadVisited
<1>3. CASE BeginStep
  <2>1. decodes' = <<>> /\ scan' = running /\ running' = running
    BY <1>3 DEF BeginStep, queues, EngineInv, LoopInv, ScheduledRuns
  <2>2. running # <<>> => Head(running) = running[1]
    BY Parts
  <2> QED BY <2>1, <2>2 DEF HeadFirst, HeadServed
<1>4. CASE RoomMade \/ CacheEviction \/ UNCHANGED vars
  <2>1. UNCHANGED <<running, scan, decodes, computed, prompt, out>>
        /\ (pc' \in Decoding => pc \in Decoding)
    BY <1>4 DEF RoomMade, CacheEviction, vars, locals, queues, reqvars, RoomRetry, Decoding
  <2> QED BY <2>1 DEF HeadFirst, HeadServed, PrefillDone, Target, Members
<1>5. CASE \/ DecodesDone \/ PrefillScan \/ PrefillsDone \/ AdmitRefuse \/ AdmitDone \/ BreakStall
           \/ ProgressRetry \/ NothingToForce \/ AdmitOpen \/ Admit \/ AdmitRollback \/ AdvanceHead
  BY <1>5 DEF DecodesDone, PrefillScan, PrefillsDone, AdmitRefuse, AdmitDone, BreakStall,
              ProgressRetry, NothingToForce, AdmitOpen, Admit, AdmitRollback, AdvanceHead, MakeRoom,
              HeadFirst, Decoding, locals
<1>6. CASE Execute
  BY <1>6 DEF Execute, ExecuteChunk, BeginBatch, DecodeWrite, DecodeEmit, BeginRetire, RetireSkip,
              RetirePublish, RetireRelease, EndStep, OrCrash, HeadFirst, Decoding, locals
<1>7. CASE Clients
  BY <1>7 DEF Clients, AddRequest, AbortRequest, HeadFirst, Decoding, locals
<1> QED BY <1>1, <1>2, <1>3, <1>4, <1>5, <1>6, <1>7 DEF Next, EngineThread, Schedule

\* No step preempts the request at the head of the line.
LEMMA HeadKept ==
  ASSUME EngineInv, Plan, NewestOnly, Asking, HeadFirst, Next, running # <<>>
  PROVE  state'[Head(running)] # "preempted"
<1>1. PICK h \in Requests : h = Head(running) /\ h = running[1] /\ h \in Members(running)
  BY Parts, Taking
<1>2. state[h] # "preempted" /\ state \in [Requests -> {state[x] : x \in Requests}]
  BY <1>1, Parts DEF RequestTypes
<1>3. CASE PreemptNewest
  <2>1. PICK i \in Victims :
          (\A j \in Victims : j <= i) /\ state' = [state EXCEPT ![running[i]] = "preempted"]
    BY <1>3 DEF PreemptNewest
  <2>2. running[i] # h
    BY <1>1, <1>3, <2>1, HeadSpared DEF PreemptNewest
  <2> QED BY <1>1, <1>2, <2>1, <2>2
<1>4. ASSUME NEW r, NEW st, st # "preempted", state' = [state EXCEPT ![r] = st]
      PROVE  state'[h] # "preempted"
  BY <1>2, <1>4
<1>5. CASE state' = state
  BY <1>1, <1>2, <1>5
<1>6. CASE AdmitRollback
  BY <1>1, <1>4, <1>6 DEF AdmitRollback
<1>7. CASE Admit
  BY <1>1, <1>4, <1>7 DEF Admit
<1>8. CASE ExecuteChunk \/ DecodeEmit
  <2>1. state' = state \/ \E r, st : st # "preempted" /\ state' = [state EXCEPT ![r] = st]
    BY <1>8 DEF ExecuteChunk, DecodeEmit, Emit
  <2> QED BY <1>1, <1>4, <1>5, <2>1
<1>9. CASE Clients
  <2>1. PICK r : \/ state' = [state EXCEPT ![r] = "waiting"]
                 \/ state' = [state EXCEPT ![r] = "aborted"]
    BY <1>9 DEF Clients, AddRequest, AbortRequest
  <2> QED BY <1>1, <1>4, <2>1
<1>10. CASE ~PreemptNewest /\ ~AdmitRollback /\ ~Admit /\ ~ExecuteChunk /\ ~DecodeEmit /\ ~Clients
  <2>1. CASE Schedule
    BY <1>5, <1>10, <2>1 DEF Schedule, BeginStep, DecodeScan, RoomMade, DecodeRetry, DecodesDone,
       PrefillScan, PrefillsDone, AdmitOpen, AdmitRefuse, AdmitDone, BreakStall, AdvanceHead,
       ProgressRetry, NothingToForce, CacheEviction, reqvars
  <2>2. CASE Execute
    BY <1>5, <1>10, <2>2 DEF Execute, BeginBatch, DecodeWrite, BeginRetire, RetireSkip,
       RetirePublish, RetireRelease, EndStep, reqvars
  <2> QED BY <1>10, <2>1, <2>2 DEF Next, EngineThread
<1> QED BY <1>3, <1>6, <1>7, <1>8, <1>9, <1>10

\* With chunked prefill the oldest running request is never the one preempted (ADR-0004): when
\* every other is committed to the step, the head was served or is the one that asks.
THEOREM HeadNeverPreemptedHolds ==
  ASSUME AlwaysChunked
  PROVE  Spec => HeadNeverPreempted
<1>1. Init => Asking /\ HeadFirst
  BY DEF Init, Asking, HeadFirst
<1>2. EngineInv /\ Plan /\ Line /\ Asking /\ HeadFirst /\ [Next]_vars => (Asking /\ HeadFirst)'
  BY AskingSteps, HeadSteps DEF Line, Hold
<1>3. EngineInv /\ Plan /\ Line /\ Asking /\ HeadFirst /\ [Next]_vars
        => [running # <<>> => state'[Head(running)] # "preempted"]_vars
  BY HeadKept DEF Line
<1> QED BY <1>1, <1>2, <1>3, LineHolds, PTL DEF Spec, HeadNeverPreempted

-----------------------------------------------------------------------------
(* The engine is a client that its KV memory allows.                       *)

\* No request is longer than add_request() let it ask for, and one that has all its tokens is
\* over.
InLimit ==
  \A r \in Requests : state[r] # "new" =>
    /\ Len(prompt[r]) + limit[r] <= MaxLen
    /\ Len(out[r]) <= limit[r]
    /\ state[r] \notin Over => Len(out[r]) < limit[r]

\* No chunk takes more than the budget of a step, and none is of a request that is over.
InBudget ==
  /\ budget <= MaxBatchedTokens
  /\ \A c \in Members(chunks) : c.take <= MaxBatchedTokens /\ state[c.req] \notin Over

\* A change of state that does not bring a request back leaves its tokens within its limit.
LEMMA LimitStays ==
  ASSUME EngineInv, InLimit, UNCHANGED <<prompt, limit, out>>, NEW r \in Requests, NEW st,
         state' = [state EXCEPT ![r] = st], state[r] # "new", st \in Over \/ state[r] \notin Over
  PROVE  InLimit'
<1>1. state'[r] = st /\ \A x \in Requests \ {r} : state'[x] = state[x]
  BY Parts DEF RequestTypes
<1>2. ASSUME NEW x \in Requests, state'[x] # "new"
      PROVE  state[x] # "new" /\ (state'[x] \notin Over => state[x] \notin Over)
  <2>1. CASE x = r
    BY <1>1, <2>1
  <2>2. CASE x # r
    BY <1>1, <1>2, <2>2
  <2> QED BY <2>1, <2>2
<1> QED BY <1>2 DEF InLimit

\* The token that reaches the limit ends the request.
LEMMA LimitEmits ==
  ASSUME EngineInv, InLimit, UNCHANGED <<prompt, limit>>, NEW r \in Requests, NEW t \in OutTokens,
         Emit(r, t, "running"), state[r] # "new", state[r] \notin Over
  PROVE  InLimit'
<1>1. /\ out' = [out EXCEPT ![r] = Append(@, t)]
      /\ state' = [state EXCEPT ![r] = IF t = Eos \/ Len(out[r]) + 1 >= limit[r]
                                       THEN "finished" ELSE "running"]
  BY DEF Emit
<1>2. \A x \in Requests \ {r} : state'[x] = state[x] /\ out'[x] = out[x]
  BY <1>1, Parts DEF RequestTypes
<1>3. /\ Len(out'[r]) = Len(out[r]) + 1 /\ Len(out[r]) \in Nat /\ limit[r] \in Nat
      /\ state'[r] \notin Over => Len(out[r]) + 1 < limit[r]
  <2>1. out[r] \in Seq(Tokens) /\ t \in Tokens /\ limit[r] \in Nat
    BY EngineAssumption, Parts DEF RequestTypes
  <2>2. out'[r] = Append(out[r], t)
    BY <1>1, Parts DEF RequestTypes
  <2>3. Len(out'[r]) = Len(out[r]) + 1 /\ Len(out[r]) \in Nat
    BY <2>1, <2>2
  <2>4. state'[r] = IF t = Eos \/ Len(out[r]) + 1 >= limit[r] THEN "finished" ELSE "running"
    BY <1>1, Parts DEF RequestTypes
  <2>5. state'[r] \notin Over => ~(Len(out[r]) + 1 >= limit[r])
    BY <2>4 DEF Over
  <2> QED BY <2>1, <2>3, <2>5
<1>4. Len(prompt[r]) + limit[r] <= MaxLen /\ Len(out[r]) < limit[r]
  BY DEF InLimit
<1>5. ASSUME NEW x \in Requests, state'[x] # "new"
      PROVE  /\ Len(prompt'[x]) + limit'[x] <= MaxLen
             /\ Len(out'[x]) <= limit'[x]
             /\ state'[x] \notin Over => Len(out'[x]) < limit'[x]
  <2>1. CASE x = r
    <3>1. Len(out[r]) + 1 <= limit[r]
      BY <1>3, <1>4
    <3> QED BY <1>3, <1>4, <2>1, <3>1
  <2>2. CASE x # r
    BY <1>2, <1>5, <2>2 DEF InLimit
  <2> QED BY <2>1, <2>2
<1> QED BY <1>5 DEF InLimit

\* No step lets a request grow past its limit.
LEMMA LimitSteps ==
  ASSUME EngineInv, Plan, InLimit, InBudget, [Next]_vars
  PROVE  InLimit'
<1>1. CASE UNCHANGED <<state, prompt, limit, out>>
  BY <1>1 DEF InLimit
<1>2. CASE PreemptNewest
  <2>1. PICK i \in Victims : state' = [state EXCEPT ![running[i]] = "preempted"]
    BY <1>2 DEF PreemptNewest
  <2>2. UNCHANGED <<prompt, limit, out>> /\ pc \in Scheduling
    BY <1>2 DEF PreemptNewest, Scheduling
  <2>3. PICK v \in Requests : v = running[i] /\ v \in Members(running)
    BY Parts DEF Victims, Members
  <2>4. state[v] # "new" /\ state[v] \notin Over
    BY <2>2, <2>3 DEF EngineInv, LoopInv, RunningLive
  <2> QED BY <2>1, <2>2, <2>3, <2>4, LimitStays
<1>3. CASE Admit \/ AdmitRollback
  <2>1. PICK r \in Requests : r = Head(waiting) /\ state[r] \in {"waiting", "preempted"}
    BY <1>3, HeadWaits DEF Admit, AdmitRollback, MayAdmit
  <2>2. /\ \E st : state' = [state EXCEPT ![r] = st]
        /\ UNCHANGED <<prompt, limit, out>>
    BY <1>3, <2>1 DEF Admit, AdmitRollback
  <2>3. state[r] # "new" /\ state[r] \notin Over
    BY <2>1 DEF Over
  <2> QED BY <2>2, <2>3, LimitStays
<1>4. CASE ExecuteChunk
  <2>1. PICK c \in Members(chunks) : c = Head(chunks)
    BY <1>4, Parts, Taking DEF ExecuteChunk
  <2>2. PICK r \in Requests : r = c.req /\ r \in Members(running) /\ state[r] \notin Over
    BY <2>1, ChunkBehind DEF InBudget
  <2>3. state[r] # "new"
    BY <2>2 DEF EngineInv, LoopInv, RunningLive
  <2>4. \/ UNCHANGED <<state, out>>
        \/ state' = [state EXCEPT ![r] = "running"] /\ out' = out
        \/ \E t \in OutTokens : Emit(r, t, "running")
    BY <1>4, <2>1, <2>2 DEF ExecuteChunk
  <2>5. UNCHANGED <<prompt, limit>>
    BY <1>4 DEF ExecuteChunk
  <2> QED BY <1>1, <2>2, <2>3, <2>4, <2>5, LimitStays, LimitEmits
<1>5. CASE DecodeEmit
  <2>1. PICK r \in Requests : r = Head(decodes) /\ r \in Members(decodes)
    BY <1>5, Parts, Taking DEF DecodeEmit
  <2>2. state[r] = "running"
    BY <1>5, <2>1 DEF DecodeEmit, Plan, DecodePlan
  <2>3. UNCHANGED <<prompt, limit>> /\ \E t \in OutTokens : Emit(r, t, "running")
    BY <1>5, <2>1 DEF DecodeEmit
  <2> QED BY <2>2, <2>3, LimitEmits DEF Over
<1>6. CASE Clients
  <2>1. PICK r \in Requests : \/ \E p \in Prompts, m \in OutLimits : AddRequest(r, p, m)
                              \/ AbortRequest(r)
    BY <1>6 DEF Clients
  <2>2. CASE \E p \in Prompts, m \in OutLimits : AddRequest(r, p, m)
    <3>1. PICK p \in Prompts, m \in OutLimits : AddRequest(r, p, m)
      BY <2>2
    <3>2. /\ state' = [state EXCEPT ![r] = "waiting"] /\ prompt' = [prompt EXCEPT ![r] = p]
          /\ limit' = [limit EXCEPT ![r] = m] /\ out' = [out EXCEPT ![r] = <<>>]
          /\ Len(p) + m <= MaxLen
      BY <3>1 DEF AddRequest
    <3>3. /\ prompt'[r] = p /\ limit'[r] = m /\ out'[r] = <<>>
          /\ \A x \in Requests \ {r} : /\ state'[x] = state[x] /\ prompt'[x] = prompt[x]
                                       /\ limit'[x] = limit[x] /\ out'[x] = out[x]
      BY <3>2, Parts DEF RequestTypes
    <3>4. m \in Nat /\ Len(out'[r]) = 0 /\ 0 < m
      BY <3>3, EngineAssumption
    <3>5. ASSUME NEW x \in Requests, state'[x] # "new"
          PROVE  /\ Len(prompt'[x]) + limit'[x] <= MaxLen
                 /\ Len(out'[x]) <= limit'[x]
                 /\ state'[x] \notin Over => Len(out'[x]) < limit'[x]
      <4>1. CASE x = r
        BY <3>2, <3>3, <3>4, <4>1
      <4>2. CASE x # r
        BY <3>3, <3>5, <4>2 DEF InLimit
      <4> QED BY <4>1, <4>2
    <3> QED BY <3>5 DEF InLimit
  <2>3. CASE AbortRequest(r)
    <3>1. /\ state' = [state EXCEPT ![r] = "aborted"] /\ UNCHANGED <<prompt, limit, out>>
          /\ state[r] # "new"
      BY <2>3 DEF AbortRequest
    <3> QED BY <3>1, LimitStays DEF Over
  <2> QED BY <2>1, <2>2, <2>3
<1>7. CASE ~PreemptNewest /\ ~Admit /\ ~AdmitRollback /\ ~ExecuteChunk /\ ~DecodeEmit /\ ~Clients
  <2>1. CASE Schedule
    BY <1>7, <2>1, <1>1 DEF Schedule, BeginStep, DecodeScan, RoomMade, DecodeRetry, DecodesDone,
       PrefillScan, PrefillsDone, AdmitOpen, AdmitRefuse, AdmitDone, BreakStall, AdvanceHead,
       ProgressRetry, NothingToForce, CacheEviction, reqvars
  <2>2. CASE Execute
    BY <1>7, <2>2, <1>1 DEF Execute, BeginBatch, DecodeWrite, BeginRetire, RetireSkip,
       RetirePublish, RetireRelease, EndStep, reqvars
  <2>3. CASE UNCHANGED vars
    BY <1>1, <2>3 DEF vars, reqvars
  <2> QED BY <1>7, <2>1, <2>2, <2>3 DEF Next, EngineThread
<1> QED BY <1>2, <1>3, <1>4, <1>5, <1>6, <1>7

\* A chunk is cut to the budget left, for a request that goes on.
LEMMA BudgetChunk ==
  ASSUME EngineInv, InBudget, NEW r \in Requests, ScheduleChunk(r), Take(r) # 0,
         state[r] \notin Over, \A x \in Requests : state[x] \notin Over => state'[x] \notin Over
  PROVE  InBudget'
<1> DEFINE c == [req |-> r, start |-> computed[r], take |-> Take(r),
                 final |-> computed[r] + Take(r) >= Target(r)]
<1>1. Take(r) \in Nat /\ Take(r) <= budget /\ computed[r] \in Nat
  BY TakeBounds DEF EngineInv
<1>2. budget \in Nat /\ MaxBatchedTokens \in Nat /\ budget <= MaxBatchedTokens
  BY Parts, EngineAssumption DEF StepTypes, InBudget
<1>3. budget' = budget - Take(r) /\ chunks' = Append(chunks, c)
  BY DEF ScheduleChunk
<1>4. budget' <= MaxBatchedTokens /\ c.take <= MaxBatchedTokens /\ c.req = r
  BY <1>1, <1>2, <1>3
<1>5. Members(chunks') = Members(chunks) \cup {c}
  <2>1. chunks \in Seq(PrefillChunk) /\ c \in PrefillChunk
    BY <1>1, Parts DEF PrefillChunk
  <2> HIDE DEF c
  <2>2. chunks' \in Seq(PrefillChunk) /\ Behind(chunks', chunks, c)
    BY <1>3, <2>1 DEF Behind
  <2> QED BY <2>1, <2>2, Appended
<1>6. \A d \in Members(chunks) : d.req \in Requests
  BY QueueOfRequests DEF EngineInv
<1> HIDE DEF c
<1>7. \A d \in Members(chunks') : d.take <= MaxBatchedTokens /\ state'[d.req] \notin Over
  BY <1>4, <1>5, <1>6 DEF InBudget
<1> QED BY <1>4, <1>7 DEF InBudget, Members

\* No step schedules a chunk past its budget, or for a request that is over.
LEMMA BudgetSteps ==
  ASSUME EngineInv, EngineInv', Plan, InBudget, [Next]_vars
  PROVE  InBudget'
<1>1. /\ budget \in Nat /\ budget' \in Nat /\ MaxBatchedTokens \in Nat /\ budget <= MaxBatchedTokens
      /\ MaxBatchedTokens >= 0
  BY Parts, EngineAssumption DEF InBudget, EngineInv, EngineTypeOK, StepTypes
<1>2. ASSUME chunks = <<>>, chunks' = chunks, budget' = budget \/ budget' = 0
      PROVE  InBudget'
  BY <1>1, <1>2 DEF InBudget, Members
<1>3. ASSUME chunks' = chunks, budget' <= budget \/ budget' = MaxBatchedTokens,
             \A x \in Requests : state[x] \notin Over => state'[x] \notin Over
      PROVE  InBudget'
  <2>1. \A d \in Members(chunks) : d.req \in Requests
    BY QueueOfRequests DEF EngineInv
  <2>2. budget' <= MaxBatchedTokens
    BY <1>1, <1>3
  <2> QED BY <1>3, <2>1, <2>2 DEF InBudget, Members
<1>4. CASE PrefillScan
  <2>1. PICK r \in Requests : r = Head(scan) /\ r \in Members(scan)
    BY <1>4, Parts, Taking DEF PrefillScan
  <2>2. state' = state
    BY <1>4 DEF PrefillScan, reqvars
  <2>3. CASE PrefillDone(r) \/ state[r] = "preempted" \/ Take(r) = 0
    BY <1>1, <1>3, <1>4, <2>1, <2>2, <2>3 DEF PrefillScan, Skip
  <2>4. CASE ~(PrefillDone(r) \/ state[r] = "preempted" \/ Take(r) = 0)
    <3>1. state[r] \notin Over
      BY <1>4, <2>1, <2>4 DEF PrefillScan, EngineInv, LoopInv, ScanRuns, RunningLive, Scheduling
    <3> QED BY <1>4, <2>1, <2>2, <2>4, <3>1, BudgetChunk DEF PrefillScan
  <2> QED BY <2>3, <2>4
<1>5. CASE Admit
  <2>1. PICK r \in Requests : r = Head(waiting) /\ state[r] \in {"waiting", "preempted"}
    BY <1>5, HeadWaits DEF Admit, MayAdmit
  <2>2. ScheduleChunk(r) /\ Take(r) > 0 /\ state' = [state EXCEPT ![r] = "prefill"]
    BY <1>5, <2>1 DEF Admit
  <2>3. state[r] \notin Over /\ \A x \in Requests : state[x] \notin Over => state'[x] \notin Over
    BY <2>1, <2>2, Parts DEF RequestTypes, Over
  <2>4. Take(r) # 0
    BY <2>2
  <2> QED BY <2>2, <2>3, <2>4, BudgetChunk
<1>6. CASE ExecuteChunk
  <2>1. PICK c \in Members(chunks) : /\ c = Head(chunks)
                                     /\ \A d \in Members(Tail(chunks)) : d \in Members(chunks)
                                     /\ \A d \in Members(Tail(chunks)) : d.req # c.req
    <3>1. chunks # <<>> /\ chunks \in Seq(PrefillChunk) /\ Apart(chunks)
      BY <1>6, Parts DEF ExecuteChunk, Plan, OneVisit
    <3> QED BY <3>1, Taking, ChunkTaken
  <2>2. /\ budget' = budget /\ chunks' = Tail(chunks)
        /\ state' = state \/ \E st : state' = [state EXCEPT ![c.req] = st]
    BY <1>6, <2>1 DEF ExecuteChunk, Emit
  <2>3. \A x \in Requests : x # c.req => state'[x] = state[x]
    BY <2>2, Parts DEF RequestTypes
  <2>4. \A d \in Members(chunks) : d.req \in Requests
    BY QueueOfRequests DEF EngineInv
  <2>5. \A d \in Members(chunks') : d.take <= MaxBatchedTokens /\ state'[d.req] \notin Over
    BY <2>1, <2>2, <2>3, <2>4 DEF InBudget
  <2> QED BY <1>1, <2>2, <2>5 DEF InBudget, Members
<1>7. CASE DecodeScan \/ DecodeRetry
  <2>1. /\ chunks' = chunks /\ state' = state
        /\ budget' = budget \/ budget' = budget - 1
    BY <1>7 DEF DecodeScan, DecodeRetry, Skip, ScheduleDecode, reqvars
  <2> QED BY <1>1, <1>3, <2>1
<1>8. CASE BeginStep
  <2>1. chunks' = chunks /\ state' = state /\ budget' = MaxBatchedTokens
    BY <1>8 DEF BeginStep, reqvars
  <2> QED BY <1>3, <2>1
<1>9. CASE PreemptNewest \/ AdmitRollback
  <2>1. /\ chunks' = chunks /\ budget' = budget
        /\ \E v, st : st \notin Over /\ state' = [state EXCEPT ![v] = st]
    BY <1>9 DEF PreemptNewest, AdmitRollback, locals, Over
  <2>2. \A x \in Requests : state[x] \notin Over => state'[x] \notin Over
    BY <2>1, Parts DEF RequestTypes
  <2> QED BY <1>1, <1>3, <2>1, <2>2
<1>10. CASE DecodeEmit \/ Clients
  <2>1. pc \in {"idle", "batch"} /\ chunks' = chunks /\ budget' = budget
    BY <1>10 DEF DecodeEmit, Clients, AddRequest, AbortRequest, locals
  <2>2. chunks = <<>>
    BY <2>1 DEF EngineInv, LoopInv, ScheduledRuns
  <2> QED BY <1>2, <2>1, <2>2
<1>11. CASE \/ RoomMade \/ DecodesDone \/ PrefillsDone \/ AdmitOpen \/ AdmitRefuse \/ AdmitDone
            \/ BreakStall \/ AdvanceHead \/ ProgressRetry \/ NothingToForce \/ CacheEviction
            \/ UNCHANGED vars
  <2>1. chunks' = chunks /\ state' = state /\ budget' = budget
    BY <1>11 DEF RoomMade, DecodesDone, PrefillsDone, AdmitOpen, AdmitRefuse, AdmitDone, BreakStall,
       AdvanceHead, ProgressRetry, NothingToForce, CacheEviction, vars, reqvars, locals
  <2> QED BY <1>1, <1>3, <2>1
<1>12. CASE \/ BeginBatch \/ DecodeWrite \/ BeginRetire \/ RetireSkip \/ RetirePublish
            \/ RetireRelease \/ EndStep
  <2>1. chunks' = chunks /\ state' = state /\ (budget' = budget \/ budget' = 0)
    BY <1>12 DEF BeginBatch, DecodeWrite, BeginRetire, RetireSkip, RetirePublish, RetireRelease,
       EndStep, reqvars, locals
  <2> QED BY <1>1, <1>3, <2>1
<1> QED BY <1>4, <1>5, <1>6, <1>7, <1>8, <1>9, <1>10, <1>11, <1>12
        DEF Next, EngineThread, Schedule, Execute

\* The client specification of the KV memory lets a pass append whatever one step may batch.
FeedsAll == \A toks \in Seq(Tokens) : Len(toks) \in 1..MaxBatchedTokens => toks \in Chunks

\* A request at rest needs at most one block for its next token.
LEMMA NextBlock ==
  ASSUME EngineInv, OwnText, pc # "batch", NEW r \in open
  PROVE  NextNeed(r) \in 0..1 /\ BlocksFor(computed[r] + 1) <= Len(table[r]) + 1
<1>1. /\ r \in Requests /\ computed[r] \in Nat /\ Len(table[r]) \in Nat
      /\ computed[r] <= Len(table[r]) * BlockSize /\ Len(table[r]) * BlockSize \in Nat
  BY Standing
<1>2. KVTypeOK /\ EngineTypeOK /\ computed[r] + 1 \in Nat /\ 1 \in Nat /\ BlockSize \in Nat \ {0}
  BY <1>1, KVAssumption DEF EngineInv, KVInv
<1>3. computed[r] + 1 <= (Len(table[r]) + 1) * BlockSize
  <2> DEFINE m == Len(table[r])
             n == computed[r]
  <2>1. (m + 1) * BlockSize = m * BlockSize + BlockSize
    BY <1>1, <1>2
  <2> HIDE DEF m, n
  <2> QED BY <1>1, <1>2, <2>1 DEF m, n
<1>4. BlocksNeeded(r, computed[r] + 1) <= 1
  BY <1>1, <1>2, <1>3, CapacityFits
<1>5. NextNeed(r) \in Nat
  BY <1>1, <1>2, Counts DEF EngineInv
<1>6. BlocksFor(computed[r] + 1) <= Len(table[r]) + 1
  <2> DEFINE lo == Len(table[r]) + 1
             B == BlocksFor(computed[r] + 1)
  <2>1. lo \in Int /\ B \in Int
    BY <1>1, <1>2, BlocksForType
  <2>2. BlocksNeeded(r, computed[r] + 1) = Cardinality(lo .. B)
    BY DEF BlocksNeeded, Missing
  <2> HIDE DEF lo, B
  <2>3. lo > B \/ B - lo + 1 <= 1
    BY <1>4, <2>1, <2>2, FS_Interval
  <2>4. B <= lo
    BY <2>1, <2>3
  <2> QED BY <2>4 DEF lo, B
<1> QED BY <1>4, <1>5, <1>6 DEF NextNeed

\* A block table names each block once, so it is no longer than the pool is large.
LEMMA TableFits ==
  ASSUME KVInv, OwnPlaces, NEW r \in open
  PROVE  /\ Len(table[r]) \in Nat /\ Len(table[r]) <= Cardinality(Blocks)
         /\ Cardinality(Blocks) \in Nat
<1> DEFINE I == 1 .. Len(table[r])
<1>1. table[r] \in Seq(Blocks)
  BY DEF KVInv, KVTypeOK
<1>2. Len(table[r]) \in Nat /\ table[r] \in [I -> Blocks] /\ 1 \in Int
  BY <1>1
<1>3. \A i, j \in I : table[r][i] = table[r][j] => i = j
  BY DEF OwnPlaces
<1>4. IsFiniteSet(I) /\ Cardinality(I) = Len(table[r])
  <2>1. PICK n \in Nat : n = Len(table[r]) /\ I = 1 .. n
    BY <1>2
  <2>2. IsFiniteSet(1 .. n) /\ Cardinality(1 .. n) = IF 1 > n THEN 0 ELSE n - 1 + 1
    <3>1. n \in Int /\ 1 \in Int
      OBVIOUS
    <3> QED BY <3>1, FS_Interval
  <2> QED BY <2>1, <2>2
<1> HIDE DEF I
<1>5. Cardinality(Image(table[r])) = Cardinality(I) /\ Image(table[r]) \subseteq Blocks
  BY <1>2, <1>3, <1>4, ImageSize
<1>6. IsFiniteSet(Blocks) /\ Cardinality(Blocks) \in Nat
  BY KVAssumption, FS_CardinalityType
<1>7. Cardinality(Image(table[r])) <= Cardinality(Blocks)
  BY <1>5, <1>6, FS_Subset
<1> QED BY <1>2, <1>4, <1>5, <1>6, <1>7

\* _make_room asks for no more than the pool and one block.
LEMMA RoomAsked ==
  ASSUME EngineInv, OwnText, Room, RunnersHold, DecodeScan \/ AdvanceHead
  PROVE  UNCHANGED kvvars \/ \E n \in 1..MaxEvict : Evict(n)
<1>1. /\ NumFree \in Nat /\ Headroom = NumFree - Watermark /\ Watermark \in Nat
      /\ Watermark <= Cardinality(Blocks) /\ Cardinality(Blocks) \in Nat
  <2>1. Cardinality(Blocks) \in Nat
    BY KVAssumption, FS_CardinalityType
  <2> QED BY <2>1, FreeCounts, EngineAssumption DEF Headroom
<1>2. ASSUME NEW n \in Nat, n <= NumFree + 1,
             IF Caching /\ n > Headroom THEN Evict(n - Headroom) ELSE UNCHANGED kvvars
      PROVE  UNCHANGED kvvars \/ \E k \in 1..MaxEvict : Evict(k)
  <2>1. CASE Caching /\ n > Headroom
    <3>1. n - Headroom \in 1..MaxEvict
      BY <1>1, <1>2, <2>1 DEF MaxEvict
    <3> QED BY <1>2, <2>1, <3>1
  <2> QED BY <1>2, <2>1
<1>3. CASE DecodeScan
  <2>1. CASE UNCHANGED kvvars
    BY <2>1
  <2>2. CASE ~UNCHANGED kvvars
    <3>1. PICK r \in Requests : r = Head(scan) /\ r \in Members(scan)
      BY <1>3, Parts, Taking DEF DecodeScan
    <3>2. state[r] # "preempted" /\ MakeRoom(NextNeed(r) + reserved, "decode_room") /\ pc = "decode"
      BY <1>3, <2>2, <3>1 DEF DecodeScan
    <3>3. r \in open
      BY <3>1, <3>2 DEF EngineInv, LoopInv, ScanRuns, RunnersHold
    <3>4. NextNeed(r) \in 0..1
      BY <3>2, <3>3, NextBlock
    <3>5. reserved \in Nat /\ reserved <= NumFree
      BY <3>2, Parts DEF StepTypes, Room, Reserve, Scheduling
    <3>6. NextNeed(r) + reserved \in Nat /\ NextNeed(r) + reserved <= NumFree + 1
      BY <1>1, <3>4, <3>5
    <3> QED BY <1>2, <3>2, <3>6 DEF MakeRoom
  <2> QED BY <2>1, <2>2
<1>4. CASE AdvanceHead
  <2>1. CASE UNCHANGED kvvars
    BY <2>1
  <2>2. CASE ~UNCHANGED kvvars
    <3>1. PICK r \in open : r = Head(running) /\ MakeRoom(NextNeed(r), "progress_room")
                            /\ pc = "progress"
      BY <1>4, <2>2 DEF AdvanceHead, HeadMayDecode
    <3>2. NextNeed(r) \in 0..1
      BY <3>1, NextBlock
    <3>3. NextNeed(r) \in Nat /\ NextNeed(r) <= NumFree + 1
      BY <1>1, <3>2
    <3> QED BY <1>2, <3>1, <3>3 DEF MakeRoom
  <2> QED BY <2>1, <2>2
<1> QED BY <1>3, <1>4

\* The stall branch asks for no more than the pool and one block.
LEMMA StallAsked ==
  ASSUME EngineInv, Own, OwnPlaces, BreakStall
  PROVE  \E n \in 1..MaxEvict : Evict(n)
<1>1. PICK r \in Requests : r = Head(waiting) /\ r \in Members(waiting)
  BY HeadWaits DEF BreakStall
<1> DEFINE B == BlocksFor(computed[r] + 1)
<1>2. pc = "progress" /\ Evict(Max2(1, B - NumFree))
  BY <1>1 DEF BreakStall
<1>3. B \in Nat /\ B <= Cardinality(Blocks) + 1 /\ Cardinality(Blocks) \in Nat
  <2>1. Cardinality(Blocks) \in Nat
    BY KVAssumption, FS_CardinalityType
  <2>2. CASE r \in open
    <3>1. /\ B <= Len(table[r]) + 1 /\ Len(table[r]) \in Nat /\ Len(table[r]) <= Cardinality(Blocks)
          /\ computed[r] + 1 \in Nat
      BY <1>2, <2>2, NextBlock, TableFits, Standing DEF EngineInv, Own
    <3>2. B \in Nat
      BY <3>1, BlocksForType
    <3> HIDE DEF B
    <3> QED BY <2>1, <3>1, <3>2
  <2>3. CASE r \notin open
    <3>1. computed[r] = 0
      BY <1>1, <2>3 DEF Own, WaitersFresh
    <3>2. B = 1
      BY <3>1, KVAssumption DEF BlocksFor
    <3> QED BY <2>1, <3>2
  <2> QED BY <2>2, <2>3
<1>4. NumFree \in Nat
  BY FreeCounts
<1> HIDE DEF B
<1>5. Max2(1, B - NumFree) \in 1..MaxEvict
  BY <1>3, <1>4 DEF Max2, MaxEvict
<1> QED BY <1>2, <1>5

\* A pass appends tokens that the client specification lets it append.
LEMMA FeedsChunk ==
  ASSUME FeedsAll, EngineInv, Room, InLimit, NEW r \in Requests, NEW toks \in Seq(Tokens),
         Feeds(r, toks), Len(toks) <= MaxBatchedTokens, r \in Members(running)
  PROVE  KVNext
<1>1. /\ KVInv /\ text[r] \in Fed /\ Len(text[r]) \in Nat /\ r \in Seqs /\ Private(r)
      /\ Write(r, Len(text[r]), toks) /\ Len(text[r]) <= Len(text[r])
  <2>1. KVInv /\ r \in Seqs /\ text[r] \in Fed
    BY DEF EngineInv, KVInv, KVTypeOK, Requests
  <2>2. Private(r)
    BY DEF Feeds, Room, WritesArePrivate, Private
  <2>3. Len(text[r]) \in Nat
    BY <2>1 DEF Fed
  <2> QED BY <2>1, <2>2, <2>3 DEF Feeds
<1>2. Len(toks) > 0 /\ Len(text'[r]) = Len(text[r]) + Len(toks)
  BY <1>1, PrivateWrite
<1>3. Len(text'[r]) <= MaxLen
  <2>1. Len(text'[r]) <= Len(AllTokens(r))
    BY DEF Feeds, Starts
  <2>2. state[r] # "new"
    BY DEF EngineInv, LoopInv, RunningLive
  <2>3. PICK a \in Nat, b \in Nat, l \in Nat :
          a = Len(prompt[r]) /\ b = Len(out[r]) /\ l = limit[r] /\ Len(AllTokens(r)) = a + b
    <3>1. /\ Len(AllTokens(r)) = Len(prompt[r]) + Len(out[r]) /\ Len(prompt[r]) \in Nat
          /\ Len(out[r]) \in Nat
      BY Sizes DEF EngineInv
    <3>2. limit[r] \in Nat
      BY Parts DEF RequestTypes
    <3> QED BY <3>1, <3>2
  <2>4. a + l <= MaxLen /\ b <= l /\ MaxLen \in Nat
    BY <2>2, <2>3, KVAssumption DEF InLimit
  <2>5. a + b <= MaxLen
    BY <2>4
  <2>6. Len(text'[r]) <= a + b
    BY <2>1, <2>3
  <2>7. PICK n : n = Len(text'[r]) /\ n \in Nat
    <3>1. Len(toks) \in Nat
      OBVIOUS
    <3> QED BY <1>1, <1>2, <3>1
  <2>8. n <= MaxLen
    BY <2>4, <2>5, <2>6, <2>7
  <2> QED BY <2>7, <2>8
<1>4. toks \in Chunks
  <2>1. Len(toks) \in 1..MaxBatchedTokens
    BY <1>2, EngineAssumption
  <2> QED BY <2>1 DEF FeedsAll
<1>5. Len(text[r]) + Len(toks) <= MaxLen
  BY <1>2, <1>3
<1> QED BY <1>1, <1>4, <1>5 DEF KVNext

\* The passes of a step are such appends.
LEMMA PassImplements ==
  ASSUME FeedsAll, EngineInv, Plan, Room, OwnText, InLimit, InBudget, ExecuteChunk \/ DecodeWrite
  PROVE  KVNext
<1>1. CASE ExecuteChunk
  <2>1. PICK c \in Members(chunks), toks \in Seq(Tokens) :
          Feeds(c.req, toks) /\ Len(text'[c.req]) = c.start + c.take
    BY <1>1, ChunkFeeds
  <2>2. /\ c.req \in Requests /\ c.start = computed[c.req] /\ c.take \in Nat /\ c.start \in Nat
        /\ c.req \in Members(running)
    BY ChunkBehind
  <2>3. c.take <= MaxBatchedTokens
    BY DEF InBudget
  <2>4. Len(text[c.req]) = c.start /\ pc = "execute"
    BY <1>1, <2>1, <2>2, Standing DEF ExecuteChunk, Feeds
  <2>5. Len(text'[c.req]) = Len(text[c.req]) + Len(toks)
    <3>1. KVInv /\ c.req \in Seqs /\ Private(c.req) /\ Write(c.req, Len(text[c.req]), toks)
      BY <2>1, <2>2 DEF EngineInv, Requests, Feeds, Room, WritesArePrivate, Private
    <3>2. Len(text[c.req]) \in Nat /\ Len(text[c.req]) <= Len(text[c.req])
      BY <2>2, <2>4
    <3> QED BY <3>1, <3>2, PrivateWrite
  <2>6. Len(toks) \in Nat
    OBVIOUS
  <2>7. Len(toks) = c.take
    BY <2>1, <2>2, <2>4, <2>5, <2>6
  <2> QED BY <2>1, <2>2, <2>3, <2>7, FeedsChunk
<1>2. CASE DecodeWrite
  <2>1. PICK r \in Requests, toks \in Seq(Tokens) :
          r = Head(scan) /\ Feeds(r, toks) /\ Len(text'[r]) = computed[r] + 1
    BY <1>2, DecodeFeeds
  <2>2. r \in Members(scan) /\ pc = "batch"
    BY <1>2, <2>1, Parts, Taking DEF DecodeWrite
  <2>3. r \in Members(running) /\ Len(text[r]) = computed[r] /\ computed[r] \in Nat
    BY <2>1, <2>2, Parts DEF EngineInv, LoopInv, ScanRuns, OwnText, Ahead, Feeds, RequestTypes
  <2>4. Len(text'[r]) = Len(text[r]) + Len(toks)
    <3>1. KVInv /\ r \in Seqs /\ Private(r) /\ Write(r, Len(text[r]), toks)
      BY <2>1 DEF EngineInv, Requests, Feeds, Room, WritesArePrivate, Private
    <3>2. Len(text[r]) \in Nat /\ Len(text[r]) <= Len(text[r])
      BY <2>3
    <3> QED BY <3>1, <3>2, PrivateWrite
  <2>5. Len(toks) \in Nat
    OBVIOUS
  <2>6. Len(toks) = 1
    <3>1. PICK n \in Nat, k \in Nat : n = computed[r] /\ k = Len(toks) /\ n + k = n + 1
      BY <2>1, <2>3, <2>4, <2>5
    <3>2. k = 1
      BY <3>1
    <3> QED BY <3>1, <3>2
  <2>7. Len(toks) <= MaxBatchedTokens
    BY <2>6, EngineAssumption
  <2> QED BY <2>1, <2>3, <2>7, FeedsChunk
<1> QED BY <1>1, <1>2

\* Every step of the engine is a call its memory allows, or leaves the memory alone.
LEMMA EngineCalls ==
  ASSUME FeedsAll, EngineInv, Plan, Room, Own, Content, RunnersHold, InLimit, InBudget,
         [Next]_vars
  PROVE  [KVNext]_kvvars
<1> USE DEF Requests
<1>1. OwnText /\ OwnPlaces
  BY DEF Own, Content
<1>2. CASE UNCHANGED kvvars
  BY <1>2
<1>3. ASSUME NEW v \in Seqs, Release(v) PROVE KVNext
  BY <1>3 DEF KVNext
<1>4. ASSUME NEW n \in 1..MaxEvict, Evict(n) PROVE KVNext
  BY <1>4 DEF KVNext
<1>5. CASE \/ BeginStep \/ RoomMade \/ DecodeRetry \/ DecodesDone \/ PrefillScan \/ PrefillsDone
           \/ AdmitRefuse \/ Admit \/ AdmitDone \/ ProgressRetry \/ NothingToForce \/ BeginBatch
           \/ DecodeEmit \/ BeginRetire \/ RetireSkip \/ EndStep \/ UNCHANGED vars
  BY <1>2, <1>5 DEF BeginStep, RoomMade, DecodeRetry, DecodesDone, PrefillScan, PrefillsDone,
     AdmitRefuse, Admit, AdmitDone, ProgressRetry, NothingToForce, BeginBatch, DecodeEmit,
     BeginRetire, RetireSkip, EndStep, vars
<1>6. CASE DecodeScan \/ AdvanceHead
  BY <1>1, <1>2, <1>4, <1>6, RoomAsked
<1>7. CASE BreakStall
  BY <1>1, <1>4, <1>7, StallAsked
<1>8. CASE PreemptNewest
  <2>1. PICK i \in Victims : Release(running[i])
    BY <1>8 DEF PreemptNewest
  <2>2. running[i] \in Seqs
    BY <2>1, Parts DEF Victims
  <2> QED BY <1>3, <2>1, <2>2
<1>9. CASE CacheEviction
  BY <1>9 DEF CacheEviction, KVNext
<1>10. CASE AdmitOpen
  <2>1. Open(Head(waiting), prompt[Head(waiting)]) /\ waiting # <<>>
    BY <1>10 DEF AdmitOpen, MayAdmit
  <2>2. Head(waiting) \in Seqs /\ prompt[Head(waiting)] \in Prompts
    BY <2>1, HeadWaits
  <2> QED BY <2>1, <2>2 DEF KVNext
<1>11. CASE AdmitRollback
  <2>1. Release(Head(waiting)) /\ Head(waiting) \in Seqs
    BY <1>11, HeadWaits DEF AdmitRollback, MayAdmit
  <2> QED BY <1>3, <2>1
<1>12. CASE ExecuteChunk \/ DecodeWrite
  BY <1>1, <1>12, PassImplements
<1>13. CASE RetirePublish
  <2>1. PICK r \in Requests : r = Head(scan)
    BY <1>13, Parts, Taking DEF RetirePublish
  <2>2. UNCHANGED kvvars \/ Publish(r, AllTokens(r))
    BY <1>13, <2>1 DEF RetirePublish
  <2>3. CASE Publish(r, AllTokens(r))
    <3>1. Publish(r, text[r])
      BY <1>1, <2>3, PublishesOwn
    <3> QED BY <3>1 DEF KVNext
  <2> QED BY <1>2, <2>2, <2>3
<1>14. CASE RetireRelease
  <2>1. open \subseteq Seqs
    BY DEF EngineInv, KVInv, KVTypeOK
  <2>2. UNCHANGED kvvars \/ \E v \in Seqs : Release(v)
    BY <1>14, <2>1 DEF RetireRelease
  <2> QED BY <1>2, <1>3, <2>2
<1>15. CASE Clients
  <2>1. UNCHANGED kvvars \/ \E r \in Requests : Release(r)
    BY <1>15 DEF Clients, AddRequest, AbortRequest
  <2> QED BY <1>2, <1>3, <2>1
<1> QED BY <1>5, <1>6, <1>7, <1>8, <1>9, <1>10, <1>11, <1>12, <1>13, <1>14, <1>15
        DEF Next, EngineThread, Schedule, Execute

\* The engine is a client its KV memory allows, so what is proved of the memory under any such
\* client holds under the engine, unless the cache is used without chunked prefill.
THEOREM EngineImplementsKV ==
  ASSUME ChunkedOrUncached, FeedsAll
  PROVE  Spec => KVSpec
<1> DEFINE Held == EngineInv /\ Plan /\ Room /\ Own /\ Content /\ RunnersHold /\ WaitersWhole
                     /\ InLimit /\ InBudget
<1>1. Init => Held /\ KVInit
  <2> SUFFICES ASSUME Init PROVE Held /\ KVInit
    OBVIOUS
  <2>1. KVInit /\ EngineInv /\ Plan /\ Room /\ Own /\ Content
    BY EngineStarts, PlanStarts, RoomStarts, OwnStarts, InitContent DEF Init
  <2>2. RunnersHold /\ WaitersWhole
    BY LineStarts DEF Line, Hold
  <2>3. InLimit
    BY DEF Init, InLimit
  <2>4. InBudget
    <3>1. budget = 0 /\ Members(chunks) = {}
      BY DEF Init, Members
    <3> QED BY <3>1, EngineAssumption DEF InBudget
  <2> QED BY <2>1, <2>2, <2>3, <2>4
<1>2. Held /\ [Next]_vars => Held'
  <2> SUFFICES ASSUME Held, [Next]_vars PROVE Held'
    OBVIOUS
  <2>1. EngineInv' /\ Plan' /\ Room' /\ Own'
    BY EngineSteps, PlanSteps, RoomSteps, OwnSteps
  <2>2. Content' /\ RunnersHold' /\ WaitersWhole'
    BY <2>1, EngineContent, HoldSteps
  <2>3. InLimit' /\ InBudget'
    BY <2>1, LimitSteps, BudgetSteps
  <2> QED BY <2>1, <2>2, <2>3
<1>3. Held /\ [Next]_vars => [KVNext]_kvvars
  BY EngineCalls
<1> HIDE DEF Held
<1> QED BY <1>1, <1>2, <1>3, PTL DEF Spec, KVSpec
=============================================================================
