----------------------------- MODULE MultiPool -----------------------------
(***************************************************************************)
(* Placement on a heterogeneous fleet (fleet/multi_pool.py): place() picks *)
(* the pool with the lowest score among those with room, release() gives   *)
(* a place back.  Latencies are in tenths of a second, costs in tenths.     *)
(* The roofline times of a request on each pool are tables; a decode step  *)
(* reads the weights once and the KV of the whole batch.                   *)
(***************************************************************************)
EXTENDS Integers, FiniteSets, FiniteSetsExt

CONSTANTS
  Pools,        \* the pools whose memory fits the model, as 1, 2, ... by name
  Capacity,     \* max_concurrent_seqs * num_devices of each pool
  Cost,         \* relative_cost of each pool
  Requests,     \* request ids
  Slo,          \* slo_ms of each request
  Prefill,      \* per request and pool: the time of the prefill
  Decode        \* per request, pool and batch size: max_tokens decode steps

ASSUME PoolAssumption ==
  /\ Pools # {} /\ Pools \subseteq Nat \ {0}
  /\ Capacity \in [Pools -> Nat] /\ Cost \in [Pools -> Nat]
  /\ Slo \in [Requests -> Nat \ {0}] /\ Prefill \in [Requests -> [Pools -> Nat]]
  /\ \A q \in Requests, p \in Pools : \A b \in 1 .. Capacity[p] : Decode[q][p][b] \in Nat

VARIABLES
  active,    \* active_seqs of each pool
  assigned,  \* the set of requests in each pool's assigned list
  decision   \* the latest PlacementDecision, with what was considered

poolVars == <<active, assigned, decision>>

NoDecision == [request |-> 0, pool |-> 0, meets |-> FALSE, considered |-> {}, latencies |-> <<>>]

PoolInit ==
  /\ active = [p \in Pools |-> 0] /\ assigned = [p \in Pools |-> {}]
  /\ decision = NoDecision

Candidates == {p \in Pools : active[p] < Capacity[p]}

\* predict_latency_ms(): tokens_per_s is that of the whole batch, and
\* queueing is 1 + queue_weight * load * 10, with queue_weight 0.2.
LatencyAt(q, p, n) ==
  LET batch == IF n = 0 THEN 1 ELSE n IN
  ((Prefill[q][p] + Decode[q][p][batch] \div batch) * (Capacity[p] + 2 * n)) \div Capacity[p]
Latency(q, p) == LatencyAt(q, p, active[p])

\* 1000 * SLO times latency / SLO + 0.3 * cost * latency, in seconds, and 100
\* more when the latency exceeds the SLO.
Score_Lenient(q, p) ==   \* mutant: a penalty of 1
  1000 * Latency(q, p) + 3 * Cost[p] * Latency(q, p) * Slo[q]
    + (IF Latency(q, p) <= Slo[q] THEN 0 ELSE 1000 * Slo[q])
Score(q, p) ==
  1000 * Latency(q, p) + 3 * Cost[p] * Latency(q, p) * Slo[q]
    + (IF Latency(q, p) <= Slo[q] THEN 0 ELSE 100 * 1000 * Slo[q])

\* Ties are broken by the pool's name.
Best(q) ==
  CHOOSE p \in Candidates :
    \A o \in Candidates \ {p} :
      Score(q, p) < Score(q, o) \/ (Score(q, p) = Score(q, o) /\ p < o)

Place(q) ==
  /\ q \notin UNION {assigned[p] : p \in Pools}
  /\ IF Candidates = {}
     THEN /\ decision' = [NoDecision EXCEPT !.request = q]
          /\ UNCHANGED <<active, assigned>>
     ELSE /\ active' = [active EXCEPT ![Best(q)] = @ + 1]
          /\ assigned' = [assigned EXCEPT ![Best(q)] = @ \cup {q}]
          /\ decision' = [request |-> q, pool |-> Best(q),
                          meets |-> Latency(q, Best(q)) <= Slo[q],
                          considered |-> Candidates,
                          latencies |-> [p \in Candidates |-> Latency(q, p)]]

Release(q) ==
  /\ \E p \in Pools :
       /\ q \in assigned[p]
       /\ assigned' = [assigned EXCEPT ![p] = @ \ {q}]
       /\ active' = [active EXCEPT ![p] = IF @ = 0 THEN 0 ELSE @ - 1]
  /\ UNCHANGED decision

PoolNext == \E q \in Requests : Place(q) \/ Release(q)

PoolSpec == PoolInit /\ [][PoolNext]_poolVars

-----------------------------------------------------------------------------
\* A request misses its SLO only if every pool with room would miss it, as long
\* as the weighted cost of a pool that meets it stays under the penalty of 100.
SloFirst ==
  decision.pool # 0 /\ ~decision.meets =>
    \A p \in decision.considered : decision.latencies[p] > Slo[decision.request]
=============================================================================
