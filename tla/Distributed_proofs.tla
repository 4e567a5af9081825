------------------------- MODULE Distributed_proofs -------------------------
(***************************************************************************)
(* The two programs of distributed/: the ring all-reduce returns the full  *)
(* sum on every rank or an error, for any number of ranks, any size of the *)
(* links and any timeouts; and what a snapshot of the failure detector may *)
(* say, for any number of peers, any interval and threshold, and any wait  *)
(* for the lock.                                                           *)
(***************************************************************************)
EXTENDS RingAllReduce, HealthMonitor, FiniteSetTheorems, TLAPS, WellFoundedInduction

-----------------------------------------------------------------------------
(* The inductive invariant.                                                *)

RingPlaces ==
  {"idle", "start", "connect", "accept", "send", "recv", "returned", "failed", "gone"}

RingTypeOK ==
  /\ driver \in {"idle", "joining", "error", "results"}
  /\ place \in [Rank -> RingPlaces]
  /\ steps \in [Rank -> 0 .. 2 * (N - 1)]
  /\ chunks \in [Rank -> [Rank -> [Rank -> Nat]]]
  /\ wire \in [Rank -> Seq([Rank -> Nat])]

\* How many hops round the ring q's values need to reach r.
Dist(r, q) == Wrap(r - q)

\* The sum of the contributions of r and the d ranks before it.
Acc(r, d) == [q \in Rank |-> IF Dist(r, q) <= d THEN 1 ELSE 0]
Full == [q \in Rank |-> 1]

\* A rank sends one chunk, then receives one.
SentSoFar ==
  \A r \in Rank :
    /\ place[r] \in {"idle", "start", "connect", "accept", "send"} => Len(wire[r]) = steps[r]
    /\ place[r] \in {"idle", "start", "connect", "accept"} => steps[r] = 0
    /\ place[r] = "send" => steps[r] < 2 * (N - 1)
    /\ place[r] = "recv" => steps[r] < 2 * (N - 1) /\ Len(wire[r]) = steps[r] + 1
    /\ place[r] = "returned" => steps[r] = 2 * (N - 1) /\ Len(wire[r]) = steps[r]

\* The k-th chunk a rank sends ...
Sent(r, k) == IF k <= N - 1 THEN Acc(r, k - 1) ELSE Full
WireSums == \A r \in Rank : \A k \in 1 .. Len(wire[r]) : wire[r][k] = Sent(r, k)

\* ... and the chunk d places behind its own once it has received s.
Held(r, d, s) ==
  IF s < N - 1 THEN IF d <= s THEN Acc(r, d) ELSE Own(r)
  ELSE IF d < s - (N - 1) \/ d = N - 1 THEN Full ELSE Acc(r, d)
ChunkSums == \A r, c \in Rank : chunks[r][c] = Held(r, Dist(r, c), steps[r])

DriverWaits ==
  /\ driver = "idle" => \A r \in Rank : place[r] = "idle"
  /\ driver = "results" => \A r \in Rank : place[r] = "returned"

RingInv == RingTypeOK /\ SentSoFar /\ WireSums /\ ChunkSums /\ DriverWaits

-----------------------------------------------------------------------------
(* Arithmetic of the ring.                                                 *)

\* The neighbours of a rank are ranks, and each other's neighbours.
LEMMA Neighbours ==
  ASSUME NEW r \in Rank
  PROVE  /\ NextRank(r) \in Rank /\ PrevRank(r) \in Rank
         /\ NextRank(PrevRank(r)) = r /\ PrevRank(NextRank(r)) = r
  BY RingAssumption DEF Rank, NextRank, PrevRank, Wrap

\* Distances are ranks; only a rank itself is at distance 0.
LEMMA Distances ==
  ASSUME NEW r \in Rank, NEW q \in Rank
  PROVE  /\ Dist(r, q) \in Rank /\ (Dist(r, q) = 0 <=> q = r)
         /\ Dist(PrevRank(r), q) = (IF q = r THEN N - 1 ELSE Dist(r, q) - 1)
  BY RingAssumption DEF Rank, Dist, PrevRank, Wrap

\* Counting d chunks back from a rank leads to the chunk at distance d.
LEMMA Behind ==
  ASSUME NEW r \in Rank, NEW d \in Rank
  PROVE  /\ Wrap(r - d) \in Rank /\ Dist(r, Wrap(r - d)) = d
         /\ \A c \in Rank : c = Wrap(r - d) <=> Dist(r, c) = d
  BY RingAssumption DEF Rank, Dist, Wrap

\* A rank's own values, all values, and one addition of reduce-scatter.
LEMMA Sums ==
  ASSUME NEW r \in Rank
  PROVE  /\ Own(r) \in [Rank -> Nat] /\ Full \in [Rank -> Nat]
         /\ \A d \in Nat : Acc(r, d) \in [Rank -> Nat]
         /\ Acc(r, 0) = Own(r) /\ Acc(r, N - 1) = Full
         /\ \A s \in 0 .. N - 2 : Plus(Own(r), Acc(PrevRank(r), s)) = Acc(r, s + 1)
<1>1. /\ Own(r) \in [Rank -> Nat] /\ Full \in [Rank -> Nat]
      /\ \A d \in Nat : Acc(r, d) \in [Rank -> Nat]
  BY DEF Own, Full, Acc
<1>2. Acc(r, 0) = Own(r)
  <2>1. \A q \in Rank : Dist(r, q) <= 0 <=> q = r
    BY Distances, RingAssumption DEF Rank
  <2> QED BY <2>1 DEF Acc, Own
<1>3. Acc(r, N - 1) = Full
  <2>1. \A q \in Rank : Dist(r, q) <= N - 1
    BY Distances, RingAssumption DEF Rank
  <2> QED BY <2>1 DEF Acc, Full
<1>4. ASSUME NEW s \in 0 .. N - 2
      PROVE  Plus(Own(r), Acc(PrevRank(r), s)) = Acc(r, s + 1)
  <2>1. ASSUME NEW q \in Rank
        PROVE  (IF q = r THEN 1 ELSE 0) + (IF Dist(PrevRank(r), q) <= s THEN 1 ELSE 0)
                 = IF Dist(r, q) <= s + 1 THEN 1 ELSE 0
    BY SMTT(30), Distances, RingAssumption DEF Rank
  <2> QED BY <2>1 DEF Plus, Own, Acc
<1> QED BY <1>1, <1>2, <1>3, <1>4

\* The chunks sent and received at step s, by their distance: what was
\* received last is sent next.
LEMMA Indices ==
  ASSUME NEW r \in Rank, steps[r] \in 0 .. 2 * (N - 1) - 1
  PROVE  LET s == steps[r]
             out == IF s < N - 1 THEN s ELSE IF s = N - 1 THEN N - 1 ELSE s - N
             in == IF s < N - 1 THEN s + 1 ELSE s - (N - 1)
         IN /\ SendIdx(r) \in Rank /\ Dist(r, SendIdx(r)) = out
            /\ RecvIdx(r) \in Rank /\ in \in Rank
            /\ \A c \in Rank : c = RecvIdx(r) <=> Dist(r, c) = in
  BY RingAssumption DEF Rank, Dist, Wrap, SendIdx, RecvIdx

\* One received chunk moves a rank from s to s + 1 and leaves the others as
\* they were; the last addition of reduce-scatter makes a full sum.
LEMMA OneStep ==
  ASSUME NEW r \in Rank, NEW d \in Rank, NEW s \in 0 .. 2 * (N - 1) - 1
  PROVE  Held(r, d, s + 1) =
           IF s < N - 1 THEN IF d = s + 1 THEN Acc(r, s + 1) ELSE Held(r, d, s)
           ELSE IF d = s - (N - 1) THEN Full ELSE Held(r, d, s)
<1>1. Acc(r, N - 1) = Full
  BY Sums
<1>2. CASE s + 1 < N - 1
  BY <1>2, RingAssumption DEF Held, Rank
<1>3. CASE s + 1 = N - 1
  <2>1. s = N - 2 /\ s < N - 1
    BY <1>3, RingAssumption
  <2>2. CASE d = N - 1
    BY <1>1, <2>1, <2>2, RingAssumption DEF Held
  <2>3. CASE d # N - 1
    BY <2>1, <2>3, RingAssumption DEF Held, Rank
  <2> QED BY <2>2, <2>3
<1>4. CASE s + 1 > N - 1
  BY <1>4, RingAssumption DEF Held, Rank
<1> QED BY <1>2, <1>3, <1>4, RingAssumption

-----------------------------------------------------------------------------
(* Every step preserves the invariant.                                     *)

LEMMA RingInitInv == RingInit => RingInv
<1> SUFFICES ASSUME RingInit PROVE RingInv
  OBVIOUS
<1> USE DEF RingInit
<1>1. RingTypeOK
  BY Sums, RingAssumption DEF RingTypeOK, RingPlaces
<1>2. SentSoFar /\ WireSums /\ DriverWaits
  BY DEF SentSoFar, WireSums, DriverWaits
<1>3. ChunkSums
  <2> SUFFICES ASSUME NEW r \in Rank, NEW c \in Rank
               PROVE  Own(r) = Held(r, Dist(r, c), 0)
    BY DEF ChunkSums
  <2>1. Dist(r, c) \in 0 .. N - 1
    BY Distances DEF Rank
  <2> QED BY <2>1, Sums, RingAssumption DEF Held
<1> QED BY <1>1, <1>2, <1>3 DEF RingInv

\* Steps that move no chunk: only the places of ranks and the driver change.
LEMMA QuietInv ==
  ASSUME RingInv, UNCHANGED <<steps, chunks, wire>>,
         driver' \in {"idle", "joining", "error", "results"},
         place' \in [Rank -> RingPlaces], SentSoFar', DriverWaits'
  PROVE  RingInv'
  BY DEF RingInv, RingTypeOK, WireSums, ChunkSums

LEMMA SendInv ==
  ASSUME RingInv, NEW r \in Rank, SendMsg(r)
  PROVE  RingInv'
<1> USE DEF RingInv
<1> DEFINE sum == chunks[r][SendIdx(r)]
<1>1. steps[r] \in 0 .. 2 * (N - 1) - 1 /\ Len(wire[r]) = steps[r]
  BY RingAssumption DEF SendMsg, SentSoFar, RingTypeOK
<1>2. SendIdx(r) \in Rank /\ sum \in [Rank -> Nat]
  BY <1>1, Indices DEF RingTypeOK
<1>3. sum = Sent(r, steps[r] + 1)
  <2>1. sum = Held(r, Dist(r, SendIdx(r)), steps[r])
    BY <1>2 DEF ChunkSums
  <2>2. CASE steps[r] < N - 1
    <3>1. Dist(r, SendIdx(r)) = steps[r]
      BY <1>1, <2>2, Indices
    <3> QED BY <1>1, <2>1, <2>2, <3>1, RingAssumption DEF Held, Sent
  <2>3. CASE ~(steps[r] < N - 1)
    <3>1. Dist(r, SendIdx(r)) = IF steps[r] = N - 1 THEN N - 1 ELSE steps[r] - N
      BY <1>1, <2>3, Indices
    <3> QED BY <1>1, <2>1, <2>3, <3>1, RingAssumption DEF Held, Sent
  <2> QED BY <2>2, <2>3
<1>4. wire' = [wire EXCEPT ![r] = Append(@, sum)] /\ UNCHANGED <<driver, steps, chunks>>
      /\ place' = [place EXCEPT ![r] = "recv"] /\ place[r] = "send"
  BY DEF SendMsg, Goes
<1>5. RingTypeOK'
  <2>1. wire' \in [Rank -> Seq([Rank -> Nat])]
    BY <1>2, <1>4 DEF RingTypeOK
  <2>2. place' \in [Rank -> RingPlaces]
    BY <1>4 DEF RingTypeOK, RingPlaces
  <2> QED BY <1>4, <2>1, <2>2 DEF RingTypeOK
<1>6. SentSoFar'
  BY <1>1, <1>2, <1>4, RingAssumption DEF SentSoFar, RingTypeOK
<1>7. WireSums'
  <2> SUFFICES ASSUME NEW q \in Rank, NEW k \in 1 .. Len(wire'[q])
               PROVE  wire'[q][k] = Sent(q, k)
    BY DEF WireSums
  <2>1. CASE q = r
    BY <1>1, <1>2, <1>3, <1>4, <2>1 DEF WireSums, RingTypeOK
  <2>2. CASE q # r
    BY <1>4, <2>2 DEF WireSums, RingTypeOK
  <2> QED BY <2>1, <2>2
<1>8. ChunkSums' /\ DriverWaits'
  BY <1>4 DEF ChunkSums, DriverWaits, RingTypeOK
<1> QED BY <1>5, <1>6, <1>7, <1>8

LEMMA RecvInv ==
  ASSUME RingInv, NEW r \in Rank, RecvMsg(r)
  PROVE  RingInv'
<1> USE DEF RingInv
<1> DEFINE s == steps[r]
           p == PrevRank(r)
           incoming == wire[p][s + 1]
           new == IF s < N - 1 THEN Plus(chunks[r][RecvIdx(r)], incoming) ELSE incoming
           in == IF s < N - 1 THEN s + 1 ELSE s - (N - 1)
<1>1. s \in 0 .. 2 * (N - 1) - 1 /\ p \in Rank
  BY Neighbours, RingAssumption DEF RecvMsg, SentSoFar, RingTypeOK
<1>2. RecvIdx(r) \in Rank /\ in \in Rank /\ \A c \in Rank : c = RecvIdx(r) <=> Dist(r, c) = in
  BY <1>1, Indices
<1>3. /\ chunks' = [chunks EXCEPT ![r][RecvIdx(r)] = new]
      /\ steps' = [steps EXCEPT ![r] = s + 1]
      /\ place[r] = "recv" /\ UNCHANGED <<driver, wire>>
      /\ place' = [place EXCEPT ![r] = IF s + 1 = 2 * (N - 1) THEN "returned" ELSE "send"]
  BY DEF RecvMsg, Goes
<1>4. incoming = Sent(p, s + 1)
  <2>1. s + 1 \in 1 .. Len(wire[p])
    <3>1. Len(wire[p]) \in Nat
      BY <1>1 DEF RingTypeOK
    <3>2. Len(wire[p]) > s
      BY DEF RecvMsg, Arrived
    <3> QED BY <1>1, <3>1, <3>2, RingAssumption
  <2> QED BY <1>1, <2>1 DEF WireSums
<1>5. new = Held(r, in, s + 1) /\ new \in [Rank -> Nat]
  <2>1. CASE s < N - 1
    <3>1. chunks[r][RecvIdx(r)] = Own(r)
      BY <1>1, <1>2, <2>1, RingAssumption DEF ChunkSums, Held
    <3>2. new = Acc(r, s + 1)
      BY <1>1, <1>4, <2>1, <3>1, Sums, RingAssumption DEF Sent
    <3>3. Held(r, in, s + 1) = Acc(r, s + 1)
      BY <1>1, <1>2, <2>1, OneStep
    <3> QED BY SMTT(30), <1>1, <3>2, <3>3, Sums
  <2>2. CASE ~(s < N - 1)
    <3>1. new = Full
      BY <1>1, <1>4, <2>2, RingAssumption DEF Sent
    <3>2. Held(r, in, s + 1) = Full
      BY <1>1, <1>2, <2>2, OneStep
    <3> QED BY <3>1, <3>2, Sums
  <2> QED BY <2>1, <2>2
<1>6. RingTypeOK'
  <2>1. chunks' \in [Rank -> [Rank -> [Rank -> Nat]]]
    BY <1>2, <1>3, <1>5 DEF RingTypeOK
  <2>2. steps' \in [Rank -> 0 .. 2 * (N - 1)]
    <3>1. s + 1 \in 0 .. 2 * (N - 1)
      BY <1>1, RingAssumption
    <3> HIDE DEF s
    <3> QED BY <1>3, <3>1 DEF RingTypeOK
  <2>3. place' \in [Rank -> RingPlaces]
    BY <1>3 DEF RingTypeOK, RingPlaces
  <2> QED BY <1>3, <2>1, <2>2, <2>3 DEF RingTypeOK
<1>7. SentSoFar'
  <2>1. ASSUME NEW q \in Rank, q # r
        PROVE  place'[q] = place[q] /\ steps'[q] = steps[q] /\ wire'[q] = wire[q]
    BY <1>3, <2>1 DEF RingTypeOK
  <2>2. /\ steps'[r] = s + 1 /\ wire'[r] = wire[r] /\ Len(wire[r]) = s + 1
        /\ place'[r] = IF s + 1 = 2 * (N - 1) THEN "returned" ELSE "send"
    BY <1>3 DEF RingTypeOK, SentSoFar
  <2> QED BY <1>1, <2>1, <2>2, RingAssumption DEF SentSoFar
<1>8. WireSums' /\ DriverWaits'
  BY <1>3 DEF WireSums, DriverWaits, RingTypeOK
<1>9. ChunkSums'
  <2> SUFFICES ASSUME NEW q \in Rank, NEW c \in Rank
               PROVE  chunks'[q][c] = Held(q, Dist(q, c), steps'[q])
    BY DEF ChunkSums
  <2>1. CASE q # r
    BY <1>3, <2>1 DEF ChunkSums, RingTypeOK
  <2>2. CASE q = r /\ c = RecvIdx(r)
    BY <1>1, <1>2, <1>3, <1>5, <2>2 DEF RingTypeOK
  <2>3. CASE q = r /\ c # RecvIdx(r)
    <3>1. chunks'[r][c] = Held(r, Dist(r, c), s) /\ steps'[r] = s + 1
      BY <1>3, <2>3 DEF ChunkSums, RingTypeOK
    <3>2. Dist(r, c) # in /\ Dist(r, c) \in 0 .. N - 1
      BY <1>2, <2>3, Distances DEF Rank
    <3>3. Held(r, Dist(r, c), s) = Held(r, Dist(r, c), s + 1)
      BY <1>1, <3>2, OneStep DEF Rank
    <3> QED BY <2>3, <3>1, <3>3
  <2> QED BY <2>1, <2>2, <2>3
<1> QED BY <1>6, <1>7, <1>8, <1>9

LEMMA RingNextInv == RingInv /\ [RingNext]_ringVars => RingInv'
<1> SUFFICES ASSUME RingInv, [RingNext]_ringVars PROVE RingInv'
  OBVIOUS
<1> USE DEF RingInv
<1>1. CASE RunAllReduce
  <2>1. \A r \in Rank : place[r] = "idle"
    BY <1>1 DEF RunAllReduce, DriverWaits
  <2> QED BY <1>1, <2>1, QuietInv
          DEF RunAllReduce, SentSoFar, DriverWaits, RingTypeOK, RingPlaces
<1>2. CASE JoinRanks \/ JoinTimesOut
  <2>1. UNCHANGED <<place, steps, chunks, wire>> /\ SentSoFar'
        /\ driver' \in {"idle", "joining", "error", "results"} /\ DriverWaits'
    BY <1>2 DEF JoinRanks, JoinTimesOut, SentSoFar, DriverWaits
  <2> QED BY <2>1, QuietInv DEF RingTypeOK
<1>3. ASSUME NEW r \in Rank,
             SplitChunks(r) \/ ConnectNext(r) \/ AcceptPrev(r) \/ SendFails(r) \/ RecvFails(r)
               \/ Timeout(r) \/ TimeoutEarly(r)
      PROVE  RingInv'
  <2>1. PICK p \in RingPlaces :
          /\ place' = [place EXCEPT ![r] = p]
          /\ UNCHANGED <<driver, steps, chunks, wire>>
          /\ place[r] \notin {"idle", "returned"}
          /\ \/ p \in {"failed", "gone"}
             \/ p \in {"connect", "accept"} /\ place[r] \in {"start", "connect"}
             \/ p = "send" /\ place[r] = "accept"
    BY <1>3 DEF SplitChunks, ConnectNext, AcceptPrev, SendFails, RecvFails, Timeout,
                TimeoutEarly, TimesOut, Blocked, Goes, RingPlaces
  <2>2. DriverWaits'
    BY <2>1 DEF DriverWaits, RingTypeOK
  <2>3. \A q \in Rank : place'[q] = (IF q = r THEN p ELSE place[q])
    BY <2>1 DEF RingTypeOK
  <2>4. SentSoFar'
    BY <2>1, <2>3, RingAssumption DEF SentSoFar
  <2> QED BY <2>1, <2>2, <2>4, QuietInv DEF RingTypeOK
<1>4. CASE UNCHANGED ringVars
  BY <1>4, QuietInv DEF ringVars, RingTypeOK, SentSoFar, DriverWaits
<1> QED BY <1>1, <1>2, <1>3, <1>4, SendInv, RecvInv DEF RingNext, RunNode

-----------------------------------------------------------------------------
(* The theorems.                                                           *)

\* Every chunk that is sent or held is the sum its place in the ring and the
\* steps taken call for, whatever ranks have failed: a late or missing
\* neighbour never leads to a wrong sum, only to none.
THEOREM RingInvHolds == RingSpec => []RingInv
  BY RingInitInv, RingNextInv, PTL DEF RingSpec

\* When all steps are taken, every chunk is the full sum.
LEMMA ReturnedFull ==
  ASSUME RingInv, NEW r \in Rank, place[r] = "returned"
  PROVE  chunks[r] = [c \in Rank |-> Full]
<1>1. ASSUME NEW c \in Rank PROVE chunks[r][c] = Full
  <2>1. steps[r] = 2 * (N - 1)
    BY DEF RingInv, SentSoFar
  <2>2. Dist(r, c) \in 0 .. N - 1
    BY Distances DEF Rank
  <2> QED BY <2>1, <2>2, RingAssumption DEF RingInv, ChunkSums, Held
<1> QED BY <1>1 DEF RingInv, RingTypeOK

\* The caller of run_ring_allreduce() gets an error or the full sum in every
\* chunk of every rank, and gets it once.
THEOREM RingImplementsAllReduce ==
  RingSpec => Collective!Init /\ [][Collective!Next]_<<driver, Results>>
<1>1. RingInit => Collective!Init
  BY DEF RingInit, Collective!Init, Results
<1>2. ASSUME RingInv, RingInv', [RingNext]_ringVars
      PROVE  [Collective!Next]_<<driver, Results>>
  <2> USE DEF Collective!Next, Collective!Ask, Collective!Fail, Collective!Succeed, Results
  <2>1. CASE RunAllReduce
    BY <2>1 DEF RunAllReduce
  <2>2. CASE JoinRanks
    <3>1. CASE \A r \in Rank : place[r] = "returned"
      <4>1. chunks' = [r \in Rank |-> [c \in Rank |-> Full]]
        BY <1>2, <2>2, <3>1, ReturnedFull DEF JoinRanks, RingInv, RingTypeOK
      <4> QED BY <2>2, <3>1, <4>1 DEF JoinRanks, Full, Collective!Rank, Collective!Full, Rank
    <3>2. CASE ~ \A r \in Rank : place[r] = "returned"
      BY <2>2, <3>2 DEF JoinRanks
    <3> QED BY <3>1, <3>2
  <2>3. CASE JoinTimesOut
    BY <2>3 DEF JoinTimesOut
  <2>4. CASE UNCHANGED driver
    <3>1. driver = "results" => UNCHANGED chunks
      <4>1. CASE driver = "results"
        <5>1. \A r \in Rank : place[r] = "returned"
          BY <1>2, <4>1 DEF RingInv, DriverWaits
        <5> QED BY <1>2, <4>1, <5>1
                DEF RingNext, RunAllReduce, JoinRanks, JoinTimesOut, RunNode, SplitChunks,
                    ConnectNext, AcceptPrev, SendMsg, SendFails, RecvMsg, RecvFails, Timeout,
                    TimeoutEarly, TimesOut, ringVars
      <4> QED BY <4>1
    <3> QED BY <2>4, <3>1
  <2>5. ASSUME NEW r \in Rank, RunNode(r) \/ TimeoutEarly(r)
        PROVE  UNCHANGED driver
    BY <2>5 DEF RunNode, SplitChunks, ConnectNext, AcceptPrev, SendMsg, SendFails, RecvMsg,
                RecvFails, Timeout, TimeoutEarly, TimesOut
  <2> QED BY <1>2, <2>1, <2>2, <2>3, <2>4, <2>5 DEF RingNext, ringVars
<1> QED BY <1>1, <1>2, RingInvHolds, PTL DEF RingSpec
-----------------------------------------------------------------------------
(* No rank fails without a cause.                                          *)

\* A rank does not receive more than was sent to it.
Consumed == \A r \in Rank : steps[r] <= Len(wire[PrevRank(r)])

SmallTypeOK ==
  few \in BOOLEAN /\ room \in Nat /\ late \in Nat /\ (driver = "idle" => room = 0)

\* Nothing is in the way of the ranks, and none has failed.
Trouble == few \/ room = 0 \/ late > 0
Smooth == driver # "error" /\ \A r \in Rank : place[r] \notin {"failed", "gone"}

CauseInv == RingInv /\ SmallTypeOK /\ Consumed /\ (Trouble \/ Smooth)

Less == {p \in Nat \X Nat : p[1] < p[2]}
LEMMA LessWellFounded == IsWellFoundedOn(Less, Nat)
<1>1. IsWellFoundedOn({p \in Nat \X Nat : p[1] < p[2]}, Nat)
  BY NatLessThanWellFounded DEF OpToRel
<1> QED BY <1>1 DEF Less

\* Some rank has made the fewest steps.
LEMMA SlowestRank ==
  ASSUME RingTypeOK
  PROVE  \E m \in Rank : \A q \in Rank : steps[m] <= steps[q]
<1> DEFINE T == {steps[q] : q \in Rank}
<1>1. T \subseteq Nat /\ T # {}
  <2>1. 0 \in Rank
    BY RingAssumption DEF Rank
  <2>2. \A q \in Rank : steps[q] \in Nat
    BY RingAssumption DEF RingTypeOK
  <2> QED BY <2>1, <2>2
<1>2. PICK x \in T : \A y \in T : ~(<<y, x>> \in Less)
  BY <1>1, LessWellFounded, WFMin
<1>3. ASSUME NEW y \in T PROVE x <= y
  <2>1. ~(<<y, x>> \in Less)
    BY <1>2
  <2>2. x \in Nat /\ y \in Nat
    BY <1>1
  <2> QED BY <2>1, <2>2 DEF Less
<1> QED BY <1>2, <1>3

\* The ranks never wait for each other in a circle: were all of them blocked or
\* done, the slowest one could go on, or the one before it could.
LEMMA NeverAllBlocked ==
  ASSUME RingInv, SmallTypeOK, Smooth, ~Trouble, NEW r \in Rank, Blocked(r),
         \A q \in Rank : Blocked(q) \/ Ended(q)
  PROVE  FALSE
<1> USE DEF RingInv, RingTypeOK
<1>1. PICK m \in Rank : \A q \in Rank : steps[m] <= steps[q]
  BY SlowestRank
<1>2. \A q \in Rank :
        \/ place[q] = "returned"
        \/ place[q] = "send" /\ ~Sendable(q)
        \/ place[q] = "recv" /\ ~Arrived(q) /\ ~HasClosed(PrevRank(q))
  <2>1. \A q \in Rank : place[q] \notin {"start", "connect"}
    BY DEF Blocked, Ended
  <2> QED BY <2>1, Neighbours DEF Blocked, Ended, Smooth
<1>3. CASE place[m] = "returned"
  <2>1. \A q \in Rank : steps[q] = 2 * (N - 1)
    BY <1>1, <1>3, RingAssumption DEF SentSoFar
  <2>2. place[r] = "returned"
    BY <1>2, <2>1, RingAssumption DEF SentSoFar
  <2> QED BY <2>2 DEF Blocked
<1>4. CASE place[m] = "send" /\ ~Sendable(m)
  <2>1. Len(wire[m]) = steps[m] /\ room \in Nat /\ room # 0
    BY <1>4 DEF SentSoFar, SmallTypeOK, Trouble
  <2>2. steps[m] <= steps[NextRank(m)] /\ steps[m] \in Nat /\ steps[NextRank(m)] \in Nat
    BY <1>1, Neighbours, RingAssumption
  <2>3. \A a, b, c \in Nat : a <= b /\ c # 0 => a - b < c
    OBVIOUS
  <2>4. ~(steps[m] - steps[NextRank(m)] < room)
    BY <1>4, <2>1 DEF Sendable
  <2> QED BY <2>1, <2>2, <2>3, <2>4
<1>5. CASE place[m] = "recv" /\ ~Arrived(m) /\ ~HasClosed(PrevRank(m))
  <2> DEFINE p == PrevRank(m)
  <2>1. p \in Rank /\ NextRank(p) = m
    BY Neighbours
  <2>2. Len(wire[p]) <= steps[m] /\ steps[m] <= steps[p]
        /\ Len(wire[p]) \in Nat /\ steps[p] \in Nat /\ steps[m] \in Nat
    <3>1. wire[p] \in Seq([Rank -> Nat]) /\ steps[p] \in Nat /\ steps[m] \in Nat
      BY <2>1, RingAssumption
    <3>2. Len(wire[p]) \in Nat
      BY <3>1
    <3>3. ~(Len(wire[p]) > steps[m])
      BY <1>5 DEF Arrived
    <3>4. steps[m] <= steps[p]
      BY <1>1, <2>1
    <3> HIDE DEF p
    <3> QED BY <3>1, <3>2, <3>3, <3>4
  <2>3. place[p] = "send" /\ ~Sendable(p)
    <3>1. place[p] # "returned"
      BY <1>5 DEF HasClosed
    <3>2. place[p] # "recv"
      BY <2>1, <2>2 DEF SentSoFar
    <3> QED BY <1>2, <2>1, <3>1, <3>2
  <2>4. Len(wire[p]) = steps[p] /\ ~(Len(wire[p]) - steps[m] < room)
    BY <2>1, <2>3 DEF SentSoFar, Sendable
  <2>5. room \in Nat /\ room # 0
    BY DEF SmallTypeOK, Trouble
  <2>6. \A a, b, c \in Nat : a <= b /\ c # 0 => a - b < c
    OBVIOUS
  <2> HIDE DEF p
  <2> QED BY <2>2, <2>4, <2>5, <2>6
<1> QED BY <1>2, <1>3, <1>4, <1>5

\* A neighbour that has closed its sockets is done: it has sent and received
\* everything.
LEMMA ClosedIsDone ==
  ASSUME RingInv, Smooth, Consumed, NEW r \in Rank
  PROVE  ~SendFails(r) /\ ~RecvFails(r)
<1> USE DEF RingInv, RingTypeOK
<1>1. ASSUME SendFails(r) PROVE FALSE
  <2>1. place[NextRank(r)] = "returned"
    BY <1>1, Neighbours DEF SendFails, HasClosed, Smooth
  <2>2. steps[NextRank(r)] = 2 * (N - 1) /\ steps[NextRank(r)] <= Len(wire[r])
    BY <2>1, Neighbours DEF SentSoFar, Consumed
  <2>3. Len(wire[r]) = steps[r] /\ steps[r] < 2 * (N - 1)
    BY <1>1 DEF SendFails, SentSoFar
  <2> QED BY <2>2, <2>3, RingAssumption
<1>2. ASSUME RecvFails(r) PROVE FALSE
  <2> DEFINE p == PrevRank(r)
  <2>1. p \in Rank /\ place[p] = "returned"
    BY <1>2, Neighbours DEF RecvFails, HasClosed, Smooth
  <2>2. Len(wire[p]) = 2 * (N - 1)
    BY <2>1 DEF SentSoFar
  <2>3. steps[r] < 2 * (N - 1) /\ Len(wire[p]) <= steps[r]
    BY <1>2, <2>1, <2>2, RingAssumption DEF RecvFails, Arrived, SentSoFar
  <2> QED BY <2>2, <2>3, RingAssumption
<1> QED BY <1>1, <1>2

LEMMA CauseInvInit == RingInit => CauseInv
<1> SUFFICES ASSUME RingInit PROVE CauseInv
  OBVIOUS
<1>1. RingInv
  BY RingInitInv
<1>2. Consumed
  BY Neighbours DEF RingInit, Consumed
<1> QED BY <1>1, <1>2 DEF RingInit, CauseInv, SmallTypeOK, Trouble

LEMMA ConsumedNext ==
  ASSUME RingInv, Consumed, [RingNext]_ringVars
  PROVE  Consumed'
<1> USE DEF RingInv, RingTypeOK
<1> SUFFICES ASSUME NEW q \in Rank PROVE (steps[q] <= Len(wire[PrevRank(q)]))'
  BY DEF Consumed
<1> DEFINE p == PrevRank(q)
<1>1. /\ p \in Rank /\ steps[q] \in Nat /\ wire[p] \in Seq([Rank -> Nat])
      /\ Len(wire[p]) \in Nat /\ steps[q] <= Len(wire[p])
  <2>1. p \in Rank
    BY Neighbours
  <2>2. steps[q] \in Nat /\ wire[p] \in Seq([Rank -> Nat]) /\ steps[q] <= Len(wire[p])
    BY <2>1, RingAssumption DEF Consumed
  <2> QED BY <2>1, <2>2
<1>2. CASE UNCHANGED <<steps, wire>>
  BY <1>1, <1>2
<1>3. ASSUME NEW r \in Rank, SendMsg(r) PROVE steps'[q] <= Len(wire'[p])
  <2> DEFINE x == chunks[r][SendIdx(r)]
  <2>1. steps' = steps /\ wire' = [wire EXCEPT ![r] = Append(wire[r], x)]
    BY <1>3 DEF SendMsg
  <2>2. CASE p = r
    <3>1. wire'[p] = Append(wire[p], x)
      BY <1>1, <2>1, <2>2
    <3> HIDE DEF x
    <3>2. wire[p] \in Seq([Rank -> Nat]) => Len(Append(wire[p], x)) = Len(wire[p]) + 1
      OBVIOUS
    <3> QED BY <1>1, <2>1, <3>1, <3>2
  <2>3. CASE p # r
    BY <1>1, <2>1, <2>3
  <2> QED BY <2>2, <2>3
<1>4. ASSUME NEW r \in Rank, RecvMsg(r) PROVE steps'[q] <= Len(wire'[p])
  <2>1. wire' = wire /\ steps'[q] = IF q = r THEN steps[q] + 1 ELSE steps[q]
    BY <1>4 DEF RecvMsg
  <2>2. q = r => Len(wire[p]) > steps[q]
    BY <1>4 DEF RecvMsg, Arrived
  <2> QED BY <1>1, <2>1, <2>2
<1> QED BY <1>2, <1>3, <1>4
        DEF RingNext, RunNode, RunAllReduce, JoinRanks, JoinTimesOut, SplitChunks, ConnectNext,
            AcceptPrev, SendFails, RecvFails, Timeout, TimeoutEarly, TimesOut, ringVars

LEMMA SmoothNext ==
  ASSUME CauseInv, [RingNext]_ringVars
  PROVE  SmallTypeOK' /\ (Trouble \/ Smooth)'
<1> USE DEF CauseInv, RingInv, RingTypeOK, SmallTypeOK, Trouble
<1>1. CASE RunAllReduce
  <2>1. driver' = "error" => room' = 0
    BY <1>1 DEF RunAllReduce
  <2>2. driver' # "error" => driver' = "joining" /\ place' = [r \in Rank |-> "start"]
    BY <1>1 DEF RunAllReduce
  <2>3. few' \in BOOLEAN /\ room' \in Nat /\ late' = late /\ driver' # "idle"
    BY <1>1, RingAssumption DEF RunAllReduce
  <2> QED BY <2>1, <2>2, <2>3 DEF Smooth
<1>2. CASE JoinRanks
  <2>1. Smooth => driver' = "results"
    BY <1>2 DEF JoinRanks, Smooth, Ended
  <2> QED BY <1>2, <2>1 DEF JoinRanks, Smooth
<1>3. CASE JoinTimesOut
  BY <1>3, RingAssumption DEF JoinTimesOut
<1>4. ASSUME NEW r \in Rank, TimeoutEarly(r) PROVE SmallTypeOK' /\ (Trouble \/ Smooth)'
  BY <1>4, RingAssumption DEF TimeoutEarly, TimesOut
<1>5. ASSUME NEW r \in Rank, RunNode(r) PROVE SmallTypeOK' /\ (Trouble \/ Smooth)'
  <2>1. UNCHANGED <<driver, few, room, late>>
    BY <1>5 DEF RunNode, SplitChunks, ConnectNext, AcceptPrev, SendMsg, SendFails, RecvMsg,
                RecvFails, Timeout, TimesOut
  <2>2. ASSUME ~Trouble PROVE Smooth'
    <3>1. Smooth
      BY <2>2
    <3>2. ~SendFails(r) /\ ~RecvFails(r)
      BY <3>1, ClosedIsDone
    <3>3. ~Timeout(r)
      BY <2>2, <3>1, NeverAllBlocked DEF Timeout, TimesOut
    <3>4. PICK p \in {"connect", "accept", "send", "recv", "returned"} :
            place' = [place EXCEPT ![r] = p]
      BY <1>5, <2>2, <3>2, <3>3
         DEF RunNode, SplitChunks, ConnectNext, AcceptPrev, SendMsg, RecvMsg, Goes
    <3> QED BY <2>1, <3>1, <3>4 DEF Smooth
  <2> QED BY <2>1, <2>2
<1>6. CASE UNCHANGED ringVars
  BY <1>6 DEF ringVars, Smooth
<1> QED BY <1>1, <1>2, <1>3, <1>4, <1>5, <1>6 DEF RingNext

LEMMA CauseInvNext == CauseInv /\ [RingNext]_ringVars => CauseInv'
  BY RingNextInv, ConsumedNext, SmoothNext DEF CauseInv

\* An error has a cause: for any number of ranks, and links that hold at least one
\* chunk, the order in which the ranks send, receive and close their sockets
\* blocks nobody for ever and makes no rank fail.
THEOREM ErrorsHaveACauseHolds == RingSpec => []ErrorsHaveACause
<1>1. CauseInv => ErrorsHaveACause
  BY DEF CauseInv, ErrorsHaveACause, Trouble, Smooth, SmallTypeOK
<1> QED BY <1>1, CauseInvInit, CauseInvNext, PTL DEF RingSpec

-----------------------------------------------------------------------------
(* The failure detector.                                                    *)

Waiting == {"lock1", "lock2", "lock3"}

HealthTypeOK ==
  /\ age \in [Peers -> -1 .. MaxAge]
  /\ observed \in [Peers -> ReportedSteps \cup {-1}]
  /\ asking \in Waiting \cup {"idle", "clock1", "clock2", "stragglers", "clock3"}
  /\ lag \in 0 .. MaxLag
  /\ snap \in [dead : SUBSET Peers, suspect : SUBSET Peers, healthy : Nat,
               stragglers : SUBSET Peers, quorate : BOOLEAN]
  /\ beats \subseteq Peers

\* A peer younger than the clock's reading has sent a heartbeat since.
YoungIsAlive ==
  asking \in Waiting => \A r \in Peers : age[r] # -1 /\ age[r] < lag => r \in beats

\* A peer found missing stays so, however long the later waits, unless it is
\* heard of.
StillMissing ==
  \A r \in (snap.dead \cup snap.suspect) \ beats :
    age[r] - lag >= IntervalTicks /\ (r \in snap.dead => age[r] >= DeadAge)

HealthInv ==
  /\ HealthTypeOK /\ YoungIsAlive /\ StillMissing
  /\ snap.quorate => asking = "idle"
  /\ QuorateExplained

\* Whole intervals.
LEMMA Intervals ==
  ASSUME NEW a \in Int, NEW d \in Nat \ {0}
  PROVE  /\ a \div d \in Int
         /\ \A k \in Nat : a \div d >= k => a >= k * d
         /\ a \div d = 0 => a < d
         /\ a \div d # 0 => a < 0 \/ a >= d
<1> DEFINE q == a \div d
           m == a % d
<1>1. q \in Int /\ m \in 0 .. d - 1 /\ a = d * q + m
  OBVIOUS
<1> HIDE DEF q, m
<1>2. ASSUME NEW k \in Nat, q >= k PROVE a >= k * d
  <2>1. PICK j \in Nat : q = k + j
    BY <1>1, <1>2
  <2>2. a = d * k + d * j + m /\ d * j >= 0
    BY <1>1, <2>1
  <2> QED BY <1>1, <2>2
<1>3. q = 0 => a < d
  BY <1>1
<1>4. q # 0 => a < 0 \/ a >= d
  <2>1. CASE q >= 1
    BY <1>2, <2>1
  <2>2. CASE q <= -1
    <3>1. PICK j \in Nat : q = -1 - j
      BY <1>1, <2>2
    <3>2. a = m - d - d * j /\ d * j >= 0
      BY <1>1, <3>1
    <3> QED BY <1>1, <3>2
  <2> QED BY <1>1, <2>1, <2>2
<1> QED BY <1>1, <1>2, <1>3, <1>4 DEF q

\* The bound on ages leaves room for every wait.
LEMMA Ages ==
  /\ DeadAge \in Nat /\ MaxAge \in Nat
  /\ DeadAge >= IntervalTicks /\ MaxAge > DeadAge + MaxLag
<1>1. \A k, d \in Nat : k # 0 => k * d >= d
  <2> SUFFICES ASSUME NEW k \in Nat, NEW d \in Nat, k # 0 PROVE k * d >= d
    OBVIOUS
  <2>1. PICK j \in Nat : k = 1 + j
    <3>1. k - 1 \in Nat /\ k = 1 + (k - 1)
      OBVIOUS
    <3> QED BY <3>1
  <2>2. k * d = d + j * d /\ j * d >= 0
    BY <2>1
  <2> QED BY <2>2
<1>2. DeadAge \in Nat /\ DeadAge >= IntervalTicks
  BY <1>1, HealthAssumption DEF DeadAge
<1> QED BY <1>2, HealthAssumption DEF MaxAge

\* What an evaluation says of a peer.
LEMMA Verdicts ==
  ASSUME HealthTypeOK, NEW r \in Peers
  PROVE  /\ r \in Dead => age[r] - lag >= IntervalTicks /\ age[r] >= DeadAge
         /\ r \in Suspect => age[r] < lag \/ age[r] - lag >= IntervalTicks
         /\ r \in Suspect => age[r] # -1
         /\ r \in Healthy => age[r] - lag < IntervalTicks
<1>1. /\ age[r] \in Int /\ lag \in Nat /\ age[r] - lag \in Int
      /\ IntervalTicks \in Nat \ {0} /\ FailureThreshold \in Nat /\ DeadAge \in Nat
  BY Ages, HealthAssumption DEF HealthTypeOK
<1>2. Missed(r) >= FailureThreshold => age[r] - lag >= DeadAge
  BY <1>1, Intervals DEF Missed, DeadAge
<1>3. Missed(r) = 0 => age[r] - lag < IntervalTicks
  BY <1>1, Intervals DEF Missed
<1>4. Missed(r) # 0 => age[r] - lag < 0 \/ age[r] - lag >= IntervalTicks
  BY <1>1, Intervals DEF Missed
<1>5. r \in Dead => age[r] - lag >= DeadAge
  BY <1>2 DEF Dead
<1>6. r \in Suspect => Missed(r) # 0 /\ age[r] # -1
  BY DEF Suspect, Healthy
<1>7. r \in Healthy => Missed(r) = 0
  BY DEF Healthy
<1> HIDE DEF Missed
<1> QED BY <1>1, <1>3, <1>4, <1>5, <1>6, <1>7, Ages

LEMMA HealthTypeInit == HealthInit => HealthTypeOK
  BY Ages, HealthAssumption DEF HealthInit, HealthTypeOK, Empty, Waiting

LEMMA HealthTypeNext == HealthTypeOK /\ [HealthNext]_healthVars => HealthTypeOK'
<1> SUFFICES ASSUME HealthTypeOK, [HealthNext]_healthVars PROVE HealthTypeOK'
  OBVIOUS
<1> USE DEF HealthTypeOK, Waiting
<1>1. CASE HealthTick
  <2>1. age' \in [Peers -> -1 .. MaxAge]
    BY <1>1, Ages DEF HealthTick
  <2>2. lag' \in 0 .. MaxLag
    BY <1>1, HealthAssumption DEF HealthTick
  <2> QED BY <1>1, <2>1, <2>2 DEF HealthTick
<1>2. CASE Snapshot
  BY <1>2 DEF Snapshot, Empty
<1>3. CASE ReadClock
  BY <1>3, HealthAssumption DEF ReadClock
<1>4. CASE Evaluate
  <2>1. Cardinality(Healthy) \in Nat
    <3>1. IsFiniteSet(Healthy)
      BY FS_Subset, HealthAssumption DEF Healthy
    <3> QED BY <3>1, FS_CardinalityType
  <2>2. Dead \subseteq Peers /\ Suspect \subseteq Peers /\ Quorate \in BOOLEAN
    BY DEF Dead, Suspect, Quorate
  <2>3. snap' \in [dead : SUBSET Peers, suspect : SUBSET Peers, healthy : Nat,
                   stragglers : SUBSET Peers, quorate : BOOLEAN]
    BY <1>4, <2>1, <2>2 DEF Evaluate
  <2> QED BY <1>4, <2>3, HealthAssumption DEF Evaluate
<1>5. CASE FindStragglers
  <2>1. Stragglers \subseteq Peers
    BY DEF Stragglers
  <2> QED BY <1>5, <2>1 DEF FindStragglers
<1>6. ASSUME NEW r \in Peers, Heartbeat(r) PROVE HealthTypeOK'
  <2>1. age' \in [Peers -> -1 .. MaxAge]
    BY <1>6, Ages DEF Heartbeat
  <2>2. observed' \in [Peers -> ReportedSteps \cup {-1}]
    BY <1>6 DEF Heartbeat
  <2> QED BY <1>6, <2>1, <2>2 DEF Heartbeat
<1>7. CASE UNCHANGED healthVars
  BY <1>7 DEF healthVars
<1> QED BY <1>1, <1>2, <1>3, <1>4, <1>5, <1>6, <1>7 DEF HealthNext

-----------------------------------------------------------------------------
LEMMA HealthInvInit == HealthInit => HealthInv
<1> SUFFICES ASSUME HealthInit PROVE HealthInv
  OBVIOUS
<1>1. HealthTypeOK
  BY HealthTypeInit
<1> QED BY <1>1
        DEF HealthInit, HealthInv, YoungIsAlive, StillMissing, QuorateExplained, Empty, Waiting

LEMMA YoungIsAliveNext == HealthInv /\ [HealthNext]_healthVars => YoungIsAlive'
<1> SUFFICES ASSUME HealthInv, [HealthNext]_healthVars, asking' \in Waiting,
                    NEW r \in Peers, (age[r] # -1 /\ age[r] < lag)'
             PROVE  r \in beats'
  BY DEF YoungIsAlive
<1> USE DEF HealthInv, HealthTypeOK, YoungIsAlive
<1>1. CASE HealthTick
  <2>1. asking \in Waiting /\ lag' = lag + 1 /\ lag' <= MaxLag /\ lag \in Nat
    BY <1>1, HealthAssumption DEF HealthTick, Waiting
  <2>2. age[r] # -1 /\ age[r] # MaxAge /\ age'[r] = age[r] + 1 /\ age[r] \in Nat
    BY <1>1, <2>1, Ages, HealthAssumption DEF HealthTick
  <2> QED BY <1>1, <2>1, <2>2 DEF HealthTick
<1>2. CASE Snapshot
  BY <1>2 DEF Snapshot, Waiting
<1>3. CASE ReadClock
  BY <1>3 DEF ReadClock
<1>4. CASE Evaluate
  BY <1>4 DEF Evaluate, Waiting
<1>5. CASE FindStragglers
  BY <1>5 DEF FindStragglers, Waiting
<1>6. ASSUME NEW q \in Peers, Heartbeat(q) PROVE r \in beats'
  BY <1>6 DEF Heartbeat
<1>7. CASE UNCHANGED healthVars
  BY <1>7 DEF healthVars
<1> QED BY <1>1, <1>2, <1>3, <1>4, <1>5, <1>6, <1>7 DEF HealthNext

LEMMA StillMissingNext == HealthInv /\ [HealthNext]_healthVars => StillMissing'
<1> SUFFICES ASSUME HealthInv, [HealthNext]_healthVars,
                    NEW r \in snap'.dead \cup snap'.suspect, r \notin beats'
             PROVE  /\ age'[r] - lag' >= IntervalTicks
                    /\ r \in snap'.dead => age'[r] >= DeadAge
  BY DEF StillMissing
<1> USE DEF HealthInv, HealthTypeOK, StillMissing
<1>0. IntervalTicks \in Nat \ {0} /\ lag \in Nat /\ MaxLag \in Nat
  BY HealthAssumption
<1>1. CASE HealthTick
  <2>1. r \in (snap.dead \cup snap.suspect) \ beats /\ r \in Peers /\ snap' = snap
    BY <1>1 DEF HealthTick
  <2>2. /\ age[r] \in Int /\ age[r] - lag >= IntervalTicks /\ age[r] # -1
        /\ r \in snap.dead => age[r] >= DeadAge
    BY <1>0, <2>1, Ages
  <2>3. lag' <= MaxLag /\ (lag' = lag + 1 \/ lag' = 0)
    BY <1>0, <1>1 DEF HealthTick, Waiting
  <2>4. age'[r] = IF age[r] = MaxAge THEN MaxAge ELSE age[r] + 1
    BY <1>1, <2>1, <2>2 DEF HealthTick
  <2> QED BY <1>0, <2>1, <2>2, <2>3, <2>4, Ages
<1>2. CASE Snapshot
  BY <1>2 DEF Snapshot, Empty
<1>3. CASE ReadClock
  <2>1. r \in (snap.dead \cup snap.suspect) \ beats /\ r \in Peers /\ snap' = snap /\ age' = age
    BY <1>3 DEF ReadClock
  <2>2. age[r] \in Int
    BY <2>1, Ages
  <2> QED BY <1>0, <1>3, <2>1, <2>2 DEF ReadClock
<1>4. CASE Evaluate
  <2>0. lag' = 0 /\ age' = age /\ beats' = beats
    BY <1>4 DEF Evaluate
  <2>1. CASE asking = "lock1"
    <3>1. snap'.dead = Dead /\ snap'.suspect = Suspect /\ r \in Peers
      BY <1>4, <2>1 DEF Evaluate, Dead, Suspect
    <3>2. ~(age[r] # -1 /\ age[r] < lag)
      BY <2>0, <2>1, <3>1 DEF YoungIsAlive, Waiting
    <3>3. age[r] \in Int
      BY <3>1, Ages
    <3>4. Dead \cap Suspect = {}
      BY DEF Suspect
    <3> QED BY <1>0, <2>0, <3>1, <3>2, <3>3, <3>4, Verdicts
  <2>2. CASE asking # "lock1"
    <3>1. snap'.dead = snap.dead /\ snap'.suspect = snap.suspect
      BY <1>4, <2>2 DEF Evaluate
    <3>2. r \in Peers /\ age[r] \in Int
      BY <3>1, Ages
    <3> QED BY <1>0, <2>0, <3>1, <3>2
  <2> QED BY <2>1, <2>2
<1>5. CASE FindStragglers
  BY <1>5 DEF FindStragglers
<1>6. ASSUME NEW q \in Peers, Heartbeat(q)
      PROVE  /\ age'[r] - lag' >= IntervalTicks
             /\ r \in snap'.dead => age'[r] >= DeadAge
  <2>1. r # q /\ r \in Peers
    BY <1>6 DEF Heartbeat
  <2> QED BY <1>6, <2>1 DEF Heartbeat
<1>7. CASE UNCHANGED healthVars
  BY <1>7 DEF healthVars
<1> QED BY <1>1, <1>2, <1>3, <1>4, <1>5, <1>6, <1>7 DEF HealthNext

LEMMA QuorateNext ==
  HealthInv /\ [HealthNext]_healthVars =>
    (snap'.quorate => asking' = "idle") /\ QuorateExplained'
<1> SUFFICES ASSUME HealthInv, [HealthNext]_healthVars
             PROVE  /\ snap'.quorate => asking' = "idle"
                    /\ snap'.quorate => snap'.dead \cup snap'.suspect \subseteq beats'
  BY DEF QuorateExplained
<1> USE DEF HealthInv, HealthTypeOK, QuorateExplained
<1>1. CASE HealthTick
  BY <1>1 DEF HealthTick
<1>2. CASE Snapshot
  BY <1>2 DEF Snapshot, Empty
<1>3. CASE ReadClock
  BY <1>3 DEF ReadClock
<1>4. CASE Evaluate
  <2>1. CASE asking = "lock3"
    <3>1. /\ snap'.dead = snap.dead /\ snap'.suspect = snap.suspect /\ beats' = beats
          /\ snap'.quorate = Quorate /\ asking' = "idle"
      BY <1>4, <2>1 DEF Evaluate
    <3>2. ASSUME Quorate, NEW r \in snap.dead \cup snap.suspect, r \notin beats PROVE FALSE
      <4>1. r \in Peers /\ r \in Healthy /\ age[r] \in Int /\ lag \in Nat /\ IntervalTicks \in Nat
        BY <3>2, Ages, HealthAssumption DEF Quorate
      <4>2. age[r] - lag < IntervalTicks
        BY <4>1, Verdicts
      <4>3. age[r] - lag >= IntervalTicks
        BY <3>2 DEF StillMissing
      <4> QED BY <4>1, <4>2, <4>3
    <3> QED BY <3>1, <3>2
  <2>2. CASE asking # "lock3"
    <3>1. snap'.quorate = snap.quorate /\ asking # "idle"
      BY <1>4, <2>2 DEF Evaluate
    <3> QED BY <3>1
  <2> QED BY <2>1, <2>2
<1>5. CASE FindStragglers
  BY <1>5 DEF FindStragglers
<1>6. ASSUME NEW r \in Peers, Heartbeat(r)
      PROVE  /\ snap'.quorate => asking' = "idle"
             /\ snap'.quorate => snap'.dead \cup snap'.suspect \subseteq beats'
  BY <1>6 DEF Heartbeat
<1>7. CASE UNCHANGED healthVars
  BY <1>7 DEF healthVars
<1> QED BY <1>1, <1>2, <1>3, <1>4, <1>5, <1>6, <1>7 DEF HealthNext

LEMMA HealthInvHolds == HealthSpec => []HealthInv
<1>1. HealthInv /\ [HealthNext]_healthVars => HealthInv'
  BY HealthTypeNext, YoungIsAliveNext, StillMissingNext, QuorateNext DEF HealthInv
<1> QED BY <1>1, HealthInvInit, PTL DEF HealthSpec

\* A peer is reported only if it has missed its intervals or is heard of while
\* the snapshot is taken: neither the wait for the lock nor a heartbeat that
\* arrives before it is granted makes a peer a suspect.
THEOREM NoFalseAlarmHolds == HealthSpec => []NoFalseAlarm
<1>1. HealthInv => NoFalseAlarm
  <2> SUFFICES ASSUME HealthInv PROVE NoFalseAlarm
    OBVIOUS
  <2>1. ASSUME NEW r \in (snap.dead \cup snap.suspect) \ beats
        PROVE  age[r] >= IntervalTicks /\ (r \in snap.dead => age[r] >= DeadAge)
    <3>1. r \in Peers /\ age[r] \in Int /\ lag \in Nat /\ IntervalTicks \in Nat
      BY Ages, HealthAssumption DEF HealthInv, HealthTypeOK
    <3>2. age[r] - lag >= IntervalTicks /\ (r \in snap.dead => age[r] >= DeadAge)
      BY DEF HealthInv, StillMissing
    <3> QED BY <3>1, <3>2
  <2> QED BY <2>1 DEF NoFalseAlarm
<1> QED BY <1>1, HealthInvHolds, PTL

\* One snapshot calls the ring quorate and reports a missing peer only if that
\* peer came back in between.
THEOREM QuorateExplainedHolds == HealthSpec => []QuorateExplained
<1>1. HealthInv => QuorateExplained
  BY DEF HealthInv
<1> QED BY <1>1, HealthInvHolds, PTL
=============================================================================
