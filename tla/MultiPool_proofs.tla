-------------------------- MODULE MultiPool_proofs --------------------------
(***************************************************************************)
(* Placement puts the latency target before the cost, for any number of    *)
(* pools and requests and any roofline times, as long as no pool costs so  *)
(* much, for a target so long, that its price outweighs the penalty.       *)
(***************************************************************************)
EXTENDS MultiPool, TLAPS, WellFoundedInduction

\* 0.3 * cost * latency is at most 100 for every pool that meets a request's target:
\* with the cost of 5.4 of the dearest profile, for targets up to 61 seconds.
Affordable == \A q \in Requests, p \in Pools : 3 * Cost[p] * Slo[q] <= 100 * 1000

ActiveCounted == active \in [Pools -> Nat]
PoolInv == ActiveCounted /\ SloFirst

-----------------------------------------------------------------------------
(* The arithmetic of a score.                                              *)

\* Quotients of naturals are naturals.
LEMMA Quotients ==
  ASSUME NEW a \in Nat, NEW b \in Nat, b # 0
  PROVE  a \div b \in Nat
  OBVIOUS

\* Products of naturals are naturals, and grow with their factors.
LEMMA Products ==
  ASSUME NEW a \in Nat, NEW b \in Nat, NEW c \in Nat
  PROVE  a * b \in Nat /\ (a <= b => a * c <= b * c)
  OBVIOUS

\* The predicted latency and the score of a pool with room are naturals.
LEMMA ScoreType ==
  ASSUME ActiveCounted, NEW q \in Requests, NEW p \in Candidates
  PROVE  /\ p \in Pools /\ Latency(q, p) \in Nat /\ Cost[p] \in Nat /\ Slo[q] \in Nat \ {0}
         /\ Score(q, p) \in Nat
<1> DEFINE n == active[p]
           k == Capacity[p]
           m == IF n = 0 THEN 1 ELSE n
           d == Decode[q][p][m] \div m
<1>1. /\ p \in Pools /\ n \in Nat /\ k \in Nat /\ k # 0 /\ Cost[p] \in Nat
      /\ Slo[q] \in Nat \ {0} /\ Prefill[q][p] \in Nat
      /\ m \in Nat \ {0} /\ Decode[q][p][m] \in Nat
  <2>1. p \in Pools /\ n < k
    BY DEF Candidates
  <2>2. n \in Nat /\ k \in Nat
    BY <2>1, PoolAssumption DEF ActiveCounted
  <2>3. Prefill[q] \in [Pools -> Nat]
    BY PoolAssumption
  <2>4. m \in Nat \ {0} /\ m \in 1 .. k
    BY <2>1, <2>2
  <2> HIDE DEF n, k, m
  <2>5. Decode[q][p][m] \in Nat
    BY <2>1, <2>4, PoolAssumption DEF k
  <2> QED BY <2>1, <2>2, <2>3, <2>4, <2>5, PoolAssumption
<1>2. d \in Nat
  <2> HIDE DEF m
  <2> QED BY <1>1, Quotients
<1>3. Latency(q, p) = ((Prefill[q][p] + d) * (k + 2 * n)) \div k
  BY DEF Latency, LatencyAt
<1> HIDE DEF n, k, m, d
<1>4. PICK x \in Nat, y \in Nat : x = Prefill[q][p] + d /\ y = k + 2 * n
  BY <1>1, <1>2
<1>5. Latency(q, p) \in Nat
  <2>1. x * y \in Nat
    BY Products
  <2> QED BY <1>1, <1>3, <1>4, <2>1, Quotients
<1>6. Score(q, p) \in Nat
  <2>1. PICK l \in Nat, c \in Nat, s \in Nat : l = Latency(q, p) /\ c = Cost[p] /\ s = Slo[q]
    BY <1>1, <1>5
  <2>2. 3 * c * l \in Nat
    BY Products
  <2>3. 3 * c * l * s \in Nat
    BY <2>2, Products
  <2>4. Score(q, p) = 1000 * l + 3 * c * l * s + (IF l <= s THEN 0 ELSE 100 * 1000 * s)
    BY <2>1 DEF Score
  <2>5. \A t \in Nat : 1000 * l + t + (IF l <= s THEN 0 ELSE 100 * 1000 * s) \in Nat
    OBVIOUS
  <2> QED BY <2>3, <2>4, <2>5
<1> QED BY <1>1, <1>5, <1>6

\* A set of naturals that is not empty has a least member.
LEMMA LeastMember ==
  ASSUME NEW T \in SUBSET Nat, T # {}
  PROVE  \E x \in T : \A y \in T : x <= y
<1> DEFINE Less == {p \in Nat \X Nat : p[1] < p[2]}
<1>1. IsWellFoundedOn(Less, Nat)
  BY NatLessThanWellFounded DEF OpToRel
<1>2. PICK x \in T : \A y \in T : ~(<<y, x>> \in Less)
  <2> HIDE DEF Less
  <2> QED BY <1>1, WFMin
<1>3. ASSUME NEW y \in T PROVE x <= y
  <2>1. ~(<<y, x>> \in Less) /\ x \in Nat /\ y \in Nat
    BY <1>2
  <2> QED BY <2>1
<1> QED BY <1>3

\* heappop() returns a pool with room, and none with room scores lower.
LEMMA BestIsBest ==
  ASSUME ActiveCounted, NEW q \in Requests, Candidates # {}
  PROVE  /\ Best(q) \in Candidates
         /\ \A o \in Candidates : Score(q, Best(q)) <= Score(q, o)
<1> DEFINE T == {Score(q, p) : p \in Candidates}
           Wins(p) == \A o \in Candidates \ {p} :
                        Score(q, p) < Score(q, o) \/ (Score(q, p) = Score(q, o) /\ p < o)
<1>1. \A p \in Candidates : Score(q, p) \in Nat /\ p \in Nat
  BY ScoreType, PoolAssumption
<1>2. PICK x \in T : \A y \in T : x <= y
  <2>1. T \subseteq Nat /\ T # {}
    BY <1>1
  <2> HIDE DEF T
  <2> QED BY <2>1, LeastMember
<1> DEFINE U == {p \in Candidates : Score(q, p) = x}
<1>3. PICK b \in U : \A o \in U : b <= o
  <2>1. U \subseteq Nat /\ U # {}
    BY <1>1, <1>2
  <2> HIDE DEF U
  <2> QED BY <2>1, LeastMember
<1>4. b \in Candidates /\ Score(q, b) = x
  BY <1>3
<1>5. Wins(b)
  <2> SUFFICES ASSUME NEW o \in Candidates \ {b}
               PROVE  Score(q, b) < Score(q, o) \/ (Score(q, b) = Score(q, o) /\ b < o)
    OBVIOUS
  <2>1. /\ Score(q, b) <= Score(q, o) /\ Score(q, b) \in Nat /\ Score(q, o) \in Nat
        /\ b \in Nat /\ o \in Nat /\ b # o
    BY <1>1, <1>2, <1>4
  <2>2. Score(q, o) = Score(q, b) => b <= o
    BY <1>3, <1>4
  <2> QED BY <2>1, <2>2
<1>6. Best(q) \in Candidates /\ Wins(Best(q))
  BY <1>4, <1>5 DEF Best
<1> HIDE DEF T, U
<1>7. PICK p : p = Best(q)
  OBVIOUS
<1>8. ASSUME NEW o \in Candidates PROVE Score(q, p) <= Score(q, o)
  <2>1. Score(q, p) \in Nat /\ Score(q, o) \in Nat
    BY <1>1, <1>6, <1>7
  <2>2. o = p \/ Score(q, p) < Score(q, o) \/ Score(q, p) = Score(q, o)
    BY <1>6, <1>7
  <2> QED BY <2>1, <2>2
<1> QED BY <1>6, <1>7, <1>8

\* The price of a pool that meets the target never outweighs the penalty of one that does not.
LEMMA PenaltyWins ==
  ASSUME Affordable, ActiveCounted, NEW q \in Requests, NEW b \in Candidates,
         NEW p \in Candidates, Latency(q, p) <= Slo[q], ~(Latency(q, b) <= Slo[q])
  PROVE  Score(q, p) < Score(q, b)
<1>1. PICK l \in Nat, c \in Nat, s \in Nat \ {0} :
        l = Latency(q, p) /\ c = Cost[p] /\ s = Slo[q]
  BY ScoreType
<1>2. PICK m \in Nat, e \in Nat : m = Latency(q, b) /\ e = Cost[b]
  BY ScoreType
<1>3. Score(q, p) = 1000 * l + 3 * c * l * s
  BY <1>1, Products DEF Score
<1>4. Score(q, b) = 1000 * m + 3 * e * m * s + 100 * 1000 * s
  BY <1>1, <1>2 DEF Score
<1>5. 3 * c * l * s <= 100 * 1000 * s
  <2>1. 3 * c * s <= 100 * 1000
    BY <1>1, ScoreType DEF Affordable
  <2>2. 3 * c * l <= 3 * c * s /\ 3 * c * l \in Nat /\ 3 * c * s \in Nat
    <3>1. l * (3 * c) <= s * (3 * c) /\ l * (3 * c) \in Nat /\ s * (3 * c) \in Nat
      BY <1>1, Products
    <3>2. l * (3 * c) = 3 * c * l /\ s * (3 * c) = 3 * c * s
      OBVIOUS
    <3> QED BY <3>1, <3>2
  <2>3. 3 * c * l <= 100 * 1000
    BY <2>1, <2>2
  <2> QED BY <2>2, <2>3, Products
<1>6. 3 * e * m * s \in Nat /\ 3 * c * l * s \in Nat
  <2>1. 3 * e * m \in Nat /\ 3 * c * l \in Nat
    BY Products
  <2> QED BY <2>1, Products
<1>7. l < m
  BY <1>1, <1>2
<1>8. \A x, y \in Nat : x <= 100 * 1000 * s => 1000 * l + x < 1000 * m + y + 100 * 1000 * s
  BY <1>7
<1> QED BY <1>3, <1>4, <1>5, <1>6, <1>8

-----------------------------------------------------------------------------
(* The invariant.                                                          *)

\* Placing a request keeps the counts, and decides by the target first.
LEMMA PlaceInv ==
  ASSUME Affordable, PoolInv, NEW q \in Requests, Place(q)
  PROVE  PoolInv'
<1>1. CASE Candidates = {}
  <2>1. decision'.pool = 0 /\ active' = active
    BY <1>1 DEF Place, NoDecision
  <2> QED BY <2>1 DEF PoolInv, ActiveCounted, SloFirst
<1>2. CASE Candidates # {}
  <2>1. PICK b \in Candidates : b = Best(q) /\ \A o \in Candidates : Score(q, b) <= Score(q, o)
    BY <1>2, BestIsBest DEF PoolInv
  <2>2. /\ active' = [active EXCEPT ![b] = @ + 1]
        /\ decision' = [request |-> q, pool |-> b, meets |-> Latency(q, b) <= Slo[q],
                        considered |-> Candidates,
                        latencies |-> [p \in Candidates |-> Latency(q, p)]]
    BY <1>2, <2>1 DEF Place
  <2>3. ActiveCounted'
    <3>1. active \in [Pools -> Nat] /\ b \in Pools
      BY DEF PoolInv, ActiveCounted, Candidates
    <3>2. active[b] + 1 \in Nat
      BY <3>1
    <3> QED BY <2>2, <3>1, <3>2 DEF ActiveCounted
  <2>4. ASSUME NEW p \in Candidates, ~(Latency(q, b) <= Slo[q])
        PROVE  Latency(q, p) > Slo[q]
    <3>1. /\ Latency(q, p) \in Nat /\ Slo[q] \in Nat
          /\ Score(q, p) \in Nat /\ Score(q, b) \in Nat
      BY ScoreType DEF PoolInv
    <3>2. CASE Latency(q, p) <= Slo[q]
      <4>1. Score(q, p) < Score(q, b)
        BY <2>4, <3>2, PenaltyWins DEF PoolInv
      <4> QED BY <2>1, <3>1, <4>1
    <3> QED BY <3>1, <3>2
  <2>5. SloFirst'
    BY <2>2, <2>4 DEF SloFirst
  <2> QED BY <2>3, <2>5 DEF PoolInv
<1> QED BY <1>1, <1>2

\* Releasing one counts it out, and leaves the latest decision alone.
LEMMA ReleaseInv ==
  ASSUME PoolInv, NEW q \in Requests, Release(q)
  PROVE  PoolInv'
<1>1. decision' = decision
  BY DEF Release
<1>2. PICK p \in Pools : active' = [active EXCEPT ![p] = IF @ = 0 THEN 0 ELSE @ - 1]
  BY DEF Release
<1>3. active[p] \in Nat /\ (IF active[p] = 0 THEN 0 ELSE active[p] - 1) \in Nat
  BY DEF PoolInv, ActiveCounted
<1>4. ActiveCounted'
  BY <1>2, <1>3 DEF PoolInv, ActiveCounted
<1> QED BY <1>1, <1>4 DEF PoolInv, SloFirst

\* place() leaves a request outside its target only if every pool with room would, for any
\* fleet and any roofline times, while costs and targets are affordable.
THEOREM SloFirstHolds ==
  ASSUME Affordable
  PROVE  PoolSpec => []SloFirst
<1>1. PoolInit => PoolInv
  BY DEF PoolInit, PoolInv, ActiveCounted, SloFirst, NoDecision
<1>2. PoolInv /\ [PoolNext]_poolVars => PoolInv'
  <2>1. CASE UNCHANGED poolVars
    BY <2>1 DEF poolVars, PoolInv, ActiveCounted, SloFirst
  <2> QED BY <2>1, PlaceInv, ReleaseInv DEF PoolNext
<1>3. PoolInv => SloFirst
  BY DEF PoolInv
<1> QED BY <1>1, <1>2, <1>3, PTL DEF PoolSpec
=============================================================================
