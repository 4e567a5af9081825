-------------------------- MODULE Dashboard_proofs --------------------------
(***************************************************************************)
(* The figures of the load generator and of the server's metrics, for any  *)
(* number of workers, calls and executor threads.                          *)
(***************************************************************************)
EXTENDS Dashboard, FiniteSetTheorems, SequenceTheorems, TLAPS

HttpTypeOK ==
  /\ handler \in [Calls -> {"none", "submitted", "waiting"} \cup Statuses]
  /\ lineup \in Seq(Calls) /\ gone \subseteq Calls
  /\ accepted \in Nat /\ counted \in [Outcomes -> Nat] /\ escaped \in Nat

\* The executor's queue holds each call that waits for a thread once, and no
\* call whose handler has ended.
LinedUpOnce ==
  \A i \in 1 .. Len(lineup) :
    /\ handler[lineup[i]] = "submitted"
    /\ \A j \in 1 .. Len(lineup) : i # j => lineup[i] # lineup[j]

HttpInv == HttpTypeOK /\ LinedUpOnce /\ CountedOnce

LoadTypeOK ==
  /\ loading \in BOOLEAN /\ concurrency \in Nat /\ sent \in Nat
  /\ completed \in Nat /\ failures \in Nat
  /\ worker \in [Workers -> {"off", "sending", "backoff", "cut"} \cup Calls]
  /\ leftover \subseteq Workers

LoadInv == LoadTypeOK /\ FiguresOfRun

\* The number of open calls, now and after a step.
LEMMA OpenCalls ==
  ASSUME HttpTypeOK
  PROVE  IsFiniteSet(InFlight) /\ Cardinality(InFlight) \in Nat /\ Total \in Nat
<1>1. IsFiniteSet(InFlight)
  BY FS_Subset, HttpAssumption DEF InFlight
<1> QED BY <1>1, FS_CardinalityType DEF HttpTypeOK, Total, Outcomes

LEMMA OpenCallsNext ==
  ASSUME HttpTypeOK'
  PROVE  IsFiniteSet(InFlight') /\ Cardinality(InFlight') \in Nat /\ Total' \in Nat
<1>1. IsFiniteSet(InFlight')
  BY FS_Subset, HttpAssumption DEF InFlight
<1> QED BY <1>1, FS_CardinalityType DEF HttpTypeOK, Total, Outcomes

-----------------------------------------------------------------------------
(* The server.                                                             *)

LEMMA HttpInvInit == HttpInit => HttpInv
<1> SUFFICES ASSUME HttpInit PROVE HttpInv
  OBVIOUS
<1>1. HttpTypeOK
  BY EmptySeq DEF HttpInit, HttpTypeOK, Statuses
<1>2. InFlight = {}
  BY DEF HttpInit, InFlight
<1>3. CountedOnce
  BY <1>1, <1>2, FS_EmptySet DEF HttpInit, Outcomes, CountedOnce, Total
<1> QED BY <1>1, <1>3 DEF HttpInit, HttpInv, LinedUpOnce

LEMMA AcceptInv ==
  ASSUME HttpInv, NEW c \in Calls, Accept(c)
  PROVE  HttpInv'
<1> USE DEF HttpInv
<1>1. /\ handler[c] = "none" /\ handler' = [handler EXCEPT ![c] = "submitted"]
      /\ lineup' = Append(lineup, c) /\ accepted' = accepted + 1
      /\ UNCHANGED <<gone, counted, escaped>>
  BY DEF Accept
<1>2. HttpTypeOK'
  BY <1>1, AppendProperties DEF HttpTypeOK
<1>3. /\ Len(lineup') = Len(lineup) + 1 /\ Len(lineup) \in Nat
      /\ \A i \in 1 .. Len(lineup) : lineup'[i] = lineup[i] /\ lineup[i] \in Calls
      /\ lineup'[Len(lineup) + 1] = c
  BY <1>1, AppendProperties, LenProperties DEF HttpTypeOK
<1>4. \A i \in 1 .. Len(lineup) : lineup[i] # c
  BY <1>1 DEF LinedUpOnce
<1>5. LinedUpOnce'
  <2> SUFFICES ASSUME NEW i \in 1 .. Len(lineup) + 1
               PROVE  /\ handler'[lineup'[i]] = "submitted"
                      /\ \A j \in 1 .. Len(lineup) + 1 : i # j => lineup'[i] # lineup'[j]
    BY <1>3 DEF LinedUpOnce
  <2>1. CASE i \in 1 .. Len(lineup)
    <3>1. handler'[lineup'[i]] = "submitted"
      BY <1>1, <1>3, <1>4, <2>1 DEF LinedUpOnce, HttpTypeOK
    <3> QED BY <1>3, <1>4, <2>1, <3>1 DEF LinedUpOnce
  <2>2. CASE i = Len(lineup) + 1
    <3>1. handler'[lineup'[i]] = "submitted"
      BY <1>1, <1>3, <2>2 DEF HttpTypeOK
    <3> QED BY <1>3, <1>4, <2>2, <3>1
  <2> QED BY <1>3, <2>1, <2>2
<1>6. CountedOnce'
  <2>1. InFlight' = InFlight \cup {c} /\ c \notin InFlight
    BY <1>1 DEF InFlight, HttpTypeOK
  <2>2. Cardinality(InFlight') = Cardinality(InFlight) + 1
    BY <2>1, OpenCalls, FS_AddElement
  <2>3. Total' = Total
    BY <1>1 DEF Total
  <2>4. accepted = Total + escaped + Cardinality(InFlight)
    BY DEF CountedOnce
  <2>5. Total \in Nat /\ escaped \in Nat /\ Cardinality(InFlight) \in Nat
    BY OpenCalls DEF HttpTypeOK
  <2>6. accepted + 1 = Total + escaped + (Cardinality(InFlight) + 1)
    BY <2>4, <2>5
  <2> QED BY <1>1, <2>2, <2>3, <2>6 DEF CountedOnce
<1> QED BY <1>2, <1>5, <1>6

\* Steps that open and close no call.
LEMMA SameOpen ==
  ASSUME HttpInv, InFlight' = InFlight, UNCHANGED <<accepted, counted, escaped>>
  PROVE  CountedOnce'
  BY DEF HttpInv, CountedOnce, Total

LEMMA StartWaitInv ==
  ASSUME HttpInv, StartWait
  PROVE  HttpInv'
<1> USE DEF HttpInv
<1> DEFINE c == Head(lineup)
<1>1. /\ handler' = [handler EXCEPT ![c] = "waiting"]
      /\ lineup' = Tail(lineup) /\ lineup # <<>> /\ UNCHANGED <<gone, accepted, counted, escaped>>
  BY DEF StartWait
<1>2. /\ Tail(lineup) \in Seq(Calls) /\ Len(Tail(lineup)) = Len(lineup) - 1
      /\ \A i \in 1 .. Len(lineup) - 1 : Tail(lineup)[i] = lineup[i + 1]
      /\ c \in Calls
  BY <1>1, HeadTailProperties DEF HttpTypeOK
<1>3. Len(lineup) \in Nat \ {0} /\ c = lineup[1]
  BY <1>1, EmptySeq DEF HttpTypeOK
<1>4. handler[c] = "submitted" /\ \A i \in 2 .. Len(lineup) : lineup[i] # c
  BY <1>3 DEF LinedUpOnce
<1> HIDE DEF c
<1>5. HttpTypeOK'
  BY <1>1, <1>2 DEF HttpTypeOK
<1>6. LinedUpOnce'
  <2> SUFFICES ASSUME NEW i \in 1 .. Len(lineup) - 1
               PROVE  /\ handler'[lineup[i + 1]] = "submitted"
                      /\ \A j \in 1 .. Len(lineup) - 1 : i # j => lineup[i + 1] # lineup[j + 1]
    BY <1>1, <1>2 DEF LinedUpOnce
  <2>1. i + 1 \in 2 .. Len(lineup) /\ lineup[i + 1] \in Calls
    BY <1>3, ElementOfSeq DEF HttpTypeOK
  <2>2. \A j \in 1 .. Len(lineup) - 1 : j + 1 \in 2 .. Len(lineup) /\ (i # j => i + 1 # j + 1)
    BY <1>3
  <2>3. handler'[lineup[i + 1]] = "submitted"
    BY <1>1, <1>3, <1>4, <2>1 DEF LinedUpOnce, HttpTypeOK
  <2> QED BY <1>3, <2>1, <2>2, <2>3 DEF LinedUpOnce
<1>7. InFlight' = InFlight
  BY <1>1, <1>2, <1>4 DEF InFlight, HttpTypeOK
<1> QED BY <1>1, <1>5, <1>6, <1>7, SameOpen

LEMMA ServeInv ==
  ASSUME HttpInv, NEW c \in Calls, ServeCall(c)
  PROVE  HttpInv'
<1> USE DEF HttpInv
<1>1. handler[c] = "waiting" /\ \E status \in Statuses : Respond(c, status)
  BY DEF ServeCall, WaitReturns, WaitExpires, WaitRaises, Conclude, Statuses
<1>2. \/ escaped' = escaped + 1 /\ UNCHANGED counted
      \/ /\ \E q \in Outcomes : counted' = [counted EXCEPT ![q] = @ + 1]
         /\ UNCHANGED escaped
  BY DEF ServeCall, WaitReturns, WaitExpires, WaitRaises, Conclude, Outcomes
<1>3. PICK h \in {"none"} \cup Statuses :
        /\ handler' = [handler EXCEPT ![c] = h] /\ gone' = gone \ {c}
        /\ UNCHANGED <<lineup, accepted>>
  BY <1>1 DEF Respond
<1>4. HttpTypeOK'
  BY <1>2, <1>3 DEF HttpTypeOK
<1>5. LinedUpOnce'
  <2>1. \A i \in 1 .. Len(lineup) : lineup[i] # c /\ lineup[i] \in Calls
    BY <1>1, ElementOfSeq DEF LinedUpOnce, HttpTypeOK
  <2> QED BY <1>3, <2>1 DEF LinedUpOnce, HttpTypeOK
<1>6. CountedOnce'
  <2>1. InFlight' = InFlight \ {c} /\ c \in InFlight
    BY <1>1, <1>3 DEF InFlight, HttpTypeOK, Statuses
  <2>2. Cardinality(InFlight') = Cardinality(InFlight) - 1
    BY <2>1, OpenCalls, FS_RemoveElement
  <2>3. Total' + escaped' = Total + escaped + 1
    <3>1. CASE escaped' = escaped + 1 /\ UNCHANGED counted
      <4>1. Total' = Total /\ Total \in Nat /\ escaped \in Nat
        BY <3>1, OpenCalls DEF HttpTypeOK, Total
      <4> QED BY <3>1, <4>1
    <3>2. ASSUME NEW q \in Outcomes, counted' = [counted EXCEPT ![q] = @ + 1], UNCHANGED escaped
          PROVE  Total' + escaped' = Total + escaped + 1
      <4>1. Total' = Total + 1
        <5>1. \A r \in Outcomes :
                counted[r] \in Nat /\ counted'[r] = IF r = q THEN counted[r] + 1 ELSE counted[r]
          BY <3>2 DEF HttpTypeOK
        <5> QED BY <3>2, <5>1 DEF Total, Outcomes
      <4>2. Total \in Nat /\ escaped \in Nat
        BY OpenCalls DEF HttpTypeOK
      <4> QED BY <3>2, <4>1, <4>2
    <3> QED BY <1>2, <3>1, <3>2
  <2>4. /\ Total \in Nat /\ escaped \in Nat /\ Cardinality(InFlight) \in Nat
        /\ Total' \in Nat /\ escaped' \in Nat
    BY <1>4, OpenCalls, OpenCallsNext DEF HttpTypeOK
  <2>5. accepted = Total + escaped + Cardinality(InFlight)
    BY DEF CountedOnce
  <2>6. accepted = Total' + escaped' + (Cardinality(InFlight) - 1)
    <3> DEFINE t1 == Total
               t2 == Total'
               e2 == escaped'
               n == Cardinality(InFlight)
    <3>1. t2 + e2 = t1 + escaped + 1 /\ t1 \in Nat /\ t2 \in Nat /\ e2 \in Nat /\ n \in Nat
      BY <2>3, <2>4
    <3>2. escaped \in Nat /\ accepted = t1 + escaped + n
      BY <2>4, <2>5
    <3> HIDE DEF t1, t2, e2, n
    <3>3. accepted = t2 + e2 + (n - 1)
      BY <3>1, <3>2
    <3> QED BY <3>3 DEF t2, e2, n
  <2> QED BY <1>3, <2>2, <2>6 DEF CountedOnce
<1> QED BY <1>4, <1>5, <1>6

\* A handler that has answered, or has not begun, is in no line.
LEMMA IdleCallInv ==
  ASSUME HttpInv, NEW c \in Calls, NEW h \in {"none"} \cup Statuses,
         handler[c] \in {"none"} \cup Statuses, handler' = [handler EXCEPT ![c] = h],
         UNCHANGED <<lineup, gone, accepted, counted, escaped>>
  PROVE  HttpInv'
<1> USE DEF HttpInv
<1>1. HttpTypeOK'
  BY DEF HttpTypeOK
<1>2. \A i \in 1 .. Len(lineup) : lineup[i] # c /\ lineup[i] \in Calls
  BY ElementOfSeq DEF LinedUpOnce, HttpTypeOK, Statuses
<1>3. LinedUpOnce'
  BY <1>2 DEF LinedUpOnce, HttpTypeOK
<1>4. InFlight' = InFlight
  BY DEF InFlight, HttpTypeOK, Statuses
<1> QED BY <1>1, <1>3, <1>4, SameOpen

\* Steps that do not touch the server's bookkeeping.
LEMMA SameHttp ==
  ASSUME HttpInv, gone' \subseteq Calls, UNCHANGED <<handler, lineup, accepted, counted, escaped>>
  PROVE  HttpInv'
<1>1. HttpTypeOK' /\ LinedUpOnce' /\ InFlight' = InFlight
  BY DEF HttpInv, HttpTypeOK, LinedUpOnce, InFlight
<1> QED BY <1>1, SameOpen DEF HttpInv

LEMMA HttpInvNext == HttpInv /\ [LoadNext]_<<httpVars, loadVars>> => HttpInv'
<1> SUFFICES ASSUME HttpInv, [LoadNext]_<<httpVars, loadVars>> PROVE HttpInv'
  OBVIOUS
<1> USE DEF httpVars
<1>1. gone \subseteq Calls
  BY DEF HttpInv, HttpTypeOK
<1>2. CASE StartLoad \/ StopLoad
  BY <1>1, <1>2, SameHttp DEF StartLoad, StopLoad
<1>3. CASE HttpNext
  <2>1. CASE StartWait
    BY <2>1, StartWaitInv
  <2>2. ASSUME NEW c \in Calls, EngineAnswers(c) PROVE HttpInv'
    BY <1>1, <2>2, SameHttp DEF EngineAnswers
  <2>3. ASSUME NEW c \in Calls, ServeCall(c) PROVE HttpInv'
    BY <2>3, ServeInv
  <2> QED BY <1>3, <2>1, <2>2, <2>3 DEF HttpNext
<1>4. ASSUME NEW w \in Workers, Post(w) PROVE HttpInv'
  <2>1. PICK c \in Calls : Accept(c) \/ Reject(c)
    BY <1>4 DEF Post
  <2>2. CASE Accept(c)
    BY <2>2, AcceptInv
  <2>3. CASE Reject(c)
    BY <2>3, IdleCallInv DEF Reject, Statuses
  <2> QED BY <2>1, <2>2, <2>3
<1>5. ASSUME NEW w \in Workers, GetReply(w) PROVE HttpInv'
  BY <1>5, IdleCallInv DEF GetReply
<1>6. ASSUME NEW w \in Workers, GiveUp(w) PROVE HttpInv'
  <2> DEFINE c == worker[w]
  <2>1. CASE c # "sending" /\ handler[c] \in Statuses
    BY <1>6, <2>1, IdleCallInv DEF GiveUp
  <2>2. CASE ~(c # "sending" /\ handler[c] \in Statuses)
    <3>1. UNCHANGED <<handler, lineup, accepted, counted, escaped>> /\ gone' \subseteq Calls
      BY <1>1, <1>6, <2>2 DEF GiveUp
    <3> QED BY <3>1, SameHttp
  <2> QED BY <2>1, <2>2
<1>7. ASSUME NEW w \in Workers, BackoffOver(w) PROVE HttpInv'
  BY <1>1, <1>7, SameHttp DEF BackoffOver
<1>8. CASE UNCHANGED <<httpVars, loadVars>>
  BY <1>1, <1>8, SameHttp
<1>9. ASSUME NEW w \in Workers, CutOff(w) PROVE HttpInv'
  BY <1>9, IdleCallInv DEF CutOff
<1> QED BY <1>2, <1>3, <1>4, <1>5, <1>6, <1>7, <1>8, <1>9 DEF LoadNext

\* For any number of calls and threads: a call submitted to the engine that has
\* ended is counted under exactly one outcome, or ended in an abort that raised,
\* however answers, timeouts and clients that give up interleave.
THEOREM CountedOnceHolds == LoadSpec => []CountedOnce
<1>1. HttpInv => CountedOnce
  BY DEF HttpInv
<1> QED BY <1>1, HttpInvInit, HttpInvNext, PTL DEF LoadSpec

-----------------------------------------------------------------------------
(* The load generator.                                                     *)

\* Both counts of workers are numbers, and so is that of any workers.
LEMMA WorkerCounts ==
  /\ IsFiniteSet(Active) /\ IsFiniteSet(Outstanding)
  /\ Cardinality(Active) \in Nat /\ Cardinality(Outstanding) \in Nat
  /\ Cardinality(Outstanding) <= Cardinality(Active)
<1>1. Outstanding \subseteq Active
  BY DEF Active, Outstanding
<1> QED BY <1>1, FS_Subset, FS_CardinalityType, DashboardAssumption DEF Active, Outstanding

LEMMA DisjointUnion ==
  ASSUME NEW S, IsFiniteSet(S), NEW T, IsFiniteSet(T), S \cap T = {}
  PROVE  Cardinality(S \cup T) = Cardinality(S) + Cardinality(T)
<1>1. Cardinality(S \cap T) = 0
  BY FS_EmptySet
<1>2. Cardinality(S \cup T) = Cardinality(S) + Cardinality(T) - Cardinality(S \cap T)
  BY FS_Union
<1>3. Cardinality(S) \in Nat /\ Cardinality(T) \in Nat
  BY FS_CardinalityType
<1> QED BY <1>1, <1>2, <1>3

LEMMA LeftoverCount ==
  ASSUME LoadTypeOK
  PROVE  Cardinality(leftover) \in Nat
  BY FS_Subset, FS_CardinalityType, DashboardAssumption DEF LoadTypeOK

\* What a run may have inherited does not change as it goes on: a worker whose
\* answer is counted is outstanding no more, and one that sends is.
LEMMA SameBalance ==
  ASSUME LoadInv, leftover' = leftover, NEW k \in {0, 1}, NEW n \in {0, 1},
         completed' \in Nat, failures' \in Nat,
         completed' + failures' = completed + failures + k, sent' = sent + n,
         Cardinality(Outstanding') = Cardinality(Outstanding) + n - k
  PROVE  \E inherited \in 0 .. Cardinality(leftover') :
           sent' + inherited = completed' + failures' + Cardinality(Outstanding')
<1>1. PICK i \in 0 .. Cardinality(leftover) :
        sent + i = completed + failures + Cardinality(Outstanding)
  BY DEF LoadInv, FiguresOfRun
<1>2. /\ i \in Nat /\ sent \in Nat /\ completed \in Nat /\ failures \in Nat
      /\ Cardinality(Outstanding) \in Nat
  BY LeftoverCount, WorkerCounts DEF LoadInv, LoadTypeOK
<1> DEFINE c2 == completed'
           f2 == failures'
           s2 == sent'
           u == Cardinality(Outstanding)
           u2 == Cardinality(Outstanding')
<1>3. /\ c2 \in Nat /\ f2 \in Nat /\ u \in Nat /\ u2 = u + n - k
      /\ c2 + f2 = completed + failures + k /\ s2 = sent + n
      /\ sent + i = completed + failures + u
  BY <1>1, <1>2
<1> HIDE DEF c2, f2, s2, u, u2
<1>4. s2 + i = c2 + f2 + u2
  BY <1>2, <1>3
<1> QED BY <1>1, <1>4 DEF c2, f2, s2, u2

\* One worker begins or ends a request, and no other worker moves.
LEMMA OneWorker ==
  ASSUME LoadTypeOK, NEW w \in Workers, NEW v \in {"off", "sending", "backoff", "cut"} \cup Calls,
         worker' = [worker EXCEPT ![w] = v]
  PROVE  /\ worker' \in [Workers -> {"off", "sending", "backoff", "cut"} \cup Calls]
         /\ worker[w] \notin {"off", "backoff"} /\ v \in {"off", "backoff"} =>
              Cardinality(Outstanding') = Cardinality(Outstanding) - 1
         /\ worker[w] \in {"off", "backoff"} /\ v \notin {"off", "backoff"} =>
              Cardinality(Outstanding') = Cardinality(Outstanding) + 1
         /\ (worker[w] \in {"off", "backoff"} <=> v \in {"off", "backoff"}) =>
              Outstanding' = Outstanding
         /\ worker[w] # "off" /\ v # "off" => Active' = Active
<1> USE DEF LoadTypeOK
<1>1. worker[w] \notin {"off", "backoff"} /\ v \in {"off", "backoff"} =>
        Cardinality(Outstanding') = Cardinality(Outstanding) - 1
  <2> SUFFICES ASSUME worker[w] \notin {"off", "backoff"}, v \in {"off", "backoff"}
               PROVE  Cardinality(Outstanding') = Cardinality(Outstanding) - 1
    OBVIOUS
  <2>1. Outstanding' = Outstanding \ {w} /\ w \in Outstanding
    BY DEF Outstanding
  <2> QED BY <2>1, WorkerCounts, FS_RemoveElement
<1>2. worker[w] \in {"off", "backoff"} /\ v \notin {"off", "backoff"} =>
        Cardinality(Outstanding') = Cardinality(Outstanding) + 1
  <2> SUFFICES ASSUME worker[w] \in {"off", "backoff"}, v \notin {"off", "backoff"}
               PROVE  Cardinality(Outstanding') = Cardinality(Outstanding) + 1
    OBVIOUS
  <2>1. Outstanding' = Outstanding \cup {w} /\ w \notin Outstanding
    BY DEF Outstanding
  <2> QED BY <2>1, WorkerCounts, FS_AddElement
<1>3. (worker[w] \in {"off", "backoff"} <=> v \in {"off", "backoff"}) =>
        Outstanding' = Outstanding
  BY DEF Outstanding
<1>4. worker[w] # "off" /\ v # "off" => Active' = Active
  BY DEF Active
<1>5. worker' \in [Workers -> {"off", "sending", "backoff", "cut"} \cup Calls]
  OBVIOUS
<1> QED BY <1>1, <1>2, <1>3, <1>4, <1>5

LEMMA LoadInvInit == LoadInit => LoadInv
<1> SUFFICES ASSUME LoadInit PROVE LoadInv
  OBVIOUS
<1>1. Outstanding = {} /\ leftover = {}
  BY DEF LoadInit, Outstanding
<1>2. Cardinality(Outstanding) = 0 /\ Cardinality(leftover) = 0
  BY <1>1, FS_EmptySet
<1>3. LoadTypeOK
  BY DEF LoadInit, LoadTypeOK
<1>4. 0 \in 0 .. 0 /\ sent + 0 = completed + failures + 0
  BY DEF LoadInit
<1> QED BY <1>2, <1>3, <1>4 DEF LoadInit, LoadInv, FiguresOfRun

LEMMA StartLoadInv ==
  ASSUME LoadInv, StartLoad
  PROVE  LoadInv'
<1>1. PICK n \in Concurrencies, new \in SUBSET (Workers \ Active) :
        /\ Cardinality(new) = n /\ concurrency' = n /\ sent' = n
        /\ worker' = [w \in Workers |-> IF w \in new THEN "sending" ELSE worker[w]]
  BY DEF StartLoad
<1>2. loading' = TRUE /\ completed' = 0 /\ failures' = 0 /\ leftover' = Active
  BY DEF StartLoad
<1>3. n \in Nat
  BY DashboardAssumption
<1>4. LoadTypeOK'
  BY <1>1, <1>2, <1>3 DEF LoadInv, LoadTypeOK, Active
<1>5. /\ Active' = new \cup Active /\ new \cap Active = {}
      /\ Outstanding' = new \cup Outstanding /\ new \cap Outstanding = {}
  BY <1>1 DEF Active, Outstanding, LoadInv, LoadTypeOK
<1>6. IsFiniteSet(new)
  BY FS_Subset, DashboardAssumption
<1>7. /\ Cardinality(Active') = n + Cardinality(Active)
      /\ Cardinality(Outstanding') = n + Cardinality(Outstanding)
  <2>1. Cardinality(new \cup Active) = Cardinality(new) + Cardinality(Active)
    BY <1>5, <1>6, WorkerCounts, DisjointUnion
  <2>2. Cardinality(new \cup Outstanding) = Cardinality(new) + Cardinality(Outstanding)
    BY <1>5, <1>6, WorkerCounts, DisjointUnion
  <2> QED BY <1>1, <1>3, <1>5, <2>1, <2>2, WorkerCounts
<1>8. PICK i \in Nat, a \in Nat :
        i = Cardinality(Outstanding) /\ a = Cardinality(Active) /\ i <= a
  BY WorkerCounts
<1>9. i \in 0 .. a /\ n + i = 0 + 0 + (n + i)
  BY <1>3, <1>8
<1> QED BY <1>1, <1>2, <1>4, <1>7, <1>8, <1>9 DEF LoadInv, FiguresOfRun

\* The head of the loop, after a reply (k = 1) or a pause (k = 0): the worker
\* was busy with k requests.
LEMMA NextRoundInv ==
  ASSUME LoadInv, NEW w \in Workers, NEW k \in {0, 1}, NextRound(w),
         k = 0 => worker[w] = "backoff",
         k = 1 => worker[w] \notin {"off", "backoff"},
         completed' \in Nat, failures' \in Nat,
         completed' + failures' = completed + failures + k,
         UNCHANGED <<loading, concurrency, leftover>>
  PROVE  LoadInv'
<1> USE DEF LoadInv
<1>0. sent \in Nat /\ Cardinality(Outstanding) \in Nat
  BY WorkerCounts DEF LoadTypeOK
<1>1. CASE loading
  <2>1. worker' = [worker EXCEPT ![w] = "sending"] /\ sent' = sent + 1
    BY <1>1 DEF NextRound
  <2>2. worker[w] # "off"
    OBVIOUS
  <2>3. /\ worker' \in [Workers -> {"off", "sending", "backoff", "cut"} \cup Calls]
        /\ Active' = Active
        /\ k = 0 => Cardinality(Outstanding') = Cardinality(Outstanding) + 1
        /\ k = 1 => Outstanding' = Outstanding
    BY <2>1, <2>2, OneWorker, ZenonT(30)
  <2>4. Cardinality(Outstanding') = Cardinality(Outstanding) + 1 - k
    BY <1>0, <2>3
  <2>5. LoadTypeOK'
    BY <1>0, <2>1, <2>3 DEF LoadTypeOK
  <2>6. loading' => Cardinality(Active') = concurrency' + Cardinality(leftover')
    BY <2>3 DEF FiguresOfRun
  <2> DEFINE n == 1
  <2>7. n \in {0, 1} /\ sent' = sent + n
        /\ Cardinality(Outstanding') = Cardinality(Outstanding) + n - k
    BY <2>1, <2>4
  <2> HIDE DEF n
  <2> QED BY <2>5, <2>6, <2>7, SameBalance DEF FiguresOfRun
<1>2. CASE ~loading
  <2>1. worker' = [worker EXCEPT ![w] = "off"] /\ sent' = sent
    BY <1>2 DEF NextRound
  <2>2. /\ worker' \in [Workers -> {"off", "sending", "backoff", "cut"} \cup Calls]
        /\ k = 0 => Outstanding' = Outstanding
        /\ k = 1 => Cardinality(Outstanding') = Cardinality(Outstanding) - 1
    BY <2>1, OneWorker
  <2>3. LoadTypeOK'
    BY <1>0, <2>1, <2>2 DEF LoadTypeOK
  <2> DEFINE n == 0
  <2>4. n \in {0, 1} /\ sent' = sent + n
        /\ Cardinality(Outstanding') = Cardinality(Outstanding) + n - k
    BY <1>0, <2>1, <2>2
  <2> HIDE DEF n
  <2> QED BY <1>2, <2>3, <2>4, SameBalance DEF FiguresOfRun
<1> QED BY <1>1, <1>2

LEMMA GiveUpInv ==
  ASSUME LoadInv, NEW w \in Workers, GiveUp(w)
  PROVE  LoadInv'
<1> USE DEF LoadInv
<1>1. /\ worker[w] \in {"sending"} \cup Calls /\ failures' = failures + 1
      /\ worker' = [worker EXCEPT ![w] = IF loading THEN "backoff" ELSE "off"]
      /\ UNCHANGED <<loading, concurrency, sent, completed, leftover>>
  BY DEF GiveUp
<1>2. worker[w] \notin {"off", "backoff"}
  BY <1>1, DashboardAssumption
<1>3. /\ worker' \in [Workers -> {"off", "sending", "backoff", "cut"} \cup Calls]
      /\ Cardinality(Outstanding') = Cardinality(Outstanding) - 1
      /\ loading => Active' = Active
  BY <1>1, <1>2, OneWorker
<1>4. sent \in Nat /\ completed \in Nat /\ failures \in Nat /\ Cardinality(Outstanding) \in Nat
  BY WorkerCounts DEF LoadTypeOK
<1>5. LoadTypeOK'
  BY <1>1, <1>3, <1>4 DEF LoadTypeOK
<1>6. loading' => Cardinality(Active') = concurrency' + Cardinality(leftover')
  BY <1>1, <1>3 DEF FiguresOfRun
<1> DEFINE k == 1
           n == 0
<1>7. /\ k \in {0, 1} /\ n \in {0, 1} /\ completed' \in Nat /\ failures' \in Nat
      /\ completed' + failures' = completed + failures + k /\ sent' = sent + n
      /\ Cardinality(Outstanding') = Cardinality(Outstanding) + n - k
  BY <1>1, <1>3, <1>4 DEF LoadTypeOK
<1> HIDE DEF k, n
<1> QED BY <1>1, <1>5, <1>6, <1>7, SameBalance DEF FiguresOfRun

LEMMA LoadInvNext == LoadInv /\ [LoadNext]_<<httpVars, loadVars>> => LoadInv'
<1> SUFFICES ASSUME LoadInv, [LoadNext]_<<httpVars, loadVars>> PROVE LoadInv'
  OBVIOUS
<1> USE DEF LoadInv
<1>1. CASE StartLoad
  BY <1>1, StartLoadInv
<1>2. CASE StopLoad
  BY <1>2 DEF StopLoad, LoadTypeOK, FiguresOfRun, Active, Outstanding
<1>3. CASE UNCHANGED loadVars
  BY <1>3 DEF loadVars, LoadTypeOK, FiguresOfRun, Active, Outstanding
<1>4. ASSUME NEW w \in Workers, Post(w) PROVE LoadInv'
  <2>1. PICK c \in Calls : worker[w] = "sending" /\ worker' = [worker EXCEPT ![w] = c]
    BY <1>4 DEF Post
  <2>2. UNCHANGED <<loading, concurrency, sent, completed, failures, leftover>>
    BY <1>4 DEF Post
  <2>3. /\ worker' \in [Workers -> {"off", "sending", "backoff", "cut"} \cup Calls]
        /\ Outstanding' = Outstanding /\ Active' = Active
    BY <2>1, OneWorker, DashboardAssumption
  <2> QED BY <2>2, <2>3 DEF LoadTypeOK, FiguresOfRun
<1>5. ASSUME NEW w \in Workers, GetReply(w) PROVE LoadInv'
  <2>1. worker[w] \notin {"off", "backoff"}
    BY <1>5, DashboardAssumption DEF GetReply
  <2>2. completed' \in Nat /\ failures' \in Nat /\ completed' + failures' = completed + failures + 1
    BY <1>5 DEF GetReply, Reply, LoadTypeOK
  <2>3. NextRound(w) /\ UNCHANGED <<loading, concurrency, leftover>>
    BY <1>5 DEF GetReply
  <2> DEFINE k == 1
  <2>4. k \in {0, 1} /\ k # 0 /\ completed' + failures' = completed + failures + k
    BY <2>2
  <2> HIDE DEF k
  <2> QED BY <2>1, <2>2, <2>3, <2>4, NextRoundInv
<1>6. ASSUME NEW w \in Workers, GiveUp(w) PROVE LoadInv'
  BY <1>6, GiveUpInv
<1>7. ASSUME NEW w \in Workers, BackoffOver(w) PROVE LoadInv'
  <2>1. /\ worker[w] = "backoff" /\ NextRound(w)
        /\ UNCHANGED <<loading, concurrency, completed, failures, leftover>>
    BY <1>7 DEF BackoffOver
  <2> DEFINE k == 0
  <2>2. /\ completed' \in Nat /\ failures' \in Nat /\ k \in {0, 1} /\ k # 1
        /\ completed' + failures' = completed + failures + k
    BY <2>1 DEF LoadTypeOK
  <2> HIDE DEF k
  <2> QED BY <2>1, <2>2, NextRoundInv
<1>8. HttpNext => UNCHANGED loadVars
  BY DEF HttpNext
<1>9. ASSUME NEW w \in Workers, CutOff(w) PROVE LoadInv'
  <2>1. /\ worker[w] \in Calls /\ worker' = [worker EXCEPT ![w] = "cut"]
        /\ UNCHANGED <<loading, concurrency, sent, completed, failures, leftover>>
    BY <1>9 DEF CutOff
  <2>2. /\ worker' \in [Workers -> {"off", "sending", "backoff", "cut"} \cup Calls]
        /\ Outstanding' = Outstanding /\ Active' = Active
    BY <2>1, OneWorker, DashboardAssumption
  <2> QED BY <2>1, <2>2 DEF LoadTypeOK, FiguresOfRun
<1> QED BY <1>1, <1>2, <1>3, <1>4, <1>5, <1>6, <1>7, <1>8, <1>9 DEF LoadNext

\* For any number of workers: the figures of a run describe that run, but for at
\* most one request of each worker that was left over when it was started.
THEOREM FiguresOfRunHolds == LoadSpec => []FiguresOfRun
<1>1. LoadInv => FiguresOfRun
  BY DEF LoadInv
<1> QED BY <1>1, LoadInvInit, LoadInvNext, PTL DEF LoadSpec
=============================================================================
