--------------------------- MODULE HealthMonitor ---------------------------
(***************************************************************************)
(* The failure detector of the ring (distributed/health.py).  Ranks report *)
(* heartbeats; snapshot() evaluates the peers three times, and each time   *)
(* reads the clock before it waits for the lock.  Time is kept as ages, in *)
(* ticks.  PeerHealth.state and .missed_intervals are left out: whoever    *)
(* reads them evaluates first.                                             *)
(***************************************************************************)
EXTENDS Integers, FiniteSets

CONSTANTS
  Peers,             \* the ranks
  IntervalTicks,     \* interval_s
  FailureThreshold,  \* failure_threshold
  ReportedSteps,     \* the values of step, -1 included
  MaxLag             \* bound on the ticks between reading the clock and the lock

ASSUME HealthAssumption ==
  /\ IsFiniteSet(Peers)
  /\ IntervalTicks \in Nat \ {0} /\ FailureThreshold \in Nat \ {0} /\ MaxLag \in Nat
  /\ ReportedSteps \subseteq Nat \cup {-1}

DeadAge == FailureThreshold * IntervalTicks
MaxAge == DeadAge + MaxLag + 1   \* ages from here on are not told apart

VARIABLES
  age,       \* per peer: ticks since last_heartbeat; -1 if there is none
  observed,  \* observed_step
  asking,    \* where snapshot() is
  lag,       \* ticks since the clock was read
  snap,      \* what snapshot() has collected
  beats      \* peers heard of since snapshot() was called

healthVars == <<age, observed, asking, lag, snap, beats>>

Empty == [dead |-> {}, suspect |-> {}, healthy |-> 0, stragglers |-> {}, quorate |-> FALSE]

HealthInit ==
  /\ age = [r \in Peers |-> -1] /\ observed = [r \in Peers |-> -1]
  /\ asking = "idle" /\ lag = 0 /\ beats = {}
  /\ snap = Empty

Heartbeat(r) ==
  /\ age' = [age EXCEPT ![r] = 0]
  /\ \E s \in ReportedSteps :
       observed' = [observed EXCEPT ![r] = IF s >= 0 THEN s ELSE @]
  /\ beats' = beats \cup {r}
  /\ UNCHANGED <<asking, lag, snap>>

HealthTick ==
  /\ asking \in {"lock1", "lock2", "lock3"} => lag < MaxLag
  /\ lag' = IF asking \in {"lock1", "lock2", "lock3"} THEN lag + 1 ELSE 0
  /\ age' = [r \in Peers |-> IF age[r] \in {-1, MaxAge} THEN age[r] ELSE age[r] + 1]
  /\ UNCHANGED <<observed, asking, snap, beats>>

Snapshot ==
  /\ asking = "idle"
  /\ asking' = "clock1" /\ beats' = {} /\ snap' = Empty
  /\ UNCHANGED <<age, observed, lag>>

\* now = time.monotonic(), before the lock is taken.
ReadClock ==
  /\ \/ asking = "clock1" /\ asking' = "lock1"
     \/ asking = "clock2" /\ asking' = "lock2"
     \/ asking = "clock3" /\ asking' = "lock3"
  /\ lag' = 0
  /\ UNCHANGED <<age, observed, snap, beats>>

\* The intervals missed; -1 after a heartbeat since the clock was read.
Missed_RoundedUp(r) == (age[r] - lag + IntervalTicks - 1) \div IntervalTicks   \* mutant
Missed(r) == (age[r] - lag) \div IntervalTicks

Dead == {r \in Peers : age[r] # -1 /\ Missed(r) >= FailureThreshold}
Healthy == {r \in Peers : age[r] # -1 /\ Missed(r) = 0}
Suspect == {r \in Peers : age[r] # -1} \ (Dead \cup Healthy)

Quorate_NoneDead == Dead = {}   \* mutant: a suspect peer still counts
Quorate == Healthy = Peers      \* is_quorate(): all of them

Stragglers ==
  {r \in Peers : observed[r] >= 0 /\ \E q \in Peers : observed[q] > observed[r]}

\* evaluate() for the states, for healthy_count() and for is_quorate().
Evaluate ==
  /\ \/ asking = "lock1" /\ asking' = "clock2"
        /\ snap' = [snap EXCEPT !.dead = Dead, !.suspect = Suspect]
     \/ asking = "lock2" /\ asking' = "stragglers"
        /\ snap' = [snap EXCEPT !.healthy = Cardinality(Healthy)]
     \/ asking = "lock3" /\ asking' = "idle"
        /\ snap' = [snap EXCEPT !.quorate = Quorate]
  /\ lag' = 0
  /\ UNCHANGED <<age, observed, beats>>

FindStragglers ==
  /\ asking = "stragglers" /\ asking' = "clock3"
  /\ snap' = [snap EXCEPT !.stragglers = Stragglers]
  /\ UNCHANGED <<age, observed, lag, beats>>

HealthNext ==
  \/ HealthTick \/ Snapshot \/ ReadClock \/ Evaluate \/ FindStragglers
  \/ \E r \in Peers : Heartbeat(r)
HealthSpec == HealthInit /\ [][HealthNext]_healthVars

-----------------------------------------------------------------------------
\* A peer reported dead or suspect has missed the intervals that call for it,
\* or has sent a heartbeat while the snapshot was being taken: a negative age
\* and the wait for the lock make no other peer a suspect.
NoFalseAlarm ==
  /\ \A r \in snap.dead \ beats : age[r] >= DeadAge
  /\ \A r \in snap.suspect \ beats : age[r] >= IntervalTicks

\* The three evaluations of one snapshot may disagree, but a ring called
\* quorate has no dead or suspect peer that did not come back in the meantime.
QuorateExplained ==
  asking = "idle" /\ snap.quorate => snap.dead \cup snap.suspect \subseteq beats
=============================================================================
