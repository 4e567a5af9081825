--------------------------- MODULE RingAllReduce ---------------------------
(***************************************************************************)
(* Ring all-reduce over TCP (distributed/ring_allreduce.py).  N threads    *)
(* are connected in a ring; each sends a chunk to its next rank and then   *)
(* receives one from its previous rank, 2(N-1) times: N-1 steps reduce and *)
(* N-1 steps circulate the reduced chunks.  The driver joins the threads.  *)
(*                                                                         *)
(* The value of a chunk is kept as the number of times each rank's own     *)
(* values were added to it.  A link holds `room` whole chunks: with room 0 *)
(* a chunk exceeds the socket buffers, and sendall() returns only while    *)
(* the other side is receiving.                                            *)
(***************************************************************************)
EXTENDS Integers, Sequences

CONSTANTS
  N,        \* world_size
  Rooms,    \* the numbers of chunks a link may hold
  MaxLate   \* bound on the waits that outlast a timeout though the peer is alive

\* With fewer than two ranks the driver raises before it does anything.
ASSUME RingAssumption == N \in Nat /\ N >= 2 /\ Rooms \subseteq Nat /\ MaxLate \in Nat

Rank == 0 .. N - 1

VARIABLES
  driver,   \* run_ring_allreduce(): "idle", "joining", "error" or "results"
  few,      \* the tensor has fewer elements than there are ranks
  room,
  late,     \* waits that have outlasted a timeout
  place,    \* where RingNode.run() is
  steps,    \* RingStats.steps: the messages received
  chunks,   \* the local list of RingNode.run()
  wire      \* what each rank has sent to its next one

ringVars == <<driver, few, room, late, place, steps, chunks, wire>>

\* x % N for the indices that occur.
Wrap(x) == IF x < 0 THEN x + N ELSE IF x >= N THEN x - N ELSE x
NextRank(r) == Wrap(r + 1)
PrevRank(r) == Wrap(r - 1)

Own(r) == [q \in Rank |-> IF q = r THEN 1 ELSE 0]
Plus(a, b) == [q \in Rank |-> a[q] + b[q]]

RingInit ==
  /\ driver = "idle"
  /\ few = FALSE /\ room = 0 /\ late = 0
  /\ place = [r \in Rank |-> "idle"]
  /\ steps = [r \in Rank |-> 0]
  /\ chunks = [r \in Rank |-> [c \in Rank |-> Own(r)]]
  /\ wire = [r \in Rank |-> <<>>]

\* The listeners are bound and the threads started, or the shapes differ.
RunAllReduce ==
  /\ driver = "idle"
  /\ \/ /\ driver' = "joining"
        /\ few' \in BOOLEAN /\ room' \in Rooms
        /\ place' = [r \in Rank |-> "start"]
     \/ /\ driver' = "error"
        /\ UNCHANGED <<few, room, place>>
  /\ UNCHANGED <<late, steps, chunks, wire>>

Goes(r, p) == place' = [place EXCEPT ![r] = p]

\* The errors before the try block close no socket ("gone"); later ones do.
HasClosed(r) == place[r] \in {"returned", "failed"}
Ended(r) == place[r] \in {"returned", "failed", "gone"}

\* _split_chunks() raises ValueError on a tensor with too few elements.
SplitChunks(r) ==
  /\ place[r] = "start"
  /\ Goes(r, IF few THEN "gone" ELSE "connect")
  /\ UNCHANGED <<driver, few, room, late, steps, chunks, wire>>

\* The next rank listens since before the threads were started.
ConnectNext(r) ==
  /\ place[r] = "connect"
  /\ Goes(r, "accept")
  /\ UNCHANGED <<driver, few, room, late, steps, chunks, wire>>

AcceptPrev(r) ==
  /\ place[r] = "accept" /\ place[PrevRank(r)] \notin {"start", "connect"}
  /\ Goes(r, "send")
  /\ UNCHANGED <<driver, few, room, late, steps, chunks, wire>>

\* reduce-scatter sends (rank - step) % n, all-gather (rank - step + 1) % n.
SendIdx(r) == IF steps[r] < N - 1 THEN Wrap(r - steps[r])
              ELSE Wrap(r - (steps[r] - (N - 1)) + 1)
RecvIdx_Late(r) == SendIdx(r)   \* mutant: received into the chunk just sent
RecvIdx(r) == IF steps[r] < N - 1 THEN Wrap(r - steps[r] - 1)
              ELSE Wrap(r - (steps[r] - (N - 1)))

\* sendall() can return: the link has room, or its end reads along, or is
\* closed, which the sender may not have heard of yet.
Sendable(r) ==
  \/ Len(wire[r]) - steps[NextRank(r)] < room
  \/ place[NextRank(r)] = "recv" /\ Len(wire[r]) = steps[NextRank(r)]
  \/ HasClosed(NextRank(r))

SendMsg(r) ==
  /\ place[r] = "send" /\ Sendable(r)
  /\ wire' = [wire EXCEPT ![r] = Append(@, chunks[r][SendIdx(r)])]
  /\ Goes(r, "recv")
  /\ UNCHANGED <<driver, few, room, late, steps, chunks>>

\* ... or it is known to be closed, and sendall() raises.
SendFails(r) ==
  /\ place[r] = "send" /\ HasClosed(NextRank(r))
  /\ Goes(r, "failed")
  /\ UNCHANGED <<driver, few, room, late, steps, chunks, wire>>

\* Mutant: a connection is reset when it is closed, what is on its way is lost.
Arrived_UnlessClosed(r) ==
  Len(wire[PrevRank(r)]) > steps[r] /\ ~HasClosed(PrevRank(r))
Arrived(r) == Len(wire[PrevRank(r)]) > steps[r]

\* recv_msg() and the update; after the last step the sockets are closed.
RecvMsg(r) ==
  /\ place[r] = "recv" /\ Arrived(r)
  /\ LET incoming == wire[PrevRank(r)][steps[r] + 1] IN
     chunks' = [chunks EXCEPT ![r][RecvIdx(r)] =
                  IF steps[r] < N - 1 THEN Plus(@, incoming) ELSE incoming]
  /\ steps' = [steps EXCEPT ![r] = @ + 1]
  /\ Goes(r, IF steps[r] + 1 = 2 * (N - 1) THEN "returned" ELSE "send")
  /\ UNCHANGED <<driver, few, room, late, wire>>

\* recv() returns nothing: the peer has closed the connection.
RecvFails(r) ==
  /\ place[r] = "recv" /\ ~Arrived(r) /\ HasClosed(PrevRank(r))
  /\ Goes(r, "failed")
  /\ UNCHANGED <<driver, few, room, late, steps, chunks, wire>>

Blocked(r) ==
  \/ place[r] = "accept" /\ place[PrevRank(r)] \in {"start", "connect"}
  \/ place[r] = "send" /\ ~Sendable(r)
  \/ place[r] = "recv" /\ ~Arrived(r) /\ ~HasClosed(PrevRank(r))

TimesOut(r) ==
  /\ Blocked(r)
  /\ Goes(r, IF place[r] = "accept" THEN "gone" ELSE "failed")
  /\ UNCHANGED <<driver, few, room, steps, chunks, wire>>

\* Nobody can go on, so the timeouts run out ...
Timeout(r) ==
  /\ \A q \in Rank : Blocked(q) \/ Ended(q)
  /\ TimesOut(r)
  /\ UNCHANGED late

\* ... or one does because a peer is slow.
TimeoutEarly(r) == late < MaxLate /\ late' = late + 1 /\ TimesOut(r)

\* All threads have ended: the first error found, or everybody's result.
JoinRanks ==
  /\ driver = "joining" /\ \A r \in Rank : Ended(r)
  /\ driver' = IF \A r \in Rank : place[r] = "returned" THEN "results" ELSE "error"
  /\ UNCHANGED <<few, room, late, place, steps, chunks, wire>>

\* A join() has timed out; the stuck threads are left to themselves.
JoinTimesOut ==
  /\ driver = "joining" /\ \E r \in Rank : ~Ended(r)
  /\ late < MaxLate /\ late' = late + 1
  /\ driver' = "error"
  /\ UNCHANGED <<few, room, place, steps, chunks, wire>>

RunNode(r) ==
  \/ SplitChunks(r) \/ ConnectNext(r) \/ AcceptPrev(r) \/ SendMsg(r) \/ SendFails(r)
  \/ RecvMsg(r) \/ RecvFails(r) \/ Timeout(r)

RingNext ==
  \/ RunAllReduce \/ JoinRanks \/ JoinTimesOut
  \/ \E r \in Rank : RunNode(r) \/ TimeoutEarly(r)

\* The threads run, their timeouts expire, and the driver sees them end.
RingFairness == WF_ringVars(JoinRanks) /\ \A r \in Rank : WF_ringVars(RunNode(r))
RingSpec == RingInit /\ [][RingNext]_ringVars /\ RingFairness

-----------------------------------------------------------------------------
Results == IF driver = "results" THEN chunks ELSE <<>>
Collective == INSTANCE AllReduce WITH call <- driver, sums <- Results

\* The caller gets an answer, whatever peers fail, stall or close their
\* sockets half way; if it is not an error it is the full sum on every rank
\* (no partial sum of a rank whose neighbour failed).
AllReduceSpec == Collective!Spec

\* An error is only returned for a tensor that cannot be split, chunks that
\* exceed the socket buffers, shapes that differ (no thread is started) or a
\* peer slower than the timeout: the order of the sends, the receives and the
\* closing of sockets by ranks that are done makes no rank fail.
ErrorsHaveACause ==
  driver = "error" /\ place # [r \in Rank |-> "idle"] => few \/ room = 0 \/ late > 0
=============================================================================
