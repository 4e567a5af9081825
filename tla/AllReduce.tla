----------------------------- MODULE AllReduce -----------------------------
(***************************************************************************)
(* What run_ring_allreduce() promises its caller: one answer, which is an  *)
(* error or, on every rank, in every chunk, the sum of one contribution of *)
(* each rank.                                                              *)
(***************************************************************************)
EXTENDS Naturals

CONSTANT N   \* the number of ranks

Rank == 0 .. N - 1

\* A sum is what it is made of: how often each rank's values are in it.
Full == [q \in Rank |-> 1]

VARIABLES
  call,   \* "idle", "joining", "error" or "results"
  sums    \* the results: per rank and chunk, a sum; <<>> until then

Init == call = "idle" /\ sums = <<>>

Ask == call = "idle" /\ call' \in {"joining", "error"} /\ UNCHANGED sums

Fail == call = "joining" /\ call' = "error" /\ UNCHANGED sums

Succeed ==
  /\ call = "joining" /\ call' = "results"
  /\ sums' = [r \in Rank |-> [c \in Rank |-> Full]]

Next == Ask \/ Fail \/ Succeed

Spec == Init /\ [][Next]_<<call, sums>> /\ WF_<<call, sums>>(Fail \/ Succeed)
=============================================================================
