---------------------------- MODULE SequenceStore ----------------------------
(***************************************************************************)
(* What the KV memory promises its clients: every sequence has a memory of *)
(* its own that holds the keys and values of the tokens it was fed, in     *)
(* order.  There are no blocks, no sharing and no eviction here.           *)
(***************************************************************************)
EXTENDS Integers, Sequences

CONSTANTS Seqs, Prompts, Chunks

VARIABLE kv   \* kv[s]: the tokens attention reads for sequence s

Init == kv = [s \in Seqs |-> <<>>]

\* A sequence may start with part of its prompt, but never with all of it: the
\* last token must still be fed for a logit to come out.
Start(s) ==
  /\ kv[s] = <<>>
  /\ \E p \in Prompts : \E k \in 0..(Len(p) - 1) : kv'[s] = SubSeq(p, 1, k)

Feed(s) == \E c \in Chunks : kv'[s] = kv[s] \o c
Cut(s) == \E n \in 0..Len(kv[s]) : kv'[s] = SubSeq(kv[s], 1, n)

\* A step changes the memory of one sequence.
Next ==
  \E s \in Seqs :
    /\ \A t \in Seqs \ {s} : kv'[t] = kv[t]
    /\ Start(s) \/ Feed(s) \/ Cut(s)

Spec == Init /\ [][Next]_kv
=============================================================================
