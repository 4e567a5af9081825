----------------------------- MODULE MCKVMemory -----------------------------
(***************************************************************************)
(* A small instance of KVMemory: two sequences, a prompt that can be       *)
(* matched to two blocks, one of two whole blocks that may both be cached, *)
(* and chunks that make the sequences diverge.                             *)
(***************************************************************************)
EXTENDS KVMemory, TLC

MCTokens == {1, 2}
MCPrompts == {<<1, 1, 1, 1, 1>>, <<1, 1, 1, 2>>}
MCChunks == {<<1>>, <<1, 2>>}
MCSymmetry == Permutations(Blocks) \cup Permutations(Seqs)
=============================================================================
