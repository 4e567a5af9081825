------------------------------ MODULE MCEngine ------------------------------
(***************************************************************************)
(* Small instances of Engine: blocks of two tokens, two or three requests  *)
(* at a time, token 2 ends an answer.                                      *)
(***************************************************************************)
EXTENDS Engine, TLC

MCTokens == {1, 2}
MCChunks == UNION {[1..n -> MCTokens] : n \in 1..MaxBatchedTokens}

\* Two families of prompts: their full blocks are cached side by side.
MCPrompts == {<<1, 1, 1>>, <<2, 1, 1>>}
MCLimits == {3}

\* A short prompt with a long answer outgrows its first blocks while it decodes.
MCGrowing == {<<1>>, <<2, 1, 1>>}
MCGrowLimits == {3, 5}

\* Two prompts that share their first block, and one with a long answer.
MCLong == {<<1, 1, 1, 1, 1>>, <<1, 1, 1>>, <<2>>}
MCLongLimits == {1, 5}

\* Enough tokens to fill every block of a pool of three.
MCCapLimits == {4}

MCSymmetry == Permutations(Blocks) \cup Permutations(Seqs)
=============================================================================
