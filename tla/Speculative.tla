---------------------------- MODULE Speculative ----------------------------
(***************************************************************************)
(* Speculative decoding (engine/speculative.py): a draft model proposes    *)
(* DraftTokens tokens, one forward pass of the target verifies them, and   *)
(* the KV written for rejected proposals is rolled back.                   *)
(*                                                                         *)
(* A slot of the target's KV holds the token prefix it encodes, or <<>>    *)
(* when it encodes none (never written, or computed from such a slot).     *)
(* The target's argmax is any function of the whole text it attends to,    *)
(* which is the text its slots hold, rightly or wrongly; over slots that   *)
(* hold no text it may be anything.  The draft may propose anything, so of *)
(* its KV only the length is kept.                                         *)
(***************************************************************************)
EXTENDS Integers, Sequences, SequencesExt

CONSTANTS
  SpecTokens,   \* the vocabulary
  SpecPrompts,  \* the prompts generate() is called with
  DraftTokens,  \* num_draft_tokens
  SpecLimits,   \* the values of params.max_tokens
  SpecEos,      \* the values of eos_id; one outside SpecTokens is None
  SpecTargets,  \* the target models
  Argmax(_, _), \* what a target says behind a text, with greedy sampling
  Slots         \* KV positions that the blocks of each cache hold

ASSUME SpecAssumption ==
  /\ DraftTokens \in Nat \ {0} /\ Slots \in Nat
  /\ SpecPrompts \subseteq Seq(SpecTokens) \ {<<>>}
  /\ SpecLimits \subseteq Nat \ {0}
  /\ \A t \in SpecTargets, s \in BoundedSeq(SpecTokens, Slots) :
       s # <<>> => Argmax(t, s) \in SpecTokens

VARIABLES
  phase,      \* where generate() is
  call,       \* its arguments, and the target model
  output,     \* the tokens decided so far
  position,   \* KV positions that are settled
  slots,      \* the target's KV
  lengths,    \* target_kv.length and draft_kv.length
  proposals,  \* what the draft proposed in this round
  bonuses     \* SpeculationStats.bonus_tokens

specVars == <<phase, call, output, position, slots, lengths, proposals, bonuses>>

SpecInit ==
  /\ phase = "idle"
  /\ call = [prompt |-> <<>>, max |-> 0, eos |-> 0, greedy |-> TRUE, target |-> <<>>]
  /\ output = <<>> /\ position = 0
  /\ slots = [j \in 1..Slots |-> <<>>]
  /\ lengths = [target |-> 0, draft |-> 0]
  /\ proposals = <<>> /\ bonuses = 0

\* The slots before start hold the prefixes of one text.
Sound(start) ==
  start > 0 => /\ Len(slots[start]) = start
               /\ \A j \in 1..start : slots[j] = SubSeq(slots[start], 1, j)

\* The text that a pass over the window attends to.
Attended(window, start) == (IF start = 0 THEN <<>> ELSE slots[start]) \o window

\* forward_prefill(window, target_kv, start): each position attends to all
\* the slots before it.
ForwardWrites(window, start) ==
  slots' = [j \in 1..Slots |->
              IF j \notin start + 1 .. start + Len(window) THEN slots[j]
              ELSE IF Sound(start) THEN SubSeq(Attended(window, start), 1, j) ELSE <<>>]

\* What argmax, or sampling, may say at each position of the window.
Answers(window, start, c) ==
  {a \in [1..Len(window) -> SpecTokens] :
     c.greedy /\ Sound(start) =>
       \A i \in 1..Len(window) :
         a[i] = Argmax(c.target, SubSeq(Attended(window, start), 1, start + i))}

\* Both prefills and the first token.
Generate ==
  /\ phase = "idle"
  /\ \E p \in SpecPrompts, m \in SpecLimits, e \in SpecEos, g \in BOOLEAN,
        t \in SpecTargets :
       LET c == [prompt |-> p, max |-> m, eos |-> e, greedy |-> g, target |-> t] IN
       /\ Len(p) <= Slots
       /\ call' = c
       /\ ForwardWrites(p, 0)
       /\ \E a \in Answers(p, 0, c) : output' = <<Last(a)>>
       /\ position' = Len(p)
       /\ lengths' = [target |-> Len(p), draft |-> Len(p)]
  /\ phase' = "round"
  /\ UNCHANGED <<proposals, bonuses>>

Going == Len(output) < call.max /\ Last(output) # call.eos

\* _propose: the draft runs DraftTokens times from the rolled back length.
Propose ==
  /\ phase = "round" /\ Going
  /\ position + DraftTokens <= Slots
  /\ proposals' \in [1..DraftTokens -> SpecTokens]
  /\ lengths' = [lengths EXCEPT !.draft = position + DraftTokens]
  /\ phase' = "verify"
  /\ UNCHANGED <<call, output, position, slots, bonuses>>

\* ensure_capacity() raises OutOfBlocks out of generate(): nothing is released.
OutOfSlots ==
  /\ phase = "round" /\ Going
  /\ position + DraftTokens > Slots
  /\ phase' = "raised"
  /\ UNCHANGED <<call, output, position, slots, lengths, proposals, bonuses>>

\* The proposals before the first mismatch; sampling may reject any of them.
Kept(a) ==
  {n \in 0..DraftTokens :
     call.greedy => /\ \A i \in 1..n : proposals[i] = a[i]
                    /\ n < DraftTokens => proposals[n + 1] # a[n + 1]}

\* Mutant: the rejected proposal is emitted in place of the target's token.
AcceptedAfterRejecting(a, n) ==
  SubSeq(proposals, 1, n) \o <<IF n < DraftTokens THEN proposals[n + 1] ELSE Last(a)>>

\* What _verify returns after n matches: the correction at the first
\* mismatch, or a bonus token sampled from the last row of logits.
AcceptedOf(a, n) ==
  SubSeq(proposals, 1, n) \o <<IF n < DraftTokens THEN a[n + 1] ELSE Last(a)>>

\* One target forward over [last_token, *proposals[:-1]], the emission up to
\* max_tokens, and the rollback of both lengths.
Verify ==
  /\ phase = "verify"
  /\ LET window == <<Last(output)>> \o Front(proposals) IN
     \E a \in Answers(window, position, call) : \E n \in Kept(a) :
       LET emitted == SubSeq(AcceptedOf(a, n), 1,
                             Min({n + 1, call.max - Len(output)})) IN
       /\ ForwardWrites(window, position)
       /\ bonuses' = bonuses + (IF n = DraftTokens THEN 1 ELSE 0)
       /\ output' = output \o emitted
       /\ position' = position + Len(emitted)
       /\ lengths' = [target |-> position',
                      draft |-> IF lengths.draft < position' THEN lengths.draft
                                ELSE position']
  /\ phase' = "round"
  /\ UNCHANGED <<call, proposals>>

\* The loop ends; both sequences are released.
Finish ==
  /\ phase = "round" /\ ~Going
  /\ phase' = "done"
  /\ lengths' = [target |-> 0, draft |-> 0]
  /\ slots' = [j \in 1..Slots |-> <<>>]
  /\ UNCHANGED <<call, output, position, proposals, bonuses>>

SpecNext == Generate \/ Propose \/ OutOfSlots \/ Verify \/ Finish
SpecSpec == SpecInit /\ [][SpecNext]_specVars

-----------------------------------------------------------------------------
SoFar == call.prompt \o output

\* Plain greedy decoding of the target puts its argmax behind the prompt and
\* the tokens before: the n-th token of the output is the one it puts there.
IsPlain(n) == output[n] = Argmax(call.target, SubSeq(SoFar, 1, Len(call.prompt) + n - 1))
SameTokens == \A n \in 1..Len(output) : IsPlain(n)

\* The claim of the module's docstring (lines 10 to 12): with greedy decoding
\* the output is token for token that of the target decoding alone.
Lossless == call.greedy => SameTokens

\* As long as no round has accepted all of its proposals, the greedy output is
\* plain decoding's up to its first eos, and when generate() returns no token of
\* that is missing: corrections, truncation at max_tokens and the KV left behind
\* by rejected proposals change none of it.  Behind an eos that a round accepted
\* there are more tokens, each the one the target would go on with.
LosslessWithoutBonus ==
  call.greedy /\ bonuses = 0 =>
    /\ SameTokens
    /\ phase = "done" => Len(output) = call.max \/ \E n \in 1..Len(output) : output[n] = call.eos
=============================================================================
