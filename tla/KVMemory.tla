------------------------------ MODULE KVMemory ------------------------------
(***************************************************************************)
(* The paged KV memory of infer_lab: the reference-counted block allocator *)
(* (kv/block_allocator.py), the block table of each sequence               *)
(* (kv/paged_cache.py) and the radix prefix cache (kv/radix_cache.py).     *)
(*                                                                         *)
(* One action per call a client makes.  Metrics counters and the identity  *)
(* of the free block that allocate() returns are abstracted: a block id is *)
(* never observable, so Fresh picks any injective choice.  The content of  *)
(* a KV slot is the token prefix it was computed from: position p of a     *)
(* sequence depends on tokens 1..p and on nothing else.                    *)
(***************************************************************************)
EXTENDS Integers, Sequences, FiniteSets

CONSTANTS
  Blocks,     \* the physical blocks of the pool
  Seqs,       \* the sequences (SequenceKV objects) clients may open
  Tokens,     \* the vocabulary
  Unwritten,  \* stands for a position that was skipped: no token was fed there
  BlockSize,  \* tokens per block
  CacheCap,   \* RadixCache.max_blocks
  Caching,    \* EngineConfig.enable_prefix_caching
  Prompts,    \* the token lists a sequence may be opened for
  Chunks,     \* the token lists one forward pass may append
  MaxLen      \* bound on the length of a sequence (max_model_len)

ASSUME KVAssumption ==
  /\ IsFiniteSet(Blocks) /\ IsFiniteSet(Seqs)
  /\ BlockSize \in Nat \ {0} /\ CacheCap \in Nat /\ MaxLen \in Nat
  /\ Caching \in BOOLEAN
  /\ Unwritten \notin Tokens
  /\ \A p \in Prompts : p \in Seq(Tokens) /\ p # <<>>
  /\ \A c \in Chunks : c \in Seq(Tokens) /\ c # <<>>

VARIABLES
  free,     \* BlockAllocator._free, as a set
  ref,      \* BlockAllocator._ref
  open,     \* the sequences whose SequenceKV exists (request.kv is not None)
  table,    \* SequenceKV.block_table
  text,     \* the tokens fed at positions 1..length; SequenceKV.length is its Len
  data,     \* k_pool/v_pool: for each block and slot, the prefix it encodes
  tree,     \* the radix tree: token path from the root -> RadixNode.block_id
  older,    \* <<p, q>> when node p was last accessed before node q
  toEvict   \* evictions the running RadixCache.evict() call may still make

kvvars == <<free, ref, open, table, text, data, tree, older, toEvict>>

-----------------------------------------------------------------------------
(* Arithmetic of positions and blocks; positions count from 1.             *)

Max2(a, b) == IF a >= b THEN a ELSE b
Min2(a, b) == IF a <= b THEN a ELSE b
Image(f) == {f[x] : x \in DOMAIN f}

\* ceil(n / BlockSize)
BlocksFor(n) == (n + BlockSize - 1) \div BlockSize

\* divmod(pos, block_size)
IndexOf(p) == ((p - 1) \div BlockSize) + 1
SlotOf(p) == ((p - 1) % BlockSize) + 1

\* The radix path of the i-th block of a token list.
Path(tokens, i) == SubSeq(tokens, 1, i * BlockSize)

\* The content of the slots of a block nobody has written since its allocation.
Blank == [j \in 1..BlockSize |-> <<>>]

NumFree == Cardinality(free)

\* The table entries that holding n tokens still lacks, and how many they are.
Missing(s, n) == (Len(table[s]) + 1)..BlocksFor(n)
BlocksNeeded(s, n) == Cardinality(Missing(s, n))

\* The places of b in a block list.
Places(blocks, b) == {i \in DOMAIN blocks : blocks[i] = b}

\* is_shared(): somebody else reads this block too.
Shared_Late(b) == ref[b] > 2   \* mutant: a block of two readers passes as private
Shared(b) == ref[b] > 1

\* full_blocks(): how many blocks of s are completely filled.
FullBlocks_Ceil(s) == BlocksFor(Len(text[s]))   \* mutant: counts the tail block too
FullBlocks(s) == Len(text[s]) \div BlockSize

\* Free blocks for the table entries I, all distinct.
Fresh(I) == CHOOSE f \in [I -> free] : \A i, j \in I : f[i] = f[j] => i = j

\* The free list after this step: minus what was allocated, plus what lost its
\* last reference.  A block on the free list holds nothing anyone may read.
Recycle_Leaks(taken) == free' = free \ taken   \* mutant: free() never appends the block
Recycle(taken) ==
  free' = (free \ taken) \cup {b \in Blocks : ref[b] > 0 /\ ref'[b] = 0}
Forget(d) == [b \in Blocks |-> IF ref'[b] = 0 THEN Blank ELSE d[b]]

\* Stamp the paths S with the next tick of the cache clock.
Touch_Ties(S) ==   \* mutant: stamps nothing newer than what it met
  older' = {pq \in older : pq[1] \notin S /\ pq[2] \notin S}
Touch(S) ==
  older' = {pq \in older : pq[1] \notin S /\ pq[2] \notin S}
             \cup ((DOMAIN tree' \ S) \X S)

-----------------------------------------------------------------------------
KVInit ==
  /\ free = Blocks
  /\ ref = [b \in Blocks |-> 0]
  /\ open = {}
  /\ table = [s \in Seqs |-> <<>>]
  /\ text = [s \in Seqs |-> <<>>]
  /\ data = [b \in Blocks |-> Blank]
  /\ tree = <<>>
  /\ older = {}
  /\ toEvict = 0

\* match() never takes the block that holds the last token of the query.
Usable_Whole(tokens) ==   \* mutant: the last block is taken as well
  IF Caching THEN Len(tokens) \div BlockSize ELSE 0
Usable(tokens) == IF Caching THEN (Len(tokens) - 1) \div BlockSize ELSE 0

\* match() found exactly k blocks: it stops at the first path that is not cached.
MatchIs(tokens, k) ==
  /\ k \in 0..Usable(tokens)
  /\ \A i \in 1..k : Path(tokens, i) \in DOMAIN tree
  /\ k < Usable(tokens) => Path(tokens, k + 1) \notin DOMAIN tree

\* new_sequence(), then match() and adopt_prefix(): the cached blocks are
\* spliced into the table and each gets one more reference.
Open(s, prompt) ==
  /\ toEvict = 0
  /\ s \notin open
  /\ open' = open \cup {s}
  /\ \E k \in 0..Len(prompt) :
       LET hit == [i \in 1..k |-> tree[Path(prompt, i)]]
       IN  /\ MatchIs(prompt, k)
           /\ table' = [table EXCEPT ![s] = hit]
           /\ text' = [text EXCEPT ![s] = SubSeq(prompt, 1, k * BlockSize)]
           /\ ref' = [b \in Blocks |-> ref[b] + Cardinality(Places(hit, b))]
           /\ UNCHANGED <<free, data, tree, toEvict>>
           /\ Touch({Path(prompt, i) : i \in 1..k})

\* One forward pass over toks: write() for positions start+1..start+Len(toks),
\* then length moves to the end.  ensure_capacity() is all-or-nothing and raises
\* before anything changes, so it is a guard.  Every shared block that is written
\* is copied first; when the pool runs dry at one of them the pass stops there,
\* keeping the table it has grown and the copies it has made.
Write(s, start, toks) ==
  LET n == Len(toks)
      grow == Missing(s, start + n)
      shared == {i \in DOMAIN table[s] :
                   i \in IndexOf(start + 1)..IndexOf(start + n) /\ Shared(table[s][i])}
      copies == {i \in shared : Cardinality({j \in shared : j <= i})
                                  <= NumFree - Cardinality(grow)}
      fresh == Fresh(grow \cup copies)
      blocks == [i \in 1..Max2(Len(table[s]), BlocksFor(start + n)) |->
                   IF i \in grow \cup copies THEN fresh[i] ELSE table[s][i]]
      fed == [p \in 1..start |-> IF p <= Len(text[s]) THEN text[s][p] ELSE Unwritten] \o toks
      written == {p \in (start + 1)..(start + n) :
                    \A i \in shared \ copies : IndexOf(p) < i}
      stored == [i \in DOMAIN blocks |-> [j \in 1..BlockSize |->
                   LET p == (i - 1) * BlockSize + j
                   IN  IF p \in written THEN SubSeq(fed, 1, p)
                       ELSE data[IF i \in copies THEN table[s][i] ELSE blocks[i]][j]]]
  IN  /\ toEvict = 0
      /\ s \in open
      /\ n > 0
      /\ Cardinality(grow) <= NumFree
      /\ table' = [table EXCEPT ![s] = blocks]
      /\ ref' = [b \in Blocks |->
                   IF b \in Image(fresh) THEN 1
                   ELSE ref[b] - Cardinality(Places(table[s], b) \cap copies)]
      /\ Recycle(Image(fresh))
      /\ data' = [b \in Blocks |->
                    IF b \in Image(blocks) THEN stored[CHOOSE i \in DOMAIN blocks : blocks[i] = b]
                    ELSE data[b]]
      /\ text' = IF copies = shared THEN [text EXCEPT ![s] = fed] ELSE text
      /\ UNCHANGED <<open, tree, older, toEvict>>

\* Speculative decoding drops rejected positions by assigning length.
Rollback(s, n) ==
  /\ toEvict = 0
  /\ s \in open
  /\ n \in 0..(Len(text[s]) - 1)
  /\ text' = [text EXCEPT ![s] = SubSeq(text[s], 1, n)]
  /\ UNCHANGED <<free, ref, open, table, data, tree, older, toEvict>>

\* release(): one reference of every table entry is dropped.
Release_KeepsLength(s) ==   \* mutant: length is not set back to 0
  /\ toEvict = 0
  /\ s \in open
  /\ open' = open \ {s}
  /\ table' = [table EXCEPT ![s] = <<>>]
  /\ ref' = [b \in Blocks |-> ref[b] - Cardinality(Places(table[s], b))]
  /\ Recycle({})
  /\ data' = Forget(data)
  /\ UNCHANGED <<text, tree, older, toEvict>>
Release(s) ==
  /\ toEvict = 0
  /\ s \in open
  /\ open' = open \ {s}
  /\ table' = [table EXCEPT ![s] = <<>>]
  /\ text' = [text EXCEPT ![s] = <<>>]
  /\ ref' = [b \in Blocks |-> ref[b] - Cardinality(Places(table[s], b))]
  /\ Recycle({})
  /\ data' = Forget(data)
  /\ UNCHANGED <<tree, older, toEvict>>

\* insert(tokens, full_blocks()): the paths not cached yet get the sequence's own
\* blocks and a reference each; the whole path is stamped; then evict_to().
Publish(s, tokens) ==
  LET k == Min2(FullBlocks(s), Len(tokens) \div BlockSize)
      walked == {Path(tokens, i) : i \in 1..k}
      added == walked \ DOMAIN tree
      BlockOf(p) == table[s][Len(p) \div BlockSize]
  IN  /\ Caching
      /\ toEvict = 0
      /\ s \in open
      /\ tree' = [p \in DOMAIN tree \cup walked |->
                    IF p \in added THEN BlockOf(p) ELSE tree[p]]
      /\ ref' = [b \in Blocks |-> ref[b] + Cardinality({p \in added : BlockOf(p) = b})]
      /\ Touch(walked)
      /\ toEvict' = Max2(0, Cardinality(DOMAIN tree') - CacheCap)
      /\ UNCHANGED <<free, open, table, text, data>>

\* evict(n): the loop below runs up to n times before anything else happens.
Evict(n) ==
  /\ Caching
  /\ toEvict = 0
  /\ toEvict' = n
  /\ UNCHANGED <<free, ref, open, table, text, data, tree, older>>

\* The paths whose node has no child and whose block only the cache holds.
IsChild(q, p) == Len(q) = Len(p) + BlockSize /\ SubSeq(q, 1, Len(p)) = p
Evictable_Inner == {p \in DOMAIN tree : ref[tree[p]] = 1}   \* mutant: not only leaves
Evictable_InUse ==   \* mutant: a block that a sequence reads is dropped too
  {p \in DOMAIN tree : \A q \in DOMAIN tree : ~IsChild(q, p)}
Evictable ==
  {p \in DOMAIN tree : ref[tree[p]] = 1 /\ \A q \in DOMAIN tree : ~IsChild(q, p)}
LRU == {p \in Evictable : \A q \in Evictable : <<q, p>> \notin older}

EvictOne ==
  /\ toEvict > 0
  /\ \E p \in LRU :
       /\ tree' = [q \in DOMAIN tree \ {p} |-> tree[q]]
       /\ ref' = [ref EXCEPT ![tree[p]] = @ - 1]
       /\ older' = {pq \in older : pq[1] # p /\ pq[2] # p}
  /\ Recycle({})
  /\ data' = Forget(data)
  /\ toEvict' = toEvict - 1
  /\ UNCHANGED <<open, table, text>>

EvictNoMore ==
  /\ toEvict > 0
  /\ Evictable = {}
  /\ toEvict' = 0
  /\ UNCHANGED <<free, ref, open, table, text, data, tree, older>>

\* reset(): the cache drops every reference it holds.
Reset ==
  /\ Caching
  /\ toEvict = 0
  /\ tree' = <<>>
  /\ older' = {}
  /\ ref' = [b \in Blocks |-> ref[b] - Cardinality(Places(tree, b))]
  /\ Recycle({})
  /\ data' = Forget(data)
  /\ UNCHANGED <<open, table, text, toEvict>>

\* A bound on what one call of evict() is asked for: the pool and one block more,
\* what a request needs that waits with the whole pool adopted (schedule(), stage 4).
MaxEvict == Cardinality(Blocks) + 1

\* What clients do: they write where the KV ends, and publish what they fed.
KVNext ==
  \/ \E s \in Seqs, p \in Prompts : Open(s, p)
  \/ \E s \in Seqs, c \in Chunks :
       Len(text[s]) + Len(c) <= MaxLen /\ Write(s, Len(text[s]), c)
  \/ \E s \in Seqs, n \in 0..MaxLen : Rollback(s, n)
  \/ \E s \in Seqs : Release(s) \/ Publish(s, text[s])
  \/ \E n \in 1..MaxEvict : Evict(n)
  \/ EvictOne
  \/ EvictNoMore
  \/ Reset

KVSpec == KVInit /\ [][KVNext]_kvvars

-----------------------------------------------------------------------------
(* Properties.                                                             *)

Fed == Seq(Tokens \cup {Unwritten})

\* The state has its types, and a closed sequence holds nothing.
KVTypeOK ==
  /\ free \subseteq Blocks
  /\ ref \in [Blocks -> Nat]
  /\ open \subseteq Seqs
  /\ table \in [Seqs -> Seq(Blocks)]
  /\ text \in [Seqs -> Fed]
  /\ data \in [Blocks -> [1..BlockSize -> Fed]]
  /\ tree = [p \in DOMAIN tree |-> tree[p]]
  /\ IsFiniteSet(DOMAIN tree)
  /\ \A p \in DOMAIN tree : p \in Fed /\ tree[p] \in Blocks
  /\ older \subseteq (DOMAIN tree) \X (DOMAIN tree)
  /\ toEvict \in Nat
  /\ \A s \in Seqs \ open : table[s] = <<>> /\ text[s] = <<>>

\* The references to block b: the table entries and the cache nodes that name it.
TableRefs(b) == UNION {{s} \X Places(table[s], b) : s \in Seqs}
CacheRefs(b) == Places(tree, b)

\* Every reference count is the number of references that exist, and the free
\* list is exactly the unreferenced blocks: no leak, no double free, no block
\* handed out while a sequence or the cache still names it.
RefAccounting ==
  /\ \A b \in Blocks : ref[b] = Cardinality(TableRefs(b)) + Cardinality(CacheRefs(b))
  /\ free = {b \in Blocks : ref[b] = 0}

\* What gather() returns for s, as the token prefix it encodes; anything that is
\* not one token prefix throughout reads as <<Unwritten>>.
Seen(s, p) == data[table[s][IndexOf(p)]][SlotOf(p)]
Gather(s) ==
  LET n == Len(text[s])
  IN  IF n = 0 THEN <<>>
      ELSE IF Len(Seen(s, n)) = n /\ \A p \in 1..n : Seen(s, p) = SubSeq(Seen(s, n), 1, p)
           THEN Seen(s, n)
           ELSE <<Unwritten>>

\* Sharing is invisible: every sequence reads back exactly the tokens it was fed,
\* whatever blocks it shares with other sequences or with the prefix cache.
Readable == \A s \in open : Gather(s) = text[s]

\* The cache is sound: every cached path is reachable from the root, its block
\* encodes exactly that path, and no block stands for two paths.
CacheSound ==
  /\ \A p \in DOMAIN tree :
       /\ Len(p) > 0 /\ Len(p) % BlockSize = 0
       /\ Len(p) > BlockSize => SubSeq(p, 1, Len(p) - BlockSize) \in DOMAIN tree
       /\ \A j \in 1..BlockSize :
            data[tree[p]][j] = SubSeq(p, 1, Len(p) - BlockSize + j)
  /\ \A p, q \in DOMAIN tree : tree[p] = tree[q] => p = q

\* The recency order decides: one LRU pass (nodes stamped by the same walk tie)
\* never has to choose between two leaves.
VictimUnique == \A p, q \in LRU : p = q

\* Sharing, copy-on-write and eviction implement sequences with memory of their own.
Store == INSTANCE SequenceStore WITH kv <- [s \in Seqs |-> Gather(s)]
StoreSpec == Store!Spec
=============================================================================
