-------------------------- MODULE KVMemory_proofs --------------------------
(***************************************************************************)
(* Proofs about KVMemory for every pool, block size, cache capacity and    *)
(* set of prompts.  The inductive invariant KVInv joins the type invariant *)
(* and the reference accounting with TablesCover: Publish indexes a block  *)
(* table by FullBlocks, so the table must cover the length.                *)
(*                                                                         *)
(* The hard step is Write: a pass may allocate blocks for new positions    *)
(* and copies of shared ones, all at once, and stop half way when the pool *)
(* runs dry.  InitialSegment bounds the copies by what is free, then       *)
(* FreshIsInjective gives each a block of its own, which RefsChange counts.*)
(*                                                                         *)
(* On it rest two more invariants.  Content says what the blocks hold:     *)
(* every block a sequence or the cache names encodes the tokens the name   *)
(* stands for, which no write may disturb.  It gives Readable, CacheSound  *)
(* and the refinement of SequenceStore.  Ordered says that the clock of    *)
(* the cache tells any two nodes apart that are not on one branch.         *)
(***************************************************************************)
EXTENDS KVMemory, TLAPS, FiniteSetTheorems, FunctionTheorems, SequenceTheorems

\* k blocks that all fit in a tokens hold at most a tokens (full_blocks(), match()).
LEMMA DivLe ==
  ASSUME NEW a \in Nat, NEW k \in Nat, k <= a \div BlockSize
  PROVE  k * BlockSize <= a /\ k * BlockSize \in Nat
  BY KVAssumption

\* ceil(n / block_size), the size of ensure_capacity(), counts at least the full blocks.
LEMMA BlocksForType ==
  ASSUME NEW n \in Nat
  PROVE  BlocksFor(n) \in Nat /\ n \div BlockSize \in Nat /\ n \div BlockSize <= BlocksFor(n)
  BY KVAssumption DEF BlocksFor

\* A shorter sequence never needs more blocks: a rollback keeps the table long enough.
LEMMA BlocksForMonotonic ==
  ASSUME NEW m \in Nat, NEW n \in Nat, m <= n
  PROVE  BlocksFor(m) <= BlocksFor(n)
  BY KVAssumption DEF BlocksFor

\* k full blocks need a table of exactly k entries, as adopt_prefix() assumes.
LEMMA BlocksForFull ==
  ASSUME NEW k \in Nat
  PROVE  BlocksFor(k * BlockSize) = k /\ (k * BlockSize) \div BlockSize = k
  BY KVAssumption DEF BlocksFor

\* Position j of block i, counted over the whole sequence.
At(i, j) == (i - 1) * BlockSize + j

\* divmod(pos, block_size) of position At(i, j) gives i and j back.
LEMMA AtIndex ==
  ASSUME NEW i \in Nat \ {0}, NEW j \in 1..BlockSize
  PROVE  At(i, j) \in Nat \ {0} /\ IndexOf(At(i, j)) = i /\ SlotOf(At(i, j)) = j
<1>1. /\ BlockSize \in Nat \ {0} /\ (i - 1) * BlockSize \in Nat /\ j - 1 \in 0..(BlockSize - 1)
      /\ i - 1 \in Nat
  BY KVAssumption
<1>2. \A a \in Nat, c \in 0..(BlockSize - 1) :
         (a * BlockSize + c) \div BlockSize = a /\ (a * BlockSize + c) % BlockSize = c
  BY <1>1
<1>3. ((i - 1) * BlockSize + (j - 1)) \div BlockSize = i - 1
      /\ ((i - 1) * BlockSize + (j - 1)) % BlockSize = j - 1
  BY <1>1, <1>2
<1>4. At(i, j) - 1 = (i - 1) * BlockSize + (j - 1) /\ At(i, j) \in Nat \ {0}
  BY <1>1 DEF At
<1> QED BY <1>1, <1>3, <1>4 DEF IndexOf, SlotOf

\* Every position is some slot of some block.
LEMMA IndexAt ==
  ASSUME NEW p \in Nat \ {0}
  PROVE  /\ IndexOf(p) \in Nat \ {0} /\ SlotOf(p) \in 1..BlockSize
         /\ At(IndexOf(p), SlotOf(p)) = p
<1>1. BlockSize \in Nat \ {0} /\ p - 1 \in Nat
  BY KVAssumption
<1>2. \A a \in Nat : /\ a \div BlockSize \in Nat /\ a % BlockSize \in 0..(BlockSize - 1)
                     /\ (a \div BlockSize) * BlockSize + (a % BlockSize) = a
  BY <1>1
<1> HIDE DEF IndexOf, SlotOf
<1>3. /\ (p - 1) \div BlockSize \in Nat /\ (p - 1) % BlockSize \in 0..(BlockSize - 1)
      /\ ((p - 1) \div BlockSize) * BlockSize + ((p - 1) % BlockSize) = p - 1
  BY <1>1, <1>2
<1>4. IndexOf(p) - 1 = (p - 1) \div BlockSize /\ SlotOf(p) - 1 = (p - 1) % BlockSize
      /\ IndexOf(p) \in Nat \ {0} /\ SlotOf(p) \in 1..BlockSize
  BY <1>1, <1>3 DEF IndexOf, SlotOf
<1> QED BY <1>1, <1>3, <1>4 DEF At

\* Later positions are in later blocks.
LEMMA IndexMonotonic ==
  ASSUME NEW p \in Nat \ {0}, NEW q \in Nat \ {0}, p <= q
  PROVE  IndexOf(p) <= IndexOf(q)
BY KVAssumption DEF IndexOf

\* A position within n tokens is in one of the first ceil(n / block_size) blocks.
LEMMA AtCovered ==
  ASSUME NEW n \in Nat, NEW i \in Nat \ {0}, NEW j \in 1..BlockSize, At(i, j) <= n
  PROVE  i <= BlocksFor(n)
<1>1. BlockSize \in Nat \ {0} /\ (i - 1) * BlockSize \in Nat /\ i - 1 \in Nat
  BY KVAssumption
<1>2. i * BlockSize = (i - 1) * BlockSize + BlockSize
  BY <1>1
<1>3. i * BlockSize <= n + BlockSize - 1 /\ i * BlockSize \in Nat
  BY <1>1, <1>2 DEF At
<1>4. \A a \in Nat : a * BlockSize <= n + BlockSize - 1 => a <= (n + BlockSize - 1) \div BlockSize
  BY <1>1
<1> QED BY <1>3, <1>4 DEF BlocksFor

\* The first b tokens of a list: their number, each of them, and the first a of them again.
LEMMA Prefixes ==
  ASSUME NEW S, NEW q \in Seq(S), NEW b \in 0..Len(q)
  PROVE  /\ SubSeq(q, 1, b) \in Seq(S) /\ Len(SubSeq(q, 1, b)) = b
         /\ \A i \in 1..b : SubSeq(q, 1, b)[i] = q[i]
         /\ \A a \in 0..b : SubSeq(SubSeq(q, 1, b), 1, a) = SubSeq(q, 1, a)
<1>0. Len(q) \in Nat /\ b \in Nat /\ \A i \in 1..b : q[i] \in S
  OBVIOUS
<1>1. SubSeq(q, 1, b) \in Seq(S) /\ Len(SubSeq(q, 1, b)) = b
  BY <1>0, SubSeqProperties
<1>2. \A i \in 1..b : SubSeq(q, 1, b)[i] = q[i]
  BY <1>0
<1>3. ASSUME NEW a \in 0..b PROVE SubSeq(SubSeq(q, 1, b), 1, a) = SubSeq(q, 1, a)
  BY <1>0, <1>1, <1>2
<1> QED BY <1>1, <1>2, <1>3

\* Lists that agree up to n have the same first n tokens.
LEMMA SamePrefix ==
  ASSUME NEW q, NEW r, NEW n \in Nat, \A i \in 1..n : q[i] = r[i]
  PROVE  SubSeq(q, 1, n) = SubSeq(r, 1, n)
OBVIOUS

\* A function on 1..n is a sequence of length n: how block tables are built.
LEMMA FunIsSeq ==
  ASSUME NEW S, NEW n \in Nat, NEW f \in [1..n -> S]
  PROVE  f \in Seq(S) /\ Len(f) = n
  OBVIOUS

\* A nonempty finite set of table indices has a largest element.
LEMMA MaxExists ==
  ASSUME NEW C \in SUBSET Nat, IsFiniteSet(C), C # {}
  PROVE  \E m \in C : \A i \in C : i <= m
<1> DEFINE Up(i) == {j \in C : i <= j}
           T == {Up(i) : i \in C}
<1>1. T \subseteq FiniteSubsetsOf(C)
  BY FS_FiniteSubsetsOfFinite
<1>2. T # {}
  OBVIOUS
<1>3. PICK x \in T : \A y \in T : <<y, x>> \notin StrictSubsetOrdering(C)
  <2>1. IsWellFoundedOn(StrictSubsetOrdering(C), FiniteSubsetsOf(C))
    BY FS_StrictSubsetOrderingWellFounded
  <2> HIDE DEF T
  <2> QED BY <2>1, <1>1, <1>2, WFMin
<1>4. PICK m \in C : x = Up(m)
  OBVIOUS
<1>5. \A i \in C : i <= m
  <2> SUFFICES ASSUME NEW i \in C, ~(i <= m) PROVE FALSE
    OBVIOUS
  <2>0. C \subseteq Nat /\ m \in Nat /\ i \in Nat /\ m < i
    OBVIOUS
  <2>1. Up(i) \subseteq Up(m) /\ m \notin Up(i) /\ m \in Up(m)
    <3>1. ASSUME NEW j \in C, i <= j PROVE m <= j
      BY <2>0, <3>1
    <3>2. ~(i <= m) /\ m <= m
      BY <2>0
    <3> QED BY <3>1, <3>2
  <2>2. <<Up(i), Up(m)>> \in StrictSubsetOrdering(C)
    BY <2>1 DEF StrictSubsetOrdering
  <2> QED BY <2>2, <1>3, <1>4
<1> QED BY <1>5

\* The copy-on-write loop stops when the pool runs dry: the entries of D it reaches with
\* k free blocks are at most k.
LEMMA InitialSegment ==
  ASSUME NEW D \in SUBSET Nat, IsFiniteSet(D), NEW k \in Nat
  PROVE  LET C == {i \in D : Cardinality({j \in D : j <= i}) <= k}
         IN  IsFiniteSet(C) /\ Cardinality(C) <= k
<1> DEFINE C == {i \in D : Cardinality({j \in D : j <= i}) <= k}
<1>1. IsFiniteSet(C)
  BY FS_Subset
<1>2. CASE C = {}
  <2>1. Cardinality(C) = 0
    <3> HIDE DEF C
    <3> QED BY <1>2, FS_EmptySet
  <2> QED BY <1>1, <2>1
<1>3. CASE C # {}
  <2>1. PICK m \in C : \A i \in C : i <= m
    <3> HIDE DEF C
    <3>1. C \in SUBSET Nat
      BY DEF C
    <3> QED BY <1>1, <1>3, <3>1, MaxExists
  <2> DEFINE B == {j \in D : j <= m}
  <2>2. C \in SUBSET B /\ B \in SUBSET D
    BY <2>1
  <2>3. IsFiniteSet(B)
    BY <2>2, FS_Subset
  <2>4. Cardinality(C) <= Cardinality(B) /\ Cardinality(B) \in Nat /\ Cardinality(C) \in Nat
    <3> HIDE DEF C, B
    <3> QED BY <1>1, <2>2, <2>3, FS_Subset, FS_CardinalityType
  <2>5. Cardinality(B) <= k
    BY <2>1
  <2> QED BY <1>1, <2>4, <2>5
<1> QED BY <1>2, <1>3

\* allocate() can serve as many table entries as there are free blocks, each with a block
\* of its own.
LEMMA FreshIsInjective ==
  ASSUME NEW I, IsFiniteSet(I), IsFiniteSet(free), Cardinality(I) <= NumFree
  PROVE  /\ Fresh(I) \in [I -> free]
         /\ \A i, j \in I : Fresh(I)[i] = Fresh(I)[j] => i = j
<1>1. PICK f \in Bijection(1..Cardinality(I), I) : TRUE
  BY FS_CardinalityType DEF ExistsBijection
<1>2. PICK g \in Bijection(1..Cardinality(free), free) : TRUE
  BY FS_CardinalityType DEF ExistsBijection
<1> DEFINE finv == Inverse(f, 1..Cardinality(I), I)
           h == [i \in I |-> g[finv[i]]]
<1>3. finv \in Bijection(I, 1..Cardinality(I))
  BY <1>1, Fun_BijInverse
<1>4. Cardinality(I) \in Nat /\ Cardinality(free) \in Nat /\ Cardinality(I) <= Cardinality(free)
  BY FS_CardinalityType DEF NumFree
<1>5. h \in [I -> free] /\ \A i, j \in I : h[i] = h[j] => i = j
  <2> HIDE DEF finv
  <2>1. /\ finv \in [I -> 1..Cardinality(I)]
        /\ \A i, j \in I : finv[i] = finv[j] => i = j
    BY <1>3 DEF Bijection, Injection, IsInjective
  <2>2. /\ g \in [1..Cardinality(free) -> free]
        /\ \A i, j \in 1..Cardinality(free) : g[i] = g[j] => i = j
    BY <1>2, Fun_BijectionProperties
  <2>3. \A i \in I : finv[i] \in 1..Cardinality(free)
    BY <2>1, <1>4
  <2> QED BY <2>1, <2>2, <2>3
<1> QED
  <2> HIDE DEF h
  <2> QED BY <1>5 DEF Fresh

\* A block occurs finitely often in a block table.
LEMMA PlacesFinite ==
  ASSUME NEW q \in Seq(Blocks), NEW b
  PROVE  IsFiniteSet(Places(q, b)) /\ Cardinality(Places(q, b)) \in Nat
<1>1. Places(q, b) \in SUBSET (1..Len(q)) /\ Len(q) \in Nat
  BY DEF Places
<1>2. IsFiniteSet(1..Len(q))
  BY <1>1, FS_Interval
<1> QED BY <1>1, <1>2, FS_Subset, FS_CardinalityType

\* The entries of the tables T of the sequences S that name b.
Refs(T, S, b) == UNION {{s} \X Places(T[s], b) : s \in S}

\* Finitely many table entries name a block.
LEMMA RefsFinite ==
  ASSUME NEW T \in [Seqs -> Seq(Blocks)], NEW S \in SUBSET Seqs, NEW b
  PROVE  IsFiniteSet(Refs(T, S, b)) /\ Cardinality(Refs(T, S, b)) \in Nat
<1> DEFINE f == [s \in S |-> {s} \X Places(T[s], b)]
           R == {{s} \X Places(T[s], b) : s \in S}
<1>1. IsFiniteSet(S)
  BY KVAssumption, FS_Subset
<1>2. f \in Surjection(S, R)
  BY DEF Surjection
<1>3. IsFiniteSet(R)
  <2> HIDE DEF f, R
  <2> QED BY <1>1, <1>2, FS_Surjection
<1>4. ASSUME NEW s \in S PROVE IsFiniteSet({s} \X Places(T[s], b))
  <2>1. IsFiniteSet({s}) /\ IsFiniteSet(Places(T[s], b))
    BY FS_Singleton, PlacesFinite
  <2> QED BY <2>1, FS_Product
<1>5. \A r \in R : IsFiniteSet(r)
  BY <1>4
<1>6. IsFiniteSet(UNION R)
  <2> HIDE DEF R
  <2> QED BY <1>3, <1>5, FS_UNION
<1> QED BY <1>6, FS_CardinalityType DEF Refs

\* The table references to b are those of sequence s and those of the others.
LEMMA RefsSplit ==
  ASSUME NEW T \in [Seqs -> Seq(Blocks)], NEW s \in Seqs, NEW b
  PROVE  Cardinality(Refs(T, Seqs, b))
           = Cardinality(Refs(T, Seqs \ {s}, b)) + Cardinality(Places(T[s], b))
<1> DEFINE A == Refs(T, Seqs \ {s}, b)
           B == {s} \X Places(T[s], b)
<1>1. Refs(T, Seqs, b) = A \cup B /\ A \cap B = {}
  BY DEF Refs
<1>2. IsFiniteSet(A) /\ Cardinality(A) \in Nat
  BY RefsFinite
<1>3. IsFiniteSet({s}) /\ Cardinality({s}) = 1
  BY FS_Singleton
<1>4. IsFiniteSet(Places(T[s], b)) /\ Cardinality(Places(T[s], b)) \in Nat
  BY PlacesFinite
<1>5. IsFiniteSet(B) /\ Cardinality(B) = Cardinality(Places(T[s], b))
  <2>1. IsFiniteSet(B) /\ Cardinality(B) = Cardinality({s}) * Cardinality(Places(T[s], b))
    BY <1>3, <1>4, FS_Product
  <2> QED BY <2>1, <1>3, <1>4
<1>6. Cardinality(A \cup B) = Cardinality(A) + Cardinality(B) - Cardinality(A \cap B)
  <2> HIDE DEF A, B
  <2> QED BY <1>2, <1>5, FS_Union
<1>7. Cardinality(A \cap B) = 0
  <2> HIDE DEF A, B
  <2> QED BY <1>1, FS_EmptySet
<1> QED BY <1>1, <1>2, <1>4, <1>5, <1>6, <1>7

\* When only the table of s changes, the references to b change by what s gains and loses;
\* what s loses was counted.
LEMMA RefsChange ==
  ASSUME NEW T \in [Seqs -> Seq(Blocks)], NEW U \in [Seqs -> Seq(Blocks)], NEW s \in Seqs,
         \A t \in Seqs \ {s} : U[t] = T[t],
         NEW b
  PROVE  /\ Cardinality(Refs(U, Seqs, b)) = Cardinality(Refs(T, Seqs, b))
              - Cardinality(Places(T[s], b)) + Cardinality(Places(U[s], b))
         /\ Cardinality(Places(T[s], b)) <= Cardinality(Refs(T, Seqs, b))
<1>1. Refs(U, Seqs \ {s}, b) = Refs(T, Seqs \ {s}, b)
  BY DEF Refs
<1>2. /\ Cardinality(Refs(T, Seqs \ {s}, b)) \in Nat
      /\ Cardinality(Places(T[s], b)) \in Nat
      /\ Cardinality(Places(U[s], b)) \in Nat
  BY RefsFinite, PlacesFinite
<1>3. Cardinality(Refs(T, Seqs, b))
        = Cardinality(Refs(T, Seqs \ {s}, b)) + Cardinality(Places(T[s], b))
  BY RefsSplit
<1>4. Cardinality(Refs(U, Seqs, b))
        = Cardinality(Refs(U, Seqs \ {s}, b)) + Cardinality(Places(U[s], b))
  BY RefsSplit
<1> QED BY <1>1, <1>2, <1>3, <1>4

-----------------------------------------------------------------------------
\* Every block table is long enough for the length of its sequence.
TablesCover == \A s \in Seqs : BlocksFor(Len(text[s])) <= Len(table[s])

\* The inductive invariant.
KVInv == KVTypeOK /\ RefAccounting /\ TablesCover

\* The free list of BlockAllocator is finite, so num_free() is a natural number.
LEMMA FreeFinite ==
  ASSUME KVTypeOK
  PROVE  IsFiniteSet(free) /\ NumFree \in Nat
<1>1. IsFiniteSet(Blocks) /\ free \in SUBSET Blocks
  BY KVAssumption DEF KVTypeOK
<1> QED BY <1>1, FS_Subset, FS_CardinalityType DEF NumFree

\* Finitely many radix nodes name a block.
LEMMA CacheRefsFinite ==
  ASSUME KVTypeOK, NEW b
  PROVE  IsFiniteSet(CacheRefs(b)) /\ Cardinality(CacheRefs(b)) \in Nat
<1>1. CacheRefs(b) \in SUBSET (DOMAIN tree) /\ IsFiniteSet(DOMAIN tree)
  BY DEF CacheRefs, Places, KVTypeOK
<1> QED BY <1>1, FS_Subset, FS_CardinalityType

\* Under the accounting, a block with count 0 is in no table and in no radix node: this is
\* why allocate() may hand it out.
LEMMA Referenced ==
  ASSUME KVTypeOK, RefAccounting, NEW b \in Blocks
  PROVE  /\ ref[b] = Cardinality(Refs(table, Seqs, b)) + Cardinality(CacheRefs(b))
         /\ Cardinality(Refs(table, Seqs, b)) \in Nat
         /\ Cardinality(CacheRefs(b)) \in Nat
         /\ ref[b] = 0 => CacheRefs(b) = {} /\ \A s \in Seqs : Places(table[s], b) = {}
<1>1. table \in [Seqs -> Seq(Blocks)]
  BY DEF KVTypeOK
<1>2. /\ IsFiniteSet(Refs(table, Seqs, b)) /\ Cardinality(Refs(table, Seqs, b)) \in Nat
      /\ IsFiniteSet(CacheRefs(b)) /\ Cardinality(CacheRefs(b)) \in Nat
  BY <1>1, RefsFinite, CacheRefsFinite
<1>3. ref[b] = Cardinality(Refs(table, Seqs, b)) + Cardinality(CacheRefs(b))
  BY DEF RefAccounting, TableRefs, Refs
<1>4. ASSUME ref[b] = 0
      PROVE  CacheRefs(b) = {} /\ \A s \in Seqs : Places(table[s], b) = {}
  <2>1. Cardinality(Refs(table, Seqs, b)) = 0 /\ Cardinality(CacheRefs(b)) = 0
    BY <1>2, <1>3, <1>4
  <2>2. Refs(table, Seqs, b) = {} /\ CacheRefs(b) = {}
    BY <1>2, <2>1, FS_EmptySet
  <2>3. ASSUME NEW s \in Seqs, NEW i \in Places(table[s], b) PROVE FALSE
    <3>1. <<s, i>> \in Refs(table, Seqs, b)
      BY DEF Refs
    <3> QED BY <2>2, <3>1
  <2> QED BY <2>2, <2>3
<1> QED BY <1>2, <1>3, <1>4

\* The constructors of BlockAllocator, PagedKVCache and RadixCache establish the invariant.
LEMMA InitInv == KVInit => KVInv
<1> SUFFICES ASSUME KVInit PROVE KVInv
  OBVIOUS
<1>1. KVTypeOK
  <2>1. IsFiniteSet({}) /\ DOMAIN tree = {} /\ Blank \in [1..BlockSize -> Fed]
    BY FS_EmptySet DEF KVInit, Blank, Fed
  <2> QED BY <2>1 DEF KVInit, KVTypeOK, Fed
<1>2. RefAccounting
  <2>1. ASSUME NEW b \in Blocks PROVE TableRefs(b) = {} /\ CacheRefs(b) = {}
    BY DEF KVInit, TableRefs, CacheRefs, Places
  <2>2. Cardinality({}) = 0
    BY FS_EmptySet
  <2>3. ASSUME NEW b \in Blocks
        PROVE  ref[b] = 0 /\ ref[b] = Cardinality(TableRefs(b)) + Cardinality(CacheRefs(b))
    <3>1. ref[b] = 0
      BY DEF KVInit
    <3>2. Cardinality(TableRefs(b)) = 0 /\ Cardinality(CacheRefs(b)) = 0
      BY <2>1, <2>2
    <3> QED BY <3>1, <3>2
  <2>4. free = {b \in Blocks : ref[b] = 0}
    BY <2>3 DEF KVInit
  <2> QED BY <2>3, <2>4 DEF RefAccounting
<1>3. TablesCover
  <2>1. BlocksFor(0) = 0
    BY KVAssumption DEF BlocksFor
  <2> QED BY <2>1 DEF KVInit, TablesCover
<1> QED BY <1>1, <1>2, <1>3 DEF KVInv

\* new_sequence(), match() and adopt_prefix() preserve the invariant: the adopted blocks are
\* cached, so none of them was free.
LEMMA OpenInv ==
  ASSUME KVInv, NEW s \in Seqs, NEW prompt \in Prompts, Open(s, prompt)
  PROVE  KVInv'
<1> USE DEF KVInv
<1>1. PICK k \in 0..Len(prompt) :
        /\ MatchIs(prompt, k)
        /\ table' = [table EXCEPT ![s] = [i \in 1..k |-> tree[Path(prompt, i)]]]
        /\ text' = [text EXCEPT ![s] = SubSeq(prompt, 1, k * BlockSize)]
        /\ ref' = [b \in Blocks |-> ref[b]
                     + Cardinality(Places([i \in 1..k |-> tree[Path(prompt, i)]], b))]
        /\ Touch({Path(prompt, i) : i \in 1..k})
  BY DEF Open
<1> DEFINE hit == [i \in 1..k |-> tree[Path(prompt, i)]]
<1>2. /\ s \notin open /\ open' = open \cup {s}
      /\ free' = free /\ data' = data /\ tree' = tree /\ toEvict' = toEvict
  BY DEF Open
<1>3. prompt \in Seq(Tokens) /\ Len(prompt) \in Nat /\ Len(prompt) # 0 /\ k \in Nat
  BY KVAssumption
<1>4. /\ \A i \in 1..k : Path(prompt, i) \in DOMAIN tree
      /\ k * BlockSize \in Nat /\ k * BlockSize <= Len(prompt)
  <2>1. CASE Caching
    <3>1. k <= (Len(prompt) - 1) \div BlockSize
      BY <1>1, <2>1 DEF MatchIs, Usable
    <3>2. k * BlockSize <= Len(prompt) - 1 /\ k * BlockSize \in Nat
      BY <1>3, <3>1, DivLe
    <3> QED BY <1>1, <1>3, <3>2 DEF MatchIs
  <2>2. CASE ~Caching
    <3>1. k = 0
      BY <1>1, <2>2 DEF MatchIs, Usable
    <3> QED BY <1>3, <3>1, KVAssumption
  <2> QED BY <2>1, <2>2
<1>5. hit \in Seq(Blocks) /\ Len(hit) = k
  <2>1. hit \in [1..k -> Blocks]
    BY <1>4 DEF KVTypeOK
  <2> HIDE DEF hit
  <2> QED BY <2>1, <1>3, FunIsSeq
<1>6. /\ SubSeq(prompt, 1, k * BlockSize) \in Fed
      /\ Len(SubSeq(prompt, 1, k * BlockSize)) = k * BlockSize
  <2>1. \A i \in 1..(k * BlockSize) : prompt[i] \in Tokens \cup {Unwritten}
    BY <1>3, <1>4
  <2> HIDE DEF hit
  <2> QED BY <2>1, <1>4, SubSeqProperties DEF Fed
<1>7. table \in [Seqs -> Seq(Blocks)] /\ table' \in [Seqs -> Seq(Blocks)] /\ table[s] = <<>>
  BY <1>1, <1>2, <1>5 DEF KVTypeOK
<1>8. ASSUME NEW b \in Blocks
      PROVE  /\ ref'[b] = ref[b] + Cardinality(Places(hit, b))
             /\ Cardinality(Places(hit, b)) \in Nat
             /\ (Cardinality(Places(hit, b)) # 0 => ref[b] # 0)
  <2>1. IsFiniteSet(Places(hit, b)) /\ Cardinality(Places(hit, b)) \in Nat
    BY <1>5, PlacesFinite
  <2>2. ASSUME Places(hit, b) # {} PROVE CacheRefs(b) # {}
    BY <2>2, <1>4 DEF Places, CacheRefs
  <2> HIDE DEF hit
  <2>3. Cardinality(Places(hit, b)) # 0 => Places(hit, b) # {}
    BY FS_EmptySet
  <2> QED BY <1>1, <2>1, <2>2, <2>3, Referenced DEF hit
<1>9. KVTypeOK'
  <2>1. ref' \in [Blocks -> Nat]
    <3> HIDE DEF hit
    <3>1. \A b \in Blocks : ref'[b] \in Nat
      BY <1>8 DEF KVTypeOK
    <3> QED BY <1>1, <3>1
  <2>2. older' \subseteq (DOMAIN tree') \X (DOMAIN tree')
    BY <1>1, <1>2, <1>4 DEF KVTypeOK, Touch
  <2>3. text' \in [Seqs -> Fed]
    BY <1>1, <1>6 DEF KVTypeOK
  <2>4. \A t \in Seqs \ open' : table'[t] = <<>> /\ text'[t] = <<>>
    BY <1>1, <1>2 DEF KVTypeOK
  <2> QED BY <1>2, <1>7, <2>1, <2>2, <2>3, <2>4 DEF KVTypeOK
<1>10. RefAccounting'
  <2>1. ASSUME NEW b \in Blocks
        PROVE  ref'[b] = Cardinality(TableRefs(b)') + Cardinality(CacheRefs(b)')
    <3>1. \A t \in Seqs \ {s} : table'[t] = table[t]
      BY <1>1, <1>7
    <3>2. table'[s] = hit
      BY <1>1, <1>7
    <3>3. Cardinality(Refs(table', Seqs, b)) = Cardinality(Refs(table, Seqs, b))
            - Cardinality(Places(table[s], b)) + Cardinality(Places(table'[s], b))
      BY ZenonT(30), <1>7, <3>1, RefsChange
    <3>4. Cardinality(Places(table[s], b)) = 0
      BY <1>7, FS_EmptySet DEF Places
    <3>5. CacheRefs(b)' = CacheRefs(b)
      BY <1>2 DEF CacheRefs
    <3>6. TableRefs(b)' = Refs(table', Seqs, b)
      BY DEF TableRefs, Refs
    <3> HIDE DEF hit
    <3> QED BY <1>8, <3>2, <3>3, <3>4, <3>5, <3>6, Referenced
  <2>2. free' = {b \in Blocks : ref'[b] = 0}
    <3>1. \A b \in Blocks : ref'[b] = 0 <=> ref[b] = 0
      <4> HIDE DEF hit
      <4> QED BY <1>8 DEF KVTypeOK
    <3> QED BY <1>2, <3>1 DEF RefAccounting
  <2> QED BY <2>1, <2>2 DEF RefAccounting
<1>11. TablesCover'
  <2>1. BlocksFor(k * BlockSize) = k
    BY <1>3, BlocksForFull
  <2>2. text'[s] = SubSeq(prompt, 1, k * BlockSize) /\ table'[s] = hit
    BY <1>1 DEF KVTypeOK
  <2>3. \A t \in Seqs \ {s} : table'[t] = table[t] /\ text'[t] = text[t]
    BY <1>1 DEF KVTypeOK
  <2> HIDE DEF hit
  <2>4. BlocksFor(Len(text'[s])) <= Len(table'[s])
    <3>1. Len(text'[s]) = k * BlockSize /\ Len(table'[s]) = k
      BY <1>5, <1>6, <2>2
    <3> QED BY <1>3, <2>1, <3>1
  <2> QED BY <2>3, <2>4 DEF TablesCover
<1> QED BY <1>9, <1>10, <1>11

\* What a forward pass allocates: the table entries it lacks and copies of the shared entries
\* it writes, as far as the pool goes; each gets a free block of its own.
LEMMA WriteFresh ==
  ASSUME KVInv, NEW s \in Seqs, NEW start \in Nat, NEW toks \in Seq(Tokens),
         Cardinality(Missing(s, start + Len(toks))) <= NumFree
  PROVE  LET n == Len(toks)
             m == Len(table[s])
             B == BlocksFor(start + n)
             M == Max2(m, B)
             grow == Missing(s, start + n)
             shared == {i \in DOMAIN table[s] :
                          i \in IndexOf(start + 1)..IndexOf(start + n) /\ Shared(table[s][i])}
             copies == {i \in shared : Cardinality({j \in shared : j <= i})
                                         <= NumFree - Cardinality(grow)}
             fresh == Fresh(grow \cup copies)
         IN  /\ n \in Nat /\ m \in Nat /\ B \in Nat /\ M \in Nat /\ m <= M /\ B <= M
             /\ table[s] \in Seq(Blocks) /\ DOMAIN table[s] = 1..m
             /\ grow = (m + 1)..B /\ copies \subseteq shared /\ shared \subseteq 1..m
             /\ grow \cap copies = {}
             /\ 1..M = (1..m) \cup grow
             /\ fresh \in [grow \cup copies -> free]
             /\ \A i, j \in grow \cup copies : fresh[i] = fresh[j] => i = j
<1> USE DEF KVInv
<1> DEFINE n == Len(toks)
           m == Len(table[s])
           B == BlocksFor(start + n)
           M == Max2(m, B)
           grow == Missing(s, start + n)
           shared == {i \in DOMAIN table[s] :
                        i \in IndexOf(start + 1)..IndexOf(start + n) /\ Shared(table[s][i])}
           copies == {i \in shared : Cardinality({j \in shared : j <= i})
                                       <= NumFree - Cardinality(grow)}
           fresh == Fresh(grow \cup copies)
<1>2. /\ n \in Nat /\ m \in Nat /\ B \in Nat /\ M \in Nat /\ m <= M /\ B <= M
      /\ table[s] \in Seq(Blocks) /\ DOMAIN table[s] = 1..m
  <2>1. n \in Nat /\ table[s] \in Seq(Blocks)
    BY DEF KVTypeOK
  <2>2. B \in Nat
    <3>1. start + n \in Nat
      BY <2>1
    <3> HIDE DEF n
    <3> QED BY <3>1, BlocksForType
  <2> QED BY <2>1, <2>2 DEF Max2
<1>3. /\ grow = (m + 1)..B /\ copies \subseteq shared /\ shared \subseteq 1..m
      /\ grow \cap copies = {}
      /\ 1..M = (1..m) \cup grow
  <2>1. grow = (m + 1)..B
    BY DEF Missing
  <2>2. copies \subseteq shared /\ shared \subseteq 1..m
    BY <1>2
  <2>3. 1..M = (1..m) \cup ((m + 1)..B)
    BY <1>2 DEF Max2
  <2>4. ((m + 1)..B) \cap (1..m) = {}
    BY <1>2
  <2> HIDE DEF grow, shared, copies, m, M, B
  <2> QED BY <2>1, <2>2, <2>3, <2>4
<1>4. IsFiniteSet(grow) /\ IsFiniteSet(shared) /\ IsFiniteSet(free)
      /\ Cardinality(grow) \in Nat /\ NumFree \in Nat
  <2>1. IsFiniteSet((m + 1)..B) /\ IsFiniteSet(1..m)
    <3>1. m + 1 \in Int /\ m \in Int /\ B \in Int /\ 1 \in Int
      BY <1>2
    <3> HIDE DEF m, B
    <3> QED BY <3>1, FS_Interval
  <2> HIDE DEF grow, shared, m, B
  <2> QED BY <1>3, <2>1, FS_Subset, FS_CardinalityType, FreeFinite
<1>5. IsFiniteSet(copies) /\ Cardinality(copies) <= NumFree - Cardinality(grow)
      /\ Cardinality(copies) \in Nat
  <2>1. NumFree - Cardinality(grow) \in Nat
    <3>1. Cardinality(grow) <= NumFree
      OBVIOUS
    <3> HIDE DEF grow
    <3> QED BY <1>4, <3>1
  <2>2. shared \in SUBSET Nat
    BY <1>2, <1>3
  <2> HIDE DEF grow, shared
  <2> QED BY <1>4, <2>1, <2>2, InitialSegment, FS_CardinalityType
<1>6. IsFiniteSet(grow \cup copies) /\ Cardinality(grow \cup copies) <= NumFree
  <2> HIDE DEF grow, copies
  <2>1. /\ IsFiniteSet(grow \cup copies)
        /\ Cardinality(grow \cup copies)
             = Cardinality(grow) + Cardinality(copies) - Cardinality(grow \cap copies)
    BY <1>4, <1>5, FS_Union
  <2>2. Cardinality(grow \cap copies) = 0
    BY <1>3, FS_EmptySet
  <2> QED BY <1>4, <1>5, <2>1, <2>2
<1>7. /\ fresh \in [grow \cup copies -> free]
      /\ \A i, j \in grow \cup copies : fresh[i] = fresh[j] => i = j
  <2> HIDE DEF grow, copies
  <2> QED BY <1>4, <1>6, FreshIsInjective
<1> HIDE DEF n, m, B, M, grow, shared, copies, fresh
<1> QED BY <1>2, <1>3, <1>7 DEF n, m, B, M, grow, shared, copies, fresh

\* write() preserves the invariant, wherever it starts and even when copy-on-write stops
\* half way: ensure_capacity() and prepare_for_write() take distinct free blocks, and each
\* copied entry gives one reference back.
LEMMA WriteInv ==
  ASSUME KVInv, NEW s \in Seqs, NEW start \in Nat, NEW toks \in Seq(Tokens), Write(s, start, toks)
  PROVE  KVInv'
<1> USE DEF KVInv
<1> DEFINE n == Len(toks)
           m == Len(table[s])
           B == BlocksFor(start + n)
           M == Max2(m, B)
           grow == Missing(s, start + n)
           shared == {i \in DOMAIN table[s] :
                        i \in IndexOf(start + 1)..IndexOf(start + n) /\ Shared(table[s][i])}
           copies == {i \in shared : Cardinality({j \in shared : j <= i})
                                       <= NumFree - Cardinality(grow)}
           fresh == Fresh(grow \cup copies)
           blocks == [i \in 1..M |-> IF i \in grow \cup copies THEN fresh[i] ELSE table[s][i]]
           fed == [p \in 1..start |-> IF p <= Len(text[s]) THEN text[s][p] ELSE Unwritten] \o toks
           written == {p \in (start + 1)..(start + n) :
                         \A i \in shared \ copies : IndexOf(p) < i}
           stored == [i \in DOMAIN blocks |-> [j \in 1..BlockSize |->
                        LET p == (i - 1) * BlockSize + j
                        IN  IF p \in written THEN SubSeq(fed, 1, p)
                            ELSE data[IF i \in copies THEN table[s][i] ELSE blocks[i]][j]]]
<1>1. /\ s \in open /\ n > 0 /\ Cardinality(grow) <= NumFree
      /\ table' = [table EXCEPT ![s] = blocks]
      /\ ref' = [b \in Blocks |->
                   IF b \in Image(fresh) THEN 1
                   ELSE ref[b] - Cardinality(Places(table[s], b) \cap copies)]
      /\ Recycle(Image(fresh))
      /\ data' = [b \in Blocks |->
                    IF b \in Image(blocks) THEN stored[CHOOSE i \in DOMAIN blocks : blocks[i] = b]
                    ELSE data[b]]
      /\ text' = IF copies = shared THEN [text EXCEPT ![s] = fed] ELSE text
      /\ UNCHANGED <<open, tree, older, toEvict>>
  BY DEF Write
<1>2. /\ n \in Nat /\ m \in Nat /\ B \in Nat /\ M \in Nat /\ m <= M /\ B <= M
      /\ table[s] \in Seq(Blocks) /\ DOMAIN table[s] = 1..m
  BY <1>1, WriteFresh
<1>3. /\ grow = (m + 1)..B /\ copies \subseteq shared /\ shared \subseteq 1..m
      /\ grow \cap copies = {}
      /\ 1..M = (1..m) \cup grow
  BY <1>1, WriteFresh
<1>7. /\ fresh \in [grow \cup copies -> free]
      /\ \A i, j \in grow \cup copies : fresh[i] = fresh[j] => i = j
  BY <1>1, WriteFresh
<1>8. /\ blocks \in [1..M -> Blocks] /\ blocks \in Seq(Blocks) /\ Len(blocks) = M
  <2>1. free \subseteq Blocks
    BY DEF KVTypeOK
  <2>2. \A i \in 1..m : table[s][i] \in Blocks
    BY <1>2
  <2>3. blocks \in [1..M -> Blocks]
    <3> HIDE DEF grow, copies, fresh, m, M
    <3> QED BY <1>3, <1>7, <2>1, <2>2
  <2> HIDE DEF blocks, M
  <2> QED BY <1>2, <2>3, FunIsSeq
<1>9. table \in [Seqs -> Seq(Blocks)] /\ table' \in [Seqs -> Seq(Blocks)]
      /\ table'[s] = blocks /\ \A t \in Seqs \ {s} : table'[t] = table[t]
  <2> HIDE DEF blocks
  <2> QED BY <1>1, <1>8 DEF KVTypeOK
<1>10. ASSUME NEW b \in Blocks, b \in Image(fresh)
       PROVE  /\ ref'[b] = 1 /\ b \in free /\ ref[b] = 0
              /\ Cardinality(Refs(table', Seqs, b)) = 1 /\ Cardinality(CacheRefs(b)) = 0
  <2>1. PICK k \in grow \cup copies : fresh[k] = b
    <3> HIDE DEF grow, copies, fresh
    <3> QED BY <1>7, <1>10 DEF Image
  <2>2. b \in free /\ ref[b] = 0
    <3> HIDE DEF grow, copies, fresh
    <3> QED BY <1>7, <2>1 DEF RefAccounting
  <2>3. CacheRefs(b) = {} /\ Places(table[s], b) = {}
    BY <2>2, Referenced
  <2>4. Places(blocks, b) = {k}
    <3>1. \A i \in 1..m : table[s][i] # b
      BY <1>2, <2>3 DEF Places
    <3> HIDE DEF grow, copies, fresh, m, M
    <3> QED BY <1>3, <1>7, <2>1, <3>1 DEF Places
  <2>5. Cardinality(Places(table'[s], b)) = 1
    <3> HIDE DEF blocks
    <3> QED BY <1>9, <2>4, FS_Singleton
  <2>6. Cardinality(Places(table[s], b)) = 0 /\ Cardinality(CacheRefs(b)) = 0
    BY <2>3, FS_EmptySet
  <2>7. Cardinality(Refs(table', Seqs, b)) = Cardinality(Refs(table, Seqs, b))
          - Cardinality(Places(table[s], b)) + Cardinality(Places(table'[s], b))
    <3>1. \A t \in Seqs \ {s} : table'[t] = table[t]
      BY <1>9
    <3> HIDE DEF blocks
    <3> QED BY ZenonT(30), <1>9, <3>1, RefsChange
  <2>8. Cardinality(Refs(table, Seqs, b)) = 0
    BY <2>2, <2>6, Referenced
  <2>9. ref'[b] = 1
    <3> HIDE DEF fresh, copies
    <3> QED BY <1>1, <1>10
  <2>10. Cardinality(Refs(table', Seqs, b)) = 1
    <3> HIDE DEF blocks
    <3> QED BY <2>5, <2>6, <2>7, <2>8
  <2> QED BY <2>2, <2>6, <2>9, <2>10
<1>11. ASSUME NEW b \in Blocks, b \notin Image(fresh)
       PROVE  /\ ref'[b] = Cardinality(Refs(table', Seqs, b)) + Cardinality(CacheRefs(b))
              /\ ref'[b] \in Nat /\ ref'[b] <= ref[b]
  <2> DEFINE P == Places(table[s], b)
  <2>1. Places(blocks, b) = P \ copies
    <3>1. \A i \in grow \cup copies : blocks[i] # b
      <4>1. \A i \in grow \cup copies : i \in 1..M /\ blocks[i] = fresh[i]
        <5> HIDE DEF grow, copies, fresh, m, M
        <5>1. \A i \in grow \cup copies : i \in 1..M
          BY <1>3
        <5> QED BY <5>1
      <4> HIDE DEF grow, copies, fresh, blocks
      <4> QED BY <1>7, <1>11, <4>1 DEF Image
    <3>2. \A i \in (1..M) \ (grow \cup copies) : i \in 1..m /\ blocks[i] = table[s][i]
      <4> HIDE DEF grow, copies, fresh, m, M
      <4> QED BY <1>3
    <3>3. DOMAIN blocks = 1..M
      OBVIOUS
    <3>4. \A i \in 1..m : i \notin grow /\ i \in 1..M
      BY <1>2, <1>3
    <3> HIDE DEF grow, copies, blocks, m, M
    <3> QED BY <1>2, <3>1, <3>2, <3>3, <3>4 DEF Places
  <2>2. IsFiniteSet(P) /\ Cardinality(P) \in Nat
    BY <1>2, PlacesFinite
  <2>3. Cardinality(P \ copies) = Cardinality(P) - Cardinality(P \cap copies)
    <3> HIDE DEF P, copies
    <3> QED BY <2>2, FS_Difference
  <2>4. Cardinality(P \cap copies) \in Nat /\ Cardinality(P \cap copies) <= Cardinality(P)
    <3> HIDE DEF P, copies
    <3>1. P \cap copies \in SUBSET P
      OBVIOUS
    <3> QED BY <2>2, <3>1, FS_Subset, FS_CardinalityType
  <2>5. /\ Cardinality(Refs(table', Seqs, b)) = Cardinality(Refs(table, Seqs, b))
             - Cardinality(P) + Cardinality(Places(table'[s], b))
        /\ Cardinality(P) <= Cardinality(Refs(table, Seqs, b))
    <3>1. \A t \in Seqs \ {s} : table'[t] = table[t]
      BY <1>9
    <3> HIDE DEF blocks
    <3> QED BY ZenonT(30), <1>9, <3>1, RefsChange
  <2>6. Cardinality(Places(table'[s], b)) = Cardinality(P) - Cardinality(P \cap copies)
    <3> HIDE DEF P, copies, blocks
    <3> QED BY <1>9, <2>1, <2>3
  <2>7. ref'[b] = ref[b] - Cardinality(P \cap copies)
    <3> HIDE DEF copies, fresh
    <3> QED BY <1>1, <1>11
  <2>8. /\ ref[b] = Cardinality(Refs(table, Seqs, b)) + Cardinality(CacheRefs(b))
        /\ Cardinality(Refs(table, Seqs, b)) \in Nat /\ Cardinality(CacheRefs(b)) \in Nat
    BY Referenced
  <2> HIDE DEF P, copies, fresh
  <2> QED BY <2>2, <2>4, <2>5, <2>6, <2>7, <2>8
<1>12. RefAccounting'
  <2>1. ASSUME NEW b \in Blocks
        PROVE  ref'[b] = Cardinality(TableRefs(b)') + Cardinality(CacheRefs(b)')
    <3>1. CacheRefs(b)' = CacheRefs(b) /\ TableRefs(b)' = Refs(table', Seqs, b)
      BY <1>1 DEF CacheRefs, TableRefs, Refs
    <3>2. CASE b \in Image(fresh)
      <4>1. ref'[b] = 1 /\ Cardinality(Refs(table', Seqs, b)) = 1 /\ Cardinality(CacheRefs(b)) = 0
        <5> HIDE DEF fresh
        <5> QED BY <1>10, <3>2
      <4> QED BY <3>1, <4>1
    <3>3. CASE b \notin Image(fresh)
      <4> HIDE DEF fresh
      <4> QED BY <1>11, <3>1, <3>3
    <3> QED BY <3>2, <3>3
  <2>2. ASSUME NEW b \in Blocks PROVE b \in free' <=> ref'[b] = 0
    <3>1. b \in free' <=> \/ b \in free /\ b \notin Image(fresh)
                          \/ ref[b] > 0 /\ ref'[b] = 0
      <4> HIDE DEF fresh
      <4> QED BY <1>1 DEF Recycle
    <3>2. ref[b] \in Nat /\ (b \in free <=> ref[b] = 0)
      BY DEF KVTypeOK, RefAccounting
    <3> HIDE DEF fresh
    <3> QED BY <1>10, <1>11, <3>1, <3>2
  <2>3. free' \subseteq Blocks
    <3> HIDE DEF fresh
    <3> QED BY <1>1 DEF Recycle, KVTypeOK
  <2> QED BY <2>1, <2>2, <2>3 DEF RefAccounting
<1>13. fed \in Fed /\ Len(fed) = start + n
  <2> DEFINE old == [p \in 1..start |-> IF p <= Len(text[s]) THEN text[s][p] ELSE Unwritten]
  <2>1. old \in [1..start -> Tokens \cup {Unwritten}]
    BY DEF KVTypeOK, Fed
  <2>2. old \in Seq(Tokens \cup {Unwritten}) /\ Len(old) = start
    <3> HIDE DEF old
    <3> QED BY <2>1, FunIsSeq
  <2>3. toks \in Seq(Tokens \cup {Unwritten})
    OBVIOUS
  <2> HIDE DEF old
  <2>4. fed = old \o toks
    BY DEF old
  <2> HIDE DEF fed
  <2> QED BY <2>2, <2>3, <2>4, ConcatProperties DEF Fed
<1>14. data' \in [Blocks -> [1..BlockSize -> Fed]]
  <2>1. ASSUME NEW i \in 1..M PROVE stored[i] \in [1..BlockSize -> Fed]
    <3>1. ASSUME NEW p \in written PROVE SubSeq(fed, 1, p) \in Fed
      <4>1. p \in 1..Len(fed) /\ p \in Nat
        <5> HIDE DEF fed, n
        <5> QED BY <1>2, <1>13
      <4> HIDE DEF fed
      <4>2. \A q \in 1..p : fed[q] \in Tokens \cup {Unwritten}
        BY <1>13, <4>1 DEF Fed
      <4> QED BY <4>1, <4>2, SubSeqProperties DEF Fed
    <3>2. (IF i \in copies THEN table[s][i] ELSE blocks[i]) \in Blocks
      <4>1. i \in copies => table[s][i] \in Blocks
        <5> HIDE DEF copies, shared
        <5> QED BY <1>2, <1>3
      <4> HIDE DEF copies, blocks, M
      <4> QED BY <1>8, <4>1
    <3>3. ASSUME NEW j \in 1..BlockSize
          PROVE  data[IF i \in copies THEN table[s][i] ELSE blocks[i]][j] \in Fed
      <4>1. \A b \in Blocks : data[b] \in [1..BlockSize -> Fed]
        BY DEF KVTypeOK
      <4> HIDE DEF copies, blocks
      <4> QED BY <3>2, <4>1
    <3> HIDE DEF fed, written, copies, blocks, M
    <3>4. i \in DOMAIN blocks
      BY <1>8
    <3> QED BY <3>1, <3>3, <3>4
  <2>2. \A b \in Image(blocks) : (CHOOSE i \in DOMAIN blocks : blocks[i] = b) \in 1..M
    <3> HIDE DEF blocks, M
    <3> QED BY <1>8 DEF Image
  <2> HIDE DEF stored, blocks, M
  <2>3. \A b \in Blocks : data'[b] \in [1..BlockSize -> Fed]
    BY <1>1, <2>1, <2>2 DEF KVTypeOK
  <2> QED BY <1>1, <2>3
<1>15. KVTypeOK'
  <2>1. ref' \in [Blocks -> Nat]
    <3> HIDE DEF fresh, copies
    <3>1. \A b \in Blocks : ref'[b] \in Nat
      BY <1>10, <1>11
    <3> QED BY <1>1, <3>1
  <2>2. text' \in [Seqs -> Fed]
    <3> HIDE DEF fed, copies, shared
    <3> QED BY <1>1, <1>13 DEF KVTypeOK
  <2>3. \A t \in Seqs \ open' : table'[t] = <<>> /\ text'[t] = <<>>
    <3> HIDE DEF fed, copies, shared, blocks
    <3> QED BY <1>1 DEF KVTypeOK
  <2>4. free' \subseteq Blocks
    BY <1>12 DEF RefAccounting
  <2>5. /\ open' \subseteq Seqs /\ tree' = [p \in DOMAIN tree' |-> tree'[p]]
        /\ IsFiniteSet(DOMAIN tree')
        /\ \A p \in DOMAIN tree' : p \in Fed /\ tree'[p] \in Blocks
        /\ older' \subseteq (DOMAIN tree') \X (DOMAIN tree') /\ toEvict' \in Nat
    <3>1. open' = open /\ tree' = tree /\ older' = older /\ toEvict' = toEvict
      BY <1>1
    <3> QED BY <3>1 DEF KVTypeOK
  <2> QED BY <1>9, <1>14, <2>1, <2>2, <2>3, <2>4, <2>5 DEF KVTypeOK
<1>16. TablesCover'
  <2>1. Len(table'[s]) = M /\ \A t \in Seqs \ {s} : table'[t] = table[t] /\ text'[t] = text[t]
    <3> HIDE DEF fed, copies, shared, blocks, M
    <3> QED BY <1>1, <1>8, <1>9 DEF KVTypeOK
  <2>2. BlocksFor(Len(text'[s])) <= M
    <3>1. CASE text'[s] = fed
      <4> HIDE DEF fed, M, n
      <4> QED BY <1>2, <1>13, <3>1
    <3>2. CASE text'[s] = text[s]
      <4>1. BlocksFor(Len(text[s])) <= m /\ BlocksFor(Len(text[s])) \in Nat
        <5>1. Len(text[s]) \in Nat
          BY DEF KVTypeOK, Fed
        <5> QED BY <5>1, BlocksForType DEF TablesCover
      <4> HIDE DEF M, m
      <4> QED BY <1>2, <3>2, <4>1
    <3>3. text'[s] = fed \/ text'[s] = text[s]
      <4> HIDE DEF fed, copies, shared
      <4> QED BY <1>1 DEF KVTypeOK
    <3> QED BY <3>1, <3>2, <3>3
  <2> QED BY <2>1, <2>2 DEF TablesCover
<1> QED BY <1>12, <1>15, <1>16

\* Assigning a smaller length keeps every block of the table.
LEMMA RollbackInv ==
  ASSUME KVInv, NEW s \in Seqs, NEW n \in Nat, Rollback(s, n)
  PROVE  KVInv'
<1> USE DEF KVInv
<1>1. /\ s \in open /\ n \in 0..(Len(text[s]) - 1)
      /\ text' = [text EXCEPT ![s] = SubSeq(text[s], 1, n)]
      /\ UNCHANGED <<free, ref, open, table, data, tree, older, toEvict>>
  BY DEF Rollback
<1>2. text[s] \in Fed /\ Len(text[s]) \in Nat /\ n <= Len(text[s])
  BY <1>1 DEF KVTypeOK, Fed
<1>3. SubSeq(text[s], 1, n) \in Fed /\ Len(SubSeq(text[s], 1, n)) = n
  <2>1. \A i \in 1..n : text[s][i] \in Tokens \cup {Unwritten}
    BY <1>2 DEF Fed
  <2> QED BY <1>2, <2>1, SubSeqProperties DEF Fed
<1>4. text' \in [Seqs -> Fed] /\ text'[s] = SubSeq(text[s], 1, n)
      /\ \A t \in Seqs \ {s} : text'[t] = text[t]
  BY <1>1, <1>3 DEF KVTypeOK
<1>5. KVTypeOK'
  <2>1. \A t \in Seqs \ open : table[t] = <<>> /\ text'[t] = <<>>
    BY <1>1, <1>4 DEF KVTypeOK
  <2> QED BY <1>1, <1>4, <2>1 DEF KVTypeOK
<1>6. RefAccounting'
  BY <1>1 DEF RefAccounting, TableRefs, CacheRefs
<1>7. TablesCover'
  <2>1. BlocksFor(n) <= BlocksFor(Len(text[s])) /\ BlocksFor(Len(text[s])) <= Len(table[s])
    BY <1>2, BlocksForMonotonic DEF TablesCover
  <2>2. BlocksFor(n) \in Nat /\ BlocksFor(Len(text[s])) \in Nat /\ Len(table[s]) \in Nat
    BY <1>2, BlocksForType DEF KVTypeOK
  <2>3. BlocksFor(Len(text'[s])) <= Len(table[s])
    BY <1>3, <1>4, <2>1, <2>2
  <2> QED BY <1>1, <1>4, <2>3 DEF TablesCover
<1> QED BY <1>5, <1>6, <1>7

\* free() when counts only go down: the free list stays the set of blocks with count 0.
LEMMA RecycleFrees ==
  ASSUME KVTypeOK, RefAccounting, Recycle({}),
         \A b \in Blocks : ref'[b] \in Nat /\ ref'[b] <= ref[b]
  PROVE  free' = {b \in Blocks : ref'[b] = 0}
<1>1. \A b \in Blocks : ref[b] \in Nat /\ (b \in free <=> ref[b] = 0)
  BY DEF KVTypeOK, RefAccounting
<1>2. free' = free \cup {b \in Blocks : ref[b] > 0 /\ ref'[b] = 0}
  BY DEF Recycle
<1>3. ASSUME NEW b \in Blocks PROVE b \in free' <=> ref'[b] = 0
  BY <1>1, <1>2
<1>4. free' \subseteq Blocks
  BY <1>2 DEF KVTypeOK
<1> QED BY <1>3, <1>4

\* Dropping the content of unreferenced blocks keeps the type of the pools.
LEMMA ForgetType ==
  ASSUME KVTypeOK
  PROVE  Forget(data) \in [Blocks -> [1..BlockSize -> Fed]]
<1>1. Blank \in [1..BlockSize -> Fed]
  BY DEF Blank, Fed
<1> QED BY <1>1 DEF Forget, KVTypeOK

\* release() gives back every reference of the table of s, as often as the table names it.
LEMMA ReleaseInv ==
  ASSUME KVInv, NEW s \in Seqs, Release(s)
  PROVE  KVInv'
<1> USE DEF KVInv
<1>1. /\ s \in open /\ open' = open \ {s}
      /\ table' = [table EXCEPT ![s] = <<>>]
      /\ text' = [text EXCEPT ![s] = <<>>]
      /\ ref' = [b \in Blocks |-> ref[b] - Cardinality(Places(table[s], b))]
      /\ Recycle({})
      /\ data' = Forget(data)
      /\ UNCHANGED <<tree, older, toEvict>>
  BY DEF Release
<1>2. /\ table \in [Seqs -> Seq(Blocks)] /\ table' \in [Seqs -> Seq(Blocks)]
      /\ table'[s] = <<>> /\ \A t \in Seqs \ {s} : table'[t] = table[t]
  BY <1>1 DEF KVTypeOK
<1>3. ASSUME NEW b \in Blocks
      PROVE  /\ ref'[b] = Cardinality(TableRefs(b)') + Cardinality(CacheRefs(b)')
             /\ ref'[b] \in Nat /\ ref'[b] <= ref[b]
  <2>1. /\ Cardinality(Refs(table', Seqs, b)) = Cardinality(Refs(table, Seqs, b))
             - Cardinality(Places(table[s], b)) + Cardinality(Places(table'[s], b))
        /\ Cardinality(Places(table[s], b)) <= Cardinality(Refs(table, Seqs, b))
    BY ZenonT(30), <1>2, RefsChange
  <2>2. Cardinality(Places(table'[s], b)) = 0
    BY <1>2, FS_EmptySet DEF Places
  <2>3. /\ ref[b] = Cardinality(Refs(table, Seqs, b)) + Cardinality(CacheRefs(b))
        /\ Cardinality(Refs(table, Seqs, b)) \in Nat /\ Cardinality(CacheRefs(b)) \in Nat
    BY Referenced
  <2>4. Cardinality(Places(table[s], b)) \in Nat
    BY <1>2, PlacesFinite
  <2>5. ref'[b] = ref[b] - Cardinality(Places(table[s], b))
    BY <1>1
  <2>6. CacheRefs(b)' = CacheRefs(b) /\ TableRefs(b)' = Refs(table', Seqs, b)
    BY <1>1 DEF CacheRefs, TableRefs, Refs
  <2> QED BY <2>1, <2>2, <2>3, <2>4, <2>5, <2>6
<1>4. RefAccounting'
  <2>1. free' = {b \in Blocks : ref'[b] = 0}
    BY <1>1, <1>3, RecycleFrees
  <2> QED BY <1>3, <2>1 DEF RefAccounting
<1>5. KVTypeOK'
  <2>1. ref' \in [Blocks -> Nat]
    BY <1>1, <1>3
  <2>2. free' \subseteq Blocks
    BY <1>4 DEF RefAccounting
  <2>3. text' \in [Seqs -> Fed]
    BY <1>1 DEF KVTypeOK, Fed
  <2>4. data' \in [Blocks -> [1..BlockSize -> Fed]]
    BY <1>1, ForgetType
  <2>5. \A t \in Seqs \ open' : table'[t] = <<>> /\ text'[t] = <<>>
    BY <1>1 DEF KVTypeOK
  <2> QED BY <1>1, <1>2, <2>1, <2>2, <2>3, <2>4, <2>5 DEF KVTypeOK
<1>6. TablesCover'
  <2>1. BlocksFor(0) = 0
    BY KVAssumption DEF BlocksFor
  <2>2. text'[s] = <<>> /\ \A t \in Seqs \ {s} : text'[t] = text[t]
    BY <1>1 DEF KVTypeOK
  <2> QED BY SMTT(30), <1>2, <2>1, <2>2 DEF TablesCover
<1> QED BY <1>4, <1>5, <1>6

\* insert() preserves the invariant: it only adds references to blocks that the table of s
\* already holds.
LEMMA PublishInv ==
  ASSUME KVInv, NEW s \in Seqs, NEW tokens \in Fed, Publish(s, tokens)
  PROVE  KVInv'
<1> USE DEF KVInv
<1> DEFINE k == Min2(FullBlocks(s), Len(tokens) \div BlockSize)
           walked == {Path(tokens, i) : i \in 1..k}
           added == walked \ DOMAIN tree
           BlockOf(p) == table[s][Len(p) \div BlockSize]
           gained(b) == {p \in added : BlockOf(p) = b}
<1>1. /\ tree' = [p \in DOMAIN tree \cup walked |->
                    IF p \in added THEN BlockOf(p) ELSE tree[p]]
      /\ ref' = [b \in Blocks |-> ref[b] + Cardinality(gained(b))]
      /\ Touch(walked)
      /\ toEvict' = Max2(0, Cardinality(DOMAIN tree') - CacheCap)
      /\ UNCHANGED <<free, open, table, text, data>>
  BY DEF Publish
<1>2. /\ k \in Nat /\ k <= Len(table[s]) /\ k <= Len(tokens) \div BlockSize
      /\ Len(tokens) \in Nat /\ table[s] \in Seq(Blocks)
  <2>1. Len(tokens) \in Nat /\ Len(text[s]) \in Nat /\ table[s] \in Seq(Blocks)
    BY DEF KVTypeOK, Fed
  <2>2. /\ FullBlocks(s) \in Nat /\ FullBlocks(s) <= BlocksFor(Len(text[s]))
        /\ BlocksFor(Len(text[s])) \in Nat
    BY <2>1, BlocksForType DEF FullBlocks
  <2>3. Len(tokens) \div BlockSize \in Nat
    BY <2>1, BlocksForType
  <2>4. BlocksFor(Len(text[s])) <= Len(table[s])
    BY DEF TablesCover
  <2> QED BY <2>1, <2>2, <2>3, <2>4 DEF Min2
<1>3. ASSUME NEW i \in 1..k
      PROVE  /\ Path(tokens, i) \in Fed
             /\ Len(Path(tokens, i)) \div BlockSize = i
  <2>1. i \in Nat /\ i <= Len(tokens) \div BlockSize
    <3>1. Len(tokens) \div BlockSize \in Nat
      BY <1>2, BlocksForType
    <3> HIDE DEF k
    <3> QED BY <1>2, <3>1
  <2>2. i * BlockSize <= Len(tokens) /\ i * BlockSize \in Nat
    BY <1>2, <2>1, DivLe
  <2>3. \A j \in 1..(i * BlockSize) : tokens[j] \in Tokens \cup {Unwritten}
    BY <1>2, <2>2 DEF Fed
  <2>4. Path(tokens, i) \in Fed /\ Len(Path(tokens, i)) = i * BlockSize
    BY <2>2, <2>3, SubSeqProperties DEF Fed, Path
  <2> QED BY <2>1, <2>4, BlocksForFull
<1>4. \A p \in walked : p \in Fed /\ BlockOf(p) \in Blocks
  <2>1. ASSUME NEW i \in 1..k PROVE Path(tokens, i) \in Fed /\ BlockOf(Path(tokens, i)) \in Blocks
    <3>1. Len(Path(tokens, i)) \div BlockSize \in 1..Len(table[s])
      <4> HIDE DEF k
      <4> QED BY <1>2, <1>3
    <3> QED BY <1>2, <1>3, <3>1
  <2> HIDE DEF k, BlockOf
  <2> QED BY <2>1
<1>5. IsFiniteSet(walked) /\ IsFiniteSet(added)
  <2> DEFINE f == [i \in 1..k |-> Path(tokens, i)]
  <2>1. IsFiniteSet(1..k)
    <3>1. 1 \in Int /\ k \in Int
      BY <1>2
    <3> HIDE DEF k
    <3> QED BY <3>1, FS_Interval
  <2>2. f \in Surjection(1..k, walked)
    <3> HIDE DEF k
    <3> QED BY DEF Surjection
  <2>3. IsFiniteSet(walked)
    <3> HIDE DEF f, walked
    <3> QED BY <2>1, <2>2, FS_Surjection
  <2> HIDE DEF walked
  <2> QED BY <2>3, FS_Subset
<1>6. /\ DOMAIN tree' = DOMAIN tree \cup walked
      /\ \A p \in added : tree'[p] = BlockOf(p)
      /\ \A p \in DOMAIN tree : tree'[p] = tree[p]
  <2> HIDE DEF k, BlockOf
  <2> QED BY <1>1
<1>7. ASSUME NEW b \in Blocks
      PROVE  /\ Cardinality(CacheRefs(b)') = Cardinality(CacheRefs(b)) + Cardinality(gained(b))
             /\ Cardinality(gained(b)) \in Nat
             /\ (Cardinality(gained(b)) # 0 => ref[b] # 0)
  <2>1. CacheRefs(b)' = CacheRefs(b) \cup gained(b) /\ CacheRefs(b) \cap gained(b) = {}
    <3> HIDE DEF walked, BlockOf
    <3>1. DOMAIN tree' = DOMAIN tree \cup added
      BY <1>6
    <3>2. CacheRefs(b) \cap gained(b) = {}
      BY DEF CacheRefs, Places
    <3>3. CacheRefs(b)' = CacheRefs(b) \cup gained(b)
      BY <1>6, <3>1 DEF CacheRefs, Places
    <3> QED BY <3>2, <3>3
  <2>2. IsFiniteSet(gained(b)) /\ Cardinality(gained(b)) \in Nat
    <3>1. gained(b) \in SUBSET added
      OBVIOUS
    <3> HIDE DEF gained, added
    <3> QED BY <1>5, <3>1, FS_Subset, FS_CardinalityType
  <2>3. IsFiniteSet(CacheRefs(b)) /\ Cardinality(CacheRefs(b)) \in Nat
    BY CacheRefsFinite
  <2>4. Cardinality(CacheRefs(b) \cup gained(b))
          = Cardinality(CacheRefs(b)) + Cardinality(gained(b))
    <3> HIDE DEF gained
    <3>1. Cardinality(CacheRefs(b) \cup gained(b)) = Cardinality(CacheRefs(b))
            + Cardinality(gained(b)) - Cardinality(CacheRefs(b) \cap gained(b))
      BY <2>2, <2>3, FS_Union
    <3>2. Cardinality(CacheRefs(b) \cap gained(b)) = 0
      BY <2>1, FS_EmptySet
    <3> QED BY <2>2, <2>3, <3>1, <3>2
  <2>5. ASSUME Cardinality(gained(b)) # 0 PROVE ref[b] # 0
    <3>1. gained(b) # {}
      <4> HIDE DEF gained
      <4> QED BY <2>5, FS_EmptySet
    <3>2. PICK i \in 1..k : BlockOf(Path(tokens, i)) = b
      <4> HIDE DEF k, BlockOf
      <4> QED BY <3>1
    <3>3. i \in DOMAIN table[s] /\ table[s][i] = b
      <4>1. i \in 1..Len(table[s]) /\ DOMAIN table[s] = 1..Len(table[s])
        <5> HIDE DEF k
        <5> QED BY <1>2
      <4>2. table[s][i] = b
        BY <1>3, <3>2
      <4> QED BY <4>1, <4>2
    <3>4. Places(table[s], b) # {}
      BY <3>3 DEF Places
    <3> QED BY <3>4, Referenced
  <2> HIDE DEF gained
  <2> QED BY <2>1, <2>2, <2>4, <2>5
<1>8. ASSUME NEW b \in Blocks
      PROVE  /\ ref'[b] = Cardinality(TableRefs(b)') + Cardinality(CacheRefs(b)')
             /\ ref'[b] \in Nat /\ (ref'[b] = 0 <=> ref[b] = 0)
  <2>1. ref'[b] = ref[b] + Cardinality(gained(b))
    <3> HIDE DEF gained
    <3> QED BY <1>1
  <2>2. TableRefs(b)' = Refs(table, Seqs, b)
    BY <1>1 DEF TableRefs, Refs
  <2> HIDE DEF gained
  <2>3. /\ ref[b] = Cardinality(Refs(table, Seqs, b)) + Cardinality(CacheRefs(b))
        /\ Cardinality(Refs(table, Seqs, b)) \in Nat /\ Cardinality(CacheRefs(b)) \in Nat
    BY Referenced
  <2> QED BY <1>7, <2>1, <2>2, <2>3
<1>9. RefAccounting'
  <2>1. free' = free
    BY <1>1
  <2>2. free' = {b \in Blocks : ref'[b] = 0}
    BY <1>8, <2>1 DEF RefAccounting
  <2> QED BY <1>8, <2>2 DEF RefAccounting
<1>10. KVTypeOK'
  <2>1. ref' \in [Blocks -> Nat]
    <3> HIDE DEF gained
    <3> QED BY <1>1, <1>8
  <2>2. IsFiniteSet(DOMAIN tree')
    <3>1. IsFiniteSet(DOMAIN tree)
      BY DEF KVTypeOK
    <3> HIDE DEF walked
    <3> QED BY <1>5, <1>6, <3>1, FS_Union
  <2>3. \A p \in DOMAIN tree' : p \in Fed /\ tree'[p] \in Blocks
    <3>1. \A p \in DOMAIN tree : p \in Fed /\ tree[p] \in Blocks
      BY DEF KVTypeOK
    <3> HIDE DEF walked, BlockOf
    <3> QED BY <1>4, <1>6, <3>1
  <2>4. older' \subseteq (DOMAIN tree') \X (DOMAIN tree')
    <3>1. older \subseteq (DOMAIN tree) \X (DOMAIN tree)
      BY DEF KVTypeOK
    <3>2. older' \subseteq older \cup ((DOMAIN tree') \X walked)
      <4> HIDE DEF walked
      <4> QED BY <1>1 DEF Touch
    <3> HIDE DEF walked
    <3> QED BY <1>6, <3>1, <3>2
  <2>5. toEvict' \in Nat
    <3>1. Cardinality(DOMAIN tree') \in Nat
      BY <2>2, FS_CardinalityType
    <3> QED BY <1>1, <3>1, KVAssumption DEF Max2
  <2>6. tree' = [p \in DOMAIN tree' |-> tree'[p]]
    <3> HIDE DEF walked, BlockOf
    <3> QED BY <1>1
  <2>7. free' = free /\ open' = open /\ table' = table /\ text' = text /\ data' = data
    BY <1>1
  <2> HIDE DEF walked, BlockOf
  <2> QED BY <2>1, <2>2, <2>3, <2>4, <2>5, <2>6, <2>7 DEF KVTypeOK
<1>11. TablesCover'
  <2>1. table' = table /\ text' = text
    BY <1>1
  <2> QED BY <2>1 DEF TablesCover
<1> QED BY <1>9, <1>10, <1>11

\* The bounds of the eviction loop change no reference.
LEMMA EvictInv ==
  ASSUME KVInv, NEW n \in Nat, Evict(n) \/ EvictNoMore
  PROVE  KVInv'
<1>1. /\ UNCHANGED <<free, ref, open, table, text, data, tree, older>>
      /\ toEvict' \in Nat
  BY DEF Evict, EvictNoMore
<1>2. KVTypeOK' /\ RefAccounting' /\ TablesCover'
  BY <1>1 DEF KVInv, KVTypeOK, RefAccounting, TableRefs, CacheRefs, TablesCover
<1> QED BY <1>2 DEF KVInv

\* One iteration of evict() drops one radix node and one reference.
LEMMA EvictOneInv ==
  ASSUME KVInv, EvictOne
  PROVE  KVInv'
<1> USE DEF KVInv
<1>1. PICK p \in LRU :
        /\ tree' = [q \in DOMAIN tree \ {p} |-> tree[q]]
        /\ ref' = [ref EXCEPT ![tree[p]] = @ - 1]
        /\ older' = {pq \in older : pq[1] # p /\ pq[2] # p}
  BY DEF EvictOne
<1>2. /\ toEvict > 0 /\ Recycle({}) /\ data' = Forget(data) /\ toEvict' = toEvict - 1
      /\ open' = open /\ table' = table /\ text' = text
  BY DEF EvictOne
<1>3. p \in DOMAIN tree /\ tree[p] \in Blocks
  BY DEF LRU, Evictable, KVTypeOK
<1>4. /\ DOMAIN tree' = DOMAIN tree \ {p} /\ \A q \in DOMAIN tree' : tree'[q] = tree[q]
  BY <1>1
<1>5. ASSUME NEW b \in Blocks
      PROVE  /\ ref'[b] = Cardinality(TableRefs(b)') + Cardinality(CacheRefs(b)')
             /\ ref'[b] \in Nat /\ ref'[b] <= ref[b]
  <2>1. CacheRefs(b)' = CacheRefs(b) \ {p}
    BY <1>4 DEF CacheRefs, Places
  <2>2. IsFiniteSet(CacheRefs(b)) /\ Cardinality(CacheRefs(b)) \in Nat
    BY CacheRefsFinite
  <2>3. TableRefs(b)' = Refs(table, Seqs, b)
    BY <1>2 DEF TableRefs, Refs
  <2>4. /\ ref[b] = Cardinality(Refs(table, Seqs, b)) + Cardinality(CacheRefs(b))
        /\ Cardinality(Refs(table, Seqs, b)) \in Nat
    BY Referenced
  <2>5. CASE b = tree[p]
    <3>1. p \in CacheRefs(b)
      BY <1>3, <2>5 DEF CacheRefs, Places
    <3>2. Cardinality(CacheRefs(b) \ {p}) = Cardinality(CacheRefs(b)) - 1
      BY <2>2, <3>1, FS_RemoveElement
    <3>3. CacheRefs(b) # {}
      BY <3>1
    <3>4. Cardinality(CacheRefs(b)) # 0
      BY <2>2, <3>3, FS_EmptySet
    <3>5. ref'[b] = ref[b] - 1
      BY <1>1, <1>3, <2>5 DEF KVTypeOK
    <3> QED BY <2>1, <2>2, <2>3, <2>4, <3>2, <3>4, <3>5
  <2>6. CASE b # tree[p]
    <3>1. CacheRefs(b) \ {p} = CacheRefs(b)
      BY <2>6 DEF CacheRefs, Places
    <3>2. ref'[b] = ref[b]
      BY <1>1, <2>6 DEF KVTypeOK
    <3> QED BY <2>1, <2>2, <2>3, <2>4, <3>1, <3>2
  <2> QED BY <2>5, <2>6
<1>6. RefAccounting'
  <2>1. free' = {b \in Blocks : ref'[b] = 0}
    BY <1>2, <1>5, RecycleFrees
  <2> QED BY <1>5, <2>1 DEF RefAccounting
<1>7. KVTypeOK'
  <2>1. ref' \in [Blocks -> Nat]
    BY <1>1, <1>5 DEF KVTypeOK
  <2>2. free' \subseteq Blocks
    BY <1>6 DEF RefAccounting
  <2>3. data' \in [Blocks -> [1..BlockSize -> Fed]]
    BY <1>2, ForgetType
  <2>4. /\ IsFiniteSet(DOMAIN tree') /\ tree' = [q \in DOMAIN tree' |-> tree'[q]]
        /\ \A q \in DOMAIN tree' : q \in Fed /\ tree'[q] \in Blocks
    <3>1. IsFiniteSet(DOMAIN tree \ {p})
      BY FS_Subset DEF KVTypeOK
    <3> QED BY <1>1, <1>4, <3>1 DEF KVTypeOK
  <2>5. older' \subseteq (DOMAIN tree') \X (DOMAIN tree')
    BY <1>1, <1>4 DEF KVTypeOK
  <2>6. toEvict' \in Nat
    BY <1>2 DEF KVTypeOK
  <2> QED BY <1>2, <2>1, <2>2, <2>3, <2>4, <2>5, <2>6 DEF KVTypeOK
<1>8. TablesCover'
  BY <1>2 DEF TablesCover
<1> QED BY <1>6, <1>7, <1>8

\* RadixCache.reset() gives back one reference per node.
LEMMA ResetInv ==
  ASSUME KVInv, Reset
  PROVE  KVInv'
<1> USE DEF KVInv
<1>1. /\ tree' = <<>> /\ older' = {}
      /\ ref' = [b \in Blocks |-> ref[b] - Cardinality(Places(tree, b))]
      /\ Recycle({}) /\ data' = Forget(data)
      /\ open' = open /\ table' = table /\ text' = text /\ toEvict' = toEvict
  BY DEF Reset
<1>2. ASSUME NEW b \in Blocks
      PROVE  /\ ref'[b] = Cardinality(TableRefs(b)') + Cardinality(CacheRefs(b)')
             /\ ref'[b] \in Nat /\ ref'[b] <= ref[b]
  <2>1. CacheRefs(b)' = {} /\ TableRefs(b)' = Refs(table, Seqs, b)
    BY <1>1 DEF CacheRefs, Places, TableRefs, Refs
  <2>2. Cardinality(CacheRefs(b)') = 0
    BY <2>1, FS_EmptySet
  <2>3. /\ ref[b] = Cardinality(Refs(table, Seqs, b)) + Cardinality(CacheRefs(b))
        /\ Cardinality(Refs(table, Seqs, b)) \in Nat /\ Cardinality(CacheRefs(b)) \in Nat
    BY Referenced
  <2>4. ref'[b] = ref[b] - Cardinality(CacheRefs(b))
    BY <1>1 DEF CacheRefs
  <2> QED BY <2>1, <2>2, <2>3, <2>4
<1>3. RefAccounting'
  <2>1. free' = {b \in Blocks : ref'[b] = 0}
    BY <1>1, <1>2, RecycleFrees
  <2> QED BY <1>2, <2>1 DEF RefAccounting
<1>4. KVTypeOK'
  <2>1. ref' \in [Blocks -> Nat]
    BY <1>1, <1>2
  <2>2. free' \subseteq Blocks
    BY <1>3 DEF RefAccounting
  <2>3. data' \in [Blocks -> [1..BlockSize -> Fed]]
    BY <1>1, ForgetType
  <2>4. IsFiniteSet(DOMAIN tree') /\ DOMAIN tree' = {} /\ tree' = [p \in DOMAIN tree' |-> tree'[p]]
    BY <1>1, FS_EmptySet
  <2> QED BY <1>1, <2>1, <2>2, <2>3, <2>4 DEF KVTypeOK
<1>5. TablesCover'
  BY <1>1 DEF TablesCover
<1> QED BY <1>3, <1>4, <1>5

-----------------------------------------------------------------------------
\* Every step of the memory preserves the inductive invariant, one case per client call.
LEMMA StepInv == KVInv /\ [KVNext]_kvvars => KVInv'
<1> SUFFICES ASSUME KVInv, [KVNext]_kvvars PROVE KVInv'
  OBVIOUS
<1>1. ASSUME NEW s \in Seqs, NEW p \in Prompts, Open(s, p) PROVE KVInv'
  BY <1>1, OpenInv
<1>2. ASSUME NEW s \in Seqs, NEW c \in Chunks, Write(s, Len(text[s]), c) PROVE KVInv'
  <2>1. Len(text[s]) \in Nat /\ c \in Seq(Tokens)
    BY KVAssumption DEF KVInv, KVTypeOK, Fed
  <2> QED BY <1>2, <2>1, WriteInv
<1>3. ASSUME NEW s \in Seqs, NEW n \in 0..MaxLen, Rollback(s, n) PROVE KVInv'
  <2>1. n \in Nat
    BY KVAssumption
  <2> QED BY <1>3, <2>1, RollbackInv
<1>4. ASSUME NEW s \in Seqs, Release(s) PROVE KVInv'
  BY <1>4, ReleaseInv
<1>5. ASSUME NEW s \in Seqs, Publish(s, text[s]) PROVE KVInv'
  <2>1. text[s] \in Fed
    BY DEF KVInv, KVTypeOK
  <2> QED BY <1>5, <2>1, PublishInv
<1>6. ASSUME NEW n \in 1..MaxEvict, Evict(n) PROVE KVInv'
  <2>1. n \in Nat
    BY DEF MaxEvict
  <2> QED BY <1>6, <2>1, EvictInv
<1>7. CASE EvictOne
  BY <1>7, EvictOneInv
<1>8. CASE EvictNoMore
  <2>1. 0 \in Nat
    OBVIOUS
  <2> QED BY <1>8, <2>1, EvictInv
<1>9. CASE Reset
  BY <1>9, ResetInv
<1>10. CASE UNCHANGED kvvars
  BY <1>10 DEF kvvars, KVInv, KVTypeOK, RefAccounting, TableRefs, CacheRefs, TablesCover
<1> QED BY <1>1, <1>2, <1>3, <1>4, <1>5, <1>6, <1>7, <1>8, <1>9, <1>10 DEF KVNext

\* The inductive invariant holds in every reachable state of the paged KV memory.
THEOREM KVInvHolds == KVSpec => []KVInv
BY InitInv, StepInv, PTL DEF KVSpec

\* Type correctness: ids stay in the pool, counts are never negative, a released sequence
\* holds nothing (kv/block_allocator.py, kv/paged_cache.py, kv/radix_cache.py).
THEOREM KVTypeCorrect == KVSpec => []KVTypeOK
<1>1. KVInv => KVTypeOK
  BY DEF KVInv
<1> QED BY <1>1, KVInvHolds, PTL

\* No block leaks, is freed twice, or is free while a sequence or the cache names it, for
\* every pool and every order of calls, including passes that run out of blocks half way.
THEOREM RefAccountingHolds == KVSpec => []RefAccounting
<1>1. KVInv => RefAccounting
  BY DEF KVInv
<1> QED BY <1>1, KVInvHolds, PTL
-----------------------------------------------------------------------------
\* A block somebody names has a positive count; two table entries that name it, or a table entry
\* and a cache node, make it shared.
Counted ==
  \A b \in Blocks :
    /\ \A s \in Seqs : \A i \in 1..Len(table[s]) : table[s][i] = b => ref[b] # 0
    /\ \A p \in DOMAIN tree : tree[p] = b => ref[b] # 0
    /\ \A s, t \in Seqs : \A i \in 1..Len(table[s]) : \A j \in 1..Len(table[t]) :
         <<s, i>> # <<t, j>> /\ table[s][i] = b /\ table[t][j] = b => Shared(b)
    /\ \A s \in Seqs : \A i \in 1..Len(table[s]) : \A p \in DOMAIN tree :
         table[s][i] = b /\ tree[p] = b => Shared(b)

\* The reference counts, being exact, tell whether a block is named and whether it is shared.
LEMMA NamedIsCounted == KVInv => Counted
<1> SUFFICES ASSUME KVInv, NEW b \in Blocks
             PROVE  /\ \A s \in Seqs : \A i \in 1..Len(table[s]) : table[s][i] = b => ref[b] # 0
                    /\ \A p \in DOMAIN tree : tree[p] = b => ref[b] # 0
                    /\ \A s, t \in Seqs : \A i \in 1..Len(table[s]) : \A j \in 1..Len(table[t]) :
                         <<s, i>> # <<t, j>> /\ table[s][i] = b /\ table[t][j] = b => Shared(b)
                    /\ \A s \in Seqs : \A i \in 1..Len(table[s]) : \A p \in DOMAIN tree :
                         table[s][i] = b /\ tree[p] = b => Shared(b)
  BY DEF Counted
<1> DEFINE T == Refs(table, Seqs, b)
           C == CacheRefs(b)
<1>1. /\ KVTypeOK /\ RefAccounting
      /\ table \in [Seqs -> Seq(Blocks)]
      /\ \A s \in Seqs : DOMAIN table[s] = 1..Len(table[s])
  BY DEF KVInv, KVTypeOK
<1>2. /\ IsFiniteSet(T) /\ Cardinality(T) \in Nat /\ IsFiniteSet(C) /\ Cardinality(C) \in Nat
      /\ ref[b] = Cardinality(T) + Cardinality(C)
  BY <1>1, RefsFinite, CacheRefsFinite, Referenced
<1>3. ASSUME NEW s \in Seqs, NEW i \in 1..Len(table[s]), table[s][i] = b
      PROVE  <<s, i>> \in T
  BY <1>1, <1>3 DEF Refs, Places
<1>4. ASSUME NEW p \in DOMAIN tree, tree[p] = b PROVE p \in C
  BY <1>4 DEF CacheRefs, Places
<1> HIDE DEF T, C
<1>5. \A X : IsFiniteSet(X) /\ Cardinality(X) \in Nat /\ X # {} => Cardinality(X) >= 1
  BY FS_EmptySet
<1>6. ASSUME NEW s \in Seqs, NEW t \in Seqs,
             NEW i \in 1..Len(table[s]), NEW j \in 1..Len(table[t]), <<s, i>> # <<t, j>>,
             table[s][i] = b, table[t][j] = b
      PROVE  Cardinality(T) >= 2
  <2>1. {<<s, i>>, <<t, j>>} \in SUBSET T /\ <<s, i>> # <<t, j>>
    BY <1>3, <1>6
  <2>2. ASSUME NEW x, NEW y, x # y
        PROVE  IsFiniteSet({x} \cup {y}) /\ Cardinality({x} \cup {y}) = 2
    <3>1. IsFiniteSet({x}) /\ Cardinality({x}) = 1 /\ y \notin {x}
      BY <2>2, FS_Singleton
    <3>2. /\ IsFiniteSet({x} \cup {y})
          /\ Cardinality({x} \cup {y}) = Cardinality({x}) + 1
      BY <3>1, FS_AddElement
    <3>3. \A a, c : a = 1 /\ c = a + 1 => c = 2
      OBVIOUS
    <3> QED BY <3>1, <3>2, <3>3, Zenon
  <2>3. IsFiniteSet({<<s, i>>} \cup {<<t, j>>}) /\ Cardinality({<<s, i>>} \cup {<<t, j>>}) = 2
    BY <2>1, <2>2
  <2>4. {<<s, i>>} \cup {<<t, j>>} \in SUBSET T
    BY <2>1
  <2>5. Cardinality({<<s, i>>} \cup {<<t, j>>}) <= Cardinality(T)
    BY <1>2, <2>4, FS_Subset
  <2> QED BY <1>2, <2>3, <2>5
<1>7. \A s \in Seqs : \A i \in 1..Len(table[s]) : table[s][i] = b => Cardinality(T) >= 1
  BY <1>2, <1>3, <1>5
<1>8. \A p \in DOMAIN tree : tree[p] = b => Cardinality(C) >= 1
  BY <1>2, <1>4, <1>5
<1>9. \A s \in Seqs : \A i \in 1..Len(table[s]) : table[s][i] = b => ref[b] # 0
  BY <1>2, <1>7
<1>10. \A p \in DOMAIN tree : tree[p] = b => ref[b] # 0
  BY <1>2, <1>8
<1>11. \A s, t \in Seqs : \A i \in 1..Len(table[s]) : \A j \in 1..Len(table[t]) :
         <<s, i>> # <<t, j>> /\ table[s][i] = b /\ table[t][j] = b => Shared(b)
  BY <1>2, <1>6 DEF Shared
<1>12. \A s \in Seqs : \A i \in 1..Len(table[s]) : \A p \in DOMAIN tree :
         table[s][i] = b /\ tree[p] = b => Shared(b)
  BY <1>2, <1>7, <1>8 DEF Shared
<1> QED BY <1>9, <1>10, <1>11, <1>12

-----------------------------------------------------------------------------
\* What a sequence was fed is what its blocks hold.
Holds ==
  \A s \in open : \A i \in 1..Len(table[s]), j \in 1..BlockSize :
    At(i, j) <= Len(text[s]) => data[table[s][i]][j] = SubSeq(text[s], 1, At(i, j))

\* No block occurs twice in a block table.
OwnPlaces ==
  \A s \in open : \A i, j \in 1..Len(table[s]) : table[s][i] = table[s][j] => i = j

\* Every block-aligned prefix of a cached path is cached.
Rooted ==
  \A p \in DOMAIN tree :
    /\ Len(p) > 0 /\ Len(p) % BlockSize = 0
    /\ \A i \in 1..(Len(p) \div BlockSize) : Path(p, i) \in DOMAIN tree

\* The block of a cached path encodes the last block_size positions of that path.
Encodes ==
  \A p \in DOMAIN tree : \A j \in 1..BlockSize :
    data[tree[p]][j] = SubSeq(p, 1, Len(p) - BlockSize + j)

\* The content of the memory: what the names promise is what the blocks hold.
Content == Holds /\ OwnPlaces /\ Rooted /\ Encodes

\* The path of block i of a token list: its tokens, its length, and its own prefixes.
LEMMA Paths ==
  ASSUME NEW q \in Fed, NEW i \in Nat \ {0}, i <= Len(q) \div BlockSize
  PROVE  /\ Path(q, i) \in Fed
         /\ Len(Path(q, i)) = i * BlockSize /\ Len(Path(q, i)) > 0
         /\ i * BlockSize \in 0..Len(q)
         /\ Len(Path(q, i)) % BlockSize = 0 /\ Len(Path(q, i)) \div BlockSize = i
         /\ \A h \in 1..i : Path(Path(q, i), h) = Path(q, h)
         /\ \A j \in 1..BlockSize :
              /\ At(i, j) \in 1..(i * BlockSize)
              /\ At(i, j) = Len(Path(q, i)) - BlockSize + j
              /\ SubSeq(Path(q, i), 1, At(i, j)) = SubSeq(q, 1, At(i, j))
<1>1. Len(q) \in Nat /\ i * BlockSize \in 0..Len(q) /\ BlockSize \in Nat \ {0}
  <2>1. Len(q) \in Nat
    BY DEF Fed
  <2> QED BY <2>1, DivLe, KVAssumption
<1>2. /\ Path(q, i) \in Fed /\ Len(Path(q, i)) = i * BlockSize
      /\ \A a \in 0..(i * BlockSize) : SubSeq(Path(q, i), 1, a) = SubSeq(q, 1, a)
  BY <1>1, Prefixes DEF Path, Fed
<1>3. i * BlockSize > 0 /\ (i * BlockSize) % BlockSize = 0 /\ (i * BlockSize) \div BlockSize = i
  BY <1>1
<1>4. ASSUME NEW h \in 1..i PROVE Path(Path(q, i), h) = Path(q, h)
  <2>1. h * BlockSize \in 0..(i * BlockSize)
    BY <1>1
  <2> QED BY <1>2, <2>1 DEF Path
<1>5. ASSUME NEW j \in 1..BlockSize
      PROVE  At(i, j) \in 1..(i * BlockSize) /\ At(i, j) = i * BlockSize - BlockSize + j
  <2>1. (i - 1) * BlockSize = i * BlockSize - BlockSize /\ (i - 1) * BlockSize \in Nat
    BY <1>1
  <2> QED BY <1>1, <2>1 DEF At
<1>6. \A a \in 1..(i * BlockSize) : a \in 0..(i * BlockSize)
  BY <1>1
<1> QED BY <1>1, <1>2, <1>3, <1>4, <1>5, <1>6

\* A cached path on the way to a longer one has a child.
LEMMA InnerHasChild ==
  ASSUME KVTypeOK, Rooted, NEW q \in DOMAIN tree, NEW i \in 1..(Len(q) \div BlockSize),
         Path(q, i) # q
  PROVE  \E c \in DOMAIN tree : IsChild(c, Path(q, i))
<1> DEFINE k == Len(q) \div BlockSize
<1>1. /\ q \in Fed /\ Len(q) \in Nat /\ BlockSize \in Nat \ {0} /\ Len(q) % BlockSize = 0
      /\ \A h \in 1..k : Path(q, h) \in DOMAIN tree
  BY KVAssumption DEF KVTypeOK, Fed, Rooted
<1>2. k \in Nat /\ k * BlockSize = Len(q)
  <2>1. \A a \in Nat : a % BlockSize = 0 => (a \div BlockSize) * BlockSize = a
                                           /\ a \div BlockSize \in Nat
    BY <1>1
  <2> QED BY <1>1, <2>1
<1>3. i # k
  <2>1. Path(q, k) = q
    BY <1>1, <1>2, SubSeqFull DEF Path, Fed
  <2> HIDE DEF k
  <2> QED BY <2>1
<1>4. i + 1 \in 1..k /\ i \in Nat \ {0}
  BY <1>2, <1>3
<1>5. IsChild(Path(q, i + 1), Path(q, i))
  <2>1. /\ Len(Path(q, i + 1)) = (i + 1) * BlockSize /\ Len(Path(q, i)) = i * BlockSize
        /\ Path(Path(q, i + 1), i) = Path(q, i)
    BY <1>1, <1>2, <1>4, Paths
  <2>2. (i + 1) * BlockSize = i * BlockSize + BlockSize
    BY <1>1, <1>4
  <2> QED BY <2>1, <2>2 DEF IsChild, Path
<1> QED BY <1>1, <1>4, <1>5

\* No block stands for two paths: the last slot of a block names its path.
LEMMA TreeInjective ==
  ASSUME KVTypeOK, Rooted, Encodes
  PROVE  \A p, q \in DOMAIN tree : tree[p] = tree[q] => p = q
<1>1. ASSUME NEW p \in DOMAIN tree PROVE data[tree[p]][BlockSize] = p
  <2>1. p \in Seq(Tokens \cup {Unwritten}) /\ BlockSize \in 1..BlockSize /\ Len(p) \in Nat
    BY KVAssumption DEF KVTypeOK, Fed
  <2>2. data[tree[p]][BlockSize] = SubSeq(p, 1, Len(p) - BlockSize + BlockSize)
    BY <2>1 DEF Encodes
  <2>3. Len(p) - BlockSize + BlockSize = Len(p)
    BY <2>1
  <2>4. SubSeq(p, 1, Len(p)) = p
    BY <2>1, SubSeqFull
  <2> QED BY <2>2, <2>3, <2>4
<1> QED BY <1>1

\* The cached part of Content is what CacheSound promises.
LEMMA ContentIsSound ==
  KVInv /\ Content => CacheSound
<1> SUFFICES ASSUME KVInv, Content PROVE CacheSound
  OBVIOUS
<1>1. KVTypeOK /\ Rooted /\ Encodes
  BY DEF KVInv, Content
<1>2. ASSUME NEW p \in DOMAIN tree, Len(p) > BlockSize
      PROVE  SubSeq(p, 1, Len(p) - BlockSize) \in DOMAIN tree
  <2> DEFINE k == Len(p) \div BlockSize
  <2>1. Len(p) \in Nat /\ BlockSize \in Nat \ {0} /\ Len(p) % BlockSize = 0
    BY <1>1, KVAssumption DEF KVTypeOK, Fed, Rooted
  <2>2. k \in Nat /\ k * BlockSize = Len(p) /\ (k - 1) * BlockSize = Len(p) - BlockSize /\ k > 1
    <3>1. \A a \in Nat : a % BlockSize = 0 => (a \div BlockSize) * BlockSize = a
                                             /\ a \div BlockSize \in Nat
      BY <2>1
    <3>2. k \in Nat /\ k * BlockSize = Len(p)
      BY <2>1, <3>1
    <3> HIDE DEF k
    <3>3. (k - 1) * BlockSize = Len(p) - BlockSize
      BY <2>1, <3>2
    <3>4. k # 0 /\ k # 1
      BY <1>2, <2>1, <3>2
    <3> QED BY <3>2, <3>3, <3>4
  <2>3. k - 1 \in 1..k
    BY <2>2
  <2>4. Path(p, k - 1) \in DOMAIN tree
    BY <1>1, <2>3 DEF Rooted
  <2> QED BY <2>2, <2>4 DEF Path
<1>3. \A p, q \in DOMAIN tree : tree[p] = tree[q] => p = q
  BY <1>1, TreeInjective
<1> QED BY <1>1, <1>2, <1>3 DEF CacheSound, Rooted, Encodes

\* A new pool and an empty cache hold nothing.
LEMMA InitContent == KVInit => Content
BY DEF KVInit, Content, Holds, OwnPlaces, Rooted, Encodes

\* A step that only drops references keeps the content of every block somebody still names:
\* release(), evict() and reset() free no block that is read.
LEMMA DropContent ==
  ASSUME KVInv, KVInv', Content, data' = Forget(data), open' \subseteq open,
         \A t \in open' : table'[t] = table[t] /\ text'[t] = text[t],
         \A q \in DOMAIN tree' : q \in DOMAIN tree /\ tree'[q] = tree[q]
  PROVE  Holds' /\ OwnPlaces' /\ Encodes'
<1>1. Counted'
  BY NamedIsCounted, PTL
<1>2. \A b \in Blocks : ref'[b] # 0 => data'[b] = data[b]
  BY DEF Forget
<1>3. KVTypeOK /\ KVTypeOK'
  BY DEF KVInv
<1>4. Holds'
  <2> SUFFICES ASSUME NEW t \in open', NEW i \in 1..Len(table'[t]), NEW j \in 1..BlockSize,
                      At(i, j) <= Len(text'[t])
               PROVE  data'[table'[t][i]][j] = SubSeq(text'[t], 1, At(i, j))
    BY DEF Holds, At
  <2>1. t \in open /\ t \in Seqs /\ table'[t] = table[t] /\ text'[t] = text[t]
        /\ table'[t][i] \in Blocks
    BY <1>3 DEF KVTypeOK
  <2>2. ref'[table'[t][i]] # 0
    BY <1>1, <2>1 DEF Counted
  <2>3. data[table[t][i]][j] = SubSeq(text[t], 1, At(i, j))
    BY <2>1 DEF Content, Holds
  <2> QED BY <1>2, <2>1, <2>2, <2>3
<1>5. OwnPlaces'
  BY DEF Content, OwnPlaces
<1>6. Encodes'
  <2> SUFFICES ASSUME NEW p \in DOMAIN tree', NEW j \in 1..BlockSize
               PROVE  data'[tree'[p]][j] = SubSeq(p, 1, Len(p) - BlockSize + j)
    BY DEF Encodes
  <2>1. p \in DOMAIN tree /\ tree'[p] = tree[p] /\ tree'[p] \in Blocks
    BY <1>3 DEF KVTypeOK
  <2>2. ref'[tree'[p]] # 0
    BY <1>1, <2>1 DEF Counted
  <2>3. data[tree[p]][j] = SubSeq(p, 1, Len(p) - BlockSize + j)
    BY <2>1 DEF Content, Encodes
  <2> QED BY <1>2, <2>1, <2>2, <2>3
<1> QED BY <1>4, <1>5, <1>6

\* release() leaves every other reader and the cache their content.
LEMMA ReleaseContent ==
  ASSUME KVInv, KVInv', Content, NEW s \in Seqs, Release(s)
  PROVE  Content'
<1>1. /\ open' = open \ {s} /\ data' = Forget(data) /\ tree' = tree
      /\ \A t \in Seqs \ {s} : table'[t] = table[t] /\ text'[t] = text[t]
  BY DEF Release, KVInv, KVTypeOK
<1>2. \A t \in open' : table'[t] = table[t] /\ text'[t] = text[t]
  BY <1>1 DEF KVInv, KVTypeOK
<1>3. Holds' /\ OwnPlaces' /\ Encodes'
  BY <1>1, <1>2, DropContent
<1>4. Rooted'
  BY <1>1 DEF Content, Rooted
<1> QED BY <1>3, <1>4 DEF Content

\* reset() empties the cache; what sequences adopted from it stays.
LEMMA ResetContent ==
  ASSUME KVInv, KVInv', Content, Reset
  PROVE  Content'
<1>1. /\ open' = open /\ data' = Forget(data) /\ DOMAIN tree' = {}
      /\ table' = table /\ text' = text
  BY DEF Reset
<1>2. Holds' /\ OwnPlaces' /\ Encodes'
  BY <1>1, DropContent
<1>3. Rooted'
  BY <1>1 DEF Rooted
<1> QED BY <1>2, <1>3 DEF Content

\* evict() takes a leaf, so no cached path loses one of its prefixes.
LEMMA EvictOneContent ==
  ASSUME KVInv, KVInv', Content, EvictOne
  PROVE  Content'
<1>1. PICK v \in LRU : tree' = [q \in DOMAIN tree \ {v} |-> tree[q]]
  BY DEF EvictOne
<1>2. open' = open /\ data' = Forget(data) /\ table' = table /\ text' = text
  BY DEF EvictOne
<1>3. Holds' /\ OwnPlaces' /\ Encodes'
  BY <1>1, <1>2, DropContent
<1>4. Rooted'
  <2> SUFFICES ASSUME NEW p \in DOMAIN tree \ {v}, NEW i \in 1..(Len(p) \div BlockSize),
                      Path(p, i) = v
               PROVE  FALSE
    BY <1>1 DEF Content, Rooted, Path
  <2>1. v \in Evictable /\ p # v
    BY DEF LRU
  <2>2. \E c \in DOMAIN tree : IsChild(c, Path(p, i))
    BY <2>1, InnerHasChild DEF KVInv, Content
  <2> QED BY <2>1, <2>2 DEF Evictable
<1> QED BY <1>3, <1>4 DEF Content

\* Dropping rejected positions keeps the prefix that is left.
LEMMA RollbackContent ==
  ASSUME KVInv, Content, NEW s \in Seqs, NEW n \in Nat, Rollback(s, n)
  PROVE  Content'
<1>1. /\ s \in open /\ n \in 0..Len(text[s])
      /\ text'[s] = SubSeq(text[s], 1, n) /\ \A t \in Seqs \ {s} : text'[t] = text[t]
      /\ open' = open /\ table' = table /\ data' = data /\ tree' = tree
      /\ text[s] \in Fed
  BY DEF Rollback, KVInv, KVTypeOK, Fed
<1>2. Holds'
  <2> SUFFICES ASSUME NEW t \in open, NEW i \in 1..Len(table[t]), NEW j \in 1..BlockSize,
                      At(i, j) <= Len(text'[t])
               PROVE  data[table[t][i]][j] = SubSeq(text'[t], 1, At(i, j))
    BY <1>1 DEF Holds, At
  <2>0. t \in Seqs /\ table[t] \in Seq(Blocks) /\ i \in Nat \ {0}
    BY DEF KVInv, KVTypeOK
  <2>1. At(i, j) \in Nat \ {0}
    BY <2>0, AtIndex
  <2>2. CASE t = s
    <3>1. /\ Len(text'[s]) = n /\ Len(text[s]) \in Nat
          /\ \A a \in 0..n : SubSeq(text'[s], 1, a) = SubSeq(text[s], 1, a)
      BY <1>1, Prefixes DEF Fed
    <3>2. At(i, j) \in 0..n /\ At(i, j) <= Len(text[s])
      BY <1>1, <2>1, <2>2, <3>1
    <3> QED BY <2>2, <3>1, <3>2 DEF Content, Holds
  <2>3. CASE t # s
    <3>1. text'[t] = text[t]
      BY <1>1, <2>0, <2>3
    <3> QED BY <3>1 DEF Content, Holds
  <2> QED BY <2>2, <2>3
<1>3. OwnPlaces' /\ Rooted' /\ Encodes'
  BY <1>1 DEF Content, OwnPlaces, Rooted, Encodes
<1> QED BY <1>2, <1>3 DEF Content

\* match() adopts whole blocks and never the last token of the prompt.
LEMMA MatchBounds ==
  ASSUME NEW prompt \in Prompts, NEW k, MatchIs(prompt, k)
  PROVE  /\ prompt \in Fed /\ prompt \in Seq(Tokens) /\ Len(prompt) \in Nat
         /\ k \in Nat /\ k <= Len(prompt) \div BlockSize
         /\ k * BlockSize \in 0..(Len(prompt) - 1)
<1>1. /\ prompt \in Fed /\ prompt \in Seq(Tokens) /\ Len(prompt) \in Nat /\ Len(prompt) # 0
      /\ BlockSize \in Nat \ {0} /\ Caching \in BOOLEAN
  BY KVAssumption DEF Fed
<1>2. CASE Caching
  <2>1. Len(prompt) - 1 \in Nat /\ (Len(prompt) - 1) \div BlockSize \in Nat
    BY <1>1
  <2>2. k \in Nat /\ k <= (Len(prompt) - 1) \div BlockSize
    BY <1>2, <2>1 DEF MatchIs, Usable
  <2>3. k * BlockSize <= Len(prompt) - 1 /\ k * BlockSize \in Nat
    BY <2>1, <2>2, DivLe
  <2>4. (Len(prompt) - 1) \div BlockSize <= Len(prompt) \div BlockSize
        /\ Len(prompt) \div BlockSize \in Nat
    BY <1>1
  <2> QED BY <1>1, <2>1, <2>2, <2>3, <2>4
<1>3. CASE ~Caching
  <2>1. k = 0
    BY <1>3 DEF MatchIs, Usable
  <2>2. 0 * BlockSize = 0 /\ 0 <= Len(prompt) \div BlockSize
    BY <1>1
  <2> QED BY <1>1, <2>1, <2>2
<1> QED BY <1>2, <1>3

\* What match() adopts encodes the prompt: each adopted block is the block of a prefix of it.
LEMMA OpenContent ==
  ASSUME KVInv, Content, NEW s \in Seqs, NEW prompt \in Prompts, Open(s, prompt)
  PROVE  Content'
<1>1. PICK k \in 0..Len(prompt) :
        /\ MatchIs(prompt, k)
        /\ table' = [table EXCEPT ![s] = [i \in 1..k |-> tree[Path(prompt, i)]]]
        /\ text' = [text EXCEPT ![s] = SubSeq(prompt, 1, k * BlockSize)]
  BY DEF Open
<1> DEFINE hit == [i \in 1..k |-> tree[Path(prompt, i)]]
<1>2. open' = open \cup {s} /\ s \notin open /\ data' = data /\ tree' = tree
  BY DEF Open
<1>3. KVTypeOK /\ Holds /\ OwnPlaces /\ Rooted /\ Encodes
  BY DEF KVInv, Content
<1>4. /\ prompt \in Fed /\ Len(prompt) \in Nat
      /\ k \in Nat /\ k <= Len(prompt) \div BlockSize /\ k * BlockSize \in 0..Len(prompt)
      /\ \A i \in 1..k : Path(prompt, i) \in DOMAIN tree
  <2>1. \A i \in 1..k : Path(prompt, i) \in DOMAIN tree
    BY <1>1 DEF MatchIs
  <2>2. /\ prompt \in Fed /\ Len(prompt) \in Nat /\ k \in Nat
        /\ k <= Len(prompt) \div BlockSize /\ k * BlockSize \in 0..(Len(prompt) - 1)
    BY <1>1, MatchBounds
  <2> QED BY <2>1, <2>2
<1>5. /\ table'[s] = hit /\ text'[s] = SubSeq(prompt, 1, k * BlockSize)
      /\ \A t \in open : t \in Seqs /\ t # s /\ table'[t] = table[t] /\ text'[t] = text[t]
  <2>1. \A t \in open : t \in Seqs /\ t # s
    BY <1>2, <1>3 DEF KVTypeOK
  <2>2. table'[s] = hit /\ text'[s] = SubSeq(prompt, 1, k * BlockSize)
    BY <1>1, <1>3 DEF KVTypeOK
  <2>3. \A t \in Seqs : t # s => table'[t] = table[t] /\ text'[t] = text[t]
    BY <1>1, <1>3 DEF KVTypeOK
  <2> QED BY <2>1, <2>2, <2>3
<1>6. ASSUME NEW i \in 1..k
      PROVE  /\ i \in Nat \ {0} /\ i <= Len(prompt) \div BlockSize
             /\ Path(prompt, i) \in DOMAIN tree /\ hit[i] = tree[Path(prompt, i)]
             /\ Len(Path(prompt, i)) = i * BlockSize /\ i * BlockSize <= k * BlockSize
  <2>1. i \in Nat \ {0} /\ i <= k /\ k \in Nat /\ Len(prompt) \div BlockSize \in Nat
    BY <1>4, BlocksForType
  <2>2. i <= Len(prompt) \div BlockSize
    BY <1>4, <2>1
  <2>3. i * BlockSize <= k * BlockSize
    BY <2>1, KVAssumption
  <2>4. Len(Path(prompt, i)) = i * BlockSize
    BY <1>4, <2>1, <2>2, Paths
  <2> QED BY <1>4, <2>1, <2>2, <2>3, <2>4
<1>7. Len(hit) = k
  <2>1. hit \in [1..k -> Blocks]
    BY <1>4, <1>3 DEF KVTypeOK
  <2> HIDE DEF hit
  <2> QED BY <2>1, <1>4, FunIsSeq
<1> HIDE DEF hit
<1>8. Holds'
  <2> SUFFICES ASSUME NEW t \in open', NEW i \in 1..Len(table'[t]), NEW j \in 1..BlockSize,
                      At(i, j) <= Len(text'[t])
               PROVE  data[table'[t][i]][j] = SubSeq(text'[t], 1, At(i, j))
    BY <1>2 DEF Holds, At
  <2>1. CASE t = s
    <3>1. i \in 1..k /\ i \in Nat \ {0} /\ i <= Len(prompt) \div BlockSize
      BY <1>5, <1>6, <1>7, <2>1
    <3> DEFINE p == Path(prompt, i)
    <3>2. data[tree[p]][j] = SubSeq(p, 1, Len(p) - BlockSize + j)
      BY <1>3, <1>6, <3>1 DEF Encodes
    <3>3. /\ At(i, j) \in 1..(i * BlockSize) /\ At(i, j) = Len(p) - BlockSize + j
          /\ SubSeq(p, 1, At(i, j)) = SubSeq(prompt, 1, At(i, j))
      BY <1>4, <3>1, Paths
    <3>4. /\ Len(text'[s]) = k * BlockSize
          /\ \A a \in 0..(k * BlockSize) : SubSeq(text'[s], 1, a) = SubSeq(prompt, 1, a)
      BY <1>4, <1>5, Prefixes DEF Fed
    <3>5. At(i, j) \in 0..(k * BlockSize)
      <4>1. i * BlockSize <= k * BlockSize /\ i * BlockSize \in Nat /\ k * BlockSize \in Nat
        BY <1>4, <1>6, <3>1, KVAssumption
      <4> QED BY <3>3, <4>1
    <3>6. table'[t][i] = tree[p]
      BY <1>5, <1>6, <2>1, <3>1
    <3> HIDE DEF p
    <3> QED BY <2>1, <3>2, <3>3, <3>4, <3>5, <3>6
  <2>2. CASE t # s
    <3>1. t \in open /\ table'[t] = table[t] /\ text'[t] = text[t]
      BY <1>2, <1>5, <2>2
    <3> QED BY <1>3, <3>1 DEF Holds
  <2> QED BY <2>1, <2>2
<1>9. OwnPlaces'
  <2> SUFFICES ASSUME NEW t \in open', NEW i \in 1..Len(table'[t]), NEW j \in 1..Len(table'[t]),
                      table'[t][i] = table'[t][j]
               PROVE  i = j
    BY DEF OwnPlaces
  <2>1. CASE t = s
    <3>1. i \in 1..k /\ j \in 1..k
      BY <1>5, <1>7, <2>1
    <3>2. tree[Path(prompt, i)] = tree[Path(prompt, j)]
      BY <1>5, <1>6, <2>1, <3>1
    <3>3. Path(prompt, i) = Path(prompt, j)
      BY <1>3, <1>6, <3>1, <3>2, TreeInjective
    <3>4. i * BlockSize = j * BlockSize
      BY <1>6, <3>1, <3>3
    <3>5. i \in Nat /\ j \in Nat
      BY <3>1
    <3> QED BY <3>4, <3>5, KVAssumption, BlocksForFull
  <2>2. CASE t # s
    <3>1. t \in open /\ table'[t] = table[t]
      BY <1>2, <1>5, <2>2
    <3> QED BY <1>3, <3>1 DEF OwnPlaces
  <2> QED BY <2>1, <2>2
<1>10. Rooted' /\ Encodes'
  BY <1>2, <1>3 DEF Rooted, Encodes
<1> QED BY <1>8, <1>9, <1>10 DEF Content

\* What insert() adds encodes the path it is filed under, and its prefixes are cached with it.
LEMMA PublishContent ==
  ASSUME KVInv, Content, NEW s \in Seqs, Publish(s, text[s])
  PROVE  Content'
<1> DEFINE k == Min2(FullBlocks(s), Len(text[s]) \div BlockSize)
           walked == {Path(text[s], i) : i \in 1..k}
           added == walked \ DOMAIN tree
           BlockOf(p) == table[s][Len(p) \div BlockSize]
<1>1. /\ s \in open
      /\ tree' = [p \in DOMAIN tree \cup walked |->
                    IF p \in added THEN BlockOf(p) ELSE tree[p]]
      /\ UNCHANGED <<free, open, table, text, data>>
  BY DEF Publish
<1>2. KVTypeOK /\ Holds /\ OwnPlaces /\ Rooted /\ Encodes /\ TablesCover
  BY DEF KVInv, Content
<1>3. /\ text[s] \in Fed /\ Len(text[s]) \in Nat
      /\ k = Len(text[s]) \div BlockSize /\ k \in Nat
      /\ k <= Len(table[s]) /\ Len(table[s]) \in Nat
  <2>1. text[s] \in Fed /\ Len(text[s]) \in Nat /\ Len(table[s]) \in Nat
    BY <1>2 DEF KVTypeOK, Fed
  <2>2. /\ Len(text[s]) \div BlockSize \in Nat
        /\ Len(text[s]) \div BlockSize <= BlocksFor(Len(text[s]))
        /\ BlocksFor(Len(text[s])) \in Nat
    BY <2>1, BlocksForType
  <2>3. k = Len(text[s]) \div BlockSize
    BY <2>2 DEF Min2, FullBlocks
  <2>4. BlocksFor(Len(text[s])) <= Len(table[s])
    BY <1>2 DEF TablesCover
  <2> HIDE DEF k
  <2> QED BY <2>1, <2>2, <2>3, <2>4
<1> HIDE DEF k
<1>4. ASSUME NEW i \in 1..k
      PROVE  /\ i \in Nat \ {0} /\ i <= Len(text[s]) \div BlockSize /\ i \in 1..Len(table[s])
             /\ Len(Path(text[s], i)) > 0
             /\ Len(Path(text[s], i)) % BlockSize = 0
             /\ Len(Path(text[s], i)) \div BlockSize = i
             /\ \A h \in 1..i : Path(Path(text[s], i), h) = Path(text[s], h)
             /\ \A j \in 1..BlockSize :
                  data[table[s][i]][j] =
                    SubSeq(Path(text[s], i), 1, Len(Path(text[s], i)) - BlockSize + j)
  <2>1. i \in Nat \ {0} /\ i <= Len(text[s]) \div BlockSize /\ i \in 1..Len(table[s])
    BY <1>3
  <2>2. /\ Len(Path(text[s], i)) > 0 /\ Len(Path(text[s], i)) % BlockSize = 0
        /\ Len(Path(text[s], i)) \div BlockSize = i
        /\ \A h \in 1..i : Path(Path(text[s], i), h) = Path(text[s], h)
        /\ i * BlockSize \in 0..Len(text[s])
    BY <1>3, <2>1, Paths
  <2>3. ASSUME NEW j \in 1..BlockSize
        PROVE  data[table[s][i]][j] =
                 SubSeq(Path(text[s], i), 1, Len(Path(text[s], i)) - BlockSize + j)
    <3>1. /\ At(i, j) \in 1..(i * BlockSize)
          /\ At(i, j) = Len(Path(text[s], i)) - BlockSize + j
          /\ SubSeq(Path(text[s], i), 1, At(i, j)) = SubSeq(text[s], 1, At(i, j))
      BY <1>3, <2>1, Paths
    <3>2. At(i, j) <= Len(text[s])
      BY <1>3, <2>2, <3>1
    <3>3. data[table[s][i]][j] = SubSeq(text[s], 1, At(i, j))
      BY <1>1, <1>2, <2>1, <3>2 DEF Holds
    <3> QED BY <3>1, <3>3
  <2> QED BY <2>1, <2>2, <2>3
<1>5. /\ DOMAIN tree' = DOMAIN tree \cup walked
      /\ \A p \in DOMAIN tree : tree'[p] = tree[p]
      /\ \A p \in added : tree'[p] = BlockOf(p)
  <2> HIDE DEF BlockOf
  <2> QED BY <1>1
<1>6. Rooted'
  <2> SUFFICES ASSUME NEW p \in DOMAIN tree'
               PROVE  /\ Len(p) > 0 /\ Len(p) % BlockSize = 0
                      /\ \A i \in 1..(Len(p) \div BlockSize) : Path(p, i) \in DOMAIN tree'
    BY DEF Rooted, Path
  <2>1. CASE p \in DOMAIN tree
    BY <1>2, <1>5, <2>1 DEF Rooted
  <2>2. CASE p \in walked
    <3>1. PICK i \in 1..k : p = Path(text[s], i)
      BY <2>2
    <3>2. \A h \in 1..i : Path(p, h) = Path(text[s], h) /\ h \in 1..k
      BY <1>3, <1>4, <3>1
    <3> QED BY <1>4, <1>5, <3>1, <3>2
  <2> QED BY <1>5, <2>1, <2>2
<1>7. Encodes'
  <2> SUFFICES ASSUME NEW p \in DOMAIN tree', NEW j \in 1..BlockSize
               PROVE  data[tree'[p]][j] = SubSeq(p, 1, Len(p) - BlockSize + j)
    BY <1>1 DEF Encodes
  <2>1. CASE p \in DOMAIN tree
    BY <1>2, <1>5, <2>1 DEF Encodes
  <2>2. CASE p \in added
    <3>1. PICK i \in 1..k : p = Path(text[s], i)
      BY <2>2
    <3>2. tree'[p] = table[s][i]
      BY <1>4, <1>5, <2>2, <3>1
    <3> QED BY <1>4, <3>1, <3>2
  <2> QED BY <1>5, <2>1, <2>2
<1>8. Holds' /\ OwnPlaces'
  <2>1. Holds'
    BY <1>1, <1>2, SMTT(30) DEF Holds
  <2>2. OwnPlaces'
    BY <1>1, <1>2, SMTT(30) DEF OwnPlaces
  <2> QED BY <2>1, <2>2
<1> QED BY <1>6, <1>7, <1>8 DEF Content

\* A pass that starts where the KV ends appends its tokens.
LEMMA FedAppends ==
  ASSUME KVTypeOK, NEW s \in Seqs, NEW toks \in Seq(Tokens)
  PROVE  LET start == Len(text[s])
             fed == [p \in 1..start |-> IF p <= Len(text[s]) THEN text[s][p] ELSE Unwritten] \o toks
         IN  /\ fed = text[s] \o toks /\ fed \in Fed /\ Len(fed) = start + Len(toks)
             /\ start \in Nat /\ Len(toks) \in Nat
             /\ \A a \in 0..start : SubSeq(fed, 1, a) = SubSeq(text[s], 1, a)
<1> DEFINE start == Len(text[s])
           old == [p \in 1..start |-> IF p <= Len(text[s]) THEN text[s][p] ELSE Unwritten]
<1>1. text[s] \in Fed /\ start \in Nat /\ Len(toks) \in Nat /\ toks \in Fed
  BY DEF KVTypeOK, Fed
<1>2. old = text[s]
  BY <1>1, SMTT(30) DEF Fed
<1>3. /\ text[s] \o toks \in Fed /\ Len(text[s] \o toks) = start + Len(toks)
      /\ \A i \in 1..start : (text[s] \o toks)[i] = text[s][i]
  <2>1. /\ text[s] \o toks \in Fed /\ Len(text[s] \o toks) = start + Len(toks)
        /\ \A i \in 1..(start + Len(toks)) : (text[s] \o toks)[i] =
              IF i <= start THEN text[s][i] ELSE toks[i - start]
    BY <1>1, ConcatProperties DEF Fed
  <2> HIDE DEF start
  <2>2. \A i \in 1..start : i \in 1..(start + Len(toks)) /\ i <= start
    BY <1>1
  <2> QED BY <2>1, <2>2
<1>4. ASSUME NEW a \in 0..start
      PROVE  SubSeq(text[s] \o toks, 1, a) = SubSeq(text[s], 1, a)
  <2>1. a \in Nat /\ \A i \in 1..a : (text[s] \o toks)[i] = text[s][i]
    BY <1>1, <1>3
  <2> QED BY <2>1, SamePrefix
<1> HIDE DEF start, old
<1> QED BY <1>1, <1>2, <1>3, <1>4 DEF start, old

\* A forward pass writes only what its own sequence reads: the cache and the other sequences
\* keep their content, because every shared block it touches is copied first.
LEMMA WriteContent ==
  ASSUME KVInv, KVInv', Content, NEW s \in Seqs, NEW toks \in Seq(Tokens),
         Write(s, Len(text[s]), toks)
  PROVE  Content'
<1> DEFINE start == Len(text[s])
           n == Len(toks)
           m == Len(table[s])
           B == BlocksFor(start + n)
           M == Max2(m, B)
           grow == Missing(s, start + n)
           shared == {i \in DOMAIN table[s] :
                        i \in IndexOf(start + 1)..IndexOf(start + n) /\ Shared(table[s][i])}
           copies == {i \in shared : Cardinality({j \in shared : j <= i})
                                       <= NumFree - Cardinality(grow)}
           fresh == Fresh(grow \cup copies)
           blocks == [i \in 1..M |-> IF i \in grow \cup copies THEN fresh[i] ELSE table[s][i]]
           fed == [p \in 1..start |-> IF p <= Len(text[s]) THEN text[s][p] ELSE Unwritten] \o toks
           written == {p \in (start + 1)..(start + n) :
                         \A i \in shared \ copies : IndexOf(p) < i}
           stored == [i \in DOMAIN blocks |-> [j \in 1..BlockSize |->
                        LET p == (i - 1) * BlockSize + j
                        IN  IF p \in written THEN SubSeq(fed, 1, p)
                            ELSE data[IF i \in copies THEN table[s][i] ELSE blocks[i]][j]]]
<1>1. /\ s \in open /\ Cardinality(grow) <= NumFree
      /\ table' = [table EXCEPT ![s] = blocks]
      /\ data' = [b \in Blocks |->
                    IF b \in Image(blocks) THEN stored[CHOOSE i \in DOMAIN blocks : blocks[i] = b]
                    ELSE data[b]]
      /\ text' = IF copies = shared THEN [text EXCEPT ![s] = fed] ELSE text
      /\ open' = open /\ tree' = tree
  BY DEF Write
<1>2. KVTypeOK /\ RefAccounting /\ TablesCover /\ Counted /\ Holds /\ OwnPlaces /\ Rooted /\ Encodes
  BY NamedIsCounted DEF KVInv, Content
<1>3. /\ fed \in Fed /\ Len(fed) = start + n /\ start \in Nat /\ n \in Nat
      /\ \A a \in 0..start : SubSeq(fed, 1, a) = SubSeq(text[s], 1, a)
  BY <1>2, FedAppends
<1>4. /\ m \in Nat /\ B \in Nat /\ M \in Nat /\ m <= M /\ B <= M
      /\ DOMAIN table[s] = 1..m
      /\ grow = (m + 1)..B /\ copies \subseteq shared /\ shared \subseteq 1..m
      /\ 1..M = (1..m) \cup grow
      /\ fresh \in [grow \cup copies -> free]
      /\ \A i, j \in grow \cup copies : fresh[i] = fresh[j] => i = j
  BY <1>1, <1>3, WriteFresh, ZenonT(30)
<1>5. /\ DOMAIN blocks = 1..M
      /\ \A i \in grow \cup copies : i \in 1..M /\ blocks[i] = fresh[i] /\ blocks[i] \in free
      /\ \A i \in (1..M) \ (grow \cup copies) : i \in 1..m /\ blocks[i] = table[s][i]
      /\ \A i \in copies : i \in 1..m
  <2>1. \A i \in grow \cup copies : i \in 1..M
    <3> HIDE DEF grow, copies, shared, m, M
    <3> QED BY <1>4
  <2> HIDE DEF grow, copies, shared, fresh, m, M
  <2> QED BY <1>4, <2>1
<1>6. \A i \in 1..m : table[s][i] \in Blocks /\ ref[table[s][i]] # 0 /\ table[s][i] \notin free
  <2>1. \A i \in 1..m : table[s][i] \in Blocks
    <3>1. table[s] \in Seq(Blocks)
      BY <1>2 DEF KVTypeOK
    <3> HIDE DEF m
    <3> QED BY <1>4, <3>1
  <2> QED BY <1>2, <2>1 DEF Counted, RefAccounting
<1>7. ASSUME NEW i \in 1..M, NEW j \in 1..M, blocks[i] = blocks[j] PROVE i = j
  <2>1. CASE i \in grow \cup copies /\ j \in grow \cup copies
    <3> HIDE DEF blocks, grow, copies, fresh, M, m
    <3> QED BY <1>4, <1>5, <1>7, <2>1
  <2>2. CASE i \notin grow \cup copies /\ j \notin grow \cup copies
    <3>1. i \in 1..m /\ j \in 1..m /\ table[s][i] = table[s][j]
      <4> HIDE DEF blocks, grow, copies, fresh, M, m
      <4> QED BY <1>5, <1>7, <2>2
    <3> QED BY <1>1, <1>2, <3>1 DEF OwnPlaces
  <2>3. CASE i \in grow \cup copies /\ j \notin grow \cup copies
    <3> HIDE DEF blocks, grow, copies, fresh, M, m
    <3> QED BY <1>5, <1>6, <1>7, <2>3
  <2>4. CASE i \notin grow \cup copies /\ j \in grow \cup copies
    <3> HIDE DEF blocks, grow, copies, fresh, M, m
    <3> QED BY <1>5, <1>6, <1>7, <2>4
  <2> QED BY <2>1, <2>2, <2>3, <2>4
<1>8. \A i \in 1..M : blocks[i] \in Blocks
  <2> HIDE DEF blocks, grow, copies, fresh, M, m
  <2>1. free \subseteq Blocks
    BY <1>2 DEF KVTypeOK
  <2> QED BY <1>5, <1>6, <2>1
<1>9. ASSUME NEW i \in 1..M, NEW j \in 1..BlockSize
      PROVE  data'[blocks[i]][j] =
               IF At(i, j) \in written THEN SubSeq(fed, 1, At(i, j))
               ELSE data[IF i \in copies THEN table[s][i] ELSE blocks[i]][j]
  <2>1. (CHOOSE h \in DOMAIN blocks : blocks[h] = blocks[i]) = i
    <3> HIDE DEF blocks, M
    <3> QED BY <1>5, <1>7
  <2>2. blocks[i] \in Image(blocks) /\ blocks[i] \in Blocks
    <3> HIDE DEF blocks, M
    <3> QED BY <1>5, <1>8 DEF Image
  <2>3. data'[blocks[i]] = stored[i]
    <3> HIDE DEF blocks, stored, M
    <3> QED BY <1>1, <2>1, <2>2
  <2>4. i \in DOMAIN blocks
    BY <1>5
  <2>5. stored[i][j] =
               IF At(i, j) \in written THEN SubSeq(fed, 1, At(i, j))
               ELSE data[IF i \in copies THEN table[s][i] ELSE blocks[i]][j]
    <3> HIDE DEF blocks, written, fed, copies
    <3> QED BY <2>4 DEF At
  <2> HIDE DEF stored, blocks, written, fed, copies
  <2> QED BY <2>3, <2>5
<1>10. ASSUME NEW b \in Blocks, NEW j \in 1..BlockSize,
              \/ \E t \in Seqs \ {s} : \E h \in 1..Len(table[t]) : table[t][h] = b
              \/ \E p \in DOMAIN tree : tree[p] = b
       PROVE  data'[b][j] = data[b][j]
  <2>1. CASE b \notin Image(blocks)
    <3> HIDE DEF blocks, stored
    <3> QED BY <1>1, <2>1
  <2>2. CASE b \in Image(blocks)
    <3>1. PICK i \in 1..M : blocks[i] = b
      <4> HIDE DEF blocks, M
      <4> QED BY <1>5, <2>2 DEF Image
    <3>2. ref[b] # 0 /\ b \notin free
      BY <1>2, <1>10 DEF Counted, RefAccounting
    <3>3. i \notin grow \cup copies
      <4> HIDE DEF blocks, grow, copies
      <4> QED BY <1>5, <3>1, <3>2
    <3>4. i \in 1..m /\ table[s][i] = b
      <4> HIDE DEF blocks, grow, copies, m, M
      <4> QED BY <1>5, <3>1, <3>3
    <3>5. Shared(b)
      <4>1. \A t \in Seqs \ {s} : \A h \in 1..Len(table[t]) : <<s, i>> # <<t, h>>
        OBVIOUS
      <4> QED BY <1>2, <1>10, <3>4, <4>1 DEF Counted
    <3>6. At(i, j) \notin written
      <4> SUFFICES ASSUME At(i, j) \in written PROVE FALSE
        OBVIOUS
      <4>1. i \in Nat \ {0} /\ At(i, j) \in Nat \ {0} /\ IndexOf(At(i, j)) = i
        <5>1. i \in Nat \ {0}
          <6> HIDE DEF M, m, copies, grow, shared
          <6> QED BY <1>4, <3>4
        <5> QED BY <5>1, AtIndex
      <4>2. At(i, j) \in (start + 1)..(start + n) /\ \A h \in shared \ copies : i < h
        <5> HIDE DEF shared, copies, start, n
        <5> QED BY <4>1
      <4>3. i \in IndexOf(start + 1)..IndexOf(start + n)
        <5>1. /\ start + 1 \in Nat \ {0} /\ start + n \in Nat \ {0}
              /\ start + 1 <= At(i, j) /\ At(i, j) <= start + n
          <6> HIDE DEF start, n
          <6> QED BY <1>3, <4>1, <4>2
        <5>2. IndexOf(start + 1) <= i /\ i <= IndexOf(start + n)
          <6> HIDE DEF start, n
          <6> QED BY <4>1, <5>1, IndexMonotonic
        <5>3. IndexOf(start + 1) \in Nat /\ IndexOf(start + n) \in Nat
          <6> HIDE DEF start, n
          <6> QED BY <5>1, IndexAt
        <5> HIDE DEF start, n
        <5> QED BY <4>1, <5>2, <5>3
      <4>4. i \in shared \ copies
        <5>1. i \in DOMAIN table[s] /\ Shared(table[s][i])
          BY <1>4, <3>4, <3>5
        <5>2. i \in shared
          <6> HIDE DEF start, n
          <6> QED BY <4>3, <5>1
        <5> HIDE DEF shared, copies
        <5> QED BY <3>3, <5>2
      <4> HIDE DEF shared, copies
      <4> QED BY <4>1, <4>2, <4>4
    <3>7. i \notin copies
      BY <3>3
    <3> HIDE DEF blocks, written, fed, copies, M
    <3> QED BY <1>9, <3>1, <3>6, <3>7
  <2> QED BY <2>1, <2>2
<1>11. /\ table'[s] = blocks /\ Len(blocks) = M
       /\ \A t \in Seqs \ {s} : table'[t] = table[t] /\ text'[t] = text[t]
       /\ text'[s] = text[s] \/ (text'[s] = fed /\ copies = shared)
  <2>1. blocks \in [1..M -> Blocks]
    <3> HIDE DEF grow, copies, fresh, m, M
    <3> QED BY <1>8
  <2>2. Len(blocks) = M
    <3> HIDE DEF blocks, M
    <3> QED BY <1>4, <2>1, FunIsSeq
  <2>3. table'[s] = blocks /\ \A t \in Seqs \ {s} : table'[t] = table[t]
    <3> HIDE DEF blocks
    <3> QED BY <1>1, <1>2 DEF KVTypeOK
  <2>4. /\ \A t \in Seqs \ {s} : text'[t] = text[t]
        /\ text'[s] = text[s] \/ (text'[s] = fed /\ copies = shared)
    <3> HIDE DEF fed, copies, shared
    <3> QED BY <1>1, <1>2 DEF KVTypeOK
  <2> HIDE DEF blocks, fed, copies, shared, M
  <2> QED BY <2>2, <2>3, <2>4
<1>12. Holds'
  <2> SUFFICES ASSUME NEW t \in open, NEW i \in 1..Len(table'[t]), NEW j \in 1..BlockSize,
                      At(i, j) <= Len(text'[t])
               PROVE  data'[table'[t][i]][j] = SubSeq(text'[t], 1, At(i, j))
    BY <1>1 DEF Holds, At
  <2>1. t \in Seqs /\ table'[t] \in Seq(Blocks) /\ i \in Nat \ {0} /\ table'[t][i] \in Blocks
    <3>1. t \in Seqs
      BY <1>2 DEF KVTypeOK
    <3>2. table'[t] \in Seq(Blocks)
      BY <1>2, <3>1 DEF KVTypeOK, KVInv
    <3> QED BY <3>1, <3>2
  <2>2. CASE t # s
    <3>1. table'[t] = table[t] /\ text'[t] = text[t]
      BY <1>11, <2>1, <2>2
    <3>2. data'[table[t][i]][j] = data[table[t][i]][j]
      <4> HIDE DEF blocks, written, fed, copies, shared, stored, start, n, m, M, B, grow, fresh
      <4> QED BY <1>10, <2>1, <2>2, <3>1
    <3>3. data[table[t][i]][j] = SubSeq(text[t], 1, At(i, j))
      BY <1>2, <3>1 DEF Holds
    <3> QED BY <3>1, <3>2, <3>3
  <2>3. CASE t = s
    <3>1. i \in 1..M /\ At(i, j) \in Nat \ {0}
      <4>1. At(i, j) \in Nat \ {0}
        BY <2>1, AtIndex
      <4> HIDE DEF blocks, M
      <4> QED BY <1>11, <2>3, <4>1
    <3>2. CASE At(i, j) <= start
      <4>1. At(i, j) \notin written
        <5> HIDE DEF start, n, shared, copies
        <5> QED BY <1>3, <3>1, <3>2
      <4>2. i \in 1..m /\ i \notin grow
        <5>1. i <= BlocksFor(start) /\ BlocksFor(start) \in Nat
          BY <1>3, <2>1, <3>2, AtCovered, BlocksForType
        <5>2. BlocksFor(start) <= m
          BY <1>2 DEF TablesCover
        <5> HIDE DEF start, m, B, n
        <5> QED BY <1>4, <2>1, <5>1, <5>2
      <4>3. (IF i \in copies THEN table[s][i] ELSE blocks[i]) = table[s][i]
        <5> HIDE DEF blocks, copies, grow, M, m
        <5> QED BY <1>5, <3>1, <4>2
      <4>4. data'[blocks[i]][j] = data[table[s][i]][j]
        <5> HIDE DEF blocks, copies, written, fed, M
        <5> QED BY <1>9, <3>1, <4>1, <4>3
      <4>5. data[table[s][i]][j] = SubSeq(text[s], 1, At(i, j))
        BY <1>1, <1>2, <3>2, <4>2 DEF Holds
      <4>6. SubSeq(text'[s], 1, At(i, j)) = SubSeq(text[s], 1, At(i, j))
        <5>1. At(i, j) \in 0..start
          <6> HIDE DEF start
          <6> QED BY <1>3, <3>1, <3>2
        <5>2. SubSeq(fed, 1, At(i, j)) = SubSeq(text[s], 1, At(i, j))
          <6> HIDE DEF fed, start
          <6> QED BY <1>3, <5>1
        <5>3. text'[s] = text[s] \/ text'[s] = fed
          <6> HIDE DEF fed, copies, shared
          <6> QED BY <1>11
        <5> HIDE DEF fed
        <5> QED BY <5>2, <5>3
      <4> HIDE DEF blocks
      <4> QED BY <1>11, <2>3, <4>4, <4>5, <4>6
    <3>3. CASE At(i, j) > start
      <4>1. text'[s] = fed /\ copies = shared
        <5>1. text'[s] # text[s]
          BY <2>1, <2>3, <3>1, <3>3, <1>3
        <5> HIDE DEF fed, copies, shared
        <5> QED BY <1>11, <5>1
      <4>2. At(i, j) \in written
        <5>1. At(i, j) <= start + n
          <6> HIDE DEF fed, copies, shared
          <6> QED BY <1>3, <2>3, <4>1
        <5> HIDE DEF start, n, shared, copies
        <5> QED BY <1>3, <3>1, <3>3, <4>1, <5>1
      <4>3. data'[blocks[i]][j] = SubSeq(fed, 1, At(i, j))
        <5> HIDE DEF blocks, copies, written, fed, M
        <5> QED BY <1>9, <3>1, <4>2
      <4> HIDE DEF blocks, fed, copies, shared
      <4> QED BY <1>11, <2>3, <4>1, <4>3
    <3> HIDE DEF blocks, written, fed, copies, shared, stored, m, M, B, grow, fresh
    <3> QED BY <1>3, <3>1, <3>2, <3>3
  <2> QED BY <2>2, <2>3
<1>13. OwnPlaces'
  <2> SUFFICES ASSUME NEW t \in open, NEW i \in 1..Len(table'[t]), NEW j \in 1..Len(table'[t]),
                      table'[t][i] = table'[t][j]
               PROVE  i = j
    BY <1>1 DEF OwnPlaces
  <2>1. CASE t = s
    <3> HIDE DEF blocks, M
    <3> QED BY <1>7, <1>11, <2>1
  <2>2. CASE t # s
    <3>1. t \in Seqs
      BY <1>2 DEF KVTypeOK
    <3>2. table'[t] = table[t]
      BY <1>11, <2>2, <3>1
    <3> QED BY <1>2, <3>2 DEF OwnPlaces
  <2> QED BY <2>1, <2>2
<1>14. Encodes'
  <2> SUFFICES ASSUME NEW p \in DOMAIN tree, NEW j \in 1..BlockSize
               PROVE  data'[tree[p]][j] = SubSeq(p, 1, Len(p) - BlockSize + j)
    BY <1>1 DEF Encodes
  <2>1. tree[p] \in Blocks
    BY <1>2 DEF KVTypeOK
  <2>2. data'[tree[p]][j] = data[tree[p]][j]
    <3> HIDE DEF blocks, written, fed, copies, shared, stored, start, n, m, M, B, grow, fresh
    <3> QED BY <1>10, <2>1
  <2> QED BY <1>2, <2>2 DEF Encodes
<1>15. Rooted'
  BY <1>1, <1>2 DEF Rooted
<1> QED BY <1>12, <1>13, <1>14, <1>15 DEF Content

\* Every step of the memory preserves what it holds, one case per client call.
LEMMA ContentStep == KVInv /\ KVInv' /\ Content /\ [KVNext]_kvvars => Content'
<1> SUFFICES ASSUME KVInv, KVInv', Content, [KVNext]_kvvars PROVE Content'
  OBVIOUS
<1>1. ASSUME NEW s \in Seqs, NEW p \in Prompts, Open(s, p) PROVE Content'
  BY <1>1, OpenContent
<1>2. ASSUME NEW s \in Seqs, NEW c \in Chunks, Write(s, Len(text[s]), c) PROVE Content'
  <2>1. c \in Seq(Tokens)
    BY KVAssumption
  <2> QED BY <1>2, <2>1, WriteContent
<1>3. ASSUME NEW s \in Seqs, NEW n \in 0..MaxLen, Rollback(s, n) PROVE Content'
  <2>1. n \in Nat
    BY KVAssumption
  <2> QED BY <1>3, <2>1, RollbackContent
<1>4. ASSUME NEW s \in Seqs, Release(s) PROVE Content'
  BY <1>4, ReleaseContent
<1>5. ASSUME NEW s \in Seqs, Publish(s, text[s]) PROVE Content'
  BY <1>5, PublishContent
<1>6. CASE EvictOne
  BY <1>6, EvictOneContent
<1>7. CASE Reset
  BY <1>7, ResetContent
<1>8. ASSUME UNCHANGED <<open, table, text, data, tree>> PROVE Content'
  BY <1>8 DEF Content, Holds, OwnPlaces, Rooted, Encodes
<1>9. ASSUME NEW n \in 1..MaxEvict, Evict(n) PROVE Content'
  BY <1>8, <1>9 DEF Evict
<1>10. CASE EvictNoMore
  BY <1>8, <1>10 DEF EvictNoMore
<1>11. CASE UNCHANGED kvvars
  BY <1>8, <1>11 DEF kvvars
<1> QED BY <1>1, <1>2, <1>3, <1>4, <1>5, <1>6, <1>7, <1>9, <1>10, <1>11 DEF KVNext

\* Content holds in every reachable state of the paged KV memory.
LEMMA ContentHolds == KVSpec => []Content
BY InitContent, ContentStep, KVInvHolds, PTL DEF KVSpec

\* Every cached path is reachable from the root, its block encodes exactly that path, and no
\* block stands for two paths: match() never hands out somebody else's keys and values, for
\* every pool, block size and order of calls (kv/radix_cache.py, kv/paged_cache.py).
THEOREM CacheSoundHolds == KVSpec => []CacheSound
BY KVInvHolds, ContentHolds, ContentIsSound, PTL

\* gather() of s reads the tokens s was fed.
LEMMA HoldsIsReadable ==
  ASSUME KVInv, Content, NEW s \in open
  PROVE  Gather(s) = text[s]
<1> DEFINE n == Len(text[s])
<1>1. /\ s \in Seqs /\ text[s] \in Fed /\ n \in Nat /\ table[s] \in Seq(Blocks)
      /\ BlocksFor(n) <= Len(table[s]) /\ Len(table[s]) \in Nat /\ BlocksFor(n) \in Nat
  <2>1. /\ s \in Seqs /\ text[s] \in Fed /\ n \in Nat /\ table[s] \in Seq(Blocks)
        /\ Len(table[s]) \in Nat
    BY DEF KVInv, KVTypeOK, Fed
  <2>2. BlocksFor(n) \in Nat
    BY <2>1, BlocksForType
  <2>3. BlocksFor(n) <= Len(table[s])
    BY <2>1 DEF KVInv, TablesCover
  <2> QED BY <2>1, <2>2, <2>3
<1>2. ASSUME NEW p \in 1..n PROVE Seen(s, p) = SubSeq(text[s], 1, p)
  <2>1. p \in Nat \ {0} /\ p <= n
    BY <1>1
  <2>2. /\ IndexOf(p) \in Nat \ {0} /\ SlotOf(p) \in 1..BlockSize
        /\ At(IndexOf(p), SlotOf(p)) = p
    BY <2>1, IndexAt
  <2>3. IndexOf(p) <= BlocksFor(n)
    BY <1>1, <2>1, <2>2, AtCovered
  <2>4. IndexOf(p) \in 1..Len(table[s])
    BY <1>1, <2>2, <2>3
  <2>5. data[table[s][IndexOf(p)]][SlotOf(p)] = SubSeq(text[s], 1, At(IndexOf(p), SlotOf(p)))
    BY <2>1, <2>2, <2>4 DEF Content, Holds
  <2> QED BY <2>2, <2>5 DEF Seen
<1>3. /\ SubSeq(text[s], 1, n) = text[s]
      /\ \A p \in 1..n : SubSeq(SubSeq(text[s], 1, n), 1, p) = SubSeq(text[s], 1, p)
  <2>1. SubSeq(text[s], 1, n) = text[s]
    BY <1>1, SubSeqFull DEF Fed
  <2> QED BY <2>1
<1>4. n = 0 => text[s] = <<>>
  BY <1>1, EmptySeq DEF Fed
<1>5. CASE n = 0
  BY <1>4, <1>5 DEF Gather
<1>6. CASE n # 0
  <2>1. n \in 1..n
    BY <1>1, <1>6
  <2>2. Seen(s, n) = text[s] /\ Len(Seen(s, n)) = n
    BY <1>2, <1>3, <2>1
  <2>3. \A p \in 1..n : Seen(s, p) = SubSeq(Seen(s, n), 1, p)
    BY <1>2, <2>2
  <2> QED BY <1>6, <2>2, <2>3 DEF Gather
<1> QED BY <1>5, <1>6

\* Sharing, copy-on-write and eviction are invisible: in every reachable state every sequence
\* reads back exactly the tokens it was fed (kv/paged_cache.py, gather()).
THEOREM ReadableHolds == KVSpec => []Readable
<1>1. KVInv /\ Content => Readable
  BY HoldsIsReadable DEF Readable
<1> QED BY <1>1, KVInvHolds, ContentHolds, PTL

-----------------------------------------------------------------------------
\* The abstract memory is what each sequence was fed.
LEMMA StoredText == KVInv /\ Content => [s \in Seqs |-> Gather(s)] = text
<1> SUFFICES ASSUME KVInv, Content PROVE [s \in Seqs |-> Gather(s)] = text
  OBVIOUS
<1>1. text \in [Seqs -> Fed]
  BY DEF KVInv, KVTypeOK
<1>2. ASSUME NEW s \in Seqs PROVE Gather(s) = text[s]
  <2>1. CASE s \in open
    BY <2>1, HoldsIsReadable
  <2>2. CASE s \notin open
    <3>1. text[s] = <<>>
      BY <2>2 DEF KVInv, KVTypeOK
    <3>2. Len(text[s]) = 0
      BY <3>1
    <3> QED BY <3>1, <3>2 DEF Gather
  <2> QED BY <2>1, <2>2
<1> QED BY <1>1, <1>2

\* A new pool implements an empty store.
LEMMA InitImplements == KVInit => Store!Init
<1> SUFFICES ASSUME KVInit PROVE Store!Init
  OBVIOUS
<1>1. [s \in Seqs |-> Gather(s)] = text
  BY InitInv, InitContent, StoredText
<1> QED BY <1>1 DEF Store!Init, KVInit

\* A step of the store on the memory of one sequence.
StoreStep(s) ==
  /\ \A t \in Seqs \ {s} : text'[t] = text[t]
  /\ \/ /\ text[s] = <<>>
        /\ \E p \in Prompts : \E k \in 0..(Len(p) - 1) : text'[s] = SubSeq(p, 1, k)
     \/ \E c \in Chunks : text'[s] = text[s] \o c
     \/ \E n \in 0..Len(text[s]) : text'[s] = SubSeq(text[s], 1, n)

\* Every call of a client is a step of the store on one sequence, or changes nothing it sees:
\* opening starts with part of a prompt, a pass appends or fails whole, rollback and release
\* cut; publishing, evicting and resetting are invisible.
LEMMA CallsAreStoreSteps ==
  ASSUME KVInv, [KVNext]_kvvars
  PROVE  (\E s \in Seqs : StoreStep(s)) \/ text' = text
<1>1. KVTypeOK
  BY DEF KVInv
<1>2. ASSUME NEW s \in Seqs, NEW p \in Prompts, Open(s, p) PROVE StoreStep(s)
  <2>1. PICK k \in 0..Len(p) :
          MatchIs(p, k) /\ text' = [text EXCEPT ![s] = SubSeq(p, 1, k * BlockSize)]
    BY <1>2 DEF Open
  <2>2. k * BlockSize \in 0..(Len(p) - 1)
    BY <2>1, MatchBounds
  <2>3. text[s] = <<>>
    BY <1>1, <1>2 DEF Open, KVTypeOK
  <2>4. text'[s] = SubSeq(p, 1, k * BlockSize) /\ \A t \in Seqs \ {s} : text'[t] = text[t]
    BY <1>1, <2>1 DEF KVTypeOK
  <2> QED BY <2>2, <2>3, <2>4 DEF StoreStep
<1>3. ASSUME NEW s \in Seqs, NEW c \in Chunks, Write(s, Len(text[s]), c)
      PROVE  StoreStep(s) \/ text' = text
  <2> DEFINE fed == [p \in 1..Len(text[s]) |->
                       IF p <= Len(text[s]) THEN text[s][p] ELSE Unwritten] \o c
  <2>1. text' = [text EXCEPT ![s] = fed] \/ text' = text
    BY <1>3 DEF Write
  <2>2. fed = text[s] \o c
    BY <1>1, KVAssumption, FedAppends
  <2> HIDE DEF fed
  <2>3. text' = [text EXCEPT ![s] = fed] =>
          text'[s] = text[s] \o c /\ \A t \in Seqs \ {s} : text'[t] = text[t]
    BY <1>1, <2>2 DEF KVTypeOK
  <2> QED BY <2>1, <2>3 DEF StoreStep
<1>4. ASSUME NEW s \in Seqs, NEW n \in 0..MaxLen, Rollback(s, n) PROVE StoreStep(s)
  <2>1. n \in 0..Len(text[s])
    BY <1>1, <1>4 DEF Rollback, KVTypeOK, Fed
  <2>2. text'[s] = SubSeq(text[s], 1, n) /\ \A t \in Seqs \ {s} : text'[t] = text[t]
    BY <1>1, <1>4 DEF Rollback, KVTypeOK
  <2> QED BY <2>1, <2>2 DEF StoreStep
<1>5. ASSUME NEW s \in Seqs, Release(s) PROVE StoreStep(s)
  <2>1. text'[s] = <<>> /\ \A t \in Seqs \ {s} : text'[t] = text[t]
    BY <1>1, <1>5 DEF Release, KVTypeOK
  <2>2. SubSeq(text[s], 1, 0) = <<>>
    BY SubSeqEmpty
  <2>3. 0 \in 0..Len(text[s])
    BY <1>1 DEF KVTypeOK, Fed
  <2> QED BY <2>1, <2>2, <2>3 DEF StoreStep
<1>6. ASSUME NEW s \in Seqs, Publish(s, text[s]) PROVE text' = text
  BY <1>6 DEF Publish
<1>7. ASSUME NEW n \in 1..MaxEvict, Evict(n) PROVE text' = text
  BY <1>7 DEF Evict
<1>8. EvictOne \/ EvictNoMore \/ Reset \/ UNCHANGED kvvars => text' = text
  BY DEF EvictOne, EvictNoMore, Reset, kvvars
<1> QED BY <1>2, <1>3, <1>4, <1>5, <1>6, <1>7, <1>8 DEF KVNext

\* The same step, seen through gather().
LEMMA StepImplements ==
  KVInv /\ KVInv' /\ Content /\ Content' /\ [KVNext]_kvvars
    => [Store!Next]_([s \in Seqs |-> Gather(s)])
<1> SUFFICES ASSUME KVInv, KVInv', Content, Content', [KVNext]_kvvars
             PROVE  [Store!Next]_([s \in Seqs |-> Gather(s)])
  OBVIOUS
<1>1. [s \in Seqs |-> Gather(s)] = text
  BY StoredText
<1>2. ([s \in Seqs |-> Gather(s)])' = text'
  <2>1. ([s \in Seqs |-> Gather(s)] = text)'
    BY StoredText, PTL
  <2> QED BY <2>1
<1>3. CASE text' = text
  BY <1>1, <1>2, <1>3
<1>4. ASSUME NEW s \in Seqs, StoreStep(s) PROVE Store!Next
  <2>1. Store!Start(s) \/ Store!Feed(s) \/ Store!Cut(s)
    BY <1>1, <1>2, <1>4 DEF StoreStep, Store!Start, Store!Feed, Store!Cut
  <2>2. \A t \in Seqs \ {s} : ([u \in Seqs |-> Gather(u)])'[t] = [u \in Seqs |-> Gather(u)][t]
    BY <1>1, <1>2, <1>4 DEF StoreStep
  <2> QED BY <2>1, <2>2 DEF Store!Next
<1> QED BY <1>3, <1>4, CallsAreStoreSteps

\* Block tables, sharing, copy-on-write, the prefix cache and its evictions together implement
\* sequences with a memory of their own, for every pool and every set of prompts: whatever the
\* clients of the KV memory observe could have come from the store without any sharing.
THEOREM MemoryImplementsStore == KVSpec => StoreSpec
BY InitImplements, StepImplements, KVInvHolds, ContentHolds, PTL DEF KVSpec, StoreSpec, Store!Spec

-----------------------------------------------------------------------------
\* p is q or one of the nodes on the way from the root to q.
Under(p, q) == \E i \in 1..(Len(q) \div BlockSize) : p = Path(q, i)

\* The cache clock orders every two nodes that are not on one branch.
Ordered ==
  \A p, q \in DOMAIN tree :
    Under(p, q) \/ Under(q, p) \/ <<p, q>> \in older \/ <<q, p>> \in older

\* A walk stamps one branch: every two nodes of it are on it.
LEMMA WalkIsBranch ==
  ASSUME NEW q \in Fed, NEW k \in Nat, k <= Len(q) \div BlockSize,
         NEW i \in 1..k, NEW j \in 1..k
  PROVE  Under(Path(q, i), Path(q, j)) \/ Under(Path(q, j), Path(q, i))
<1>1. Len(q) \div BlockSize \in Nat
  BY BlocksForType DEF Fed
<1>2. /\ i \in Nat \ {0} /\ i <= Len(q) \div BlockSize
      /\ j \in Nat \ {0} /\ j <= Len(q) \div BlockSize
  BY <1>1
<1>3. ASSUME NEW a \in Nat \ {0}, NEW b \in Nat \ {0}, a <= b, b <= Len(q) \div BlockSize
      PROVE  Under(Path(q, a), Path(q, b))
  <2>1. a \in 1..b
    BY <1>3
  <2>2. Len(Path(q, b)) \div BlockSize = b /\ Path(Path(q, b), a) = Path(q, a)
    BY <1>3, <2>1, Paths
  <2> QED BY <2>1, <2>2 DEF Under
<1>4. i <= j \/ j <= i
  BY <1>2
<1> QED BY <1>2, <1>3, <1>4

\* Stamping the nodes of one walk keeps the order: they are newer than all the others.
LEMMA TouchOrders ==
  ASSUME Ordered, NEW S, Touch(S), DOMAIN tree' \subseteq DOMAIN tree \cup S,
         \A p, q \in S : Under(p, q) \/ Under(q, p)
  PROVE  Ordered'
<1> SUFFICES ASSUME NEW p \in DOMAIN tree', NEW q \in DOMAIN tree'
             PROVE  Under(p, q) \/ Under(q, p) \/ <<p, q>> \in older' \/ <<q, p>> \in older'
  BY DEF Ordered, Under, Path
<1>1. older' = {pq \in older : pq[1] \notin S /\ pq[2] \notin S} \cup ((DOMAIN tree' \ S) \X S)
  BY DEF Touch
<1>2. CASE p \in S /\ q \in S
  BY <1>2
<1>3. CASE p \in S /\ q \notin S
  BY <1>1, <1>3
<1>4. CASE p \notin S /\ q \in S
  BY <1>1, <1>4
<1>5. CASE p \notin S /\ q \notin S
  <2>1. Under(p, q) \/ Under(q, p) \/ <<p, q>> \in older \/ <<q, p>> \in older
    BY <1>5 DEF Ordered
  <2> QED BY <1>1, <1>5, <2>1
<1> QED BY <1>2, <1>3, <1>4, <1>5

\* Every step keeps the order of the cache clock.
LEMMA OrderedStep == KVInv /\ Ordered /\ [KVNext]_kvvars => Ordered'
<1> SUFFICES ASSUME KVInv, Ordered, [KVNext]_kvvars PROVE Ordered'
  OBVIOUS
<1>1. ASSUME UNCHANGED <<tree, older>> PROVE Ordered'
  BY <1>1 DEF Ordered
<1>2. ASSUME NEW s \in Seqs, NEW p \in Prompts, Open(s, p) PROVE Ordered'
  <2>1. PICK k \in 0..Len(p) : MatchIs(p, k) /\ Touch({Path(p, i) : i \in 1..k})
    BY <1>2 DEF Open
  <2> DEFINE S == {Path(p, i) : i \in 1..k}
  <2>2. p \in Fed /\ k \in Nat /\ k <= Len(p) \div BlockSize
    BY <2>1, MatchBounds
  <2>3. \A a, b \in S : Under(a, b) \/ Under(b, a)
    BY <2>2, WalkIsBranch
  <2>4. tree' = tree /\ Touch(S)
    BY <1>2, <2>1 DEF Open
  <2> HIDE DEF S
  <2> QED BY <2>3, <2>4, TouchOrders
<1>3. ASSUME NEW s \in Seqs, Publish(s, text[s]) PROVE Ordered'
  <2> DEFINE k == Min2(FullBlocks(s), Len(text[s]) \div BlockSize)
             S == {Path(text[s], i) : i \in 1..k}
  <2>1. text[s] \in Fed /\ k \in Nat /\ k <= Len(text[s]) \div BlockSize
    <3>1. text[s] \in Fed /\ Len(text[s]) \in Nat
      BY DEF KVInv, KVTypeOK, Fed
    <3>2. Len(text[s]) \div BlockSize \in Nat
      BY <3>1, BlocksForType
    <3> QED BY <3>1, <3>2 DEF Min2, FullBlocks
  <2>2. Touch(S) /\ DOMAIN tree' = DOMAIN tree \cup S
    <3> HIDE DEF k
    <3> QED BY <1>3 DEF Publish, k
  <2> HIDE DEF k
  <2>3. \A a, b \in S : Under(a, b) \/ Under(b, a)
    BY <2>1, WalkIsBranch
  <2> HIDE DEF S
  <2> QED BY <2>2, <2>3, TouchOrders
<1>4. CASE EvictOne
  <2>1. PICK v \in LRU : /\ tree' = [q \in DOMAIN tree \ {v} |-> tree[q]]
                         /\ older' = {pq \in older : pq[1] # v /\ pq[2] # v}
    BY <1>4 DEF EvictOne
  <2> SUFFICES ASSUME NEW p \in DOMAIN tree \ {v}, NEW q \in DOMAIN tree \ {v}
               PROVE  Under(p, q) \/ Under(q, p) \/ <<p, q>> \in older' \/ <<q, p>> \in older'
    BY <2>1 DEF Ordered, Under, Path
  <2>2. Under(p, q) \/ Under(q, p) \/ <<p, q>> \in older \/ <<q, p>> \in older
    BY DEF Ordered
  <2> QED BY <2>1, <2>2
<1>5. CASE Reset
  BY <1>5 DEF Reset, Ordered
<1>6. ASSUME NEW s \in Seqs, NEW c \in Chunks, Write(s, Len(text[s]), c) PROVE Ordered'
  BY <1>1, <1>6 DEF Write
<1>7. ASSUME NEW s \in Seqs, NEW n \in 0..MaxLen, Rollback(s, n) PROVE Ordered'
  BY <1>1, <1>7 DEF Rollback
<1>8. ASSUME NEW s \in Seqs, Release(s) PROVE Ordered'
  BY <1>1, <1>8 DEF Release
<1>9. ASSUME NEW n \in 1..MaxEvict, Evict(n) PROVE Ordered'
  BY <1>1, <1>9 DEF Evict
<1>10. EvictNoMore \/ UNCHANGED kvvars => Ordered'
  BY <1>1 DEF EvictNoMore, kvvars
<1> QED BY <1>2, <1>3, <1>4, <1>5, <1>6, <1>7, <1>8, <1>9, <1>10 DEF KVNext

\* A node under another one has a child, so it is no leaf.
LEMMA LeavesApart ==
  ASSUME KVInv, Content, NEW p \in Evictable, NEW q \in Evictable, Under(p, q)
  PROVE  p = q
<1>1. PICK i \in 1..(Len(q) \div BlockSize) : p = Path(q, i)
  BY DEF Under
<1>2. q \in DOMAIN tree /\ ~ \E c \in DOMAIN tree : IsChild(c, p)
  BY DEF Evictable
<1> QED BY <1>1, <1>2, InnerHasChild DEF KVInv, Content

\* evict() never has to choose: at most one leaf is the least recently used, however many
\* nodes one walk stamps with the same tick (kv/radix_cache.py).
THEOREM VictimUniqueHolds == KVSpec => []VictimUnique
<1>1. KVInit => Ordered
  BY DEF KVInit, Ordered
<1>2. KVInv /\ Content /\ Ordered => VictimUnique
  <2> SUFFICES ASSUME KVInv, Content, Ordered, NEW p \in LRU, NEW q \in LRU PROVE p = q
    BY DEF VictimUnique
  <2>1. /\ p \in Evictable /\ q \in Evictable /\ p \in DOMAIN tree /\ q \in DOMAIN tree
        /\ <<p, q>> \notin older /\ <<q, p>> \notin older
    BY DEF LRU, Evictable
  <2>2. Under(p, q) \/ Under(q, p)
    BY <2>1 DEF Ordered
  <2> QED BY <2>1, <2>2, LeavesApart
<1> QED BY <1>1, <1>2, KVInvHolds, ContentHolds, OrderedStep, PTL DEF KVSpec
=============================================================================
