------------------------- MODULE Speculative_proofs -------------------------
(***************************************************************************)
(* Greedy speculative decoding gives the tokens of plain decoding as long  *)
(* as no round accepts all its proposals: for any vocabulary, prompts,     *)
(* limits, number of proposals, drafts, and targets that look at all of    *)
(* the text.                                                               *)
(***************************************************************************)
EXTENDS Speculative, SequenceTheorems, TLAPS

\* What generate() has at hand while it runs.
SpecTypeOK ==
  /\ phase \in {"idle", "round", "verify", "done", "raised"}
  /\ slots \in [1..Slots -> Seq(SpecTokens)]
  /\ output \in Seq(SpecTokens)
  /\ position \in Nat /\ bonuses \in Nat
  /\ phase = "idle" => output = <<>>
  /\ phase # "idle" =>
       /\ output # <<>>
       /\ call.prompt \in Seq(SpecTokens) \ {<<>>} /\ call.max \in Nat
       /\ Len(output) <= call.max
  /\ phase \in {"round", "verify"} => position # 0
  /\ phase = "verify" =>
       /\ proposals \in [1..DraftTokens -> SpecTokens]
       /\ position + DraftTokens <= Slots
       /\ Len(output) < call.max
  /\ phase = "done" => ~Going

\* The first k slots hold a text; that of the call is its prompt and its output.
Hold(t, k) == \A j \in 1..k : slots[j] = SubSeq(t, 1, j)
Holds(k) == Hold(SoFar, k)
HoldNext(t, k) == \A j \in 1..k : slots'[j] = SubSeq(t, 1, j)

\* Two texts agree on their first k tokens; a text goes on with those of a window.
Agree(s, t, k) == \A i \in 1..k : s[i] = t[i]
GoesOn(s, start, window, k) == \A i \in 1..k : s[start + i] = window[i]

\* A pass over the window behind start slots that hold the text t; the text n is
\* the start of t, and goes on with the first k tokens of the window.
Continued(start, window, t, n, k) ==
  /\ start \in Nat /\ window \in Seq(SpecTokens) /\ start + Len(window) <= Slots
  /\ ForwardWrites(window, start)
  /\ t \in Seq(SpecTokens) /\ start <= Len(t) /\ Hold(t, start)
  /\ n \in Seq(SpecTokens) /\ k \in Nat /\ k <= Len(window) /\ start + k <= Len(n)
  /\ Agree(n, t, start) /\ GoesOn(n, start, window, k)

\* Until a bonus token is taken, the settled slots hold all of the text but its
\* last token, so the target answers for that text and no other: what rejected
\* proposals left behind lies after them, and the next round overwrites it.
SpecInv ==
  /\ SpecTypeOK
  /\ bonuses = 0 =>
       /\ phase \in {"round", "verify"} =>
            /\ position <= Slots /\ Holds(position)
            /\ position + 1 = Len(call.prompt) + Len(output)
       /\ call.greedy => SameTokens

-----------------------------------------------------------------------------
(* The slots.                                                              *)

\* A prefix of a sequence: its elements, and its own prefixes.
LEMMA StartOfSeq ==
  ASSUME NEW S, NEW t \in Seq(S), NEW k \in Nat, k <= Len(t)
  PROVE  /\ SubSeq(t, 1, k) \in Seq(S) /\ Len(SubSeq(t, 1, k)) = k
         /\ \A i \in 1..k : SubSeq(t, 1, k)[i] = t[i]
         /\ \A j \in 1..k : SubSeq(SubSeq(t, 1, k), 1, j) = SubSeq(t, 1, j)
<1>1. Len(t) \in Nat /\ 1 \in Int /\ k \in Int
  OBVIOUS
<1>2. \A i \in 1..k : t[i] \in S
  <2> SUFFICES ASSUME NEW i \in 1..k PROVE t[i] \in S
    OBVIOUS
  <2>1. i \in 1..Len(t)
    BY <1>1
  <2> QED BY <2>1, ElementOfSeq
<1>3. /\ SubSeq(t, 1, k) \in Seq(S)
      /\ Len(SubSeq(t, 1, k)) = IF 1 <= k THEN k - 1 + 1 ELSE 0
      /\ \A i \in 1..k - 1 + 1 : SubSeq(t, 1, k)[i] = t[1 + i - 1]
  BY <1>1, <1>2, SubSeqProperties
<1>4. Len(SubSeq(t, 1, k)) = k
  <2>1. Len(SubSeq(t, 1, k)) = IF 1 <= k THEN k - 1 + 1 ELSE 0
    BY <1>3
  <2> HIDE <1>3
  <2> QED BY <2>1
<1>5. ASSUME NEW i \in 1..k PROVE SubSeq(t, 1, k)[i] = t[i]
  <2>1. i \in 1..k - 1 + 1 /\ 1 + i - 1 = i
    OBVIOUS
  <2> QED BY <1>3, <2>1
<1>6. ASSUME NEW j \in 1..k PROVE SubSeq(SubSeq(t, 1, k), 1, j) = SubSeq(t, 1, j)
  <2>1. /\ 1 \in 1..Len(t) /\ k \in 1..Len(t)
        /\ 1 \in 1..k - 1 + 1 /\ j \in 1..k - 1 + 1
    BY <1>1
  <2>2. 1 + 1 - 1 = 1 /\ 1 + j - 1 = j
    OBVIOUS
  <2>3. SubSeq(SubSeq(t, 1, k), 1, j) = SubSeq(t, 1 + 1 - 1, 1 + j - 1)
    BY <2>1, SubSeqOfSubSeq
  <2> QED BY <2>2, <2>3
<1> QED BY <1>3, <1>4, <1>5, <1>6

\* The last element of a sequence that is not empty.
LEMMA Ends ==
  ASSUME NEW S, NEW p \in Seq(S), p # <<>>
  PROVE  Last(p) \in S /\ Len(p) \in Nat \ {0}
BY DEF Last

\* Two texts that agree on their first tokens have the same start.
LEMMA SameStart ==
  ASSUME NEW S, NEW s \in Seq(S), NEW t \in Seq(S), NEW k \in Nat, k <= Len(s), k <= Len(t),
         \A i \in 1..k : s[i] = t[i]
  PROVE  SubSeq(s, 1, k) = SubSeq(t, 1, k)
<1> DEFINE x == SubSeq(s, 1, k)
           y == SubSeq(t, 1, k)
<1>1. x \in Seq(S) /\ Len(x) = k /\ \A i \in 1..k : x[i] = s[i]
  BY StartOfSeq
<1>2. y \in Seq(S) /\ Len(y) = k /\ \A i \in 1..k : y[i] = t[i]
  BY StartOfSeq
<1> HIDE DEF x, y
<1>3. \A i \in 1..Len(x) : x[i] = y[i]
  BY <1>1, <1>2
<1>4. x = y
  BY <1>1, <1>2, <1>3, SeqEqual
<1> QED BY <1>4 DEF x, y

\* The elements of a text made of two.
LEMMA Joined ==
  ASSUME NEW S, NEW s \in Seq(S), NEW t \in Seq(S)
  PROVE  /\ s \o t \in Seq(S) /\ Len(s \o t) = Len(s) + Len(t)
         /\ \A i \in 1..Len(s) : (s \o t)[i] = s[i]
         /\ \A i \in 1..Len(t) : (s \o t)[Len(s) + i] = t[i]
<1> DEFINE x == s \o t
<1>1. PICK k \in Nat, l \in Nat : k = Len(s) /\ l = Len(t)
  OBVIOUS
<1>2. /\ x \in Seq(S) /\ Len(x) = Len(s) + Len(t)
      /\ \A i \in 1..Len(x) : x[i] = IF i <= Len(s) THEN s[i] ELSE t[i - Len(s)]
  BY ConcatProperties
<1> HIDE DEF x
<1>3. Len(x) = k + l /\ \A i \in 1..k + l : x[i] = IF i <= k THEN s[i] ELSE t[i - k]
  BY <1>1, <1>2
<1>4. \A i \in 1..k : x[i] = s[i]
  BY <1>3
<1>5. ASSUME NEW i \in 1..l PROVE x[k + i] = t[i]
  <2>1. k + i \in 1..k + l /\ ~(k + i <= k) /\ k + i - k = i
    OBVIOUS
  <2> QED BY <1>3, <2>1
<1> QED BY <1>1, <1>2, <1>3, <1>4, <1>5 DEF x

\* A pass over slots that hold the text: what it attends to is that text and the
\* window, and it leaves each of its positions holding it.
LEMMA PassHolds ==
  ASSUME slots \in [1..Slots -> Seq(SpecTokens)], Slots \in Nat,
         NEW start, NEW window, NEW t, NEW n, NEW k, Continued(start, window, t, n, k)
  PROVE  /\ Sound(start)
         /\ \A i \in 1..k : SubSeq(Attended(window, start), 1, start + i) = SubSeq(n, 1, start + i)
         /\ HoldNext(n, start + k)
<1> DEFINE old == IF start = 0 THEN <<>> ELSE slots[start]
<1>1. start \in Nat /\ k \in Nat /\ start + k <= Len(n)
  BY DEF Continued
<1> USE DEF Continued
<1>2. PICK w \in Nat : w = Len(window) /\ start + w <= Slots /\ k <= w
  OBVIOUS
<1>3. /\ \A j \in 1..start : slots[j] = SubSeq(t, 1, j)
      /\ \A i \in 1..start : n[i] = t[i]
      /\ \A i \in 1..k : n[start + i] = window[i]
  BY DEF Hold, Agree, GoesOn
<1>4. \A j \in 1..start : /\ slots[j] \in Seq(SpecTokens) /\ Len(slots[j]) = j
                         /\ \A i \in 1..j : slots[j][i] = t[i]
                         /\ \A h \in 1..j : SubSeq(slots[j], 1, h) = SubSeq(t, 1, h)
  <2> SUFFICES ASSUME NEW j \in 1..start
               PROVE  /\ slots[j] \in Seq(SpecTokens) /\ Len(slots[j]) = j
                      /\ \A i \in 1..j : slots[j][i] = t[i]
                      /\ \A h \in 1..j : SubSeq(slots[j], 1, h) = SubSeq(t, 1, h)
    OBVIOUS
  <2>1. j \in Nat /\ j <= Len(t) /\ slots[j] = SubSeq(t, 1, j)
    BY <1>3
  <2> QED BY <2>1, StartOfSeq
<1>5. Sound(start)
  <2> SUFFICES ASSUME start > 0
               PROVE  Len(slots[start]) = start
                      /\ \A j \in 1..start : slots[j] = SubSeq(slots[start], 1, j)
    BY DEF Sound
  <2>1. start \in 1..start
    OBVIOUS
  <2> QED BY <1>4, <2>1
<1>6. old \in Seq(SpecTokens) /\ Len(old) = start /\ \A i \in 1..start : old[i] = t[i]
  <2>1. CASE start = 0
    BY <2>1
  <2>2. CASE start # 0
    <3>1. start \in 1..start
      BY <2>2
    <3> QED BY <1>4, <2>2, <3>1
  <2> QED BY <2>1, <2>2
<1>7. PICK text \in Seq(SpecTokens) :
        /\ text = Attended(window, start) /\ Len(text) = start + w
        /\ \A i \in 1..start : text[i] = t[i]
        /\ \A i \in 1..w : text[start + i] = window[i]
  <2>1. Attended(window, start) = old \o window
    BY DEF Attended
  <2>2. PICK first \in Seq(SpecTokens) :
          first = old /\ Len(first) = start /\ \A i \in 1..start : first[i] = t[i]
    BY <1>6
  <2> DEFINE x == first \o window
  <2>3. /\ x \in Seq(SpecTokens) /\ Len(x) = Len(first) + Len(window)
        /\ \A i \in 1..Len(first) : x[i] = first[i]
        /\ \A i \in 1..Len(window) : x[Len(first) + i] = window[i]
    BY Joined
  <2>4. x = Attended(window, start)
    BY <2>1, <2>2
  <2> HIDE DEF x
  <2>5. /\ Len(x) = start + w
        /\ \A i \in 1..start : x[i] = t[i]
        /\ \A i \in 1..w : x[start + i] = window[i]
    BY <1>2, <2>2, <2>3
  <2> QED BY <2>3, <2>4, <2>5
<1>8. ASSUME NEW i \in 1..start + k PROVE text[i] = n[i]
  <2>1. CASE i <= start
    <3>1. i \in 1..start
      BY <2>1
    <3> QED BY <1>3, <1>7, <3>1
  <2>2. CASE i > start
    <3>1. PICK q \in 1..k : i = start + q
      <4>1. i - start \in 1..k /\ i = start + (i - start)
        BY <2>2
      <4> QED BY <4>1
    <3>2. q \in 1..w
      BY <1>2
    <3> QED BY <1>3, <1>7, <3>1, <3>2
  <2> QED BY <2>1, <2>2
<1>9. ASSUME NEW j \in 1..start + k PROVE SubSeq(text, 1, j) = SubSeq(n, 1, j)
  <2>1. j \in Nat /\ j <= Len(text) /\ j <= Len(n) /\ \A i \in 1..j : text[i] = n[i]
    BY <1>2, <1>7, <1>8, SMTT(30)
  <2> QED BY <2>1, SameStart
<1>10. ASSUME NEW j \in 1..start + k PROVE slots'[j] = SubSeq(n, 1, j)
  <2>1. j \in 1..Slots
    BY <1>2
  <2>2. slots'[j] = IF j \notin start + 1 .. start + w THEN slots[j] ELSE SubSeq(text, 1, j)
    BY <1>2, <1>5, <1>7, <2>1 DEF ForwardWrites
  <2>3. CASE j > start
    <3>1. j \in start + 1 .. start + w
      BY <1>2, <2>3
    <3> QED BY <1>9, <2>2, <3>1
  <2>4. CASE j <= start
    <3>1. j \notin start + 1 .. start + w /\ j \in 1..start
      BY <2>4
    <3>2. SubSeq(t, 1, j) = SubSeq(n, 1, j)
      <4>1. j \in Nat /\ j <= Len(t) /\ j <= Len(n)
        BY <2>4
      <4>2. \A i \in 1..j : t[i] = n[i]
        <5> HIDE DEF Continued
        <5> QED BY <1>3, <1>1, <2>4
      <4> QED BY <4>1, <4>2, SameStart
    <3> QED BY <1>3, <2>2, <3>1, <3>2
  <2> QED BY <2>3, <2>4
<1>11. ASSUME NEW i \in 1..k
      PROVE  SubSeq(Attended(window, start), 1, start + i) = SubSeq(n, 1, start + i)
  <2>1. start + i \in 1..start + k
    OBVIOUS
  <2> QED BY <1>7, <1>9, <2>1
<1>12. HoldNext(n, start + k)
  BY <1>10 DEF HoldNext
<1> QED BY <1>5, <1>11, <1>12

\* A pass leaves token lists in the slots, whatever it found there.
LEMMA PassType ==
  ASSUME slots \in [1..Slots -> Seq(SpecTokens)], Slots \in Nat,
         NEW start \in Nat, NEW window \in Seq(SpecTokens), start + Len(window) <= Slots,
         ForwardWrites(window, start)
  PROVE  slots' \in [1..Slots -> Seq(SpecTokens)]
<1> DEFINE old == IF start = 0 THEN <<>> ELSE slots[start]
<1>1. PICK w \in Nat : w = Len(window)
  OBVIOUS
<1>2. old \in Seq(SpecTokens)
  BY <1>1
<1>3. ASSUME NEW j \in 1..Slots PROVE slots'[j] \in Seq(SpecTokens)
  <2>1. \/ slots'[j] = slots[j] \/ slots'[j] = <<>>
        \/ /\ j \in start + 1 .. start + w /\ Sound(start)
           /\ slots'[j] = SubSeq(old \o window, 1, j)
    BY <1>1 DEF ForwardWrites, Attended
  <2>2. ASSUME Sound(start), j \in start + 1 .. start + w
        PROVE  SubSeq(old \o window, 1, j) \in Seq(SpecTokens)
    <3>1. Len(old) = start
      BY <2>2 DEF Sound
    <3> HIDE DEF old
    <3>2. old \o window \in Seq(SpecTokens) /\ Len(old \o window) = Len(old) + Len(window)
      BY <1>2, ConcatProperties
    <3>3. PICK text \in Seq(SpecTokens) : text = old \o window /\ Len(text) = start + w
      BY <1>1, <3>1, <3>2
    <3>4. j \in Nat /\ j <= Len(text)
      BY <2>2, <3>3
    <3>5. SubSeq(text, 1, j) \in Seq(SpecTokens)
      BY <3>4, StartOfSeq
    <3> QED BY <3>3, <3>5
  <2>3. slots[j] \in Seq(SpecTokens) /\ <<>> \in Seq(SpecTokens)
    OBVIOUS
  <2> QED BY <2>1, <2>2, <2>3
<1>4. slots' = [j \in 1..Slots |-> slots'[j]]
  BY DEF ForwardWrites
<1> QED BY <1>3, <1>4

-----------------------------------------------------------------------------
(* One round.                                                              *)

\* The window of the verification: the last token and all proposals but the last.
LEMMA WindowIs ==
  ASSUME DraftTokens \in Nat \ {0}, NEW t \in SpecTokens,
         proposals \in [1..DraftTokens -> SpecTokens]
  PROVE  LET window == <<t>> \o Front(proposals)
         IN  /\ window \in Seq(SpecTokens) /\ Len(window) = DraftTokens
             /\ window[1] = t /\ \A i \in 2..DraftTokens : window[i] = proposals[i - 1]
<1> DEFINE window == <<t>> \o Front(proposals)
<1>1. PICK p \in Seq(SpecTokens), d \in Nat \ {0} : p = proposals /\ d = DraftTokens /\ Len(p) = d
  OBVIOUS
<1>2. PICK f \in Seq(SpecTokens) :
        f = Front(proposals) /\ Len(f) = d - 1 /\ \A i \in 1..d - 1 : f[i] = p[i]
  <2>1. d - 1 \in Nat /\ d - 1 <= Len(p)
    BY <1>1
  <2>2. /\ SubSeq(p, 1, d - 1) \in Seq(SpecTokens) /\ Len(SubSeq(p, 1, d - 1)) = d - 1
        /\ \A i \in 1..d - 1 : SubSeq(p, 1, d - 1)[i] = p[i]
    BY <2>1, StartOfSeq
  <2>3. Front(proposals) = SubSeq(p, 1, d - 1)
    BY <1>1 DEF Front
  <2> QED BY <2>2, <2>3
<1>3. <<t>> \in Seq(SpecTokens) /\ Len(<<t>>) = 1 /\ <<t>>[1] = t
  OBVIOUS
<1>4. /\ window \in Seq(SpecTokens) /\ Len(window) = 1 + Len(f)
      /\ \A i \in 1..Len(window) :
           window[i] = IF i <= Len(<<t>>) THEN <<t>>[i] ELSE f[i - Len(<<t>>)]
  BY <1>2, <1>3, ConcatProperties
<1> HIDE DEF window
<1>5. Len(window) = d
  BY <1>2, <1>4
<1>6. window[1] = t
  BY <1>3, <1>4, <1>5
<1>7. ASSUME NEW i \in 2..d PROVE window[i] = p[i - 1]
  <2>1. i \in 1..d /\ ~(i <= 1) /\ i - 1 \in 1..d - 1
    OBVIOUS
  <2>2. window[i] = f[i - 1]
    BY <1>3, <1>4, <1>5, <2>1
  <2> QED BY <1>2, <2>1, <2>2
<1> QED BY <1>1, <1>4, <1>5, <1>6, <1>7 DEF window

\* What is emitted: the accepted proposals and one token of the target, up to the limit.
LEMMA EmittedIs ==
  ASSUME DraftTokens \in Nat \ {0}, proposals \in [1..DraftTokens -> SpecTokens],
         NEW a \in [1..DraftTokens -> SpecTokens], NEW n \in 0..DraftTokens, NEW m \in 1..n + 1
  PROVE  \E e \in Seq(SpecTokens) :
           /\ e = SubSeq(AcceptedOf(a, n), 1, m) /\ Len(e) = m
           /\ \A i \in 1..m : i <= n => e[i] = proposals[i]
           /\ n < DraftTokens /\ m = n + 1 => e[m] = a[n + 1]
<1> DEFINE x == IF n < DraftTokens THEN a[n + 1] ELSE Last(a)
           e == SubSeq(AcceptedOf(a, n), 1, m)
<1>1. PICK p \in Seq(SpecTokens), d \in Nat \ {0} : p = proposals /\ d = DraftTokens /\ Len(p) = d
  OBVIOUS
<1>2. x \in SpecTokens
  <2>1. Len(a) = DraftTokens
    OBVIOUS
  <2> QED BY <2>1 DEF Last
<1>3. PICK s \in Seq(SpecTokens) : s = SubSeq(p, 1, n) /\ Len(s) = n /\ \A i \in 1..n : s[i] = p[i]
  <2>1. n \in Nat /\ n <= Len(p)
    BY <1>1
  <2> DEFINE f == SubSeq(p, 1, n)
  <2>2. f \in Seq(SpecTokens) /\ Len(f) = n /\ \A i \in 1..n : f[i] = p[i]
    BY <2>1, StartOfSeq
  <2> HIDE DEF f
  <2>3. f \in Seq(SpecTokens) /\ f = SubSeq(p, 1, n) /\ Len(f) = n /\ \A i \in 1..n : f[i] = p[i]
    BY <2>2 DEF f
  <2> QED BY <2>3
<1> HIDE DEF x
<1>4. PICK c \in Seq(SpecTokens) :
        /\ c = s \o <<x>> /\ Len(c) = n + 1
        /\ \A i \in 1..n : c[i] = p[i]
        /\ c[n + 1] = x
  <2>1. s \o <<x>> = Append(s, x)
    BY <1>2, <1>3, AppendIsConcat
  <2>2. /\ Append(s, x) \in Seq(SpecTokens) /\ Len(Append(s, x)) = Len(s) + 1
        /\ \A i \in 1..Len(s) : Append(s, x)[i] = s[i]
        /\ Append(s, x)[Len(s) + 1] = x
    <3>1. s \in Seq(SpecTokens)
      BY <1>3
    <3> QED BY <1>2, <3>1, AppendProperties, SMTT(60)
  <2> QED BY <1>3, <2>1, <2>2
<1>5. e = SubSeq(c, 1, m)
  BY <1>1, <1>3, <1>4 DEF AcceptedOf, x
<1>6. m \in Nat /\ m <= Len(c)
  BY <1>4
<1>7. /\ SubSeq(c, 1, m) \in Seq(SpecTokens) /\ Len(SubSeq(c, 1, m)) = m
      /\ \A i \in 1..m : SubSeq(c, 1, m)[i] = c[i]
  BY <1>6, StartOfSeq
<1> HIDE DEF e
<1>8. \A i \in 1..m : e[i] = c[i]
  BY <1>5, <1>7
<1>9. e \in Seq(SpecTokens) /\ Len(e) = m
  BY <1>5, <1>7
<1>10. \A i \in 1..m : i <= n => e[i] = proposals[i]
  BY <1>1, <1>4, <1>8
<1>11. n < DraftTokens /\ m = n + 1 => e[m] = a[n + 1]
  BY <1>4, <1>8 DEF x
<1> QED BY <1>9, <1>10, <1>11 DEF e

\* The smaller of two numbers.
LEMMA MinOfTwo ==
  ASSUME NEW a \in Int, NEW b \in Int
  PROVE  Min({a, b}) \in {a, b} /\ Min({a, b}) <= a /\ Min({a, b}) <= b
<1>1. \E x \in {a, b} : \A y \in {a, b} : x =< y
  <2>1. a <= b \/ b <= a
    OBVIOUS
  <2>2. a <= a /\ b <= b
    OBVIOUS
  <2> QED BY <2>1, <2>2
<1> QED BY <1>1 DEF Min

\* A round: it settles what it emits, behind slots that still hold one text.
LEMMA VerifyInv ==
  ASSUME SpecInv, Verify
  PROVE  SpecInv'
<1> DEFINE window == <<Last(output)>> \o Front(proposals)
<1>1. /\ DraftTokens \in Nat \ {0} /\ Slots \in Nat /\ phase = "verify"
      /\ slots \in [1..Slots -> Seq(SpecTokens)]
      /\ proposals \in [1..DraftTokens -> SpecTokens]
      /\ output \in Seq(SpecTokens) /\ output # <<>> /\ call.max \in Nat
      /\ position \in Nat \ {0} /\ bonuses \in Nat
      /\ position + DraftTokens <= Slots /\ Len(output) < call.max
  BY SpecAssumption DEF SpecInv, SpecTypeOK, Verify
<1>2. Last(output) \in SpecTokens /\ Len(output) \in Nat \ {0} /\ Last(output) = output[Len(output)]
  BY <1>1, Ends DEF Last
<1>3. /\ window \in Seq(SpecTokens) /\ Len(window) = DraftTokens
      /\ window[1] = Last(output) /\ \A i \in 2..DraftTokens : window[i] = proposals[i - 1]
  BY <1>1, <1>2, WindowIs
<1>4. PICK a \in Answers(window, position, call) : \E n \in Kept(a) :
        LET emitted == SubSeq(AcceptedOf(a, n), 1, Min({n + 1, call.max - Len(output)})) IN
        /\ ForwardWrites(window, position)
        /\ bonuses' = bonuses + (IF n = DraftTokens THEN 1 ELSE 0)
        /\ output' = output \o emitted
        /\ position' = position + Len(emitted)
  BY DEF Verify
<1>5. phase' = "round" /\ UNCHANGED <<call, proposals>>
  BY DEF Verify
<1> HIDE DEF window
<1>6. PICK n \in Kept(a) :
         LET emitted == SubSeq(AcceptedOf(a, n), 1, Min({n + 1, call.max - Len(output)})) IN
         /\ ForwardWrites(window, position)
         /\ bonuses' = bonuses + (IF n = DraftTokens THEN 1 ELSE 0)
         /\ output' = output \o emitted
         /\ position' = position + Len(emitted)
  BY <1>4
<1>7. /\ a \in [1..DraftTokens -> SpecTokens] /\ n \in 0..DraftTokens
      /\ call.greedy /\ Sound(position) =>
           \A i \in 1..DraftTokens :
             a[i] = Argmax(call.target, SubSeq(Attended(window, position), 1, position + i))
      /\ call.greedy => \A i \in 1..n : proposals[i] = a[i]
  BY <1>1, <1>3 DEF Answers, Kept
<1>8. PICK m \in 1..n + 1 : m = Min({n + 1, call.max - Len(output)}) /\ Len(output) + m <= call.max
  <2>1. n + 1 \in Int /\ call.max - Len(output) \in Int /\ call.max - Len(output) >= 1 /\ n + 1 >= 1
    BY <1>1, <1>2, <1>7
  <2>2. PICK x \in Int, y \in Int : x = n + 1 /\ y = call.max - Len(output) /\ x >= 1 /\ y >= 1
    BY <2>1
  <2>3. Min({x, y}) \in {x, y} /\ Min({x, y}) <= x /\ Min({x, y}) <= y
    BY MinOfTwo
  <2>4. PICK z \in 1..x : z = Min({x, y}) /\ z <= y
    BY <2>2, <2>3
  <2>5. Len(output) + z <= call.max
    BY <1>1, <1>2, <2>2, <2>4, SMTT(30)
  <2> QED BY <2>2, <2>4, <2>5
<1>9. PICK e \in Seq(SpecTokens) :
        /\ e = SubSeq(AcceptedOf(a, n), 1, m) /\ Len(e) = m
        /\ \A i \in 1..m : i <= n => e[i] = proposals[i]
        /\ n < DraftTokens /\ m = n + 1 => e[m] = a[n + 1]
  BY <1>1, <1>7, EmittedIs
<1>10. /\ ForwardWrites(window, position) /\ output' = output \o e /\ position' = position + m
      /\ bonuses' = bonuses + (IF n = DraftTokens THEN 1 ELSE 0)
  BY <1>6, <1>8, <1>9
<1>11. PICK l \in Nat \ {0}, q \in Nat \ {0} : l = Len(output) /\ q = Len(call.prompt)
  <2>1. call.prompt \in Seq(SpecTokens) /\ call.prompt # <<>>
    BY <1>1 DEF SpecInv, SpecTypeOK
  <2> QED BY <1>2, <2>1, Ends
<1>12. /\ call.prompt \in Seq(SpecTokens)
       /\ SoFar \in Seq(SpecTokens) /\ Len(SoFar) = q + l
       /\ SoFar[q + l] = Last(output)
       /\ output' \in Seq(SpecTokens) /\ Len(output') = l + m
       /\ \A i \in 1..l : output'[i] = output[i]
       /\ \A i \in 1..m : output'[l + i] = e[i]
       /\ SoFar' \in Seq(SpecTokens) /\ Len(SoFar') = q + l + m
       /\ \A i \in 1..q + l : SoFar'[i] = SoFar[i]
       /\ \A i \in 1..m : SoFar'[q + l + i] = e[i]
  <2>1. call.prompt \in Seq(SpecTokens)
    BY <1>1 DEF SpecInv, SpecTypeOK
  <2>2. /\ SoFar \in Seq(SpecTokens) /\ Len(SoFar) = q + l
        /\ \A i \in 1..q : SoFar[i] = call.prompt[i]
        /\ \A i \in 1..l : SoFar[q + i] = output[i]
    BY <1>1, <1>11, <2>1, Joined, SMTT(30) DEF SoFar
  <2>3. SoFar[q + l] = Last(output)
    <3>1. l \in 1..l /\ output[l] = Last(output)
      BY <1>2, <1>11
    <3> QED BY <2>2, <3>1
  <2>4. /\ output' \in Seq(SpecTokens) /\ Len(output') = l + m
        /\ \A i \in 1..l : output'[i] = output[i]
        /\ \A i \in 1..m : output'[l + i] = e[i]
    <3>1. m \in Nat /\ m = Len(e)
      BY <1>9
    <3> QED BY <1>1, <1>9, <1>10, <1>11, <3>1, Joined, SMTT(30)
  <2>5. SoFar' = SoFar \o e
    <3>1. SoFar' = call.prompt \o (output \o e) /\ SoFar = call.prompt \o output
      BY <1>5, <1>10 DEF SoFar
    <3>2. PICK p \in Seq(SpecTokens), b \in Seq(SpecTokens) : p = call.prompt /\ b = output
      BY <1>1, <2>1
    <3>3. (p \o b) \o e = p \o (b \o e)
      BY ConcatAssociative, SMTT(30)
    <3> QED BY <3>1, <3>2, <3>3
  <2>6. /\ SoFar \o e \in Seq(SpecTokens) /\ Len(SoFar \o e) = Len(SoFar) + Len(e)
        /\ \A i \in 1..Len(SoFar) : (SoFar \o e)[i] = SoFar[i]
        /\ \A i \in 1..Len(e) : (SoFar \o e)[Len(SoFar) + i] = e[i]
    <3>1. PICK s \in Seq(SpecTokens) : s = SoFar
      BY <2>2
    <3>2. /\ s \o e \in Seq(SpecTokens) /\ Len(s \o e) = Len(s) + Len(e)
          /\ \A i \in 1..Len(s) : (s \o e)[i] = s[i]
          /\ \A i \in 1..Len(e) : (s \o e)[Len(s) + i] = e[i]
      BY Joined
    <3> QED BY <3>1, <3>2
  <2>7. /\ SoFar' \in Seq(SpecTokens) /\ Len(SoFar') = q + l + m
        /\ \A i \in 1..q + l : SoFar'[i] = SoFar[i]
        /\ \A i \in 1..m : SoFar'[q + l + i] = e[i]
    BY <1>9, <2>2, <2>5, <2>6
  <2> QED BY <2>1, <2>2, <2>3, <2>4, <2>7
<1>13. SpecTypeOK'
  <2>1. slots' \in [1..Slots -> Seq(SpecTokens)]
    BY <1>1, <1>3, <1>10, PassType
  <2>2. position' \in Nat \ {0} /\ bonuses' \in Nat
    BY <1>1, <1>7, <1>10
  <2>3. output' # <<>>
    <3>1. Len(output') # 0
      BY <1>11, <1>12
    <3> QED BY <3>1
  <2>4. Len(output') <= call.max
    BY <1>8, <1>11, <1>12
  <2> QED BY <1>1, <1>5, <1>12, <2>1, <2>2, <2>3, <2>4 DEF SpecInv, SpecTypeOK
<1>14. ASSUME bonuses' = 0
       PROVE  /\ position' <= Slots /\ Holds(position)'
              /\ position' + 1 = Len(call'.prompt) + Len(output')
              /\ call'.greedy => SameTokens'
  <2>1. n < DraftTokens /\ bonuses = 0
    BY <1>1, <1>7, <1>10, <1>14
  <2>2. PICK d \in Nat \ {0}, k \in Nat :
          /\ d = DraftTokens /\ k = position /\ k + d <= Slots
          /\ m \in Nat /\ m <= d /\ m <= n + 1 /\ n \in Nat
    BY <1>1, <1>7, <2>1
  <2>3. /\ k + 1 = q + l
        /\ \A j \in 1..k : slots[j] = SubSeq(SoFar, 1, j)
    BY <1>1, <1>11, <2>1, <2>2 DEF SpecInv, Holds, Hold
  <2>4. ASSUME NEW i \in 1..m PROVE SoFar'[k + i] = window[i]
    <3>1. CASE i = 1
      <4>1. q + l \in 1..q + l
        OBVIOUS
      <4>2. SoFar'[k + 1] = Last(output)
        BY <1>12, <2>3, <4>1
      <4> QED BY <1>3, <3>1, <4>2
    <3>2. CASE i # 1
      <4>1. i - 1 \in 1..m /\ k + i = q + l + (i - 1) /\ i - 1 <= n /\ i \in 2..d
        BY <2>2, <2>3, <3>2
      <4>2. SoFar'[k + i] = e[i - 1]
        BY <1>12, <4>1
      <4> QED BY <1>3, <1>9, <2>2, <4>1, <4>2
    <3> QED BY <3>1, <3>2
  <2>5. PICK new \in Seq(SpecTokens) : new = SoFar'
    BY <1>12
  <2>6. /\ Sound(k)
         /\ \A i \in 1..m : SubSeq(Attended(window, k), 1, k + i) = SubSeq(new, 1, k + i)
         /\ HoldNext(new, k + m)
    <3>1. k + m <= Len(new) /\ k <= Len(SoFar) /\ k + d <= Slots /\ m <= d
      <4>1. Len(new) = q + l + m /\ Len(SoFar) = q + l
        BY <1>12, <2>5
      <4> QED BY <2>2, <2>3, <4>1
    <3>2. Agree(new, SoFar, k)
      BY <1>12, <2>2, <2>3, <2>5 DEF Agree
    <3>3. GoesOn(new, k, window, m)
      BY <2>4, <2>5 DEF GoesOn
    <3>4. Hold(SoFar, k)
      BY <2>3 DEF Hold
    <3>5. ForwardWrites(window, k) /\ k + Len(window) <= Slots /\ m <= Len(window)
      BY <1>3, <1>10, <2>2
    <3>6. PICK old \in Seq(SpecTokens) :
            old = SoFar /\ k <= Len(old) /\ Agree(new, old, k) /\ Hold(old, k)
      BY <1>12, <3>1, <3>2, <3>4
    <3>7. /\ slots \in [1..Slots -> Seq(SpecTokens)] /\ Slots \in Nat
          /\ m \in Nat /\ d \in Nat /\ k \in Nat
      BY <1>1, <2>2
    <3>8. PICK x \in Seq(SpecTokens) :
            /\ x = window /\ ForwardWrites(x, k) /\ GoesOn(new, k, x, m)
            /\ k + Len(x) <= Slots /\ m <= Len(x)
      BY <1>3, <3>3, <3>5
    <3>9. /\ Sound(k)
          /\ \A i \in 1..m : SubSeq(Attended(x, k), 1, k + i) = SubSeq(new, 1, k + i)
          /\ HoldNext(new, k + m)
      <4>1. Continued(k, x, old, new, m)
        BY <3>1, <3>6, <3>7, <3>8 DEF Continued
      <4> QED BY <3>7, <4>1, PassHolds
    <3> QED BY <3>8, <3>9
  <2>7. position' = k + m /\ position' <= Slots
    BY <1>1, <1>10, <2>2
  <2>8. Holds(position)'
    BY <2>5, <2>6, <2>7 DEF Holds, Hold, HoldNext
  <2>9. position' + 1 = Len(call'.prompt) + Len(output')
    <3>1. Len(call'.prompt) = q /\ Len(output') = l + m
      BY <1>5, <1>11, <1>12
    <3> HIDE <1>10, <1>12, <1>14
    <3> QED BY <2>2, <2>3, <2>7, <3>1
  <2>10. ASSUME call.greedy PROVE SameTokens'
    <3>1. \A i \in 1..m : i \in 1..d /\ e[i] = a[i]
      BY <1>7, <1>9, <2>1, <2>2, <2>10
    <3>2. \A i \in 1..m : e[i] = Argmax(call.target, SubSeq(SoFar', 1, k + i))
      BY <1>7, <2>2, <2>5, <2>6, <2>10, <3>1
    <3>3. ASSUME NEW j \in 1..l + m
          PROVE  output'[j] = Argmax(call.target, SubSeq(SoFar', 1, q + j - 1))
      <4>1. CASE j <= l
        <5>1. output[j] = Argmax(call.target, SubSeq(SoFar, 1, q + j - 1))
          BY <1>11, <2>1, <2>10, <4>1 DEF SpecInv, SameTokens, IsPlain
        <5>2. PICK x \in Nat : x = q + j - 1 /\ x <= q + l
          BY <4>1
        <5>3. SubSeq(SoFar', 1, x) = SubSeq(SoFar, 1, x)
          <6>1. /\ x <= Len(new) /\ x <= Len(SoFar) /\ SoFar \in Seq(SpecTokens)
                /\ \A i \in 1..x : new[i] = SoFar[i]
            BY <1>12, <2>5, <5>2
          <6>2. SubSeq(new, 1, x) = SubSeq(SoFar, 1, x)
            BY <6>1, SameStart
          <6> QED BY <2>5, <6>2
        <5>4. j \in 1..l /\ output'[j] = output[j]
          BY <1>12, <4>1
        <5> QED BY <5>1, <5>2, <5>3, <5>4
      <4>2. CASE j > l
        <5>1. PICK i \in 1..m : j = l + i
          <6>1. j - l \in 1..m /\ j = l + (j - l)
            BY <4>2
          <6> QED BY <6>1
        <5>2. q + j - 1 = k + i
          BY <2>3, <5>1
        <5> QED BY <1>12, <3>2, <5>1, <5>2
      <4> QED BY <4>1, <4>2
    <3> QED BY <1>5, <1>11, <1>12, <3>3 DEF SameTokens, IsPlain
  <2> QED BY <1>5, <2>7, <2>8, <2>9, <2>10
<1> QED BY <1>5, <1>13, <1>14 DEF SpecInv

\* The prefills settle the prompt, and the first token is the target's.
LEMMA GenerateInv ==
  ASSUME SpecInv, Generate
  PROVE  SpecInv'
<1>1. PICK p \in SpecPrompts, m \in SpecLimits, e \in SpecEos, g \in BOOLEAN, f \in SpecTargets :
        LET c == [prompt |-> p, max |-> m, eos |-> e, greedy |-> g, target |-> f] IN
        /\ Len(p) <= Slots
        /\ call' = c
        /\ ForwardWrites(p, 0)
        /\ \E a \in Answers(p, 0, c) : output' = <<Last(a)>>
        /\ position' = Len(p)
  BY DEF Generate
<1>2. PICK a \in [1..Len(p) -> SpecTokens] :
        /\ output' = <<Last(a)>>
        /\ g /\ Sound(0) =>
             \A i \in 1..Len(p) : a[i] = Argmax(f, SubSeq(Attended(p, 0), 1, 0 + i))
  BY <1>1 DEF Answers
<1>3. /\ p \in Seq(SpecTokens) /\ p # <<>> /\ m \in Nat \ {0} /\ Slots \in Nat
      /\ slots \in [1..Slots -> Seq(SpecTokens)] /\ bonuses \in Nat
  BY SpecAssumption DEF SpecInv, SpecTypeOK
<1>4. PICK q \in Nat \ {0} : q = Len(p) /\ q <= Slots
  BY <1>1, <1>3, Ends
<1>5. PICK t \in SpecTokens : t = Last(a) /\ t = a[q]
  <2>1. Len(a) = q /\ q \in 1..q
    BY <1>4
  <2> QED BY <1>2, <1>4, <2>1 DEF Last
<1>6. /\ output' = <<t>> /\ position' = q /\ bonuses' = bonuses /\ phase' = "round"
      /\ call'.prompt = p /\ call'.target = f /\ call'.max = m /\ call'.greedy = g
      /\ ForwardWrites(p, 0)
  BY <1>1, <1>2, <1>4, <1>5 DEF Generate
<1>7. PICK new \in Seq(SpecTokens) :
        /\ new = SoFar' /\ Len(new) = q + 1 /\ \A i \in 1..q : new[i] = p[i]
  <2>1. SoFar' = p \o <<t>> /\ <<t>> \in Seq(SpecTokens) /\ Len(<<t>>) = 1
    BY <1>6 DEF SoFar
  <2>2. /\ p \o <<t>> \in Seq(SpecTokens) /\ Len(p \o <<t>>) = q + 1
        /\ \A i \in 1..q : (p \o <<t>>)[i] = p[i]
    BY <1>3, <1>4, <2>1, Joined
  <2> QED BY <2>1, <2>2
<1>8. /\ Sound(0)
      /\ \A i \in 1..q : SubSeq(Attended(p, 0), 1, 0 + i) = SubSeq(new, 1, 0 + i)
      /\ HoldNext(new, 0 + q)
  <2>1. /\ 0 \in Nat /\ q \in Nat /\ 0 + q <= Slots /\ 0 <= Len(p)
        /\ Hold(p, 0) /\ q <= q /\ 0 + q <= Len(new)
        /\ Agree(new, p, 0) /\ GoesOn(new, 0, p, q)
    BY <1>4, <1>7 DEF Hold, Agree, GoesOn
  <2>2. /\ slots \in [1..Slots -> Seq(SpecTokens)] /\ Slots \in Nat /\ p \in Seq(SpecTokens)
        /\ 0 + Len(p) <= Slots /\ q <= Len(p) /\ ForwardWrites(p, 0)
    BY <1>3, <1>4, <1>6
  <2>3. Continued(0, p, p, new, q)
    BY <2>1, <2>2 DEF Continued
  <2> QED BY <2>2, <2>3, PassHolds
<1>9. slots' \in [1..Slots -> Seq(SpecTokens)]
  <2>1. 0 \in Nat /\ 0 + Len(p) <= Slots
    BY <1>4
  <2> QED BY <1>3, <1>6, <2>1, PassType
<1>10. SpecTypeOK'
  BY <1>3, <1>4, <1>6, <1>9 DEF SpecTypeOK
<1>11. /\ position' <= Slots /\ Holds(position)'
       /\ position' + 1 = Len(call'.prompt) + Len(output')
  <2>1. position' <= Slots /\ position' + 1 = Len(call'.prompt) + Len(output')
    BY <1>4, <1>6
  <2>2. \A j \in 1..q : slots'[j] = SubSeq(SoFar', 1, j)
    BY <1>7, <1>8 DEF HoldNext
  <2> QED BY <1>6, <2>1, <2>2 DEF Holds, Hold
<1>12. ASSUME g PROVE SameTokens'
  <2>1. q \in 1..q /\ 0 + q = q
    OBVIOUS
  <2>2. a[q] = Argmax(f, SubSeq(Attended(p, 0), 1, 0 + q))
    BY <1>2, <1>4, <1>8, <1>12, <2>1
  <2>3. t = Argmax(f, SubSeq(new, 1, q))
    BY <1>5, <1>8, <2>1, <2>2
  <2>4. output'[1] = t /\ Len(output') = 1 /\ q + 1 - 1 = q
    BY <1>6
  <2> QED BY <1>4, <1>6, <1>7, <2>3, <2>4 DEF SameTokens, IsPlain
<1> QED BY <1>6, <1>10, <1>11, <1>12 DEF SpecInv

\* The other steps settle nothing.
LEMMA OtherInv ==
  ASSUME SpecInv, Propose \/ OutOfSlots \/ Finish \/ UNCHANGED specVars
  PROVE  SpecInv'
<1>1. /\ UNCHANGED <<call, output, position, bonuses>> /\ (phase' = "idle" => phase = "idle")
      /\ phase' \in {"idle", "round", "verify", "done", "raised"}
      /\ phase = "idle" => phase' = "idle"
      /\ (phase' \in {"round", "verify"} => phase \in {"round", "verify"} /\ slots' = slots)
  BY DEF Propose, OutOfSlots, Finish, specVars, SpecInv, SpecTypeOK
<1>2. slots' \in [1..Slots -> Seq(SpecTokens)]
  <2>1. slots' = slots \/ slots' = [j \in 1..Slots |-> <<>>]
    BY DEF Propose, OutOfSlots, Finish, specVars
  <2>2. [j \in 1..Slots |-> <<>>] \in [1..Slots -> Seq(SpecTokens)]
    OBVIOUS
  <2> QED BY <2>1, <2>2 DEF SpecInv, SpecTypeOK
<1>3. phase' = "verify" =>
        /\ proposals' \in [1..DraftTokens -> SpecTokens]
        /\ position' + DraftTokens <= Slots
        /\ Len(output') < call'.max
  BY DEF Propose, OutOfSlots, Finish, Going, specVars, SpecInv, SpecTypeOK
<1>4. phase' = "done" => ~Going'
  BY DEF Propose, OutOfSlots, Finish, Going, specVars, SpecInv, SpecTypeOK
<1>5. SpecTypeOK'
  BY <1>1, <1>2, <1>3, <1>4 DEF SpecInv, SpecTypeOK
<1>6. SoFar' = SoFar /\ (SameTokens' <=> SameTokens)
  BY <1>1 DEF SoFar, SameTokens, IsPlain
<1>7. slots' = slots => (Holds(position)' <=> Holds(position))
  BY <1>1, <1>6 DEF Holds, Hold
<1> QED BY <1>1, <1>5, <1>6, <1>7 DEF SpecInv

\* engine/speculative.py, lines 10 to 12, for every instance: as long as no round has accepted
\* all its proposals, greedy output is that of plain decoding up to its first eos, where plain
\* decoding stops, and none of that is missing when generate() returns.
THEOREM LosslessWithoutBonusHolds == SpecSpec => []LosslessWithoutBonus
<1>1. SpecInit => SpecInv
  <2> SUFFICES ASSUME SpecInit PROVE SpecInv
    OBVIOUS
  <2>1. slots \in [1..Slots -> Seq(SpecTokens)]
    BY DEF SpecInit
  <2>2. output = <<>> /\ phase = "idle" /\ position = 0 /\ bonuses = 0
    BY DEF SpecInit
  <2> QED BY <2>1, <2>2 DEF SpecInv, SpecTypeOK, SameTokens
<1>2. SpecInv /\ [SpecNext]_specVars => SpecInv'
  BY VerifyInv, GenerateInv, OtherInv DEF SpecNext
<1>3. SpecInv => LosslessWithoutBonus
  <2> SUFFICES ASSUME SpecInv, call.greedy, bonuses = 0
               PROVE  /\ SameTokens
                      /\ phase = "done" =>
                           Len(output) = call.max \/ \E n \in 1..Len(output) : output[n] = call.eos
    BY DEF LosslessWithoutBonus
  <2>1. SameTokens
    BY DEF SpecInv
  <2>2. ASSUME phase = "done", Len(output) # call.max
        PROVE  \E n \in 1..Len(output) : output[n] = call.eos
    <3>1. /\ output \in Seq(SpecTokens) /\ output # <<>> /\ ~Going
          /\ call.max \in Nat /\ Len(output) <= call.max
      BY <2>2 DEF SpecInv, SpecTypeOK
    <3>2. Len(output) \in 1..Len(output) /\ output[Len(output)] = Last(output)
      BY <3>1, Ends DEF Last
    <3>3. Last(output) = call.eos
      BY <2>2, <3>1, <3>2 DEF Going
    <3> QED BY <3>2, <3>3
  <2> QED BY <2>1, <2>2
<1> QED BY <1>1, <1>2, <1>3, PTL DEF SpecSpec
=============================================================================
