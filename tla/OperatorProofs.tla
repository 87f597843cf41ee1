--------------------------- MODULE OperatorProofs ---------------------------
(***************************************************************************)
(* Lemmas about the operators the models share: numbers (products, least     *)
(* elements, buffers laid out in rows of equal length), prefixes of token    *)
(* sequences, and the chunks of parallel_for, which partition [0, n) for     *)
(* every n and every pool size.                                             *)
(***************************************************************************)
EXTENDS Chunking, Prefixes, SequenceTheorems, WellFoundedInduction, TLAPS

-----------------------------------------------------------------------------
(* Numbers.                                                                 *)

\* A set of natural numbers that is not empty has a least element.
LEMMA LeastElement ==
  ASSUME NEW S \in SUBSET Nat, S # {}
  PROVE  \E x \in S : \A y \in S : x <= y
<1> DEFINE R == OpToRel(<, Nat)
<1>1. PICK x \in S : \A y \in S : ~ (<<y, x>> \in R)
  <2> HIDE DEF R
  <2>1. IsWellFoundedOn(R, Nat)
    BY NatLessThanWellFounded DEF R
  <2> QED BY <2>1, WFMin
<1>2. \A y \in S : ~(y < x)
  BY <1>1 DEF OpToRel
<1> HIDE DEF R
<1> QED BY <1>2

\* A set that holds 0 and, with each number below n, the next one holds them all.
LEMMA UpTo ==
  ASSUME NEW n \in Nat, NEW S, 0 \in S, \A i \in 1 .. n : i - 1 \in S => i \in S
  PROVE  \A i \in 0 .. n : i \in S
<1> DEFINE Out == (0 .. n) \ S
<1>1. Out \in SUBSET Nat
  OBVIOUS
<1>2. ASSUME Out # {} PROVE FALSE
  <2>1. PICK m \in Out : \A k \in Out : m <= k
    <3> HIDE DEF Out
    <3> QED BY <1>1, <1>2, LeastElement
  <2>2. m \in 1 .. n /\ m - 1 \in 0 .. n /\ ~(m <= m - 1)
    BY <2>1
  <2>3. m - 1 \in S
    BY <2>1, <2>2
  <2> QED BY <2>1, <2>2, <2>3
<1> QED BY <1>2

\* The steps of a recursion over 0 .. n with values in V, and what follows them.
Steps(n, V) == [(1 .. n) \X V -> V]
Walks(n, V, base, g) ==
    {f \in [0 .. n -> V] : f[0] = base /\ \A i \in 1 .. n : f[i] = g[<<i, f[i - 1]>>]}

\* A recursion over 0 .. n whose values stay in a set defines a function.
LEMMA RecursionExists ==
  ASSUME NEW n \in Nat, NEW V, NEW base \in V, NEW g \in Steps(n, V)
  PROVE  \E f : f \in Walks(n, V, base, g)
<1> DEFINE Walk(f, m) == /\ f \in [0 .. m -> V] /\ f[0] = base
                         /\ \A i \in 1 .. m : f[i] = g[<<i, f[i - 1]>>]
           S == {m \in 0 .. n : \E f : Walk(f, m)}
<1>1. 0 \in S
  <2>1. Walk([i \in 0 .. 0 |-> base], 0)
    OBVIOUS
  <2> HIDE DEF Walk
  <2> QED BY <2>1
<1>2. ASSUME NEW m \in 1 .. n, m - 1 \in S PROVE m \in S
  <2>1. PICK f : Walk(f, m - 1)
    BY <1>2
  <2> DEFINE h == [i \in 0 .. m |-> IF i = m THEN g[<<m, f[m - 1]>>] ELSE f[i]]
  <2>2. f[m - 1] \in V /\ <<m, f[m - 1]>> \in (1 .. n) \X V
    BY <2>1
  <2>3. g[<<m, f[m - 1]>>] \in V
    BY <2>2 DEF Steps
  <2>4. h \in [0 .. m -> V] /\ h[0] = base
    <3>1. \A i \in 0 .. m : i # m => i \in 0 .. m - 1
      OBVIOUS
    <3> QED BY <2>1, <2>3, <3>1
  <2>5. \A i \in 1 .. m : h[i] = g[<<i, h[i - 1]>>]
    <3> SUFFICES ASSUME NEW i \in 1 .. m PROVE h[i] = g[<<i, h[i - 1]>>]
      OBVIOUS
    <3>1. i - 1 \in 0 .. m /\ i - 1 # m /\ h[i - 1] = f[i - 1]
      OBVIOUS
    <3>2. CASE i = m
      BY <3>1, <3>2
    <3>3. CASE i # m
      <4>1. i \in 1 .. m - 1 /\ h[i] = f[i]
        BY <3>3
      <4> QED BY <2>1, <3>1, <4>1
    <3> QED BY <3>2, <3>3
  <2>6. Walk(h, m)
    BY <2>4, <2>5
  <2> HIDE DEF Walk, h
  <2> QED BY <2>6
<1>3. n \in S
  <2> HIDE DEF S
  <2>1. \A i \in 0 .. n : i \in S
    BY <1>1, <1>2, UpTo
  <2> QED BY <2>1
<1> QED BY <1>3 DEF Walks

\* Order is kept by multiplication: the only nonlinear fact needed below.
LEMMA MulMono ==
  ASSUME NEW a \in Nat, NEW b \in Nat, NEW s \in Nat, a <= b
  PROVE  a * s <= b * s
<1>1. PICK k \in Nat : b = a + k
  <2>1. b - a \in Nat /\ b = a + (b - a)
    OBVIOUS
  <2> QED BY <2>1
<1>2. (a + k) * s = a * s + k * s
  OBVIOUS
<1>3. k * s \in Nat /\ a * s \in Nat
  OBVIOUS
<1> QED BY <1>1, <1>2, <1>3

\* A positive times a number that is not positive is not positive.
LEMMA MulSign ==
  ASSUME NEW a \in Nat, NEW b \in Int, b <= 0
  PROVE  a * b <= 0
<1>1. PICK t \in Nat : b = 0 - t
  <2>1. 0 - b \in Nat /\ b = 0 - (0 - b)
    OBVIOUS
  <2> QED BY <2>1
<1>2. a * t \in Nat /\ a * (0 - t) = 0 - a * t
  OBVIOUS
<1>3. a * b = a * (0 - t)
  BY <1>1
<1>4. 0 - a * t <= 0
  BY <1>2
<1> QED BY <1>2, <1>3, <1>4

\* Rows of s entries do not overlap: row * s + column has one reading.
LEMMA RowsDoNotOverlap ==
  ASSUME NEW s \in Nat, NEW a \in Nat, NEW b \in Nat,
         NEW x \in 0 .. s - 1, NEW y \in 0 .. s - 1, a * s + x = b * s + y
  PROVE  a = b /\ x = y
<1>1. a * s \in Nat /\ b * s \in Nat
  OBVIOUS
<1>2. ASSUME NEW c \in Nat, NEW d \in Nat, c < d
      PROVE  c * s + s <= d * s
  <2>1. (c + 1) * s <= d * s
    BY <1>2, MulMono
  <2>2. (c + 1) * s = c * s + s
    OBVIOUS
  <2> QED BY <2>1, <2>2
<1>3. CASE a < b
  <2>1. a * s + s <= b * s
    BY <1>2, <1>3
  <2> QED BY <1>1, <2>1
<1>4. CASE b < a
  <2>1. b * s + s <= a * s
    BY <1>2, <1>4
  <2> QED BY <1>1, <2>1
<1>5. CASE a = b
  BY <1>1, <1>5
<1> QED BY <1>3, <1>4, <1>5

\* No set holds everything.
LEMMA SomethingElse == ASSUME NEW U PROVE \E x : x \notin U
<1> DEFINE R == {x \in U : x \notin x}
<1>1. \A x : x \in R <=> x \in U /\ x \notin x
  OBVIOUS
<1> HIDE DEF R
<1>2. R \notin U
  BY <1>1
<1> QED BY <1>2

-----------------------------------------------------------------------------
(* Prefixes.                                                                *)

\* What the prefix of n tokens is.
LEMMA PrefixIs ==
  ASSUME NEW S, NEW s \in Seq(S), NEW n \in 0 .. Len(s)
  PROVE  /\ Prefix(s, n) \in Seq(S) /\ Len(Prefix(s, n)) = n
         /\ \A k \in 1 .. n : Prefix(s, n)[k] = s[k]
<1>1. n \in Int /\ Len(s) \in Nat /\ \A k \in 1 .. n : s[k] \in S
  OBVIOUS
<1>2. /\ SubSeq(s, 1, n) \in Seq(S)
      /\ Len(SubSeq(s, 1, n)) = IF 1 <= n THEN n - 1 + 1 ELSE 0
      /\ \A k \in 1 .. n - 1 + 1 : SubSeq(s, 1, n)[k] = s[1 + k - 1]
  BY <1>1, SubSeqProperties
<1>3. \A k \in 1 .. n : k \in 1 .. n - 1 + 1 /\ 1 + k - 1 = k
  BY <1>1
<1> QED BY <1>1, <1>2, <1>3 DEF Prefix

\* Two sequences that agree on n tokens have the same prefix of n tokens.
LEMMA SamePrefix ==
  ASSUME NEW S, NEW s \in Seq(S), NEW t \in Seq(S), NEW n \in Nat,
         n <= Len(s), n <= Len(t), \A k \in 1 .. n : s[k] = t[k]
  PROVE  Prefix(s, n) = Prefix(t, n)
<1>1. n \in 0 .. Len(s) /\ n \in 0 .. Len(t)
  OBVIOUS
<1>2. /\ Prefix(s, n) \in Seq(S) /\ Len(Prefix(s, n)) = n
      /\ \A k \in 1 .. n : Prefix(s, n)[k] = s[k]
  BY <1>1, PrefixIs
<1>3. /\ Prefix(t, n) \in Seq(S) /\ Len(Prefix(t, n)) = n
      /\ \A k \in 1 .. n : Prefix(t, n)[k] = t[k]
  BY <1>1, PrefixIs
<1> QED BY <1>2, <1>3, SeqEqual

\* A prefix of a prefix, of the whole, and one token longer.
LEMMA PrefixOfPrefix ==
  ASSUME NEW S, NEW s \in Seq(S), NEW n \in 0 .. Len(s), NEW m \in 0 .. n
  PROVE  Prefix(Prefix(s, n), m) = Prefix(s, m)
<1>1. /\ Prefix(s, n) \in Seq(S) /\ Len(Prefix(s, n)) = n
      /\ \A k \in 1 .. n : Prefix(s, n)[k] = s[k]
  BY PrefixIs
<1> QED BY <1>1, SamePrefix

\* The prefix as long as the sequence is the sequence.
LEMMA PrefixFull ==
  ASSUME NEW S, NEW s \in Seq(S)
  PROVE  Prefix(s, Len(s)) = s
  BY SubSeqFull DEF Prefix

\* A prefix grows by the token after it.
LEMMA PrefixGrows ==
  ASSUME NEW S, NEW s \in Seq(S), NEW n \in Nat, n < Len(s)
  PROVE  Prefix(s, n + 1) = Append(Prefix(s, n), s[n + 1])
<1>1. n \in 0 .. Len(s) /\ n + 1 \in 0 .. Len(s) /\ s[n + 1] \in S
  OBVIOUS
<1>2. /\ Prefix(s, n) \in Seq(S) /\ Len(Prefix(s, n)) = n
      /\ \A k \in 1 .. n : Prefix(s, n)[k] = s[k]
  BY <1>1, PrefixIs
<1>3. /\ Prefix(s, n + 1) \in Seq(S) /\ Len(Prefix(s, n + 1)) = n + 1
      /\ \A k \in 1 .. n + 1 : Prefix(s, n + 1)[k] = s[k]
  BY <1>1, PrefixIs
<1>4. /\ Append(Prefix(s, n), s[n + 1]) \in Seq(S)
      /\ Len(Append(Prefix(s, n), s[n + 1])) = n + 1
      /\ \A k \in 1 .. n : Append(Prefix(s, n), s[n + 1])[k] = Prefix(s, n)[k]
      /\ Append(Prefix(s, n), s[n + 1])[n + 1] = s[n + 1]
  BY <1>1, <1>2, AppendProperties
<1>5. \A k \in 1 .. n + 1 : Prefix(s, n + 1)[k] = Append(Prefix(s, n), s[n + 1])[k]
  BY <1>2, <1>3, <1>4
<1> QED BY <1>3, <1>4, <1>5, SeqEqual

\* A slice of m tokens behind the first n.
LEMMA SliceIs ==
  ASSUME NEW S, NEW s \in Seq(S), NEW n \in Nat, NEW m \in Nat, n + m <= Len(s)
  PROVE  /\ SubSeq(s, n + 1, n + m) \in Seq(S) /\ Len(SubSeq(s, n + 1, n + m)) = m
         /\ \A j \in 1 .. m : SubSeq(s, n + 1, n + m)[j] = s[n + j]
<1>1. /\ n + 1 \in Int /\ n + m \in Int /\ \A j \in n + 1 .. n + m : s[j] \in S
      /\ (n + m) - (n + 1) + 1 = m /\ (n + 1 <= n + m <=> m # 0)
      /\ \A j \in 1 .. m : (n + 1) + j - 1 = n + j
  OBVIOUS
<1> DEFINE b == SubSeq(s, n + 1, n + m)
<1>2. /\ b \in Seq(S)
      /\ Len(b) = IF n + 1 <= n + m THEN (n + m) - (n + 1) + 1 ELSE 0
      /\ \A j \in 1 .. (n + m) - (n + 1) + 1 : b[j] = s[(n + 1) + j - 1]
  BY <1>1, SubSeqProperties
<1> HIDE DEF b
<1>3. b \in Seq(S) /\ Len(b) = m /\ \A j \in 1 .. m : b[j] = s[n + j]
  BY <1>1, <1>2
<1> QED BY <1>3 DEF b

\* A prefix, and what follows it up to k tokens more, is a prefix.
LEMMA PrefixGoesOn ==
  ASSUME NEW S, NEW s \in Seq(S), NEW n \in Nat, NEW m \in Nat, n + m <= Len(s),
         NEW k \in 0 .. m
  PROVE  Prefix(s, n) \o Prefix(SubSeq(s, n + 1, n + m), k) = Prefix(s, n + k)
<1> DEFINE b == SubSeq(s, n + 1, n + m)
           a == SubSeq(s, n + 1, n + k)
<1>1. k \in Nat /\ n + k <= Len(s) /\ k \in 0 .. m
  OBVIOUS
<1>2. b \in Seq(S) /\ Len(b) = m /\ \A j \in 1 .. m : b[j] = s[n + j]
  BY SliceIs
<1>3. a \in Seq(S) /\ Len(a) = k /\ \A j \in 1 .. k : a[j] = s[n + j]
  BY <1>1, SliceIs
<1>4. SubSeq(s, 1, n) \o a = SubSeq(s, 1, n + k)
  <2>1. 1 \in 1 .. Len(s) + 1 /\ n \in 1 - 1 .. Len(s) /\ n + k \in n .. Len(s)
    OBVIOUS
  <2> QED BY <2>1, ConcatAdjacentSubSeq
<1> HIDE DEF a, b
<1>5. Prefix(b, k) \in Seq(S) /\ Len(Prefix(b, k)) = k /\ \A j \in 1 .. k : Prefix(b, k)[j] = b[j]
  BY <1>2, PrefixIs
<1>6. ASSUME NEW j \in 1 .. k PROVE Prefix(b, k)[j] = a[j]
  <2>1. j \in 1 .. m
    OBVIOUS
  <2>2. Prefix(b, k)[j] = b[j] /\ b[j] = s[n + j] /\ a[j] = s[n + j]
    BY <1>2, <1>3, <1>5, <2>1
  <2> QED BY <2>2
<1>7. Prefix(b, k) = a
  BY <1>3, <1>5, <1>6, SeqEqual
<1> QED BY <1>4, <1>7 DEF Prefix, b

\* reuse_prefix finds a longest common prefix, and there is only one.
LEMMA LcpIsLcp ==
  ASSUME NEW S, NEW s \in Seq(S), NEW t \in Seq(S)
  PROVE  Lcp(s, t) \in 0 .. Len(s) /\ IsLcp(s, t, Lcp(s, t))
<1> DEFINE D == {k \in Nat : k >= Len(s) \/ k >= Len(t) \/ s[k + 1] # t[k + 1]}
<1>1. Len(s) \in D /\ Len(t) \in D
  OBVIOUS
<1>2. PICK n \in D : \A k \in D : n <= k
  <2> HIDE DEF D
  <2>1. D # {} /\ D \in SUBSET Nat
    BY <1>1 DEF D
  <2> QED BY <2>1, LeastElement
<1>3. n \in 0 .. Len(s) /\ n <= Len(t)
  BY <1>1, <1>2
<1>4. \A k \in 1 .. n : s[k] = t[k]
  <2> SUFFICES ASSUME NEW k \in 1 .. n PROVE s[k] = t[k]
    OBVIOUS
  <2>1. n \in Nat /\ k - 1 \in Nat /\ k - 1 < n /\ (k - 1) + 1 = k
    OBVIOUS
  <2>2. k - 1 \notin D
    <3> HIDE DEF D
    <3> QED BY <1>2, <2>1
  <2> QED BY <2>1, <2>2
<1>5. IsLcp(s, t, n)
  BY <1>2, <1>3, <1>4 DEF IsLcp
<1> QED BY <1>3, <1>5 DEF Lcp

-----------------------------------------------------------------------------
(* Chunks.  Index i belongs to chunk i \div ChunkSize and to no other; one    *)
(* that begins past n (they exist: 13 chunks of 3 for n = 32) is empty for a *)
(* work function that loops from begin to end.                              *)

\* chunk_size is positive, and chunks of that size reach up to n.
LEMMA ChunkSizeCovers ==
  ASSUME NEW n \in Nat, NEW nw \in Nat, n > 0
  PROVE  /\ ChunkCount(n, nw) \in Nat /\ ChunkCount(n, nw) > 0
         /\ ChunkSize(n, nw) \in Nat /\ ChunkSize(n, nw) > 0
         /\ n <= ChunkCount(n, nw) * ChunkSize(n, nw)
<1> DEFINE m == ChunkCount(n, nw)
           s == (n + m - 1) \div m
<1>1. m \in Nat /\ m > 0 /\ m <= n
  BY DEF ChunkCount, Least
<1>2. s = ChunkSize(n, nw)
  BY DEF ChunkSize
<1> HIDE DEF m
<1>3. s \in Int /\ m * s <= n + m - 1 /\ n + m - 1 < m * s + m
  BY <1>1
<1> HIDE DEF s
<1>4. n <= m * s
  <2>1. m * s \in Int
    BY <1>1, <1>3
  <2> QED BY <1>1, <1>3, <2>1
<1>5. s > 0
  <2> SUFFICES ASSUME s <= 0 PROVE FALSE
    BY <1>3
  <2>1. m * s <= 0
    BY <1>1, <1>3, MulSign
  <2>2. m * s \in Int
    BY <1>1, <1>3
  <2> QED BY <1>4, <2>1, <2>2
<1> QED BY <1>1, <1>2, <1>3, <1>4, <1>5 DEF m

\* Every index of [0, n) lies in a chunk.
LEMMA ChunksCover ==
  ASSUME NEW n \in Nat, NEW nw \in Nat, NEW i \in 0 .. n - 1
  PROVE  \E k \in Chunks(n, nw) : i \in ChunkRange(n, nw, k)
<1> DEFINE m == ChunkCount(n, nw)
           s == ChunkSize(n, nw)
           k == i \div s
<1>1. n > 0 /\ i \in Nat /\ i < n
  OBVIOUS
<1>2. m \in Nat /\ m > 0 /\ s \in Nat /\ s > 0 /\ n <= m * s
  BY <1>1, ChunkSizeCovers
<1> HIDE DEF m, s
<1>3. k \in Nat /\ s * k <= i /\ i < s * k + s
  BY <1>1, <1>2
<1> HIDE DEF k
<1>4. k < m
  <2> SUFFICES ASSUME m <= k PROVE FALSE
    BY <1>2, <1>3
  <2>1. m * s <= k * s
    BY <1>2, <1>3, MulMono
  <2>2. s * k = k * s /\ k * s \in Nat /\ m * s \in Nat
    BY <1>2, <1>3
  <2> QED BY <1>1, <1>2, <1>3, <2>1, <2>2
<1>5. k \in Chunks(n, nw)
  BY <1>2, <1>3, <1>4 DEF Chunks, m
<1>6. k * s <= i /\ i < k * s + s /\ k * s \in Nat
  BY <1>2, <1>3
<1>7. i \in ChunkRange(n, nw, k)
  BY <1>1, <1>2, <1>6 DEF ChunkRange, ChunkBegin, ChunkEnd, Least, s
<1> QED BY <1>5, <1>7

\* No index lies in two chunks.
LEMMA ChunksDisjoint ==
  ASSUME NEW n \in Nat, NEW nw \in Nat, NEW i \in 0 .. n - 1, NEW a \in Nat, NEW b \in Nat,
         i \in ChunkRange(n, nw, a), i \in ChunkRange(n, nw, b)
  PROVE  a = b
<1> DEFINE s == ChunkSize(n, nw)
<1>1. s \in Nat /\ s > 0
  BY ChunkSizeCovers
<1>2. /\ a * s <= i /\ i < a * s + s /\ b * s <= i /\ i < b * s + s
      /\ a * s \in Nat /\ b * s \in Nat
  <2> HIDE DEF s
  <2>1. a * s \in Nat /\ b * s \in Nat
    BY <1>1
  <2> QED BY <1>1, <2>1 DEF ChunkRange, ChunkBegin, ChunkEnd, Least, s
<1> HIDE DEF s
<1>3. i - a * s \in 0 .. s - 1 /\ i - b * s \in 0 .. s - 1
  BY <1>1, <1>2
<1>4. a * s + (i - a * s) = b * s + (i - b * s)
  BY <1>2
<1> QED BY <1>1, <1>3, <1>4, RowsDoNotOverlap
=============================================================================
