------------------------ MODULE KVCacheClientProofs ------------------------
(***************************************************************************)
(* The KV cache for any number of slots, layers and positions, any sessions *)
(* and dialogues, and any number of requests.                               *)
(***************************************************************************)
EXTENDS KVCacheClient, OperatorProofs

-----------------------------------------------------------------------------
(* The cache's operators.                                                   *)

\* The buffers of two slots, or of two layers, are two buffers.
LEMMA BuffersApart ==
  ASSUME NEW i \in Slots, NEW l \in Layers
  PROVE  /\ BufferIndex(i, l) \in Buffers
         /\ \A j \in Slots, m \in Layers :
              BufferIndex(i, l) = BufferIndex(j, m) => i = j /\ l = m
<1>1. /\ i \in Nat /\ i + 1 <= NumSlots /\ l \in 0 .. NumLayers - 1
      /\ NumSlots \in Nat /\ NumLayers \in Nat /\ i * NumLayers \in Nat
  BY KVCacheAssumption DEF Slots, Layers
<1>2. (i + 1) * NumLayers <= NumSlots * NumLayers /\ (i + 1) * NumLayers = i * NumLayers + NumLayers
  BY <1>1, MulMono
<1>3. BufferIndex(i, l) \in Buffers
  <2>1. NumSlots * NumLayers \in Nat
    BY <1>1
  <2> QED BY <1>1, <1>2, <2>1 DEF BufferIndex, Buffers
<1>4. ASSUME NEW j \in Slots, NEW m \in Layers, BufferIndex(i, l) = BufferIndex(j, m)
      PROVE  i = j /\ l = m
  <2>1. j \in Nat /\ m \in 0 .. NumLayers - 1
    BY KVCacheAssumption DEF Slots, Layers
  <2> QED BY <1>1, <1>4, <2>1, RowsDoNotOverlap DEF BufferIndex
<1> QED BY <1>3, <1>4

\* The lowest of a set of slots is one of them.
LEMMA LowestIsIn ==
  ASSUME NEW S \in SUBSET Slots, S # {}
  PROVE  Lowest(S) \in S
<1>1. S \in SUBSET Nat
  BY KVCacheAssumption DEF Slots
<1> QED BY <1>1, LeastElement DEF Lowest

\* acquire() finds a slot, the session's own if it has one.
LEMMA SlotForIs ==
  ASSUME CacheTypeOK, NEW sid
  PROVE  SlotFor(sid) \in Slots /\ (owner[SlotFor(sid)] # sid => OwnedBy(sid) = {})
<1>1. CASE OwnedBy(sid) # {}
  <2>1. SlotFor(sid) \in OwnedBy(sid)
    BY <1>1, LowestIsIn DEF SlotFor, OwnedBy
  <2> QED BY <2>1 DEF OwnedBy
<1>2. CASE OwnedBy(sid) = {} /\ FreeSlots # {}
  <2>1. SlotFor(sid) \in FreeSlots
    BY <1>2, LowestIsIn DEF SlotFor, FreeSlots
  <2> QED BY <1>2, <2>1 DEF FreeSlots
<1>3. CASE OwnedBy(sid) = {} /\ FreeSlots = {}
  <2> DEFINE T == {touchedAt[i] : i \in Slots}
  <2>1. T \in SUBSET Nat /\ T # {}
    BY KVCacheAssumption DEF CacheTypeOK, Slots
  <2>2. PICK x \in T : \A y \in T : x <= y
    BY <2>1, LeastElement
  <2>3. LeastRecent # {}
    BY <2>2 DEF LeastRecent
  <2>4. Lowest(LeastRecent) \in LeastRecent
    BY <2>3, LowestIsIn DEF LeastRecent
  <2> QED BY <1>3, <2>4 DEF SlotFor, LeastRecent
<1> QED BY <1>1, <1>2, <1>3

\* A touch keeps the clock's types.
LEMMA TouchTypes ==
  ASSUME CacheTypeOK, NEW i \in Slots, Touch(i)
  PROVE  touchedAt' \in [Slots -> Nat] /\ clock' \in Nat
  BY DEF Touch, CacheTypeOK

-----------------------------------------------------------------------------
(* The inductive invariant.                                                 *)

\* A dialogue is a sequence of tokens and not empty.
LEMMA DialogueIs ==
  ASSUME NEW d \in Dialogues
  PROVE  d \in Seq(TokenIds) /\ Len(d) \in Nat \ {0}
<1>1. PICK n \in 1 .. MaxDialogue : d \in [1 .. n -> TokenIds]
  BY DEF Dialogues
<1>2. n \in Nat \ {0}
  BY ClientAssumption
<1>3. d \in Seq(TokenIds)
  BY <1>1, <1>2, SeqDef
<1>4. Len(d) = n
  BY <1>1, <1>2, <1>3, LenProperties
<1> QED BY <1>2, <1>3, <1>4

\* The cache starts empty and owned by nobody.
LEMMA InitInvariant == Init => IndInv
<1> SUFFICES ASSUME Init PROVE IndInv
  OBVIOUS
<1> USE DEF Init, CacheInit
<1>1. CacheTypeOK
  <2>1. <<>> \in Seq(TokenIds)
    OBVIOUS
  <2> QED BY <2>1, KVCacheAssumption DEF CacheTypeOK
<1>2. TypeOK
  BY <1>1, KVCacheAssumption, ClientAssumption DEF TypeOK, Slots
<1>3. \A i \in Slots : Len(tokens[i]) = 0 /\ pos[i] = 0 /\ owner[i] = NoOwner
  OBVIOUS
<1> QED BY <1>2, <1>3
        DEF IndInv, ServedInv, RewindInv, ForwardInv, VectorsMatchTokens,
            RequestReadsItsDialogue, OneSlotPerSession, PosCountsTokens

\* What a slot cut down to a prefix of its tokens holds was computed from them.
LEMMA CutsKeepVectors ==
  ASSUME CacheTypeOK, VectorsMatchTokens, UNCHANGED buf,
         \A i \in Slots : \E n \in 0 .. Len(tokens[i]) : tokens'[i] = Prefix(tokens[i], n)
  PROVE  VectorsMatchTokens'
<1> SUFFICES ASSUME NEW i \in Slots, NEW l \in Layers, NEW p \in 0 .. Len(tokens'[i]) - 1
             PROVE  Vectors(i, l, p)' = Prefix(tokens'[i], p + 1)
  BY DEF VectorsMatchTokens
<1>1. PICK n \in 0 .. Len(tokens[i]) : tokens'[i] = Prefix(tokens[i], n)
  OBVIOUS
<1>2. tokens[i] \in Seq(TokenIds)
  BY DEF CacheTypeOK
<1>3. Len(tokens'[i]) = n
  BY <1>1, <1>2, PrefixIs
<1>4. p + 1 \in 0 .. n /\ p \in 0 .. Len(tokens[i]) - 1
  BY <1>2, <1>3
<1>5. Prefix(tokens'[i], p + 1) = Prefix(tokens[i], p + 1)
  BY <1>1, <1>2, <1>4, PrefixOfPrefix
<1>6. Vectors(i, l, p)' = Vectors(i, l, p)
  BY DEF Vectors, BufferIndex
<1> QED BY <1>4, <1>5, <1>6 DEF VectorsMatchTokens

\* The parts of the invariant about a request, when none is being computed.
LEMMA NothingComputed ==
  ASSUME stage' \in {"idle", "acquired"}
  PROVE  RewindInv' /\ ForwardInv' /\ RequestReadsItsDialogue'
  BY DEF RewindInv, ForwardInv, RequestReadsItsDialogue

\* A session that owns no slot takes one; one that does gets it.
LEMMA BeginStep ==
  ASSUME IndInv, NEW s \in SessionIds, NEW d \in Dialogues,
         NEW how \in {"write_at", "append"}, Begin(s, d, how)
  PROVE  IndInv'
<1> USE DEF IndInv
<1> DEFINE i == SlotFor(s)
<1>1. i \in Slots /\ (owner[i] # s => OwnedBy(s) = {})
  BY SlotForIs DEF TypeOK
<1>2. /\ IF owner[i] = s THEN UNCHANGED <<owner, pos, tokens, written>> ELSE Take(i, s)
      /\ Touch(i) /\ UNCHANGED buf
      /\ stage = "idle" /\ stage' = "acquired" /\ turn' = s /\ slot' = i /\ want' = d
      /\ style' = how /\ requests < MaxRequests /\ requests' = requests + 1
      /\ UNCHANGED <<at, todo>>
  BY DEF Begin, Acquire
<1> HIDE DEF i
<1>3. /\ owner' \in [Slots -> SessionIds \cup {NoOwner}]
      /\ \A j \in Slots : owner'[j] = IF j = i THEN s ELSE owner[j]
      /\ \A j \in Slots :
           \/ tokens'[j] = tokens[j] /\ pos'[j] = pos[j]
           \/ tokens'[j] = <<>> /\ pos'[j] = 0
      /\ tokens' \in [Slots -> Seq(TokenIds)] /\ pos' \in [Slots -> 0 .. NumCtx]
      /\ written' \in [Slots -> SUBSET Layers]
  <2> USE DEF TypeOK, CacheTypeOK
  <2>1. CASE owner[i] = s
    <3>1. UNCHANGED <<owner, pos, tokens, written>>
      BY <1>2, <2>1
    <3>2. \A j \in Slots : owner'[j] = IF j = i THEN s ELSE owner[j]
      BY <1>1, <2>1, <3>1
    <3>3. /\ owner' \in [Slots -> SessionIds \cup {NoOwner}]
          /\ tokens' \in [Slots -> Seq(TokenIds)] /\ pos' \in [Slots -> 0 .. NumCtx]
          /\ written' \in [Slots -> SUBSET Layers]
      BY <3>1
    <3> HIDE DEF IndInv, TypeOK, CacheTypeOK
    <3> QED BY <3>1, <3>2, <3>3
  <2>2. CASE owner[i] # s
    <3>1. /\ owner' = [owner EXCEPT ![i] = s] /\ pos' = [pos EXCEPT ![i] = 0]
          /\ tokens' = [tokens EXCEPT ![i] = <<>>] /\ written' = [written EXCEPT ![i] = {}]
      BY <1>2, <2>2 DEF Take
    <3>2. tokens' \in [Slots -> Seq(TokenIds)]
      BY <1>1, <3>1
    <3>3. pos' \in [Slots -> 0 .. NumCtx] /\ written' \in [Slots -> SUBSET Layers]
      BY <1>1, <3>1, KVCacheAssumption
    <3>4. ASSUME NEW j \in Slots
          PROVE  \/ tokens'[j] = tokens[j] /\ pos'[j] = pos[j]
                 \/ tokens'[j] = <<>> /\ pos'[j] = 0
      BY <1>1, <3>1
    <3>5. /\ owner' \in [Slots -> SessionIds \cup {NoOwner}]
          /\ \A j \in Slots : owner'[j] = IF j = i THEN s ELSE owner[j]
      BY <1>1, <3>1
    <3> HIDE DEF IndInv, TypeOK, CacheTypeOK
    <3> QED BY <3>2, <3>3, <3>4, <3>5
  <2> QED BY <2>1, <2>2
<1>4. CacheTypeOK'
  <2>1. touchedAt' \in [Slots -> Nat] /\ clock' \in Nat
    BY <1>1, <1>2, TouchTypes DEF TypeOK
  <2> QED BY <1>1, <1>2, <1>3, <2>1 DEF TypeOK, CacheTypeOK
<1>5. TypeOK'
  <2>1. requests' \in 0 .. MaxRequests
    BY <1>2, ClientAssumption DEF TypeOK
  <2> QED BY <1>1, <1>2, <1>4, <2>1 DEF TypeOK
<1>6. ServedInv'
  BY <1>1, <1>2, <1>3 DEF ServedInv, TypeOK, CacheTypeOK
<1>7. VectorsMatchTokens'
  <2> SUFFICES ASSUME NEW j \in Slots
               PROVE  \E n \in 0 .. Len(tokens[j]) : tokens'[j] = Prefix(tokens[j], n)
    BY <1>2, CutsKeepVectors DEF TypeOK
  <2>1. tokens[j] \in Seq(TokenIds)
    BY DEF TypeOK, CacheTypeOK
  <2>2. Prefix(tokens[j], Len(tokens[j])) = tokens[j]
    BY <2>1, PrefixFull
  <2>3. Prefix(tokens[j], 0) = <<>>
    BY <2>1, SubSeqEmpty DEF Prefix
  <2> QED BY <1>3, <2>1, <2>2, <2>3
<1>8. OneSlotPerSession'
  <2> SUFFICES ASSUME NEW j \in Slots, NEW k \in Slots,
                      owner'[j] = owner'[k], owner'[j] # NoOwner
               PROVE  j = k
    BY DEF OneSlotPerSession
  <2>1. CASE owner[i] = s
    BY <1>1, <1>3, <2>1 DEF OneSlotPerSession
  <2>2. CASE owner[i] # s
    BY <1>1, <1>3, <2>2 DEF OneSlotPerSession, OwnedBy
  <2> QED BY <2>1, <2>2
<1>9. PosCountsTokens'
  BY <1>2, <1>3 DEF PosCountsTokens
<1> QED BY <1>2, <1>5, <1>6, <1>7, <1>8, <1>9, NothingComputed

\* Cutting the request's slot to what it shares with d.
LEMMA CutStep ==
  ASSUME IndInv, stage \in {"acquired", "rewind"}, NEW d \in Seq(TokenIds),
         ReusePrefix(slot, d), at' = pos'[slot],
         stage' \in {"forward", "rewind"}, UNCHANGED <<turn, slot, want, style, requests>>,
         todo' = Layers
  PROVE  /\ TypeOK' /\ ServedInv' /\ VectorsMatchTokens' /\ OneSlotPerSession'
         /\ \A i \in Slots : Len(tokens'[i]) <= pos'[i] /\ pos'[i] <= Len(tokens'[i]) + 1
         /\ LET n == Lcp(tokens[slot], d)
            IN /\ n \in 0 .. Len(tokens[slot]) /\ IsLcp(tokens[slot], d, n)
               /\ tokens'[slot] = Prefix(d, n) /\ Len(tokens'[slot]) = n
               /\ pos'[slot] = n /\ at' = n /\ written'[slot] = {}
<1> USE DEF IndInv
<1> DEFINE n == Lcp(tokens[slot], d)
<1>1. /\ tokens' = [tokens EXCEPT ![slot] = Prefix(tokens[slot], n)]
      /\ pos' = [pos EXCEPT ![slot] = n]
      /\ written' = [written EXCEPT ![slot] = {}]
      /\ Touch(slot) /\ UNCHANGED <<owner, buf>>
  BY DEF ReusePrefix, PosAfterReuse
<1>2. slot \in Slots /\ tokens \in [Slots -> Seq(TokenIds)] /\ pos \in [Slots -> 0 .. NumCtx]
  BY DEF TypeOK, CacheTypeOK
<1>3. tokens[slot] \in Seq(TokenIds) /\ pos[slot] \in 0 .. NumCtx
  BY <1>2
<1>4. n \in 0 .. Len(tokens[slot]) /\ IsLcp(tokens[slot], d, n)
  BY <1>3, LcpIsLcp
<1> HIDE DEF n
<1>5. n <= NumCtx /\ n \in Nat /\ NumCtx \in Nat
  BY <1>2, <1>3, <1>4, KVCacheAssumption DEF PosCountsTokens
<1>6. /\ Prefix(tokens[slot], n) = Prefix(d, n) /\ Len(Prefix(tokens[slot], n)) = n
      /\ Prefix(tokens[slot], n) \in Seq(TokenIds)
  <2>1. n <= Len(tokens[slot]) /\ n <= Len(d) /\ \A k \in 1 .. n : tokens[slot][k] = d[k]
    BY <1>4 DEF IsLcp
  <2>2. Prefix(tokens[slot], n) = Prefix(d, n)
    BY <1>3, <1>5, <2>1, SamePrefix
  <2> QED BY <1>3, <1>4, <2>2, PrefixIs
<1>7. /\ tokens'[slot] = Prefix(d, n) /\ Len(tokens'[slot]) = n
      /\ pos'[slot] = n /\ at' = n /\ written'[slot] = {}
  <2>1. written \in [Slots -> SUBSET Layers]
    BY DEF TypeOK, CacheTypeOK
  <2> QED BY <1>1, <1>2, <1>6, <2>1
<1>8. TypeOK'
  <2>1. tokens' \in [Slots -> Seq(TokenIds)]
    BY <1>1, <1>2, <1>6
  <2>2. pos' \in [Slots -> 0 .. NumCtx]
    BY <1>1, <1>2, <1>5
  <2>3. written' \in [Slots -> SUBSET Layers]
    BY <1>1 DEF TypeOK, CacheTypeOK
  <2>4. touchedAt' \in [Slots -> Nat] /\ clock' \in Nat
    BY <1>1, <1>2, TouchTypes DEF TypeOK
  <2>5. CacheTypeOK'
    BY <1>1, <2>1, <2>2, <2>3, <2>4 DEF TypeOK, CacheTypeOK
  <2>6. at' \in 0 .. NumCtx /\ todo' \in SUBSET Layers
    BY <1>5, <1>7
  <2> QED BY <2>5, <2>6 DEF TypeOK
<1>9. ServedInv' /\ OneSlotPerSession'
  BY <1>1 DEF ServedInv, OneSlotPerSession
<1>10. VectorsMatchTokens'
  <2> SUFFICES ASSUME NEW j \in Slots
               PROVE  \E m \in 0 .. Len(tokens[j]) : tokens'[j] = Prefix(tokens[j], m)
    BY <1>1, CutsKeepVectors DEF TypeOK
  <2>1. tokens[j] \in Seq(TokenIds)
    BY <1>2
  <2>2. CASE j = slot
    BY <1>1, <1>2, <1>4, <2>2
  <2>3. CASE j # slot
    <3>1. tokens'[j] = tokens[j]
      BY <1>1, <1>2, <2>3
    <3>2. Prefix(tokens[j], Len(tokens[j])) = tokens[j] /\ Len(tokens[j]) \in 0 .. Len(tokens[j])
      BY <2>1, PrefixFull
    <3> QED BY <3>1, <3>2
  <2> QED BY <2>2, <2>3
<1>11. ASSUME NEW i \in Slots
       PROVE  Len(tokens'[i]) <= pos'[i] /\ pos'[i] <= Len(tokens'[i]) + 1
  <2>1. CASE i = slot
    BY <1>5, <1>7, <2>1
  <2>2. CASE i # slot
    <3>1. tokens'[i] = tokens[i] /\ pos'[i] = pos[i]
      BY <1>1, <1>2, <2>2
    <3> QED BY <3>1 DEF PosCountsTokens
  <2> QED BY <2>1, <2>2
<1> QED BY <1>4, <1>7, <1>8, <1>9, <1>10, <1>11 DEF n

\* A request that is about to run its first layer, over n tokens it found.
LEMMA ForwardBegins ==
  ASSUME TypeOK', ServedInv', VectorsMatchTokens', OneSlotPerSession',
         \A i \in Slots : Len(tokens'[i]) <= pos'[i] /\ pos'[i] <= Len(tokens'[i]) + 1,
         stage' = "forward", todo' = Layers, NEW n \in Nat, n < Len(want'),
         tokens'[slot'] = Prefix(want', n), Len(tokens'[slot']) = n,
         pos'[slot'] = n, at' = n, written'[slot'] = {}
  PROVE  IndInv'
<1>1. want' \in Seq(TokenIds) /\ slot' \in Slots /\ at' \in 0 .. NumCtx
  BY DialogueIs DEF ServedInv, TypeOK
<1>2. 0 \in Layers
  BY KVCacheAssumption DEF Layers
<1>3. ForwardInv'
  BY <1>1, <1>2 DEF ForwardInv
<1>4. RequestReadsItsDialogue'
  <2>1. ASSUME NEW l \in Layers, NEW p \in 0 .. at' - 1
        PROVE  Vectors(slot, l, p)' = Prefix(want', p + 1)
    <3>1. p \in 0 .. Len(tokens'[slot']) - 1 /\ p + 1 \in 0 .. n /\ n \in 0 .. Len(want')
      BY <1>1
    <3>2. Vectors(slot, l, p)' = Prefix(tokens'[slot'], p + 1)
      BY <1>1, <3>1 DEF VectorsMatchTokens
    <3> QED BY <1>1, <3>1, <3>2, PrefixOfPrefix
  <2> QED BY <2>1 DEF RequestReadsItsDialogue, ServedInv
<1>5. PosCountsTokens' /\ RewindInv'
  BY DEF PosCountsTokens, RewindInv
<1> QED BY <1>3, <1>4, <1>5 DEF IndInv

\* reuse_prefix cuts the slot back to what its tokens share with the dialogue.
LEMMA ReuseStep ==
  ASSUME IndInv, Reuse
  PROVE  IndInv'
<1> USE DEF IndInv
<1> DEFINE n == Lcp(tokens[slot], want)
<1>1. /\ stage = "acquired" /\ ReusePrefix(slot, want) /\ at' = pos'[slot] /\ todo' = Layers
      /\ stage' = IF pos'[slot] < Len(want) THEN "forward" ELSE "rewind"
      /\ UNCHANGED <<turn, slot, want, style, requests>>
  BY DEF Reuse
<1>2. want \in Seq(TokenIds)
  BY <1>1, DialogueIs DEF ServedInv
<1>3. /\ TypeOK' /\ ServedInv' /\ VectorsMatchTokens' /\ OneSlotPerSession'
      /\ \A i \in Slots : Len(tokens'[i]) <= pos'[i] /\ pos'[i] <= Len(tokens'[i]) + 1
      /\ n \in 0 .. Len(tokens[slot]) /\ IsLcp(tokens[slot], want, n)
      /\ tokens'[slot] = Prefix(want, n) /\ Len(tokens'[slot]) = n
      /\ pos'[slot] = n /\ at' = n /\ written'[slot] = {}
  BY <1>1, <1>2, CutStep
<1> HIDE DEF n
<1>4. CASE n < Len(want)
  BY <1>1, <1>3, <1>4, ForwardBegins
<1>5. CASE ~(n < Len(want))
  <2>1. n = Len(want) /\ stage' = "rewind"
    BY <1>1, <1>2, <1>3, <1>5 DEF IsLcp
  <2>2. tokens'[slot] = want
    BY <1>2, <1>3, <2>1, PrefixFull
  <2> QED BY <1>1, <1>3, <2>1, <2>2
          DEF RewindInv, ForwardInv, RequestReadsItsDialogue, PosCountsTokens
<1> QED BY <1>4, <1>5

\* The cut to all tokens but the last leaves just that one to run.
LEMMA RewindStep ==
  ASSUME IndInv, Rewind
  PROVE  IndInv'
<1> USE DEF IndInv
<1> DEFINE d == Front(want)
           n == Lcp(tokens[slot], d)
<1>1. /\ stage = "rewind" /\ ReusePrefix(slot, d) /\ at' = pos'[slot] /\ stage' = "forward"
      /\ UNCHANGED <<turn, slot, want, todo, style, requests>>
  BY DEF Rewind
<1>2. /\ want \in Seq(TokenIds) /\ Len(want) \in Nat \ {0}
      /\ tokens[slot] = want /\ todo = Layers
  BY <1>1, DialogueIs DEF ServedInv, RewindInv
<1>3. d = Prefix(want, Len(want) - 1)
  BY DEF Front, Prefix
<1>4. /\ d \in Seq(TokenIds) /\ Len(d) = Len(want) - 1
      /\ \A k \in 1 .. Len(want) - 1 : d[k] = want[k]
  <2>0. \A x \in Nat \ {0} : x - 1 \in 0 .. x
    OBVIOUS
  <2>1. PICK m \in 0 .. Len(want) : m = Len(want) - 1
    <3>1. Len(want) - 1 \in 0 .. Len(want)
      BY <1>2, <2>0
    <3> QED BY <3>1
  <2>2. /\ Prefix(want, m) \in Seq(TokenIds) /\ Len(Prefix(want, m)) = m
        /\ \A k \in 1 .. m : Prefix(want, m)[k] = want[k]
    BY <1>2, PrefixIs
  <2>3. d = Prefix(want, m)
    BY <1>3, <2>1
  <2> HIDE DEF d
  <2>4. d \in Seq(TokenIds) /\ Len(d) = m /\ \A k \in 1 .. m : d[k] = want[k]
    BY <2>2, <2>3
  <2> QED BY <2>1, <2>4
<1> HIDE DEF d
<1>5. /\ TypeOK' /\ ServedInv' /\ VectorsMatchTokens' /\ OneSlotPerSession'
      /\ \A i \in Slots : Len(tokens'[i]) <= pos'[i] /\ pos'[i] <= Len(tokens'[i]) + 1
      /\ n \in 0 .. Len(tokens[slot]) /\ IsLcp(tokens[slot], d, n)
      /\ tokens'[slot] = Prefix(d, n) /\ Len(tokens'[slot]) = n
      /\ pos'[slot] = n /\ at' = n /\ written'[slot] = {}
  BY <1>1, <1>2, <1>4, CutStep
<1> HIDE DEF n
<1>6. n \in Nat /\ n <= Len(d)
  BY <1>2, <1>5 DEF IsLcp
<1>7. tokens'[slot] = Prefix(want, n)
  BY <1>2, <1>3, <1>4, <1>5, <1>6, PrefixOfPrefix
<1> QED BY <1>1, <1>2, <1>4, <1>5, <1>6, <1>7, ForwardBegins

\* Past the end of the context a layer writes nothing.
LEMMA RunLayerPastTheEnd ==
  ASSUME IndInv, NEW l \in Layers, RunLayer(l), at = NumCtx
  PROVE  IndInv'
<1> USE DEF IndInv
<1>1. /\ stage = "forward" /\ at < Len(want) /\ l \in todo /\ todo' = todo \ {l}
      /\ UNCHANGED <<turn, slot, want, at, stage, style, requests>>
  BY DEF RunLayer
<1>2. pos[slot] = NumCtx /\ NumCtx \in Nat
  BY <1>1, KVCacheAssumption DEF ForwardInv
<1>3. UNCHANGED cacheVars
  BY <1>2 DEF RunLayer, AppendKV, WriteAt, Full
<1>4. TypeOK'
  BY <1>1, <1>3 DEF TypeOK, CacheTypeOK, cacheVars
<1>5. ServedInv' /\ RewindInv' /\ OneSlotPerSession'
  BY <1>1, <1>3 DEF ServedInv, RewindInv, OneSlotPerSession, cacheVars
<1>6. ForwardInv'
  BY <1>1, <1>2, <1>3 DEF ForwardInv, cacheVars
<1>7. VectorsMatchTokens' /\ RequestReadsItsDialogue'
  BY <1>1, <1>2, <1>3
     DEF VectorsMatchTokens, RequestReadsItsDialogue, cacheVars, Vectors, BufferIndex
<1>8. PosCountsTokens'
  BY <1>1, <1>2, <1>3 DEF PosCountsTokens, cacheVars
<1> QED BY <1>4, <1>5, <1>6, <1>7, <1>8

\* The vector a layer leaves is that of the dialogue up to here.
LEMMA ComputedIs ==
  ASSUME IndInv, stage = "forward", at < Len(want), at < NumCtx, NEW l \in Layers
  PROVE  Computed(l) = Prefix(want, at + 1) /\ Computed(l) \in Seq(TokenIds)
<1> USE DEF IndInv
<1>1. want \in Seq(TokenIds) /\ at \in Nat
  BY DialogueIs, KVCacheAssumption DEF ServedInv, TypeOK
<1>2. Prefix(want, at + 1) = Append(Prefix(want, at), want[at + 1])
  BY <1>1, PrefixGrows
<1>3. Prefix(want, at + 1) \in Seq(TokenIds)
  <2>1. at + 1 \in 0 .. Len(want)
    BY <1>1
  <2> QED BY <1>1, <2>1, PrefixIs
<1>4. CASE at = 0
  <2>1. Prefix(want, at) = <<>>
    BY <1>1, <1>4, SubSeqEmpty DEF Prefix
  <2> QED BY <1>2, <1>3, <1>4, <2>1 DEF Computed
<1>5. CASE at # 0
  <2>1. at - 1 \in 0 .. at - 1 /\ (at - 1) + 1 = at
    BY <1>1, <1>5
  <2>2. Vectors(slot, l, at - 1) = Prefix(want, at)
    BY <2>1 DEF RequestReadsItsDialogue
  <2> QED BY <1>2, <1>3, <1>5, <2>2 DEF Computed
<1> QED BY <1>4, <1>5

\* A layer writes at the position behind the slot's tokens, so that what they
\* stand for is left alone; the last one to append moves pos.
LEMMA RunLayerWrites ==
  ASSUME IndInv, NEW l \in Layers, RunLayer(l), at # NumCtx
  PROVE  IndInv'
<1> USE DEF IndInv
<1>1. /\ stage = "forward" /\ at < Len(want) /\ l \in todo /\ todo' = todo \ {l}
      /\ UNCHANGED <<turn, slot, want, at, stage, style, requests>>
  BY DEF RunLayer
<1>2. /\ slot \in Slots /\ NumCtx \in Nat /\ at \in Nat /\ at < NumCtx /\ at \in Positions
      /\ todo \subseteq Layers
  BY KVCacheAssumption DEF TypeOK, Positions
<1>3. Len(tokens[slot]) = at /\ pos[slot] = at /\ tokens \in [Slots -> Seq(TokenIds)]
  BY <1>1 DEF ForwardInv, TypeOK, CacheTypeOK
<1>4. Computed(l) = Prefix(want, at + 1) /\ Computed(l) \in Seq(TokenIds)
  BY <1>1, <1>2, ComputedIs
<1>5. /\ buf' = [buf EXCEPT ![BufferIndex(slot, l)][at] = Computed(l)]
      /\ Touch(slot) /\ UNCHANGED <<owner, tokens>>
  BY <1>2, <1>3 DEF RunLayer, AppendKV, WriteAt, Full
<1>6. /\ buf' \in [Buffers -> [Positions -> Seq(TokenIds)]]
      /\ \A j \in Slots, m \in Layers, q \in Positions :
           Vectors(j, m, q)' = IF j = slot /\ m = l /\ q = at THEN Computed(l)
                               ELSE Vectors(j, m, q)
  <2> DEFINE c == Computed(l)
  <2>1. /\ buf \in [Buffers -> [Positions -> Seq(TokenIds)]] /\ c \in Seq(TokenIds)
        /\ buf' = [buf EXCEPT ![BufferIndex(slot, l)][at] = c]
    BY <1>4, <1>5 DEF TypeOK, CacheTypeOK
  <2>2. BufferIndex(slot, l) \in Buffers
    BY <1>2, BuffersApart
  <2> HIDE DEF c
  <2>3. buf' \in [Buffers -> [Positions -> Seq(TokenIds)]]
    BY <1>2, <2>1, <2>2
  <2>4. ASSUME NEW j \in Slots, NEW m \in Layers, NEW q \in Positions
        PROVE  buf'[BufferIndex(j, m)][q] = IF j = slot /\ m = l /\ q = at THEN c
                                            ELSE buf[BufferIndex(j, m)][q]
    <3>1. /\ BufferIndex(j, m) \in Buffers
          /\ BufferIndex(slot, l) = BufferIndex(j, m) => slot = j /\ l = m
      BY <1>2, BuffersApart
    <3>2. CASE j = slot /\ m = l
      BY <2>1, <2>2, <3>2
    <3>3. CASE ~(j = slot /\ m = l)
      BY <2>1, <2>2, <3>1, <3>3
    <3> QED BY <3>2, <3>3
  <2> QED BY <2>3, <2>4 DEF Vectors, BufferIndex, c
<1>7. /\ written' \in [Slots -> SUBSET Layers] /\ pos' \in [Slots -> 0 .. NumCtx]
      /\ \A j \in Slots : j # slot => pos'[j] = pos[j]
      /\ pos'[slot] = IF style = "append" /\ todo' = {} THEN at + 1 ELSE at
      /\ style = "append" /\ todo' # {} => written'[slot] = Layers \ todo'
  <2>1. CASE style = "append"
    <3> DEFINE w == written[slot] \cup {l}
    <3>1. /\ written' = [written EXCEPT ![slot] = IF w = Layers THEN {} ELSE w]
          /\ pos' = [pos EXCEPT ![slot] = IF w = Layers THEN pos[slot] + 1 ELSE pos[slot]]
      BY <1>2, <1>3, <2>1 DEF RunLayer, AppendKV, Full
    <3>2. w = Layers \ todo'
      <4>1. written[slot] = Layers \ todo
        BY <1>1, <1>2, <2>1 DEF ForwardInv
      <4> QED BY <1>1, <1>2, <4>1
    <3>3. w = Layers <=> todo' = {}
      BY <1>1, <1>2, <3>2
    <3>4. written \in [Slots -> SUBSET Layers] /\ pos \in [Slots -> 0 .. NumCtx]
      BY DEF TypeOK, CacheTypeOK
    <3> HIDE DEF w
    <3>5. written' \in [Slots -> SUBSET Layers] /\ pos' \in [Slots -> 0 .. NumCtx]
      <4>1. w \subseteq Layers /\ at + 1 \in 0 .. NumCtx
        BY <1>2, <3>2
      <4> QED BY <1>2, <1>3, <3>1, <3>4, <4>1
    <3> QED BY <1>2, <1>3, <2>1, <3>1, <3>2, <3>3, <3>4, <3>5
  <2>2. CASE style # "append"
    <3>1. UNCHANGED <<pos, written>>
      BY <1>2, <2>2 DEF RunLayer, WriteAt
    <3> QED BY <1>3, <2>2, <3>1 DEF TypeOK, CacheTypeOK
  <2> QED BY <2>1, <2>2
<1>8. TypeOK'
  <2>1. touchedAt' \in [Slots -> Nat] /\ clock' \in Nat
    BY <1>2, <1>5, TouchTypes DEF TypeOK
  <2>2. CacheTypeOK'
    BY <1>5, <1>6, <1>7, <2>1 DEF TypeOK, CacheTypeOK
  <2> QED BY <1>1, <1>2, <2>2 DEF TypeOK
<1>9. ServedInv' /\ RewindInv' /\ OneSlotPerSession'
  BY <1>1, <1>5 DEF ServedInv, RewindInv, OneSlotPerSession
<1>10. ForwardInv'
  BY <1>1, <1>2, <1>3, <1>5, <1>7 DEF ForwardInv
<1>11. VectorsMatchTokens'
  <2> SUFFICES ASSUME NEW i \in Slots, NEW m \in Layers, NEW p \in 0 .. Len(tokens[i]) - 1
               PROVE  Vectors(i, m, p)' = Prefix(tokens[i], p + 1)
    BY <1>5 DEF VectorsMatchTokens
  <2>1. p \in Positions /\ (i = slot => p # at)
    <3>1. Len(tokens[i]) \in Nat /\ Len(tokens[i]) <= pos[i] /\ pos[i] \in 0 .. NumCtx
      BY <1>3 DEF PosCountsTokens, TypeOK, CacheTypeOK
    <3> QED BY <1>2, <1>3, <3>1 DEF Positions
  <2>2. Vectors(i, m, p)' = Vectors(i, m, p)
    BY <1>6, <2>1
  <2> QED BY <2>2 DEF VectorsMatchTokens
<1>12. RequestReadsItsDialogue'
  <2>1. ASSUME NEW m \in Layers, NEW p \in 0 .. at - 1
        PROVE  Vectors(slot, m, p)' = Prefix(want, p + 1)
    <3>1. p \in Positions /\ p # at
      BY <1>2 DEF Positions
    <3> QED BY <1>1, <1>2, <1>6, <3>1 DEF RequestReadsItsDialogue
  <2>2. ASSUME NEW m \in Layers \ todo'
        PROVE  Vectors(slot, m, at)' = Prefix(want, at + 1)
    <3>1. CASE m = l
      BY <1>1, <1>2, <1>4, <1>6, <3>1
    <3>2. CASE m # l
      <4>1. m \in Layers \ todo
        BY <1>1, <3>2
      <4> QED BY <1>1, <1>2, <1>6, <3>2, <4>1 DEF RequestReadsItsDialogue
    <3> QED BY <3>1, <3>2
  <2> QED BY <1>1, <1>5, <2>1, <2>2 DEF RequestReadsItsDialogue
<1>13. PosCountsTokens'
  <2>1. todo' # Layers
    BY <1>1
  <2>2. ASSUME NEW i \in Slots
        PROVE  Len(tokens'[i]) <= pos'[i] /\ pos'[i] <= Len(tokens'[i]) + 1
    <3>1. CASE i = slot
      BY <1>2, <1>3, <1>5, <1>7, <3>1
    <3>2. CASE i # slot
      BY <1>5, <1>7, <3>2 DEF PosCountsTokens
    <3> QED BY <3>1, <3>2
  <2> QED BY <2>1, <2>2 DEF PosCountsTokens
<1> QED BY <1>8, <1>9, <1>10, <1>11, <1>12, <1>13

\* commit_token at a slot that is full: only the request moves on.
LEMMA CommitFull ==
  ASSUME IndInv, Commit, Full(slot)
  PROVE  IndInv'
<1> USE DEF IndInv
<1>1. /\ stage = "forward" /\ todo = {} /\ UNCHANGED cacheVars
      /\ at' = pos[slot] /\ todo' = Layers
      /\ UNCHANGED <<turn, slot, want, stage, style, requests>>
  BY DEF Commit, CommitToken, cacheVars
<1>2. /\ slot \in Slots /\ NumCtx \in Nat /\ at \in 0 .. NumCtx /\ 0 \in Layers
      /\ pos[slot] = NumCtx /\ tokens[slot] \in Seq(TokenIds)
  BY KVCacheAssumption DEF TypeOK, CacheTypeOK, Full, Layers
<1>3. at < Len(want) /\ Len(want) \in Nat /\ (at = NumCtx \/ at + 1 = NumCtx)
  BY <1>1, <1>2, DialogueIs DEF ForwardInv, ServedInv
<1>4. at' = NumCtx /\ at' <= Len(want) /\ Len(tokens[slot]) <= NumCtx
  BY <1>1, <1>2, <1>3 DEF ForwardInv
<1>5. TypeOK'
  BY <1>1, <1>2, <1>4 DEF TypeOK, CacheTypeOK, cacheVars
<1>6. ServedInv' /\ RewindInv' /\ OneSlotPerSession' /\ VectorsMatchTokens'
  BY <1>1 DEF ServedInv, RewindInv, OneSlotPerSession, VectorsMatchTokens, cacheVars,
              Vectors, BufferIndex
<1>7. ForwardInv'
  BY <1>1, <1>2, <1>4 DEF ForwardInv, cacheVars
<1>8. RequestReadsItsDialogue'
  <2>1. ASSUME NEW l \in Layers, NEW p \in 0 .. NumCtx - 1
        PROVE  Vectors(slot, l, p) = Prefix(want, p + 1)
    <3>1. CASE p \in 0 .. at - 1
      BY <1>1, <3>1 DEF RequestReadsItsDialogue
    <3>2. CASE p \notin 0 .. at - 1
      <4>1. p = at /\ at < NumCtx
        BY <1>2, <1>3, <3>2
      <4> QED BY <1>1, <4>1 DEF RequestReadsItsDialogue
    <3> QED BY <3>1, <3>2
  <2>2. \A l \in Layers, p \in Positions : Vectors(slot, l, p)' = Vectors(slot, l, p)
    BY <1>1 DEF cacheVars, Vectors, BufferIndex
  <2>3. owner'[slot'] = turn'
    BY <1>1 DEF ServedInv, cacheVars
  <2> QED BY <1>1, <1>2, <1>4, <2>1, <2>2, <2>3 DEF RequestReadsItsDialogue, Positions
<1>9. PosCountsTokens'
  BY <1>1, <1>2, <1>4 DEF PosCountsTokens, cacheVars
<1> QED BY <1>5, <1>6, <1>7, <1>8, <1>9

\* commit_token takes the token in and, unless append() did, moves pos.
LEMMA CommitTakes ==
  ASSUME IndInv, Commit, ~Full(slot)
  PROVE  IndInv'
<1> USE DEF IndInv
<1>1. /\ stage = "forward" /\ todo = {} /\ CommitToken(slot, want[at + 1])
      /\ at' = pos'[slot] /\ todo' = Layers
      /\ UNCHANGED <<turn, slot, want, stage, style, requests>>
  BY DEF Commit
<1>2. /\ slot \in Slots /\ NumCtx \in Nat /\ at \in 0 .. NumCtx /\ 0 \in Layers
      /\ tokens \in [Slots -> Seq(TokenIds)] /\ pos \in [Slots -> 0 .. NumCtx]
      /\ tokens[slot] \in Seq(TokenIds) /\ pos[slot] < NumCtx /\ pos[slot] \in Nat
  BY KVCacheAssumption DEF TypeOK, CacheTypeOK, Full, Layers
<1>3. /\ want \in Seq(TokenIds) /\ at < Len(want) /\ Len(want) \in Nat
      /\ at < NumCtx /\ Len(tokens[slot]) = at /\ pos[slot] \in {at, at + 1}
      /\ tokens[slot] = Prefix(want, at)
  BY <1>1, <1>2, DialogueIs DEF ForwardInv, ServedInv
<1> DEFINE longer == Append(tokens[slot], want[at + 1])
<1>4. TokensAfterCommit(slot, want[at + 1]) = longer
  <2>1. Len(tokens[slot]) < pos[slot] + 1
    BY <1>2, <1>3
  <2> QED BY <2>1 DEF TokensAfterCommit
<1>5. longer \in Seq(TokenIds) /\ Len(longer) = at + 1 /\ longer = Prefix(want, at + 1)
  <2>1. want[at + 1] \in TokenIds
    BY <1>2, <1>3
  <2>2. longer \in Seq(TokenIds) /\ Len(longer) = Len(tokens[slot]) + 1
    BY <1>2, <2>1, AppendProperties
  <2> QED BY <1>2, <1>3, <2>2, PrefixGrows
<1> HIDE DEF longer
<1>6. /\ tokens' = [tokens EXCEPT ![slot] = longer]
      /\ pos' = [pos EXCEPT ![slot] = at + 1]
      /\ written' = [written EXCEPT ![slot] = {}]
      /\ Touch(slot) /\ UNCHANGED <<owner, buf>>
  <2>1. PosAfterCommit(slot, at + 1) = at + 1
    BY <1>2, <1>3 DEF PosAfterCommit
  <2> QED BY <1>1, <1>4, <1>5, <2>1 DEF CommitToken
<1>7. /\ tokens'[slot] = Prefix(want, at + 1) /\ Len(tokens'[slot]) = at + 1
      /\ pos'[slot] = at + 1 /\ at' = at + 1 /\ written'[slot] = {}
  <2>1. written \in [Slots -> SUBSET Layers]
    BY DEF TypeOK, CacheTypeOK
  <2> QED BY <1>1, <1>2, <1>5, <1>6, <2>1
<1>8. TypeOK'
  <2>1. at + 1 \in 0 .. NumCtx
    BY <1>2, <1>3
  <2>2. tokens' \in [Slots -> Seq(TokenIds)]
    BY <1>2, <1>5, <1>6
  <2>3. pos' \in [Slots -> 0 .. NumCtx] /\ written' \in [Slots -> SUBSET Layers]
    BY <1>2, <1>6, <2>1 DEF TypeOK, CacheTypeOK
  <2>4. touchedAt' \in [Slots -> Nat] /\ clock' \in Nat
    BY <1>2, <1>6, TouchTypes DEF TypeOK
  <2>5. CacheTypeOK'
    BY <1>6, <2>2, <2>3, <2>4 DEF TypeOK, CacheTypeOK
  <2> QED BY <1>1, <1>7, <2>1, <2>5 DEF TypeOK
<1>9. ServedInv' /\ RewindInv' /\ OneSlotPerSession'
  BY <1>1, <1>6 DEF ServedInv, RewindInv, OneSlotPerSession
<1>10. ForwardInv'
  BY <1>1, <1>2, <1>3, <1>7 DEF ForwardInv
\* Below the new position every layer has left the dialogue's vectors.
<1>11. ASSUME NEW l \in Layers, NEW p \in 0 .. at
       PROVE  Vectors(slot, l, p)' = Prefix(want, p + 1)
  <2>1. Vectors(slot, l, p)' = Vectors(slot, l, p)
    BY <1>1, <1>6 DEF Vectors, BufferIndex
  <2>2. CASE p = at
    BY <1>1, <1>3, <2>1, <2>2 DEF RequestReadsItsDialogue
  <2>3. CASE p # at
    <3>1. p \in 0 .. at - 1
      BY <1>2, <2>3
    <3> QED BY <1>1, <2>1, <3>1 DEF RequestReadsItsDialogue
  <2> QED BY <2>2, <2>3
<1>12. RequestReadsItsDialogue'
  <2>1. owner'[slot'] = turn'
    BY <1>1, <1>6 DEF ServedInv
  <2>2. \A l \in Layers : \A p \in 0 .. at' - 1 : Vectors(slot, l, p)' = Prefix(want', p + 1)
    BY <1>1, <1>2, <1>7, <1>11
  <2> QED BY <1>1, <2>1, <2>2 DEF RequestReadsItsDialogue
<1>13. VectorsMatchTokens'
  <2> SUFFICES ASSUME NEW i \in Slots, NEW l \in Layers, NEW p \in 0 .. Len(tokens'[i]) - 1
               PROVE  Vectors(i, l, p)' = Prefix(tokens'[i], p + 1)
    BY DEF VectorsMatchTokens
  <2>1. CASE i = slot
    <3>1. p \in 0 .. at /\ p + 1 \in 0 .. at + 1 /\ at + 1 \in 0 .. Len(want)
      BY <1>2, <1>3, <1>7, <2>1
    <3>2. Prefix(tokens'[slot], p + 1) = Prefix(want, p + 1)
      BY <1>3, <1>7, <3>1, PrefixOfPrefix
    <3> QED BY <1>1, <1>11, <2>1, <3>1, <3>2
  <2>2. CASE i # slot
    <3>1. tokens'[i] = tokens[i]
      BY <1>2, <1>6, <2>2
    <3>2. Vectors(i, l, p)' = Vectors(i, l, p)
      BY <1>6 DEF Vectors, BufferIndex
    <3> QED BY <3>1, <3>2 DEF VectorsMatchTokens
  <2> QED BY <2>1, <2>2
<1>14. PosCountsTokens'
  <2>1. ASSUME NEW i \in Slots
        PROVE  Len(tokens'[i]) <= pos'[i] /\ pos'[i] <= Len(tokens'[i]) + 1
    <3>1. CASE i = slot
      BY <1>2, <1>7, <3>1
    <3>2. CASE i # slot
      <4>1. tokens'[i] = tokens[i] /\ pos'[i] = pos[i]
        BY <1>2, <1>6, <3>2
      <4> QED BY <4>1 DEF PosCountsTokens
    <3> QED BY <3>1, <3>2
  <2> QED BY <1>1, <1>7, <2>1 DEF PosCountsTokens
<1> QED BY <1>8, <1>9, <1>10, <1>12, <1>13, <1>14

\* The request is over; the slot stays, or is given back empty.
LEMMA GoIdleStep ==
  ASSUME IndInv, Leave \/ GiveBack
  PROVE  IndInv'
<1> USE DEF IndInv
<1>1. /\ stage' = "idle" /\ turn' = NoOwner /\ at' = 0 /\ todo' = Layers /\ want' = <<>>
      /\ UNCHANGED <<slot, style, requests>>
  BY DEF Leave, GiveBack, GoIdle
<1>2. ServedInv'
  BY <1>1 DEF ServedInv
<1>3. at' \in 0 .. NumCtx
  BY <1>1, KVCacheAssumption
<1>4. CASE Leave
  <2>1. UNCHANGED cacheVars
    BY <1>4 DEF Leave
  <2>2. TypeOK'
    BY <1>1, <1>3, <2>1 DEF TypeOK, CacheTypeOK, cacheVars
  <2>3. VectorsMatchTokens' /\ OneSlotPerSession' /\ PosCountsTokens'
    BY <1>1, <2>1 DEF VectorsMatchTokens, OneSlotPerSession, PosCountsTokens, cacheVars,
                      Vectors, BufferIndex
  <2> QED BY <1>1, <1>2, <2>2, <2>3, NothingComputed
<1>5. CASE GiveBack
  <2>1. /\ owner' = [owner EXCEPT ![slot] = NoOwner] /\ pos' = [pos EXCEPT ![slot] = 0]
        /\ tokens' = [tokens EXCEPT ![slot] = <<>>] /\ written' = [written EXCEPT ![slot] = {}]
        /\ UNCHANGED <<touchedAt, clock, buf>>
    BY <1>5 DEF GiveBack, Release
  <2>2. /\ slot \in Slots /\ tokens \in [Slots -> Seq(TokenIds)]
        /\ pos \in [Slots -> 0 .. NumCtx] /\ owner \in [Slots -> SessionIds \cup {NoOwner}]
        /\ written \in [Slots -> SUBSET Layers]
    BY DEF TypeOK, CacheTypeOK
  <2>3. TypeOK'
    <3>1. tokens' \in [Slots -> Seq(TokenIds)]
      BY <2>1, <2>2
    <3>2. pos' \in [Slots -> 0 .. NumCtx]
      BY <2>1, <2>2, KVCacheAssumption
    <3>3. owner' \in [Slots -> SessionIds \cup {NoOwner}] /\ written' \in [Slots -> SUBSET Layers]
      BY <2>1, <2>2
    <3>4. CacheTypeOK'
      BY <2>1, <3>1, <3>2, <3>3 DEF TypeOK, CacheTypeOK
    <3> QED BY <1>1, <1>3, <3>4 DEF TypeOK
  <2>4. VectorsMatchTokens'
    <3> SUFFICES ASSUME NEW j \in Slots
                 PROVE  \E n \in 0 .. Len(tokens[j]) : tokens'[j] = Prefix(tokens[j], n)
      BY <2>1, CutsKeepVectors DEF TypeOK
    <3>1. tokens[j] \in Seq(TokenIds)
      BY <2>2
    <3>2. Prefix(tokens[j], Len(tokens[j])) = tokens[j] /\ Prefix(tokens[j], 0) = <<>>
      BY <3>1, PrefixFull, SubSeqEmpty DEF Prefix
    <3> QED BY <2>1, <2>2, <3>1, <3>2
  <2>5. OneSlotPerSession'
    BY <2>1, <2>2 DEF OneSlotPerSession
  <2>6. PosCountsTokens'
    <3>1. ASSUME NEW j \in Slots
          PROVE  Len(tokens'[j]) <= pos'[j] /\ pos'[j] <= Len(tokens'[j]) + 1
      <4>1. CASE j = slot
        BY <2>1, <2>2, <4>1
      <4>2. CASE j # slot
        <5>1. tokens'[j] = tokens[j] /\ pos'[j] = pos[j]
          BY <2>1, <2>2, <4>2
        <5> QED BY <5>1 DEF PosCountsTokens
      <4> QED BY <4>1, <4>2
    <3> QED BY <1>1, <3>1 DEF PosCountsTokens
  <2> QED BY <1>1, <1>2, <2>3, <2>4, <2>5, <2>6, NothingComputed
<1> QED BY <1>4, <1>5

\* Every step of the client keeps the invariant.
LEMMA StepInvariant == IndInv /\ [Next]_vars => IndInv'
<1> SUFFICES ASSUME IndInv, [Next]_vars PROVE IndInv'
  OBVIOUS
<1>1. CASE \E s \in SessionIds, d \in Dialogues, how \in {"write_at", "append"} :
               Begin(s, d, how)
  BY <1>1, BeginStep
<1>2. CASE Reuse
  BY <1>2, ReuseStep
<1>3. CASE Rewind
  BY <1>3, RewindStep
<1>4. CASE \E l \in Layers : RunLayer(l)
  BY <1>4, RunLayerPastTheEnd, RunLayerWrites
<1>5. CASE Commit
  BY <1>5, CommitFull, CommitTakes
<1>6. CASE Leave \/ GiveBack
  BY <1>6, GoIdleStep
<1>7. CASE UNCHANGED vars
  BY <1>7 DEF vars, cacheVars, clientVars, IndInv, TypeOK, CacheTypeOK, ServedInv, RewindInv,
              ForwardInv, VectorsMatchTokens, RequestReadsItsDialogue, OneSlotPerSession,
              PosCountsTokens, Vectors, BufferIndex
<1> QED BY <1>1, <1>2, <1>3, <1>4, <1>5, <1>6, <1>7 DEF Next, Stopped

-----------------------------------------------------------------------------
(* The theorems.                                                            *)

\* The cache's books, its buffers and the request agree in every reachable
\* state (kv_cache.cpp 85-260).
THEOREM InvariantHolds == Spec => []IndInv
<1>1. Init => IndInv
  BY InitInvariant
<1>2. IndInv /\ [Next]_vars => IndInv'
  BY StepInvariant
<1> QED BY <1>1, <1>2, PTL DEF Spec

\* Every variable has its type: pos never passes the context.
THEOREM TypeCorrect == Spec => []TypeOK
<1>1. IndInv => TypeOK
  BY DEF IndInv
<1> QED BY <1>1, InvariantHolds, PTL

\* A reused prefix is what a fresh prefill would have written.
THEOREM VectorsMatchTokensHolds == Spec => []VectorsMatchTokens
<1>1. IndInv => VectorsMatchTokens
  BY DEF IndInv
<1> QED BY <1>1, InvariantHolds, PTL

\* No session's text reaches the answer of another.
THEOREM RequestReadsItsDialogueHolds == Spec => []RequestReadsItsDialogue
<1>1. IndInv => RequestReadsItsDialogue
  BY DEF IndInv
<1> QED BY <1>1, InvariantHolds, PTL

\* No session owns two slots.
THEOREM OneSlotPerSessionHolds == Spec => []OneSlotPerSession
<1>1. IndInv => OneSlotPerSession
  BY DEF IndInv
<1> QED BY <1>1, InvariantHolds, PTL

\* pos and the token list never drift apart by more than the append() gap.
THEOREM PosCountsTokensHolds == Spec => []PosCountsTokens
<1>1. IndInv => PosCountsTokens
  BY DEF IndInv
<1> QED BY <1>1, InvariantHolds, PTL
=============================================================================
