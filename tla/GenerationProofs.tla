-------------------------- MODULE GenerationProofs --------------------------
(***************************************************************************)
(* A generation for any number of slots, layers and positions, any set of   *)
(* recurrent layers, any batch size, token limit and prompts, and any       *)
(* number of requests.                                                      *)
(***************************************************************************)
EXTENDS Generation, OperatorProofs, FiniteSetTheorems

-----------------------------------------------------------------------------
(* The cache's operators.                                                   *)

\* The buffers of two layers of a slot, or of two slots, are two buffers.
LEMMA BuffersApart ==
  ASSUME NEW i \in Slots, NEW l \in Layers
  PROVE  /\ BufferIndex(i, l) \in Buffers
         /\ \A j \in Slots, m \in Layers :
              BufferIndex(i, l) = BufferIndex(j, m) => i = j /\ l = m
<1>1. /\ i \in Nat /\ i + 1 <= NumSlots /\ l \in 0 .. NumLayers - 1
      /\ NumSlots \in Nat /\ NumLayers \in Nat /\ i * NumLayers \in Nat
  BY KVCacheAssumption DEF Slots, Layers
<1>2. (i + 1) * NumLayers <= NumSlots * NumLayers /\ (i + 1) * NumLayers = i * NumLayers + NumLayers
  BY <1>1, MulMono
<1>3. BufferIndex(i, l) \in Buffers
  <2>1. NumSlots * NumLayers \in Nat
    BY <1>1
  <2> QED BY <1>1, <1>2, <2>1 DEF BufferIndex, Buffers
<1>4. ASSUME NEW j \in Slots, NEW m \in Layers, BufferIndex(i, l) = BufferIndex(j, m)
      PROVE  i = j /\ l = m
  <2>1. j \in Nat /\ m \in 0 .. NumLayers - 1
    BY KVCacheAssumption DEF Slots, Layers
  <2> QED BY <1>1, <1>4, <2>1, RowsDoNotOverlap DEF BufferIndex
<1> QED BY <1>3, <1>4

\* The lowest of a set of slots is one of them.
LEMMA LowestIsIn ==
  ASSUME NEW S \in SUBSET Slots, S # {}
  PROVE  Lowest(S) \in S
<1>1. S \in SUBSET Nat
  BY KVCacheAssumption DEF Slots
<1> QED BY <1>1, LeastElement DEF Lowest

\* A session that owns no slot is given one, a free one if there is any.
LEMMA SlotForIs ==
  ASSUME CacheTypeOK, NEW s, OwnedBy(s) = {}
  PROVE  SlotFor(s) \in Slots /\ (FreeSlots # {} => SlotFor(s) \in FreeSlots)
<1>1. CASE FreeSlots # {}
  <2>1. SlotFor(s) \in FreeSlots
    BY <1>1, LowestIsIn DEF SlotFor, FreeSlots
  <2> QED BY <2>1 DEF FreeSlots
<1>2. CASE FreeSlots = {}
  <2> DEFINE T == {touchedAt[i] : i \in Slots}
  <2>1. T \in SUBSET Nat /\ T # {}
    BY KVCacheAssumption DEF CacheTypeOK, Slots
  <2>2. PICK x \in T : \A y \in T : x <= y
    BY <2>1, LeastElement
  <2>3. LeastRecent # {}
    BY <2>2 DEF LeastRecent
  <2>4. Lowest(LeastRecent) \in LeastRecent
    BY <2>3, LowestIsIn DEF LeastRecent
  <2> QED BY <1>2, <2>4 DEF SlotFor, LeastRecent
<1> QED BY <1>1, <1>2

\* acquire() for a session without a slot empties the one it gives.
LEMMA AcquireTakes ==
  ASSUME CacheTypeOK, NEW s \in SessionIds, OwnedBy(s) = {}, Acquire(s),
         NEW i, i = SlotFor(s)
  PROVE  /\ i \in Slots /\ CacheTypeOK'
         /\ \A j \in Slots : owner'[j] = IF j = i THEN s ELSE owner[j]
         /\ pos'[i] = 0 /\ tokens'[i] = <<>>
<1>1. i \in Slots
  BY SlotForIs
<1>2. owner[i] # s
  BY <1>1 DEF OwnedBy
<1>3. Take(i, s) /\ Touch(i) /\ UNCHANGED buf
  BY <1>2 DEF Acquire
<1>4. /\ owner' = [owner EXCEPT ![i] = s] /\ pos' = [pos EXCEPT ![i] = 0]
      /\ tokens' = [tokens EXCEPT ![i] = <<>>] /\ written' = [written EXCEPT ![i] = {}]
      /\ clock' = clock + 1 /\ touchedAt' = [touchedAt EXCEPT ![i] = clock + 1]
      /\ UNCHANGED buf
  BY <1>3 DEF Take, Touch
<1>5. CacheTypeOK'
  <2>1. <<>> \in Seq(TokenIds) /\ 0 \in 0 .. NumCtx
    BY KVCacheAssumption
  <2> QED BY <1>1, <1>4, <2>1 DEF CacheTypeOK
<1>6. \A j \in Slots : owner'[j] = IF j = i THEN s ELSE owner[j]
  BY <1>1, <1>4 DEF CacheTypeOK
<1>7. pos'[i] = 0 /\ tokens'[i] = <<>>
  BY <1>1, <1>4 DEF CacheTypeOK
<1> QED BY <1>1, <1>5, <1>6, <1>7

\* release() frees its slot and no other.
LEMMA ReleaseGives ==
  ASSUME CacheTypeOK, NEW i \in Slots, Release(i)
  PROVE  /\ CacheTypeOK'
         /\ \A j \in Slots : owner'[j] = IF j = i THEN NoOwner ELSE owner[j]
<1>1. /\ owner' = [owner EXCEPT ![i] = NoOwner] /\ pos' = [pos EXCEPT ![i] = 0]
      /\ tokens' = [tokens EXCEPT ![i] = <<>>] /\ written' = [written EXCEPT ![i] = {}]
      /\ UNCHANGED <<touchedAt, clock, buf>>
  BY DEF Release
<1>2. <<>> \in Seq(TokenIds) /\ 0 \in 0 .. NumCtx
  BY KVCacheAssumption
<1> QED BY <1>1, <1>2 DEF CacheTypeOK

-----------------------------------------------------------------------------
(* The dialogue.                                                            *)

\* The dialogue is the prompt with what was generated; its last token is the last drawn.
LEMMA DialogueIs ==
  ASSUME TypeOK
  PROVE  /\ Dialogue \in Seq(TokenIds) /\ Len(Dialogue) = Len(prompt) + Len(out)
         /\ out = <<>> => Dialogue = prompt
         /\ out # <<>> => Len(out) \in Nat \ {0} /\ Dialogue[Len(Dialogue)] = out[Len(out)]
<1>1. prompt \in Seq(TokenIds) /\ out \in Seq(TokenIds)
  BY DEF TypeOK
<1>2. /\ Dialogue \in Seq(TokenIds) /\ Len(Dialogue) = Len(prompt) + Len(out)
      /\ \A i \in 1 .. Len(prompt) + Len(out) :
           Dialogue[i] = IF i <= Len(prompt) THEN prompt[i] ELSE out[i - Len(prompt)]
  BY <1>1, ConcatProperties DEF Dialogue
<1>3. out = <<>> => Dialogue = prompt
  BY <1>1, ConcatEmptySeq DEF Dialogue
<1>4. ASSUME out # <<>>
      PROVE  Len(out) \in Nat \ {0} /\ Dialogue[Len(Dialogue)] = out[Len(out)]
  <2>1. Len(out) \in Nat \ {0} /\ Len(prompt) \in Nat
    BY <1>1, <1>4, EmptySeq
  <2>2. /\ Len(prompt) + Len(out) \in 1 .. Len(prompt) + Len(out)
        /\ ~(Len(prompt) + Len(out) <= Len(prompt))
        /\ (Len(prompt) + Len(out)) - Len(prompt) = Len(out)
    BY <2>1
  <2> QED BY <1>2, <2>1, <2>2
<1> QED BY <1>2, <1>3, <1>4

\* Another token leaves the prefixes of the dialogue as they are.
LEMMA DialogueGrows ==
  ASSUME TypeOK, NEW t \in TokenIds, NEW n \in 0 .. Len(Dialogue)
  PROVE  Prefix(prompt \o Append(out, t), n) = Prefix(Dialogue, n)
<1>1. prompt \in Seq(TokenIds) /\ out \in Seq(TokenIds) /\ Len(prompt) \in Nat /\ Len(out) \in Nat
  BY DEF TypeOK
<1>2. /\ Append(out, t) \in Seq(TokenIds) /\ Len(Append(out, t)) = Len(out) + 1
      /\ \A i \in 1 .. Len(out) : Append(out, t)[i] = out[i]
  BY <1>1, AppendProperties
<1> DEFINE o == Append(out, t)
           d == prompt \o o
<1>3. /\ d \in Seq(TokenIds) /\ Len(d) = Len(prompt) + Len(o)
      /\ \A i \in 1 .. Len(prompt) + Len(o) :
           d[i] = IF i <= Len(prompt) THEN prompt[i] ELSE o[i - Len(prompt)]
  BY <1>1, <1>2, ConcatProperties
<1>4. /\ Dialogue \in Seq(TokenIds) /\ Len(Dialogue) = Len(prompt) + Len(out)
      /\ \A i \in 1 .. Len(prompt) + Len(out) :
           Dialogue[i] = IF i <= Len(prompt) THEN prompt[i] ELSE out[i - Len(prompt)]
  BY <1>1, ConcatProperties DEF Dialogue
<1>5. o \in Seq(TokenIds) /\ Len(o) = Len(out) + 1 /\ \A i \in 1 .. Len(out) : o[i] = out[i]
  BY <1>2
<1> HIDE DEF o, d
<1>6. n \in Nat /\ n <= Len(d) /\ n <= Len(Dialogue)
  BY <1>1, <1>3, <1>4, <1>5
<1>7. ASSUME NEW k \in 1 .. n
      PROVE  d[k] = Dialogue[k]
  <2>1. k \in 1 .. Len(prompt) + Len(out) /\ k \in 1 .. Len(prompt) + Len(o)
    BY <1>1, <1>4, <1>5
  <2>2. ~(k <= Len(prompt)) => k - Len(prompt) \in 1 .. Len(out)
    BY <1>1, <2>1
  <2> QED BY <1>3, <1>4, <1>5, <2>1, <2>2
<1>8. Prefix(d, n) = Prefix(Dialogue, n)
  BY <1>3, <1>4, <1>6, <1>7, SamePrefix
<1> QED BY <1>8 DEF o, d

-----------------------------------------------------------------------------
(* The inductive invariant.                                                 *)

\* The server starts with free slots and no generation.
LEMMA InitInvariant == Init => IndInv
<1> SUFFICES ASSUME Init PROVE IndInv
  OBVIOUS
<1>1. CacheTypeOK
  <2>1. <<>> \in Seq(TokenIds) /\ 0 \in 0 .. NumCtx
    BY KVCacheAssumption
  <2> QED BY <2>1 DEF Init, CacheInit, CacheTypeOK
<1>2. TypeOK
  <2>1. /\ <<>> \in Seq(TokenIds) /\ Len(<<>>) = 0 /\ 0 <= max_tokens
        /\ 0 <= k_prefill_batch /\ 0 \in 0 .. NumLayers /\ 0 \in 0 .. MaxRequests
        /\ 0 \in Slots /\ 0 \in Nat /\ 0 \in 0 .. ProbeEvery - 1
    BY KVCacheAssumption, GenerationAssumption DEF Slots
  <2>2. /\ rstate \in [Slots -> [Layers -> Seq(TokenIds)]] /\ rtokens \in [Slots -> Nat]
        /\ phase \in Phases /\ channel \in Channels /\ recurrent \in LayerKinds
        /\ broken \in BOOLEAN /\ overtime \in BOOLEAN /\ sink_dead \in BOOLEAN
        /\ since_probe \in 0 .. ProbeEvery - 1 /\ latePieces \in Nat
    BY <2>1 DEF Init, Phases, Channels
  <2>3. /\ prompt = <<>> /\ out = <<>> /\ batch = <<>> /\ sid = 0 /\ slot = 0 /\ fed = 0
        /\ start = 0 /\ layer = 0 /\ committed = 0 /\ lateDecodes = 0 /\ leaked = {}
    BY DEF Init
  <2>4. fed \in 0 .. Len(prompt) + Len(out) /\ committed \in 0 .. Len(batch)
    BY <2>1, <2>3
  <2> QED BY <1>1, <2>1, <2>2, <2>3, <2>4 DEF TypeOK
<1>3. OwnersInv
  BY DEF Init, CacheInit, OwnersInv, Held
<1>4. ColdInv /\ FeedInv /\ PosInv /\ VectorsInv /\ StateInv /\ LateInv
  BY DEF Init, ColdInv, FeedInv, PosInv, VectorsInv, StateInv, LateInv, Aborts, Running
<1> QED BY <1>2, <1>3, <1>4 DEF IndInv

\* Outside prefill and decode nothing has been fed.
LEMMA NotRunning ==
  ASSUME phase' \in {"idle", "acquired", "released", "ready"}
  PROVE  FeedInv' /\ PosInv' /\ VectorsInv' /\ StateInv'
  BY DEF FeedInv, PosInv, VectorsInv, StateInv, Running

\* The owners while a generation goes on.
LEMMA OwnersStay ==
  ASSUME OwnersInv, UNCHANGED <<owner, leaked, sid, slot>>,
         phase \notin {"idle", "released"}, phase' \notin {"idle", "released"}
  PROVE  OwnersInv'
  BY DEF OwnersInv, Held

\* The slot a generation holds, and its session, as OwnersInv has them.
LEMMA HoldsSlot ==
  ASSUME IndInv, phase \notin {"idle", "released"}
  PROVE  /\ slot \in Slots /\ slot \notin leaked /\ owner[slot] = sid
         /\ \A i \in Slots : owner[i] # NoOwner <=> i \in leaked \cup {slot}
  BY DEF IndInv, TypeOK, OwnersInv, Held

\* A generation that stops with its slot released.
LEMMA ReturnStep ==
  ASSUME IndInv, phase \notin {"idle", "released"}, Return
  PROVE  IndInv'
<1>1. /\ Release(slot) /\ phase' = "idle"
      /\ UNCHANGED <<modelState, requestVars, progress, batchVars, sinkVars, history,
                     surroundings>>
  BY DEF Return
<1>2. /\ CacheTypeOK'
      /\ \A j \in Slots : owner'[j] = IF j = slot THEN NoOwner ELSE owner[j]
  BY <1>1, ReleaseGives DEF IndInv, TypeOK
<1>3. TypeOK'
  BY <1>1, <1>2 DEF IndInv, TypeOK, Phases, modelState, requestVars, progress, batchVars,
                    sinkVars, history, surroundings
<1>4. OwnersInv'
  <2>1. Held' = {} /\ leaked' = leaked /\ sid' = sid
    BY <1>1 DEF Held, sinkVars, history, requestVars
  <2>2. \A i \in Slots : owner'[i] # NoOwner => owner'[i] \in 1 .. sid
    BY <1>2 DEF IndInv, OwnersInv
  <2> QED BY <1>1, <1>2, <2>1, <2>2, HoldsSlot DEF OwnersInv
<1>5. ColdInv'
  BY <1>1 DEF ColdInv
<1>6. LateInv'
  BY <1>1 DEF IndInv, TypeOK, LateInv, Aborts, requestVars, sinkVars, history, surroundings
<1> QED BY <1>1, <1>3, <1>4, <1>5, <1>6, NotRunning DEF IndInv

\* A request comes in with its prompt and its channel.
LEMMA AcceptStep ==
  ASSUME IndInv, NEW p \in Prompts, NEW c \in Channels, Accept(p, c)
  PROVE  IndInv'
<1> DEFINE i == SlotFor(sid + 1)
<1>1. /\ phase = "idle" /\ sid < MaxRequests /\ Acquire(sid + 1)
      /\ sid' = sid + 1 /\ slot' = i /\ leaked' = leaked \ {i} /\ phase' = "acquired"
      /\ channel' = c /\ prompt' = p /\ out' = <<>> /\ fed' = 0 /\ batch' = <<>>
      /\ start' = 0 /\ layer' = 0 /\ committed' = 0 /\ broken' = FALSE /\ overtime' = FALSE
      /\ sink_dead' = FALSE /\ since_probe' = 0 /\ latePieces' = 0 /\ lateDecodes' = 0
      /\ UNCHANGED <<rstate, rtokens, recurrent>>
  BY DEF Accept, modelState
<1>2. sid \in Nat /\ sid + 1 \in SessionIds /\ sid + 1 \in 1 .. MaxRequests /\ sid + 1 # NoOwner
  BY <1>1, KVCacheAssumption, GenerationAssumption DEF IndInv, TypeOK
<1>3. \A j \in Slots : /\ owner[j] # NoOwner <=> j \in leaked
                       /\ owner[j] # NoOwner => owner[j] \in 1 .. sid
  BY <1>1 DEF IndInv, OwnersInv, Held
<1>4. OwnedBy(sid + 1) = {}
  BY <1>2, <1>3 DEF OwnedBy
<1>5. /\ i \in Slots /\ CacheTypeOK'
      /\ \A j \in Slots : owner'[j] = IF j = i THEN sid + 1 ELSE owner[j]
      /\ pos'[i] = 0 /\ tokens'[i] = <<>>
  BY <1>1, <1>2, <1>4, AcquireTakes DEF IndInv, TypeOK
<1> HIDE DEF i
<1>6. p \in Seq(TokenIds) /\ p # <<>>
  BY GenerationAssumption
<1>7. TypeOK'
  <2>1. /\ <<>> \in Seq(TokenIds) /\ Len(<<>>) = 0 /\ 0 <= max_tokens
        /\ 0 <= k_prefill_batch /\ 0 \in 0 .. NumLayers
        /\ 0 \in Nat /\ 0 \in 0 .. Len(p) + 0 /\ 0 \in 0 .. 0
        /\ 0 \in 0 .. ProbeEvery - 1
    BY <1>6, KVCacheAssumption, GenerationAssumption
  <2>2. sid' \in 0 .. MaxRequests /\ leaked' \subseteq Slots
    BY <1>1, <1>2 DEF IndInv, TypeOK
  <2> QED BY <1>1, <1>5, <1>6, <2>1, <2>2 DEF IndInv, TypeOK, Phases
<1>8. OwnersInv'
  <2>1. Held' = {i}
    BY <1>1 DEF Held
  <2>2. ASSUME NEW j \in Slots
        PROVE  /\ owner'[j] # NoOwner <=> j \in leaked' \cup Held'
               /\ owner'[j] # NoOwner => owner'[j] \in 1 .. sid'
               /\ j \in leaked' => owner'[j] # sid'
    <3>1. owner'[j] # NoOwner => owner'[j] \in 1 .. sid'
      BY <1>1, <1>2, <1>3, <1>5
    <3>2. owner'[j] # NoOwner <=> j \in leaked' \cup Held'
      BY <1>1, <1>2, <1>3, <1>5, <2>1
    <3>3. j \in leaked' => owner'[j] # sid'
      BY <1>1, <1>2, <1>3, <1>5
    <3> QED BY <3>1, <3>2, <3>3
  <2>3. leaked' \subseteq Slots /\ slot' \notin leaked' /\ owner'[slot'] = sid' /\ sid' \in SessionIds
    BY <1>1, <1>2, <1>5 DEF IndInv, TypeOK
  <2> QED BY <2>2, <2>3 DEF OwnersInv
<1>9. ColdInv'
  BY <1>1, <1>5, <1>6 DEF ColdInv
<1>10. LateInv'
  BY <1>1 DEF LateInv, Aborts
<1> QED BY <1>1, <1>7, <1>8, <1>9, <1>10, NotRunning DEF IndInv

\* reuse_prefix keeps what the slot has of the prompt.
LEMMA ReuseStep ==
  ASSUME IndInv, ReuseThePrefix
  PROVE  IndInv'
<1>1. /\ phase = "acquired" /\ phase' = "ready" /\ ReusePrefix(slot, prompt)
      /\ UNCHANGED <<modelState, requestVars, progress, batchVars, sinkVars, history,
                     surroundings>>
  BY DEF ReuseThePrefix
<1>2. /\ slot \in Slots /\ tokens[slot] = <<>> /\ prompt # <<>> /\ out = <<>>
      /\ prompt \in Seq(TokenIds)
  BY <1>1 DEF IndInv, TypeOK, ColdInv
<1>3. Lcp(tokens[slot], prompt) = 0
  <2>1. <<>> \in Seq(TokenIds) /\ Len(<<>>) = 0
    OBVIOUS
  <2>2. Lcp(<<>>, prompt) \in 0 .. Len(<<>>)
    BY <1>2, <2>1, LcpIsLcp
  <2> QED BY <1>2, <2>1, <2>2
<1>4. Prefix(<<>>, 0) = <<>>
  BY SubSeqEmpty DEF Prefix
<1>5. /\ tokens' = [tokens EXCEPT ![slot] = <<>>] /\ pos' = [pos EXCEPT ![slot] = 0]
      /\ written' = [written EXCEPT ![slot] = {}] /\ Touch(slot)
      /\ UNCHANGED <<owner, buf>>
  BY <1>1, <1>2, <1>3, <1>4 DEF ReusePrefix, PosAfterReuse
<1>6. CacheTypeOK'
  <2>1. <<>> \in Seq(TokenIds) /\ 0 \in 0 .. NumCtx
    BY KVCacheAssumption
  <2> QED BY <1>2, <1>5, <2>1 DEF IndInv, TypeOK, CacheTypeOK, Touch
<1>7. TypeOK'
  BY <1>1, <1>6 DEF IndInv, TypeOK, Phases, modelState, requestVars, progress, batchVars,
                    sinkVars, history, surroundings
<1>8. OwnersInv'
  BY <1>1, <1>5, OwnersStay DEF IndInv, requestVars, sinkVars, history
<1>9. ColdInv'
  BY <1>1, <1>2, <1>5 DEF IndInv, TypeOK, CacheTypeOK, ColdInv, requestVars, progress
<1>10. LateInv'
  BY <1>1 DEF IndInv, LateInv, Aborts, requestVars, sinkVars, history, surroundings
<1> QED BY <1>1, <1>7, <1>8, <1>9, <1>10, NotRunning DEF IndInv

\* A slot whose prefix cannot be used is given up for an empty one.
LEMMA DropStep ==
  ASSUME IndInv, DropTheSlot
  PROVE  IndInv'
<1>1. /\ phase = "acquired" /\ phase' = "released" /\ Release(slot)
      /\ UNCHANGED <<modelState, requestVars, progress, batchVars, sinkVars, history,
                     surroundings>>
  BY DEF DropTheSlot
<1>2. /\ CacheTypeOK'
      /\ \A j \in Slots : owner'[j] = IF j = slot THEN NoOwner ELSE owner[j]
  BY <1>1, ReleaseGives DEF IndInv, TypeOK
<1>3. TypeOK'
  BY <1>1, <1>2 DEF IndInv, TypeOK, Phases, modelState, requestVars, progress, batchVars,
                    sinkVars, history, surroundings
<1>4. OwnersInv'
  <2>1. Held' = {} /\ leaked' = leaked /\ sid' = sid /\ slot' = slot
    BY <1>1 DEF Held, sinkVars, history, requestVars
  <2>2. \A i \in Slots : owner'[i] # NoOwner => owner'[i] \in 1 .. sid
    BY <1>2 DEF IndInv, OwnersInv
  <2>3. sid \in SessionIds /\ slot \notin leaked /\ \A i \in leaked : owner[i] # sid
    BY <1>1 DEF IndInv, OwnersInv
  <2>4. leaked \subseteq Slots
    BY DEF IndInv, TypeOK
  <2>5. \A i \in leaked : owner'[i] # sid
    BY <1>2, <2>3, <2>4
  <2> QED BY <1>1, <1>2, <2>1, <2>2, <2>3, <2>5, HoldsSlot DEF OwnersInv
<1>5. ColdInv'
  BY <1>1 DEF IndInv, ColdInv, requestVars, progress
<1>6. LateInv'
  BY <1>1 DEF IndInv, LateInv, Aborts, requestVars, sinkVars, history, surroundings
<1> QED BY <1>1, <1>3, <1>4, <1>5, <1>6, NotRunning DEF IndInv

\* The slot just released is there to be had, so no exception's is stolen.
LEMMA AcquireAgainStep ==
  ASSUME IndInv, AcquireAgain
  PROVE  IndInv'
<1> DEFINE i == SlotFor(sid)
<1>1. /\ phase = "released" /\ phase' = "ready" /\ Acquire(sid) /\ slot' = i
      /\ UNCHANGED <<modelState, progress, batchVars, sinkVars, history, channel, sid, prompt,
                     surroundings>>
  BY DEF AcquireAgain
<1>2. /\ slot \in Slots /\ slot \notin leaked /\ sid \in SessionIds
      /\ leaked \subseteq Slots /\ \A j \in leaked : owner[j] # sid
      /\ \A j \in Slots : /\ owner[j] # NoOwner <=> j \in leaked
                          /\ owner[j] # NoOwner => owner[j] \in 1 .. sid
  BY <1>1 DEF IndInv, TypeOK, OwnersInv, Held
<1>3. OwnedBy(sid) = {} /\ slot \in FreeSlots
  <2>1. sid # NoOwner
    BY <1>2, KVCacheAssumption
  <2> QED BY <1>2, <2>1 DEF OwnedBy, FreeSlots
<1>4. i \in FreeSlots
  BY <1>3, SlotForIs DEF IndInv, TypeOK
<1>5. /\ i \in Slots /\ CacheTypeOK'
      /\ \A j \in Slots : owner'[j] = IF j = i THEN sid ELSE owner[j]
      /\ pos'[i] = 0 /\ tokens'[i] = <<>>
  BY <1>1, <1>2, <1>3, AcquireTakes DEF IndInv, TypeOK
<1> HIDE DEF i
<1>6. i \notin leaked
  BY <1>2, <1>4 DEF FreeSlots
<1>7. TypeOK'
  BY <1>1, <1>5 DEF IndInv, TypeOK, Phases, modelState, progress, batchVars, sinkVars, history,
                    surroundings
<1>8. OwnersInv'
  <2>1. Held' = {i} /\ leaked' = leaked /\ sid' = sid /\ slot' = i
    BY <1>1 DEF Held, sinkVars, history
  <2>2. sid \in 1 .. sid /\ sid # NoOwner
    BY <1>2, KVCacheAssumption, GenerationAssumption
  <2>3. ASSUME NEW j \in Slots
        PROVE  /\ owner'[j] # NoOwner <=> j \in leaked \cup {i}
               /\ owner'[j] # NoOwner => owner'[j] \in 1 .. sid
               /\ j \in leaked => owner'[j] # sid
    BY <1>2, <1>5, <1>6, <2>2
  <2> QED BY <1>2, <1>5, <1>6, <2>1, <2>3 DEF OwnersInv
<1>9. ColdInv'
  BY <1>1, <1>5 DEF IndInv, ColdInv, progress
<1>10. LateInv'
  BY <1>1 DEF IndInv, LateInv, Aborts, sinkVars, history, surroundings
<1> QED BY <1>1, <1>7, <1>8, <1>9, <1>10, NotRunning DEF IndInv

\* The prompt is not empty, so prefill has a first chunk to run.
LEMMA PrefillStep ==
  ASSUME IndInv, CallPrefill
  PROVE  IndInv'
<1>1. phase = "ready" /\ slot \in Slots /\ pos[slot] = 0 /\ tokens[slot] = <<>>
  BY DEF CallPrefill, IndInv, TypeOK, ColdInv
<1>2. /\ IF Hybrid THEN Reset(slot) ELSE UNCHANGED <<rstate, rtokens>>
      /\ fed' = 0 /\ phase' = "prefill"
      /\ UNCHANGED <<cacheVars, requestVars, batchVars, sinkVars, history, out, surroundings>>
  BY <1>1 DEF CallPrefill
<1>3. /\ prompt \in Seq(TokenIds) /\ prompt # <<>> /\ out = <<>> /\ Len(prompt) \in Nat \ {0}
      /\ prompt' = prompt /\ out' = out
  <2>1. prompt \in Seq(TokenIds) /\ prompt # <<>> /\ out = <<>>
    BY <1>1 DEF IndInv, TypeOK, ColdInv
  <2> QED BY <1>2, <2>1, EmptySeq DEF requestVars
<1>4. /\ rstate' \in [Slots -> [Layers -> Seq(TokenIds)]] /\ rtokens' \in [Slots -> Nat]
      /\ Hybrid => rtokens'[slot] = 0 /\ \A l \in Layers : rstate'[slot][l] = <<>>
  <2>1. <<>> \in Seq(TokenIds)
    OBVIOUS
  <2>2. CASE Hybrid
    <3> DEFINE fresh == [l \in Layers |-> <<>>]
    <3>1. fresh \in [Layers -> Seq(TokenIds)] /\ \A l \in Layers : fresh[l] = <<>>
      BY <2>1
    <3>2. rstate' = [rstate EXCEPT ![slot] = fresh] /\ rtokens' = [rtokens EXCEPT ![slot] = 0]
      BY <1>2, <2>2 DEF Reset
    <3>3. rstate \in [Slots -> [Layers -> Seq(TokenIds)]] /\ rtokens \in [Slots -> Nat]
      BY DEF IndInv, TypeOK
    <3> HIDE DEF fresh
    <3>4. rstate' \in [Slots -> [Layers -> Seq(TokenIds)]] /\ rstate'[slot] = fresh
      BY <1>1, <3>1, <3>2, <3>3
    <3>5. rtokens' \in [Slots -> Nat] /\ rtokens'[slot] = 0
      BY <1>1, <3>2, <3>3
    <3> QED BY <3>1, <3>4, <3>5
  <2>3. CASE ~Hybrid
    BY <1>2, <2>3 DEF IndInv, TypeOK
  <2> QED BY <2>2, <2>3
<1>5. TypeOK'
  <2>1. CacheTypeOK'
    BY <1>2 DEF IndInv, TypeOK, CacheTypeOK, cacheVars
  <2> QED BY <1>2, <1>4, <2>1 DEF IndInv, TypeOK, Phases, requestVars, batchVars, sinkVars,
                                  history, surroundings
<1>6. OwnersInv'
  BY <1>1, <1>2, OwnersStay DEF IndInv, requestVars, sinkVars, history, cacheVars
<1>7. FeedInv' /\ ColdInv'
  BY <1>2, <1>3 DEF FeedInv, ColdInv
<1>8. PosInv'
  <2>1. pos'[slot'] = 0 /\ tokens'[slot'] = <<>> /\ Len(<<>>) = 0 /\ 0 < NumCtx
    BY <1>1, <1>2, KVCacheAssumption DEF cacheVars, requestVars
  <2> QED BY <1>2, <2>1 DEF PosInv
<1>9. VectorsInv'
  BY <1>2 DEF VectorsInv, Through, Positions
<1>10. StateInv'
  <2>1. Prefix(Dialogue', 0) = <<>>
    BY SubSeqEmpty DEF Prefix
  <2>2. \A l \in Layers : Through(l)' = 0
    BY <1>2 DEF Through
  <2>3. recurrent' \subseteq Layers /\ (Hybrid' <=> Hybrid) /\ slot' = slot
    BY <1>2, GenerationAssumption DEF IndInv, TypeOK, surroundings, requestVars, Hybrid
  <2> QED BY <1>2, <1>4, <2>1, <2>2, <2>3 DEF StateInv
<1>11. LateInv'
  BY <1>1, <1>2 DEF IndInv, LateInv, Aborts, requestVars, sinkVars, history, surroundings
<1> QED BY <1>5, <1>6, <1>7, <1>8, <1>9, <1>10, <1>11 DEF IndInv

\* What the layers have seen while none runs, and nothing is fed.
LEMMA SeenStays ==
  ASSUME VectorsInv, StateInv, Running, TypeOK,
         UNCHANGED <<buf, rstate, rtokens, recurrent, slot, prompt, out, fed>>,
         phase # "forward", phase' # "forward" \/ layer' = 0
  PROVE  VectorsInv' /\ StateInv'
<1>1. recurrent \subseteq Layers
  BY GenerationAssumption DEF TypeOK
<1>2. \A l \in Layers : Through(l) = fed /\ Through(l)' = fed
  <2>1. \A l \in Layers : ~(l < 0)
    BY KVCacheAssumption DEF Layers
  <2>2. fed + 0 = fed
    BY DEF TypeOK
  <2> QED BY <2>1, <2>2 DEF Through
<1>3. Dialogue' = Dialogue
  BY DEF Dialogue
<1>4. VectorsInv'
  BY <1>2, <1>3 DEF VectorsInv, Vectors, BufferIndex
<1>5. StateInv'
  BY <1>1, <1>2, <1>3 DEF StateInv, Hybrid
<1> QED BY <1>4, <1>5

\* A chunk of the prompt is the slice of the dialogue that comes next.
LEMMA ChunkStep ==
  ASSUME IndInv, NextChunk
  PROVE  IndInv'
<1>1. /\ phase = "prefill" /\ phase' = "forward" /\ batch' = Chunk /\ start' = fed
      /\ layer' = 0 /\ committed' = 0
      /\ UNCHANGED <<cacheVars, modelState, requestVars, progress, sinkVars, history,
                     surroundings>>
  BY DEF NextChunk, Begin
<1>2. /\ out = <<>> /\ fed < Len(prompt) /\ fed \in Nat /\ prompt \in Seq(TokenIds)
      /\ Len(prompt) \in Nat /\ Len(out) = 0 /\ Dialogue = prompt /\ k_prefill_batch \in Nat \ {0}
  BY <1>1, DialogueIs, GenerationAssumption DEF IndInv, TypeOK, FeedInv
<1> DEFINE m == IF fed + k_prefill_batch < Len(prompt) THEN k_prefill_batch
                ELSE Len(prompt) - fed
<1>3. /\ m \in Nat \ {0} /\ m <= k_prefill_batch /\ fed + m <= Len(prompt)
      /\ Chunk = SubSeq(prompt, fed + 1, fed + m)
  BY <1>2 DEF Chunk
<1> HIDE DEF m
<1>4. Chunk \in Seq(TokenIds) /\ Len(Chunk) = m
  <2>1. m \in Nat /\ fed + m <= Len(prompt) /\ fed \in Nat /\ prompt \in Seq(TokenIds)
    BY <1>2, <1>3
  <2>2. /\ SubSeq(prompt, fed + 1, fed + m) \in Seq(TokenIds)
        /\ Len(SubSeq(prompt, fed + 1, fed + m)) = m
    BY <2>1, SliceIs
  <2> QED BY <1>3, <2>2
<1>5. /\ UNCHANGED <<prompt, out, fed, slot, sid, channel, recurrent, rstate, rtokens, broken,
                     overtime, sink_dead, since_probe, latePieces, owner, leaked, lateDecodes,
                     pos, tokens, buf>>
  BY <1>1 DEF cacheVars, modelState, requestVars, progress, sinkVars, history, surroundings
<1>6. TypeOK'
  <2>1. CacheTypeOK'
    BY <1>1 DEF IndInv, TypeOK, CacheTypeOK, cacheVars
  <2>2. /\ batch' \in Seq(TokenIds) /\ Len(batch') <= k_prefill_batch
        /\ start' \in Nat /\ layer' \in 0 .. NumLayers /\ committed' \in 0 .. Len(batch')
    BY <1>1, <1>2, <1>3, <1>4, KVCacheAssumption
  <2> QED BY <1>1, <1>5, <2>1, <2>2 DEF IndInv, TypeOK, Phases
<1>7. OwnersInv'
  BY <1>1, <1>5, OwnersStay DEF IndInv
<1>8. ColdInv'
  BY <1>1 DEF ColdInv
<1>9. FeedInv'
  <2>1. batch' # <<>> /\ Len(batch') = m
    BY <1>1, <1>3, <1>4
  <2>2. batch' = SubSeq(Dialogue', fed' + 1, fed' + Len(batch'))
    BY <1>1, <1>2, <1>3, <1>5, <2>1 DEF Dialogue
  <2>3. IF fed' + Len(batch') < Len(prompt') THEN out' = <<>>
        ELSE fed' + Len(batch') = Len(prompt') + Len(out')
    BY <1>2, <1>3, <1>5, <2>1
  <2> QED BY <1>1, <1>5, <2>1, <2>2, <2>3 DEF FeedInv
<1>10. PosInv'
  BY <1>1, <1>2, <1>5 DEF IndInv, PosInv, Running
<1>11. VectorsInv' /\ StateInv'
  BY <1>1, <1>5, SeenStays DEF IndInv, Running
<1>12. LateInv'
  BY <1>1, <1>5 DEF IndInv, LateInv, Aborts
<1> QED BY <1>6, <1>7, <1>8, <1>9, <1>10, <1>11, <1>12 DEF IndInv

\* The batch on its way through the layers, and the dialogue it is a slice of.
LEMMA BatchIs ==
  ASSUME IndInv, phase = "forward"
  PROVE  /\ fed \in Nat /\ Len(batch) \in Nat \ {0} /\ batch \in Seq(TokenIds)
         /\ Dialogue \in Seq(TokenIds) /\ fed + Len(batch) <= Len(Dialogue)
         /\ batch = SubSeq(Dialogue, fed + 1, fed + Len(batch))
         /\ start \in Nat /\ (start = fed \/ (start = NumCtx /\ NumCtx <= fed))
         /\ \A k \in 0 .. Len(batch) :
              /\ Prefix(Dialogue, fed) \o Prefix(batch, k) = Prefix(Dialogue, fed + k)
              /\ Prefix(Dialogue, fed + k) \in Seq(TokenIds)
<1>1. /\ fed \in Nat /\ batch \in Seq(TokenIds) /\ batch # <<>> /\ start \in Nat
      /\ prompt \in Seq(TokenIds) /\ out \in Seq(TokenIds)
      /\ batch = SubSeq(Dialogue, fed + 1, fed + Len(batch))
      /\ IF fed + Len(batch) < Len(prompt) THEN out = <<>>
         ELSE fed + Len(batch) = Len(prompt) + Len(out)
      /\ start = fed \/ (start = NumCtx /\ NumCtx <= fed)
  BY DEF IndInv, TypeOK, FeedInv
<1>2. Dialogue \in Seq(TokenIds) /\ Len(Dialogue) = Len(prompt) + Len(out)
  BY DialogueIs DEF IndInv
<1>3. Len(batch) \in Nat \ {0} /\ Len(prompt) \in Nat /\ Len(out) \in Nat
  BY <1>1, EmptySeq
<1>4. fed + Len(batch) <= Len(Dialogue)
  BY <1>1, <1>2, <1>3
<1>5. ASSUME NEW k \in 0 .. Len(batch)
      PROVE  /\ Prefix(Dialogue, fed) \o Prefix(batch, k) = Prefix(Dialogue, fed + k)
             /\ Prefix(Dialogue, fed + k) \in Seq(TokenIds)
  <2>1. Prefix(Dialogue, fed) \o Prefix(SubSeq(Dialogue, fed + 1, fed + Len(batch)), k)
          = Prefix(Dialogue, fed + k)
    BY <1>1, <1>2, <1>3, <1>4, PrefixGoesOn
  <2>2. fed + k \in 0 .. Len(Dialogue)
    BY <1>1, <1>2, <1>3, <1>4
  <2> QED BY <1>1, <1>2, <2>1, <2>2, PrefixIs
<1> QED BY <1>1, <1>2, <1>3, <1>4, <1>5

\* A recurrent layer absorbs the batch after the dialogue up to it.
LEMMA RecurrentBlock ==
  ASSUME IndInv, RunBlock, layer \in recurrent
  PROVE  IndInv'
<1>1. /\ phase = "forward" /\ layer < NumLayers /\ layer' = layer + 1
      /\ rstate' = [rstate EXCEPT ![slot][layer] = @ \o batch]
      /\ UNCHANGED <<cacheVars, requestVars, progress, sinkVars, history, rtokens, phase, batch,
                     committed, start, surroundings>>
  BY DEF RunBlock
<1>2. UNCHANGED <<prompt, out, fed, slot, sid, channel, recurrent, rtokens, phase, broken,
                  overtime, sink_dead, since_probe, latePieces, batch, committed, start, owner,
                  leaked, lateDecodes, pos, tokens, buf>>
  BY <1>1 DEF cacheVars, requestVars, progress, sinkVars, history, surroundings
<1>3. /\ slot \in Slots /\ layer \in Layers /\ layer \in Nat /\ recurrent \subseteq Layers
      /\ rstate \in [Slots -> [Layers -> Seq(TokenIds)]] /\ NumLayers \in Nat
  BY GenerationAssumption, KVCacheAssumption DEF IndInv, TypeOK, Layers
<1>4. /\ rstate'[slot][layer] = rstate[slot][layer] \o batch
      /\ \A l \in Layers : l # layer => rstate'[slot][l] = rstate[slot][l]
  BY <1>1, <1>3
<1>5. rstate' \in [Slots -> [Layers -> Seq(TokenIds)]]
  <2>1. rstate[slot][layer] \o batch \in Seq(TokenIds)
    BY <1>1, <1>3, BatchIs, ConcatProperties
  <2> QED BY <1>1, <1>3, <2>1
<1>6. TypeOK'
  <2>1. CacheTypeOK'
    BY <1>1 DEF IndInv, TypeOK, CacheTypeOK, cacheVars
  <2>2. layer' \in 0 .. NumLayers
    BY <1>1, <1>3
  <2> QED BY <1>2, <1>5, <2>1, <2>2 DEF IndInv, TypeOK
<1>7. OwnersInv'
  BY <1>1, <1>2, OwnersStay DEF IndInv
<1>8. ColdInv' /\ LateInv'
  BY <1>1, <1>2 DEF IndInv, ColdInv, LateInv, Aborts
<1>9. Dialogue' = Dialogue
  BY <1>2 DEF Dialogue
<1>10. FeedInv' /\ PosInv'
  BY <1>1, <1>2, <1>9 DEF IndInv, FeedInv, PosInv, Running
<1>11. /\ \A l \in Layers :
            Through(l)' = IF l = layer THEN fed + Len(batch) ELSE Through(l)
       /\ Through(layer) = fed
  <2>1. \A l \in Layers : /\ l # layer => (l < layer' <=> l < layer)
                          /\ l = layer => l < layer' /\ ~(l < layer)
    BY <1>1, <1>3 DEF Layers
  <2>2. fed + 0 = fed
    BY DEF IndInv, TypeOK
  <2> QED BY <1>1, <1>2, <1>3, <2>1, <2>2 DEF Through
<1>12. VectorsInv'
  <2>1. \A l \in Layers \ recurrent : Through(l)' = Through(l)
    BY <1>11
  <2> QED BY <1>2, <1>9, <2>1 DEF IndInv, VectorsInv, Running, Vectors, BufferIndex
<1>13. StateInv'
  <2>1. Hybrid /\ Running
    BY <1>1 DEF Hybrid, Running
  <2>2. rtokens[slot] = fed /\ \A l \in recurrent : rstate[slot][l] = Prefix(Dialogue, Through(l))
    BY <2>1 DEF IndInv, StateInv
  <2>3. rstate'[slot][layer] = Prefix(Dialogue, fed + Len(batch))
    <3>1. Len(batch) \in 0 .. Len(batch) /\ Prefix(batch, Len(batch)) = batch
      BY <1>1, BatchIs, PrefixFull
    <3>2. Prefix(Dialogue, fed) \o batch = Prefix(Dialogue, fed + Len(batch))
      BY <1>1, <3>1, BatchIs
    <3> QED BY <1>4, <1>11, <2>2, <3>2
  <2>5. ASSUME NEW l \in recurrent
        PROVE  rstate'[slot'][l] = Prefix(Dialogue', Through(l)')
    <3>1. CASE l = layer
      BY <1>2, <1>3, <1>9, <1>11, <2>3, <3>1
    <3>2. CASE l # layer
      BY <1>2, <1>3, <1>4, <1>9, <1>11, <2>2, <3>2
    <3> QED BY <3>1, <3>2
  <2> QED BY <1>2, <2>2, <2>5 DEF StateInv
<1> QED BY <1>6, <1>7, <1>8, <1>10, <1>12, <1>13 DEF IndInv

\* What an attention layer writes: the vectors of the dialogue at the
\* positions of the batch, and nothing else.
LEMMA WrittenIs ==
  ASSUME IndInv, phase = "forward", NEW l \in Layers \ recurrent, layer = l, WriteBatch(l)
  PROVE  /\ CacheTypeOK' /\ UNCHANGED <<owner, pos, tokens, written>>
         /\ \A b \in Buffers : b # BufferIndex(slot, l) => buf'[b] = buf[b]
         /\ \A p \in Positions :
              /\ p < fed + Len(batch) => buf'[BufferIndex(slot, l)][p] = Prefix(Dialogue, p + 1)
<1> DEFINE before == IF start = 0 \/ start > NumCtx THEN <<>> ELSE Vectors(slot, l, start - 1)
           kept == {p \in Positions : start <= p /\ p < start + Len(batch)}
           x == BufferIndex(slot, l)
           new == [p \in Positions |-> IF p \in kept THEN before \o Prefix(batch, p - start + 1)
                                       ELSE buf[x][p]]
<1>1. /\ buf' = [buf EXCEPT ![x] = new]
      /\ clock' = clock + Cardinality(kept)
      /\ touchedAt' = [touchedAt EXCEPT ![slot] = IF kept = {} THEN @ ELSE clock']
      /\ UNCHANGED <<owner, pos, tokens, written>>
  BY DEF WriteBatch
<1>2. slot \in Slots /\ x \in Buffers /\ buf \in [Buffers -> [Positions -> Seq(TokenIds)]]
  BY BuffersApart DEF IndInv, TypeOK, CacheTypeOK
<1>3. kept \in SUBSET Positions /\ Cardinality(kept) \in Nat
  <2>1. IsFiniteSet(Positions)
    BY KVCacheAssumption, FS_Interval DEF Positions
  <2> QED BY <2>1, FS_Subset, FS_CardinalityType
<1>4. Running /\ Through(l) = fed
  <2>1. fed + 0 = fed /\ ~(l < l)
    BY KVCacheAssumption DEF IndInv, TypeOK, Layers
  <2> QED BY <2>1 DEF Running, Through
<1>5. \A p \in Positions : p < fed => buf[x][p] = Prefix(Dialogue, p + 1)
  BY <1>4 DEF IndInv, VectorsInv, Vectors
<1>6. ASSUME NEW p \in kept
      PROVE  /\ before \o Prefix(batch, p - start + 1) = Prefix(Dialogue, p + 1)
             /\ Prefix(Dialogue, p + 1) \in Seq(TokenIds)
  <2>1. /\ p \in 0 .. NumCtx - 1 /\ NumCtx \in Nat /\ start <= p /\ p < start + Len(batch)
        /\ start \in Nat /\ Len(batch) \in Nat /\ fed \in Nat
        /\ start = fed \/ start = NumCtx
    BY KVCacheAssumption, BatchIs DEF Positions
  <2>2. start = fed /\ p - start + 1 \in 0 .. Len(batch) /\ fed + (p - start + 1) = p + 1
    <3> HIDE DEF kept, before, x, new
    <3> QED BY <2>1
  <2>3. before = Prefix(Dialogue, fed)
    <3>1. CASE start = 0
      BY <2>2, <3>1, SubSeqEmpty DEF Prefix
    <3>2. CASE start # 0
      <4>1. start - 1 \in Positions /\ start - 1 < fed /\ (start - 1) + 1 = fed /\ ~(start > NumCtx)
        BY <2>1, <2>2, <3>2 DEF Positions
      <4> QED BY <1>5, <3>2, <4>1 DEF Vectors
    <3> QED BY <3>1, <3>2
  <2> QED BY <2>2, <2>3, BatchIs
<1> HIDE DEF kept, before, x
<1>7. new \in [Positions -> Seq(TokenIds)]
  BY <1>2, <1>6
<1>8. \A p \in Positions : p < fed + Len(batch) => new[p] = Prefix(Dialogue, p + 1)
  <2> SUFFICES ASSUME NEW p \in Positions, p < fed + Len(batch)
               PROVE  new[p] = Prefix(Dialogue, p + 1)
    OBVIOUS
  <2>1. CASE p \in kept
    BY <1>6, <2>1
  <2>2. CASE p \notin kept
    <3>1. ~(start <= p /\ p < start + Len(batch)) /\ p \in 0 .. NumCtx - 1 /\ NumCtx \in Nat
      BY <2>2, KVCacheAssumption DEF kept, Positions
    <3>2. p < fed
      BY <3>1, BatchIs
    <3> QED BY <1>5, <2>2, <3>2
  <2> QED BY <2>1, <2>2
<1> HIDE DEF new
<1>9. /\ buf' \in [Buffers -> [Positions -> Seq(TokenIds)]] /\ buf'[x] = new
      /\ \A b \in Buffers : b # x => buf'[b] = buf[b]
  BY <1>1, <1>2, <1>7
<1>10. CacheTypeOK'
  <2>1. clock' \in Nat
    BY <1>1, <1>3 DEF IndInv, TypeOK, CacheTypeOK
  <2>2. touchedAt' \in [Slots -> Nat]
    BY <1>1, <1>2, <2>1 DEF IndInv, TypeOK, CacheTypeOK
  <2> QED BY <1>1, <1>9, <2>1, <2>2 DEF IndInv, TypeOK, CacheTypeOK
<1>11. UNCHANGED <<owner, pos, tokens, written>>
  BY <1>1
<1>12. BufferIndex(slot, l) = x
  BY DEF x
<1> QED BY <1>8, <1>9, <1>10, <1>11, <1>12

\* A block with attention writes its vectors and reads those before.
LEMMA AttentionBlock ==
  ASSUME IndInv, RunBlock, layer \notin recurrent
  PROVE  IndInv'
<1>1. /\ phase = "forward" /\ layer < NumLayers /\ layer' = layer + 1
      /\ WriteBatch(layer) /\ rstate' = rstate
      /\ UNCHANGED <<requestVars, progress, sinkVars, history, rtokens, phase, batch,
                     committed, start, surroundings>>
  BY DEF RunBlock
<1>2. UNCHANGED <<prompt, out, fed, slot, sid, channel, recurrent, rtokens, phase, broken,
                  overtime, sink_dead, since_probe, latePieces, batch, committed, start, leaked,
                  lateDecodes>>
  BY <1>1 DEF requestVars, progress, sinkVars, history, surroundings
<1>3. /\ slot \in Slots /\ layer \in Layers \ recurrent /\ layer \in Nat
      /\ recurrent \subseteq Layers /\ NumLayers \in Nat
  BY <1>1, GenerationAssumption, KVCacheAssumption DEF IndInv, TypeOK, Layers
<1>4. /\ CacheTypeOK' /\ UNCHANGED <<owner, pos, tokens, written>>
      /\ \A b \in Buffers : b # BufferIndex(slot, layer) => buf'[b] = buf[b]
      /\ \A p \in Positions :
           p < fed + Len(batch) => buf'[BufferIndex(slot, layer)][p] = Prefix(Dialogue, p + 1)
  BY <1>1, <1>3, WrittenIs
<1>5. TypeOK'
  <2>1. layer' \in 0 .. NumLayers
    BY <1>1, <1>3
  <2> QED BY <1>1, <1>2, <1>4, <2>1 DEF IndInv, TypeOK
<1>6. OwnersInv'
  BY <1>1, <1>2, <1>4, OwnersStay DEF IndInv
<1>7. ColdInv' /\ LateInv'
  BY <1>1, <1>2 DEF IndInv, ColdInv, LateInv, Aborts
<1>8. Dialogue' = Dialogue
  BY <1>2 DEF Dialogue
<1>9. FeedInv' /\ PosInv'
  BY <1>1, <1>2, <1>4, <1>8 DEF IndInv, FeedInv, PosInv, Running
<1>10. \A l \in Layers :
         Through(l)' = IF l = layer THEN fed + Len(batch) ELSE Through(l)
  <2>1. \A l \in Layers : /\ l # layer => (l < layer' <=> l < layer)
                          /\ l = layer => l < layer'
    BY <1>1, <1>3 DEF Layers
  <2> QED BY <1>1, <1>2, <2>1 DEF Through
<1>11. VectorsInv'
  <2> SUFFICES ASSUME NEW l \in Layers \ recurrent, NEW p \in Positions, p < Through(l)'
               PROVE  Vectors(slot, l, p)' = Prefix(Dialogue', p + 1)
    BY <1>2 DEF VectorsInv
  <2>1. Vectors(slot, l, p)' = buf'[BufferIndex(slot, l)][p]
    BY <1>2 DEF Vectors, BufferIndex
  <2>2. CASE l = layer
    BY <1>4, <1>8, <1>10, <2>1, <2>2
  <2>3. CASE l # layer
    <3>1. BufferIndex(slot, l) \in Buffers /\ BufferIndex(slot, l) # BufferIndex(slot, layer)
      BY <1>3, <2>3, BuffersApart
    <3>2. buf'[BufferIndex(slot, l)][p] = Vectors(slot, l, p)
      BY <1>4, <3>1 DEF Vectors
    <3>3. p < Through(l) /\ Running
      BY <1>1, <1>10, <2>3 DEF Running
    <3>4. Vectors(slot, l, p) = Prefix(Dialogue, p + 1)
      BY <3>3 DEF IndInv, VectorsInv
    <3> QED BY <1>8, <2>1, <3>2, <3>4
  <2> QED BY <2>2, <2>3
<1>12. StateInv'
  <2>1. \A l \in recurrent : Through(l)' = Through(l)
    BY <1>3, <1>10
  <2> QED BY <1>1, <1>2, <1>8, <2>1 DEF IndInv, StateInv, Running, Hybrid
<1> QED BY <1>5, <1>6, <1>7, <1>9, <1>11, <1>12 DEF IndInv

\* A committed token is counted by pos and by tokens, up to the context.
LEMMA CommitStep ==
  ASSUME IndInv, CommitNext
  PROVE  IndInv'
<1>1. /\ phase = "forward" /\ layer = NumLayers /\ committed < Len(batch)
      /\ CommitToken(slot, batch[committed + 1]) /\ committed' = committed + 1
      /\ UNCHANGED <<modelState, requestVars, progress, batch, start, layer, sinkVars, history,
                     phase, surroundings>>
  BY DEF CommitNext
<1>2. UNCHANGED <<prompt, out, fed, slot, sid, channel, recurrent, rstate, rtokens, broken,
                  overtime, sink_dead, since_probe, latePieces, phase, batch, layer, start,
                  leaked, lateDecodes>>
  BY <1>1 DEF modelState, requestVars, progress, sinkVars, history, surroundings
<1>3. /\ slot \in Slots /\ fed \in Nat /\ committed \in Nat /\ batch \in Seq(TokenIds)
      /\ committed + 1 \in 1 .. Len(batch) /\ Len(batch) \in Nat /\ NumCtx \in Nat
      /\ batch[committed + 1] \in TokenIds
  <2>1. /\ slot \in Slots /\ fed \in Nat /\ committed \in Nat /\ batch \in Seq(TokenIds)
        /\ Len(batch) \in Nat /\ NumCtx \in Nat
    BY KVCacheAssumption DEF IndInv, TypeOK
  <2>2. committed + 1 \in 1 .. Len(batch)
    BY <1>1, <2>1
  <2> QED BY <2>1, <2>2, ElementOfSeq
<1> DEFINE n == fed + committed
           t == batch[committed + 1]
<1>4. /\ pos[slot] = IF n < NumCtx THEN n ELSE NumCtx
      /\ Len(tokens[slot]) = pos[slot]
      /\ tokens \in [Slots -> Seq(TokenIds)] /\ pos \in [Slots -> 0 .. NumCtx]
      /\ n \in Nat
  BY <1>1, <1>3 DEF IndInv, TypeOK, CacheTypeOK, PosInv, Running
<1>5. t \in TokenIds
  BY <1>3
<1> HIDE DEF t
<1>6. /\ CacheTypeOK' /\ UNCHANGED <<owner, buf>>
      /\ pos'[slot] = IF n + 1 < NumCtx THEN n + 1 ELSE NumCtx
      /\ Len(tokens'[slot]) = pos'[slot]
  <2>1. CASE n < NumCtx
    <3>1. pos[slot] = n /\ Len(tokens[slot]) = n /\ ~Full(slot) /\ tokens[slot] \in Seq(TokenIds)
      BY <1>3, <1>4, <2>1 DEF Full
    <3>2. /\ TokensAfterCommit(slot, t) = Append(tokens[slot], t)
          /\ Append(tokens[slot], t) \in Seq(TokenIds)
          /\ Len(Append(tokens[slot], t)) = n + 1
      BY <1>4, <1>5, <3>1, AppendProperties DEF TokensAfterCommit
    <3>3. PosAfterCommit(slot, n + 1) = n + 1
      BY <1>4, <3>1 DEF PosAfterCommit
    <3>4. /\ tokens' = [tokens EXCEPT ![slot] = Append(tokens[slot], t)]
          /\ pos' = [pos EXCEPT ![slot] = n + 1]
          /\ written' = [written EXCEPT ![slot] = {}]
          /\ Touch(slot) /\ UNCHANGED <<owner, buf>>
      BY <1>1, <3>1, <3>2, <3>3 DEF CommitToken, t
    <3>5. n + 1 \in 0 .. NumCtx /\ (n + 1 < NumCtx \/ n + 1 = NumCtx)
      BY <1>3, <1>4, <2>1
    <3>6. tokens' \in [Slots -> Seq(TokenIds)] /\ tokens'[slot] = Append(tokens[slot], t)
      BY <1>3, <1>4, <3>2, <3>4
    <3>7. pos' \in [Slots -> 0 .. NumCtx] /\ pos'[slot] = n + 1
      BY <1>3, <1>4, <3>4, <3>5
    <3> HIDE DEF n
    <3>8. CacheTypeOK'
      <4>1. /\ owner \in [Slots -> SessionIds \cup {NoOwner}]
            /\ touchedAt \in [Slots -> Nat] /\ written \in [Slots -> SUBSET Layers]
            /\ clock \in Nat /\ buf \in [Buffers -> [Positions -> Seq(TokenIds)]]
        BY DEF IndInv, TypeOK, CacheTypeOK
      <4>2. clock' \in Nat /\ touchedAt' \in [Slots -> Nat]
        <5>1. clock' = clock + 1 /\ touchedAt' = [touchedAt EXCEPT ![slot] = clock + 1]
          BY <3>4 DEF Touch
        <5>2. clock + 1 \in Nat
          BY <4>1
        <5> QED BY <4>1, <5>1, <5>2
      <4>3. written' \in [Slots -> SUBSET Layers]
        BY <3>4, <4>1
      <4> QED BY <3>4, <3>6, <3>7, <4>1, <4>2, <4>3 DEF CacheTypeOK
    <3> QED BY <3>2, <3>4, <3>5, <3>6, <3>7, <3>8
  <2>2. CASE ~(n < NumCtx)
    <3>1. pos[slot] = NumCtx /\ Full(slot) /\ ~(n + 1 < NumCtx)
      BY <1>3, <1>4, <2>2 DEF Full
    <3>2. UNCHANGED cacheVars
      BY <1>1, <3>1 DEF CommitToken
    <3> QED BY <1>4, <3>1, <3>2 DEF IndInv, TypeOK, CacheTypeOK, cacheVars
  <2> QED BY <2>1, <2>2
<1>7. n + 1 = fed + committed'
  BY <1>1, <1>3
<1> HIDE DEF n
<1>8. TypeOK'
  <2>1. committed' \in 0 .. Len(batch')
    BY <1>1, <1>2, <1>3
  <2> QED BY <1>2, <1>6, <2>1 DEF IndInv, TypeOK
<1>9. OwnersInv'
  BY <1>1, <1>2, <1>6, OwnersStay DEF IndInv
<1>10. ColdInv' /\ LateInv'
  BY <1>1, <1>2 DEF IndInv, ColdInv, LateInv, Aborts
<1>11. Dialogue' = Dialogue /\ \A l \in Layers : Through(l)' = Through(l)
  BY <1>2 DEF Dialogue, Through
<1>12. FeedInv'
  BY <1>1, <1>2, <1>11 DEF IndInv, FeedInv
<1>13. PosInv'
  BY <1>1, <1>2, <1>6, <1>7 DEF PosInv
<1>14. VectorsInv'
  BY <1>2, <1>6, <1>11 DEF IndInv, VectorsInv, Running, Vectors, BufferIndex
<1>15. StateInv'
  <2>1. recurrent \subseteq Layers
    BY GenerationAssumption DEF IndInv, TypeOK
  <2> QED BY <1>2, <1>11, <2>1 DEF IndInv, StateInv, Running, Hybrid
<1> QED BY <1>8, <1>9, <1>10, <1>12, <1>13, <1>14, <1>15 DEF IndInv

\* Every layer has seen the batch: it counts as fed.
LEMMA AdvanceStep ==
  ASSUME IndInv, Advance
  PROVE  IndInv'
<1>1. /\ phase = "forward" /\ layer = NumLayers /\ committed = Len(batch)
      /\ rtokens' = IF Hybrid THEN [rtokens EXCEPT ![slot] = @ + Len(batch)] ELSE rtokens
      /\ fed' = fed + Len(batch)
      /\ phase' = IF fed + Len(batch) < Len(prompt) THEN "prefill" ELSE "loop"
      /\ UNCHANGED <<cacheVars, requestVars, batchVars, sinkVars, history, rstate, out,
                     surroundings>>
  BY DEF Advance
<1>2. UNCHANGED <<prompt, out, slot, sid, channel, recurrent, rstate, batch, layer, broken,
                  overtime, sink_dead, since_probe, latePieces, committed, start, owner, leaked,
                  lateDecodes, pos, tokens, buf>>
  BY <1>1 DEF cacheVars, requestVars, batchVars, sinkVars, history, surroundings
<1>3. /\ fed \in Nat /\ Len(batch) \in Nat \ {0} /\ Len(prompt) \in Nat /\ Len(out) \in Nat
      /\ slot \in Slots /\ rtokens \in [Slots -> Nat]
      /\ IF fed + Len(batch) < Len(prompt) THEN out = <<>>
         ELSE fed + Len(batch) = Len(prompt) + Len(out)
  <2>1. fed \in Nat /\ Len(batch) \in Nat \ {0}
    BY <1>1, BatchIs
  <2>2. /\ Len(prompt) \in Nat /\ Len(out) \in Nat
        /\ slot \in Slots /\ rtokens \in [Slots -> Nat]
    BY DEF IndInv, TypeOK
  <2>3. IF fed + Len(batch) < Len(prompt) THEN out = <<>>
        ELSE fed + Len(batch) = Len(prompt) + Len(out)
    BY <1>1 DEF IndInv, FeedInv
  <2> QED BY <2>1, <2>2, <2>3
<1>4. rtokens' \in [Slots -> Nat] /\ (Hybrid => rtokens'[slot] = fed')
  <2>1. CASE Hybrid
    <3>1. rtokens[slot] = fed
      BY <1>1, <2>1 DEF IndInv, StateInv, Running
    <3> QED BY <1>1, <1>3, <2>1, <3>1
  <2>2. CASE ~Hybrid
    BY <1>1, <1>3, <2>2
  <2> QED BY <2>1, <2>2
<1>5. TypeOK'
  <2>1. CacheTypeOK'
    BY <1>1 DEF IndInv, TypeOK, CacheTypeOK, cacheVars
  <2>2. fed' \in 0 .. Len(prompt') + Len(out')
    BY <1>1, <1>2, <1>3
  <2>3. phase' \in Phases
    BY <1>1 DEF Phases
  <2> QED BY <1>2, <1>4, <2>1, <2>2, <2>3 DEF IndInv, TypeOK
<1>6. OwnersInv'
  BY <1>1, <1>2, OwnersStay DEF IndInv
<1>7. ColdInv'
  BY <1>1 DEF ColdInv
<1>8. LateInv'
  BY <1>1, <1>2 DEF IndInv, TypeOK, LateInv, Aborts
<1>9. FeedInv'
  BY <1>1, <1>2, <1>3 DEF FeedInv
<1>10. PosInv'
  BY <1>1, <1>2, <1>3 DEF IndInv, PosInv, Running
<1>11. Dialogue' = Dialogue /\ \A l \in Layers : Through(l)' = Through(l)
  <2>1. \A l \in Layers : l < layer
    BY <1>1, KVCacheAssumption DEF Layers
  <2>2. fed' + 0 = fed'
    BY <1>1, <1>3
  <2> QED BY <1>1, <1>2, <2>1, <2>2 DEF Dialogue, Through
<1>12. VectorsInv'
  BY <1>1, <1>2, <1>11 DEF IndInv, VectorsInv, Running, Vectors, BufferIndex
<1>13. StateInv'
  <2>1. recurrent \subseteq Layers
    BY GenerationAssumption DEF IndInv, TypeOK
  <2> QED BY <1>1, <1>2, <1>4, <1>11, <2>1 DEF IndInv, StateInv, Running, Hybrid
<1> QED BY <1>5, <1>6, <1>7, <1>8, <1>9, <1>10, <1>12, <1>13 DEF IndInv

\* The loop decodes the token it drew, or ends.
LEMMA LoopStep ==
  ASSUME IndInv, LoopGoesOn
  PROVE  IndInv'
<1>1. /\ phase = "loop" /\ phase' = "draw" /\ Len(out) < max_tokens /\ ~Aborts
      /\ UNCHANGED <<cacheVars, modelState, requestVars, progress, batchVars, sinkVars, history,
                     surroundings>>
  BY DEF LoopGoesOn
<1>2. UNCHANGED <<prompt, out, fed, slot, sid, channel, recurrent, rstate, rtokens, broken,
                  overtime, sink_dead, since_probe, latePieces, batch, layer, committed, start,
                  owner, leaked, lateDecodes, pos, tokens, buf>>
  BY <1>1 DEF cacheVars, modelState, requestVars, progress, batchVars, sinkVars, history,
              surroundings
<1>3. TypeOK'
  <2>1. CacheTypeOK'
    BY <1>1 DEF IndInv, TypeOK, CacheTypeOK, cacheVars
  <2> QED BY <1>1, <1>2, <2>1 DEF IndInv, TypeOK, Phases
<1>4. OwnersInv'
  BY <1>1, <1>2, OwnersStay DEF IndInv
<1>5. ColdInv' /\ FeedInv' /\ PosInv'
  BY <1>1, <1>2 DEF IndInv, ColdInv, FeedInv, PosInv, Running
<1>6. VectorsInv' /\ StateInv'
  BY <1>1, <1>2, SeenStays DEF IndInv, Running
<1>7. LateInv'
  BY <1>1, <1>2 DEF IndInv, LateInv, Aborts
<1> QED BY <1>3, <1>4, <1>5, <1>6, <1>7 DEF IndInv

\* The token drawn is the one token of the dialogue not fed yet.
LEMMA DrawStep ==
  ASSUME IndInv, NEW t \in TokenIds, Draw(t)
  PROVE  IndInv'
<1>1. /\ phase = "draw" /\ phase' = "emit" /\ out' = Append(out, t)
      /\ UNCHANGED <<cacheVars, modelState, requestVars, batchVars, sinkVars, history, fed,
                     surroundings>>
  BY DEF Draw
<1>2. UNCHANGED <<prompt, fed, slot, sid, channel, recurrent, rstate, rtokens, broken, overtime,
                  sink_dead, since_probe, latePieces, batch, layer, committed, start, owner,
                  leaked, lateDecodes, pos, tokens, buf>>
  BY <1>1 DEF cacheVars, modelState, requestVars, batchVars, sinkVars, history, surroundings
<1>3. /\ out \in Seq(TokenIds) /\ Len(out) \in Nat /\ Len(prompt) \in Nat /\ max_tokens \in Nat
      /\ Len(out) < max_tokens /\ fed = Len(prompt) + Len(out) /\ fed \in Nat
  BY <1>1, GenerationAssumption DEF IndInv, TypeOK, FeedInv
<1>4. out' \in Seq(TokenIds) /\ Len(out') = Len(out) + 1 /\ out' # <<>>
  BY <1>1, <1>3, AppendProperties
<1>5. TypeOK'
  <2>1. CacheTypeOK'
    BY <1>1 DEF IndInv, TypeOK, CacheTypeOK, cacheVars
  <2>2. fed' \in 0 .. Len(prompt') + Len(out') /\ Len(out') <= max_tokens
    BY <1>2, <1>3, <1>4
  <2> QED BY <1>1, <1>2, <1>4, <2>1, <2>2 DEF IndInv, TypeOK, Phases
<1>6. OwnersInv'
  BY <1>1, <1>2, OwnersStay DEF IndInv
<1>7. ColdInv'
  BY <1>1 DEF ColdInv
<1>8. LateInv'
  BY <1>1, <1>2 DEF IndInv, LateInv, Aborts
<1>9. FeedInv'
  BY <1>1, <1>2, <1>3, <1>4 DEF FeedInv
<1>10. PosInv'
  BY <1>1, <1>2 DEF IndInv, PosInv, Running
<1>11. \A n \in 0 .. fed : Prefix(Dialogue', n) = Prefix(Dialogue, n)
  <2>1. Len(Dialogue) = fed
    BY <1>3, DialogueIs DEF IndInv
  <2>2. Dialogue' = prompt \o Append(out, t)
    BY <1>1, <1>2 DEF Dialogue
  <2> QED BY <2>1, <2>2, DialogueGrows DEF IndInv
<1>12. \A l \in Layers : Through(l)' = fed /\ Through(l) = fed
  BY <1>1, <1>2, <1>3 DEF Through
<1>13. Running
  BY <1>1 DEF Running
<1>14. VectorsInv'
  <2> SUFFICES ASSUME NEW l \in Layers \ recurrent, NEW p \in Positions, p < fed
               PROVE  Vectors(slot, l, p)' = Prefix(Dialogue', p + 1)
    BY <1>2, <1>12 DEF VectorsInv
  <2>1. Vectors(slot, l, p)' = Vectors(slot, l, p)
    BY <1>2 DEF Vectors, BufferIndex
  <2>2. Vectors(slot, l, p) = Prefix(Dialogue, p + 1)
    BY <1>12, <1>13 DEF IndInv, VectorsInv
  <2>3. p + 1 \in 0 .. fed
    BY <1>3, KVCacheAssumption DEF Positions
  <2> QED BY <1>11, <2>1, <2>2, <2>3
<1>15. StateInv'
  <2>1. recurrent \subseteq Layers /\ fed \in 0 .. fed
    BY <1>3, GenerationAssumption DEF IndInv, TypeOK
  <2> QED BY <1>2, <1>11, <1>12, <1>13, <2>1 DEF IndInv, StateInv, Hybrid
<1> QED BY <1>5, <1>6, <1>7, <1>8, <1>9, <1>10, <1>14, <1>15 DEF IndInv

\* An exception leaves the slot with its session, which is over.
LEMMA ThrowStep ==
  ASSUME IndInv, EmitThrows
  PROVE  IndInv'
<1>1. /\ phase = "emit" /\ phase' = "idle" /\ leaked' = leaked \cup {slot}
      /\ UNCHANGED <<cacheVars, modelState, requestVars, progress, batchVars, sinkVars,
                     lateDecodes, surroundings>>
  BY DEF EmitThrows
<1>2. UNCHANGED <<prompt, out, fed, slot, sid, channel, recurrent, rstate, rtokens, broken,
                  overtime, sink_dead, since_probe, latePieces, batch, layer, committed, start,
                  owner, lateDecodes>>
  BY <1>1 DEF cacheVars, modelState, requestVars, progress, batchVars, sinkVars, surroundings
<1>3. TypeOK'
  <2>1. CacheTypeOK'
    BY <1>1 DEF IndInv, TypeOK, CacheTypeOK, cacheVars
  <2> QED BY <1>1, <1>2, <2>1 DEF IndInv, TypeOK, Phases
<1>4. OwnersInv'
  <2>1. Held' = {}
    BY <1>1 DEF Held
  <2>2. \A i \in Slots : owner[i] # NoOwner => owner[i] \in 1 .. sid
    BY DEF IndInv, OwnersInv
  <2> QED BY <1>1, <1>2, <2>1, <2>2, HoldsSlot DEF OwnersInv
<1>5. ColdInv'
  BY <1>1 DEF ColdInv
<1>6. LateInv'
  BY <1>1, <1>2 DEF IndInv, TypeOK, LateInv, Aborts
<1> QED BY <1>1, <1>3, <1>4, <1>5, <1>6, NotRunning DEF IndInv

\* The token just drawn is a batch of its own, where the cache has got to.
LEMMA DecodeStep ==
  ASSUME IndInv, Decode
  PROVE  IndInv'
<1>1. /\ phase = "emitted" /\ phase' = "forward" /\ Len(out) < max_tokens
      /\ batch' = <<Last(out)>> /\ start' = pos[slot] /\ layer' = 0 /\ committed' = 0
      /\ lateDecodes' = IF Aborts THEN lateDecodes + 1 ELSE lateDecodes
      /\ UNCHANGED <<cacheVars, modelState, requestVars, progress, sinkVars, leaked, surroundings>>
  BY DEF Decode, Begin
<1>2. UNCHANGED <<prompt, out, fed, slot, sid, channel, recurrent, rstate, rtokens, broken,
                  overtime, sink_dead, since_probe, latePieces, owner, leaked, pos, tokens, buf>>
  BY <1>1 DEF cacheVars, modelState, requestVars, progress, sinkVars, surroundings
<1>3. /\ out \in Seq(TokenIds) /\ out # <<>> /\ fed + 1 = Len(prompt) + Len(out) /\ fed \in Nat
      /\ Len(prompt) \in Nat /\ Len(out) \in Nat \ {0} /\ slot \in Slots
      /\ k_prefill_batch \in Nat \ {0} /\ NumCtx \in Nat
      /\ Dialogue \in Seq(TokenIds) /\ Len(Dialogue) = fed + 1 /\ Dialogue[fed + 1] = out[Len(out)]
  BY <1>1, DialogueIs, GenerationAssumption, KVCacheAssumption DEF IndInv, TypeOK, FeedInv
<1>4. Last(out) = Dialogue[fed + 1] /\ Last(out) \in TokenIds
  <2>1. Last(out) = out[Len(out)]
    BY DEF Last
  <2>2. Len(out) \in 1 .. Len(out)
    BY <1>3
  <2> QED BY <1>3, <2>1, <2>2, ElementOfSeq
<1>5. batch' \in Seq(TokenIds) /\ Len(batch') = 1 /\ batch'[1] = Dialogue[fed + 1] /\ batch' # <<>>
  BY <1>1, <1>4
<1>6. pos[slot] \in Nat /\ pos[slot] = IF fed < NumCtx THEN fed ELSE NumCtx
  <2>1. fed + 0 = fed
    BY <1>3
  <2> QED BY <1>1, <1>3, <2>1 DEF IndInv, TypeOK, CacheTypeOK, PosInv, Running
<1>7. TypeOK'
  <2>1. CacheTypeOK'
    BY <1>1 DEF IndInv, TypeOK, CacheTypeOK, cacheVars
  <2>2. /\ Len(batch') <= k_prefill_batch /\ layer' \in 0 .. NumLayers
        /\ committed' \in 0 .. Len(batch') /\ start' \in Nat
    BY <1>1, <1>3, <1>5, <1>6, KVCacheAssumption
  <2>3. lateDecodes' \in Nat
    BY <1>1 DEF IndInv, TypeOK
  <2> QED BY <1>1, <1>2, <1>5, <2>1, <2>2, <2>3 DEF IndInv, TypeOK, Phases
<1>8. OwnersInv'
  BY <1>1, <1>2, OwnersStay DEF IndInv
<1>9. ColdInv'
  BY <1>1 DEF ColdInv
<1>10. LateInv'
  BY <1>1, <1>2 DEF IndInv, TypeOK, LateInv, Aborts
<1>11. FeedInv'
  <2>1. Dialogue' = Dialogue
    BY <1>2 DEF Dialogue
  <2> DEFINE slice == SubSeq(Dialogue, fed + 1, fed + 1)
  <2>2. slice \in Seq(TokenIds) /\ Len(slice) = 1 /\ \A j \in 1 .. 1 : slice[j] = Dialogue[fed + j]
    BY <1>3, SliceIs
  <2> HIDE DEF slice
  <2>3. batch' = slice
    <3>1. \A j \in 1 .. 1 : batch'[j] = slice[j]
      BY <1>5, <2>2
    <3> QED BY <1>5, <2>2, <3>1, SeqEqual
  <2>4. batch' = SubSeq(Dialogue', fed' + 1, fed' + Len(batch'))
    BY <1>2, <1>5, <2>1, <2>3 DEF slice
  <2>5. ~(fed' + Len(batch') < Len(prompt')) /\ fed' + Len(batch') = Len(prompt') + Len(out')
    BY <1>2, <1>3, <1>5
  <2>6. start' = fed' \/ (start' = NumCtx /\ NumCtx <= fed')
    BY <1>1, <1>2, <1>3, <1>6
  <2> QED BY <1>1, <1>5, <2>4, <2>5, <2>6 DEF FeedInv
<1>12. PosInv'
  BY <1>1, <1>2, <1>3 DEF IndInv, PosInv, Running
<1>13. VectorsInv' /\ StateInv'
  BY <1>1, <1>2, SeenStays DEF IndInv, Running
<1> QED BY <1>7, <1>8, <1>9, <1>10, <1>11, <1>12, <1>13 DEF IndInv

\* Nothing is read or fed while a token's text is handed on.
LEMMA HandedOn ==
  ASSUME IndInv, phase = "emit", phase' = "emitted",
         UNCHANGED <<cacheVars, modelState, requestVars, progress, batchVars, history,
                     surroundings>>
  PROVE  /\ CacheTypeOK' /\ OwnersInv' /\ ColdInv' /\ FeedInv' /\ PosInv'
         /\ VectorsInv' /\ StateInv'
<1>1. UNCHANGED <<prompt, out, fed, slot, sid, recurrent, rstate, rtokens, batch, layer,
                  committed, start, owner, leaked, pos, tokens, buf>>
  BY DEF cacheVars, modelState, requestVars, progress, batchVars, history, surroundings
<1>2. CacheTypeOK'
  BY DEF IndInv, TypeOK, CacheTypeOK, cacheVars
<1>3. OwnersInv'
  BY <1>1, OwnersStay DEF IndInv
<1>4. ColdInv' /\ FeedInv' /\ PosInv'
  BY <1>1 DEF IndInv, ColdInv, FeedInv, PosInv, Running
<1>5. VectorsInv' /\ StateInv'
  BY <1>1, SeenStays DEF IndInv, Running
<1> QED BY <1>2, <1>3, <1>4, <1>5

\* A piece for an agent's client: if the connection is broken either it is one
\* more quiet one, or it is written and the write fails.
LEMMA OnDeltaStep ==
  ASSUME IndInv, NEW piece \in Pieces, OnDelta(piece)
  PROVE  IndInv'
<1>1. /\ phase = "emit" /\ phase' = "emitted" /\ channel = "agent"
      /\ sink_dead' = (sink_dead \/ (Writes(piece) /\ broken))
      /\ since_probe' = IF Writes(piece) THEN 0
                        ELSE IF piece = "quiet" /\ since_probe + 1 < ProbeEvery
                        THEN since_probe + 1 ELSE since_probe
      /\ latePieces' = IF broken /\ piece # "none" THEN latePieces + 1 ELSE latePieces
      /\ UNCHANGED <<cacheVars, modelState, requestVars, progress, batchVars, history,
                     surroundings>>
  BY DEF OnDelta
<1>2. UNCHANGED <<prompt, out, fed, slot, sid, channel, recurrent, rstate, rtokens, broken,
                  overtime, batch, layer, committed, start, leaked, lateDecodes>>
  BY <1>1 DEF modelState, requestVars, progress, batchVars, history, surroundings
<1>3. /\ since_probe \in 0 .. ProbeEvery - 1 /\ ProbeEvery \in Nat \ {0} /\ latePieces \in Nat
      /\ sink_dead \in BOOLEAN /\ broken \in BOOLEAN
  BY GenerationAssumption DEF IndInv, TypeOK
<1>4. /\ latePieces <= IF ~broken THEN 0 ELSE since_probe
      /\ ~sink_dead /\ lateDecodes <= 0
  <2>1. ~sink_dead
    BY <1>1 DEF IndInv, LateInv
  <2>2. latePieces <= IF ~broken THEN 0 ELSE IF sink_dead THEN ProbeEvery ELSE since_probe
    BY <1>1 DEF IndInv, LateInv
  <2>3. lateDecodes <= 0
    BY <1>1 DEF IndInv, LateInv
  <2> QED BY <2>1, <2>2, <2>3
<1>5. piece = "quiet" /\ ~Writes(piece) => since_probe + 1 < ProbeEvery
  BY <1>3 DEF Writes
<1>6. piece \notin {"none", "quiet"} => Writes(piece)
  BY DEF Pieces, Writes
<1>7. piece = "none" => ~Writes(piece)
  BY DEF Writes
<1>8. since_probe' \in 0 .. ProbeEvery - 1 /\ sink_dead' \in BOOLEAN /\ latePieces' \in Nat
  BY <1>1, <1>3, <1>5
<1>9. TypeOK'
  BY <1>1, <1>2, <1>8, HandedOn DEF IndInv, TypeOK, Phases
<1>10. latePieces' <= IF ~broken THEN 0 ELSE IF sink_dead' THEN ProbeEvery ELSE since_probe'
  <2>1. CASE ~broken
    BY <1>1, <1>3, <1>4, <2>1
  <2>2. CASE broken /\ Writes(piece)
    <3>1. sink_dead'
      BY <1>1, <2>2
    <3>2. latePieces' <= latePieces + 1
      BY <1>1, <1>3
    <3>3. latePieces <= since_probe
      BY <1>4, <2>2
    <3> QED BY <1>3, <1>8, <2>2, <3>1, <3>2, <3>3
  <2>3. CASE broken /\ ~Writes(piece)
    BY <1>1, <1>3, <1>4, <1>5, <1>6, <2>3
  <2> QED BY <2>1, <2>2, <2>3
<1>11. LateInv'
  <2>1. sink_dead' => broken
    BY <1>1, <1>4
  <2> QED BY <1>1, <1>2, <1>4, <1>10, <2>1 DEF LateInv
<1> QED BY <1>1, <1>9, <1>11, HandedOn DEF IndInv

\* The other handlers write and look at nothing.
LEMMA PassOnStep ==
  ASSUME IndInv, PassOn
  PROVE  IndInv'
<1>1. /\ phase = "emit" /\ phase' = "emitted" /\ channel # "agent"
      /\ UNCHANGED <<cacheVars, modelState, requestVars, progress, batchVars, sinkVars, history,
                     surroundings>>
  BY DEF PassOn
<1>2. UNCHANGED <<prompt, out, fed, slot, sid, channel, recurrent, rstate, rtokens, broken,
                  overtime, batch, layer, committed, start, leaked, lateDecodes, sink_dead,
                  since_probe, latePieces>>
  BY <1>1 DEF modelState, requestVars, progress, batchVars, sinkVars, history, surroundings
<1>3. TypeOK'
  BY <1>1, <1>2, HandedOn DEF IndInv, TypeOK, Phases
<1>4. LateInv'
  BY <1>1, <1>2 DEF LateInv
<1> QED BY <1>1, <1>3, <1>4, HandedOn DEF IndInv

\* The connection breaks, or the time runs out, and nothing else changes.
LEMMA SurroundingsStep ==
  ASSUME IndInv, ConnectionBreaks \/ TimeRunsOut
  PROVE  IndInv'
<1>1. /\ phase \in {"loop", "emit"} /\ phase' = phase /\ channel = "agent"
      /\ (broken' = TRUE /\ ~broken /\ overtime' = overtime)
           \/ (overtime' = TRUE /\ ~overtime /\ broken' = broken)
      /\ UNCHANGED <<cacheVars, modelState, requestVars, progress, batchVars, sinkVars, history,
                     recurrent>>
  BY DEF ConnectionBreaks, TimeRunsOut
<1>2. UNCHANGED <<prompt, out, fed, slot, sid, channel, rstate, rtokens, batch, layer, committed,
                  start, leaked, lateDecodes, sink_dead, since_probe, latePieces, pos, tokens,
                  owner, buf>>
  BY <1>1 DEF cacheVars, modelState, requestVars, progress, batchVars, sinkVars, history
<1>3. TypeOK'
  <2>1. CacheTypeOK'
    BY <1>1 DEF IndInv, TypeOK, CacheTypeOK, cacheVars
  <2> QED BY <1>1, <1>2, <2>1 DEF IndInv, TypeOK
<1>4. OwnersInv'
  BY <1>1, <1>2 DEF IndInv, OwnersInv, Held
<1>5. ColdInv' /\ FeedInv' /\ PosInv'
  BY <1>1, <1>2 DEF IndInv, ColdInv, FeedInv, PosInv, Running
<1>6. VectorsInv' /\ StateInv'
  BY <1>1, <1>2, SeenStays DEF IndInv, Running
<1>7. LateInv'
  <2>1. /\ since_probe \in 0 .. ProbeEvery - 1 /\ latePieces \in Nat /\ lateDecodes \in Nat
        /\ sink_dead \in BOOLEAN /\ broken \in BOOLEAN /\ overtime \in BOOLEAN
    BY DEF IndInv, TypeOK
  <2>2. /\ latePieces <= IF ~broken THEN 0 ELSE IF sink_dead THEN ProbeEvery ELSE since_probe
        /\ sink_dead => broken /\ phase \notin {"draw", "emit"}
        /\ lateDecodes <= IF Aborts /\ phase \notin {"draw", "emit", "emitted"} THEN 1 ELSE 0
    BY <1>1 DEF IndInv, LateInv
  <2>3. Aborts => Aborts'
    BY <1>1, <1>2 DEF Aborts
  <2>4. latePieces' <= IF ~broken' THEN 0 ELSE IF sink_dead' THEN ProbeEvery ELSE since_probe'
    BY <1>1, <1>2, <2>1, <2>2
  <2>5. lateDecodes' <= IF Aborts' /\ phase' \notin {"draw", "emit", "emitted"} THEN 1 ELSE 0
    BY <1>1, <1>2, <2>1, <2>2, <2>3
  <2>6. sink_dead' => broken' /\ phase' \notin {"draw", "emit"}
    BY <1>1, <1>2, <2>2
  <2> QED BY <2>4, <2>5, <2>6 DEF LateInv
<1> QED BY <1>3, <1>4, <1>5, <1>6, <1>7 DEF IndInv

\* Nothing changes.
LEMMA StutterStep ==
  ASSUME IndInv, UNCHANGED vars
  PROVE  IndInv'
<1>1. UNCHANGED <<cacheVars, modelState, requestVars, progress, batchVars, sinkVars, history,
                  recurrent, phase, broken, overtime>>
  BY DEF vars, surroundings
<1>2. TypeOK' /\ OwnersInv'
  BY <1>1 DEF IndInv, TypeOK, CacheTypeOK, OwnersInv, Held, cacheVars, modelState,
              requestVars, progress, batchVars, sinkVars, history
<1>3. ColdInv' /\ PosInv' /\ LateInv'
  BY <1>1 DEF IndInv, ColdInv, PosInv, LateInv, Aborts, Running, cacheVars, requestVars, progress,
              batchVars, sinkVars, history
<1>4. Dialogue' = Dialogue /\ \A l \in Layers : Through(l)' = Through(l)
  BY <1>1 DEF Dialogue, Through, requestVars, progress, batchVars
<1>5. FeedInv'
  BY <1>1, <1>4 DEF IndInv, FeedInv, requestVars, progress, batchVars
<1>6. recurrent \subseteq Layers
  BY GenerationAssumption DEF IndInv, TypeOK
<1>7. UNCHANGED <<buf, rstate, rtokens, recurrent, slot, fed, phase>>
  BY <1>1 DEF cacheVars, modelState, requestVars, progress
<1>8. VectorsInv'
  BY <1>4, <1>7 DEF IndInv, VectorsInv, Running, Vectors, BufferIndex
<1>9. StateInv'
  BY <1>4, <1>6, <1>7 DEF IndInv, StateInv, Running, Hybrid
<1> QED BY <1>2, <1>3, <1>5, <1>8, <1>9 DEF IndInv

\* Every step of a generation keeps the invariant.
LEMMA NextInvariant == IndInv /\ [Next]_vars => IndInv'
<1> SUFFICES ASSUME IndInv, [Next]_vars PROVE IndInv'
  OBVIOUS
<1>1. CASE \E p \in Prompts, c \in Channels : Accept(p, c)
  BY <1>1, AcceptStep
<1>2. CASE Step
  <2>1. CASE ForwardFails \/ LoopEnds \/ DrawStop \/ LastToken
    <3>1. phase \notin {"idle", "released"} /\ Return
      BY <2>1 DEF ForwardFails, LoopEnds, DrawStop, LastToken
    <3> QED BY <3>1, ReturnStep
  <2>2. CASE RunBlock
    BY <2>2, RecurrentBlock, AttentionBlock
  <2>3. CASE \E t \in TokenIds : Draw(t)
    BY <2>3, DrawStep
  <2>4. CASE \E piece \in Pieces : OnDelta(piece)
    BY <2>4, OnDeltaStep
  <2> QED BY <1>2, <2>1, <2>2, <2>3, <2>4, ReuseStep, DropStep, AcquireAgainStep, PrefillStep,
             ChunkStep, CommitStep, AdvanceStep, LoopStep, ThrowStep, PassOnStep, DecodeStep
             DEF Step
<1>3. CASE ConnectionBreaks \/ TimeRunsOut
  BY <1>3, SurroundingsStep
<1>4. CASE Stopped \/ UNCHANGED vars
  BY <1>4, StutterStep DEF Stopped
<1> QED BY <1>1, <1>2, <1>3, <1>4 DEF Next

-----------------------------------------------------------------------------
(* The cache, the recurrent state and the progress of a generation agree in  *)
(* every reachable state.                                                   *)
THEOREM InvariantHolds == Spec => []IndInv
<1> QED BY InitInvariant, NextInvariant, PTL DEF Spec

(* Every variable keeps its type.                                           *)
THEOREM TypeCorrect == Spec => []TypeOK
<1>1. IndInv => TypeOK
  BY DEF IndInv
<1> QED BY <1>1, InvariantHolds, PTL

(* Whatever the batch size, the prompt and the slot's past, attention looks   *)
(* only at vectors computed from this dialogue (qwen_model.cpp 97-190).       *)
THEOREM AttentionSeesDialogueHolds == Spec => []AttentionSeesDialogue
<1>1. ASSUME IndInv PROVE AttentionSeesDialogue
  <2> SUFFICES ASSUME phase = "forward", NEW l \in Layers \ recurrent, NEW p \in 0 .. NumCtx - 1,
                      p < start + (IF l < layer THEN Len(batch) ELSE 0)
               PROVE  Vectors(slot, l, p) = Prefix(Dialogue, p + 1)
    BY DEF AttentionSeesDialogue
  <2>1. /\ fed \in Nat /\ start \in Nat /\ Len(batch) \in Nat
        /\ start = fed \/ (start = NumCtx /\ NumCtx <= fed)
    BY <1>1, BatchIs
  <2>2. p < Through(l)
    BY <2>1, KVCacheAssumption DEF Through
  <2> QED BY <1>1, <2>2 DEF IndInv, VectorsInv, Running, Positions
<1> QED BY <1>1, InvariantHolds, PTL

(* A hybrid model's recurrent state has absorbed exactly the dialogue up to   *)
(* here, and counts as many tokens as the cache does (qwen_model.cpp 84-93).  *)
THEOREM RecurrentAgreesHolds == Spec => []RecurrentAgrees
<1>1. ASSUME IndInv PROVE RecurrentAgrees
  <2> SUFFICES ASSUME phase = "forward", Hybrid
               PROVE  /\ \A l \in recurrent :
                           rstate[slot][l] =
                             Prefix(Dialogue, fed + (IF l < layer THEN Len(batch) ELSE 0))
                      /\ rtokens[slot] = fed
                      /\ fed + Len(batch) <= NumCtx => pos[slot] = fed + committed
    BY DEF RecurrentAgrees
  <2>1. Running
    BY DEF Running
  <2>2. /\ rtokens[slot] = fed
        /\ \A l \in recurrent :
             rstate[slot][l] = Prefix(Dialogue, fed + (IF l < layer THEN Len(batch) ELSE 0))
    BY <1>1, <2>1 DEF IndInv, StateInv, Through
  <2>3. fed + Len(batch) <= NumCtx => pos[slot] = fed + committed
    <3>1. fed \in Nat /\ committed \in 0 .. Len(batch) /\ Len(batch) \in Nat /\ NumCtx \in Nat
      BY <1>1, BatchIs, KVCacheAssumption DEF IndInv, TypeOK
    <3>2. pos[slot] = IF fed + committed < NumCtx THEN fed + committed ELSE NumCtx
      BY <1>1, <2>1 DEF IndInv, PosInv
    <3> QED BY <3>1, <3>2
  <2> QED BY <2>2, <2>3
<1> QED BY <1>1, InvariantHolds, PTL

(* Every generation starts in an empty slot.                                *)
THEOREM StartsColdHolds == Spec => []StartsCold
<1>1. IndInv => StartsCold
  BY DEF IndInv, ColdInv, StartsCold
<1> QED BY <1>1, InvariantHolds, PTL

(* Between generations no slot is owned but those an exception left behind  *)
(* (http_server.cpp 116-199).                                               *)
THEOREM SlotsComeBackHolds == Spec => []SlotsComeBack
<1>1. IndInv => SlotsComeBack
  BY DEF IndInv, OwnersInv, Held, SlotsComeBack
<1> QED BY <1>1, InvariantHolds, PTL

(* At any max_tokens and any probe interval, an agent turn whose connection   *)
(* broke hands on at most that many pieces before a write fails, and decodes  *)
(* at most one token after it or after its time ran out (http_server.cpp      *)
(* 993-1023).                                                               *)
THEOREM StopsWhenClientLeavesHolds == Spec => []StopsWhenClientLeaves
<1>1. ASSUME IndInv, channel = "agent"
      PROVE  latePieces <= ProbeEvery /\ lateDecodes <= 1
  <2>1. /\ since_probe \in 0 .. ProbeEvery - 1 /\ latePieces \in Nat /\ lateDecodes \in Nat
        /\ ProbeEvery \in Nat \ {0}
    BY <1>1, GenerationAssumption DEF IndInv, TypeOK
  <2>2. latePieces <= IF ~broken THEN 0 ELSE IF sink_dead THEN ProbeEvery ELSE since_probe
    BY <1>1 DEF IndInv, LateInv
  <2>3. lateDecodes <= 1
    BY <1>1, <2>1 DEF IndInv, LateInv
  <2> QED BY <2>1, <2>2, <2>3
<1>2. IndInv => StopsWhenClientLeaves
  BY <1>1 DEF StopsWhenClientLeaves
<1> QED BY <1>2, InvariantHolds, PTL
=============================================================================
