---------------------------- MODULE ForwardProofs ----------------------------
(***************************************************************************)
(* A forward pass, for every model.  Its products compute every row of      *)
(* every column once, for every pool size, row count and batch width: the   *)
(* rows the work functions touch inside the matrix are those of the chunks  *)
(* of parallel_for, also where a chunk that begins past the last row makes  *)
(* the matvec path run out of the matrix.  It stays inside the buffers made *)
(* for it, for all metadata that is accepted, and inside the file, for      *)
(* every file that loads.                                                   *)
(***************************************************************************)
EXTENDS RowDispatch, Inputs, OperatorProofs, FiniteSetTheorems

-----------------------------------------------------------------------------
(* The rows of a chunk.                                                     *)

\* Inside the matrix a work function touches the rows of its chunk.
LEMMA InsideAreTheChunks ==
  ASSUME TypeOK, ~Serial(rows, nw), NEW c \in Nat, NEW m \in 0 .. rows - 1
  PROVE  m \in RowsOfChunk(c) <=> m \in ChunkRange(rows, nw, c)
<1> DEFINE b == ChunkBegin(rows, nw, c)
           e == ChunkEnd(rows, nw, c)
<1>1. rows \in Nat /\ nw \in Nat /\ rows > 0 /\ rows <= MaxRows
  BY RowDispatchAssumption DEF TypeOK
<1>2. b \in Nat /\ e \in Nat /\ e <= rows
  <2>1. ChunkSize(rows, nw) \in Nat
    BY <1>1, ChunkSizeCovers
  <2>2. b \in Nat
    BY <2>1 DEF ChunkBegin
  <2> QED BY <1>1, <2>1, <2>2 DEF ChunkEnd, Least
<1>3. b >= rows => e = rows
  BY <1>1, ChunkSizeCovers, <1>2 DEF ChunkEnd, Least
<1>4. RowsOfChunk(c) = IF Batched THEN b .. e - 1 ELSE BlockRows(b, e)
  BY DEF RowsOfChunk
<1>5. ChunkRange(rows, nw, c) = b .. e - 1
  BY DEF ChunkRange
<1> HIDE DEF b, e
<1>6. CASE Batched
  BY <1>4, <1>5, <1>6
<1>7. CASE ~Batched
  <2>1. SizeModulus \in Nat /\ SizeModulus > rows
    <3>1. (MaxWorkers + 1) * (MaxRows + 1) >= MaxRows + 1
      <4>1. 1 * (MaxRows + 1) <= (MaxWorkers + 1) * (MaxRows + 1)
        BY RowDispatchAssumption, MulMono
      <4> QED BY <4>1, RowDispatchAssumption
    <3>2. (MaxWorkers + 1) * (MaxRows + 1) \in Nat
      BY RowDispatchAssumption
    <3> QED BY <1>1, <3>1, <3>2, RowDispatchAssumption
  <2>2. CASE b <= e
    <3>1. e - b \in 0 .. SizeModulus - 1
      BY <1>1, <1>2, <2>1, <2>2
    <3>2. (e - b) % SizeModulus = e - b
      BY <2>1, <3>1
    <3>3. BlockRows(b, e) = b .. e - 1
      BY <1>2, <3>2 DEF BlockRows
    <3> QED BY <1>4, <1>5, <1>7, <3>3
  <2>3. CASE b > e
    <3>1. b >= rows
      <4> SUFFICES ASSUME b < rows PROVE FALSE
        BY <1>1, <1>2
      <4>1. b < e
        BY <1>1, <1>2, ChunkSizeCovers DEF ChunkEnd, Least, b, e
      <4> QED BY <1>2, <2>3, <4>1
    <3>2. (e - b) % SizeModulus \in Int
      <4>1. e - b \in Int /\ SizeModulus > 0
        BY <1>1, <1>2, <2>1
      <4> QED BY <2>1, <4>1
    <3>3. m \notin BlockRows(b, e)
      BY <1>1, <1>2, <3>1, <3>2 DEF BlockRows
    <3>4. m \notin b .. e - 1
      BY <1>1, <1>2, <3>1, <2>3
    <3> QED BY <1>4, <1>5, <1>7, <3>3, <3>4
  <2> QED BY <1>2, <2>2, <2>3
<1> QED BY <1>6, <1>7

\* A pass has a chunk to run, reaches every row, and reaches none twice.
LEMMA PassPartition ==
  ASSUME TypeOK
  PROVE  /\ PassChunks \in Nat \ {0}
         /\ \A m \in 0 .. rows - 1 :
              /\ \E c \in 0 .. PassChunks - 1 : m \in RowsOfChunk(c)
              /\ \A a, b \in 0 .. PassChunks - 1 :
                   m \in RowsOfChunk(a) /\ m \in RowsOfChunk(b) => a = b
<1>1. rows \in Nat /\ nw \in Nat /\ nw > 0
  BY RowDispatchAssumption DEF TypeOK
<1>2. CASE Serial(rows, nw)
  BY <1>1, <1>2 DEF PassChunks, RowsOfChunk
<1>3. CASE ~Serial(rows, nw)
  <2>1. rows > 0
    BY <1>1, <1>3 DEF Serial, MinRowsPerWorker
  <2>2. PassChunks = ChunkCount(rows, nw) /\ PassChunks \in Nat \ {0}
    BY <1>1, <1>3, <2>1, ChunkSizeCovers DEF PassChunks
  <2> SUFFICES ASSUME NEW m \in 0 .. rows - 1
               PROVE  /\ \E c \in 0 .. PassChunks - 1 : m \in RowsOfChunk(c)
                      /\ \A a, b \in 0 .. PassChunks - 1 :
                           m \in RowsOfChunk(a) /\ m \in RowsOfChunk(b) => a = b
    BY <2>2
  <2>3. \A c \in 0 .. PassChunks - 1 : m \in RowsOfChunk(c) <=> m \in ChunkRange(rows, nw, c)
    BY <1>3, InsideAreTheChunks
  <2>4. \E c \in 0 .. PassChunks - 1 : m \in RowsOfChunk(c)
    <3>1. PICK c \in Chunks(rows, nw) : m \in ChunkRange(rows, nw, c)
      BY <1>1, ChunksCover
    <3> QED BY <2>2, <2>3, <3>1 DEF Chunks
  <2>5. ASSUME NEW a \in 0 .. PassChunks - 1, NEW b \in 0 .. PassChunks - 1,
               m \in RowsOfChunk(a), m \in RowsOfChunk(b)
        PROVE  a = b
    BY <1>1, <2>3, <2>5, ChunksDisjoint
  <2> QED BY <2>4, <2>5
<1> QED BY <1>2, <1>3

-----------------------------------------------------------------------------
(* The inductive invariant.                                                 *)

\* A product starts with no element computed.
LEMMA InitInvariant == Init => IndInv
<1> SUFFICES ASSUME Init PROVE IndInv
  OBVIOUS
<1>1. rows \in Nat /\ nTok \in Nat /\ nw \in Nat
  BY RowDispatchAssumption DEF Init
<1>2. PassChunks \in Nat \ {0}
  <2>1. CASE Serial(rows, nw)
    BY <2>1 DEF PassChunks
  <2>2. CASE ~Serial(rows, nw)
    <3>1. rows > 0
      BY <1>1, <2>2, RowDispatchAssumption DEF Init, Serial, MinRowsPerWorker
    <3> QED BY <1>1, <2>2, <3>1, ChunkSizeCovers DEF PassChunks
  <2> QED BY <2>1, <2>2
<1>3. TypeOK
  <2>1. tok \in 0 .. nTok /\ next \in 0 .. PassChunks
    BY <1>1, <1>2 DEF Init
  <2>2. computed \in [0 .. nTok - 1 -> [0 .. rows - 1 -> Nat]]
    BY DEF Init
  <2> QED BY <2>1, <2>2 DEF Init, TypeOK
<1>4. PassInv
  BY <1>1, <1>2 DEF Init, PassInv
<1>5. \A t \in 0 .. nTok - 1, m \in 0 .. rows - 1 : ~Filled(t, m) /\ computed[t][m] = 0
  BY <1>1 DEF Init, Filled
<1> QED BY <1>3, <1>4, <1>5 DEF IndInv

\* One chunk of a pass.  The last of a matvec pass leaves its column full.
LEMMA RunChunkStep ==
  ASSUME IndInv, RunChunk
  PROVE  IndInv'
<1> USE DEF IndInv
<1> DEFINE R == RowsOfChunk(next)
           last == next + 1 = PassChunks /\ ~Batched
<1>1. /\ UNCHANGED <<nw, rows, nTok>>
      /\ next' = IF last THEN 0 ELSE next + 1
      /\ tok' = IF last THEN tok + 1 ELSE tok
      /\ computed' = [t \in DOMAIN computed |-> [m \in DOMAIN computed[t] |->
                        computed[t][m] + (IF t \in Columns /\ m \in R THEN 1 ELSE 0)]]
      /\ outside' \in BOOLEAN
  BY DEF RunChunk
<1>2. /\ nTok \in Nat /\ rows \in Nat /\ tok \in 0 .. nTok /\ next \in 0 .. PassChunks
      /\ PassChunks \in Nat \ {0}
  BY RowDispatchAssumption, PassPartition DEF TypeOK
<1>3. next < PassChunks /\ (~Batched => tok < nTok)
  BY <1>2 DEF RunChunk, Finished, PassInv
<1>4. /\ PassChunks' = PassChunks /\ (Batched' <=> Batched)
      /\ \A c : RowsOfChunk(c)' = RowsOfChunk(c)
  BY <1>1 DEF PassChunks, Batched, RowsOfChunk
<1> HIDE DEF R
<1>5. TypeOK'
  <2>1. computed' \in [0 .. nTok - 1 -> [0 .. rows - 1 -> Nat]]
    BY <1>1 DEF TypeOK
  <2>2. tok' \in 0 .. nTok /\ next' \in 0 .. PassChunks
    BY <1>1, <1>2, <1>3
  <2> QED BY <1>1, <1>4, <2>1, <2>2 DEF TypeOK
<1>6. PassInv'
  BY <1>1, <1>2, <1>3, <1>4 DEF PassInv
<1>7. ASSUME NEW t \in 0 .. nTok - 1, NEW m \in 0 .. rows - 1
      PROVE  computed'[t][m] = IF Filled(t, m)' THEN 1 ELSE 0
  <2>1. /\ computed'[t][m] = computed[t][m] + (IF t \in Columns /\ m \in R THEN 1 ELSE 0)
        /\ computed[t][m] = IF Filled(t, m) THEN 1 ELSE 0
    BY <1>1 DEF TypeOK
  \* The column is being filled and the row is in this chunk: not before.
  <2>2. t \in Columns /\ m \in R => ~Filled(t, m)
    <3> SUFFICES ASSUME t \in Columns, m \in R, NEW c \in 0 .. next - 1, m \in RowsOfChunk(c)
                 PROVE  FALSE
      BY <1>2 DEF Filled, Columns, PassInv
    <3>1. c \in 0 .. PassChunks - 1 /\ next \in 0 .. PassChunks - 1 /\ c # next
      BY <1>2, <1>3
    <3> QED BY <3>1, PassPartition DEF R
  <2>3. Filled(t, m)' <=> Filled(t, m) \/ (t \in Columns /\ m \in R)
    <3>1. CASE ~last
      <4>1. next' = next + 1 /\ tok' = tok /\ Columns' = Columns
        BY <1>1, <1>4, <3>1 DEF Columns
      <4>2. (\E c \in 0 .. next' - 1 : m \in RowsOfChunk(c))
              <=> (\E c \in 0 .. next - 1 : m \in RowsOfChunk(c)) \/ m \in R
        BY <1>2, <4>1 DEF R
      <4>3. Filled(t, m)' <=> \/ t < tok
                              \/ t \in Columns /\ \E c \in 0 .. next' - 1 : m \in RowsOfChunk(c)
        BY <1>4, <4>1 DEF Filled
      <4> QED BY <4>2, <4>3 DEF Filled
    <3>2. CASE last
      <4>1. next' = 0 /\ tok' = tok + 1 /\ Columns = {tok}
        BY <1>1, <3>2 DEF Columns
      <4>2. Filled(t, m)' <=> t < tok + 1
        BY <4>1 DEF Filled
      <4>3. \E c \in 0 .. PassChunks - 1 : m \in RowsOfChunk(c)
        BY PassPartition
      <4>4. (\E c \in 0 .. next - 1 : m \in RowsOfChunk(c)) \/ m \in R
        BY <1>2, <3>2, <4>3 DEF R
      <4>5. t < tok + 1 <=> t < tok \/ t = tok
        BY <1>2
      <4> QED BY <4>1, <4>2, <4>4, <4>5 DEF Filled
    <3> QED BY <3>1, <3>2
  <2> QED BY <2>1, <2>2, <2>3
<1> QED BY <1>1, <1>5, <1>6, <1>7

\* The rows and columns do not change: the invariant of an idle step.
LEMMA StepInvariant == IndInv /\ [Next]_vars => IndInv'
<1> SUFFICES ASSUME IndInv, [Next]_vars PROVE IndInv'
  OBVIOUS
<1>1. CASE RunChunk
  BY <1>1, RunChunkStep
<1>2. CASE UNCHANGED vars
  BY <1>2 DEF vars, IndInv, TypeOK, PassInv, Filled, PassChunks, Batched, Columns, RowsOfChunk
<1> QED BY <1>1, <1>2 DEF Next, Return

\* When the dispatch returns, the last pass is over.
LEMMA FinishedIsFull == IndInv => EachRowOnce
<1> SUFFICES ASSUME IndInv, Finished,
                    NEW t \in DOMAIN computed, NEW m \in DOMAIN computed[t]
             PROVE  computed[t][m] = 1
  BY DEF EachRowOnce
<1> USE DEF IndInv
<1>1. t \in 0 .. nTok - 1 /\ m \in 0 .. rows - 1 /\ nTok \in Nat /\ rows \in Nat
  BY RowDispatchAssumption DEF TypeOK
<1>2. IF Batched THEN next = PassChunks ELSE tok = nTok
  BY <1>1 DEF Finished
<1>3. Filled(t, m)
  <2>1. CASE Batched
    <3>1. \E c \in 0 .. next - 1 : m \in RowsOfChunk(c)
      BY <1>1, <1>2, <2>1, PassPartition
    <3> QED BY <1>1, <2>1, <3>1 DEF Filled, Columns
  <2>2. CASE ~Batched
    BY <1>1, <1>2, <2>2 DEF Filled
  <2> QED BY <2>1, <2>2
<1> QED BY <1>1, <1>3

-----------------------------------------------------------------------------
(* The theorems.                                                            *)

\* What has run is written once and nothing else is, all through a product.
THEOREM InvariantHolds == Spec => []IndInv
<1>1. Init => IndInv
  BY InitInvariant
<1>2. IndInv /\ [Next]_vars => IndInv'
  BY StepInvariant
<1> QED BY <1>1, <1>2, PTL DEF Spec

\* The dispatch returns with every output element computed exactly once, by
\* the batched path, by the matvec path and by the serial one.
THEOREM EachRowOnceHolds == Spec => []EachRowOnce
<1>1. IndInv => EachRowOnce
  BY FinishedIsFull
<1> QED BY <1>1, InvariantHolds, PTL

-----------------------------------------------------------------------------
(* Rows one after the other, and division with remainder.                   *)

\* A row begins where the one before it ends, or later.
LEMMA NextRow ==
  ASSUME NEW a \in Nat, NEW b \in Nat, NEW w \in Nat, a < b
  PROVE  a * w + w <= b * w
<1>1. (a + 1) * w <= b * w
  BY MulMono
<1>2. (a + 1) * w = a * w + w
  OBVIOUS
<1> QED BY <1>1, <1>2

\* Quotient and remainder.
LEMMA Divided ==
  ASSUME NEW x \in Nat, NEW k \in Nat \ {0}
  PROVE  \E q \in Nat, r \in 0 .. k - 1 : x = q * k + r /\ x \div k = q /\ x % k = r
<1>1. x \div k \in Int /\ x % k \in 0 .. k - 1 /\ x = k * (x \div k) + (x % k)
  OBVIOUS
<1>2. k * (x \div k) = (x \div k) * k
  BY <1>1
<1>3. x \div k >= 0
  <2> SUFFICES ASSUME x \div k <= -1 PROVE FALSE
    BY <1>1
  <2> DEFINE t == 0 - (x \div k) - 1
  <2>1. t \in Nat /\ x \div k = 0 - t - 1
    BY <1>1
  <2> HIDE DEF t
  <2>2. k * t \in Nat /\ k * (0 - t - 1) = 0 - k * t - k
    BY <2>1
  <2> QED BY <1>1, <2>1, <2>2
<1>4. PICK q, r : q = x \div k /\ r = x % k
  OBVIOUS
<1>5. q \in Nat /\ r \in 0 .. k - 1 /\ x = q * k + r
  BY <1>1, <1>2, <1>3, <1>4
<1> QED BY <1>4, <1>5

\* There is no other quotient, and no other remainder.
LEMMA DividedOnce ==
  ASSUME NEW k \in Nat \ {0}, NEW a \in Nat, NEW b \in 0 .. k - 1, NEW x, x = a * k + b
  PROVE  x \in Nat /\ x \div k = a /\ x % k = b
<1>1. x \in Nat
  OBVIOUS
<1>2. PICK q \in Nat, r \in 0 .. k - 1 : x = q * k + r /\ x \div k = q /\ x % k = r
  BY <1>1, Divided
<1>3. q * k + r = a * k + b
  BY <1>2
<1>4. a = q /\ b = r
  BY <1>3, RowsDoNotOverlap
<1> QED BY <1>1, <1>2, <1>4

-----------------------------------------------------------------------------
(* What the sizes of an accepted model are like.                            *)

DimsAre(d) ==
    /\ d.n_layers \in Nat /\ d.n_heads \in Nat /\ d.n_kv_heads \in Nat
    /\ d.head_dim \in Nat /\ d.hidden \in Nat /\ d.ffn_hidden \in Nat /\ d.n_ctx_train \in Nat
    /\ d.q_dim \in Nat /\ d.q_dim = d.n_heads * d.head_dim
    /\ d.kv_dim \in Nat /\ d.kv_dim = d.n_kv_heads * d.head_dim

\* A model that is not hybrid has a delta net of nothing.
DeltaIs(dn) ==
    /\ dn.d_conv \in Nat /\ dn.d_state \in Nat /\ dn.n_k \in Nat /\ dn.n_v \in Nat
    /\ dn.key_dim \in Nat /\ dn.value_dim \in Nat /\ dn.conv_dim \in Nat
    /\ dn.head_v_dim = dn.d_state
    /\ dn.key_dim = dn.d_state * dn.n_k /\ dn.value_dim = dn.d_state * dn.n_v
    /\ dn.conv_dim = 2 * dn.key_dim + dn.value_dim
    /\ IF dn.n_k = 0 THEN dn.n_v = 0 /\ dn.conv_dim = 0
       ELSE dn.d_conv > 0 /\ dn.n_v > 0 /\ dn.n_v % dn.n_k = 0

ParamsAre(d, p) ==
    /\ p.ffn \in {"dense", "fused", "moe"} /\ p.qkv \in {"separate", "separate_gate", "fused"}
    /\ p.attn_gate \in BOOLEAN
    /\ p.recurrent \subseteq 0 .. d.n_layers - 1
    /\ p.recurrent # {} => p.delta.n_k > 0
    /\ p.n_expert \in Nat /\ p.n_expert_used \in Nat
    /\ p.expert_ffn \in Nat /\ p.expert_shared_ffn \in Nat
    /\ p.rope_dim <= d.head_dim /\ p.rope_dim_swa <= d.head_dim
    /\ p.sliding_window \in Nat

\* The architectures, one by one.
LEMMA ArchIs ==
  ASSUME NEW a, a \in DOMAIN Arch!Archs
  PROVE  /\ Arch!Archs[a].ffn \in {"dense", "fused", "moe"}
         /\ Arch!Archs[a].qkv \in {"separate", "separate_gate", "fused"}
         /\ Arch!Archs[a].attn_gate \in BOOLEAN /\ Arch!Archs[a].hybrid \in BOOLEAN
<1>1. a \in {"qwen2", "qwen3", "qwen3moe", "granite", "phi3", "spark2_5", "qwen35", "qwen35moe"}
  BY DEF Arch!Archs
<1> QED BY <1>1 DEF Arch!Archs, Arch!ArchSpec

\* The dimensions of an accepted model.
LEMMA DimsOf ==
  ASSUME NEW md, Arch!IsMetadata(md), Arch!Accepted(md)
  PROVE  DimsAre(Arch!Dims(md)) /\ Arch!HeadDim(md) \in Nat \ {0} /\ Arch!Layers(md) \in Nat
<1>1. \A key \in Arch!NumberKeys : key \in DOMAIN md => md[key] \in Nat
  BY DEF Arch!IsMetadata, Arch!Has
<1>2. /\ md["context_length"] \in Nat /\ md["embedding_length"] \in Nat /\ md["block_count"] \in Nat
      /\ md["head_count"] \in Nat
  BY <1>1 DEF Arch!Accepted, Arch!Has, Arch!NumberKeys
<1>3. Arch!Layers(md) \in Nat
  <2>1. CASE "nextn_predict_layers" \in DOMAIN md
    <3>1. md["nextn_predict_layers"] \in Nat
      BY <1>1, <2>1 DEF Arch!NumberKeys
    <3> QED BY <1>2, <2>1, <3>1 DEF Arch!Layers, Arch!OrElse, Arch!Has, Arch!Accepted, Arch!AtLeast
  <2>2. CASE "nextn_predict_layers" \notin DOMAIN md
    BY <1>2, <2>2 DEF Arch!Layers, Arch!OrElse, Arch!Has
  <2> QED BY <2>1, <2>2
<1>4. Arch!KvHeads(md) \in Nat
  BY <1>1, <1>2 DEF Arch!KvHeads, Arch!OrElse, Arch!Has, Arch!NumberKeys
<1>5. Arch!HeadDim(md) \in Nat \ {0}
  <2>1. Arch!HeadDim(md) # 0
    BY DEF Arch!Accepted
  <2>2. CASE "key_length" \in DOMAIN md
    BY <1>1, <2>1, <2>2 DEF Arch!HeadDim, Arch!OrElse, Arch!Has, Arch!NumberKeys
  <2>3. CASE "key_length" \notin DOMAIN md
    <3>1. md["head_count"] > 0
      BY <2>3 DEF Arch!Accepted, Arch!Has
    <3>2. md["embedding_length"] \div md["head_count"] \in Nat
      BY <1>2, <3>1
    <3> QED BY <2>1, <2>3, <3>2 DEF Arch!HeadDim, Arch!OrElse, Arch!Has
  <2> QED BY <2>2, <2>3
<1>6. Arch!OrElse(md, "feed_forward_length", 0) \in Nat
  BY <1>1 DEF Arch!OrElse, Arch!Has, Arch!NumberKeys
<1>7. md["head_count"] * Arch!HeadDim(md) \in Nat /\ Arch!KvHeads(md) * Arch!HeadDim(md) \in Nat
  BY <1>2, <1>4, <1>5
<1> QED BY <1>2, <1>3, <1>4, <1>5, <1>6, <1>7 DEF Arch!Dims, DimsAre

\* The delta net of an accepted model.
LEMMA DeltaOf ==
  ASSUME NEW md, Arch!IsMetadata(md), Arch!Accepted(md)
  PROVE  DeltaIs(Arch!Delta(md)) /\ (Arch!Archs[md.arch].hybrid => Arch!Delta(md).n_k > 0)
<1>1. CASE ~Arch!Archs[md.arch].hybrid
  BY <1>1 DEF Arch!Delta, DeltaIs
<1>2. CASE Arch!Archs[md.arch].hybrid
  <2>1. Arch!DeltaSized(md) /\ md["inner_size"] \div md["time_step_rank"] = md["state_size"]
    BY <1>2 DEF Arch!Accepted, Arch!DeltaChecks
  <2>2. \A key \in {"conv_kernel", "inner_size", "state_size", "group_count", "time_step_rank"} :
           md[key] \in Nat /\ md[key] > 0
    BY <2>1 DEF Arch!DeltaSized, Arch!AtLeast, Arch!Has, Arch!IsMetadata, Arch!NumberKeys
  <2> DEFINE key == md["state_size"] * md["group_count"]
             value == md["state_size"] * md["time_step_rank"]
  <2>3. /\ md["conv_kernel"] \in Nat \ {0} /\ md["state_size"] \in Nat \ {0}
        /\ md["group_count"] \in Nat \ {0} /\ md["time_step_rank"] \in Nat \ {0}
        /\ md["time_step_rank"] % md["group_count"] = 0
    BY <2>1, <2>2 DEF Arch!DeltaSized
  <2>4. key \in Nat /\ value \in Nat
    BY <2>3
  <2>5. Arch!Delta(md) = [d_conv |-> md["conv_kernel"], d_state |-> md["state_size"],
                       n_k |-> md["group_count"], n_v |-> md["time_step_rank"],
                       head_v_dim |-> md["state_size"], key_dim |-> key, value_dim |-> value,
                       conv_dim |-> 2 * key + value]
    BY <1>2, <2>1 DEF Arch!Delta
  <2> HIDE DEF key, value
  <2>6. 2 * key + value \in Nat
    BY <2>4
  <2> QED BY <2>3, <2>4, <2>5, <2>6 DEF DeltaIs, key, value
<1> QED BY <1>1, <1>2

\* The parameters of an accepted model.
LEMMA ParamsOf ==
  ASSUME NEW md, Arch!IsMetadata(md), Arch!Accepted(md)
  PROVE  ParamsAre(Arch!Dims(md), Arch!Params(md))
<1>1. \A key \in Arch!NumberKeys : key \in DOMAIN md => md[key] \in Nat
  BY DEF Arch!IsMetadata, Arch!Has
<1>2. md.arch \in DOMAIN Arch!Archs
  BY DEF Arch!Accepted
<1>3. /\ Arch!OrElse(md, "expert_count", 0) \in Nat
      /\ Arch!OrElse(md, "expert_used_count", 0) \in Nat
      /\ Arch!OrElse(md, "expert_feed_forward_length", 0) \in Nat
      /\ Arch!OrElse(md, "expert_shared_feed_forward_length", 0) \in Nat
  BY <1>1 DEF Arch!OrElse, Arch!Has, Arch!NumberKeys
<1>4. Arch!HeadDim(md) \in Nat \ {0} /\ Arch!Layers(md) \in Nat
  BY DimsOf
<1>5. /\ Arch!RopeDim(md, "rope_dim", Arch!HeadDim(md)) <= Arch!HeadDim(md)
      /\ Arch!RopeDim(md, "rope_dim_swa", Arch!RopeDim(md, "rope_dim",
              Arch!HeadDim(md))) <= Arch!HeadDim(md)
  BY <1>4 DEF Arch!RopeDim
<1>6. (IF Arch!Windowed(md) THEN md["sliding_window"] ELSE 0) \in Nat
  BY <1>1 DEF Arch!Windowed, Arch!AtLeast, Arch!Has, Arch!NumberKeys
<1>7. /\ Arch!RecurrentLayers(md) \subseteq 0 .. Arch!Layers(md) - 1
      /\ Arch!RecurrentLayers(md) # {} => Arch!Archs[md.arch].hybrid
  BY DEF Arch!RecurrentLayers
<1>8. Arch!RecurrentLayers(md) # {} => Arch!Delta(md).n_k > 0
  BY <1>7, DeltaOf
<1>9. Arch!Dims(md).n_layers = Arch!Layers(md) /\ Arch!Dims(md).head_dim = Arch!HeadDim(md)
  BY DEF Arch!Dims
<1> DEFINE p == Arch!Params(md)
<1>10. /\ p.ffn = Arch!Archs[md.arch].ffn /\ p.qkv = Arch!Archs[md.arch].qkv
       /\ p.attn_gate = Arch!Archs[md.arch].attn_gate
       /\ p.delta = Arch!Delta(md) /\ p.recurrent = Arch!RecurrentLayers(md)
       /\ p.n_expert = Arch!OrElse(md, "expert_count", 0)
       /\ p.n_expert_used = Arch!OrElse(md, "expert_used_count", 0)
       /\ p.expert_ffn = Arch!OrElse(md, "expert_feed_forward_length", 0)
       /\ p.expert_shared_ffn = Arch!OrElse(md, "expert_shared_feed_forward_length", 0)
       /\ p.rope_dim = Arch!RopeDim(md, "rope_dim", Arch!HeadDim(md))
       /\ p.rope_dim_swa
            = Arch!RopeDim(md, "rope_dim_swa", Arch!RopeDim(md, "rope_dim", Arch!HeadDim(md)))
       /\ p.sliding_window = IF Arch!Windowed(md) THEN md["sliding_window"] ELSE 0
  BY DEF Arch!Params
<1> HIDE DEF p
<1>11. p = Arch!Params(md)
  BY DEF p
<1>12. ParamsAre(Arch!Dims(md), p)
  BY <1>2, <1>3, <1>5, <1>6, <1>7, <1>8, <1>9, <1>10, ArchIs DEF ParamsAre
<1> QED BY <1>11, <1>12

-----------------------------------------------------------------------------
(* The scratch, buffer by buffer.                                           *)

\* The greatest of a bounded set of numbers.
LEMMA MaxIs ==
  ASSUME NEW U \in SUBSET Nat, U # {}, NEW b \in Nat, \A x \in U : x <= b
  PROVE  Arch!Max(U) \in U /\ \A x \in U : x <= Arch!Max(U)
<1> DEFINE V == {b - x : x \in U}
<1>1. V \in SUBSET Nat /\ V # {}
  <2>1. \A x \in U : x \in Nat /\ b - x \in Nat
    OBVIOUS
  <2>2. \A v \in V : v \in Nat
    BY <2>1
  <2>3. PICK x \in U : TRUE
    OBVIOUS
  <2>4. b - x \in V
    OBVIOUS
  <2> QED BY <2>2, <2>4
<1>2. PICK v \in V : \A y \in V : v <= y
  <2> HIDE DEF V
  <2> QED BY <1>1, LeastElement
<1>3. PICK m \in U : v = b - m
  BY <1>2
<1>4. \A x \in U : x <= m
  <2> SUFFICES ASSUME NEW x \in U PROVE x <= m
    OBVIOUS
  <2>1. b - x \in V
    OBVIOUS
  <2>2. b - m <= b - x
    BY <1>2, <1>3, <2>1
  <2> QED BY <2>2
<1> QED BY <1>4 DEF Arch!Max

\* The greater of two numbers.
LEMMA MaxOfTwo ==
  ASSUME NEW x \in Nat, NEW y \in Nat
  PROVE  Arch!Max({x, y}) \in Nat /\ x <= Arch!Max({x, y}) /\ y <= Arch!Max({x, y})
         /\ (Arch!Max({x, y}) = x \/ Arch!Max({x, y}) = y)
<1>1. {x, y} \in SUBSET Nat /\ {x, y} # {} /\ x + y \in Nat /\ \A z \in {x, y} : z <= x + y
  OBVIOUS
<1>2. Arch!Max({x, y}) \in {x, y} /\ \A z \in {x, y} : z <= Arch!Max({x, y})
  BY <1>1, MaxIs
<1> QED BY <1>2

\* The widest input a product may take a rotated copy of.
Folded(d, p) == Arch!Max({d.hidden, d.q_dim, d.ffn_hidden, p.delta.value_dim}
                      \cup (IF p.ffn = "moe" THEN {p.expert_ffn, p.expert_shared_ffn} ELSE {}))

\* It is no narrower than any of them.
LEMMA FoldedIs ==
  ASSUME NEW d, NEW p, DimsAre(d), ParamsAre(d, p), DeltaIs(p.delta)
  PROVE  /\ Folded(d, p) \in Nat /\ d.hidden <= Folded(d, p) /\ d.q_dim <= Folded(d, p)
         /\ d.ffn_hidden <= Folded(d, p) /\ p.delta.value_dim <= Folded(d, p)
<1> DEFINE U == {d.hidden, d.q_dim, d.ffn_hidden, p.delta.value_dim}
                \cup (IF p.ffn = "moe" THEN {p.expert_ffn, p.expert_shared_ffn} ELSE {})
           b == d.hidden + d.q_dim + d.ffn_hidden + p.delta.value_dim
                + p.expert_ffn + p.expert_shared_ffn
<1>1. /\ d.hidden \in Nat /\ d.q_dim \in Nat /\ d.ffn_hidden \in Nat /\ p.delta.value_dim \in Nat
      /\ p.expert_ffn \in Nat /\ p.expert_shared_ffn \in Nat
  BY DEF DimsAre, ParamsAre, DeltaIs
<1>2. U \in SUBSET Nat /\ U # {} /\ b \in Nat /\ \A x \in U : x <= b
  BY <1>1
<1>3. Arch!Max(U) \in U /\ \A x \in U : x <= Arch!Max(U)
  <2> HIDE DEF U, b
  <2> QED BY <1>2, MaxIs
<1>4. d.hidden \in U /\ d.q_dim \in U /\ d.ffn_hidden \in U /\ p.delta.value_dim \in U
  OBVIOUS
<1>5. Folded(d, p) = Arch!Max(U)
  BY DEF Folded
<1> HIDE DEF U
<1> QED BY <1>2, <1>3, <1>4, <1>5

Expert(p) == Arch!Max({p.expert_ffn, p.expert_shared_ffn})

\* The room there is in each buffer for B tokens.
Room(s, d, p, B) ==
    /\ s["x"] = B * d.hidden /\ s["residual"] = B * d.hidden /\ s["x_norm"] = B * d.hidden
    /\ s["q_full"] = B * d.q_dim /\ s["k_full"] = B * d.kv_dim /\ s["v_full"] = B * d.kv_dim
    /\ s["attn_out"] = B * d.q_dim /\ s["attn_scores"] = Arch!Max({d.n_ctx_train, 1})
    /\ p.qkv = "fused" => s["qkv_full"] = B * (d.q_dim + 2 * d.kv_dim)
    /\ p.qkv = "separate_gate" => s["qg_full"] = B * 2 * d.q_dim /\ s["elem_gate"] = B * d.q_dim
    /\ p.attn_gate => s["head_gate"] = B * d.n_heads
    /\ s["norms"] = d.n_layers * d.hidden /\ s["qk_norms"] = d.n_layers * d.head_dim
    /\ s["q_bias"] = d.n_layers * d.q_dim /\ s["kv_bias"] = d.n_layers * d.kv_dim
    /\ s["fold_buf"] = B * Folded(d, p)

DeltaRoom(s, d, dn, B) ==
    /\ s["dn_mixed"] = B * dn.conv_dim /\ s["dn_conv_out"] = B * dn.conv_dim
    /\ s["dn_z"] = B * dn.value_dim /\ s["dn_out"] = B * dn.value_dim
    /\ s["dn_beta"] = B * dn.n_v /\ s["dn_alpha"] = B * dn.n_v /\ s["dn_decay"] = B * dn.n_v
    /\ s["dn_head"] = dn.d_state /\ s["fold_perm"] = B * dn.value_dim
    /\ s["ssm_conv_w"] = d.n_layers * dn.conv_dim * dn.d_conv
    /\ s["ssm_dt_bias"] = d.n_layers * dn.n_v /\ s["ssm_norm"] = d.n_layers * dn.head_v_dim

FfnRoom(s, d, p, B) ==
    /\ p.ffn = "dense" => s["gate"] = B * d.ffn_hidden /\ s["up"] = B * d.ffn_hidden
    /\ p.ffn = "fused" => s["gate"] = B * 2 * d.ffn_hidden /\ s["up"] = B * d.ffn_hidden
    /\ p.ffn = "moe" => /\ s["gate"] = Expert(p) /\ s["up"] = Expert(p)
                        /\ s["router_probs"] = p.n_expert /\ s["expert_ids"] = p.n_expert_used
                        /\ s["expert_out"] = d.hidden

\* BlockScratch::init makes the buffers of every model so wide.
LEMMA RoomIs ==
  ASSUME NEW d, NEW p, NEW B, ParamsAre(d, p), NEW s, s = Arch!Scratch(d, p, B)
  PROVE  Room(s, d, p, B)
<1>1. p.attn_gate \in BOOLEAN
  BY DEF ParamsAre
<1> QED BY <1>1 DEF Arch!Scratch, Room, Folded

\* And those of the delta net.
LEMMA DeltaRoomIs ==
  ASSUME NEW d, NEW p, NEW B, NEW s, s = Arch!Scratch(d, p, B)
  PROVE  DeltaRoom(s, d, p.delta, B)
BY DEF Arch!Scratch, DeltaRoom

\* And those of the feed-forward network.
LEMMA FfnRoomIs ==
  ASSUME NEW d, NEW p, NEW B, ParamsAre(d, p), NEW s, s = Arch!Scratch(d, p, B)
  PROVE  FfnRoom(s, d, p, B)
BY DEF Arch!Scratch, FfnRoom, Expert

-----------------------------------------------------------------------------
(* What a pass reaches fits.                                                *)

Fits(reach, s) == \A r \in reach : r[2] <= s[r[1]]

\* What fits with what else fits.
LEMMA FitsBoth ==
  ASSUME NEW a, NEW b, NEW s, Fits(a, s), Fits(b, s)
  PROVE  Fits(a \cup b, s)
BY DEF Fits

\* A product fits when what it reads, writes and rotates does.
LEMMA ProductFits ==
  ASSUME NEW p, NEW n, NEW s, NEW product,
         Arch!Batch(p, product.in, n) * product.cols <= s[product.in],
         Arch!Batch(p, product.out, n) * product.rows <= s[product.out],
         product.weight \in Arch!Folds(p) => n * product.cols <= s["fold_buf"]
  PROVE  Fits(Arch!ProductReach(p, product, n), s)
BY DEF Arch!ProductReach, Fits

\* The tokens of a pass are no more than those the scratch was made for.
Passes(n, B) == n \in Nat /\ B \in Nat /\ 1 <= n /\ n <= B

\* A pass takes no more of a buffer than a full batch would.
LEMMA WithinBatch ==
  ASSUME NEW n, NEW B, Passes(n, B), NEW w \in Nat
  PROVE  n * w <= B * w /\ n * w \in Nat /\ B * w \in Nat
BY MulMono DEF Passes

AllFit(products, p, n, s) == \A product \in products : Fits(Arch!ProductReach(p, product, n), s)

\* The products of an attention layer.
LEMMA AttentionProductsFit ==
  ASSUME NEW d, NEW p, NEW n, NEW B, NEW s, DimsAre(d), ParamsAre(d, p), DeltaIs(p.delta),
         Passes(n, B), Room(s, d, p, B)
  PROVE  AllFit(Arch!AttentionProducts(d, p), p, n, s)
<1>1. /\ d.hidden \in Nat /\ d.q_dim \in Nat /\ d.kv_dim \in Nat /\ d.n_heads \in Nat
      /\ Folded(d, p) \in Nat /\ d.hidden <= Folded(d, p) /\ d.q_dim <= Folded(d, p)
      /\ n \in Nat /\ B \in Nat
  BY FoldedIs DEF DimsAre, Passes
<1>2. /\ n * d.hidden <= B * d.hidden /\ n * d.q_dim <= B * d.q_dim
      /\ n * d.kv_dim <= B * d.kv_dim /\ n * d.n_heads <= B * d.n_heads
      /\ n * (2 * d.q_dim) <= B * (2 * d.q_dim)
      /\ n * (d.q_dim + 2 * d.kv_dim) <= B * (d.q_dim + 2 * d.kv_dim)
  <2>1. 2 * d.q_dim \in Nat /\ d.q_dim + 2 * d.kv_dim \in Nat
    BY <1>1
  <2> QED BY <1>1, <2>1, WithinBatch
<1>3. n * d.hidden <= B * Folded(d, p) /\ n * d.q_dim <= B * Folded(d, p)
  <2>1. n * Folded(d, p) <= B * Folded(d, p)
    BY <1>1, WithinBatch
  <2>2. d.hidden * n <= Folded(d, p) * n /\ d.q_dim * n <= Folded(d, p) * n
    BY <1>1, MulMono
  <2> QED BY <1>1, <2>1, <2>2
<1>4. B * (2 * d.q_dim) = B * 2 * d.q_dim
  BY <1>1
<1>5. \A buffer : buffer \in {"x_norm", "x", "q_full", "k_full", "v_full", "qg_full", "qkv_full",
                              "head_gate", "attn_out"} => Arch!Batch(p, buffer, n) = n
  BY DEF Arch!Batch
<1> SUFFICES ASSUME NEW q \in Arch!AttentionProducts(d, p)
             PROVE  Fits(Arch!ProductReach(p, q, n), s)
  BY DEF AllFit
<1>6. /\ q.in \in {"x_norm", "attn_out"}
      /\ q.out \in {"x", "q_full", "k_full", "v_full", "qg_full", "qkv_full", "head_gate"}
      /\ n * q.cols <= s[q.in] /\ n * q.rows <= s[q.out] /\ n * q.cols <= s["fold_buf"]
  <2>1. CASE q = Arch!Product("attn_output", d.hidden, d.q_dim, "attn_out", "x")
    BY <1>2, <1>3, <2>1 DEF Arch!Product, Room
  <2>2. CASE p.qkv = "separate_gate"
          /\ q = Arch!Product("attn_q", 2 * d.q_dim, d.hidden, "x_norm", "qg_full")
    BY <1>2, <1>3, <1>4, <2>2 DEF Arch!Product, Room
  <2>3. CASE p.qkv = "separate" /\ q = Arch!Product("attn_q", d.q_dim, d.hidden, "x_norm", "q_full")
    BY <1>2, <1>3, <2>3 DEF Arch!Product, Room
  <2>4. CASE p.qkv = "fused"
          /\ q = Arch!Product("attn_qkv", d.q_dim + 2 * d.kv_dim, d.hidden, "x_norm", "qkv_full")
    BY <1>2, <1>3, <2>4 DEF Arch!Product, Room
  <2>5. CASE q = Arch!Product("attn_k", d.kv_dim, d.hidden, "x_norm", "k_full")
    BY <1>2, <1>3, <2>5 DEF Arch!Product, Room
  <2>6. CASE q = Arch!Product("attn_v", d.kv_dim, d.hidden, "x_norm", "v_full")
    BY <1>2, <1>3, <2>6 DEF Arch!Product, Room
  <2>7. CASE p.attn_gate
          /\ q = Arch!Product("attn_gate", d.n_heads, d.hidden, "x_norm", "head_gate")
    BY <1>2, <1>3, <2>7 DEF Arch!Product, Room
  <2>8. p.qkv \in {"separate", "separate_gate", "fused"} /\ p.attn_gate \in BOOLEAN
    BY DEF ParamsAre
  <2> QED BY <2>1, <2>2, <2>3, <2>4, <2>5, <2>6, <2>7, <2>8 DEF Arch!AttentionProducts
<1> QED BY <1>5, <1>6, ProductFits

\* The products of a delta-net layer.
LEMMA DeltaProductsFit ==
  ASSUME NEW d, NEW p, NEW n, NEW B, NEW s, DimsAre(d), ParamsAre(d, p), DeltaIs(p.delta),
         Passes(n, B), Room(s, d, p, B), DeltaRoom(s, d, p.delta, B)
  PROVE  AllFit(Arch!DeltaProducts(d, p.delta), p, n, s)
<1> DEFINE dn == p.delta
<1>1. /\ d.hidden \in Nat /\ dn.conv_dim \in Nat /\ dn.value_dim \in Nat /\ dn.n_v \in Nat
      /\ Folded(d, p) \in Nat /\ d.hidden <= Folded(d, p) /\ dn.value_dim <= Folded(d, p)
      /\ n \in Nat /\ B \in Nat
  BY FoldedIs DEF DimsAre, DeltaIs, Passes
<1>2. /\ n * d.hidden <= B * d.hidden /\ n * dn.conv_dim <= B * dn.conv_dim
      /\ n * dn.value_dim <= B * dn.value_dim /\ n * dn.n_v <= B * dn.n_v
  BY <1>1, WithinBatch
<1>3. n * d.hidden <= B * Folded(d, p) /\ n * dn.value_dim <= B * Folded(d, p)
  <2>1. n * Folded(d, p) <= B * Folded(d, p)
    BY <1>1, WithinBatch
  <2>2. d.hidden * n <= Folded(d, p) * n /\ dn.value_dim * n <= Folded(d, p) * n
    BY <1>1, MulMono
  <2> QED BY <1>1, <2>1, <2>2
<1>4. \A buffer : buffer \in {"x_norm", "x", "dn_mixed", "dn_z", "dn_beta", "dn_alpha", "dn_out"}
                     => Arch!Batch(p, buffer, n) = n
  BY DEF Arch!Batch
<1> SUFFICES ASSUME NEW q \in Arch!DeltaProducts(d, dn)
             PROVE  Fits(Arch!ProductReach(p, q, n), s)
  BY DEF AllFit
<1>5. /\ q.in \in {"x_norm", "dn_out"} /\ q.out \in {"x", "dn_mixed", "dn_z", "dn_beta", "dn_alpha"}
      /\ n * q.cols <= s[q.in] /\ n * q.rows <= s[q.out] /\ n * q.cols <= s["fold_buf"]
  <2>1. CASE q = Arch!Product("ssm_in", dn.conv_dim, d.hidden, "x_norm", "dn_mixed")
    BY <1>2, <1>3, <2>1 DEF Arch!Product, Room, DeltaRoom
  <2>2. CASE q = Arch!Product("ssm_gate", dn.value_dim, d.hidden, "x_norm", "dn_z")
    BY <1>2, <1>3, <2>2 DEF Arch!Product, Room, DeltaRoom
  <2>3. CASE q = Arch!Product("ssm_beta", dn.n_v, d.hidden, "x_norm", "dn_beta")
    BY <1>2, <1>3, <2>3 DEF Arch!Product, Room, DeltaRoom
  <2>4. CASE q = Arch!Product("ssm_alpha", dn.n_v, d.hidden, "x_norm", "dn_alpha")
    BY <1>2, <1>3, <2>4 DEF Arch!Product, Room, DeltaRoom
  <2>5. CASE q = Arch!Product("ssm_out", d.hidden, dn.value_dim, "dn_out", "x")
    BY <1>2, <1>3, <2>5 DEF Arch!Product, Room, DeltaRoom
  <2> QED BY <2>1, <2>2, <2>3, <2>4, <2>5 DEF Arch!DeltaProducts
<1> QED BY <1>4, <1>5, ProductFits

\* The three products of a gated feed-forward of some width.
LEMMA SwiGluFits ==
  ASSUME NEW d, NEW p, NEW n, NEW s, NEW w, NEW gate, NEW up, NEW down, NEW out,
         out \in {"x", "expert_out"},
         Arch!Batch(p, "x_norm", n) * d.hidden <= s["x_norm"],
         Arch!Batch(p, "gate", n) * w <= s["gate"], Arch!Batch(p, "up", n) * w <= s["up"],
         Arch!Batch(p, out, n) * d.hidden <= s[out],
         gate \in Arch!Folds(p) \/ up \in Arch!Folds(p) => n * d.hidden <= s["fold_buf"],
         down \in Arch!Folds(p) => n * w <= s["fold_buf"]
  PROVE  AllFit(Arch!SwiGlu(gate, up, down, d, w, out), p, n, s)
<1> SUFFICES ASSUME NEW q \in Arch!SwiGlu(gate, up, down, d, w, out)
             PROVE  Fits(Arch!ProductReach(p, q, n), s)
  BY DEF AllFit
<1>1. CASE q = Arch!Product(gate, w, d.hidden, "x_norm", "gate")
  BY <1>1, ProductFits DEF Arch!Product
<1>2. CASE q = Arch!Product(up, w, d.hidden, "x_norm", "up")
  BY <1>2, ProductFits DEF Arch!Product
<1>3. CASE q = Arch!Product(down, d.hidden, w, "gate", out)
  BY <1>3, ProductFits DEF Arch!Product
<1> QED BY <1>1, <1>2, <1>3 DEF Arch!SwiGlu

\* The products of the feed-forward, dense, fused or of experts.
LEMMA FfnProductsFit ==
  ASSUME NEW d, NEW p, NEW n, NEW B, NEW s, DimsAre(d), ParamsAre(d, p), DeltaIs(p.delta),
         Passes(n, B), Room(s, d, p, B), FfnRoom(s, d, p, B)
  PROVE  AllFit(Arch!FfnProducts(d, p), p, n, s)
<1>1. /\ d.hidden \in Nat /\ d.ffn_hidden \in Nat /\ p.n_expert \in Nat
      /\ p.expert_ffn \in Nat /\ p.expert_shared_ffn \in Nat
      /\ Folded(d, p) \in Nat /\ d.hidden <= Folded(d, p) /\ d.ffn_hidden <= Folded(d, p)
      /\ n \in Nat /\ B \in Nat
  BY FoldedIs DEF DimsAre, ParamsAre, Passes
<1>2. /\ n * d.hidden <= B * d.hidden /\ n * d.ffn_hidden <= B * d.ffn_hidden
      /\ n * (2 * d.ffn_hidden) <= B * (2 * d.ffn_hidden)
      /\ B * (2 * d.ffn_hidden) = B * 2 * d.ffn_hidden
      /\ B * d.ffn_hidden \in Nat
  <2>1. 2 * d.ffn_hidden \in Nat
    BY <1>1
  <2> QED BY <1>1, <2>1, WithinBatch
<1>3. n * d.hidden <= B * Folded(d, p) /\ n * d.ffn_hidden <= B * Folded(d, p)
  <2>1. n * Folded(d, p) <= B * Folded(d, p)
    BY <1>1, WithinBatch
  <2>2. d.hidden * n <= Folded(d, p) * n /\ d.ffn_hidden * n <= Folded(d, p) * n
    BY <1>1, MulMono
  <2> QED BY <1>1, <2>1, <2>2
<1>4. /\ Arch!Batch(p, "x_norm", n) = n /\ Arch!Batch(p, "x", n) = n
      /\ p.ffn # "moe" => Arch!Batch(p, "gate", n) = n /\ Arch!Batch(p, "up", n) = n
      /\ p.ffn = "moe" => /\ Arch!Batch(p, "gate", n) = 1 /\ Arch!Batch(p, "up", n) = 1
                          /\ Arch!Batch(p, "router_probs", n) = 1
                          /\ Arch!Batch(p, "expert_out", n) = 1
  BY DEF Arch!Batch
<1>5. s["x_norm"] = B * d.hidden /\ s["x"] = B * d.hidden /\ s["fold_buf"] = B * Folded(d, p)
  BY DEF Room
<1>6. CASE p.ffn = "dense"
  <2>1. s["gate"] = B * d.ffn_hidden /\ s["up"] = B * d.ffn_hidden
    BY <1>6 DEF FfnRoom
  <2>2. Arch!FfnProducts(d, p) = Arch!SwiGlu("ffn_gate", "ffn_up", "ffn_down", d, d.ffn_hidden, "x")
    BY <1>6 DEF Arch!FfnProducts
  <2> QED BY <1>2, <1>3, <1>4, <1>5, <1>6, <2>1, <2>2, SwiGluFits
<1>7. CASE p.ffn = "fused"
  <2>1. s["gate"] = B * 2 * d.ffn_hidden /\ s["up"] = B * d.ffn_hidden
    BY <1>7 DEF FfnRoom
  <2>2. "ffn_up" \notin Arch!Folds(p) /\ "ffn_down" \notin Arch!Folds(p)
    BY <1>7 DEF Arch!Folds
  <2> SUFFICES ASSUME NEW q \in Arch!FfnProducts(d, p) PROVE Fits(Arch!ProductReach(p, q, n), s)
    BY DEF AllFit
  <2>3. CASE q = Arch!Product("ffn_up", 2 * d.ffn_hidden, d.hidden, "x_norm", "gate")
    BY <1>2, <1>4, <1>5, <1>7, <2>1, <2>2, <2>3, ProductFits DEF Arch!Product
  <2>4. CASE q = Arch!Product("ffn_down", d.hidden, d.ffn_hidden, "up", "x")
    BY <1>2, <1>4, <1>5, <1>7, <2>1, <2>2, <2>4, ProductFits DEF Arch!Product
  <2> QED BY <1>7, <2>3, <2>4 DEF Arch!FfnProducts
<1>8. CASE p.ffn = "moe"
  <2>1. /\ Expert(p) \in Nat /\ p.expert_ffn <= Expert(p) /\ p.expert_shared_ffn <= Expert(p)
    BY <1>1, MaxOfTwo DEF Expert
  <2>2. /\ s["gate"] = Expert(p) /\ s["up"] = Expert(p) /\ s["router_probs"] = p.n_expert
        /\ s["expert_out"] = d.hidden
    BY <1>8 DEF FfnRoom
  <2>3. Arch!Folds(p) \cap {"ffn_gate_inp", "ffn_gate_exps", "ffn_up_exps", "ffn_down_exps",
                         "ffn_gate_shexp", "ffn_up_shexp", "ffn_down_shexp"} = {}
    BY <1>8 DEF Arch!Folds
  <2>4. \A w \in Nat : 1 * w = w
    OBVIOUS
  <2>5. AllFit({Arch!Product("ffn_gate_inp", p.n_expert, d.hidden, "x_norm", "router_probs")}, p,
          n, s)
    <3> SUFFICES Fits(Arch!ProductReach(p, Arch!Product("ffn_gate_inp", p.n_expert, d.hidden,
            "x_norm",
                                                  "router_probs"), n), s)
      BY DEF AllFit
    <3> QED BY <1>1, <1>2, <1>4, <1>5, <1>8, <2>2, <2>3, <2>4, ProductFits DEF Arch!Product
  <2>6. AllFit(Arch!SwiGlu("ffn_gate_exps", "ffn_up_exps", "ffn_down_exps", d, p.expert_ffn,
                        "expert_out"), p, n, s)
    BY <1>1, <1>2, <1>4, <1>5, <1>8, <2>1, <2>2, <2>3, <2>4, SwiGluFits
  <2>7. AllFit(Arch!SwiGlu("ffn_gate_shexp", "ffn_up_shexp", "ffn_down_shexp", d,
                        p.expert_shared_ffn, "expert_out"), p, n, s)
    BY <1>1, <1>2, <1>4, <1>5, <1>8, <2>1, <2>2, <2>3, <2>4, SwiGluFits
  <2> QED BY <1>8, <2>5, <2>6, <2>7 DEF Arch!FfnProducts, AllFit
<1> QED BY <1>6, <1>7, <1>8 DEF ParamsAre

\* What a layer has to itself in an array of all layers.
LEMMA LayerFits ==
  ASSUME NEW layers \in Nat, NEW layer \in 0 .. layers - 1, NEW w \in Nat
  PROVE  (layer + 1) * w <= layers * w
BY MulMono

\* The rest of what an attention layer reaches.
LEMMA AttentionReachFits ==
  ASSUME NEW d, NEW p, NEW n, NEW B, NEW s, DimsAre(d), ParamsAre(d, p), DeltaIs(p.delta),
         Passes(n, B), Room(s, d, p, B), NEW layer \in 0 .. d.n_layers - 1
  PROVE  Fits(Arch!AttentionReach(d, p, layer, n, d.n_ctx_train), s)
<1>1. /\ d.q_dim \in Nat /\ d.kv_dim \in Nat /\ d.n_heads \in Nat /\ d.n_kv_heads \in Nat
      /\ d.head_dim \in Nat /\ d.n_ctx_train \in Nat /\ d.n_layers \in Nat
      /\ d.q_dim = d.n_heads * d.head_dim /\ d.kv_dim = d.n_kv_heads * d.head_dim
      /\ n \in Nat /\ B \in Nat
  BY DEF DimsAre, Passes
<1>2. n * d.q_dim <= B * d.q_dim /\ n * d.kv_dim <= B * d.kv_dim
  BY <1>1, WithinBatch
<1>3. n * d.n_heads * d.head_dim = n * d.q_dim /\ n * d.n_kv_heads * d.head_dim = n * d.kv_dim
  <2>1. \A x, y, z \in Nat : x * y * z = x * (y * z)
    OBVIOUS
  <2> QED BY <1>1, <2>1
<1>4. /\ (layer + 1) * d.q_dim <= d.n_layers * d.q_dim
      /\ (layer + 1) * d.kv_dim <= d.n_layers * d.kv_dim
      /\ (layer + 1) * d.head_dim <= d.n_layers * d.head_dim
  BY <1>1, LayerFits
<1>5. Arch!Span(p, layer, d.n_ctx_train) <= s["attn_scores"]
  <2>1. Arch!Span(p, layer, d.n_ctx_train) <= d.n_ctx_train
    BY <1>1 DEF Arch!Span, ParamsAre
  <2>2. d.n_ctx_train <= Arch!Max({d.n_ctx_train, 1}) /\ Arch!Max({d.n_ctx_train, 1}) \in Nat
    BY <1>1, MaxOfTwo
  <2>3. Arch!Span(p, layer, d.n_ctx_train) \in Nat
    BY <1>1 DEF Arch!Span, ParamsAre
  <2> QED BY <1>1, <2>1, <2>2, <2>3 DEF Room
<1>6. /\ s["q_full"] = B * d.q_dim /\ s["k_full"] = B * d.kv_dim /\ s["v_full"] = B * d.kv_dim
      /\ s["attn_out"] = B * d.q_dim /\ s["qk_norms"] = d.n_layers * d.head_dim
      /\ s["q_bias"] = d.n_layers * d.q_dim /\ s["kv_bias"] = d.n_layers * d.kv_dim
      /\ p.qkv = "separate_gate" => s["elem_gate"] = B * d.q_dim
  BY DEF Room
<1>7. Fits({<<"q_full", n * d.n_heads * d.head_dim>>, <<"k_full", n * d.n_kv_heads * d.head_dim>>,
            <<"v_full", n * d.kv_dim>>, <<"attn_out", n * d.n_heads * d.head_dim>>,
            <<"attn_scores", Arch!Span(p, layer, d.n_ctx_train)>>,
            <<"q_bias", (layer + 1) * d.q_dim>>, <<"kv_bias", (layer + 1) * d.kv_dim>>,
            <<"qk_norms", (layer + 1) * d.head_dim>>}, s)
  BY <1>2, <1>3, <1>4, <1>5, <1>6 DEF Fits
<1>8. p.qkv = "separate_gate" => Fits({<<"elem_gate", n * d.q_dim>>}, s)
  BY <1>2, <1>6 DEF Fits
<1> QED BY <1>7, <1>8 DEF Arch!AttentionReach, Fits

\* What a delta-net layer reaches: the last value head of the last token ends
\* where the tokens end.
LEMMA DeltaReachFits ==
  ASSUME NEW d, NEW p, NEW n, NEW B, NEW s, DimsAre(d), ParamsAre(d, p), DeltaIs(p.delta),
         Passes(n, B), DeltaRoom(s, d, p.delta, B), NEW layer \in p.recurrent
  PROVE  Fits(Arch!DeltaReach(d, p.delta, layer, n), s)
<1> DEFINE dn == p.delta
<1>1. /\ dn.conv_dim \in Nat /\ dn.value_dim \in Nat /\ dn.key_dim \in Nat /\ dn.n_v \in Nat
      /\ dn.d_conv \in Nat /\ dn.d_state \in Nat /\ dn.head_v_dim = dn.d_state
      /\ dn.value_dim = dn.d_state * dn.n_v /\ dn.conv_dim = 2 * dn.key_dim + dn.value_dim
      /\ n \in Nat /\ B \in Nat /\ n >= 1 /\ d.n_layers \in Nat /\ layer \in 0 .. d.n_layers - 1
  BY DEF DimsAre, ParamsAre, DeltaIs, Passes
<1> HIDE DEF dn
<1>2. n * dn.conv_dim <= B * dn.conv_dim /\ n * dn.value_dim <= B * dn.value_dim
      /\ n * dn.n_v <= B * dn.n_v
  BY <1>1, WithinBatch
<1>3. /\ \A w \in Nat : (n - 1) * w + w = n * w
      /\ (dn.n_v - 1) * dn.d_state + dn.d_state = dn.value_dim
      /\ (dn.n_v - 1) * dn.d_state \in Int
  <2>1. \A a, w \in Int : (a - 1) * w + w = a * w
    OBVIOUS
  <2>2. \A a, w \in Int : (a - 1) * w \in Int /\ a * w = w * a
    OBVIOUS
  <2>3. \A w \in Nat : (n - 1) * w + w = n * w
    BY <1>1, <2>1
  <2>4. dn.n_v \in Int /\ dn.d_state \in Int
    BY <1>1
  <2>5. /\ (dn.n_v - 1) * dn.d_state + dn.d_state = dn.n_v * dn.d_state
        /\ dn.n_v * dn.d_state = dn.d_state * dn.n_v
        /\ (dn.n_v - 1) * dn.d_state \in Int
    BY <2>1, <2>2, <2>4
  <2> QED BY <1>1, <2>3, <2>5
<1>4. /\ (n - 1) * dn.conv_dim + dn.conv_dim = n * dn.conv_dim
      /\ (n - 1) * dn.value_dim + dn.value_dim = n * dn.value_dim
      /\ (n - 1) * dn.conv_dim \in Nat /\ (n - 1) * dn.value_dim \in Nat
  <2>1. \A m, w \in Nat : m * w \in Nat
    OBVIOUS
  <2>2. n - 1 \in Nat
    BY <1>1
  <2>3. (n - 1) * dn.conv_dim \in Nat /\ (n - 1) * dn.value_dim \in Nat
    BY <1>1, <2>1, <2>2
  <2> QED BY <1>1, <1>3, <2>3
<1>5. Arch!Max({dn.d_state, dn.head_v_dim}) = dn.d_state
  BY <1>1, MaxOfTwo
<1>6. (n - 1) * dn.conv_dim + 2 * dn.key_dim + (dn.n_v - 1) * dn.head_v_dim + dn.d_state
         = n * dn.conv_dim
  BY <1>1, <1>3, <1>4
<1>7. (n - 1) * dn.value_dim + (dn.n_v - 1) * dn.head_v_dim + Arch!Max({dn.d_state, dn.head_v_dim})
         = n * dn.value_dim
  BY <1>1, <1>3, <1>4, <1>5
<1>8. /\ (layer + 1) * dn.conv_dim * dn.d_conv <= d.n_layers * dn.conv_dim * dn.d_conv
      /\ (layer + 1) * dn.n_v <= d.n_layers * dn.n_v
      /\ (layer + 1) * dn.d_state <= d.n_layers * dn.d_state
  <2>1. layer + 1 \in Nat /\ d.n_layers \in Nat /\ layer + 1 <= d.n_layers
    BY <1>1
  <2>2. PICK a, b, c, v, e, w :
           /\ a = layer + 1 /\ b = d.n_layers
           /\ c = dn.conv_dim /\ v = dn.d_conv /\ e = dn.n_v /\ w = dn.d_state
    OBVIOUS
  <2>3. /\ a \in Nat /\ b \in Nat /\ a <= b
        /\ c \in Nat /\ v \in Nat /\ e \in Nat /\ w \in Nat
    BY <1>1, <2>1, <2>2
  <2>4. a * c <= b * c /\ a * e <= b * e /\ a * w <= b * w
    BY <2>3, MulMono
  <2>5. a * c \in Nat /\ b * c \in Nat
    BY <2>3
  <2>6. (a * c) * v <= (b * c) * v
    BY <2>4, <2>5, <2>3, MulMono
  <2> QED BY <2>2, <2>4, <2>6
<1>9. /\ s["dn_conv_out"] = B * dn.conv_dim /\ s["dn_out"] = B * dn.value_dim
      /\ s["dn_decay"] = B * dn.n_v /\ s["dn_head"] = dn.d_state
      /\ s["fold_perm"] = B * dn.value_dim
      /\ s["ssm_conv_w"] = d.n_layers * dn.conv_dim * dn.d_conv
      /\ s["ssm_dt_bias"] = d.n_layers * dn.n_v /\ s["ssm_norm"] = d.n_layers * dn.head_v_dim
  BY DEF DeltaRoom, dn
<1>10. Fits(Arch!DeltaReach(d, dn, layer, n), s)
  BY <1>1, <1>2, <1>6, <1>7, <1>8, <1>9 DEF Arch!DeltaReach, Fits
<1> QED BY <1>10 DEF dn

\* What every layer reaches, whatever it is.
Common(d, p, layer, n) ==
    {<<"x", n * d.hidden>>, <<"residual", n * d.hidden>>, <<"x_norm", n * d.hidden>>,
     <<"norms", (layer + 1) * d.hidden>>}
    \cup (IF p.ffn = "moe" THEN {<<"expert_ids", p.n_expert_used>>} ELSE {})

\* What every layer reaches fits.
LEMMA CommonFits ==
  ASSUME NEW d, NEW p, NEW n, NEW B, NEW s, DimsAre(d), ParamsAre(d, p), Passes(n, B),
         Room(s, d, p, B), FfnRoom(s, d, p, B), NEW layer \in 0 .. d.n_layers - 1
  PROVE  Fits(Common(d, p, layer, n), s)
<1>1. d.hidden \in Nat /\ d.n_layers \in Nat /\ p.n_expert_used \in Nat
  BY DEF DimsAre, ParamsAre
<1>2. n * d.hidden <= B * d.hidden /\ (layer + 1) * d.hidden <= d.n_layers * d.hidden
  BY <1>1, WithinBatch, LayerFits
<1>3. Fits({<<"x", n * d.hidden>>, <<"residual", n * d.hidden>>, <<"x_norm", n * d.hidden>>,
            <<"norms", (layer + 1) * d.hidden>>}, s)
  BY <1>2 DEF Room, Fits
<1>4. p.ffn = "moe" => Fits({<<"expert_ids", p.n_expert_used>>}, s)
  BY <1>1 DEF FfnRoom, Fits
<1> QED BY <1>3, <1>4 DEF Common, Fits

\* A pass of up to B tokens stays inside the scratch for B tokens.
LEMMA ReachFits ==
  ASSUME NEW d, NEW p, NEW n, NEW B, DimsAre(d), ParamsAre(d, p), DeltaIs(p.delta),
         Passes(n, B), NEW layer \in 0 .. d.n_layers - 1
  PROVE  Fits(Arch!Reach(d, p, layer, n, d.n_ctx_train), Arch!Scratch(d, p, B))
<1>1. PICK s : s = Arch!Scratch(d, p, B)
  OBVIOUS
<1>2. Room(s, d, p, B) /\ DeltaRoom(s, d, p.delta, B) /\ FfnRoom(s, d, p, B)
  BY <1>1, RoomIs, DeltaRoomIs, FfnRoomIs
<1>3. Fits(Common(d, p, layer, n), s)
  BY <1>2, CommonFits
<1>4. AllFit(Arch!FfnProducts(d, p), p, n, s)
  BY <1>2, FfnProductsFit
<1>5. layer \notin p.recurrent =>
         /\ AllFit(Arch!AttentionProducts(d, p), p, n, s)
         /\ Fits(Arch!AttentionReach(d, p, layer, n, d.n_ctx_train), s)
  BY <1>2, AttentionProductsFit, AttentionReachFits
<1>6. layer \in p.recurrent =>
         /\ AllFit(Arch!DeltaProducts(d, p.delta), p, n, s)
         /\ Fits(Arch!DeltaReach(d, p.delta, layer, n), s)
  BY <1>2, DeltaProductsFit, DeltaReachFits
<1>7. AllFit(Arch!Products(d, p, layer), p, n, s)
  BY <1>4, <1>5, <1>6 DEF AllFit, Arch!Products
<1>8. Fits(UNION {Arch!ProductReach(p, product, n) : product \in Arch!Products(d, p, layer)}, s)
  BY <1>7 DEF AllFit, Fits
<1>9. Fits(IF layer \in p.recurrent THEN Arch!DeltaReach(d, p.delta, layer, n)
           ELSE Arch!AttentionReach(d, p, layer, n, d.n_ctx_train), s)
  BY <1>5, <1>6
<1>10. Arch!Reach(d, p, layer, n, d.n_ctx_train)
         = Common(d, p, layer, n)
           \cup (IF layer \in p.recurrent THEN Arch!DeltaReach(d, p.delta, layer, n)
                 ELSE Arch!AttentionReach(d, p, layer, n, d.n_ctx_train))
           \cup UNION {Arch!ProductReach(p, product, n) : product \in Arch!Products(d, p, layer)}
  BY DEF Arch!Reach, Common
<1>11. Fits(Arch!Reach(d, p, layer, n, d.n_ctx_train), s)
  BY <1>3, <1>8, <1>9, <1>10 DEF Fits
<1> QED BY <1>1, <1>11

-----------------------------------------------------------------------------
(* Every product has the shape of its weight.                               *)

Shaped(products, weights) ==
    \A q \in products :
        \E w \in weights : w[1] = q.weight /\ w[2] = q.rows /\ w[3] = q.cols

\* A weight of the shape a product asks for.
HasShape(q, weights) ==
    \E w \in weights : w[1] = q.weight /\ w[2] = q.rows /\ w[3] = q.cols

\* The products of attention.
LEMMA AttentionShaped ==
  ASSUME NEW d, NEW p, ParamsAre(d, p)
  PROVE  Shaped(Arch!AttentionProducts(d, p), Arch!AttentionWeights(d, p))
<1> SUFFICES ASSUME NEW q \in Arch!AttentionProducts(d, p)
             PROVE  HasShape(q, Arch!AttentionWeights(d, p))
  BY DEF Shaped, HasShape
<1>0. p.qkv \in {"separate", "separate_gate", "fused"} /\ p.attn_gate \in BOOLEAN
  BY DEF ParamsAre
<1>1. CASE p.qkv = "separate_gate"
        /\ q = Arch!Product("attn_q", 2 * d.q_dim, d.hidden, "x_norm", "qg_full")
  <2>1. <<"attn_q", 2 * d.q_dim, d.hidden, 0>> \in Arch!AttentionWeights(d, p)
    BY <1>1 DEF Arch!AttentionWeights
  <2> QED BY <1>1, <2>1 DEF Arch!Product, HasShape
<1>2. CASE p.qkv = "separate" /\ q = Arch!Product("attn_q", d.q_dim, d.hidden, "x_norm", "q_full")
  <2>1. <<"attn_q", d.q_dim, d.hidden, 0>> \in Arch!AttentionWeights(d, p)
    BY <1>2 DEF Arch!AttentionWeights
  <2> QED BY <1>2, <2>1 DEF Arch!Product, HasShape
<1>3. CASE p.qkv = "fused"
        /\ q = Arch!Product("attn_qkv", d.q_dim + 2 * d.kv_dim, d.hidden, "x_norm", "qkv_full")
  <2>1. <<"attn_qkv", d.q_dim + 2 * d.kv_dim, d.hidden, 0>> \in Arch!AttentionWeights(d, p)
    BY <1>3 DEF Arch!AttentionWeights
  <2> QED BY <1>3, <2>1 DEF Arch!Product, HasShape
<1>4. CASE p.qkv # "fused" /\ q = Arch!Product("attn_k", d.kv_dim, d.hidden, "x_norm", "k_full")
  <2>1. <<"attn_k", d.kv_dim, d.hidden, 0>> \in Arch!AttentionWeights(d, p)
    BY <1>4 DEF Arch!AttentionWeights
  <2> QED BY <1>4, <2>1 DEF Arch!Product, HasShape
<1>5. CASE p.qkv # "fused" /\ q = Arch!Product("attn_v", d.kv_dim, d.hidden, "x_norm", "v_full")
  <2>1. <<"attn_v", d.kv_dim, d.hidden, 0>> \in Arch!AttentionWeights(d, p)
    BY <1>5 DEF Arch!AttentionWeights
  <2> QED BY <1>5, <2>1 DEF Arch!Product, HasShape
<1>6. CASE p.attn_gate /\ q = Arch!Product("attn_gate", d.n_heads, d.hidden, "x_norm", "head_gate")
  <2>1. <<"attn_gate", d.n_heads, d.hidden, 0>> \in Arch!AttentionWeights(d, p)
    BY <1>6 DEF Arch!AttentionWeights
  <2> QED BY <1>6, <2>1 DEF Arch!Product, HasShape
<1>7. CASE q = Arch!Product("attn_output", d.hidden, d.q_dim, "attn_out", "x")
  <2>1. <<"attn_output", d.hidden, d.q_dim, 0>> \in Arch!AttentionWeights(d, p)
    BY <1>7 DEF Arch!AttentionWeights
  <2> QED BY <1>7, <2>1 DEF Arch!Product, HasShape
<1> QED BY <1>0, <1>1, <1>2, <1>3, <1>4, <1>5, <1>6, <1>7 DEF Arch!AttentionProducts

\* The products of the delta net.
LEMMA DeltaShaped ==
  ASSUME NEW d, NEW dn
  PROVE  Shaped(Arch!DeltaProducts(d, dn), Arch!DeltaWeights(d, dn))
BY DEF Shaped, Arch!DeltaProducts, Arch!DeltaWeights, Arch!Product

\* The products of the feed-forward network, dense, fused or of experts.
LEMMA FfnShaped ==
  ASSUME NEW d, NEW p, ParamsAre(d, p)
  PROVE  Shaped(Arch!FfnProducts(d, p), Arch!FfnWeights(d, p))
<1> SUFFICES ASSUME NEW q \in Arch!FfnProducts(d, p)
             PROVE  HasShape(q, Arch!FfnWeights(d, p))
  BY DEF Shaped, HasShape
<1>0. p.ffn \in {"dense", "fused", "moe"}
  BY DEF ParamsAre
<1>1. CASE p.ffn = "dense"
  <2>1. CASE q = Arch!Product("ffn_gate", d.ffn_hidden, d.hidden, "x_norm", "gate")
    <3>1. <<"ffn_gate", d.ffn_hidden, d.hidden, 0>> \in Arch!FfnWeights(d, p)
      BY <1>1, <2>1 DEF Arch!FfnWeights
    <3> QED BY <2>1, <3>1 DEF Arch!Product, HasShape
  <2>2. CASE q = Arch!Product("ffn_up", d.ffn_hidden, d.hidden, "x_norm", "up")
    <3>1. <<"ffn_up", d.ffn_hidden, d.hidden, 0>> \in Arch!FfnWeights(d, p)
      BY <1>1, <2>2 DEF Arch!FfnWeights
    <3> QED BY <2>2, <3>1 DEF Arch!Product, HasShape
  <2>3. CASE q = Arch!Product("ffn_down", d.hidden, d.ffn_hidden, "gate", "x")
    <3>1. <<"ffn_down", d.hidden, d.ffn_hidden, 0>> \in Arch!FfnWeights(d, p)
      BY <1>1, <2>3 DEF Arch!FfnWeights
    <3> QED BY <2>3, <3>1 DEF Arch!Product, HasShape
  <2> QED BY <1>1, <2>1, <2>2, <2>3 DEF Arch!FfnProducts, Arch!SwiGlu
<1>2. CASE p.ffn = "fused"
  <2>1. CASE q = Arch!Product("ffn_up", 2 * d.ffn_hidden, d.hidden, "x_norm", "gate")
    <3>1. <<"ffn_up", 2 * d.ffn_hidden, d.hidden, 0>> \in Arch!FfnWeights(d, p)
      BY <1>2, <2>1 DEF Arch!FfnWeights
    <3> QED BY <2>1, <3>1 DEF Arch!Product, HasShape
  <2>2. CASE q = Arch!Product("ffn_down", d.hidden, d.ffn_hidden, "up", "x")
    <3>1. <<"ffn_down", d.hidden, d.ffn_hidden, 0>> \in Arch!FfnWeights(d, p)
      BY <1>2, <2>2 DEF Arch!FfnWeights
    <3> QED BY <2>2, <3>1 DEF Arch!Product, HasShape
  <2> QED BY <1>2, <2>1, <2>2 DEF Arch!FfnProducts, Arch!SwiGlu
<1>3. CASE p.ffn = "moe"
  <2>1. CASE q = Arch!Product("ffn_gate_inp", p.n_expert, d.hidden, "x_norm", "router_probs")
    <3>1. <<"ffn_gate_inp", p.n_expert, d.hidden, 0>> \in Arch!FfnWeights(d, p)
      BY <1>3, <2>1 DEF Arch!FfnWeights
    <3> QED BY <2>1, <3>1 DEF Arch!Product, HasShape
  <2>2. CASE q = Arch!Product("ffn_gate_exps", p.expert_ffn, d.hidden, "x_norm", "gate")
    <3>1. <<"ffn_gate_exps", p.expert_ffn, d.hidden, p.n_expert>> \in Arch!FfnWeights(d, p)
      BY <1>3, <2>2 DEF Arch!FfnWeights
    <3> QED BY <2>2, <3>1 DEF Arch!Product, HasShape
  <2>3. CASE q = Arch!Product("ffn_up_exps", p.expert_ffn, d.hidden, "x_norm", "up")
    <3>1. <<"ffn_up_exps", p.expert_ffn, d.hidden, p.n_expert>> \in Arch!FfnWeights(d, p)
      BY <1>3, <2>3 DEF Arch!FfnWeights
    <3> QED BY <2>3, <3>1 DEF Arch!Product, HasShape
  <2>4. CASE q = Arch!Product("ffn_down_exps", d.hidden, p.expert_ffn, "gate", "expert_out")
    <3>1. <<"ffn_down_exps", d.hidden, p.expert_ffn, p.n_expert>> \in Arch!FfnWeights(d, p)
      BY <1>3, <2>4 DEF Arch!FfnWeights
    <3> QED BY <2>4, <3>1 DEF Arch!Product, HasShape
  <2>5. CASE p.expert_shared_ffn # 0
          /\ q = Arch!Product("ffn_gate_shexp", p.expert_shared_ffn, d.hidden, "x_norm", "gate")
    <3>1. <<"ffn_gate_shexp", p.expert_shared_ffn, d.hidden, 0>> \in Arch!FfnWeights(d, p)
      BY <1>3, <2>5 DEF Arch!FfnWeights
    <3> QED BY <2>5, <3>1 DEF Arch!Product, HasShape
  <2>6. CASE p.expert_shared_ffn # 0
          /\ q = Arch!Product("ffn_up_shexp", p.expert_shared_ffn, d.hidden, "x_norm", "up")
    <3>1. <<"ffn_up_shexp", p.expert_shared_ffn, d.hidden, 0>> \in Arch!FfnWeights(d, p)
      BY <1>3, <2>6 DEF Arch!FfnWeights
    <3> QED BY <2>6, <3>1 DEF Arch!Product, HasShape
  <2>7. CASE p.expert_shared_ffn # 0
          /\ q = Arch!Product("ffn_down_shexp", d.hidden, p.expert_shared_ffn, "gate", "expert_out")
    <3>1. <<"ffn_down_shexp", d.hidden, p.expert_shared_ffn, 0>> \in Arch!FfnWeights(d, p)
      BY <1>3, <2>7 DEF Arch!FfnWeights
    <3> QED BY <2>7, <3>1 DEF Arch!Product, HasShape
  <2> QED BY <1>3, <2>1, <2>2, <2>3, <2>4, <2>5, <2>6, <2>7 DEF Arch!FfnProducts, Arch!SwiGlu
<1> QED BY <1>0, <1>1, <1>2, <1>3

\* The products of a layer.
LEMMA ProductsShaped ==
  ASSUME NEW d, NEW p, NEW layer, ParamsAre(d, p)
  PROVE  Shaped(Arch!Products(d, p, layer), Arch!Weights(d, p, layer))
<1>1. Shaped(Arch!FfnProducts(d, p), Arch!FfnWeights(d, p))
  BY FfnShaped
<1>2. Shaped(Arch!AttentionProducts(d, p), Arch!AttentionWeights(d, p))
  BY AttentionShaped
<1>3. Shaped(Arch!DeltaProducts(d, p.delta), Arch!DeltaWeights(d, p.delta))
  BY DeltaShaped
<1> QED BY <1>1, <1>2, <1>3 DEF Shaped, Arch!Products, Arch!Weights

-----------------------------------------------------------------------------
(* Heads.                                                                   *)

\* Every query head has its key head exactly if the key heads divide them.
LEMMA KeyHeadsInside ==
  ASSUME NEW d, DimsAre(d), 0 < d.n_kv_heads, d.n_kv_heads <= d.n_heads
  PROVE  (\A h \in 0 .. d.n_heads - 1 : Arch!KeyHeadOf(d, h) < d.n_kv_heads)
            <=> d.n_heads % d.n_kv_heads = 0
<1>1. PICK k \in Nat \ {0}, heads \in Nat : k = d.n_kv_heads /\ heads = d.n_heads /\ k <= heads
  BY DEF DimsAre
<1>2. PICK q \in Nat, z \in 0 .. k - 1 : heads = q * k + z /\ heads \div k = q /\ heads % k = z
  BY Divided
<1>3. q \in Nat \ {0}
  BY <1>1, <1>2
<1>4. \A h : Arch!KeyHeadOf(d, h) = h \div q
  BY <1>1, <1>2 DEF Arch!KeyHeadOf
<1>5. q * k = k * q /\ k * q \in Nat
  BY <1>3
<1>6. ASSUME z = 0, NEW h \in 0 .. heads - 1 PROVE h \div q < k
  <2>1. PICK a \in Nat, r \in 0 .. q - 1 : h = a * q + r /\ h \div q = a /\ h % q = r
    BY <1>3, Divided
  <2>2. CASE k <= a
    <3>1. k * q <= a * q /\ a * q \in Nat
      BY <1>3, <2>2, MulMono
    <3> QED BY <1>2, <1>5, <1>6, <2>1, <3>1
  <2> QED BY <2>1, <2>2
<1>7. ASSUME z # 0 PROVE k * q \in 0 .. heads - 1 /\ (k * q) \div q = k
  <2>1. k * q \in 0 .. heads - 1
    BY <1>2, <1>5, <1>7
  <2>2. PICK x : x = k * q
    OBVIOUS
  <2>3. x = k * q + 0 /\ 0 \in 0 .. q - 1
    BY <1>3, <1>5, <2>2
  <2>4. x \div q = k
    BY <1>3, <2>3, DividedOnce
  <2> QED BY <2>1, <2>2, <2>4
<1>8. z = 0 => \A h \in 0 .. heads - 1 : Arch!KeyHeadOf(d, h) < k
  BY <1>4, <1>6
<1>9. z # 0 => \E h \in 0 .. heads - 1 : ~(Arch!KeyHeadOf(d, h) < k)
  <2> SUFFICES ASSUME z # 0 PROVE \E h \in 0 .. heads - 1 : ~(Arch!KeyHeadOf(d, h) < k)
    OBVIOUS
  <2>1. PICK x \in 0 .. heads - 1 : x = k * q /\ x \div q = k
    BY <1>7
  <2>2. ~(Arch!KeyHeadOf(d, x) < k)
    BY <1>4, <2>1
  <2> QED BY <2>2
<1> QED BY <1>1, <1>2, <1>8, <1>9

\* The value heads change places, and those of one key head come to stand together.
LEMMA HeadsAreGrouped ==
  ASSUME NEW dn, DeltaIs(dn)
  PROVE  HeadsGrouped(dn)
<1>1. CASE dn.n_k = 0
  <2>1. dn.n_v = 0
    BY <1>1 DEF DeltaIs
  <2>2. 0 .. dn.n_v - 1 = {}
    BY <2>1
  <2> QED BY <2>2 DEF HeadsGrouped
<1>2. CASE dn.n_k # 0
  <2> DEFINE k == dn.n_k
             v == dn.n_v
             g == v \div k
             G(h) == h \div k + g * (h % k)
  <2>1. k \in Nat \ {0} /\ v \in Nat \ {0} /\ v % k = 0
    BY <1>2 DEF DeltaIs
  <2> HIDE DEF k, v
  <2>2. g \in Nat /\ v = g * k
    <3>1. PICK q \in Nat, z \in 0 .. k - 1 : v = q * k + z /\ v \div k = q /\ v % k = z
      BY <2>1, Divided
    <3> QED BY <2>1, <3>1
  <2> HIDE DEF g
  <2>3. g \in Nat \ {0} /\ g * k = k * g
    BY <2>1, <2>2
  <2>4. ASSUME NEW h \in 0 .. v - 1
        PROVE  /\ h \div k \in 0 .. g - 1 /\ h % k \in 0 .. k - 1
               /\ g * (h % k) = (h % k) * g /\ (h % k) * g \in Nat /\ G(h) \in 0 .. v - 1
    <3>1. h \div k \in Nat /\ h % k \in 0 .. k - 1 /\ (h \div k) * k <= h
      <4>1. PICK q \in Nat, r \in 0 .. k - 1 : h = q * k + r /\ h \div k = q /\ h % k = r
        BY <2>1, Divided
      <4>2. q * k \in Nat
        BY <2>1
      <4>3. q * k <= h
        BY <4>1, <4>2
      <4> QED BY <4>1, <4>3
    <3>2. h \div k < g
      <4> SUFFICES ASSUME g <= h \div k PROVE FALSE
        BY <2>3, <3>1
      <4>1. g * k <= (h \div k) * k
        BY <2>1, <2>3, <3>1, MulMono
      <4>2. (h \div k) * k \in Nat
        BY <2>1, <3>1
      <4> QED BY <2>1, <2>2, <3>1, <4>1, <4>2
    <3>3. (h % k) * g + g <= k * g
      BY <2>1, <2>3, <3>1, NextRow
    <3>4. g * (h % k) = (h % k) * g /\ (h % k) * g \in Nat
      BY <2>3, <3>1
    <3> QED BY <2>1, <2>2, <2>3, <3>1, <3>2, <3>3, <3>4
  <2>5. ASSUME NEW y \in 0 .. v - 1 PROVE \E h \in 0 .. v - 1 : y = G(h)
    <3> DEFINE b == y \div g
               a == y % g
               h == a * k + b
    <3>1. b \in Nat /\ a \in 0 .. g - 1 /\ y = b * g + a
      <4>1. PICK q \in Nat, r \in 0 .. g - 1 : y = q * g + r /\ y \div g = q /\ y % g = r
        BY <2>1, <2>3, Divided
      <4> QED BY <4>1
    <3> HIDE DEF a, b
    <3>2. b < k
      <4> SUFFICES ASSUME k <= b PROVE FALSE
        BY <2>1, <3>1
      <4>1. k * g <= b * g
        BY <2>1, <2>3, <3>1, MulMono
      <4>2. b * g \in Nat
        BY <2>3, <3>1
      <4> QED BY <2>1, <2>2, <2>3, <3>1, <4>1, <4>2
    <3>3. h \div k = a /\ h % k = b /\ h \in Nat
      <4>1. a \in Nat /\ b \in 0 .. k - 1
        BY <2>1, <2>3, <3>1, <3>2
      <4> QED BY <2>1, <4>1, DividedOnce
    <3>4. h < v
      <4>1. a * k + k <= g * k
        BY <2>1, <2>3, <3>1, NextRow
      <4>2. a * k \in Nat
        BY <2>1, <3>1
      <4> QED BY <2>1, <2>2, <2>3, <3>1, <3>2, <4>1, <4>2
    <3>5. y = G(h)
      <4>1. G(h) = a + g * b
        BY <3>3
      <4>2. g * b = b * g
        BY <2>3, <3>1
      <4> QED BY <2>3, <3>1, <4>1, <4>2
    <3> QED BY <2>1, <3>3, <3>4, <3>5
  <2>6. {G(h) : h \in 0 .. v - 1} = 0 .. v - 1
    <3> HIDE DEF G
    <3> QED BY <2>4, <2>5
  <2>7. ASSUME NEW h \in 0 .. v - 1, NEW o \in 0 .. v - 1, h % k < o % k PROVE G(h) < G(o)
    <3>1. /\ h \div k \in 0 .. g - 1 /\ h % k \in 0 .. k - 1 /\ g * (h % k) = (h % k) * g
          /\ (h % k) * g \in Nat /\ o \div k \in 0 .. g - 1 /\ o % k \in 0 .. k - 1
          /\ g * (o % k) = (o % k) * g /\ (o % k) * g \in Nat
      BY <2>4
    <3>2. (h % k) * g + g <= (o % k) * g
      BY <2>1, <2>3, <2>7, <3>1, NextRow
    <3> QED BY <2>3, <3>1, <3>2
  <2>8. \A h : Arch!Grouped(dn, h) = G(h) /\ Arch!DeltaKeyHeadOf(dn, h) = h % k
    BY DEF Arch!Grouped, Arch!DeltaKeyHeadOf, k, v, g
  <2>9. v = dn.n_v
    BY DEF v
  <2> HIDE DEF G
  <2> QED BY <2>6, <2>7, <2>8, <2>9 DEF HeadsGrouped
<1> QED BY <1>1, <1>2

-----------------------------------------------------------------------------
(* The recurrent state.                                                     *)

Below(K, l) == {x \in K : x < l}

\* The layers with a state are counted in their order.
LEMMA DenseOrder ==
  ASSUME NEW m \in Nat, NEW K, K \subseteq 0 .. m - 1
  PROVE  /\ Cardinality(K) \in Nat
         /\ \A l \in K : /\ Cardinality(Below(K, l)) \in Nat
                         /\ Cardinality(Below(K, l)) < Cardinality(K)
         /\ \A l, o \in K : l < o => Cardinality(Below(K, l)) < Cardinality(Below(K, o))
<1>1. IsFiniteSet(K)
  <2>1. IsFiniteSet(0 .. m - 1)
    BY FS_Interval
  <2> QED BY <2>1, FS_Subset
<1>2. ASSUME NEW l \in K, NEW U \in SUBSET K, l \in U, Below(K, l) \subseteq U
      PROVE  Cardinality(Below(K, l)) \in Nat /\ Cardinality(Below(K, l)) < Cardinality(U)
  <2> DEFINE A == Below(K, l)
  <2>1. l \notin A /\ A \subseteq K
    BY DEF Below
  <2>2. IsFiniteSet(A) /\ IsFiniteSet(U)
    BY <1>1, <2>1, FS_Subset
  <2> HIDE DEF A
  <2>3. IsFiniteSet(A \cup {l}) /\ Cardinality(A \cup {l}) = Cardinality(A) + 1
    BY <2>1, <2>2, FS_AddElement
  <2>4. A \cup {l} \subseteq U
    BY <1>2 DEF A
  <2>5. Cardinality(A \cup {l}) <= Cardinality(U)
    BY <2>2, <2>4, FS_Subset
  <2>6. Cardinality(A) \in Nat /\ Cardinality(U) \in Nat
    BY <2>2, FS_CardinalityType
  <2>7. Cardinality(A) < Cardinality(U)
    BY <2>3, <2>5, <2>6
  <2> QED BY <2>6, <2>7 DEF A
<1>3. ASSUME NEW l \in K
      PROVE  Cardinality(Below(K, l)) \in Nat /\ Cardinality(Below(K, l)) < Cardinality(K)
  BY <1>2 DEF Below
<1>4. ASSUME NEW l \in K, NEW o \in K, l < o
      PROVE  Cardinality(Below(K, l)) < Cardinality(Below(K, o))
  <2>1. K \subseteq Int
    OBVIOUS
  <2>2. l \in Below(K, o) /\ Below(K, o) \in SUBSET K
    BY <1>4 DEF Below
  <2>3. ASSUME NEW x \in Below(K, l) PROVE x \in Below(K, o)
    <3>1. x \in K /\ x < l
      BY DEF Below
    <3>2. x < o
      <4>1. x \in Int /\ l \in Int /\ o \in Int
        BY <2>1, <3>1
      <4> QED BY <1>4, <3>1, <4>1
    <3> QED BY <3>1, <3>2 DEF Below
  <2> QED BY <1>2, <2>2, <2>3
<1>5. Cardinality(K) \in Nat
  BY <1>1, FS_CardinalityType
<1> QED BY <1>3, <1>4, <1>5

\* A slot: the conv histories of its layers one after the other, c each, then
\* their delta states, w each, of v heads of e.
Offset(dense, count, c, w, e, h) == IF h = -1 THEN dense * c ELSE count * c + dense * w + h * e
Extent(c, e, h) == IF h = -1 THEN c ELSE e

\* Every part lies in the slot.
LEMMA PartInSlot ==
  ASSUME NEW count \in Nat, NEW c \in Nat, NEW e \in Nat, NEW v \in Nat, NEW w \in Nat, w = v * e,
         NEW a \in 0 .. count - 1, NEW h \in -1 .. v - 1
  PROVE  /\ Offset(a, count, c, w, e, h) \in Nat
         /\ Offset(a, count, c, w, e, h) + Extent(c, e, h) <= count * (c + w)
<1>1. count * (c + w) = count * c + count * w /\ count * c \in Nat /\ count * w \in Nat
  OBVIOUS
<1>2. a * c + c <= count * c /\ a * c \in Nat /\ a * w + w <= count * w /\ a * w \in Nat
  BY NextRow
<1>3. CASE h = -1
  BY <1>1, <1>2, <1>3 DEF Offset, Extent
<1>4. CASE h # -1
  <2>1. h \in 0 .. v - 1 /\ h * e + e <= v * e /\ h * e \in Nat
    BY <1>4, NextRow
  <2>2. Offset(a, count, c, w, e, h) = count * c + a * w + h * e /\ Extent(c, e, h) = e
    BY <1>4 DEF Offset, Extent
  <2> QED BY <1>1, <1>2, <2>1, <2>2
<1> QED BY <1>3, <1>4

\* Two parts of a slot, of different layers or heads, lie apart.
LEMMA PartsApart ==
  ASSUME NEW count \in Nat, NEW c \in Nat, NEW e \in Nat, NEW v \in Nat, NEW w \in Nat, w = v * e,
         NEW a \in 0 .. count - 1, NEW h \in -1 .. v - 1,
         NEW b \in 0 .. count - 1, NEW g \in -1 .. v - 1, a # b \/ h # g
  PROVE  \/ Offset(a, count, c, w, e, h) + Extent(c, e, h) <= Offset(b, count, c, w, e, g)
         \/ Offset(b, count, c, w, e, g) + Extent(c, e, g) <= Offset(a, count, c, w, e, h)
<1>1. ASSUME NEW x \in 0 .. count - 1, NEW y \in 0 .. count - 1
      PROVE  /\ x * c \in Nat /\ x * w \in Nat /\ x * c + c <= count * c
             /\ x < y => x * c + c <= y * c /\ x * w + w <= y * w
  BY NextRow
<1>2. ASSUME NEW x \in 0 .. v - 1, NEW y \in 0 .. v - 1
      PROVE  /\ x * e \in Nat /\ x * e + e <= w
             /\ x < y => x * e + e <= y * e
  BY NextRow
<1>3. count * c \in Nat
  OBVIOUS
<1>4. ASSUME NEW x \in 0 .. count - 1, NEW y \in 0 .. count - 1, NEW k \in -1 .. v - 1,
             NEW l \in -1 .. v - 1, x < y \/ (x = y /\ k < l), k # -1, l # -1
      PROVE  Offset(x, count, c, w, e, k) + Extent(c, e, k) <= Offset(y, count, c, w, e, l)
  <2>1. k \in 0 .. v - 1 /\ l \in 0 .. v - 1
    BY <1>4
  <2>2. /\ Offset(x, count, c, w, e, k) = count * c + x * w + k * e /\ Extent(c, e, k) = e
        /\ Offset(y, count, c, w, e, l) = count * c + y * w + l * e
    BY <1>4 DEF Offset, Extent
  <2>3. k * e \in Nat /\ l * e \in Nat /\ k * e + e <= w /\ (k < l => k * e + e <= l * e)
    BY <1>2, <2>1
  <2>4. x * w \in Nat /\ y * w \in Nat /\ (x < y => x * w + w <= y * w)
    BY <1>1
  <2>5. CASE x < y
    BY <1>3, <2>2, <2>3, <2>4, <2>5
  <2>6. CASE x = y /\ k < l
    BY <1>2, <1>3, <2>1, <2>2, <2>4, <2>6
  <2> QED BY <1>4, <2>5, <2>6
<1>5. ASSUME NEW x \in 0 .. count - 1, NEW y \in 0 .. count - 1, NEW l \in -1 .. v - 1, l # -1
      PROVE  Offset(x, count, c, w, e, -1) + Extent(c, e, -1) <= Offset(y, count, c, w, e, l)
  <2>1. l \in 0 .. v - 1
    BY <1>5
  <2>2. /\ Offset(x, count, c, w, e, -1) = x * c /\ Extent(c, e, -1) = c
        /\ Offset(y, count, c, w, e, l) = count * c + y * w + l * e
    BY <1>5 DEF Offset, Extent
  <2> QED BY <1>1, <1>2, <1>3, <2>1, <2>2
<1>6. ASSUME NEW x \in 0 .. count - 1, NEW y \in 0 .. count - 1, x < y
      PROVE  Offset(x, count, c, w, e, -1) + Extent(c, e, -1) <= Offset(y, count, c, w, e, -1)
  BY <1>1, <1>6 DEF Offset, Extent
<1>7. CASE h = -1 /\ g = -1
  <2>1. a < b \/ b < a
    BY <1>7
  <2> QED BY <1>6, <1>7, <2>1
<1>8. CASE h = -1 /\ g # -1
  BY <1>5, <1>8
<1>9. CASE h # -1 /\ g = -1
  BY <1>5, <1>9
<1>10. CASE h # -1 /\ g # -1
  <2>1. a < b \/ (a = b /\ h < g) \/ b < a \/ (b = a /\ g < h)
    BY <1>10
  <2> QED BY <1>4, <1>10, <2>1
<1> QED BY <1>7, <1>8, <1>9, <1>10

\* The layout counts as everything else does.
LEMMA SameCardinality ==
  ASSUME NEW Q
  PROVE  Arch!Cardinality(Q) = Cardinality(Q)
BY DEF Arch!Cardinality, Cardinality

\* Where the parts of the recurrent state are, in the terms above.
RegionsAre(p, c, e, v, K) ==
    /\ c \in Nat /\ e \in Nat /\ v \in Nat
    /\ \E m \in Nat : K \subseteq 0 .. m - 1
    /\ Arch!SlotFloats(p) = Cardinality(K) * (c + v * e)
    /\ \A s \in Nat, l \in K, h \in -1 .. v - 1 :
          /\ Begin(p, <<s, l, h>>)
               = s * Arch!SlotFloats(p)
                 + Offset(Cardinality(Below(K, l)), Cardinality(K), c, v * e, e, h)
          /\ End(p, <<s, l, h>>) = Begin(p, <<s, l, h>>) + Extent(c, e, h)

\* The code counts in the dense order of the layers.
LEMMA RegionIs ==
  ASSUME NEW md, Arch!IsMetadata(md), Arch!Accepted(md), NEW p, p = Arch!Params(md),
         p.recurrent # {}
  PROVE  RegionsAre(p, Arch!ConvFloats(p.delta), p.delta.d_state * p.delta.d_state, p.delta.n_v,
                    p.recurrent)
<1> DEFINE dn == p.delta
           c == Arch!ConvFloats(dn)
           e == dn.d_state * dn.d_state
           v == dn.n_v
           K == p.recurrent
<1>1. /\ dn.d_conv \in Nat \ {0} /\ dn.conv_dim \in Nat /\ dn.d_state \in Nat /\ dn.n_v \in Nat
      /\ K \subseteq 0 .. Arch!Dims(md).n_layers - 1 /\ Arch!Dims(md).n_layers \in Nat
  <2>1. ParamsAre(Arch!Dims(md), p) /\ DimsAre(Arch!Dims(md))
    BY ParamsOf, DimsOf
  <2>2. DeltaIs(dn)
    BY DeltaOf DEF Arch!Params
  <2> QED BY <2>1, <2>2 DEF ParamsAre, DimsAre, DeltaIs
<1>2. c \in Nat /\ e \in Nat /\ v \in Nat
  <2>1. dn.d_conv - 1 \in Nat
    BY <1>1
  <2>2. (dn.d_conv - 1) * dn.conv_dim \in Nat
    BY <1>1, <2>1
  <2>3. dn.d_state * dn.d_state \in Nat
    BY <1>1
  <2> QED BY <1>1, <2>2, <2>3 DEF Arch!ConvFloats
<1>3. Arch!DeltaFloats(dn) = v * e
  <2>1. dn.n_v * dn.d_state * dn.d_state = dn.n_v * (dn.d_state * dn.d_state)
    BY <1>1
  <2> QED BY <2>1 DEF Arch!DeltaFloats
<1>4. Arch!SlotFloats(p) = Cardinality(K) * (c + v * e)
  <2>1. Arch!SlotFloats(p) = Cardinality(K) * (Arch!ConvFloats(p.delta) + Arch!DeltaFloats(p.delta))
    BY SameCardinality DEF Arch!SlotFloats
  <2> QED BY <1>3, <2>1
<1>5. ASSUME NEW s \in Nat, NEW l \in K, NEW h \in -1 .. v - 1
      PROVE  /\ Begin(p, <<s, l, h>>) = s * Arch!SlotFloats(p)
                                        + Offset(Cardinality(Below(K, l)), Cardinality(K), c,
                                                v * e, e, h)
             /\ End(p, <<s, l, h>>) = Begin(p, <<s, l, h>>) + Extent(c, e, h)
  <2>1. Arch!Dense(p, l) = Cardinality(Below(K, l))
    BY SameCardinality DEF Arch!Dense, Below
  <2>2. End(p, <<s, l, h>>) = Begin(p, <<s, l, h>>) + Extent(c, e, h)
    BY DEF End, Extent
  <2>3. CASE h = -1
    BY <2>1, <2>2, <2>3 DEF Begin, Arch!ConvBegin, Offset
  <2>4. CASE h # -1
    <3> DEFINE base == s * Arch!SlotFloats(p)
               cc == Cardinality(K) * c
               dw == Cardinality(Below(K, l)) * (v * e)
               he == h * e
    <3>1. h * dn.d_state * dn.d_state = he
      BY <1>1
    <3>2. Begin(p, <<s, l, h>>) = base + cc + dw + he
      <4>1. Begin(p, <<s, l, h>>) = Arch!DeltaBegin(p, s, l, h)
        BY <2>4 DEF Begin
      <4>2. Arch!DeltaBegin(p, s, l, h) = base + Cardinality(p.recurrent) * Arch!ConvFloats(p.delta)
               + Arch!Dense(p,
                       l) * Arch!DeltaFloats(p.delta) + h * p.delta.d_state * p.delta.d_state
        BY SameCardinality DEF Arch!DeltaBegin
      <4> QED BY <1>3, <2>1, <3>1, <4>1, <4>2
    <3>3. Offset(Cardinality(Below(K, l)), Cardinality(K), c, v * e, e, h) = cc + dw + he
      BY <2>4 DEF Offset
    <3>4. base \in Int /\ cc \in Int /\ dw \in Int /\ he \in Int
      <4>1. Cardinality(K) \in Nat /\ Cardinality(Below(K, l)) \in Nat
        BY <1>1, DenseOrder
      <4>2. v * e \in Nat /\ h \in Int
        BY <1>2
      <4>3. Arch!SlotFloats(p) \in Nat
        <5>1. c + v * e \in Nat
          BY <1>2, <4>2
        <5> QED BY <1>4, <4>1, <5>1
      <4>4. base \in Int
        BY <4>3
      <4>5. cc \in Int
        BY <1>2, <4>1
      <4>6. dw \in Int
        BY <4>1, <4>2
      <4>7. he \in Int
        BY <1>2, <4>2
      <4> QED BY <4>4, <4>5, <4>6, <4>7
    <3> HIDE DEF base, cc, dw, he
    <3>5. base + cc + dw + he = base + (cc + dw + he)
      BY <3>4
    <3>6. Begin(p, <<s, l, h>>) = base + Offset(Cardinality(Below(K, l)), Cardinality(K), c,
            v * e, e, h)
      BY <3>2, <3>3, <3>5
    <3> QED BY <2>2, <3>6 DEF base
  <2> QED BY <2>3, <2>4
<1> HIDE DEF c, e, v, K
<1>6. \E m \in Nat : K \subseteq 0 .. m - 1
  BY <1>1
<1>7. RegionsAre(p, c, e, v, K)
  BY <1>2, <1>4, <1>5, <1>6 DEF RegionsAre
<1> QED BY <1>7 DEF c, e, v, K

\* No two parts of the recurrent state share a float, of one slot or of two,
\* and all of them lie in it.
LEMMA StatesLieApart ==
  ASSUME NEW md, Arch!IsMetadata(md), Arch!Accepted(md), NEW slots \in Nat
  PROVE  StatesApart(Arch!Params(md), slots)
<1>1. PICK p : p = Arch!Params(md)
  OBVIOUS
<1>2. CASE p.recurrent = {}
  BY <1>1, <1>2 DEF StatesApart, Regions
<1>3. CASE p.recurrent # {}
  <2>1. PICK c, e, v, K, S : /\ c = Arch!ConvFloats(p.delta)
                             /\ e = p.delta.d_state * p.delta.d_state
                             /\ v = p.delta.n_v /\ K = p.recurrent /\ S = Arch!SlotFloats(p)
    OBVIOUS
  <2>2. PICK count, w : count = Cardinality(K) /\ w = v * e
    OBVIOUS
  <2>3. RegionsAre(p, c, e, v, K)
    BY <1>1, <1>3, <2>1, RegionIs
  <2>4. PICK m \in Nat : K \subseteq 0 .. m - 1
    BY <2>3 DEF RegionsAre
  <2>5. S = count * (c + w) /\ c \in Nat /\ e \in Nat /\ v \in Nat
    BY <2>1, <2>2, <2>3 DEF RegionsAre
  <2>6. \A s \in Nat, l \in K, h \in -1 .. v - 1 :
           /\ Begin(p, <<s, l, h>>) = s * S + Offset(Cardinality(Below(K, l)), count, c, w, e, h)
           /\ End(p, <<s, l, h>>) = Begin(p, <<s, l, h>>) + Extent(c, e, h)
    <3> SUFFICES ASSUME NEW s \in Nat, NEW l \in K, NEW h \in -1 .. v - 1
                 PROVE  /\ Begin(p, <<s, l, h>>)
                             = s * S + Offset(Cardinality(Below(K, l)), count, c, w, e, h)
                        /\ End(p, <<s, l, h>>) = Begin(p, <<s, l, h>>) + Extent(c, e, h)
      OBVIOUS
    <3>1. /\ Begin(p, <<s, l, h>>)
               = s * Arch!SlotFloats(p)
                 + Offset(Cardinality(Below(K, l)), Cardinality(K), c, v * e, e, h)
          /\ End(p, <<s, l, h>>) = Begin(p, <<s, l, h>>) + Extent(c, e, h)
      BY <2>3, Zenon DEF RegionsAre
    <3> QED BY <2>1, <2>2, <3>1, Zenon
  <2>7. w \in Nat /\ count \in Nat
    <3>1. Cardinality(K) \in Nat
      BY <2>4, DenseOrder
    <3>2. v * e \in Nat
      BY <2>5
    <3> QED BY <2>2, <3>1, <3>2
  <2>8. S \in Nat
    <3>1. c + w \in Nat
      BY <2>5, <2>7
    <3> QED BY <2>5, <2>7, <3>1
  <2>9. \A l \in K : Cardinality(Below(K, l)) \in 0 .. count - 1
    <3>1. ASSUME NEW l \in K
          PROVE  Cardinality(Below(K, l)) \in Nat /\ Cardinality(Below(K, l)) < Cardinality(K)
      BY <2>4, DenseOrder
    <3> QED BY <2>2, <2>7, <3>1
  <2>10. ASSUME NEW l \in K, NEW o \in K, l # o
         PROVE  Cardinality(Below(K, l)) # Cardinality(Below(K, o))
    <3>1. l \in Int /\ o \in Int
      BY <2>4
    <3>2. l < o \/ o < l
      BY <2>10, <3>1
    <3>3. Cardinality(Below(K, l)) \in Nat /\ Cardinality(Below(K, o)) \in Nat
      BY <2>9
    <3>4. l < o => Cardinality(Below(K, l)) < Cardinality(Below(K, o))
      BY <2>4, DenseOrder
    <3>5. o < l => Cardinality(Below(K, o)) < Cardinality(Below(K, l))
      BY <2>4, DenseOrder
    <3> QED BY <3>2, <3>3, <3>4, <3>5
  <2>11. \A s \in Nat, l \in K, h \in -1 .. v - 1 :
           /\ Begin(p, <<s, l, h>>) \in Nat /\ End(p, <<s, l, h>>) \in Nat
           /\ s * S <= Begin(p, <<s, l, h>>) /\ End(p, <<s, l, h>>) <= s * S + S
    <3> SUFFICES ASSUME NEW s \in Nat, NEW l \in K, NEW h \in -1 .. v - 1
                 PROVE  /\ Begin(p, <<s, l, h>>) \in Nat /\ End(p, <<s, l, h>>) \in Nat
                        /\ s * S <= Begin(p, <<s, l, h>>) /\ End(p, <<s, l, h>>) <= s * S + S
      OBVIOUS
    <3>1. PICK a \in 0 .. count - 1 : a = Cardinality(Below(K, l))
      BY <2>9
    <3>2. PICK x, i : x = Offset(a, count, c, w, e, h) /\ i = Extent(c, e, h)
      OBVIOUS
    <3>3. x \in Nat /\ x + i <= S
      BY <2>2, <2>5, <2>7, <3>2, PartInSlot
    <3>4. i \in Nat
      BY <2>5, <3>2 DEF Extent
    <3>5. PICK base \in Nat : base = s * S
      BY <2>8
    <3>6. Begin(p, <<s, l, h>>) = base + x /\ End(p, <<s, l, h>>) = base + x + i
      BY <2>6, <3>1, <3>2, <3>5
    <3> QED BY <2>8, <3>3, <3>4, <3>5, <3>6
  <2>12. ASSUME NEW s \in 0 .. slots - 1, NEW l \in K, NEW h \in -1 .. v - 1
         PROVE  End(p, <<s, l, h>>) <= slots * S
    <3>1. s * S + S <= slots * S
      BY <2>8, NextRow
    <3>2. s * S + S \in Nat /\ slots * S \in Nat /\ s \in Nat
      BY <2>8
    <3> QED BY <2>11, <3>1, <3>2
  <2>13. ASSUME NEW s \in 0 .. slots - 1, NEW l \in K, NEW h \in -1 .. v - 1,
                NEW t \in 0 .. slots - 1, NEW o \in K, NEW g \in -1 .. v - 1, s < t
         PROVE  End(p, <<s, l, h>>) <= Begin(p, <<t, o, g>>)
    <3>1. s * S + S <= t * S
      BY <2>8, <2>13, NextRow
    <3>2. s * S + S \in Nat /\ t * S \in Nat /\ s \in Nat /\ t \in Nat
      BY <2>8
    <3>3. End(p, <<s, l, h>>) \in Nat /\ End(p, <<s, l, h>>) <= s * S + S
      BY <2>11, <3>2
    <3>4. Begin(p, <<t, o, g>>) \in Nat /\ t * S <= Begin(p, <<t, o, g>>)
      BY <2>11, <3>2
    <3> QED BY <3>1, <3>2, <3>3, <3>4
  <2>14. ASSUME NEW s \in 0 .. slots - 1, NEW l \in K, NEW h \in -1 .. v - 1,
                NEW o \in K, NEW g \in -1 .. v - 1, l # o \/ h # g
         PROVE  \/ End(p, <<s, l, h>>) <= Begin(p, <<s, o, g>>)
                \/ End(p, <<s, o, g>>) <= Begin(p, <<s, l, h>>)
    <3>1. PICK a \in 0 .. count - 1, b \in 0 .. count - 1 :
             a = Cardinality(Below(K, l)) /\ b = Cardinality(Below(K, o))
      BY <2>9
    <3>2. a # b \/ h # g
      BY <2>10, <2>14, <3>1
    <3>3. PICK x, y, i, j : /\ x = Offset(a, count, c, w, e, h) /\ y = Offset(b, count, c, w, e, g)
                            /\ i = Extent(c, e, h) /\ j = Extent(c, e, g)
      OBVIOUS
    <3>4. x + i <= y \/ y + j <= x
      BY <2>2, <2>5, <2>7, <3>2, <3>3, PartsApart
    <3>5. x \in Nat /\ y \in Nat
      BY <2>2, <2>5, <2>7, <3>3, PartInSlot
    <3>6. i \in Nat /\ j \in Nat
      BY <2>5, <3>3 DEF Extent
    <3>7. PICK base \in Nat : base = s * S
      BY <2>8
    <3>8. /\ Begin(p, <<s, l, h>>) = base + x /\ End(p, <<s, l, h>>) = base + x + i
          /\ Begin(p, <<s, o, g>>) = base + y /\ End(p, <<s, o, g>>) = base + y + j
      BY <2>6, <3>1, <3>3, <3>7
    <3> QED BY <3>4, <3>5, <3>6, <3>7, <3>8
  <2>15. ASSUME NEW r \in Regions(p, slots)
         PROVE  /\ End(p, r) <= slots * S
                /\ \A q \in Regions(p, slots) \ {r} : End(p, r) <= Begin(p, q) \/ End(p,
                        q) <= Begin(p, r)
    <3>1. PICK s \in 0 .. slots - 1, l \in K, h \in -1 .. v - 1 : r = <<s, l, h>>
      BY <2>1 DEF Regions
    <3>2. ASSUME NEW q \in Regions(p, slots) \ {r}
          PROVE  End(p, r) <= Begin(p, q) \/ End(p, q) <= Begin(p, r)
      <4>1. PICK t \in 0 .. slots - 1, o \in K, g \in -1 .. v - 1 : q = <<t, o, g>>
        BY <2>1, <3>2 DEF Regions
      <4>2. s < t \/ t < s \/ (s = t /\ (l # o \/ h # g))
        BY <3>1, <3>2, <4>1
      <4> QED BY <2>13, <2>14, <3>1, <4>1, <4>2
    <3> QED BY <2>12, <3>1, <3>2
  <2> HIDE <2>2
  <2> QED BY <1>1, <2>1, <2>15 DEF StatesApart
<1> QED BY <1>2, <1>3

-----------------------------------------------------------------------------
(* Recursions over the indices of a sequence.                               *)

\* The partial sums and the partial products, as the definitions have them.
Sums(n, sizes) ==
    {u \in [0 .. n -> Nat] :
        \A i \in 0 .. n : u[i] = IF i = 0 THEN 0 ELSE u[i - 1] + sizes[i]}
ProductsUpTo(n, dims) ==
    {u \in [0 .. n -> Nat] :
        \A i \in 0 .. n : u[i] = IF i = 0 THEN 1 ELSE u[i - 1] * dims[i]}

\* The sum of sizes is the last of their partial sums.
LEMMA TotalIs ==
  ASSUME NEW n \in Nat, NEW sizes \in [1 .. n -> Nat]
  PROVE  \E u \in Sums(n, sizes) : Gguf!Total(sizes) = u[n]
<1> DEFINE Walk(u) == u = [i \in 0 .. n |-> IF i = 0 THEN 0 ELSE u[i - 1] + sizes[i]]
           g == [p \in (1 .. n) \X Nat |-> p[2] + sizes[p[1]]]
<1>1. \A i \in 1 .. n : sizes[i] \in Nat
  OBVIOUS
<1>2. g \in Steps(n, Nat)
  BY <1>1 DEF Steps
<1>3. PICK f : f \in Walks(n, Nat, 0, g)
  <2> HIDE DEF g
  <2> QED BY <1>2, RecursionExists
<1>4. f \in [0 .. n -> Nat] /\ f[0] = 0 /\ \A i \in 1 .. n : f[i] = g[<<i, f[i - 1]>>]
  BY <1>3 DEF Walks
<1>5. ASSUME NEW i \in 0 .. n
      PROVE  f[i] = IF i = 0 THEN 0 ELSE f[i - 1] + sizes[i]
  <2>1. CASE i = 0
    BY <1>4, <2>1
  <2>2. CASE i # 0
    <3>1. i \in 1 .. n /\ i - 1 \in 0 .. n /\ f[i - 1] \in Nat
      BY <1>4, <2>2
    <3> QED BY <1>4, <2>2, <3>1
  <2> QED BY <2>1, <2>2
<1>6. f = [i \in 0 .. n |-> f[i]]
  BY <1>4
<1>7. Walk(f)
  BY <1>5, <1>6
<1> DEFINE u == CHOOSE w : Walk(w)
<1>8. Walk(u)
  BY <1>7
<1>9. sizes \in Seq(Nat) /\ Len(sizes) = n
  OBVIOUS
<1>10. Gguf!Total(sizes) = u[n]
  BY <1>9 DEF Gguf!Total
<1> HIDE DEF u
<1>11. \A i \in 0 .. n : u[i] = IF i = 0 THEN 0 ELSE u[i - 1] + sizes[i]
  BY <1>8
<1> DEFINE S == {i \in 0 .. n : u[i] \in Nat}
<1>12. \A i \in 0 .. n : i \in S
  <2>1. 0 \in S
    BY <1>11
  <2>2. ASSUME NEW i \in 1 .. n, i - 1 \in S PROVE i \in S
    <3>1. i \in 0 .. n /\ i # 0 /\ u[i - 1] \in Nat
      BY <2>2
    <3> QED BY <1>1, <1>11, <3>1
  <2> HIDE DEF S
  <2> QED BY <2>1, <2>2, UpTo
<1>13. u \in [0 .. n -> Nat]
  BY <1>8, <1>12
<1> QED BY <1>10, <1>11, <1>13 DEF Sums

\* The number of elements is the last of the products of the first dimensions.
LEMMA ElementsAre ==
  ASSUME NEW n \in Nat, NEW dims \in [1 .. n -> Nat]
  PROVE  \E u \in ProductsUpTo(n, dims) : Gguf!ElementCount(dims) = u[n]
<1> DEFINE Walk(u) == u = [i \in 0 .. n |-> IF i = 0 THEN 1 ELSE u[i - 1] * dims[i]]
           g == [p \in (1 .. n) \X Nat |-> p[2] * dims[p[1]]]
<1>1. \A i \in 1 .. n : dims[i] \in Nat
  OBVIOUS
<1>2. g \in Steps(n, Nat)
  BY <1>1 DEF Steps
<1>3. PICK f : f \in Walks(n, Nat, 1, g)
  <2> HIDE DEF g
  <2> QED BY <1>2, RecursionExists
<1>4. f \in [0 .. n -> Nat] /\ f[0] = 1 /\ \A i \in 1 .. n : f[i] = g[<<i, f[i - 1]>>]
  BY <1>3 DEF Walks
<1>5. ASSUME NEW i \in 0 .. n
      PROVE  f[i] = IF i = 0 THEN 1 ELSE f[i - 1] * dims[i]
  <2>1. CASE i = 0
    BY <1>4, <2>1
  <2>2. CASE i # 0
    <3>1. i \in 1 .. n /\ i - 1 \in 0 .. n /\ f[i - 1] \in Nat
      BY <1>4, <2>2
    <3> QED BY <1>4, <2>2, <3>1
  <2> QED BY <2>1, <2>2
<1>6. f = [i \in 0 .. n |-> f[i]]
  BY <1>4
<1>7. Walk(f)
  BY <1>5, <1>6
<1> DEFINE u == CHOOSE w : Walk(w)
<1>8. Walk(u)
  BY <1>7
<1>9. dims \in Seq(Nat) /\ Len(dims) = n
  OBVIOUS
<1>10. Gguf!ElementCount(dims) = u[n]
  BY <1>9 DEF Gguf!ElementCount
<1> HIDE DEF u
<1>11. \A i \in 0 .. n : u[i] = IF i = 0 THEN 1 ELSE u[i - 1] * dims[i]
  BY <1>8
<1> DEFINE S == {i \in 0 .. n : u[i] \in Nat}
<1>12. \A i \in 0 .. n : i \in S
  <2>1. 0 \in S
    BY <1>11
  <2>2. ASSUME NEW i \in 1 .. n, i - 1 \in S PROVE i \in S
    <3>1. i \in 0 .. n /\ i # 0 /\ u[i - 1] \in Nat
      BY <2>2
    <3>2. u[i - 1] * dims[i] \in Nat
      BY <1>1, <3>1
    <3> QED BY <1>11, <3>1, <3>2
  <2> HIDE DEF S
  <2> QED BY <2>1, <2>2, UpTo
<1>13. u \in [0 .. n -> Nat]
  BY <1>8, <1>12
<1> QED BY <1>10, <1>11, <1>13 DEF ProductsUpTo

\* Partial sums grow.
LEMMA SumsGrow ==
  ASSUME NEW n \in Nat, NEW sizes \in [1 .. n -> Nat], NEW u \in Sums(n, sizes),
         NEW i \in 0 .. n, NEW j \in i .. n
  PROVE  u[i] <= u[j]
<1>1. u \in [0 .. n -> Nat] /\ \A k \in 1 .. n : u[k] = u[k - 1] + sizes[k]
  <2>1. u \in [0 .. n -> Nat] /\ \A k \in 0 .. n : u[k] = IF k = 0 THEN 0 ELSE u[k - 1] + sizes[k]
    BY Zenon DEF Sums
  <2>2. ASSUME NEW k \in 1 .. n PROVE u[k] = u[k - 1] + sizes[k]
    <3>1. k \in 0 .. n /\ k # 0
      BY <2>2
    <3> QED BY <2>1, <3>1
  <2> QED BY <2>1, <2>2
<1> DEFINE S == {k \in 0 .. n : k >= i => u[i] <= u[k]}
<1>2. 0 \in S
  BY <1>1
<1>3. ASSUME NEW k \in 1 .. n, k - 1 \in S PROVE k \in S
  <2>1. u[k] \in Nat /\ u[k - 1] \in Nat /\ sizes[k] \in Nat /\ u[k] = u[k - 1] + sizes[k]
          /\ u[i] \in Nat
    BY <1>1
  <2> QED BY <1>3, <2>1
<1> HIDE DEF S
<1>4. \A k \in 0 .. n : k \in S
  BY <1>2, <1>3, UpTo
<1> QED BY <1>4 DEF S

\* The sum of the first sizes is their partial sum.
LEMMA SumOfSome ==
  ASSUME NEW n \in Nat, NEW sizes \in [1 .. n -> Nat], NEW u \in Sums(n, sizes), NEW m \in 0 .. n
  PROVE  Gguf!Total([i \in 1 .. m |-> sizes[i]]) = u[m]
<1> DEFINE some == [i \in 1 .. m |-> sizes[i]]
<1>1. some \in [1 .. m -> Nat] /\ m \in Nat
  OBVIOUS
<1>2. PICK w \in Sums(m, some) : Gguf!Total(some) = w[m]
  <2> HIDE DEF some
  <2> QED BY <1>1, TotalIs
<1>3. \A i \in 1 .. m : some[i] = sizes[i]
  OBVIOUS
<1> HIDE DEF some
<1> DEFINE S == {k \in 0 .. m : w[k] = u[k]}
<1>4. 0 \in S
  BY <1>1, <1>2 DEF Sums
<1>5. ASSUME NEW k \in 1 .. m, k - 1 \in S PROVE k \in S
  <2>1. k \in 0 .. m /\ k \in 0 .. n /\ k # 0 /\ k \in 1 .. n
    OBVIOUS
  <2>2. w[k] = w[k - 1] + some[k] /\ u[k] = u[k - 1] + sizes[k]
    BY <1>2, <2>1 DEF Sums
  <2> QED BY <1>3, <1>5, <2>1, <2>2
<1> HIDE DEF S
<1>6. \A k \in 0 .. m : k \in S
  BY <1>1, <1>4, <1>5, UpTo
<1>7. w[m] = u[m]
  BY <1>1, <1>6 DEF S
<1> QED BY <1>2, <1>7 DEF some

-----------------------------------------------------------------------------
(* The directory of a file.                                                 *)

\* The sizes of scalars and of values.
LEMMA ScalarIs ==
  ASSUME NEW type \in Gguf!Scalars
  PROVE  Gguf!ScalarBytes(type) \in Nat
<1>1. type \in {"U8", "I8", "Bool", "U16", "I16", "U32", "I32", "F32", "U64", "I64", "F64"}
  BY DEF Gguf!Scalars, Gguf!Integral
<1> QED BY <1>1 DEF Gguf!ScalarBytes

\* A value of any type.
LEMMA ValueIs ==
  ASSUME NEW v, Gguf!IsValue(v)
  PROVE  Gguf!ValueBytes(v) \in Nat
<1>1. CASE v.type = "String"
  BY <1>1 DEF Gguf!IsValue, Gguf!ValueBytes, Gguf!StringBytes
<1>2. CASE v.type = "Strings"
  <2> DEFINE sizes == [i \in DOMAIN v.value |-> Gguf!StringBytes(v.value[i])]
             n == Len(v.value)
  <2>1. n \in Nat /\ DOMAIN v.value = 1 .. n /\ \A i \in DOMAIN v.value : Len(v.value[i]) \in Nat
    BY <1>2 DEF Gguf!IsValue
  <2>2. sizes \in [1 .. n -> Nat]
    BY <2>1 DEF Gguf!StringBytes
  <2>3. Gguf!Total(sizes) \in Nat
    <3> HIDE DEF sizes, n
    <3>1. PICK u \in Sums(n, sizes) : Gguf!Total(sizes) = u[n]
      BY <2>1, <2>2, TotalIs
    <3> QED BY <2>1, <3>1 DEF Sums
  <2>4. Gguf!ValueBytes(v) = 12 + Gguf!Total(sizes)
    BY <1>2 DEF Gguf!ValueBytes
  <2> HIDE DEF sizes
  <2> QED BY <2>3, <2>4
<1>3. CASE v.type = "Array"
  <2>1. v.count \in Nat /\ Gguf!ScalarBytes(v.element) \in Nat
    BY <1>3, ScalarIs DEF Gguf!IsValue
  <2>2. v.count * Gguf!ScalarBytes(v.element) \in Nat
    BY <2>1
  <2>3. Gguf!ValueBytes(v) = 12 + v.count * Gguf!ScalarBytes(v.element)
    BY <1>3 DEF Gguf!ValueBytes
  <2> QED BY <2>2, <2>3
<1>4. CASE v.type \notin {"String", "Strings", "Array"}
  <2>1. v.type \in Gguf!Scalars
    BY <1>4 DEF Gguf!IsValue
  <2>2. Gguf!ValueBytes(v) = Gguf!ScalarBytes(v.type)
    BY <1>4 DEF Gguf!ValueBytes
  <2> QED BY <2>1, <2>2, ScalarIs
<1> QED BY <1>1, <1>2, <1>3, <1>4

\* Where the entries end, and the directory.
LEMMA EntriesAre ==
  ASSUME NEW file, Gguf!IsFile(file)
  PROVE  LET n == Len(file.kv)
             sizes == [i \in 1 .. n |-> Gguf!EntryBytes(file.kv[i])]
         IN /\ n \in Nat /\ DOMAIN file.kv = 1 .. n /\ sizes \in [1 .. n -> Nat]
            /\ \E u \in Sums(n, sizes) : \A m \in 0 .. n : Gguf!EntriesEnd(file, m) = 24 + u[m]
<1> DEFINE n == Len(file.kv)
           sizes == [i \in 1 .. n |-> Gguf!EntryBytes(file.kv[i])]
<1>1. n \in Nat /\ DOMAIN file.kv = 1 .. n /\ \A i \in 1 .. n : Gguf!IsEntry(file.kv[i])
  BY DEF Gguf!IsFile
<1>2. ASSUME NEW i \in 1 .. n PROVE Gguf!EntryBytes(file.kv[i]) \in Nat
  <2>1. Len(file.kv[i].key) \in Nat /\ Gguf!ValueBytes(file.kv[i].value) \in Nat
    BY <1>1, ValueIs DEF Gguf!IsEntry
  <2> QED BY <2>1 DEF Gguf!EntryBytes, Gguf!StringBytes
<1>3. sizes \in [1 .. n -> Nat]
  BY <1>2
<1>4. PICK u \in Sums(n, sizes) : Gguf!Total(sizes) = u[n]
  <2> HIDE DEF sizes, n
  <2> QED BY <1>1, <1>3, TotalIs
<1>5. ASSUME NEW m \in 0 .. n PROVE Gguf!EntriesEnd(file, m) = 24 + u[m]
  <2>1. [i \in 1 .. m |-> Gguf!EntryBytes(file.kv[i])] = [i \in 1 .. m |-> sizes[i]]
    OBVIOUS
  <2>2. Gguf!EntriesEnd(file, m) = 24 + Gguf!Total([i \in 1 .. m |-> sizes[i]])
    BY <2>1 DEF Gguf!EntriesEnd
  <2> HIDE DEF sizes, n
  <2>3. Gguf!Total([i \in 1 .. m |-> sizes[i]]) = u[m]
    BY <1>1, <1>3, SumOfSome
  <2> QED BY <2>2, <2>3
<1> QED BY <1>1, <1>3, <1>5

\* The directory ends no sooner than its entries do, and the data lies beyond.
LEMMA DirectoryIs ==
  ASSUME NEW file, Gguf!IsFile(file)
  PROVE  /\ Gguf!DirectoryEnd(file) \in Nat
         /\ Gguf!EntriesEnd(file, Len(file.kv)) \in Nat
         /\ Gguf!EntriesEnd(file, Len(file.kv)) <= Gguf!DirectoryEnd(file)
<1> DEFINE m == Len(file.tensors)
           sizes == [i \in DOMAIN file.tensors |-> Gguf!InfoBytes(file.tensors[i])]
<1>1. m \in Nat /\ DOMAIN file.tensors = 1 .. m /\ \A i \in 1 .. m : Gguf!IsInfo(file.tensors[i])
  BY DEF Gguf!IsFile
<1>2. ASSUME NEW i \in 1 .. m PROVE Gguf!InfoBytes(file.tensors[i]) \in Nat
  <2>1. PICK info : info = file.tensors[i]
    OBVIOUS
  <2>2. Len(info.name) \in Nat /\ info.dims \in Seq(Nat)
    BY <1>1, <2>1 DEF Gguf!IsInfo
  <2>3. Len(info.dims) \in Nat
    BY <2>2
  <2>4. Gguf!InfoBytes(info) = (8 + Len(info.name)) + 4 + 8 * Len(info.dims) + 4 + 8
    BY DEF Gguf!InfoBytes, Gguf!StringBytes
  <2>5. PICK l, k : l = Len(info.name) /\ k = Len(info.dims)
    OBVIOUS
  <2>6. l \in Nat /\ k \in Nat
    BY <2>2, <2>3, <2>5
  <2>7. (8 + l) + 4 + 8 * k + 4 + 8 \in Nat
    BY <2>6
  <2> QED BY <2>1, <2>4, <2>5, <2>7
<1>3. sizes \in [1 .. m -> Nat]
  BY <1>1, <1>2
<1>4. Gguf!Total(sizes) \in Nat
  <2> HIDE DEF sizes, m
  <2>1. PICK u \in Sums(m, sizes) : Gguf!Total(sizes) = u[m]
    BY <1>1, <1>3, TotalIs
  <2> QED BY <1>1, <2>1 DEF Sums
<1>5. Gguf!EntriesEnd(file, Len(file.kv)) \in Nat
  <2> DEFINE n == Len(file.kv)
             entries == [i \in 1 .. n |-> Gguf!EntryBytes(file.kv[i])]
  <2>1. n \in Nat
          /\ \E u \in Sums(n, entries) : \A k \in 0 .. n : Gguf!EntriesEnd(file, k) = 24 + u[k]
    BY EntriesAre
  <2> HIDE DEF entries, n
  <2>2. PICK u \in Sums(n, entries) : \A k \in 0 .. n : Gguf!EntriesEnd(file, k) = 24 + u[k]
    BY <2>1
  <2>3. Gguf!EntriesEnd(file, n) \in Nat
    BY <2>1, <2>2 DEF Sums
  <2> QED BY <2>3 DEF n
<1>6. Gguf!DirectoryEnd(file) = Gguf!EntriesEnd(file, Len(file.kv)) + Gguf!Total(sizes)
  BY DEF Gguf!DirectoryEnd
<1> HIDE DEF sizes
<1> QED BY <1>4, <1>5, <1>6

\* The last entry of a key.
LEMMA EntryIs ==
  ASSUME NEW file, Gguf!IsFile(file), NEW key
  PROVE  /\ Gguf!EntryOf(file, key) \in 0 .. Len(file.kv)
         /\ Gguf!EntryOf(file, key) # 0 => file.kv[Gguf!EntryOf(file, key)].key = key
         /\ (\E i \in DOMAIN file.kv : file.kv[i].key = key) => Gguf!EntryOf(file, key) # 0
<1> DEFINE U == {i \in DOMAIN file.kv : file.kv[i].key = key} \cup {0}
           n == Len(file.kv)
<1>1. n \in Nat /\ DOMAIN file.kv = 1 .. n
  BY DEF Gguf!IsFile
<1>2. U \subseteq 0 .. n /\ 0 \in U
  BY <1>1
<1>3. PICK m \in U : \A x \in U : x <= m
  <2> DEFINE V == {n - x : x \in U}
  <2> HIDE DEF U
  <2>1. V \in SUBSET Nat /\ V # {}
    <3>1. \A x \in U : n - x \in Nat
      BY <1>1, <1>2
    <3> QED BY <1>2, <3>1
  <2>2. PICK v \in V : \A y \in V : v <= y
    <3> HIDE DEF V
    <3> QED BY <2>1, LeastElement
  <2>3. PICK m \in U : v = n - m
    BY <2>2
  <2>4. ASSUME NEW x \in U PROVE x <= m
    <3>1. n - m <= n - x
      BY <2>2, <2>3
    <3>2. x \in Nat /\ m \in Nat
      BY <1>2
    <3> QED BY <1>1, <3>1, <3>2
  <2> QED BY <2>4
<1>4. Gguf!EntryOf(file, key) = Gguf!Max(U)
  BY DEF Gguf!EntryOf
<1>5. Gguf!Max(U) \in U /\ \A x \in U : Gguf!Max(U) >= x
  <2>1. \A x \in U : m >= x
    <3> HIDE DEF U
    <3>1. \A x \in U : x \in Int
      BY <1>2
    <3> QED BY <1>3, <3>1
  <2> HIDE DEF U
  <2> QED BY <2>1 DEF Gguf!Max
<1>6. ASSUME NEW i \in DOMAIN file.kv, file.kv[i].key = key PROVE Gguf!Max(U) # 0
  <2>1. i \in U /\ i \in 1 .. n
    BY <1>1, <1>6
  <2> HIDE DEF U
  <2> QED BY <1>2, <1>5, <2>1
<1>7. Gguf!Max(U) \in 0 .. n
  <2> HIDE DEF U
  <2> QED BY <1>2, <1>5
<1>8. Gguf!Max(U) # 0 => file.kv[Gguf!Max(U)].key = key
  BY <1>5
<1> HIDE DEF U
<1> QED BY <1>4, <1>6, <1>7, <1>8

\* The elements of every array lie in the file.
LEMMA ArraysLieInside ==
  ASSUME NEW file, Gguf!IsFile(file), Gguf!Loads(file), NEW entry \in Range(file.kv)
  PROVE  ArrayInside(file, entry.key)
<1> DEFINE n == Len(file.kv)
           sizes == [i \in 1 .. n |-> Gguf!EntryBytes(file.kv[i])]
<1>1. PICK key, e : key = entry.key /\ e = Gguf!EntryOf(file, key)
  OBVIOUS
<1>2. n \in Nat /\ DOMAIN file.kv = 1 .. n /\ sizes \in [1 .. n -> Nat]
  BY EntriesAre
<1>3. PICK u \in Sums(n, sizes) : \A m \in 0 .. n : Gguf!EntriesEnd(file, m) = 24 + u[m]
  BY EntriesAre
<1>4. e \in 1 .. n /\ file.kv[e].key = key
  <2>1. \E i \in DOMAIN file.kv : file.kv[i].key = key
    BY <1>1 DEF Range
  <2> QED BY <1>1, <1>2, <2>1, EntryIs
<1>5. PICK v : v = file.kv[e].value
  OBVIOUS
<1>6. SUFFICES ASSUME v.type = "Array"
               PROVE  Gguf!ArrayBegin(file,
                       key) + v.count * Gguf!ScalarBytes(v.element) <= file.size
  BY <1>1, <1>5 DEF ArrayInside
<1>7. Gguf!IsEntry(file.kv[e])
  BY <1>2, <1>4 DEF Gguf!IsFile
<1>8. PICK bytes, head : bytes = v.count * Gguf!ScalarBytes(v.element)
        /\ head = Gguf!StringBytes(key)
  OBVIOUS
<1>9. bytes \in Nat /\ head \in Nat
  <2>1. v.count \in Nat /\ v.element \in Gguf!Scalars
    BY <1>5, <1>6, <1>7 DEF Gguf!IsEntry, Gguf!IsValue
  <2>2. Gguf!ScalarBytes(v.element) \in Nat
    BY <2>1, ScalarIs
  <2>3. bytes \in Nat
    BY <1>8, <2>1, <2>2
  <2>4. Len(key) \in Nat
    BY <1>4, <1>7 DEF Gguf!IsEntry
  <2> QED BY <1>8, <2>3, <2>4 DEF Gguf!StringBytes
<1>10. sizes[e] = head + 4 + (12 + bytes)
  BY <1>4, <1>5, <1>6, <1>8 DEF Gguf!EntryBytes, Gguf!ValueBytes
<1> HIDE DEF sizes
<1>11. u[e] = u[e - 1] + sizes[e] /\ u[e] <= u[n] /\ u[e] \in Nat /\ u[e - 1] \in Nat
        /\ u[n] \in Nat
  <2>1. e \in 0 .. n /\ e - 1 \in 0 .. n /\ n \in e .. n /\ n \in 0 .. n /\ e # 0
    BY <1>2, <1>4
  <2>2. u[e] <= u[n]
    <3> HIDE DEF n
    <3> QED BY <1>2, <1>3, <2>1, SumsGrow
  <2> QED BY <1>3, <2>1, <2>2 DEF Sums
<1>12. Gguf!EntriesEnd(file, e - 1) = 24 + u[e - 1] /\ Gguf!EntriesEnd(file, n) = 24 + u[n]
  BY <1>2, <1>3, <1>4
<1>13. Gguf!ArrayBegin(file, key) = 24 + u[e - 1] + head + 4 + 12
  BY <1>1, <1>8, <1>12 DEF Gguf!ArrayBegin
<1>14. 24 + u[n] <= Gguf!DirectoryEnd(file) /\ Gguf!DirectoryEnd(file) \in Nat
  BY <1>12, DirectoryIs
<1>15. Gguf!DirectoryEnd(file) <= file.size /\ file.size \in Nat
  BY DEF Gguf!Loads, Gguf!IsFile
<1> HIDE DEF n
<1>16. 24 + u[e - 1] + head + 4 + 12 + bytes = 24 + u[e]
  BY <1>9, <1>10, <1>11
<1>17. 24 + u[e] <= file.size
  BY <1>11, <1>14, <1>15
<1> QED BY <1>8, <1>13, <1>16, <1>17

-----------------------------------------------------------------------------
(* The height of a weight.                                                    *)

\* Where the data begins.
LEMMA DataIs ==
  ASSUME NEW file, Gguf!IsFile(file)
  PROVE  Gguf!DataBase(file) \in Nat
<1>1. Gguf!GetUint(file, "general.alignment") \in Int
  <2> DEFINE e == Gguf!EntryOf(file, "general.alignment")
  <2>1. CASE e = 0
    BY <2>1 DEF Gguf!GetUint, Gguf!None
  <2>2. CASE e # 0
    <3>1. e \in DOMAIN file.kv
      <4>1. e \in 0 .. Len(file.kv)
        BY EntryIs
      <4>2. Len(file.kv) \in Nat /\ DOMAIN file.kv = 1 .. Len(file.kv)
        BY EntriesAre
      <4> HIDE DEF e
      <4> QED BY <2>2, <4>1, <4>2
    <3>2. PICK v : v = file.kv[e].value
      OBVIOUS
    <3>3. Gguf!IsValue(v)
      BY <3>1, <3>2 DEF Gguf!IsFile, Gguf!IsEntry
    <3>4. v.type \in Gguf!Integral => v.value \in Int
      BY <3>3 DEF Gguf!IsValue, Gguf!Integral
    <3>5. Gguf!GetUint(file, "general.alignment")
             = IF v.type \in Gguf!Integral /\ v.value >= 0 THEN v.value ELSE Gguf!None
      BY <2>2, <3>2 DEF Gguf!GetUint
    <3> QED BY <3>4, <3>5 DEF Gguf!None
  <2> QED BY <2>1, <2>2
<1>2. Gguf!Alignment(file) \in Nat \ {0}
  BY <1>1 DEF Gguf!Alignment
<1>3. PICK a \in Nat \ {0}, at \in Nat : a = Gguf!Alignment(file) /\ at = Gguf!DirectoryEnd(file)
  BY <1>2, DirectoryIs
<1>4. at + a - 1 \in Nat
  BY <1>3
<1>5. PICK q \in Nat : (at + a - 1) \div a = q
  BY <1>4, Divided
<1>6. q * a \in Nat
  OBVIOUS
<1> QED BY <1>3, <1>5, <1>6 DEF Gguf!DataBase, Gguf!AlignUp

\* The types that are read have blocks.
LEMMA PackingIs ==
  ASSUME NEW dtype \in Gguf!RowTypes
  PROVE  Gguf!BlockSize(dtype) \in Nat \ {0} /\ Gguf!BytesPerBlock(dtype) \in Nat \ {0}
<1>1. dtype \in {"F32", "BF16", "Q4_1", "Q5_0", "Q8_0", "Q4_K", "Q5_K", "Q6_K", "PQ2_0", "F16",
        "Q2_0"}
  BY DEF Gguf!RowTypes, Gguf!MatvecTypes
<1>2. CASE dtype = "F32"
  <2>1. Gguf!Packing(dtype) = <<1, 4>>
    BY <1>2 DEF Gguf!Packing
  <2> QED BY <2>1 DEF Gguf!BlockSize, Gguf!BytesPerBlock
<1>3. CASE dtype = "BF16"
  <2>1. Gguf!Packing(dtype) = <<1, 2>>
    BY <1>3 DEF Gguf!Packing
  <2> QED BY <2>1 DEF Gguf!BlockSize, Gguf!BytesPerBlock
<1>4. CASE dtype = "Q4_1"
  <2>1. Gguf!Packing(dtype) = <<32, 20>>
    BY <1>4 DEF Gguf!Packing
  <2> QED BY <2>1 DEF Gguf!BlockSize, Gguf!BytesPerBlock
<1>5. CASE dtype = "Q5_0"
  <2>1. Gguf!Packing(dtype) = <<32, 22>>
    BY <1>5 DEF Gguf!Packing
  <2> QED BY <2>1 DEF Gguf!BlockSize, Gguf!BytesPerBlock
<1>6. CASE dtype = "Q8_0"
  <2>1. Gguf!Packing(dtype) = <<32, 34>>
    BY <1>6 DEF Gguf!Packing
  <2> QED BY <2>1 DEF Gguf!BlockSize, Gguf!BytesPerBlock
<1>7. CASE dtype = "Q4_K"
  <2>1. Gguf!Packing(dtype) = <<256, 144>>
    BY <1>7 DEF Gguf!Packing
  <2> QED BY <2>1 DEF Gguf!BlockSize, Gguf!BytesPerBlock
<1>8. CASE dtype = "Q5_K"
  <2>1. Gguf!Packing(dtype) = <<256, 176>>
    BY <1>8 DEF Gguf!Packing
  <2> QED BY <2>1 DEF Gguf!BlockSize, Gguf!BytesPerBlock
<1>9. CASE dtype = "Q6_K"
  <2>1. Gguf!Packing(dtype) = <<256, 210>>
    BY <1>9 DEF Gguf!Packing
  <2> QED BY <2>1 DEF Gguf!BlockSize, Gguf!BytesPerBlock
<1>10. CASE dtype = "PQ2_0"
  <2>1. Gguf!Packing(dtype) = <<128, 34>>
    BY <1>10 DEF Gguf!Packing
  <2> QED BY <2>1 DEF Gguf!BlockSize, Gguf!BytesPerBlock
<1>11. CASE dtype = "F16"
  <2>1. Gguf!Packing(dtype) = <<1, 2>>
    BY <1>11 DEF Gguf!Packing
  <2> QED BY <2>1 DEF Gguf!BlockSize, Gguf!BytesPerBlock
<1>12. CASE dtype = "Q2_0"
  <2>1. Gguf!Packing(dtype) = <<64, 18>>
    BY <1>12 DEF Gguf!Packing
  <2> QED BY <2>1 DEF Gguf!BlockSize, Gguf!BytesPerBlock
<1> QED BY <1>1, <1>2, <1>3, <1>4, <1>5, <1>6, <1>7, <1>8, <1>9, <1>10, <1>11, <1>12

\* How many elements a tensor of one, two or three dimensions has.
LEMMA ElementsOf ==
  ASSUME NEW a \in Nat, NEW b \in Nat, NEW c \in Nat
  PROVE  /\ Gguf!ElementCount(<<a>>) = a /\ Gguf!ElementCount(<<a, b>>) = a * b
         /\ Gguf!ElementCount(<<a, b, c>>) = a * b * c
<1>1. Gguf!ElementCount(<<a>>) = a
  <2>1. PICK dims : dims = <<a>>
    OBVIOUS
  <2>2. dims \in [1 .. 1 -> Nat] /\ dims[1] = a
    BY <2>1
  <2>3. PICK u \in ProductsUpTo(1, dims) : Gguf!ElementCount(dims) = u[1]
    BY <2>2, ElementsAre
  <2>4. u[0] = 1 /\ u[1] = u[0] * dims[1]
    BY <2>3 DEF ProductsUpTo
  <2> QED BY <2>1, <2>2, <2>3, <2>4
<1>2. Gguf!ElementCount(<<a, b>>) = a * b
  <2>1. PICK dims : dims = <<a, b>>
    OBVIOUS
  <2>2. dims \in [1 .. 2 -> Nat] /\ dims[1] = a /\ dims[2] = b
    BY <2>1
  <2>3. PICK u \in ProductsUpTo(2, dims) : Gguf!ElementCount(dims) = u[2]
    BY <2>2, ElementsAre
  <2>4. u[0] = 1 /\ u[1] = u[0] * dims[1] /\ u[2] = u[1] * dims[2]
    BY <2>3 DEF ProductsUpTo
  <2>5. u[1] = a
    BY <2>2, <2>4
  <2> QED BY <2>1, <2>2, <2>3, <2>4, <2>5
<1>3. Gguf!ElementCount(<<a, b, c>>) = a * b * c
  <2>1. PICK dims : dims = <<a, b, c>>
    OBVIOUS
  <2>2. dims \in [1 .. 3 -> Nat] /\ dims[1] = a /\ dims[2] = b /\ dims[3] = c
    BY <2>1
  <2>3. PICK u \in ProductsUpTo(3, dims) : Gguf!ElementCount(dims) = u[3]
    BY <2>2, ElementsAre
  <2>4. u[0] = 1 /\ u[1] = u[0] * dims[1] /\ u[2] = u[1] * dims[2] /\ u[3] = u[2] * dims[3]
    BY <2>3 DEF ProductsUpTo
  <2>5. u[1] = a /\ u[2] = a * b
    BY <2>2, <2>4
  <2> QED BY <2>1, <2>2, <2>3, <2>4, <2>5
<1> QED BY <1>1, <1>2, <1>3

\* A number of whole blocks.
LEMMA WholeBlocks ==
  ASSUME NEW x \in Nat \ {0}, NEW k \in Nat \ {0}, x % k = 0
  PROVE  \E q \in Nat \ {0} : x = q * k /\ x \div k = q
<1>1. PICK q \in Nat, r \in 0 .. k - 1 : x = q * k + r /\ x \div k = q /\ x % k = r
  BY Divided
<1>2. x = q * k
  BY <1>1
<1>3. q # 0
  BY <1>2
<1> QED BY <1>1, <1>2, <1>3

\* Products of positive numbers.
LEMMA Positive ==
  ASSUME NEW a \in Nat \ {0}, NEW b \in Nat \ {0}
  PROVE  a * b \in Nat \ {0}
<1>1. 1 * b <= a * b
  BY MulMono
<1> QED BY <1>1

\* What is known of a weight that is read: it is a tensor of its shape, none of
\* whose dimensions is 0, and that tensor lies in the file if it has a size.
Found(file, info, w, height, cols, experts) ==
    /\ w.rows = height /\ w.cols = cols /\ w.dtype = info.dtype
    /\ Gguf!DataBase(file) \in Nat /\ info.offset \in Nat
    /\ w.data = Gguf!DataBase(file) + info.offset
    /\ w.stride = IF experts = 0 THEN 0 ELSE Gguf!MatrixBytes(w.dtype, height, cols)
    /\ info.dims = Gguf!Shape(height, cols, experts)
    /\ height # 0
    /\ experts > 0 => /\ Gguf!MatrixBytes(w.dtype, height, cols) # 0
                      /\ Gguf!MatrixBytes(w.dtype, height,
                              cols) * experts = Gguf!TensorBytes(info.dtype, info.dims)
    /\ Gguf!TensorBytes(info.dtype, info.dims) # 0 =>
          w.data + Gguf!TensorBytes(info.dtype, info.dims) <= file.size

\* It is known of every weight resolve or resolve_experts finds.
LEMMA WeightIs ==
  ASSUME NEW file, Gguf!IsFile(file), Gguf!Loads(file), NEW name, NEW height \in Nat,
         NEW cols \in Nat,
         NEW experts \in Nat, Gguf!Resolves(file, name, height, cols, experts),
         NEW w, w = Gguf!Weight(file, name, height, cols, experts),
         NEW info, info = file.tensors[Gguf!TensorNamed(file, name)], w.dtype \in Gguf!RowTypes
  PROVE  Found(file, info, w, height, cols, experts)
<1>1. PICK i : i = Gguf!TensorNamed(file, name)
  OBVIOUS
<1>2. i \in DOMAIN file.tensors
  <2> DEFINE named == {k \in DOMAIN file.tensors : file.tensors[k].name = name}
  <2>1. i # 0
    BY <1>1 DEF Gguf!Resolves
  <2>2. named # {} /\ i = Gguf!Min(named)
    BY <1>1, <2>1 DEF Gguf!TensorNamed
  <2>3. named \in SUBSET Nat
    BY DEF Gguf!IsFile
  <2>4. PICK m \in named : \A k \in named : m <= k
    <3> HIDE DEF named
    <3> QED BY <2>2, <2>3, LeastElement
  <2>5. Gguf!Min(named) \in named
    <3> HIDE DEF named
    <3> QED BY <2>4 DEF Gguf!Min
  <2> QED BY <2>2, <2>5
<1>3. /\ w.rows = height /\ w.cols = cols /\ w.dtype = info.dtype
      /\ w.data = Gguf!DataBase(file) + info.offset
      /\ w.stride = IF experts = 0 THEN 0 ELSE Gguf!MatrixBytes(w.dtype, height, cols)
  BY DEF Gguf!Weight
<1>4. Gguf!DataBase(file) \in Nat
  BY DataIs
<1>5. Gguf!IsInfo(info)
  BY <1>1, <1>2 DEF Gguf!IsFile
<1>6. info.offset \in Nat
  BY <1>5 DEF Gguf!IsInfo
<1>7. info.dims = Gguf!Shape(height, cols, experts)
  BY DEF Gguf!Resolves
<1>8. experts > 0 => /\ Gguf!MatrixBytes(w.dtype, height, cols) # 0
                    /\ Gguf!MatrixBytes(w.dtype, height,
                            cols) * experts = Gguf!TensorBytes(info.dtype, info.dims)
  BY <1>3 DEF Gguf!Resolves
<1>9. 0 \notin Gguf!Range(info.dims) /\ Gguf!FitsInFile(file, info)
  BY <1>1, <1>2 DEF Gguf!Loads
<1>10. Gguf!TensorBytes(info.dtype, info.dims) # 0 =>
          w.data + Gguf!TensorBytes(info.dtype, info.dims) <= file.size
  BY <1>3, <1>9 DEF Gguf!FitsInFile
<1>11. height # 0
  <2>1. \A k \in DOMAIN info.dims : info.dims[k] # 0
    BY <1>9 DEF Gguf!Range
  <2>2. CASE cols = 0
    <3>1. info.dims = <<height>>
      BY <1>7, <2>2 DEF Gguf!Shape
    <3>2. 1 \in DOMAIN info.dims /\ info.dims[1] = height
      BY <3>1
    <3> QED BY <2>1, <3>2
  <2>3. CASE cols # 0 /\ experts = 0
    <3>1. info.dims = <<cols, height>>
      BY <1>7, <2>3 DEF Gguf!Shape
    <3>2. 2 \in DOMAIN info.dims /\ info.dims[2] = height
      BY <3>1
    <3> QED BY <2>1, <3>2
  <2>4. CASE cols # 0 /\ experts # 0
    <3>1. info.dims = <<cols, height, experts>>
      BY <1>7, <2>4 DEF Gguf!Shape
    <3>2. 2 \in DOMAIN info.dims /\ info.dims[2] = height
      BY <3>1
    <3> QED BY <2>1, <3>2
  <2> QED BY <2>2, <2>3, <2>4
<1> QED BY <1>3, <1>4, <1>6, <1>7, <1>8, <1>10, <1>11 DEF Found

\* A vector is its tensor.
LEMMA VectorInside ==
  ASSUME NEW file, Gguf!IsFile(file), NEW info, NEW w, NEW height \in Nat, NEW experts \in Nat,
         Found(file, info, w, height, 0, experts), w.dtype \in Gguf!RowTypes,
         height % Gguf!BlockSize(w.dtype) = 0
  PROVE  InTensor(file, info, w, Gguf!VectorSpan(w))
<1>1. PICK k \in Nat \ {0}, b \in Nat \ {0} : k = Gguf!BlockSize(w.dtype)
        /\ b = Gguf!BytesPerBlock(w.dtype)
  BY PackingIs
<1>2. PICK q \in Nat \ {0} : height = q * k /\ height \div k = q
  <2>1. height \in Nat \ {0} /\ height % k = 0
    BY <1>1 DEF Found
  <2> QED BY <2>1, WholeBlocks
<1>3. Gguf!ElementCount(info.dims) = height
  BY ElementsOf DEF Found, Gguf!Shape
<1>4. Gguf!TensorBytes(info.dtype, info.dims) = q * b
  BY <1>1, <1>2, <1>3 DEF Gguf!TensorBytes, Found
<1>5. q * b \in Nat \ {0}
  BY Positive
<1>6. Gguf!VectorSpan(w) = <<w.data, w.data + q * b>>
  BY <1>1, <1>2 DEF Gguf!VectorSpan, Found
<1>7. PICK base \in Nat, offset \in Nat : base = Gguf!DataBase(file) /\ w.data = base + offset
  BY DEF Found
<1>8. w.data + q * b <= file.size
  BY <1>4, <1>5 DEF Found
<1>9. PICK t \in Nat \ {0} : t = q * b
  BY <1>5
<1> QED BY <1>4, <1>6, <1>7, <1>8, <1>9 DEF InTensor

\* The height of a matrix, or of a stack of matrices: experts of stride bytes, each
\* with its height of row bytes.
RowAt(stride, row, r) == r[1] * stride + r[2] * row

\* The rows lie in their matrices, apart from each other.
LEMMA RowsInMatrices ==
  ASSUME NEW height \in Nat, NEW experts \in Nat \ {0}, NEW row \in Nat, NEW stride \in Nat,
         height * row <= stride,
         NEW r \in (0 .. experts - 1) \X (0 .. height - 1)
  PROVE  /\ RowAt(stride, row, r) \in Nat
         /\ RowAt(stride, row, r) + row <= experts * stride
         /\ \A o \in ((0 .. experts - 1) \X (0 .. height - 1)) \ {r} :
               \/ RowAt(stride, row, r) + row <= RowAt(stride, row, o)
               \/ RowAt(stride, row, o) + row <= RowAt(stride, row, r)
<1>1. ASSUME NEW e \in 0 .. experts - 1, NEW i \in 0 .. height - 1
      PROVE  /\ e * stride \in Nat /\ i * row \in Nat
             /\ i * row + row <= stride
             /\ e * stride + stride <= experts * stride
  <2>1. e * stride + stride <= experts * stride
    BY NextRow
  <2>2. i * row + row <= height * row
    BY NextRow
  <2>3. height * row \in Nat /\ e * stride \in Nat /\ i * row \in Nat /\ experts * stride \in Nat
    OBVIOUS
  <2> QED BY <2>1, <2>2, <2>3
<1>2. ASSUME NEW e \in 0 .. experts - 1, NEW i \in 0 .. height - 1,
             NEW f \in 0 .. experts - 1, NEW j \in 0 .. height - 1, e < f \/ (e = f /\ i < j)
      PROVE  RowAt(stride, row, <<e, i>>) + row <= RowAt(stride, row, <<f, j>>)
  <2>1. PICK x, y, u, v : x = e * stride /\ y = f * stride /\ u = i * row /\ v = j * row
    OBVIOUS
  <2>2. x \in Nat /\ y \in Nat /\ u \in Nat /\ v \in Nat /\ u + row <= stride
    BY <1>1, <2>1
  <2>3. RowAt(stride, row, <<e, i>>) = x + u /\ RowAt(stride, row, <<f, j>>) = y + v
    BY <2>1 DEF RowAt
  <2>4. CASE e < f
    <3>1. x + stride <= y
      BY <2>1, <2>4, NextRow
    <3> QED BY <2>2, <2>3, <3>1
  <2>5. CASE e = f /\ i < j
    <3>1. u + row <= v
      BY <2>1, <2>5, NextRow
    <3> QED BY <2>1, <2>2, <2>3, <2>5, <3>1
  <2> QED BY <1>2, <2>4, <2>5
<1>3. PICK e \in 0 .. experts - 1, i \in 0 .. height - 1 : r = <<e, i>>
  OBVIOUS
<1>4. RowAt(stride, row, r) \in Nat /\ RowAt(stride, row, r) + row <= experts * stride
  <2>1. PICK x, u, all : x = e * stride /\ u = i * row /\ all = experts * stride
    OBVIOUS
  <2>2. x \in Nat /\ u \in Nat /\ all \in Nat /\ u + row <= stride /\ x + stride <= all
    <3>1. experts * stride \in Nat
      OBVIOUS
    <3> QED BY <1>1, <2>1, <3>1
  <2>3. RowAt(stride, row, r) = x + u
    BY <1>3, <2>1 DEF RowAt
  <2> QED BY <2>1, <2>2, <2>3
<1>5. ASSUME NEW o \in ((0 .. experts - 1) \X (0 .. height - 1)) \ {r}
      PROVE  \/ RowAt(stride, row, r) + row <= RowAt(stride, row, o)
             \/ RowAt(stride, row, o) + row <= RowAt(stride, row, r)
  <2>1. PICK f \in 0 .. experts - 1, j \in 0 .. height - 1 : o = <<f, j>>
    OBVIOUS
  <2>2. e < f \/ f < e \/ (e = f /\ i < j) \/ (f = e /\ j < i)
    BY <1>3, <1>5, <2>1
  <2> QED BY <1>2, <1>3, <2>1, <2>2
<1> QED BY <1>4, <1>5

\* The blocks of a matrix whose height are of whole blocks.
Blocks(height, cols, k, q) ==
    /\ q \in Nat \ {0} /\ cols = q * k /\ cols \div k = q
    /\ Gguf!ElementCount(<<cols, height>>) % k = 0
    /\ Gguf!ElementCount(<<cols, height>>) \div k = q * height

\* The blocks of a matrix whose rows are of whole blocks.
LEMMA MatrixBlocks ==
  ASSUME NEW height, height \in Nat \ {0}, NEW cols, cols \in Nat \ {0}, NEW k, k \in Nat \ {0},
         cols % k = 0
  PROVE  \E q : Blocks(height, cols, k, q)
<1>1. PICK q \in Nat \ {0} : cols = q * k /\ cols \div k = q
  BY WholeBlocks
<1>2. PICK x : x = Gguf!ElementCount(<<cols, height>>)
  OBVIOUS
<1>3. x = cols * height
  BY <1>2, ElementsOf
<1>4. PICK blocks \in Nat : blocks = q * height
  OBVIOUS
<1>5. cols * height = (q * height) * k
  BY <1>1
<1>6. x = blocks * k + 0 /\ 0 \in 0 .. k - 1
  BY <1>3, <1>4, <1>5
<1>7. x % k = 0 /\ x \div k = blocks
  BY <1>6, DividedOnce
<1> QED BY <1>1, <1>2, <1>4, <1>7 DEF Blocks

ExpertRows(height, experts) ==
    (0 .. (IF experts = 0 THEN 0 ELSE experts - 1)) \X (0 .. height - 1)

\* A matrix with whole blocks in its rows has a size, and so has every stack.
LEMMA SizedByRows ==
  ASSUME NEW file, NEW info, NEW w, NEW height \in Nat, NEW cols \in Nat \ {0},
         NEW experts \in Nat, Found(file, info, w, height, cols, experts),
         w.dtype \in Gguf!RowTypes, cols % Gguf!BlockSize(w.dtype) = 0
  PROVE  Gguf!TensorBytes(info.dtype, info.dims) # 0
<1>1. PICK k \in Nat \ {0}, b \in Nat \ {0} : k = Gguf!BlockSize(w.dtype)
        /\ b = Gguf!BytesPerBlock(w.dtype)
  BY PackingIs
<1>2. height \in Nat \ {0} /\ info.dtype = w.dtype
  BY DEF Found
<1>3. PICK q : Blocks(height, cols, k, q)
  <2>1. height \in Nat \ {0} /\ cols \in Nat \ {0} /\ k \in Nat \ {0} /\ cols % k = 0
    BY <1>1, <1>2
  <2> QED BY <2>1, MatrixBlocks, Zenon
<1>4. q \in Nat \ {0}
  BY <1>3 DEF Blocks
<1>5. PICK blocks \in Nat \ {0} : blocks = q * height
  BY <1>2, <1>4, Positive
<1>6. PICK bytes \in Nat \ {0} : bytes = blocks * b
  BY Positive
<1>7. CASE experts = 0
  <2>1. info.dims = <<cols, height>>
    BY <1>7 DEF Found, Gguf!Shape
  <2>2. Gguf!TensorBytes(info.dtype, info.dims) = blocks * b
    BY <1>1, <1>2, <1>3, <1>5, <2>1 DEF Gguf!TensorBytes, Blocks
  <2> QED BY <1>6, <2>2
<1>8. CASE experts # 0
  <2>1. PICK matrix : matrix = Gguf!MatrixBytes(w.dtype, height, cols)
    OBVIOUS
  <2>2. matrix = height * q * b
    BY <1>1, <1>3, <2>1 DEF Gguf!MatrixBytes, Blocks
  <2>3. height * q \in Nat \ {0}
    BY <1>2, <1>4, Positive
  <2>4. matrix \in Nat \ {0}
    BY <2>2, <2>3, Positive
  <2>5. experts \in Nat \ {0} /\ Gguf!TensorBytes(info.dtype, info.dims) = matrix * experts
    BY <1>8, <2>1 DEF Found
  <2> QED BY <2>4, <2>5, Positive
<1> QED BY <1>7, <1>8

\* Whole blocks of a row fit into those of its matrix.
LEMMA RowsInBlocks ==
  ASSUME NEW height \in Nat, NEW cols \in Nat, NEW k \in Nat \ {0}, NEW b \in Nat,
         (cols * height) % k = 0
  PROVE  /\ cols \div k \in Nat
         /\ height * ((cols \div k) * b) <= ((cols * height) \div k) * b
<1>1. PICK q \in Nat, r \in 0 .. k - 1 : cols = q * k + r /\ cols \div k = q /\ cols % k = r
  BY Divided
<1>2. PICK all \in Nat : all = cols * height
  OBVIOUS
<1>3. PICK n \in Nat, z \in 0 .. k - 1 : all = n * k + z /\ all \div k = n /\ all % k = z
  BY Divided
<1>4. all = n * k
  BY <1>2, <1>3
<1>5. PICK m \in Nat : m = q * height
  OBVIOUS
<1>6. m * k <= all
  <2>1. q * k \in Nat /\ q * k <= cols
    BY <1>1
  <2>2. (q * k) * height <= cols * height
    BY <2>1, MulMono
  <2>3. (q * k) * height = (q * height) * k
    OBVIOUS
  <2> QED BY <1>2, <1>5, <2>2, <2>3
<1>7. m <= n
  <2> SUFFICES ASSUME n + 1 <= m PROVE FALSE
    OBVIOUS
  <2>1. (n + 1) * k <= m * k
    BY MulMono
  <2>2. (n + 1) * k = n * k + k /\ n * k \in Nat /\ m * k \in Nat
    OBVIOUS
  <2> QED BY <1>4, <1>6, <2>1, <2>2
<1>8. m * b <= n * b
  BY <1>7, MulMono
<1>9. height * (q * b) = m * b
  <2>1. height * (q * b) = (q * height) * b
    OBVIOUS
  <2> QED BY <1>5, <2>1
<1> QED BY <1>1, <1>2, <1>3, <1>8, <1>9

\* Every row of a matrix, or of each matrix of a stack, lies in a tensor that has
\* a size, and apart from the others.
LEMMA RowsInside ==
  ASSUME NEW file, Gguf!IsFile(file), NEW info, NEW w, NEW height \in Nat, NEW cols \in Nat \ {0},
         NEW experts \in Nat, Found(file, info, w, height, cols, experts),
         w.dtype \in Gguf!RowTypes, Sized(info)
  PROVE  \A r \in ExpertRows(height, experts) :
            /\ InTensor(file, info, w, Gguf!RowSpan(w, r[1], r[2]))
            /\ \A o \in ExpertRows(height, experts) \ {r} :
                  Apart(Gguf!RowSpan(w, r[1], r[2]), Gguf!RowSpan(w, o[1], o[2]))
<1>1. PICK k \in Nat \ {0}, b \in Nat \ {0} : k = Gguf!BlockSize(w.dtype)
        /\ b = Gguf!BytesPerBlock(w.dtype)
  BY PackingIs
<1>2. PICK q \in Nat : q = cols \div k
  BY Divided
<1>3. PICK row \in Nat : row = q * b
  OBVIOUS
<1>4. Gguf!RowBytes(w) = row
  BY <1>1, <1>2, <1>3 DEF Gguf!RowBytes, Found
<1>5. height \in Nat \ {0} /\ w.rows = height /\ info.dtype = w.dtype
  BY DEF Found
<1>8. PICK n \in Nat \ {0} : n = IF experts = 0 THEN 1 ELSE experts
  OBVIOUS
<1>9. PICK size : size = Gguf!TensorBytes(info.dtype, info.dims)
  OBVIOUS
<1>10. PICK stride \in Nat : /\ stride = IF experts = 0 THEN size ELSE w.stride
                             /\ height * row <= stride /\ size = n * stride /\ size # 0
  <2>1. size # 0
    BY <1>9 DEF Sized
  <2>2. CASE experts = 0
    <3>1. info.dims = <<cols, height>>
      BY <2>2 DEF Found, Gguf!Shape
    <3>2. PICK all \in Nat : all = Gguf!ElementCount(info.dims) /\ all = cols * height
      <4>1. cols * height \in Nat
        OBVIOUS
      <4>2. Gguf!ElementCount(<<cols, height>>) = cols * height
        BY ElementsOf
      <4> QED BY <3>1, <4>1, <4>2
    <3>3. all % k = 0 /\ size = (all \div k) * b
      BY <1>1, <1>5, <1>9, <2>1, <3>2 DEF Gguf!TensorBytes
    <3>4. all \div k \in Nat
      BY <3>2, Divided
    <3>5. height * row <= size
      BY <1>2, <1>3, <3>2, <3>3, RowsInBlocks
    <3>6. size \in Nat
      BY <3>3, <3>4
    <3> QED BY <1>8, <2>1, <2>2, <3>5, <3>6
  <2>3. CASE experts # 0
    <3>1. PICK matrix : matrix = Gguf!MatrixBytes(w.dtype, height, cols)
      OBVIOUS
    <3>2. matrix # 0 /\ matrix * experts = size /\ w.stride = matrix
      BY <1>9, <2>3, <3>1 DEF Found
    <3>3. matrix = height * q * b
      BY <1>1, <1>2, <3>1, <3>2 DEF Gguf!MatrixBytes
    <3>4. height * q * b = height * (q * b) /\ height * (q * b) \in Nat
      OBVIOUS
    <3>5. matrix \in Nat /\ height * row = matrix
      BY <1>3, <3>3, <3>4
    <3>6. matrix * experts = experts * matrix
      BY <3>5
    <3> QED BY <1>8, <2>1, <2>3, <3>2, <3>5, <3>6
  <2> QED BY <2>2, <2>3
<1>11. PICK all : all = ExpertRows(height, experts) /\ all = (0 .. n - 1) \X (0 .. height - 1)
  <2>1. (IF experts = 0 THEN 0 ELSE experts - 1) = n - 1
    BY <1>8
  <2> QED BY <2>1 DEF ExpertRows
<1>12. size \in Nat
  BY <1>10
<1>13. ASSUME NEW o \in all
       PROVE  Gguf!RowSpan(w, o[1], o[2]) = <<w.data + RowAt(stride, row, o),
               w.data + RowAt(stride, row, o) + row>>
  <2>1. PICK e \in 0 .. n - 1, i \in 0 .. height - 1 : o = <<e, i>>
    BY <1>11
  <2>2. e * w.stride = e * stride
    <3>1. CASE experts = 0
      BY <1>8, <1>10, <3>1 DEF Found
    <3>2. CASE experts # 0
      BY <1>10, <3>2
    <3> QED BY <3>1, <3>2
  <2>3. Gguf!RowSpan(w, e, i) = <<w.data + e * stride + i * row,
          w.data + e * stride + i * row + row>>
    BY <1>4, <2>2 DEF Gguf!RowSpan
  <2>4. w.data \in Nat
    BY DEF Found
  <2>5. e * stride \in Nat /\ i * row \in Nat
    OBVIOUS
  <2>6. w.data + e * stride + i * row = w.data + (e * stride + i * row)
    BY <2>4, <2>5
  <2> QED BY <2>1, <2>3, <2>6 DEF RowAt
<1>14. PICK base \in Nat, offset \in Nat, data \in Nat :
          base = Gguf!DataBase(file) /\ data = w.data /\ data = base + offset
  <2>1. Gguf!DataBase(file) \in Nat /\ info.offset \in Nat
          /\ w.data = Gguf!DataBase(file) + info.offset
    BY DEF Found
  <2> QED BY <2>1
<1>15. data + size <= file.size
  BY <1>9, <1>10, <1>14 DEF Found
<1> SUFFICES ASSUME NEW r \in all
             PROVE  /\ InTensor(file, info, w, Gguf!RowSpan(w, r[1], r[2]))
                    /\ \A o \in all \ {r} :
                          Apart(Gguf!RowSpan(w, r[1], r[2]), Gguf!RowSpan(w, o[1], o[2]))
  BY <1>11
<1>16. r \in (0 .. n - 1) \X (0 .. height - 1)
  BY <1>11
<1>17. PICK at \in Nat : at = RowAt(stride, row, r) /\ at + row <= size
  <2>1. RowAt(stride, row, r) \in Nat
    BY <1>10, <1>16, RowsInMatrices
  <2>2. RowAt(stride, row, r) + row <= n * stride
    BY <1>10, <1>16, RowsInMatrices
  <2> QED BY <1>10, <2>1, <2>2
<1>18. InTensor(file, info, w, Gguf!RowSpan(w, r[1], r[2]))
  <2>1. Gguf!RowSpan(w, r[1], r[2]) = <<data + at, data + at + row>>
    BY <1>13, <1>14, <1>17
  <2>2. file.size \in Nat
    BY DEF Gguf!IsFile
  <2> QED BY <1>9, <1>12, <1>14, <1>15, <1>17, <2>1, <2>2 DEF InTensor
<1>19. ASSUME NEW o \in all \ {r} PROVE Apart(Gguf!RowSpan(w, r[1], r[2]), Gguf!RowSpan(w, o[1],
        o[2]))
  <2>1. o \in ((0 .. n - 1) \X (0 .. height - 1)) \ {r}
    BY <1>11
  <2>2. PICK to : to = RowAt(stride, row, o)
    OBVIOUS
  <2>3. at + row <= to \/ to + row <= at
    BY <1>5, <1>10, <1>16, <1>17, <2>1, <2>2, RowsInMatrices
  <2>4. to \in Nat
    BY <1>5, <1>10, <2>1, <2>2, RowsInMatrices
  <2>5. /\ Gguf!RowSpan(w, r[1], r[2]) = <<data + at, data + at + row>>
        /\ Gguf!RowSpan(w, o[1], o[2]) = <<data + to, data + to + row>>
    BY <1>13, <1>14, <1>17, <2>2
  <2> QED BY <1>14, <1>17, <2>3, <2>4, <2>5 DEF Apart
<1> QED BY <1>18, <1>19

\* Whatever is read of a weight that is found in a file that loads is in the file.
LEMMA WeightsLieInside ==
  ASSUME NEW file, Gguf!IsFile(file), Gguf!Loads(file), NEW name, NEW height \in Nat,
         NEW cols \in Nat,
         NEW experts \in Nat, Gguf!Resolves(file, name, height, cols, experts)
  PROVE  ReadInside(file, name, height, cols, experts)
<1>1. PICK w, info : /\ w = Gguf!Weight(file, name, height, cols, experts)
                     /\ info = file.tensors[Gguf!TensorNamed(file, name)]
  OBVIOUS
<1>2. w.dtype \in Gguf!RowTypes => Found(file, info, w, height, cols, experts)
  BY <1>1, WeightIs
<1>3. CASE cols = 0
  <2>1. Gguf!Dequantises(w) => InTensor(file, info, w, Gguf!VectorSpan(w))
    <3>1. SUFFICES ASSUME Gguf!Dequantises(w) PROVE InTensor(file, info, w, Gguf!VectorSpan(w))
      OBVIOUS
    <3>2. w.dtype \in Gguf!RowTypes
      BY <3>1 DEF Gguf!Dequantises
    <3>3. Found(file, info, w, height, 0, experts)
      BY <1>2, <1>3, <3>2
    <3>4. height % Gguf!BlockSize(w.dtype) = 0
      BY <3>1, <3>3 DEF Gguf!Dequantises, Found
    <3> QED BY <3>2, <3>3, <3>4, VectorInside
  <2> QED BY <1>1, <1>3, <2>1 DEF ReadInside
<1>4. CASE cols # 0
  <2>1. PICK all : all = ExpertRows(height, experts)
    OBVIOUS
  <2>2. ASSUME NEW n \in {1, 4}, Gguf!Multiplies(w, n), n < 4 => Sized(info), NEW r \in all
        PROVE  /\ InTensor(file, info, w, Gguf!RowSpan(w, r[1], r[2]))
               /\ \A o \in all \ {r} : Apart(Gguf!RowSpan(w, r[1], r[2]), Gguf!RowSpan(w, o[1],
                       o[2]))
    <3>1. w.dtype \in Gguf!RowTypes
      BY <2>2 DEF Gguf!Multiplies, Gguf!RowTypes
    <3>2. cols \in Nat \ {0} /\ Found(file, info, w, height, cols, experts)
      BY <1>2, <1>4, <3>1
    <3>3. Sized(info)
      <4>1. CASE n = 4
        <5>1. cols % Gguf!BlockSize(w.dtype) = 0
          BY <2>2, <3>2, <4>1 DEF Gguf!Multiplies, Found
        <5> QED BY <3>1, <3>2, <5>1, SizedByRows DEF Sized
      <4> QED BY <2>2, <4>1
    <3> QED BY <2>1, <3>1, <3>2, <3>3, RowsInside
  <2> QED BY <1>1, <1>4, <2>1, <2>2 DEF ReadInside, ExpertRows
<1> QED BY <1>3, <1>4

-----------------------------------------------------------------------------
(* What an input can be.                                                    *)

InputOK ==
    /\ Is("plan") => IsLines(input.of)
    /\ Is("file") => /\ Gguf!IsFile(input.of.file)
                     /\ \A s \in input.of.shapes : s[2] \in Nat /\ s[3] \in Nat /\ s[4] \in Nat
    /\ Is("metadata") => /\ Arch!IsMetadata(input.of.md)
                         /\ input.of.batch \in Nat \ {0} /\ input.of.slots \in Nat

\* Every input is one of those the code can meet.
LEMMA InputsAreOK == InputsSpec => []InputOK
<1>1. InputsInit => InputOK
  BY DEF InputsInit, InputOK, Is
<1>2. InputOK /\ [InputsNext]_input => InputOK'
  <2> SUFFICES ASSUME InputOK, [InputsNext]_input PROVE InputOK'
    OBVIOUS
  <2>1. CASE UNCHANGED input
    BY <2>1 DEF InputOK, Is
  <2>2. ASSUME NEW of, PickPlan(of) PROVE InputOK'
    BY <2>2 DEF PickPlan, Pick, InputOK, Is
  <2>3. ASSUME NEW of, PickLogits(of) PROVE InputOK'
    BY <2>3 DEF PickLogits, Pick, InputOK, Is
  <2>4. ASSUME NEW of, PickFile(of) PROVE InputOK'
    BY <2>4 DEF PickFile, Pick, InputOK, Is
  <2>5. ASSUME NEW of, PickMetadata(of) PROVE InputOK'
    BY <2>5 DEF PickMetadata, Pick, InputOK, Is
  <2> QED BY <2>1, <2>2, <2>3, <2>4, <2>5 DEF InputsNext
<1> QED BY <1>1, <1>2, PTL DEF InputsSpec

\* For every metadata a model may come with, and every number of tokens and of
\* slots: what parse_arch_config accepts has buffers that block_forward stays
\* inside.
THEOREM ScratchHoldsHolds == InputsSpec => []ScratchHolds
<1>1. InputOK => ScratchHolds
  <2> SUFFICES ASSUME InputOK, Is("metadata"), Arch!Accepted(input.of.md) PROVE ScratchHolds
    BY DEF ScratchHolds
  <2>1. PICK md, B, slots, d, p : /\ md = input.of.md /\ B = input.of.batch
                                  /\ slots = input.of.slots
                                  /\ d = Arch!Dims(md) /\ p = Arch!Params(md)
    OBVIOUS
  <2>2. Arch!IsMetadata(md) /\ Arch!Accepted(md) /\ B \in Nat /\ slots \in Nat
    BY <2>1 DEF InputOK
  <2>3. DimsAre(d) /\ ParamsAre(d, p)
    BY <2>1, <2>2, DimsOf, ParamsOf
  <2>4. DeltaIs(p.delta)
    BY <2>1, <2>2, DeltaOf DEF Arch!Params
  <2>5. ASSUME NEW layer \in 0 .. d.n_layers - 1, NEW n \in 1 .. B PROVE PassFits(d, p, B, layer, n)
    <3>1. Passes(n, B)
      BY <2>2 DEF Passes
    <3>2. Fits(Arch!Reach(d, p, layer, n, d.n_ctx_train), Arch!Scratch(d, p, B))
      BY <2>3, <2>4, <3>1, ReachFits
    <3>3. Shaped(Arch!Products(d, p, layer), Arch!Weights(d, p, layer))
      BY <2>3, ProductsShaped
    <3> QED BY <3>2, <3>3 DEF PassFits, Fits, Shaped
  <2>6. 0 < d.n_kv_heads /\ d.n_kv_heads <= d.n_heads =>
           ((\A h \in 0 .. d.n_heads - 1 : Arch!KeyHeadOf(d, h) < d.n_kv_heads)
               <=> d.n_heads % d.n_kv_heads = 0)
    BY <2>3, KeyHeadsInside
  <2>7. p.rope_dim <= d.head_dim /\ p.rope_dim_swa <= d.head_dim
    BY <2>3 DEF ParamsAre
  <2>8. StatesApart(p, slots)
    BY <2>1, <2>2, StatesLieApart
  <2>9. HeadsGrouped(p.delta)
    BY <2>4, HeadsAreGrouped
  <2> QED BY <2>1, <2>5, <2>6, <2>7, <2>8, <2>9 DEF ScratchHolds
<1> QED BY <1>1, InputsAreOK, PTL



\* For every file that loads, of whatever length and with whatever directory:
\* the height read_row and the matvecs take of any weight that resolve or
\* resolve_experts finds, and the elements read_u8_array takes, are in the file.
THEOREM WeightsAreReadInsideHolds == InputsSpec => []WeightsAreReadInside
<1>0. InputOK => WeightsAreReadInside
  <2> SUFFICES ASSUME InputOK, Is("file"), Gguf!Loads(input.of.file) PROVE WeightsAreReadInside
    BY DEF WeightsAreReadInside
  <2>1. PICK file : file = input.of.file
    OBVIOUS
  <2>2. Gguf!IsFile(file) /\ Gguf!Loads(file)
    BY <2>1 DEF InputOK
  <2>3. \A entry \in Range(file.kv) : ArrayInside(file, entry.key)
    BY <2>2, ArraysLieInside
  <2>4. ASSUME NEW s \in input.of.shapes, Gguf!Resolves(file, s[1], s[2], s[3], s[4])
        PROVE  ReadInside(file, s[1], s[2], s[3], s[4])
    <3>1. s[2] \in Nat /\ s[3] \in Nat /\ s[4] \in Nat
      BY DEF InputOK
    <3> QED BY <2>2, <2>4, <3>1, WeightsLieInside
  <2> QED BY <2>1, <2>3, <2>4 DEF WeightsAreReadInside
<1> QED BY <1>0, InputsAreOK, PTL
=============================================================================
