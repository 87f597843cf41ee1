----------------------------- MODULE RowDispatch -----------------------------
(***************************************************************************)
(* One matrix product spread over the thread pool: matmul_dispatch_threaded *)
(* (weight_dispatch.cpp) and the *_threaded matvecs below it                *)
(* (matvec_threaded.cpp).  A product computes an M x nTok block of outputs; *)
(* the pool hands each work function a row range [begin, end).             *)
(*                                                                         *)
(* Two work functions exist and they read that range differently:          *)
(*   - the batched path loops  for (m = begin; m < end; ++m);              *)
(*   - the matvec path calls a kernel with  end - begin  rows, a size_t.   *)
(* The order in which the pool runs the chunks does not matter to the       *)
(* outputs, so they run here in index order; ThreadPool has the schedules.  *)
(***************************************************************************)
EXTENDS Chunking

CONSTANTS
    MaxWorkers,    \* pool sizes 1 .. MaxWorkers are explored
    MaxRows,       \* M ranges over 0 .. MaxRows
    TokenCounts,   \* batch widths explored
    SizeModulus    \* number of values of size_t, scaled down

ASSUME RowDispatchAssumption ==
    /\ MaxWorkers \in Nat \ {0}
    /\ MaxRows \in Nat
    /\ TokenCounts \subseteq Nat
    /\ SizeModulus \in Nat /\ SizeModulus > (MaxWorkers + 1) * (MaxRows + 1)

VARIABLES
    nw,        \* pool.size()
    rows,      \* M
    nTok,      \* n_tok
    tok,       \* token whose column is being computed (matvec path)
    next,      \* next chunk to run
    computed,  \* [token -> [row -> times computed]], rows of the output only
    outside    \* a row outside [0, M) of some column was computed

vars == <<nw, rows, nTok, tok, next, computed, outside>>

MinRowsPerWorker == 2
BatchCrossover == 4

\* Which work function the product uses.
Batched == nTok >= BatchCrossover

\* The columns one pass over the rows fills.
Columns == IF Batched THEN 0 .. nTok - 1 ELSE {tok}

\* dispatch_rows runs the whole range inline when the pool is too small for it.
Serial(m, w) == w <= 1 \/ m < w * MinRowsPerWorker

PassChunks == IF Serial(rows, nw) THEN 1 ELSE ChunkCount(rows, nw)

\* The rows a kernel touches when it is told how many rows it has.
BlockRows(b, e) == b .. (b + ((e - b) % SizeModulus) - 1)

RowsOfChunk(c) ==
    IF Serial(rows, nw) THEN 0 .. rows - 1
    ELSE LET b == ChunkBegin(rows, nw, c)
             e == ChunkEnd(rows, nw, c)
         IN IF Batched THEN b .. e - 1 ELSE BlockRows(b, e)

Init ==
    /\ nw \in 1 .. MaxWorkers
    /\ rows \in 0 .. MaxRows
    /\ nTok \in TokenCounts
    /\ tok = 0
    /\ next = 0
    /\ computed = [t \in 0 .. nTok - 1 |-> [m \in 0 .. rows - 1 |-> 0]]
    /\ outside = FALSE

\* matmul_dispatch_threaded returns at once when n_tok == 0 || M == 0.
Finished ==
    \/ nTok = 0
    \/ rows = 0
    \/ IF Batched THEN next = PassChunks ELSE tok = nTok

\* One work function call.  The last chunk of a matvec pass moves on to the
\* next token, whose pass starts again from row 0.
RunChunk ==
    /\ ~Finished
    /\ LET R == RowsOfChunk(next)
           last == next + 1 = PassChunks /\ ~Batched
       IN /\ computed' = [t \in DOMAIN computed |-> [m \in DOMAIN computed[t] |->
                            computed[t][m] + (IF t \in Columns /\ m \in R THEN 1 ELSE 0)]]
          /\ outside' = (outside \/ ~(R \subseteq 0 .. rows - 1))
          /\ next' = IF last THEN 0 ELSE next + 1
          /\ tok' = IF last THEN tok + 1 ELSE tok
    /\ UNCHANGED <<nw, rows, nTok>>

Return == Finished /\ UNCHANGED vars

Next == RunChunk \/ Return

Spec == Init /\ [][Next]_vars

------------------------------------------------------------------------------
\* Every element of the output is written exactly once by the time the
\* dispatch returns: no row is lost to the rounding of chunk_size and no row
\* belongs to two chunks (two workers would then write the same float).
EachRowOnce ==
    Finished => \A t \in DOMAIN computed : \A m \in DOMAIN computed[t] : computed[t][m] = 1

\* Every work function stays inside the rows of the matrix: "Splits [0, n) into
\* contiguous chunks ... work_fn receives [begin, end) for its chunk"
\* (thread_pool.hpp).  Past row M the kernel reads and writes beyond w and y.
RowsStayInside == ~outside

------------------------------------------------------------------------------
(* The inductive invariant.                                                 *)

TypeOK ==
    /\ nw \in 1 .. MaxWorkers /\ rows \in 0 .. MaxRows /\ nTok \in TokenCounts
    /\ tok \in 0 .. nTok /\ next \in 0 .. PassChunks
    /\ computed \in [0 .. nTok - 1 -> [0 .. rows - 1 -> Nat]]
    /\ outside \in BOOLEAN

\* A batched product has one pass; a matvec pass that is over has moved on.
PassInv == IF Batched THEN tok = 0 ELSE next < PassChunks /\ (tok = nTok => next = 0)

\* The pass of an earlier token, or a chunk of this one, has filled it.
Filled(t, m) ==
    t < tok \/ (t \in Columns /\ \E c \in 0 .. next - 1 : m \in RowsOfChunk(c))

(* What the chunks run so far have written is written once, all else not yet *)
(* (weight_dispatch.cpp 131-196).  Implies EachRowOnce, and is inductive.    *)
IndInv ==
    /\ TypeOK /\ PassInv
    /\ \A t \in 0 .. nTok - 1, m \in 0 .. rows - 1 :
          computed[t][m] = IF Filled(t, m) THEN 1 ELSE 0
==============================================================================
