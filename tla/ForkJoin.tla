------------------------------ MODULE ForkJoin ------------------------------
(***************************************************************************)
(* What ThreadPool::parallel_for promises each of its callers: "Splits      *)
(* [0, n) into contiguous chunks ... Blocks until all chunks complete"      *)
(* (thread_pool.hpp).  A caller hands over a set of chunks, somebody does   *)
(* each of them, and only then does the caller go on.  Who does a chunk,    *)
(* the queue and every lock are left out.                                   *)
(***************************************************************************)
EXTENDS Naturals

CONSTANTS Callers, ChunkIds

VARIABLES
    busy,   \* the caller is inside parallel_for
    todo    \* the chunks of its call whose work function has not returned

vars == <<busy, todo>>

TypeOK ==
    /\ busy \in [Callers -> BOOLEAN]
    /\ todo \in [Callers -> SUBSET ChunkIds]

Init ==
    /\ busy = [c \in Callers |-> FALSE]
    /\ todo = [c \in Callers |-> {}]

Start(c, K) ==
    /\ ~busy[c]
    /\ busy' = [busy EXCEPT ![c] = TRUE]
    /\ todo' = [todo EXCEPT ![c] = K]

DoChunk(c, k) ==
    /\ k \in todo[c]
    /\ todo' = [todo EXCEPT ![c] = @ \ {k}]
    /\ UNCHANGED busy

Finish(c) ==
    /\ busy[c]
    /\ todo[c] = {}
    /\ busy' = [busy EXCEPT ![c] = FALSE]
    /\ UNCHANGED todo

Next ==
    \E c \in Callers :
        \/ \E K \in SUBSET ChunkIds : Start(c, K)
        \/ \E k \in ChunkIds : DoChunk(c, k)
        \/ Finish(c)

Spec == Init /\ [][Next]_vars
=============================================================================
