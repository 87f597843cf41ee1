------------------------------ MODULE Chunking ------------------------------
(***************************************************************************)
(* How ThreadPool::parallel_for (thread_pool.cpp) splits [0, n) over nw     *)
(* workers and the calling thread.  Chunk 0 runs on the caller, chunks      *)
(* 1 .. ChunkCount - 1 become tasks.                                        *)
(***************************************************************************)
EXTENDS Integers

\* std::min, as the two conditional expressions of the code write it.
Least(a, b) == IF a < b THEN a ELSE b

\* chunks = (n < nw + 1) ? n : nw + 1
ChunkCount(n, nw) == Least(n, nw + 1)

\* Mutated: the division rounds down.
ChunkSizeRoundedDown(n, nw) == n \div ChunkCount(n, nw)

\* chunk_size = (n + chunks - 1) / chunks; only evaluated when n > 0.
ChunkSize(n, nw) == (n + ChunkCount(n, nw) - 1) \div ChunkCount(n, nw)

\* begin = c * chunk_size; nothing keeps it below n.
ChunkBegin(n, nw, c) == c * ChunkSize(n, nw)

\* end = min(begin + chunk_size, n)
ChunkEnd(n, nw, c) == Least(ChunkBegin(n, nw, c) + ChunkSize(n, nw), n)

\* The indices a work function that loops from begin to end visits.
ChunkRange(n, nw, c) == ChunkBegin(n, nw, c) .. (ChunkEnd(n, nw, c) - 1)

Chunks(n, nw) == 0 .. (ChunkCount(n, nw) - 1)

\* The chunks that are handed to the workers.
TaskChunks(n, nw) == 1 .. (ChunkCount(n, nw) - 1)
=============================================================================
