----------------------------- MODULE ThreadPool -----------------------------
(***************************************************************************)
(* The worker pool of src/src/runtime/thread_pool.cpp: a task queue, one    *)
(* condition variable for the workers, and for every parallel_for a heap-   *)
(* allocated DoneState (counter, mutex, condition variable) that the caller *)
(* and its task closures share.                                             *)
(*                                                                         *)
(* Locks are modelled by who can hold them across a step.  mtx_ is held     *)
(* across a step only by a worker that found nothing to do and has not yet  *)
(* gone to sleep ("dozing"); a DoneState's mutex only by the caller in the  *)
(* same place.  All other critical sections are one step that needs the     *)
(* mutex free.  The gap between testing a wait predicate and sleeping is    *)
(* where a notification can be lost, so it is a step of its own.            *)
(***************************************************************************)
EXTENDS Chunking, Sequences, FiniteSets

CONSTANTS
    NumWorkers,    \* workers_.size()
    Callers,       \* threads that call parallel_for
    Sizes,         \* the n of a call
    MaxCalls,      \* bound: calls each caller makes
    MaxSpurious    \* bound: spurious wake-ups of condition variables

ASSUME ThreadPoolAssumption ==
    /\ NumWorkers \in Nat \ {0}
    /\ Sizes \subseteq Nat
    /\ MaxCalls \in Nat
    /\ MaxSpurious \in Nat

Workers == 1 .. NumWorkers
ChunkIds == 0 .. NumWorkers

\* A call of parallel_for, and with it its DoneState: the caller's k-th one.
Call == Callers \X (1 .. MaxCalls)

\* A task closure: the call it belongs to and the chunk it captured.
Task == Call \X ChunkIds

VARIABLES
    tasks,      \* tasks_, front first
    stopping,   \* stopping_
    wpc,        \* where each worker is in worker_loop_
    cur,        \* the task each worker popped last, NoTask before the first
    cpc,        \* where each caller is in parallel_for
    callNo,     \* calls the caller has begun
    size,       \* n of each call
    remaining,  \* DoneState::remaining
    copies,     \* live shared_ptr copies of the DoneState: 0 is the caller's,
                \* c > 0 the one captured by the closure of chunk c
    ran,        \* how often the work function returned for each chunk
    opc,        \* where the pool's owner is in ~ThreadPool
    spurious    \* spurious wake-ups so far

vars == <<tasks, stopping, wpc, cur, cpc, callNo, size, remaining, copies, ran,
          opc, spurious>>

poolVars == <<tasks, stopping, opc>>
callVars == <<cpc, callNo, size>>

NoTask == <<>>

WorkerPC == {"ready", "dozing", "asleep", "work", "count", "signal", "drop", "exited"}
CallerPC == {"idle", "enqueue", "notify", "chunk0", "join", "dozing", "asleep", "returning"}
OwnerPC == {"alive", "notify", "join", "destroyed"}

TypeOK ==
    /\ tasks \in Seq(Task)
    /\ stopping \in BOOLEAN
    /\ wpc \in [Workers -> WorkerPC]
    /\ cur \in [Workers -> Task \cup {NoTask}]
    /\ cpc \in [Callers -> CallerPC]
    /\ callNo \in [Callers -> 0 .. MaxCalls]
    /\ size \in [Call -> Nat]
    /\ remaining \in [Call -> Nat]
    /\ copies \in [Call -> SUBSET ChunkIds]
    /\ ran \in [Call -> [ChunkIds -> Nat]]
    /\ opc \in OwnerPC
    /\ spurious \in Nat

Init ==
    /\ tasks = <<>>
    /\ stopping = FALSE
    /\ wpc = [w \in Workers |-> "ready"]
    /\ cur = [w \in Workers |-> NoTask]
    /\ cpc = [c \in Callers |-> "idle"]
    /\ callNo = [c \in Callers |-> 0]
    /\ size = [d \in Call |-> 0]
    /\ remaining = [d \in Call |-> 0]
    /\ copies = [d \in Call |-> {}]
    /\ ran = [d \in Call |-> [k \in ChunkIds |-> 0]]
    /\ opc = "alive"
    /\ spurious = 0

-----------------------------------------------------------------------------
(* Helpers.                                                                 *)

\* The call a caller is in, or made last.
CurrentCall(c) == <<c, callNo[c]>>

\* The call d is the one its caller is inside, or the last one it finished.
IsCurrent(d) == callNo[d[1]] = d[2]

\* parallel_for(d) has started / has returned.
Begun(d) == d[2] <= callNo[d[1]]
Active(d) == IsCurrent(d) /\ cpc[d[1]] # "idle"
Returned(d) == Begun(d) /\ ~Active(d)

\* Mutated: the critical section forgets its lock.
PoolMutexIgnored == TRUE

PoolMutexFree == \A w \in Workers : wpc[w] # "dozing"

\* Mutated: the last worker notifies without locking done->mtx.
DoneMutexIgnored(d) == TRUE

\* The caller keeps done->mtx from the test until it sleeps or leaves.
DoneMutexFree(d) == ~(IsCurrent(d) /\ cpc[d[1]] \in {"dozing", "returning"})

\* cv_task_.notify_all(): every sleeping worker goes back for the mutex.
WokenWorkers == [w \in Workers |-> IF wpc[w] = "asleep" THEN "ready" ELSE wpc[w]]

\* done->cv.notify_one(): only the call's own caller ever waits on it.
WakeCaller(d) ==
    cpc' = IF IsCurrent(d) /\ cpc[d[1]] = "asleep"
           THEN [cpc EXCEPT ![d[1]] = "join"]
           ELSE cpc

\* done->remaining.store(chunks - 1); a call without a DoneState counts nothing.
\* Mutated: the store is missing, or forgets that chunk 0 is not counted twice.
NothingRemaining(chunks) == 0
OneShortRemaining(chunks) == IF chunks <= 1 THEN 0 ELSE chunks - 2
InitialRemaining(chunks) == IF chunks = 0 THEN 0 ELSE chunks - 1

\* Every closure captures its own copy of the shared_ptr.
\* Mutated: the closures capture a reference to the caller's.
CapturedByReference(d) == {}
Captured(d) == TaskChunks(size[d], NumWorkers)

CurChunk(w) == cur[w][2]
CurCall(w) == cur[w][1]

-----------------------------------------------------------------------------
(* parallel_for.                                                            *)

\* n == 0 returns at once; a single chunk is run inline without a DoneState;
\* otherwise the DoneState is made and the caller goes for mtx_.
CallerBegins(c, n) ==
    LET d == <<c, callNo[c] + 1>>
        chunks == ChunkCount(n, NumWorkers)
    IN /\ cpc[c] = "idle"
       /\ opc = "alive"
       /\ callNo[c] < MaxCalls
       /\ callNo' = [callNo EXCEPT ![c] = @ + 1]
       /\ size' = [size EXCEPT ![d] = n]
       /\ cpc' = [cpc EXCEPT ![c] = IF chunks = 0 THEN "idle"
                                    ELSE IF chunks = 1 THEN "chunk0" ELSE "enqueue"]
       /\ remaining' = [remaining EXCEPT ![d] = InitialRemaining(chunks)]
       /\ copies' = [copies EXCEPT ![d] = IF chunks > 1 THEN {0} ELSE {}]
       /\ UNCHANGED <<tasks, stopping, wpc, cur, ran, opc, spurious>>

\* One task per chunk but the first, in order, under mtx_.
CallerEnqueues(c) ==
    LET d == CurrentCall(c)
        chunks == ChunkCount(size[d], NumWorkers)
    IN /\ cpc[c] = "enqueue"
       /\ PoolMutexFree
       /\ tasks' = tasks \o [i \in 1 .. chunks - 1 |-> <<d, i>>]
       /\ copies' = [copies EXCEPT ![d] = @ \cup Captured(d)]
       /\ cpc' = [cpc EXCEPT ![c] = "notify"]
       /\ UNCHANGED <<stopping, wpc, cur, callNo, size, remaining, ran, opc, spurious>>

CallerNotifies(c) ==
    /\ cpc[c] = "notify"
    /\ wpc' = WokenWorkers
    /\ cpc' = [cpc EXCEPT ![c] = "chunk0"]
    /\ UNCHANGED <<tasks, stopping, cur, callNo, size, remaining, copies, ran, opc, spurious>>

\* The caller runs chunk 0 itself; with no other chunk it has nothing to wait for.
CallerRunsChunk0(c) ==
    LET d == CurrentCall(c)
    IN /\ cpc[c] = "chunk0"
       /\ ran' = [ran EXCEPT ![d][0] = @ + 1]
       /\ cpc' = [cpc EXCEPT ![c] =
                    IF ChunkCount(size[d], NumWorkers) = 1 THEN "returning" ELSE "join"]
       /\ UNCHANGED <<tasks, stopping, wpc, cur, callNo, size, remaining, copies, opc, spurious>>

\* Lock done->mtx and test the wait predicate.  (The lock is free here: its
\* only other users hold it within one step.)
CallerJoins(c) ==
    /\ cpc[c] = "join"
    /\ cpc' = [cpc EXCEPT ![c] = IF remaining[CurrentCall(c)] = 0 THEN "returning" ELSE "dozing"]
    /\ UNCHANGED <<tasks, stopping, wpc, cur, callNo, size, remaining, copies, ran, opc, spurious>>

\* The wait proper: release done->mtx and sleep, atomically.
CallerSleeps(c) ==
    /\ cpc[c] = "dozing"
    /\ cpc' = [cpc EXCEPT ![c] = "asleep"]
    /\ UNCHANGED <<tasks, stopping, wpc, cur, callNo, size, remaining, copies, ran, opc, spurious>>

\* Leaving parallel_for destroys the caller's shared_ptr and ends the life of
\* work_fn, which the closures captured by reference.
CallerReturns(c) ==
    /\ cpc[c] = "returning"
    /\ cpc' = [cpc EXCEPT ![c] = "idle"]
    /\ copies' = [copies EXCEPT ![CurrentCall(c)] = @ \ {0}]
    /\ UNCHANGED <<tasks, stopping, wpc, cur, callNo, size, remaining, ran, opc, spurious>>

-----------------------------------------------------------------------------
(* worker_loop_.                                                            *)

\* Lock mtx_, test the predicate, and move the front task out.
WorkerPops(w) ==
    /\ wpc[w] = "ready"
    /\ PoolMutexFree
    /\ tasks # <<>>
    /\ cur' = [cur EXCEPT ![w] = Head(tasks)]
    /\ tasks' = Tail(tasks)
    /\ wpc' = [wpc EXCEPT ![w] = "work"]
    /\ UNCHANGED <<stopping, cpc, callNo, size, remaining, copies, ran, opc, spurious>>

\* Stopping and nothing left: the thread ends.  Tasks are drained first.
WorkerExits(w) ==
    /\ wpc[w] = "ready"
    /\ PoolMutexFree
    /\ stopping
    /\ tasks = <<>>
    /\ wpc' = [wpc EXCEPT ![w] = "exited"]
    /\ UNCHANGED <<tasks, stopping, cur, cpc, callNo, size, remaining, copies, ran, opc, spurious>>

\* The predicate is false; mtx_ stays locked until the worker sleeps.
WorkerDozes(w) ==
    /\ wpc[w] = "ready"
    /\ PoolMutexFree
    /\ ~stopping
    /\ tasks = <<>>
    /\ wpc' = [wpc EXCEPT ![w] = "dozing"]
    /\ UNCHANGED <<tasks, stopping, cur, cpc, callNo, size, remaining, copies, ran, opc, spurious>>

WorkerSleeps(w) ==
    /\ wpc[w] = "dozing"
    /\ wpc' = [wpc EXCEPT ![w] = "asleep"]
    /\ UNCHANGED <<tasks, stopping, cur, cpc, callNo, size, remaining, copies, ran, opc, spurious>>

WorkerRunsChunk(w) ==
    /\ wpc[w] = "work"
    /\ ran' = [ran EXCEPT ![CurCall(w)][CurChunk(w)] = @ + 1]
    /\ wpc' = [wpc EXCEPT ![w] = "count"]
    /\ UNCHANGED <<tasks, stopping, cur, cpc, callNo, size, remaining, copies, opc, spurious>>

\* remaining.fetch_sub(1) == 1 tells the last worker to notify.
WorkerCounts(w) ==
    /\ wpc[w] = "count"
    /\ remaining' = [remaining EXCEPT ![CurCall(w)] = @ - 1]
    /\ wpc' = [wpc EXCEPT ![w] = IF remaining[CurCall(w)] = 1 THEN "signal" ELSE "drop"]
    /\ UNCHANGED <<tasks, stopping, cur, cpc, callNo, size, copies, ran, opc, spurious>>

\* lock done->mtx; notify_one; unlock.  The caller may have left long ago.
WorkerSignals(w) ==
    /\ wpc[w] = "signal"
    /\ DoneMutexFree(CurCall(w))
    /\ WakeCaller(CurCall(w))
    /\ wpc' = [wpc EXCEPT ![w] = "drop"]
    /\ UNCHANGED <<tasks, stopping, cur, callNo, size, remaining, copies, ran, opc, spurious>>

\* Mutated: the task lives outside the loop and keeps its copy.
WorkerKeepsTask(w) ==
    /\ wpc[w] = "drop"
    /\ wpc' = [wpc EXCEPT ![w] = "ready"]
    /\ UNCHANGED <<tasks, stopping, cur, cpc, callNo, size, remaining, copies, ran, opc, spurious>>

\* The end of the loop body destroys the task and its shared_ptr copy.
WorkerDrops(w) ==
    /\ wpc[w] = "drop"
    /\ copies' = [copies EXCEPT ![CurCall(w)] = @ \ {CurChunk(w)}]
    /\ wpc' = [wpc EXCEPT ![w] = "ready"]
    /\ UNCHANGED <<tasks, stopping, cur, cpc, callNo, size, remaining, ran, opc, spurious>>

-----------------------------------------------------------------------------
(* ~ThreadPool.  The owner destroys the pool when no call is in progress,   *)
(* as the language requires of it; main() does so after the server stopped. *)

OwnerStops ==
    /\ opc = "alive"
    /\ \A c \in Callers : cpc[c] = "idle"
    /\ PoolMutexFree
    /\ stopping' = TRUE
    /\ opc' = "notify"
    /\ UNCHANGED <<tasks, wpc, cur, cpc, callNo, size, remaining, copies, ran, spurious>>

OwnerNotifies ==
    /\ opc = "notify"
    /\ wpc' = WokenWorkers
    /\ opc' = "join"
    /\ UNCHANGED <<tasks, stopping, cur, cpc, callNo, size, remaining, copies, ran, spurious>>

OwnerJoins ==
    /\ opc = "join"
    /\ \A w \in Workers : wpc[w] = "exited"
    /\ opc' = "destroyed"
    /\ UNCHANGED <<tasks, stopping, wpc, cur, cpc, callNo, size, remaining, copies, ran, spurious>>

\* A condition variable may wake a waiter for no reason.
SpuriousWake ==
    /\ spurious < MaxSpurious
    /\ spurious' = spurious + 1
    /\ \/ \E w \in Workers :
            /\ wpc[w] = "asleep"
            /\ wpc' = [wpc EXCEPT ![w] = "ready"]
            /\ UNCHANGED cpc
       \/ \E c \in Callers :
            /\ cpc[c] = "asleep"
            /\ cpc' = [cpc EXCEPT ![c] = "join"]
            /\ UNCHANGED wpc
    /\ UNCHANGED <<tasks, stopping, cur, callNo, size, remaining, copies, ran, opc>>

\* The pool is gone: nothing is left to happen.
Terminated == opc = "destroyed" /\ UNCHANGED vars

-----------------------------------------------------------------------------
CallerStep(c) ==
    \/ CallerEnqueues(c)
    \/ CallerNotifies(c)
    \/ CallerRunsChunk0(c)
    \/ CallerJoins(c)
    \/ CallerSleeps(c)
    \/ CallerReturns(c)

WorkerStep(w) ==
    \/ WorkerPops(w)
    \/ WorkerExits(w)
    \/ WorkerDozes(w)
    \/ WorkerSleeps(w)
    \/ WorkerRunsChunk(w)
    \/ WorkerCounts(w)
    \/ WorkerSignals(w)
    \/ WorkerDrops(w)

OwnerStep == OwnerStops \/ OwnerNotifies \/ OwnerJoins

Next ==
    \/ \E c \in Callers, n \in Sizes : CallerBegins(c, n)
    \/ \E c \in Callers : CallerStep(c)
    \/ \E w \in Workers : WorkerStep(w)
    \/ OwnerStep
    \/ SpuriousWake
    \/ Terminated

Spec == Init /\ [][Next]_vars

\* The scheduler runs every thread.  Nobody has to start a call or destroy the
\* pool, and mutexes need not be fair: weak fairness is enough because the
\* calls and the spurious wake-ups are finite in number.
Fairness ==
    /\ \A c \in Callers : WF_vars(CallerStep(c))
    /\ \A w \in Workers : WF_vars(WorkerStep(w))
    /\ WF_vars(OwnerNotifies \/ OwnerJoins)

FairSpec == Spec /\ Fairness

-----------------------------------------------------------------------------
(* The inductive invariant: where each task of each call is, and what the   *)
(* counter, the shared_ptr copies and the record of finished work say of it.*)

Busy(w) == wpc[w] \in {"work", "count", "signal", "drop"}

Queued(d, k) == \E i \in DOMAIN tasks : tasks[i] = <<d, k>>
HeldIn(d, k, L) == \E w \in Workers : wpc[w] \in L /\ cur[w] = <<d, k>>

\* Chunks handed to the workers that have not been subtracted from remaining.
Uncounted(d) == {k \in ChunkIds : Queued(d, k) \/ HeldIn(d, k, {"work", "count"})}

Enqueuing(d) == IsCurrent(d) /\ cpc[d[1]] = "enqueue"
Waiting(d) == IsCurrent(d) /\ cpc[d[1]] \in {"notify", "chunk0", "join", "dozing", "asleep"}

\* The chunk's work is still to come.
Pending(d, k) ==
    IF k = 0 THEN IsCurrent(d) /\ cpc[d[1]] \in {"enqueue", "notify", "chunk0"}
    ELSE Enqueuing(d) \/ Queued(d, k) \/ HeldIn(d, k, {"work"})

CallersInv ==
    \A c \in Callers :
        LET chunks == ChunkCount(size[CurrentCall(c)], NumWorkers)
        IN /\ cpc[c] # "idle" => callNo[c] >= 1
           /\ cpc[c] \in {"chunk0", "returning"} => chunks >= 1
           /\ cpc[c] \in {"enqueue", "notify", "join", "dozing", "asleep"} => chunks > 1
           /\ cpc[c] = "returning" => remaining[CurrentCall(c)] = 0

\* No task exists twice, in the queue or in a worker's hands.
TasksDistinctInv ==
    /\ \A i, j \in DOMAIN tasks : tasks[i] = tasks[j] => i = j
    /\ \A w \in Workers : Busy(w) => \A i \in DOMAIN tasks : tasks[i] # cur[w]
    /\ \A v, w \in Workers : Busy(v) /\ Busy(w) /\ cur[v] = cur[w] => v = w

\* A task is a worker's chunk of a call that has been enqueued.
Posted(t) ==
    /\ t \in Task
    /\ Begun(t[1])
    /\ ~Enqueuing(t[1])
    /\ t[2] \in TaskChunks(size[t[1]], NumWorkers)

TasksPostedInv ==
    /\ \A i \in DOMAIN tasks : Posted(tasks[i]) /\ Waiting(tasks[i][1])
    /\ \A w \in Workers : Busy(w) => Posted(cur[w])
    /\ \A w \in Workers : wpc[w] \in {"work", "count"} => Waiting(CurCall(w))

CounterInv ==
    \A d \in Call :
        remaining[d] = IF Enqueuing(d) THEN ChunkCount(size[d], NumWorkers) - 1
                       ELSE Cardinality(Uncounted(d))

RanInv ==
    \A d \in Call, k \in ChunkIds :
        ran[d][k] = IF Begun(d) /\ k \in Chunks(size[d], NumWorkers) /\ ~Pending(d, k)
                    THEN 1 ELSE 0

CopiesInv ==
    \A d \in Call :
        /\ 0 \in copies[d] <=> Active(d) /\ ChunkCount(size[d], NumWorkers) > 1
        /\ \A k \in ChunkIds \ {0} :
              k \in copies[d] <=> \/ Queued(d, k)
                                 \/ HeldIn(d, k, {"work", "count", "signal", "drop"})

\* The state in full: what the safety properties below rest on.
IndInv ==
    /\ TypeOK
    /\ CallersInv
    /\ TasksDistinctInv
    /\ TasksPostedInv
    /\ CounterInv
    /\ RanInv
    /\ CopiesInv

-----------------------------------------------------------------------------
(* Properties.                                                              *)

\* Nobody touches an object that is gone.  A worker that counts or signals
\* uses the DoneState, which must still have an owner: the code comment tells
\* of the "use-after-destroy race" of an earlier version with stack locals.
\* A worker that runs the work function, or a task that will, uses a
\* std::function of the caller's, which dies when parallel_for returns.
NoUseAfterDestroy ==
    /\ \A w \in Workers : wpc[w] \in {"count", "signal"} => copies[CurCall(w)] # {}
    /\ \A w \in Workers : wpc[w] = "work" => Active(CurCall(w))
    /\ \A i \in DOMAIN tasks : Active(tasks[i][1])

\* Index i of call d lies in a chunk that ran once, and in no other that ran.
VisitedOnce(d, i) ==
    \E k \in Chunks(size[d], NumWorkers) :
        /\ i \in ChunkRange(size[d], NumWorkers, k)
        /\ ran[d][k] = 1
        /\ \A e \in ChunkIds \ {k} :
              i \in ChunkRange(size[d], NumWorkers, e) => ran[d][e] = 0

\* When parallel_for returns every index of [0, n) has been visited exactly
\* once ("parallel_for visits every index exactly once", test_thread_pool.cpp).
EveryIndexOnce ==
    \A d \in Call : Returned(d) => \A i \in 0 .. size[d] - 1 : VisitedOnce(d, i)

\* The shared DoneState does not leak: once no thread is in the middle of
\* anything, no copy of any call's shared_ptr is left.
NoDoneStateLeak ==
    ((\A w \in Workers : ~Busy(w)) /\ (\A c \in Callers : cpc[c] = "idle"))
        => \A d \in Call : copies[d] = {}

\* The pool implements fork-join: the caller blocks until all its chunks ran.
FJ == INSTANCE ForkJoin WITH
        busy <- [c \in Callers |-> cpc[c] # "idle"],
        todo <- [c \in Callers |->
                   IF cpc[c] = "idle" THEN {}
                   ELSE {k \in Chunks(size[CurrentCall(c)], NumWorkers) :
                           ran[CurrentCall(c)][k] = 0}]
ImplementsForkJoin == FJ!Spec

\* Every parallel_for returns, whatever the order of tests, sleeps and
\* notifications ("repeated parallel_for does not deadlock").
CallsReturn == \A c \in Callers : cpc[c] # "idle" ~> cpc[c] = "idle"

\* The destructor's joins end: no worker sleeps through the stop.
ShutdownCompletes == stopping ~> opc = "destroyed"
=============================================================================
