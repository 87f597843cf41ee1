-------------------------- MODULE ThreadPoolProofs --------------------------
(***************************************************************************)
(* The pool's invariants for any number of workers, callers and calls.      *)
(* IndInv is inductive: most actions only move a thread between places that *)
(* the invariant does not tell apart (ControlFrame); the nine others move a *)
(* chunk from one place to the next or a caller into or out of a call.      *)
(***************************************************************************)
EXTENDS ThreadPool, OperatorProofs, FiniteSetTheorems, SequenceTheorems, TLAPS

-----------------------------------------------------------------------------
(* Facts about a state.                                                     *)

\* A busy worker holds a task of a call that began.
LEMMA BusyTask ==
  ASSUME IndInv, NEW w \in Workers, Busy(w)
  PROVE  /\ cur[w] \in Task
         /\ CurCall(w) \in Call
         /\ CurChunk(w) \in ChunkIds \ {0}
         /\ cur[w] = <<CurCall(w), CurChunk(w)>>
         /\ CurChunk(w) \in TaskChunks(size[CurCall(w)], NumWorkers)
         /\ Begun(CurCall(w))
         /\ ~Enqueuing(CurCall(w))
  BY DEF IndInv, TasksPostedInv, Posted, Task, Call, CurCall, CurChunk, ChunkIds, TaskChunks

\* The uncounted chunks of a call are finitely many.
LEMMA UncountedFinite ==
  ASSUME NEW d PROVE IsFiniteSet(Uncounted(d)) /\ Cardinality(Uncounted(d)) \in Nat
<1>1. IsFiniteSet(ChunkIds)
  BY ThreadPoolAssumption, FS_Interval DEF ChunkIds
<1>2. Uncounted(d) \subseteq ChunkIds
  BY DEF Uncounted
<1> QED BY <1>1, <1>2, FS_Subset, FS_CardinalityType

\* A caller inside parallel_for is in a call of its own.
LEMMA CallerInCall ==
  ASSUME IndInv, NEW c \in Callers, cpc[c] # "idle"
  PROVE  /\ CurrentCall(c) \in Call
         /\ CurrentCall(c)[1] = c
         /\ IsCurrent(CurrentCall(c))
         /\ Begun(CurrentCall(c))
         /\ size[CurrentCall(c)] \in Nat
         /\ \A d \in Call : IsCurrent(d) /\ d[1] = c => d = CurrentCall(c)
  BY DEF IndInv, CallersInv, TypeOK, CurrentCall, Call, IsCurrent, Begun

\* chunks lies between 0 and size() + 1.
LEMMA ChunkCountType ==
  ASSUME NEW n \in Nat
  PROVE  /\ ChunkCount(n, NumWorkers) \in Nat
         /\ ChunkCount(n, NumWorkers) <= NumWorkers + 1
         /\ Chunks(n, NumWorkers) \subseteq ChunkIds
         /\ TaskChunks(n, NumWorkers) \subseteq ChunkIds
         /\ 0 \notin TaskChunks(n, NumWorkers)
  BY ThreadPoolAssumption DEF ChunkCount, Least, Chunks, TaskChunks, ChunkIds
-----------------------------------------------------------------------------
(* What leaves each part of the invariant alone.                            *)

\* CounterInv depends on the counter, the sizes and the uncounted chunks only.
LEMMA CounterFrame ==
  ASSUME CounterInv, remaining' = remaining, size' = size,
         \A d \in Call : Enqueuing(d)' <=> Enqueuing(d),
         \A d \in Call : Uncounted(d)' = Uncounted(d)
  PROVE  CounterInv'
  BY DEF CounterInv

\* RanInv depends on the record of finished work and on what is pending only.
LEMMA RanFrame ==
  ASSUME RanInv, ran' = ran, size' = size, callNo' = callNo,
         \A d \in Call, k \in ChunkIds : Pending(d, k)' <=> Pending(d, k)
  PROVE  RanInv'
  BY DEF RanInv, Begun

\* CopiesInv depends on the copies and on who holds a closure only.
LEMMA CopiesFrame ==
  ASSUME CopiesInv, copies' = copies, size' = size,
         \A d \in Call : Active(d)' <=> Active(d),
         \A d \in Call, k \in ChunkIds : Queued(d, k)' <=> Queued(d, k),
         \A d \in Call, k \in ChunkIds :
            HeldIn(d, k, {"work", "count", "signal", "drop"})'
              <=> HeldIn(d, k, {"work", "count", "signal", "drop"})
  PROVE  CopiesInv'
  BY DEF CopiesInv

\* Steps that only move threads between places the invariant does not tell
\* apart: testing, sleeping, waking, notifying, and the destructor.
LEMMA ControlFrame ==
  ASSUME IndInv, TypeOK',
         UNCHANGED <<tasks, cur, callNo, size, remaining, copies, ran>>,
         \A w \in Workers : /\ wpc'[w] = "work" <=> wpc[w] = "work"
                            /\ wpc'[w] = "count" <=> wpc[w] = "count"
                            /\ wpc'[w] \in {"signal", "drop"} <=> wpc[w] \in {"signal", "drop"},
         \A c \in Callers : \/ cpc'[c] = cpc[c]
                            \/ cpc[c] = "notify" /\ cpc'[c] = "chunk0"
                            \/ /\ cpc[c] \in {"join", "dozing", "asleep"}
                               /\ cpc'[c] \in {"join", "dozing", "asleep"}
  PROVE  IndInv'
<1> USE DEF IndInv
<1>1. \A w \in Workers : Busy(w)' <=> Busy(w)
  BY DEF Busy
<1>2. \A d \in Call : /\ Enqueuing(d)' <=> Enqueuing(d)
                      /\ Waiting(d)' <=> Waiting(d)
                      /\ Active(d)' <=> Active(d)
                      /\ Begun(d)' <=> Begun(d)
  BY DEF Enqueuing, Waiting, Active, Begun, IsCurrent, Call
<1>3. \A d, k : Queued(d, k)' <=> Queued(d, k)
  BY DEF Queued
<1>4. \A d, k : /\ HeldIn(d, k, {"work"})' <=> HeldIn(d, k, {"work"})
                /\ HeldIn(d, k, {"work", "count"})' <=> HeldIn(d, k, {"work", "count"})
                /\ HeldIn(d, k, {"work", "count", "signal", "drop"})'
                     <=> HeldIn(d, k, {"work", "count", "signal", "drop"})
  BY DEF HeldIn
<1>5. \A d \in Call, k \in ChunkIds : Pending(d, k)' <=> Pending(d, k)
  BY <1>2, <1>3, <1>4 DEF Pending, IsCurrent, Call
<1>6. \A d \in Call : Uncounted(d)' = Uncounted(d)
  BY <1>3, <1>4 DEF Uncounted
<1>7. CallersInv'
  <2> SUFFICES ASSUME NEW c \in Callers, cpc[c] = "notify", cpc'[c] = "chunk0"
               PROVE  ChunkCount(size[CurrentCall(c)], NumWorkers) >= 1
    BY DEF CallersInv, CurrentCall
  <2>1. ChunkCount(size[CurrentCall(c)], NumWorkers) \in Nat
    BY CallerInCall, ChunkCountType
  <2>2. ChunkCount(size[CurrentCall(c)], NumWorkers) > 1
    BY DEF CallersInv
  <2> QED BY <2>1, <2>2
<1>8. TasksDistinctInv'
  BY <1>1 DEF TasksDistinctInv
<1>9. TasksPostedInv'
  BY <1>1, <1>2 DEF TasksPostedInv, Posted, CurCall, Task, Busy
<1>10. CounterInv'
  BY <1>2, <1>6, CounterFrame
<1>11. RanInv'
  BY <1>5, RanFrame
<1>12. CopiesInv'
  BY <1>2, <1>3, <1>4, CopiesFrame
<1> QED BY <1>7, <1>8, <1>9, <1>10, <1>11, <1>12

-----------------------------------------------------------------------------
(* Steps that are no more than a change of place.                           *)

\* notify_all moves sleeping workers and the caller, and no task or count.
LEMMA CallerNotifiesInd ==
  ASSUME IndInv, NEW c \in Callers, CallerNotifies(c) PROVE IndInv'
<1>1. TypeOK'
  BY DEF IndInv, TypeOK, CallerNotifies, WokenWorkers, CallerPC, WorkerPC
<1> QED BY <1>1, ControlFrame DEF IndInv, TypeOK, CallerNotifies, WokenWorkers

\* Giving up done->mtx to sleep changes nothing the invariant counts.
LEMMA CallerSleepsInd ==
  ASSUME IndInv, NEW c \in Callers, CallerSleeps(c) PROVE IndInv'
<1>1. TypeOK'
  BY DEF IndInv, TypeOK, CallerSleeps, CallerPC
<1> QED BY <1>1, ControlFrame DEF IndInv, TypeOK, CallerSleeps

\* A worker that ends held no task.
LEMMA WorkerExitsInd ==
  ASSUME IndInv, NEW w \in Workers, WorkerExits(w) PROVE IndInv'
<1>1. TypeOK'
  BY DEF IndInv, TypeOK, WorkerExits, WorkerPC
<1> QED BY <1>1, ControlFrame DEF IndInv, TypeOK, WorkerExits

\* A worker that finds the queue empty holds no task.
LEMMA WorkerDozesInd ==
  ASSUME IndInv, NEW w \in Workers, WorkerDozes(w) PROVE IndInv'
<1>1. TypeOK'
  BY DEF IndInv, TypeOK, WorkerDozes, WorkerPC
<1> QED BY <1>1, ControlFrame DEF IndInv, TypeOK, WorkerDozes

\* Giving up mtx_ to sleep changes nothing the invariant counts.
LEMMA WorkerSleepsInd ==
  ASSUME IndInv, NEW w \in Workers, WorkerSleeps(w) PROVE IndInv'
<1>1. TypeOK'
  BY DEF IndInv, TypeOK, WorkerSleeps, WorkerPC
<1> QED BY <1>1, ControlFrame DEF IndInv, TypeOK, WorkerSleeps

\* The signal finds the call's caller waiting, or finds nobody.
LEMMA WorkerSignalsInd ==
  ASSUME IndInv, NEW w \in Workers, WorkerSignals(w) PROVE IndInv'
<1>1. CurCall(w) \in Call
  BY BusyTask DEF WorkerSignals, Busy
<1>2. TypeOK'
  BY <1>1 DEF IndInv, TypeOK, WorkerSignals, WakeCaller, WorkerPC, CallerPC, Call
<1> QED BY <1>1, <1>2, ControlFrame DEF IndInv, TypeOK, WorkerSignals, WakeCaller, Call

\* The destructor stops, wakes and joins workers; tasks and counts stay.
LEMMA OwnerStepInd ==
  ASSUME IndInv, OwnerStep PROVE IndInv'
<1>1. CASE OwnerStops
  <2>1. TypeOK'
    BY <1>1 DEF IndInv, TypeOK, OwnerStops, OwnerPC
  <2> QED BY <1>1, <2>1, ControlFrame DEF OwnerStops
<1>2. CASE OwnerNotifies
  <2>1. TypeOK'
    BY <1>2 DEF IndInv, TypeOK, OwnerNotifies, WokenWorkers, OwnerPC, WorkerPC
  <2> QED BY <1>2, <2>1, ControlFrame DEF IndInv, TypeOK, OwnerNotifies, WokenWorkers
<1>3. CASE OwnerJoins
  <2>1. TypeOK'
    BY <1>3 DEF IndInv, TypeOK, OwnerJoins, OwnerPC
  <2> QED BY <1>3, <2>1, ControlFrame DEF OwnerJoins
<1> QED BY <1>1, <1>2, <1>3 DEF OwnerStep

\* A spurious wake-up sends its thread back to its test, and that is all.
LEMMA SpuriousWakeInd ==
  ASSUME IndInv, SpuriousWake PROVE IndInv'
<1>1. TypeOK'
  <2>1. spurious' \in Nat
    BY DEF IndInv, TypeOK, SpuriousWake
  <2>2. wpc' \in [Workers -> WorkerPC]
    BY DEF IndInv, TypeOK, SpuriousWake, WorkerPC
  <2>3. cpc' \in [Callers -> CallerPC]
    BY DEF IndInv, TypeOK, SpuriousWake, CallerPC
  <2> QED BY <2>1, <2>2, <2>3 DEF IndInv, TypeOK, SpuriousWake
<1> QED BY <1>1, ControlFrame DEF IndInv, TypeOK, SpuriousWake

\* A stuttering step keeps the invariant.
LEMMA StutterInd ==
  ASSUME IndInv, UNCHANGED vars PROVE IndInv'
<1>1. TypeOK'
  BY DEF IndInv, TypeOK, vars
<1> QED BY <1>1, ControlFrame DEF vars

-----------------------------------------------------------------------------
(* The life of a task: popped, run, counted, dropped.                       *)

\* A popped task moves from the queue into one worker's hands, uncounted still.
LEMMA WorkerPopsInd ==
  ASSUME IndInv, NEW w \in Workers, WorkerPops(w) PROVE IndInv'
<1> USE DEF IndInv
<1>1. /\ tasks \in Seq(Task) /\ tasks # <<>>
      /\ Head(tasks) = tasks[1] /\ Head(tasks) \in Task
      /\ Tail(tasks) \in Seq(Task)
      /\ \A i \in DOMAIN Tail(tasks) : i + 1 \in DOMAIN tasks /\ Tail(tasks)[i] = tasks[i + 1]
      /\ \A i \in DOMAIN tasks : i # 1 => i - 1 \in DOMAIN Tail(tasks) /\ tasks[i] = Tail(tasks)[i - 1]
      /\ 1 \in DOMAIN tasks
      /\ \A i \in DOMAIN tasks : i \in Nat
      /\ \A i \in DOMAIN Tail(tasks) : i \in Nat
  BY DEF TypeOK, WorkerPops
<1>2. TypeOK'
  BY <1>1 DEF TypeOK, WorkerPops, WorkerPC
<1>3. /\ ~Busy(w) /\ Busy(w)' /\ wpc'[w] = "work"
      /\ cur'[w] = tasks[1]
      /\ \A v \in Workers \ {w} : wpc'[v] = wpc[v] /\ cur'[v] = cur[v]
      /\ \A v \in Workers \ {w} : Busy(v)' <=> Busy(v)
  BY <1>1 DEF TypeOK, WorkerPops, Busy
<1>4. \A d \in Call : /\ Enqueuing(d)' <=> Enqueuing(d)
                      /\ Waiting(d)' <=> Waiting(d)
                      /\ Active(d)' <=> Active(d)
                      /\ Begun(d)' <=> Begun(d)
                      /\ IsCurrent(d)' <=> IsCurrent(d)
  BY DEF WorkerPops, Enqueuing, Waiting, Active, Begun, IsCurrent
<1>5. \A d, k : Queued(d, k) <=> Queued(d, k)' \/ <<d, k>> = tasks[1]
  BY <1>1 DEF Queued, WorkerPops
<1>6. ASSUME NEW d, NEW k
      PROVE  /\ HeldIn(d, k, {"work"})' <=> HeldIn(d, k, {"work"}) \/ <<d, k>> = tasks[1]
             /\ HeldIn(d, k, {"work", "count"})'
                  <=> HeldIn(d, k, {"work", "count"}) \/ <<d, k>> = tasks[1]
             /\ HeldIn(d, k, {"work", "count", "signal", "drop"})'
                  <=> HeldIn(d, k, {"work", "count", "signal", "drop"}) \/ <<d, k>> = tasks[1]
  BY <1>3 DEF HeldIn, Busy
<1>7. CallersInv'
  BY DEF CallersInv, WorkerPops, CurrentCall
<1>8. TasksDistinctInv'
  <2>1. \A i, j \in DOMAIN tasks' : tasks'[i] = tasks'[j] => i = j
    BY <1>1 DEF TasksDistinctInv, WorkerPops
  <2>2. \A i \in DOMAIN tasks' : tasks'[i] # cur'[w]
    BY <1>1, <1>3 DEF TasksDistinctInv, WorkerPops
  <2>3. \A v \in Workers : Busy(v)' => \A i \in DOMAIN tasks' : tasks'[i] # cur'[v]
    BY <1>1, <1>3, <2>2 DEF TasksDistinctInv, WorkerPops
  <2>4. \A u, v \in Workers : Busy(u)' /\ Busy(v)' /\ cur'[u] = cur'[v] => u = v
    BY <1>1, <1>3 DEF TasksDistinctInv
  <2> QED BY <2>1, <2>3, <2>4 DEF TasksDistinctInv
<1>9. TasksPostedInv'
  <2> USE DEF Posted, Waiting, Begun, Enqueuing, IsCurrent, Task
  <2>1. (\A i \in DOMAIN tasks : Posted(tasks[i]) /\ Waiting(tasks[i][1]))'
    BY <1>1 DEF TasksPostedInv, WorkerPops
  <2>2. (\A v \in Workers : Busy(v) => Posted(cur[v]))'
    BY <1>1, <1>3 DEF TasksPostedInv, WorkerPops
  <2>3. (\A v \in Workers : wpc[v] \in {"work", "count"} => Waiting(CurCall(v)))'
    BY <1>1, <1>3 DEF TasksPostedInv, WorkerPops, CurCall
  <2> QED BY <2>1, <2>2, <2>3 DEF TasksPostedInv
<1>10. CounterInv'
  BY <1>4, <1>5, <1>6, CounterFrame DEF WorkerPops, Uncounted
<1>11. \A d \in Call, k \in ChunkIds : Pending(d, k)' <=> Pending(d, k)
  BY <1>4, <1>5, <1>6 DEF Pending, WorkerPops, IsCurrent
<1>12. RanInv'
  BY <1>11, RanFrame DEF WorkerPops
<1>13. CopiesInv'
  <2>1. \A d, k : Queued(d, k)' \/ HeldIn(d, k, {"work", "count", "signal", "drop"})'
                <=> Queued(d, k) \/ HeldIn(d, k, {"work", "count", "signal", "drop"})
    BY <1>5, <1>6
  <2> QED BY <2>1, <1>4 DEF CopiesInv, WorkerPops
<1> QED BY <1>2, <1>7, <1>8, <1>9, <1>10, <1>12, <1>13

\* The work function's return turns a pending chunk into one that ran once.
LEMMA WorkerRunsChunkInd ==
  ASSUME IndInv, NEW w \in Workers, WorkerRunsChunk(w) PROVE IndInv'
<1> USE DEF IndInv
<1>1. Busy(w) /\ wpc[w] = "work"
  BY DEF WorkerRunsChunk, Busy
<1>2. TypeOK'
  BY <1>1, BusyTask DEF TypeOK, WorkerRunsChunk, WorkerPC
<1>3. \A d \in Call : (Enqueuing(d)' <=> Enqueuing(d)) /\ (Active(d)' <=> Active(d))
  BY DEF WorkerRunsChunk, Enqueuing, IsCurrent, Active
<1>4. \A d, k : Queued(d, k)' <=> Queued(d, k)
  BY DEF WorkerRunsChunk, Queued
<1>5. \A d, k : /\ HeldIn(d, k, {"work", "count"})' <=> HeldIn(d, k, {"work", "count"})
                /\ HeldIn(d, k, {"work", "count", "signal", "drop"})'
                     <=> HeldIn(d, k, {"work", "count", "signal", "drop"})
  BY DEF WorkerRunsChunk, HeldIn, TypeOK
<1>6. \A d, k : HeldIn(d, k, {"work"})' <=> HeldIn(d, k, {"work"}) /\ <<d, k>> # cur[w]
  BY <1>1 DEF WorkerRunsChunk, HeldIn, TypeOK, TasksDistinctInv, Busy
<1>7. CallersInv'
  BY DEF CallersInv, WorkerRunsChunk, CurrentCall
<1>8. TasksDistinctInv'
  BY DEF TasksDistinctInv, WorkerRunsChunk, Busy, TypeOK
<1>9. TasksPostedInv'
  BY DEF TasksPostedInv, TypeOK, WorkerRunsChunk, Posted, Begun, Enqueuing, IsCurrent,
         Waiting, CurCall, Busy, Task, Call
<1>10. CounterInv'
  BY <1>3, <1>4, <1>5, CounterFrame DEF WorkerRunsChunk, Uncounted
<1>11. RanInv'
  <2> SUFFICES ASSUME NEW d \in Call, NEW k \in ChunkIds
               PROVE  (ran[d][k] = IF Begun(d) /\ k \in Chunks(size[d], NumWorkers) /\ ~Pending(d, k)
                                   THEN 1 ELSE 0)'
    BY DEF RanInv
  <2>1. CASE <<d, k>> = cur[w]
    <3>1. d = CurCall(w) /\ k = CurChunk(w) /\ k # 0
      BY <1>1, <2>1, BusyTask
    <3>2. ~Queued(d, k) /\ ~Enqueuing(d) /\ HeldIn(d, k, {"work"})
      BY <1>1, <2>1, <3>1, BusyTask DEF TasksDistinctInv, Queued, HeldIn
    <3>3. Pending(d, k) /\ ~Pending(d, k)'
      BY <3>1, <3>2, <1>3, <1>4, <1>6, <2>1 DEF Pending
    <3>4. ran[d][k] = 0
      BY <3>3 DEF RanInv
    <3>5. ran'[d][k] = 1
      BY <3>1, <3>4 DEF WorkerRunsChunk, TypeOK
    <3>6. Begun(d)' /\ k \in Chunks(size'[d], NumWorkers)
      BY <1>1, <3>1, BusyTask DEF WorkerRunsChunk, Begun, TaskChunks, Chunks
    <3> QED BY <3>3, <3>5, <3>6
  <2>2. CASE <<d, k>> # cur[w]
    <3>1. Pending(d, k)' <=> Pending(d, k)
      BY <1>3, <1>4, <1>6, <2>2 DEF Pending, WorkerRunsChunk, IsCurrent
    <3>2. ran'[d][k] = ran[d][k]
      BY <1>1, <2>2, BusyTask DEF WorkerRunsChunk, TypeOK
    <3> QED BY <3>1, <3>2 DEF RanInv, WorkerRunsChunk, Begun
  <2> QED BY <2>1, <2>2
<1>12. CopiesInv'
  BY <1>3, <1>4, <1>5, CopiesFrame DEF WorkerRunsChunk
<1> QED BY <1>2, <1>7, <1>8, <1>9, <1>10, <1>11, <1>12

\* The chunk leaves Uncounted, and the counter falls by one with it.
LEMMA WorkerCountsInd ==
  ASSUME IndInv, NEW w \in Workers, WorkerCounts(w) PROVE IndInv'
<1> USE DEF IndInv
<1>1. Busy(w) /\ wpc[w] = "count" /\ wpc'[w] \in {"signal", "drop"}
  BY DEF WorkerCounts, Busy, TypeOK
<1>2. /\ CurChunk(w) \in Uncounted(CurCall(w))
      /\ remaining[CurCall(w)] = Cardinality(Uncounted(CurCall(w)))
  BY <1>1, BusyTask DEF Uncounted, HeldIn, CounterInv
<1>3. remaining[CurCall(w)] \in Nat \ {0}
  BY <1>2, UncountedFinite, FS_EmptySet
<1>4. TypeOK'
  BY <1>1, <1>3, BusyTask DEF TypeOK, WorkerCounts, WorkerPC
<1>5. \A d \in Call : (Enqueuing(d)' <=> Enqueuing(d)) /\ (Active(d)' <=> Active(d))
  BY DEF WorkerCounts, Enqueuing, IsCurrent, Active
<1>6. \A d, k : Queued(d, k)' <=> Queued(d, k)
  BY DEF WorkerCounts, Queued
<1>7. \A d, k : /\ HeldIn(d, k, {"work"})' <=> HeldIn(d, k, {"work"})
                /\ HeldIn(d, k, {"work", "count", "signal", "drop"})'
                     <=> HeldIn(d, k, {"work", "count", "signal", "drop"})
  BY DEF WorkerCounts, HeldIn, TypeOK
<1>8. \A d, k : HeldIn(d, k, {"work", "count"})'
                <=> HeldIn(d, k, {"work", "count"}) /\ <<d, k>> # cur[w]
  BY <1>1 DEF WorkerCounts, HeldIn, TypeOK, TasksDistinctInv, Busy
<1>9. ~Queued(CurCall(w), CurChunk(w))
  BY <1>1, BusyTask DEF TasksDistinctInv, Queued
<1>10. CallersInv'
  <2>1. \A c \in Callers : cpc[c] = "returning" => CurrentCall(c) # CurCall(w)
    BY <1>2, <1>3 DEF CallersInv
  <2> QED BY <2>1 DEF CallersInv, WorkerCounts, CurrentCall, TypeOK
<1>11. TasksDistinctInv'
  BY DEF TasksDistinctInv, WorkerCounts, Busy, TypeOK
<1>12. TasksPostedInv'
  BY DEF TasksPostedInv, TypeOK, WorkerCounts, Posted, Begun, Enqueuing, IsCurrent,
         Waiting, CurCall, Busy, Task, Call
<1>13. CounterInv'
  <2> SUFFICES ASSUME NEW d \in Call
               PROVE  (remaining[d] = IF Enqueuing(d) THEN ChunkCount(size[d], NumWorkers) - 1
                                      ELSE Cardinality(Uncounted(d)))'
    BY DEF CounterInv
  <2>1. CASE d = CurCall(w)
    <3>1. Uncounted(d)' = Uncounted(d) \ {CurChunk(w)}
      BY <1>1, <1>6, <1>8, <1>9, <2>1, BusyTask DEF Uncounted
    <3>2. Cardinality(Uncounted(d) \ {CurChunk(w)}) = Cardinality(Uncounted(d)) - 1
      BY <1>2, <2>1, UncountedFinite, FS_RemoveElement
    <3>3. remaining'[d] = remaining[d] - 1
      BY <2>1 DEF WorkerCounts, TypeOK
    <3> QED BY <1>1, <1>2, <1>5, <2>1, <3>1, <3>2, <3>3, BusyTask
  <2>2. CASE d # CurCall(w)
    <3>1. Uncounted(d)' = Uncounted(d)
      BY <1>1, <1>6, <1>8, <2>2, BusyTask DEF Uncounted
    <3>2. remaining'[d] = remaining[d]
      BY <2>2 DEF WorkerCounts, TypeOK
    <3> QED BY <1>5, <3>1, <3>2 DEF CounterInv, WorkerCounts
  <2> QED BY <2>1, <2>2
<1>14. \A d \in Call, k \in ChunkIds : Pending(d, k)' <=> Pending(d, k)
  BY <1>5, <1>6, <1>7 DEF Pending, WorkerCounts, IsCurrent
<1>15. RanInv'
  BY <1>14, RanFrame DEF WorkerCounts
<1>16. CopiesInv'
  BY <1>5, <1>6, <1>7, CopiesFrame DEF WorkerCounts
<1> QED BY <1>4, <1>10, <1>11, <1>12, <1>13, <1>15, <1>16

\* The end of the loop body gives up exactly the copy of the task it held.
LEMMA WorkerDropsInd ==
  ASSUME IndInv, NEW w \in Workers, WorkerDrops(w) PROVE IndInv'
<1> USE DEF IndInv
<1>1. Busy(w) /\ wpc[w] = "drop" /\ ~Busy(w)'
  BY DEF WorkerDrops, Busy, TypeOK
<1>2. TypeOK'
  BY <1>1, BusyTask DEF TypeOK, WorkerDrops, WorkerPC
<1>3. \A d \in Call : (Enqueuing(d)' <=> Enqueuing(d)) /\ (Active(d)' <=> Active(d))
  BY DEF WorkerDrops, Enqueuing, IsCurrent, Active
<1>4. \A d, k : Queued(d, k)' <=> Queued(d, k)
  BY DEF WorkerDrops, Queued
<1>5. \A d, k : /\ HeldIn(d, k, {"work"})' <=> HeldIn(d, k, {"work"})
                /\ HeldIn(d, k, {"work", "count"})' <=> HeldIn(d, k, {"work", "count"})
  BY DEF WorkerDrops, HeldIn, TypeOK
<1>6. \A d, k : HeldIn(d, k, {"work", "count", "signal", "drop"})'
                <=> HeldIn(d, k, {"work", "count", "signal", "drop"}) /\ <<d, k>> # cur[w]
  BY <1>1 DEF WorkerDrops, HeldIn, TypeOK, TasksDistinctInv, Busy
<1>7. ~Queued(CurCall(w), CurChunk(w))
  BY <1>1, BusyTask DEF TasksDistinctInv, Queued
<1>8. CallersInv'
  BY DEF CallersInv, WorkerDrops, CurrentCall
<1>9. TasksDistinctInv'
  BY DEF TasksDistinctInv, WorkerDrops, Busy, TypeOK
<1>10. TasksPostedInv'
  BY DEF TasksPostedInv, TypeOK, WorkerDrops, Posted, Begun, Enqueuing, IsCurrent,
         Waiting, CurCall, Busy, Task, Call
<1>11. CounterInv'
  BY <1>3, <1>4, <1>5, CounterFrame DEF WorkerDrops, Uncounted
<1>12. \A d \in Call, k \in ChunkIds : Pending(d, k)' <=> Pending(d, k)
  BY <1>3, <1>4, <1>5 DEF Pending, WorkerDrops, IsCurrent
<1>13. RanInv'
  BY <1>12, RanFrame DEF WorkerDrops
<1>14. CopiesInv'
  <2> SUFFICES ASSUME NEW d \in Call
               PROVE  (/\ 0 \in copies[d] <=> Active(d) /\ ChunkCount(size[d], NumWorkers) > 1
                       /\ \A k \in ChunkIds \ {0} :
                            k \in copies[d]
                              <=> \/ Queued(d, k)
                                  \/ HeldIn(d, k, {"work", "count", "signal", "drop"}))'
    BY DEF CopiesInv
  <2>1. CASE d = CurCall(w)
    <3>1. copies'[d] = copies[d] \ {CurChunk(w)} /\ size' = size /\ CurChunk(w) # 0
      BY <1>1, <2>1, BusyTask DEF WorkerDrops, TypeOK
    <3> QED BY <1>1, <1>3, <1>4, <1>6, <1>7, <2>1, <3>1, BusyTask DEF CopiesInv
  <2>2. CASE d # CurCall(w)
    <3>1. copies'[d] = copies[d] /\ size' = size
      BY <2>2 DEF WorkerDrops, TypeOK
    <3> QED BY <1>1, <1>3, <1>4, <1>6, <2>2, <3>1, BusyTask DEF CopiesInv
  <2> QED BY <2>1, <2>2
<1> QED BY <1>2, <1>8, <1>9, <1>10, <1>11, <1>13, <1>14

-----------------------------------------------------------------------------
(* The life of a call: begun, enqueued, chunk 0, joined, returned.          *)

\* Nothing of a call exists before it begins.
LEMMA NothingBeforeBegin ==
  ASSUME IndInv, NEW d \in Call, ~Begun(d)
  PROVE  /\ \A k : ~Queued(d, k)
         /\ \A k : ~HeldIn(d, k, {"work", "count", "signal", "drop"})
         /\ Uncounted(d) = {}
         /\ \A k \in ChunkIds : ran[d][k] = 0
<1>1. \A k : ~Queued(d, k)
  BY DEF IndInv, TasksPostedInv, Posted, Queued
<1>2. \A k : ~HeldIn(d, k, {"work", "count", "signal", "drop"})
  BY DEF IndInv, TasksPostedInv, Posted, HeldIn, Busy
<1>3. \A k : ~HeldIn(d, k, {"work", "count"})
  BY <1>2 DEF HeldIn
<1> QED BY <1>1, <1>2, <1>3 DEF Uncounted, IndInv, RanInv

\* A new call starts with a fresh DoneState whose counter fits its chunks.
LEMMA CallerBeginsInd ==
  ASSUME IndInv, NEW c \in Callers, NEW n \in Sizes, CallerBegins(c, n) PROVE IndInv'
<1> USE DEF IndInv
<1> DEFINE chunks == ChunkCount(n, NumWorkers)
<1>0. /\ n \in Nat /\ callNo[c] \in Nat /\ callNo[c] < MaxCalls /\ cpc[c] = "idle"
      /\ chunks \in Nat
      /\ <<c, callNo[c] + 1>> \in Call
  <2>1. n \in Nat /\ callNo[c] \in Nat /\ callNo[c] < MaxCalls /\ cpc[c] = "idle"
    BY ThreadPoolAssumption DEF CallerBegins, TypeOK
  <2>2. chunks \in Nat
    BY <2>1, ChunkCountType
  <2>3. <<c, callNo[c] + 1>> \in Call
    BY <2>1, ThreadPoolAssumption DEF Call
  <2> QED BY <2>1, <2>2, <2>3
<1> PICK b \in Call : b = <<c, callNo[c] + 1>>
  BY <1>0
<1>1. b[1] = c /\ b[2] = callNo[c] + 1 /\ ~Begun(b)
  BY <1>0 DEF Begun
<1>2. /\ callNo' = [callNo EXCEPT ![c] = callNo[c] + 1]
      /\ size' = [size EXCEPT ![b] = n]
      /\ cpc' = [cpc EXCEPT ![c] = IF chunks = 0 THEN "idle"
                                   ELSE IF chunks = 1 THEN "chunk0" ELSE "enqueue"]
      /\ remaining' = [remaining EXCEPT ![b] = IF chunks = 0 THEN 0 ELSE chunks - 1]
      /\ copies' = [copies EXCEPT ![b] = IF chunks > 1 THEN {0} ELSE {}]
      /\ UNCHANGED <<tasks, stopping, wpc, cur, ran, opc, spurious>>
  BY DEF CallerBegins, InitialRemaining
<1> HIDE DEF chunks
<1>3. TypeOK'
  <2>1. callNo' \in [Callers -> 0 .. MaxCalls]
    BY <1>0, <1>2, ThreadPoolAssumption DEF TypeOK
  <2>2. (IF chunks > 1 THEN {0} ELSE {}) \subseteq ChunkIds
    BY ThreadPoolAssumption DEF ChunkIds
  <2> QED BY <1>0, <1>1, <1>2, <2>1, <2>2 DEF TypeOK, CallerPC
<1>4. \A d \in Call : d # b =>
        /\ Begun(d)' <=> Begun(d)
        /\ Enqueuing(d)' <=> Enqueuing(d)
        /\ Waiting(d)' <=> Waiting(d)
        /\ Active(d)' <=> Active(d)
        /\ Begun(d) => size'[d] = size[d]
        /\ size'[d] = size[d] /\ remaining'[d] = remaining[d] /\ copies'[d] = copies[d]
  BY <1>0, <1>1, <1>2 DEF Begun, Enqueuing, Waiting, Active, IsCurrent, TypeOK, Call
<1>5. \A d, k : Queued(d, k)' <=> Queued(d, k)
  BY <1>2 DEF Queued
<1>6. \A d, k, L : HeldIn(d, k, L)' <=> HeldIn(d, k, L)
  BY <1>2 DEF HeldIn
<1>7. \A d : Uncounted(d)' = Uncounted(d)
  BY <1>5, <1>6 DEF Uncounted
<1>8. /\ Begun(b)' /\ IsCurrent(b)' /\ size'[b] = n /\ b[1] = c /\ CurrentCall(c)' = b
      /\ Enqueuing(b)' <=> chunks > 1
      /\ Active(b)' <=> chunks > 0
      /\ remaining'[b] = (IF chunks = 0 THEN 0 ELSE chunks - 1)
      /\ copies'[b] = (IF chunks > 1 THEN {0} ELSE {})
  BY <1>0, <1>1, <1>2 DEF Begun, IsCurrent, Enqueuing, Active, CurrentCall, TypeOK
<1>9. CallersInv'
  <2>1. ASSUME NEW e \in Callers, e # c
        PROVE  cpc'[e] = cpc[e] /\ callNo'[e] = callNo[e] /\ CurrentCall(e)' = CurrentCall(e) /\ CurrentCall(e) # b
    BY <1>1, <1>2, <2>1 DEF CurrentCall, TypeOK
  <2>2. ASSUME NEW e \in Callers, e # c, cpc[e] # "idle"
        PROVE  CurrentCall(e) \in Call /\ size'[CurrentCall(e)] = size[CurrentCall(e)]
                 /\ remaining'[CurrentCall(e)] = remaining[CurrentCall(e)]
    BY <2>1, <2>2, <1>4, CallerInCall
  <2>3. ASSUME NEW e \in Callers, e # c
        PROVE  (LET chunks_e == ChunkCount(size[CurrentCall(e)], NumWorkers)
                IN /\ cpc[e] # "idle" => callNo[e] >= 1
                   /\ cpc[e] \in {"chunk0", "returning"} => chunks_e >= 1
                   /\ cpc[e] \in {"enqueue", "notify", "join", "dozing", "asleep"} => chunks_e > 1
                   /\ cpc[e] = "returning" => remaining[CurrentCall(e)] = 0)'
    BY <2>1, <2>2, <2>3 DEF CallersInv
  <2>4. (LET chunks_c == ChunkCount(size[CurrentCall(c)], NumWorkers)
         IN /\ cpc[c] # "idle" => callNo[c] >= 1
            /\ cpc[c] \in {"chunk0", "returning"} => chunks_c >= 1
            /\ cpc[c] \in {"enqueue", "notify", "join", "dozing", "asleep"} => chunks_c > 1
            /\ cpc[c] = "returning" => remaining[CurrentCall(c)] = 0)'
    BY <1>0, <1>1, <1>2, <1>8 DEF TypeOK, chunks
  <2> QED BY <2>3, <2>4 DEF CallersInv
<1>10. TasksDistinctInv'
  BY <1>2 DEF TasksDistinctInv, Busy
<1>11. TasksPostedInv'
  <2>1. \A i \in DOMAIN tasks : tasks[i] \in Task /\ tasks[i][1] \in Call /\ tasks[i][1] # b
    BY <1>1 DEF TasksPostedInv, Posted, Task
  <2>2. \A w \in Workers : Busy(w) => cur[w] \in Task /\ cur[w][1] \in Call /\ cur[w][1] # b
    BY <1>1 DEF TasksPostedInv, Posted, Task
  <2>3. (\A i \in DOMAIN tasks : Posted(tasks[i]) /\ Waiting(tasks[i][1]))'
    BY <1>2, <1>4, <2>1 DEF TasksPostedInv, Posted
  <2>4. (\A w \in Workers : Busy(w) => Posted(cur[w]))'
    BY <1>2, <1>4, <2>2 DEF TasksPostedInv, Posted, Busy
  <2>5. (\A w \in Workers : wpc[w] \in {"work", "count"} => Waiting(CurCall(w)))'
    BY <1>2, <1>4, <2>2 DEF TasksPostedInv, CurCall, Busy
  <2> QED BY <2>3, <2>4, <2>5 DEF TasksPostedInv
<1>12. CounterInv'
  <2> SUFFICES ASSUME NEW d \in Call
               PROVE  (remaining[d] = IF Enqueuing(d) THEN ChunkCount(size[d], NumWorkers) - 1
                                      ELSE Cardinality(Uncounted(d)))'
    BY DEF CounterInv
  <2>1. CASE d = b
    <3>1. Cardinality(Uncounted(b)') = 0
      BY <1>1, <1>7, NothingBeforeBegin, FS_EmptySet
    <3> QED BY <2>1, <3>1, <1>0, <1>1, <1>8 DEF chunks
  <2>2. CASE d # b
    BY <2>2, <1>4, <1>7 DEF CounterInv
  <2> QED BY <2>1, <2>2
<1>13. RanInv'
  <2> SUFFICES ASSUME NEW d \in Call, NEW k \in ChunkIds
               PROVE  (ran[d][k] = IF Begun(d) /\ k \in Chunks(size[d], NumWorkers) /\ ~Pending(d, k)
                                   THEN 1 ELSE 0)'
    BY DEF RanInv
  <2>1. CASE d = b
    <3>1. ran'[d][k] = 0
      BY <1>1, <1>2, <2>1, NothingBeforeBegin
    <3>2. k \in Chunks(size'[d], NumWorkers) => Pending(d, k)'
      BY <1>0, <1>1, <1>2, <1>8, <2>1 DEF Chunks, chunks, Pending, TypeOK
    <3> QED BY <3>1, <3>2
  <2>2. CASE d # b
    <3>1. Begun(d) => (Pending(d, k)' <=> Pending(d, k))
      BY <2>2, <1>0, <1>1, <1>2, <1>4, <1>5, <1>6 DEF Pending, IsCurrent, Begun, TypeOK, Call
    <3> QED BY <2>2, <3>1, <1>2, <1>4 DEF RanInv
  <2> QED BY <2>1, <2>2
<1>14. CopiesInv'
  <2> SUFFICES ASSUME NEW d \in Call
               PROVE  (/\ 0 \in copies[d] <=> Active(d) /\ ChunkCount(size[d], NumWorkers) > 1
                       /\ \A k \in ChunkIds \ {0} :
                            k \in copies[d]
                              <=> \/ Queued(d, k)
                                  \/ HeldIn(d, k, {"work", "count", "signal", "drop"}))'
    BY DEF CopiesInv
  <2>1. CASE d = b
    BY <2>1, <1>0, <1>1, <1>5, <1>6, <1>8, NothingBeforeBegin DEF chunks
  <2>2. CASE d # b
    BY <2>2, <1>4, <1>5, <1>6 DEF CopiesInv
  <2> QED BY <2>1, <2>2
<1> QED BY <1>3, <1>9, <1>10, <1>11, <1>12, <1>13, <1>14

\* All the tasks of the call appear in the queue at once, behind the others:
\* none of them existed, so all stay distinct, and Uncounted becomes 1 .. m-1.
LEMMA CallerEnqueuesInd ==
  ASSUME IndInv, NEW c \in Callers, CallerEnqueues(c) PROVE IndInv'
<1> USE DEF IndInv
<1>0. cpc[c] = "enqueue"
  BY DEF CallerEnqueues
<1> PICK b \in Call : b = CurrentCall(c)
  BY <1>0, CallerInCall
<1> PICK m \in Nat : m = ChunkCount(size[b], NumWorkers)
  BY <1>0, CallerInCall, ChunkCountType
<1>1. /\ b[1] = c /\ IsCurrent(b) /\ Begun(b) /\ Enqueuing(b) /\ b = <<c, callNo[c]>>
      /\ \A d \in Call : IsCurrent(d) /\ d[1] = c => d = b
  BY <1>0, CallerInCall DEF Enqueuing, CurrentCall
<1>2. /\ m > 1
      /\ TaskChunks(size[b], NumWorkers) = 1 .. m - 1
      /\ 1 .. m - 1 \subseteq ChunkIds /\ 0 \notin 1 .. m - 1
  <2>1. m > 1
    BY <1>0 DEF CallersInv
  <2>2. TaskChunks(size[b], NumWorkers) = 1 .. m - 1
    BY DEF TaskChunks
  <2>3. size[b] \in Nat
    BY DEF TypeOK
  <2>4. 1 .. m - 1 \subseteq ChunkIds
    BY <2>2, <2>3, ChunkCountType
  <2> QED BY <2>1, <2>2, <2>4
<1>4. tasks' = tasks \o [i \in 1 .. m - 1 |-> <<b, i>>]
  BY DEF CallerEnqueues
<1>3. /\ copies' = [copies EXCEPT ![b] = @ \cup (1 .. m - 1)]
      /\ cpc' = [cpc EXCEPT ![c] = "notify"]
      /\ UNCHANGED <<stopping, wpc, cur, callNo, size, remaining, ran, opc, spurious>>
  BY <1>2 DEF CallerEnqueues, Captured
<1>5. /\ DOMAIN tasks = 1 .. Len(tasks) /\ Len(tasks) \in Nat
      /\ tasks' \in Seq(Task)
      /\ DOMAIN tasks' = 1 .. (Len(tasks) + (m - 1))
      /\ \A i \in 1 .. Len(tasks) : tasks'[i] = tasks[i]
      /\ \A i \in Len(tasks) + 1 .. Len(tasks) + (m - 1) :
            /\ i - Len(tasks) \in 1 .. m - 1
            /\ tasks'[i] = <<b, i - Len(tasks)>>
  <2> DEFINE posted == [i \in 1 .. m - 1 |-> <<b, i>>]
  <2>1. tasks \in Seq(Task) /\ m - 1 \in Nat /\ tasks' = tasks \o posted
    BY <1>2, <1>4 DEF TypeOK
  <2>2. \A i \in 1 .. m - 1 : <<b, i>> \in Task
    BY <1>2 DEF Task
  <2>3. posted \in [1 .. m - 1 -> Task] /\ \A i \in 1 .. m - 1 : posted[i] = <<b, i>>
    BY <2>2
  <2> HIDE DEF posted
  <2>4. posted \in Seq(Task) /\ Len(posted) = m - 1
    <3>1. m - 1 \in Nat
      BY <1>2
    <3>2. posted \in [1 .. m - 1 -> Task]
      BY <2>3
    <3>3. posted \in Seq(Task)
      BY <3>1, <3>2
    <3> QED BY <3>1, <3>2, <3>3
  <2>5. /\ tasks' \in Seq(Task)
        /\ Len(tasks') = Len(tasks) + (m - 1)
        /\ \A i \in 1 .. Len(tasks') :
              tasks'[i] = IF i <= Len(tasks) THEN tasks[i] ELSE posted[i - Len(tasks)]
    BY <2>1, <2>4, ConcatProperties
  <2> QED BY <2>1, <2>3, <2>4, <2>5
<1>5a. \A k \in 1 .. m - 1 : /\ Len(tasks) + k \in DOMAIN tasks'
                             /\ tasks'[Len(tasks) + k] = <<b, k>>
  BY <1>5
<1>6. /\ \A k : ~Queued(b, k)
      /\ \A k : ~HeldIn(b, k, {"work", "count", "signal", "drop"})
      /\ \A i \in DOMAIN tasks : tasks[i] \in Task /\ tasks[i][1] \in Call /\ tasks[i][1] # b
      /\ \A w \in Workers : Busy(w) => cur[w] \in Task /\ cur[w][1] \in Call /\ cur[w][1] # b
  <2>1. \A i \in DOMAIN tasks : tasks[i] \in Task /\ tasks[i][1] \in Call /\ tasks[i][1] # b
    BY <1>1 DEF TasksPostedInv, Posted, Task
  <2>2. \A w \in Workers : Busy(w) => cur[w] \in Task /\ cur[w][1] \in Call /\ cur[w][1] # b
    BY <1>1 DEF TasksPostedInv, Posted, Task
  <2> QED BY <2>1, <2>2 DEF Queued, HeldIn, Busy
<1>7. TypeOK'
  <2>1. copies' \in [Call -> SUBSET ChunkIds]
    BY <1>2, <1>3 DEF TypeOK
  <2>2. cpc' \in [Callers -> CallerPC]
    BY <1>3 DEF TypeOK, CallerPC
  <2> QED BY <1>3, <1>5, <2>1, <2>2 DEF TypeOK
<1>8. /\ \A d \in Call : d # b => (Enqueuing(d)' <=> Enqueuing(d)) /\ (Waiting(d)' <=> Waiting(d))
      /\ \A d \in Call : (Active(d)' <=> Active(d)) /\ (Begun(d)' <=> Begun(d))
      /\ ~Enqueuing(b)' /\ Waiting(b)'
  BY <1>0, <1>1, <1>3 DEF Enqueuing, Waiting, Active, Begun, IsCurrent, TypeOK, Call
<1>9. \A d, k : Queued(d, k)' <=> Queued(d, k) \/ (d = b /\ k \in 1 .. m - 1)
  <2> SUFFICES ASSUME NEW d, NEW k
               PROVE  Queued(d, k)' <=> Queued(d, k) \/ (d = b /\ k \in 1 .. m - 1)
    OBVIOUS
  <2>1. ASSUME NEW i \in DOMAIN tasks', tasks'[i] = <<d, k>>
        PROVE  Queued(d, k) \/ (d = b /\ k \in 1 .. m - 1)
    <3>1. CASE i \in 1 .. Len(tasks)
      BY <2>1, <3>1, <1>5 DEF Queued
    <3>2. CASE i \in Len(tasks) + 1 .. Len(tasks) + (m - 1)
      BY <2>1, <3>2, <1>5
    <3> QED BY <3>1, <3>2, <1>5
  <2>2. Queued(d, k) => Queued(d, k)'
    <3>1. \A i \in DOMAIN tasks : i \in DOMAIN tasks' /\ tasks'[i] = tasks[i]
      BY <1>2, <1>5
    <3> QED BY <3>1 DEF Queued
  <2>3. d = b /\ k \in 1 .. m - 1 => Queued(d, k)'
    BY <1>5a DEF Queued
  <2>4. Queued(d, k)' => \E i \in DOMAIN tasks' : tasks'[i] = <<d, k>>
    BY DEF Queued
  <2> QED BY <2>1, <2>2, <2>3, <2>4
<1>10. \A d, k, L : HeldIn(d, k, L)' <=> HeldIn(d, k, L)
  BY <1>3 DEF HeldIn
<1>11. CallersInv'
  <2>1. \A e \in Callers : /\ CurrentCall(e)' = CurrentCall(e)
                           /\ cpc'[e] = IF e = c THEN "notify" ELSE cpc[e]
    BY <1>3 DEF CurrentCall, TypeOK
  <2>2. callNo[c] >= 1 /\ ChunkCount(size[CurrentCall(c)], NumWorkers) > 1
    BY <1>0 DEF CallersInv
  <2> QED BY <1>3, <2>1, <2>2 DEF CallersInv
<1>12. TasksDistinctInv'
  <2>1. ASSUME NEW i \in DOMAIN tasks', NEW j \in DOMAIN tasks', tasks'[i] = tasks'[j]
        PROVE  i = j
    <3>1. CASE i \in 1 .. Len(tasks) /\ j \in 1 .. Len(tasks)
      BY <2>1, <3>1, <1>5 DEF TasksDistinctInv
    <3>2. CASE i \in 1 .. Len(tasks) /\ j \in Len(tasks) + 1 .. Len(tasks) + (m - 1)
      BY <2>1, <3>2, <1>5, <1>6
    <3>3. CASE j \in 1 .. Len(tasks) /\ i \in Len(tasks) + 1 .. Len(tasks) + (m - 1)
      BY <2>1, <3>3, <1>5, <1>6
    <3>4. CASE /\ i \in Len(tasks) + 1 .. Len(tasks) + (m - 1)
               /\ j \in Len(tasks) + 1 .. Len(tasks) + (m - 1)
      <4>1. i - Len(tasks) = j - Len(tasks)
        BY <2>1, <3>4, <1>5
      <4> QED BY <4>1, <3>4, <1>5
    <3> QED BY <3>1, <3>2, <3>3, <3>4, <1>5
  <2>2. ASSUME NEW w \in Workers, Busy(w), NEW i \in DOMAIN tasks'
        PROVE  tasks'[i] # cur[w]
    <3>1. CASE i \in 1 .. Len(tasks)
      BY <2>2, <3>1, <1>5 DEF TasksDistinctInv
    <3>2. CASE i \in Len(tasks) + 1 .. Len(tasks) + (m - 1)
      BY <2>2, <3>2, <1>5, <1>6
    <3> QED BY <3>1, <3>2, <1>5
  <2> QED BY <2>1, <2>2, <1>3 DEF TasksDistinctInv, Busy
<1>13. TasksPostedInv'
  <2>1. ASSUME NEW i \in DOMAIN tasks' PROVE (Posted(tasks[i]) /\ Waiting(tasks[i][1]))'
    <3>1. CASE i \in 1 .. Len(tasks)
      <4>1. tasks'[i] = tasks[i] /\ i \in DOMAIN tasks
        BY <3>1, <1>5
      <4> QED BY <4>1, <1>3, <1>6, <1>8 DEF TasksPostedInv, Posted
    <3>2. CASE i \in Len(tasks) + 1 .. Len(tasks) + (m - 1)
      <4>1. tasks'[i] = <<b, i - Len(tasks)>> /\ i - Len(tasks) \in 1 .. m - 1
        BY <1>5, <3>2
      <4>2. tasks'[i] \in Task /\ tasks'[i][1] = b /\ tasks'[i][2] \in TaskChunks(size[b], NumWorkers)
        BY <1>2, <4>1 DEF Task
      <4> QED BY <1>1, <1>3, <1>8, <4>2 DEF Posted
    <3> QED BY <3>1, <3>2, <1>5
  <2>2. (\A w \in Workers : Busy(w) => Posted(cur[w]))'
    BY <1>3, <1>6, <1>8 DEF TasksPostedInv, Posted, Busy
  <2>3. (\A w \in Workers : wpc[w] \in {"work", "count"} => Waiting(CurCall(w)))'
    BY <1>3, <1>6, <1>8 DEF TasksPostedInv, CurCall, Busy
  <2>4. (\A i \in DOMAIN tasks : Posted(tasks[i]) /\ Waiting(tasks[i][1]))'
    BY <2>1
  <2> QED BY <2>2, <2>3, <2>4 DEF TasksPostedInv
<1>14. CounterInv'
  <2> SUFFICES ASSUME NEW d \in Call
               PROVE  (remaining[d] = IF Enqueuing(d) THEN ChunkCount(size[d], NumWorkers) - 1
                                      ELSE Cardinality(Uncounted(d)))'
    BY DEF CounterInv
  <2>1. CASE d = b
    <3>1. \A k : ~HeldIn(b, k, {"work", "count"})
      BY <1>6 DEF HeldIn
    <3>2. Uncounted(b)' = 1 .. m - 1
      BY <1>2, <1>6, <1>9, <1>10, <3>1 DEF Uncounted
    <3>3. Cardinality(1 .. m - 1) = m - 1
      BY <1>2, FS_Interval
    <3>4. remaining[b] = m - 1
      BY <1>1 DEF CounterInv
    <3> QED BY <2>1, <1>3, <1>8, <3>2, <3>3, <3>4
  <2>2. CASE d # b
    <3>1. Uncounted(d)' = Uncounted(d)
      BY <2>2, <1>9, <1>10 DEF Uncounted
    <3> QED BY <2>2, <3>1, <1>3, <1>8 DEF CounterInv
  <2> QED BY <2>1, <2>2
<1>15. RanInv'
  <2> SUFFICES ASSUME NEW d \in Call, NEW k \in ChunkIds
               PROVE  (ran[d][k] = IF Begun(d) /\ k \in Chunks(size[d], NumWorkers) /\ ~Pending(d, k)
                                   THEN 1 ELSE 0)'
    BY DEF RanInv
  <2>1. ASSUME k \in Chunks(size[d], NumWorkers)
        PROVE  Pending(d, k)' <=> Pending(d, k)
    <3>1. CASE d = b
      <4>1. k = 0 \/ k \in 1 .. m - 1
        BY <2>1, <3>1, <1>2 DEF Chunks
      <4>2. CASE k = 0
        BY <3>1, <4>2, <1>0, <1>1, <1>3 DEF Pending, IsCurrent, TypeOK
      <4>3. CASE k \in 1 .. m - 1
        <5>1. k # 0
          BY <4>3
        <5> QED BY <3>1, <4>3, <5>1, <1>1, <1>9 DEF Pending
      <4> QED BY <4>1, <4>2, <4>3
    <3>2. CASE d # b
      BY <3>2, <1>1, <1>3, <1>8, <1>9, <1>10 DEF Pending, IsCurrent, TypeOK, Call
    <3> QED BY <3>1, <3>2
  <2> QED BY <2>1, <1>3, <1>8 DEF RanInv
<1>16. CopiesInv'
  <2> SUFFICES ASSUME NEW d \in Call
               PROVE  (/\ 0 \in copies[d] <=> Active(d) /\ ChunkCount(size[d], NumWorkers) > 1
                       /\ \A k \in ChunkIds \ {0} :
                            k \in copies[d]
                              <=> \/ Queued(d, k)
                                  \/ HeldIn(d, k, {"work", "count", "signal", "drop"}))'
    BY DEF CopiesInv
  <2>1. CASE d = b
    <3>1. copies'[b] = copies[b] \cup (1 .. m - 1)
      BY <1>3 DEF TypeOK
    <3> QED BY <2>1, <3>1, <1>2, <1>3, <1>8, <1>9, <1>10 DEF CopiesInv
  <2>2. CASE d # b
    <3>1. copies'[d] = copies[d]
      BY <2>2, <1>3 DEF TypeOK
    <3> QED BY <2>2, <3>1, <1>3, <1>8, <1>9, <1>10 DEF CopiesInv
  <2> QED BY <2>1, <2>2
<1> QED BY <1>7, <1>11, <1>12, <1>13, <1>14, <1>15, <1>16

\* The caller's own chunk stops being pending; alone, it leaves nothing to wait for.
LEMMA CallerRunsChunk0Ind ==
  ASSUME IndInv, NEW c \in Callers, CallerRunsChunk0(c) PROVE IndInv'
<1> USE DEF IndInv
<1>0. cpc[c] = "chunk0"
  BY DEF CallerRunsChunk0
<1> PICK b \in Call : b = CurrentCall(c)
  BY <1>0, CallerInCall
<1> PICK m \in Nat : m = ChunkCount(size[b], NumWorkers)
  BY <1>0, CallerInCall, ChunkCountType
<1>1. /\ b[1] = c /\ IsCurrent(b) /\ Begun(b) /\ b = <<c, callNo[c]>> /\ m >= 1
      /\ \A d \in Call : IsCurrent(d) /\ d[1] = c => d = b
  BY <1>0, CallerInCall DEF CurrentCall, CallersInv
<1>2. /\ ran' = [ran EXCEPT ![b][0] = @ + 1]
      /\ cpc' = [cpc EXCEPT ![c] = IF m = 1 THEN "returning" ELSE "join"]
      /\ UNCHANGED <<tasks, stopping, wpc, cur, callNo, size, remaining, copies, opc, spurious>>
  BY DEF CallerRunsChunk0
<1>3. 0 \in ChunkIds
  BY ThreadPoolAssumption DEF ChunkIds
<1>4. TypeOK'
  BY <1>2, <1>3 DEF TypeOK, CallerPC
<1>5. \A d \in Call : /\ Enqueuing(d)' <=> Enqueuing(d)
                      /\ Active(d)' <=> Active(d)
                      /\ Begun(d)' <=> Begun(d)
                      /\ d # b => (Waiting(d)' <=> Waiting(d))
  BY <1>0, <1>1, <1>2 DEF Enqueuing, Waiting, Active, Begun, IsCurrent, TypeOK, Call
<1>6. /\ \A d, k : Queued(d, k)' <=> Queued(d, k)
      /\ \A d, k, L : HeldIn(d, k, L)' <=> HeldIn(d, k, L)
  BY <1>2 DEF Queued, HeldIn
<1>7. m = 1 => remaining[b] = 0 /\ (\A k : ~Queued(b, k))
                 /\ \A k : ~HeldIn(b, k, {"work", "count", "signal", "drop"})
  <2> SUFFICES ASSUME m = 1 PROVE /\ remaining[b] = 0 /\ (\A k : ~Queued(b, k))
                                  /\ \A k : ~HeldIn(b, k, {"work", "count", "signal", "drop"})
    OBVIOUS
  <2>1. TaskChunks(size[b], NumWorkers) = {}
    BY DEF TaskChunks
  <2>2. \A k : ~Queued(b, k)
    BY <2>1 DEF Queued, TasksPostedInv, Posted
  <2>3. \A k : ~HeldIn(b, k, {"work", "count", "signal", "drop"})
    BY <2>1 DEF HeldIn, TasksPostedInv, Posted, Busy
  <2>4. Uncounted(b) = {} /\ ~Enqueuing(b)
    BY <1>0, <1>1, <2>2, <2>3 DEF Uncounted, HeldIn, Enqueuing
  <2> QED BY <2>2, <2>3, <2>4, FS_EmptySet DEF CounterInv
<1>8. CallersInv'
  <2>1. \A e \in Callers : CurrentCall(e)' = CurrentCall(e)
    BY <1>2 DEF CurrentCall
  <2>2. \A e \in Callers : e # c => cpc'[e] = cpc[e]
    BY <1>2 DEF TypeOK
  <2>3. callNo[c] >= 1 /\ cpc'[c] = (IF m = 1 THEN "returning" ELSE "join")
    BY <1>0, <1>2 DEF CallersInv, TypeOK
  <2>4. ASSUME NEW e \in Callers
        PROVE  (LET chunks == ChunkCount(size[CurrentCall(e)], NumWorkers)
                    IN /\ cpc[e] # "idle" => callNo[e] >= 1
                       /\ cpc[e] \in {"chunk0", "returning"} => chunks >= 1
                       /\ cpc[e] \in {"enqueue", "notify", "join", "dozing", "asleep"} => chunks > 1
                       /\ cpc[e] = "returning" => remaining[CurrentCall(e)] = 0)'
    <3>1. CASE e = c
      <4>1. /\ ChunkCount(size'[CurrentCall(e)'], NumWorkers) = m
            /\ remaining'[CurrentCall(e)'] = remaining[b]
            /\ callNo'[e] = callNo[c]
        BY <3>1, <1>2, <2>1
      <4>2. CASE m = 1
        BY <3>1, <4>1, <4>2, <1>7, <2>3
      <4>3. CASE m # 1
        <5>1. m > 1
          BY <4>3, <1>1
        <5>2. callNo'[e] >= 1 /\ cpc'[e] = "join"
          BY <3>1, <4>1, <4>3, <2>3
        <5> QED BY <4>1, <5>1, <5>2
      <4> QED BY <4>2, <4>3
    <3>2. CASE e # c
      BY <3>2, <1>2, <2>1, <2>2 DEF CallersInv
    <3> QED BY <3>1, <3>2
  <2> QED BY <2>4 DEF CallersInv
<1>9. TasksDistinctInv'
  BY <1>2 DEF TasksDistinctInv, Busy
<1>10. m # 1 => Waiting(b)'
  BY <1>1, <1>2 DEF Waiting, IsCurrent, TypeOK
<1>11. TasksPostedInv'
  <2>1. (\A i \in DOMAIN tasks : Posted(tasks[i]) /\ Waiting(tasks[i][1]))'
    <3>1. \A i \in DOMAIN tasks : tasks[i][1] \in Call /\ (m = 1 => tasks[i][1] # b)
      BY <1>7 DEF TasksPostedInv, Posted, Task, Queued
    <3> QED BY <1>2, <1>5, <1>10, <3>1 DEF TasksPostedInv, Posted
  <2>2. (\A w \in Workers : Busy(w) => Posted(cur[w]))'
    BY <1>2, <1>5 DEF TasksPostedInv, Posted, Busy, Task
  <2>3. (\A w \in Workers : wpc[w] \in {"work", "count"} => Waiting(CurCall(w)))'
    <3>1. \A w \in Workers : Busy(w) => CurCall(w) \in Call /\ (m = 1 => CurCall(w) # b)
      BY <1>7, BusyTask DEF HeldIn, Busy
    <3> QED BY <1>2, <1>5, <1>10, <3>1 DEF TasksPostedInv, CurCall, Busy
  <2> QED BY <2>1, <2>2, <2>3 DEF TasksPostedInv
<1>12. CounterInv'
  BY <1>2, <1>5, <1>6, CounterFrame DEF Uncounted
<1>13. RanInv'
  <2> SUFFICES ASSUME NEW d \in Call, NEW k \in ChunkIds
               PROVE  (ran[d][k] = IF Begun(d) /\ k \in Chunks(size[d], NumWorkers) /\ ~Pending(d, k)
                                   THEN 1 ELSE 0)'
    BY DEF RanInv
  <2>1. CASE d = b /\ k = 0
    <3>1. Pending(d, k) /\ ~Pending(d, k)'
      BY <2>1, <1>0, <1>1, <1>2 DEF Pending, IsCurrent, TypeOK
    <3>2. ran[d][k] = 0
      BY <3>1 DEF RanInv
    <3>3. ran'[d][k] = 1
      BY <2>1, <3>2, <1>2, <1>3 DEF TypeOK
    <3>4. Begun(d)' /\ k \in Chunks(size'[d], NumWorkers)
      BY <2>1, <1>1, <1>2, <1>5 DEF Chunks
    <3> QED BY <3>1, <3>3, <3>4
  <2>2. CASE ~(d = b /\ k = 0)
    <3>1. Pending(d, k)' <=> Pending(d, k)
      BY <2>2, <1>1, <1>2, <1>5, <1>6 DEF Pending, IsCurrent, TypeOK, Call
    <3>2. ran'[d][k] = ran[d][k]
      BY <2>2, <1>2, <1>3 DEF TypeOK
    <3> QED BY <3>1, <3>2, <1>2, <1>5 DEF RanInv
  <2> QED BY <2>1, <2>2
<1>14. CopiesInv'
  BY <1>2, <1>5, <1>6, CopiesFrame
<1> QED BY <1>4, <1>8, <1>9, <1>11, <1>12, <1>13, <1>14

\* A caller that is waited for by nobody: no task of its call is unfinished.
LEMMA NothingUncounted ==
  ASSUME IndInv, NEW d \in Call, ~Enqueuing(d), remaining[d] = 0
  PROVE  /\ \A k \in ChunkIds : ~Queued(d, k)
         /\ \A k \in ChunkIds : ~HeldIn(d, k, {"work", "count"})
         /\ \A i \in DOMAIN tasks : tasks[i][1] # d
         /\ \A w \in Workers : wpc[w] \in {"work", "count"} => CurCall(w) # d
<1> USE DEF IndInv
<1>1. Uncounted(d) = {}
  BY UncountedFinite, FS_EmptySet DEF CounterInv
<1>2. \A i \in DOMAIN tasks : tasks[i] \in Task
  BY DEF TasksPostedInv, Posted
<1>3. \A i \in DOMAIN tasks : tasks[i][1] # d
  BY <1>1, <1>2 DEF Uncounted, Queued, Task
<1>4. \A w \in Workers : wpc[w] \in {"work", "count"} => CurCall(w) # d
  BY <1>1, BusyTask DEF Uncounted, HeldIn, Busy
<1> QED BY <1>1, <1>3, <1>4 DEF Uncounted

\* The wait predicate holds only when nothing of the call is left to count.
LEMMA CallerJoinsInd ==
  ASSUME IndInv, NEW c \in Callers, CallerJoins(c) PROVE IndInv'
<1> USE DEF IndInv
<1>0. cpc[c] = "join"
  BY DEF CallerJoins
<1> PICK b \in Call : b = CurrentCall(c)
  BY <1>0, CallerInCall
<1>1. TypeOK'
  BY DEF TypeOK, CallerJoins, CallerPC
<1>2. CASE remaining[b] # 0
  <2>1. cpc' = [cpc EXCEPT ![c] = "dozing"]
    BY <1>2 DEF CallerJoins
  <2> QED BY <1>0, <1>1, <2>1, ControlFrame DEF TypeOK, CallerJoins
<1>3. CASE remaining[b] = 0
  <2>1. /\ b[1] = c /\ IsCurrent(b) /\ b = <<c, callNo[c]>>
        /\ \A d \in Call : IsCurrent(d) /\ d[1] = c => d = b
        /\ ChunkCount(size[b], NumWorkers) > 1 /\ ChunkCount(size[b], NumWorkers) \in Nat
        /\ callNo[c] >= 1
    BY <1>0, CallerInCall, ChunkCountType DEF CurrentCall, CallersInv
  <2>2. /\ cpc' = [cpc EXCEPT ![c] = "returning"]
        /\ UNCHANGED <<tasks, stopping, wpc, cur, callNo, size, remaining, copies, ran, opc, spurious>>
    BY <1>3 DEF CallerJoins
  <2>3. \A d \in Call : /\ Enqueuing(d)' <=> Enqueuing(d)
                        /\ Active(d)' <=> Active(d)
                        /\ Begun(d)' <=> Begun(d)
                        /\ d # b => (Waiting(d)' <=> Waiting(d))
    BY <1>0, <2>1, <2>2 DEF Enqueuing, Waiting, Active, Begun, IsCurrent, TypeOK, Call
  <2>4. /\ \A d, k : Queued(d, k)' <=> Queued(d, k)
        /\ \A d, k, L : HeldIn(d, k, L)' <=> HeldIn(d, k, L)
    BY <2>2 DEF Queued, HeldIn
  <2>5. /\ \A i \in DOMAIN tasks : tasks[i][1] # b
        /\ \A w \in Workers : wpc[w] \in {"work", "count"} => CurCall(w) # b
    BY <1>0, <1>3, <2>1, NothingUncounted DEF Enqueuing
  <2>6. CallersInv'
    <3>1. \A e \in Callers : CurrentCall(e)' = CurrentCall(e)
      BY <2>2 DEF CurrentCall
    <3>2. \A e \in Callers : cpc'[e] = IF e = c THEN "returning" ELSE cpc[e]
      BY <2>2 DEF TypeOK
    <3>4. ASSUME NEW e \in Callers
          PROVE  (LET chunks == ChunkCount(size[CurrentCall(e)], NumWorkers)
                      IN /\ cpc[e] # "idle" => callNo[e] >= 1
                         /\ cpc[e] \in {"chunk0", "returning"} => chunks >= 1
                         /\ cpc[e] \in {"enqueue", "notify", "join", "dozing", "asleep"} => chunks > 1
                         /\ cpc[e] = "returning" => remaining[CurrentCall(e)] = 0)'
      <4>1. CASE e = c
        <5>1. /\ ChunkCount(size'[CurrentCall(e)'], NumWorkers) = ChunkCount(size[b], NumWorkers)
              /\ remaining'[CurrentCall(e)'] = remaining[b]
              /\ callNo'[e] = callNo[c]
              /\ cpc'[e] = "returning"
          BY <4>1, <2>2, <3>1, <3>2
        <5> QED BY <5>1, <1>3, <2>1
      <4>2. CASE e # c
        BY <4>2, <2>2, <3>1, <3>2 DEF CallersInv
      <4> QED BY <4>1, <4>2
    <3> QED BY <3>4 DEF CallersInv
  <2>7. TasksDistinctInv'
    BY <2>2 DEF TasksDistinctInv, Busy
  <2>8. TasksPostedInv'
    BY <2>2, <2>3, <2>5 DEF TasksPostedInv, Posted, Busy, Task, CurCall
  <2>9. CounterInv'
    BY <2>2, <2>3, <2>4, CounterFrame DEF Uncounted
  <2>10. \A d \in Call, k \in ChunkIds : Pending(d, k)' <=> Pending(d, k)
    BY <1>0, <2>1, <2>2, <2>3, <2>4 DEF Pending, IsCurrent, TypeOK, Call
  <2>11. RanInv'
    BY <2>2, <2>10, RanFrame
  <2>12. CopiesInv'
    BY <2>2, <2>3, <2>4, CopiesFrame
  <2> QED BY <1>1, <2>6, <2>7, <2>8, <2>9, <2>11, <2>12
<1> QED BY <1>2, <1>3

\* Leaving parallel_for: no closure of the call is left to run or to count, so
\* what dies with the caller's frame is used by nobody.
LEMMA CallerReturnsInd ==
  ASSUME IndInv, NEW c \in Callers, CallerReturns(c) PROVE IndInv'
<1> USE DEF IndInv
<1>0. cpc[c] = "returning"
  BY DEF CallerReturns
<1> PICK b \in Call : b = CurrentCall(c)
  BY <1>0, CallerInCall
<1>1. /\ b[1] = c /\ IsCurrent(b) /\ b = <<c, callNo[c]>> /\ remaining[b] = 0
      /\ \A d \in Call : IsCurrent(d) /\ d[1] = c => d = b
  BY <1>0, CallerInCall DEF CurrentCall, CallersInv
<1>2. /\ cpc' = [cpc EXCEPT ![c] = "idle"]
      /\ copies' = [copies EXCEPT ![b] = @ \ {0}]
      /\ UNCHANGED <<tasks, stopping, wpc, cur, callNo, size, remaining, ran, opc, spurious>>
  BY DEF CallerReturns
<1>3. TypeOK'
  BY <1>2 DEF TypeOK, CallerPC
<1>4. \A d \in Call : /\ Enqueuing(d)' <=> Enqueuing(d)
                      /\ Active(d)' <=> Active(d) /\ d # b
                      /\ Begun(d)' <=> Begun(d)
                      /\ Waiting(d)' <=> Waiting(d)
  BY <1>0, <1>1, <1>2 DEF Enqueuing, Waiting, Active, Begun, IsCurrent, TypeOK, Call
<1>5. /\ \A d, k : Queued(d, k)' <=> Queued(d, k)
      /\ \A d, k, L : HeldIn(d, k, L)' <=> HeldIn(d, k, L)
  BY <1>2 DEF Queued, HeldIn
<1>6. CallersInv'
  <2>1. \A e \in Callers : CurrentCall(e)' = CurrentCall(e)
    BY <1>2 DEF CurrentCall
  <2>2. \A e \in Callers : cpc'[e] = IF e = c THEN "idle" ELSE cpc[e]
    BY <1>2 DEF TypeOK
  <2> QED BY <1>2, <2>1, <2>2 DEF CallersInv
<1>7. TasksDistinctInv'
  BY <1>2 DEF TasksDistinctInv, Busy
<1>8. TasksPostedInv'
  BY <1>2, <1>4 DEF TasksPostedInv, Posted, Busy, Task, CurCall
<1>9. CounterInv'
  BY <1>2, <1>4, <1>5, CounterFrame DEF Uncounted
<1>10. \A d \in Call, k \in ChunkIds : Pending(d, k)' <=> Pending(d, k)
  BY <1>0, <1>1, <1>2, <1>4, <1>5 DEF Pending, IsCurrent, TypeOK, Call
<1>11. RanInv'
  BY <1>2, <1>10, RanFrame
<1>12. CopiesInv'
  <2> SUFFICES ASSUME NEW d \in Call
               PROVE  (/\ 0 \in copies[d] <=> Active(d) /\ ChunkCount(size[d], NumWorkers) > 1
                       /\ \A k \in ChunkIds \ {0} :
                            k \in copies[d]
                              <=> \/ Queued(d, k)
                                  \/ HeldIn(d, k, {"work", "count", "signal", "drop"}))'
    BY DEF CopiesInv
  <2>1. copies'[d] = (IF d = b THEN copies[d] \ {0} ELSE copies[d]) /\ size' = size
    BY <1>2 DEF TypeOK
  <2> QED BY <2>1, <1>4, <1>5 DEF CopiesInv
<1> QED BY <1>3, <1>6, <1>7, <1>8, <1>9, <1>11, <1>12

-----------------------------------------------------------------------------
(* The theorems.                                                            *)

\* Nothing has begun: every call's counter, copies and record are empty.
LEMMA InitInd == Init => IndInv
<1> SUFFICES ASSUME Init PROVE IndInv
  OBVIOUS
<1> USE DEF Init
<1>1. TypeOK
  <2>1. tasks \in Seq(Task)
    OBVIOUS
  <2>2. 0 \in 0 .. MaxCalls
    BY ThreadPoolAssumption
  <2> QED BY <2>1, <2>2 DEF TypeOK, WorkerPC, CallerPC, OwnerPC
<1>2. /\ \A d, k : ~Queued(d, k)
      /\ \A d, k : ~HeldIn(d, k, {"work", "count", "signal", "drop"})
      /\ \A d, k : ~HeldIn(d, k, {"work", "count"})
      /\ \A w \in Workers : ~Busy(w)
      /\ tasks = <<>>
  BY DEF Queued, HeldIn, Busy
<1>3. \A d \in Call : ~Begun(d) /\ ~Active(d) /\ ~Enqueuing(d)
  BY DEF Begun, Active, Enqueuing, IsCurrent, Call
<1>4. CallersInv /\ TasksDistinctInv
  BY <1>2 DEF CallersInv, TasksDistinctInv
<1>5. TasksPostedInv
  BY <1>2 DEF TasksPostedInv, Busy
<1>6. CounterInv
  BY <1>2, <1>3, FS_EmptySet DEF CounterInv, Uncounted
<1>7. RanInv
  BY <1>3 DEF RanInv
<1>8. CopiesInv
  BY <1>2, <1>3 DEF CopiesInv
<1> QED BY <1>1, <1>4, <1>5, <1>6, <1>7, <1>8 DEF IndInv

\* Every step of the pool preserves the invariant.
LEMMA NextInd == IndInv /\ [Next]_vars => IndInv'
<1> SUFFICES ASSUME IndInv, [Next]_vars PROVE IndInv'
  OBVIOUS
<1>1. ASSUME NEW c \in Callers, NEW n \in Sizes, CallerBegins(c, n) PROVE IndInv'
  BY <1>1, CallerBeginsInd
<1>2. ASSUME NEW c \in Callers, CallerStep(c) PROVE IndInv'
  BY <1>2, CallerEnqueuesInd, CallerNotifiesInd, CallerRunsChunk0Ind, CallerJoinsInd,
     CallerSleepsInd, CallerReturnsInd DEF CallerStep
<1>3. ASSUME NEW w \in Workers, WorkerStep(w) PROVE IndInv'
  BY <1>3, WorkerPopsInd, WorkerExitsInd, WorkerDozesInd, WorkerSleepsInd,
     WorkerRunsChunkInd, WorkerCountsInd, WorkerSignalsInd, WorkerDropsInd DEF WorkerStep
<1>4. CASE OwnerStep
  BY <1>4, OwnerStepInd
<1>5. CASE SpuriousWake
  BY <1>5, SpuriousWakeInd
<1>6. CASE Terminated \/ UNCHANGED vars
  BY <1>6, StutterInd DEF Terminated
<1> QED BY <1>1, <1>2, <1>3, <1>4, <1>5, <1>6 DEF Next

\* The pool keeps its books: where every task is, what the counter counts, who
\* owns each DoneState and what has run always agree.
THEOREM InvariantHolds == Spec => []IndInv
  BY InitInd, NextInd, PTL DEF Spec

\* Type correctness; above all remaining, a size_t, never goes below zero.
THEOREM TypeCorrect == Spec => []TypeOK
<1>1. IndInv => TypeOK
  BY DEF IndInv
<1> QED BY <1>1, InvariantHolds, PTL

\* The race the code comment tells of is gone: a worker that counts or signals
\* finds the DoneState alive, one that runs a chunk finds its work function.
THEOREM NoUseAfterDestroyHolds == Spec => []NoUseAfterDestroy
<1>1. ASSUME IndInv PROVE NoUseAfterDestroy
  <2> USE <1>1
  <2>1. ASSUME NEW w \in Workers, wpc[w] \in {"count", "signal"}
        PROVE  copies[CurCall(w)] # {}
    <3>1. HeldIn(CurCall(w), CurChunk(w), {"work", "count", "signal", "drop"})
      BY <2>1, BusyTask DEF HeldIn, Busy
    <3>2. CurChunk(w) \in copies[CurCall(w)]
      BY <2>1, <3>1, BusyTask DEF IndInv, CopiesInv, Busy
    <3> QED BY <3>2
  <2>2. ASSUME NEW w \in Workers, wpc[w] = "work" PROVE Active(CurCall(w))
    BY <2>2 DEF IndInv, TasksPostedInv, Waiting, Active
  <2>3. \A i \in DOMAIN tasks : Active(tasks[i][1])
    BY DEF IndInv, TasksPostedInv, Waiting, Active
  <2> QED BY <2>1, <2>2, <2>3 DEF NoUseAfterDestroy
<1> QED BY <1>1, InvariantHolds, PTL

\* Once every thread is at rest the last shared_ptr to every DoneState is gone.
THEOREM NoDoneStateLeakHolds == Spec => []NoDoneStateLeak
<1>1. ASSUME IndInv PROVE NoDoneStateLeak
  <2> USE <1>1 DEF IndInv
  <2> SUFFICES ASSUME \A w \in Workers : ~Busy(w), \A c \in Callers : cpc[c] = "idle",
                      NEW d \in Call
               PROVE  copies[d] = {}
    BY DEF NoDoneStateLeak
  <2>1. ~Active(d) /\ ~Waiting(d) /\ ~Enqueuing(d)
    BY DEF Active, Waiting, Enqueuing, Call
  <2>2. \A i \in DOMAIN tasks : Waiting(tasks[i][1]) /\ tasks[i][1] \in Call
    BY DEF TasksPostedInv, Posted, Task
  <2>3. \A k : ~Queued(d, k)
    BY <2>1, <2>2 DEF Queued
  <2>4. \A k : ~HeldIn(d, k, {"work", "count", "signal", "drop"})
    BY DEF HeldIn, Busy
  <2>5. \A k \in ChunkIds : k \notin copies[d]
    BY <2>1, <2>3, <2>4 DEF CopiesInv
  <2> QED BY <2>5 DEF TypeOK
<1> QED BY <1>1, InvariantHolds, PTL

\* A call that is over has run every one of its chunks once and no other.
LEMMA ReturnedRan ==
  ASSUME IndInv, NEW d \in Call, Returned(d), NEW k \in ChunkIds
  PROVE  ran[d][k] = IF k \in Chunks(size[d], NumWorkers) THEN 1 ELSE 0
<1> USE DEF IndInv
<1>1. ~Waiting(d) /\ ~Enqueuing(d) /\ ~(IsCurrent(d) /\ cpc[d[1]] \in {"enqueue", "notify", "chunk0"})
  BY DEF Returned, Active, Waiting, Enqueuing
<1>2. \A i \in DOMAIN tasks : tasks[i][1] # d
  BY <1>1 DEF TasksPostedInv
<1>3. \A w \in Workers : wpc[w] = "work" => CurCall(w) # d
  BY <1>1 DEF TasksPostedInv
<1>4. ~Queued(d, k) /\ ~HeldIn(d, k, {"work"})
  BY <1>2, <1>3 DEF Queued, HeldIn, CurCall
<1>5. ~Pending(d, k)
  BY <1>1, <1>4 DEF Pending
<1> QED BY <1>5 DEF RanInv, Returned

\* When parallel_for returns, every index of [0, n) has been visited exactly
\* once, for every n and every number of workers.
THEOREM EveryIndexOnceHolds == Spec => []EveryIndexOnce
<1>1. ASSUME IndInv PROVE EveryIndexOnce
  <2> USE <1>1
  <2> SUFFICES ASSUME NEW d \in Call, Returned(d), NEW i \in 0 .. size[d] - 1
               PROVE  VisitedOnce(d, i)
    BY DEF EveryIndexOnce
  <2>1. size[d] \in Nat /\ NumWorkers \in Nat
    BY ThreadPoolAssumption DEF IndInv, TypeOK
  <2>2. PICK k \in Chunks(size[d], NumWorkers) : i \in ChunkRange(size[d], NumWorkers, k)
    BY <2>1, ChunksCover
  <2>3. k \in ChunkIds /\ k \in Nat
    BY <2>1, ChunkCountType DEF ChunkIds
  <2>4. ran[d][k] = 1
    BY <2>3, ReturnedRan
  <2>5. \A e \in ChunkIds \ {k} : i \notin ChunkRange(size[d], NumWorkers, e)
    BY <2>1, <2>2, <2>3, ChunksDisjoint DEF ChunkIds
  <2> QED BY <2>2, <2>4, <2>5 DEF VisitedOnce
<1> QED BY <1>1, InvariantHolds, PTL

-----------------------------------------------------------------------------
(* The pool implements ForkJoin.                                            *)

\* The refinement mapping, by the names the proof uses.
BusyMap == [c \in Callers |-> cpc[c] # "idle"]
Todo(c) == IF cpc[c] = "idle" THEN {}
           ELSE {k \in Chunks(size[CurrentCall(c)], NumWorkers) : ran[CurrentCall(c)][k] = 0}
TodoMap == [c \in Callers |-> Todo(c)]

\* A step that begins or ends no call and runs no chunk is a stutter.
LEMMA RefineStutter ==
  ASSUME UNCHANGED <<callNo, size, ran>>,
         \A c \in Callers : cpc'[c] = "idle" <=> cpc[c] = "idle"
  PROVE  UNCHANGED <<BusyMap, TodoMap>>
  BY DEF BusyMap, TodoMap, Todo, CurrentCall

\* A begun call hands over all its chunks, none of which has run.
LEMMA RefineBegins ==
  ASSUME IndInv, NEW c \in Callers, NEW n \in Sizes, CallerBegins(c, n)
  PROVE  UNCHANGED <<BusyMap, TodoMap>> \/ \E K \in SUBSET ChunkIds : FJ!Start(c, K)
<1> USE DEF IndInv
<1>0. /\ n \in Nat /\ callNo[c] \in Nat /\ callNo[c] < MaxCalls /\ cpc[c] = "idle"
      /\ <<c, callNo[c] + 1>> \in Call
  BY ThreadPoolAssumption DEF CallerBegins, TypeOK, Call
<1> PICK b \in Call : b = <<c, callNo[c] + 1>>
  BY <1>0
<1> PICK m \in Nat : m = ChunkCount(n, NumWorkers)
  BY <1>0, ChunkCountType
<1>1. /\ callNo' = [callNo EXCEPT ![c] = callNo[c] + 1]
      /\ size' = [size EXCEPT ![b] = n]
      /\ cpc' = [cpc EXCEPT ![c] = IF m = 0 THEN "idle"
                                   ELSE IF m = 1 THEN "chunk0" ELSE "enqueue"]
      /\ ran' = ran
  BY DEF CallerBegins
<1>2. /\ CurrentCall(c)' = b /\ size'[b] = n
      /\ \A k \in ChunkIds : ran'[b][k] = 0
      /\ Chunks(n, NumWorkers) \subseteq ChunkIds
  <2>1. ~Begun(b)
    BY <1>0 DEF Begun
  <2>2. CurrentCall(c)' = b /\ size'[b] = n
    BY <1>1 DEF CurrentCall, TypeOK
  <2> QED BY <1>0, <1>1, <2>1, <2>2, NothingBeforeBegin, ChunkCountType
<1>3. ASSUME NEW e \in Callers, e # c
      PROVE  Todo(e)' = Todo(e) /\ cpc'[e] = cpc[e]
  <2>1. cpc'[e] = cpc[e] /\ CurrentCall(e)' = CurrentCall(e) /\ CurrentCall(e) # b
    BY <1>1, <1>3 DEF TypeOK, CurrentCall
  <2>2. cpc[e] # "idle" => size'[CurrentCall(e)] = size[CurrentCall(e)]
    BY <1>1, <2>1, CallerInCall DEF TypeOK
  <2> QED BY <1>1, <2>1, <2>2 DEF Todo
<1>4. CASE m = 0
  <2>1. cpc'[c] = "idle" /\ Todo(c)' = {} /\ Todo(c) = {}
    BY <1>0, <1>1, <1>4 DEF TypeOK, Todo
  <2> QED BY <1>0, <1>3, <2>1 DEF BusyMap, TodoMap
<1>5. CASE m # 0
  <2>1. cpc'[c] # "idle"
    BY <1>1, <1>5 DEF TypeOK
  <2>2. Todo(c)' = Chunks(n, NumWorkers)
    BY <1>2, <2>1 DEF Todo
  <2>3. BusyMap' = [BusyMap EXCEPT ![c] = TRUE]
    BY <1>3, <2>1 DEF BusyMap
  <2>4. TodoMap' = [TodoMap EXCEPT ![c] = Chunks(n, NumWorkers)]
    BY <1>3, <2>2 DEF TodoMap
  <2>5. ~BusyMap[c]
    BY <1>0 DEF BusyMap
  <2> QED BY <1>2, <2>3, <2>4, <2>5 DEF FJ!Start, BusyMap, TodoMap, Todo
<1> QED BY <1>4, <1>5

\* Running a pending chunk of a caller's current call does a chunk.
LEMMA RefineRun ==
  ASSUME IndInv, NEW c \in Callers, cpc[c] # "idle", cpc'[c] # "idle",
         \A e \in Callers : e # c => cpc'[e] = cpc[e],
         UNCHANGED <<callNo, size>>,
         NEW k \in Chunks(size[CurrentCall(c)], NumWorkers),
         ran[CurrentCall(c)][k] = 0,
         ran' = [ran EXCEPT ![CurrentCall(c)][k] = @ + 1]
  PROVE  FJ!DoChunk(c, k)
<1> USE DEF IndInv
<1> PICK b \in Call : b = CurrentCall(c)
  BY CallerInCall
<1>1. /\ b = <<c, callNo[c]>> /\ k \in ChunkIds
      /\ \A e \in Callers : CurrentCall(e)' = CurrentCall(e)
  BY CallerInCall, ChunkCountType DEF CurrentCall
<1>2. /\ ran'[b] = [ran[b] EXCEPT ![k] = 1]
      /\ ran'[b][k] = 1
      /\ \A j \in ChunkIds : j # k => ran'[b][j] = ran[b][j]
      /\ \A d \in Call : d # b => ran'[d] = ran[d]
  BY <1>1 DEF TypeOK
<1>3. Chunks(size[b], NumWorkers) \subseteq ChunkIds
  BY CallerInCall, ChunkCountType
<1>4. Todo(c)' = Todo(c) \ {k} /\ k \in Todo(c)
  <2>1. Todo(c) = {j \in Chunks(size[b], NumWorkers) : ran[b][j] = 0}
    BY DEF Todo
  <2>2. Todo(c)' = {j \in Chunks(size[b], NumWorkers) : ran'[b][j] = 0}
    BY <1>1 DEF Todo
  <2>3. ran[b][k] = 0 /\ k \in Chunks(size[b], NumWorkers)
    OBVIOUS
  <2> QED BY <2>1, <2>2, <2>3, <1>2, <1>3
<1>5. ASSUME NEW e \in Callers, e # c
      PROVE  Todo(e)' = Todo(e) /\ (cpc'[e] # "idle" <=> cpc[e] # "idle")
  <2>1. cpc'[e] = cpc[e] /\ CurrentCall(e) # b
    BY <1>1, <1>5 DEF CurrentCall
  <2>2. cpc[e] # "idle" => CurrentCall(e) \in Call
    BY CallerInCall
  <2> QED BY <1>1, <1>2, <2>1, <2>2 DEF Todo
<1>6. TodoMap' = [TodoMap EXCEPT ![c] = Todo(c) \ {k}]
  BY <1>4, <1>5 DEF TodoMap
<1>7. BusyMap' = BusyMap
  BY <1>5 DEF BusyMap
<1> QED BY <1>4, <1>6, <1>7 DEF FJ!DoChunk, BusyMap, TodoMap, Todo

\* A worker that runs a chunk does it for a caller that is waiting.
LEMMA RefineWorkerRuns ==
  ASSUME IndInv, NEW w \in Workers, WorkerRunsChunk(w)
  PROVE  \E c \in Callers, k \in ChunkIds : FJ!DoChunk(c, k)
<1> USE DEF IndInv
<1>1. Busy(w) /\ wpc[w] = "work"
  BY DEF WorkerRunsChunk, Busy
<1> PICK b \in Call : b = CurCall(w)
  BY <1>1, BusyTask
<1> PICK k \in ChunkIds \ {0} : k = CurChunk(w)
  BY <1>1, BusyTask
<1> PICK c \in Callers : c = b[1]
  BY DEF Call
<1>2. /\ cpc[c] # "idle" /\ IsCurrent(b) /\ b = CurrentCall(c)
      /\ k \in Chunks(size[b], NumWorkers)
  <2>1. Waiting(b) /\ k \in TaskChunks(size[b], NumWorkers)
    BY <1>1, BusyTask DEF TasksPostedInv
  <2> QED BY <2>1 DEF Waiting, IsCurrent, CurrentCall, Call, TaskChunks, Chunks
<1>3. ran[b][k] = 0
  <2>1. HeldIn(b, k, {"work"})
    BY <1>1, BusyTask DEF HeldIn
  <2> QED BY <2>1 DEF RanInv, Pending
<1>4. /\ ran' = [ran EXCEPT ![b][k] = @ + 1]
      /\ UNCHANGED <<cpc, callNo, size>>
  BY DEF WorkerRunsChunk
<1> QED BY <1>2, <1>3, <1>4, RefineRun

\* The caller's own chunk is done once, while its call is in progress.
LEMMA RefineCallerRuns ==
  ASSUME IndInv, NEW c \in Callers, CallerRunsChunk0(c)
  PROVE  FJ!DoChunk(c, 0)
<1> USE DEF IndInv
<1>0. cpc[c] = "chunk0"
  BY DEF CallerRunsChunk0
<1> PICK b \in Call : b = CurrentCall(c)
  BY <1>0, CallerInCall
<1>1. IsCurrent(b) /\ b[1] = c /\ 0 \in Chunks(size[b], NumWorkers) /\ 0 \in ChunkIds
  BY <1>0, CallerInCall, ChunkCountType, ThreadPoolAssumption DEF CallersInv, Chunks, ChunkIds
<1>2. ran[b][0] = 0
  <2>1. Pending(b, 0)
    BY <1>0, <1>1 DEF Pending
  <2> QED BY <1>1, <2>1 DEF RanInv
<1>3. /\ ran' = [ran EXCEPT ![b][0] = @ + 1]
      /\ cpc'[c] # "idle"
      /\ \A e \in Callers : e # c => cpc'[e] = cpc[e]
      /\ UNCHANGED <<callNo, size>>
  BY DEF CallerRunsChunk0, TypeOK
<1> QED BY <1>0, <1>1, <1>2, <1>3, RefineRun

\* A caller leaves only when all its chunks have run.
LEMMA RefineReturns ==
  ASSUME IndInv, NEW c \in Callers, CallerReturns(c)
  PROVE  FJ!Finish(c)
<1> USE DEF IndInv
<1>0. cpc[c] = "returning"
  BY DEF CallerReturns
<1> PICK b \in Call : b = CurrentCall(c)
  BY <1>0, CallerInCall
<1>1. /\ IsCurrent(b) /\ Begun(b) /\ b[1] = c /\ remaining[b] = 0 /\ ~Enqueuing(b)
      /\ Chunks(size[b], NumWorkers) \subseteq ChunkIds
  BY <1>0, CallerInCall, ChunkCountType DEF CallersInv, Enqueuing
<1>2. \A k \in ChunkIds : ~Pending(b, k)
  <2>1. \A k \in ChunkIds : ~HeldIn(b, k, {"work"})
    BY <1>1, NothingUncounted DEF HeldIn
  <2> QED BY <1>0, <1>1, <2>1, NothingUncounted DEF Pending
<1>3. Todo(c) = {}
  BY <1>1, <1>2 DEF RanInv, Todo
<1>4. /\ cpc' = [cpc EXCEPT ![c] = "idle"]
      /\ UNCHANGED <<callNo, size, ran>>
  BY DEF CallerReturns
<1>5. TodoMap' = TodoMap
  <2>1. \A e \in Callers : Todo(e)' = Todo(e)
    BY <1>3, <1>4 DEF Todo, CurrentCall, TypeOK
  <2> QED BY <2>1 DEF TodoMap
<1>6. BusyMap' = [BusyMap EXCEPT ![c] = FALSE]
  BY <1>4 DEF BusyMap, TypeOK
<1> QED BY <1>0, <1>3, <1>5, <1>6 DEF FJ!Finish, BusyMap, TodoMap, Todo

\* Every step of the pool is a step of ForkJoin or a stutter.
LEMMA RefineNext ==
  ASSUME IndInv, [Next]_vars
  PROVE  [FJ!Next]_FJ!vars
<1> USE DEF IndInv
<1>1. ASSUME UNCHANGED <<BusyMap, TodoMap>> PROVE UNCHANGED FJ!vars
  BY <1>1 DEF FJ!vars, BusyMap, TodoMap, Todo
<1>2. ASSUME NEW c \in Callers, NEW n \in Sizes, CallerBegins(c, n) PROVE [FJ!Next]_FJ!vars
  BY <1>1, <1>2, RefineBegins DEF FJ!Next
<1>3. ASSUME NEW c \in Callers, CallerStep(c) PROVE [FJ!Next]_FJ!vars
  <2>1. CASE CallerRunsChunk0(c)
    <3>1. 0 \in ChunkIds
      BY ThreadPoolAssumption DEF ChunkIds
    <3> QED BY <2>1, <3>1, RefineCallerRuns DEF FJ!Next
  <2>2. CASE CallerReturns(c)
    BY <2>2, RefineReturns DEF FJ!Next
  <2>3. CASE CallerEnqueues(c) \/ CallerNotifies(c) \/ CallerJoins(c) \/ CallerSleeps(c)
    <3>1. /\ UNCHANGED <<callNo, size, ran>>
          /\ \A e \in Callers : cpc'[e] = "idle" <=> cpc[e] = "idle"
      BY <2>3 DEF CallerEnqueues, CallerNotifies, CallerJoins, CallerSleeps, TypeOK
    <3> QED BY <1>1, <3>1, RefineStutter
  <2> QED BY <1>3, <2>1, <2>2, <2>3 DEF CallerStep
<1>4. ASSUME NEW w \in Workers, WorkerStep(w) PROVE [FJ!Next]_FJ!vars
  <2>1. CASE WorkerRunsChunk(w)
    BY <2>1, RefineWorkerRuns DEF FJ!Next
  <2>2. CASE WorkerSignals(w)
    <3>1. /\ UNCHANGED <<callNo, size, ran>>
          /\ \A e \in Callers : cpc'[e] = "idle" <=> cpc[e] = "idle"
      BY <2>2 DEF WorkerSignals, WakeCaller, TypeOK
    <3> QED BY <1>1, <3>1, RefineStutter
  <2>3. CASE \/ WorkerPops(w) \/ WorkerExits(w) \/ WorkerDozes(w) \/ WorkerSleeps(w)
             \/ WorkerCounts(w) \/ WorkerDrops(w)
    <3>1. UNCHANGED <<callNo, size, ran, cpc>>
      BY <2>3 DEF WorkerPops, WorkerExits, WorkerDozes, WorkerSleeps, WorkerCounts, WorkerDrops
    <3> QED BY <1>1, <3>1, RefineStutter
  <2> QED BY <1>4, <2>1, <2>2, <2>3 DEF WorkerStep
<1>5. CASE OwnerStep \/ SpuriousWake \/ Terminated \/ UNCHANGED vars
  <2>1. /\ UNCHANGED <<callNo, size, ran>>
        /\ \A e \in Callers : cpc'[e] = "idle" <=> cpc[e] = "idle"
    BY <1>5 DEF OwnerStep, OwnerStops, OwnerNotifies, OwnerJoins, SpuriousWake, Terminated, vars, TypeOK
  <2> QED BY <1>1, <2>1, RefineStutter
<1> QED BY <1>2, <1>3, <1>4, <1>5 DEF Next

\* parallel_for is a fork-join: it blocks its caller until every chunk of the
\* call has run, whatever the number of workers, callers and calls.
THEOREM ForkJoinImplemented == Spec => ImplementsForkJoin
<1>1. Init => FJ!Init
  BY DEF Init, FJ!Init
<1>2. IndInv /\ [Next]_vars => [FJ!Next]_FJ!vars
  BY RefineNext
<1> QED BY <1>1, <1>2, InvariantHolds, PTL DEF Spec, ImplementsForkJoin, FJ!Spec
=============================================================================
