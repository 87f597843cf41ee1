--------------------------- MODULE LauncherProofs ---------------------------
(***************************************************************************)
(* The launcher's invariants for any number of loads, polls, clients, posts *)
(* and stops.  Runtimes and configuration share no state but through a stop,  *)
(* so most actions disturb one half of the invariant only.                  *)
(***************************************************************************)
EXTENDS Launcher, FiniteSetTheorems, TLAPS

-----------------------------------------------------------------------------
(* Facts about a state.                                                     *)

\* Fewer runtimes started than there may be: one is left to start.
LEMMA OneIsLeft ==
  ASSUME proc \in [Procs -> {"none", "starting", "listening", "exited"}],
         Cardinality(Started) < MaxLoads
  PROVE  \E p \in Procs : proc[p] = "none"
<1> SUFFICES ASSUME Started = Procs PROVE FALSE
  BY DEF Started
<1>1. Cardinality(Procs) = MaxLoads
  BY LauncherAssumption, FS_Interval DEF Procs
<1> QED BY <1>1, LauncherAssumption

\* A set with no two elements has at most one.
LEMMA AtMostOne ==
  ASSUME NEW S, NEW p, S \subseteq {p}
  PROVE  Cardinality(S) <= 1
<1>1. Cardinality({}) = 0 /\ Cardinality({p}) = 1
  BY FS_EmptySet, FS_Singleton
<1>2. CASE S = {}
  BY <1>1, <1>2
<1>3. CASE S = {p}
  BY <1>1, <1>3
<1> QED BY <1>2, <1>3

\* A runtime that ends leaves no more listeners than there were.
LEMMA FewerListeners ==
  ASSUME Cardinality(Listening) <= 1, Listening' \subseteq Listening
  PROVE  Cardinality(Listening') <= 1
<1>1. IsFiniteSet(Listening)
  <2>1. IsFiniteSet(Procs)
    BY LauncherAssumption, FS_Interval DEF Procs
  <2> QED BY <2>1, FS_Subset DEF Listening
<1>2. /\ Cardinality(Listening) \in Nat /\ Cardinality(Listening') \in Nat
      /\ Cardinality(Listening') <= Cardinality(Listening)
  BY <1>1, FS_Subset, FS_CardinalityType
<1> QED BY <1>2

\* The two records every start begins with.
LEMMA FreshTypes ==
  /\ \A S : Free \in [at : {"free", "stat", "poll", "dial", "record"},
                      proc : {NoProc} \cup S, polls : 0 .. MaxPolls]
  /\ IdlePost \in [at : {"idle", "open", "write"}, cfg : Configs \cup {{}}]
  /\ Free.at = "free" /\ Free.proc = NoProc /\ IdlePost.at = "idle"
  BY LauncherAssumption DEF Free, IdlePost

-----------------------------------------------------------------------------
(* The inductive invariant, one step for each action.                       *)

\* Nothing runs, nothing is posted.
LEMMA InitInvariant == Init => IndInv
<1> SUFFICES ASSUME Init PROVE IndInv
  OBVIOUS
<1>1. Listening = {} /\ Started = {} /\ Alive = {}
  BY DEF Init, Listening, Started, Alive
<1>2. Cardinality(Listening) <= 1
  BY <1>1, FS_EmptySet
<1>3. TypeOK
  <2>1. load \in [at : {"free", "stat", "poll", "dial", "record"},
                  proc : {NoProc} \cup Started, polls : 0 .. MaxPolls]
    BY FreshTypes DEF Init
  <2>2. post \in [Clients -> [at : {"idle", "open", "write"}, cfg : Configs \cup {{}}]]
    BY FreshTypes DEF Init
  <2>3. posts \in 0 .. MaxPosts /\ stops \in 0 .. MaxStops
    BY LauncherAssumption DEF Init
  <2> QED BY <1>1, <1>2, <2>1, <2>2, <2>3, FreshTypes DEF Init, TypeOK
<1> QED BY <1>1, <1>3
        DEF Init, IndInv, LoadsInv, PostsInv, EveryRuntimeIsOwned, SettledConfigStands,
            Free, IdlePost

\* What neither the clients nor the file see.
LEMMA ConfigFrame ==
  ASSUME IndInv, UNCHANGED <<file, post, settled, alone, torn, boot>>,
         boot = "up" \/ cfg' = cfg
  PROVE  PostsInv' /\ SettledConfigStands'
  BY DEF IndInv, PostsInv, SettledConfigStands

\* What neither the runtimes nor the manager see.
LEMMA RuntimeFrame ==
  ASSUME IndInv, UNCHANGED <<runtimeVars, left>>
  PROVE  LoadsInv' /\ EveryRuntimeIsOwned'
  BY DEF IndInv, LoadsInv, EveryRuntimeIsOwned, runtimeVars, Alive, Started

\* A load, an unload or a watchdog moves no process.
LEMMA ManagerStep ==
  ASSUME IndInv,
         LoadBegins \/ NothingToStart \/ SeeExit \/ Dial \/ Deadline \/ Recorded \/ Unload
           \/ (\E p \in Procs : Watchdog(p))
  PROVE  IndInv'
<1> USE DEF IndInv
<1>1. UNCHANGED <<proc, configVars, boot, models, stops, left>>
  BY DEF LoadBegins, NothingToStart, SeeExit, Dial, Deadline, Recorded, Unload, Watchdog
<1>2. PostsInv' /\ SettledConfigStands'
  BY <1>1, ConfigFrame DEF configVars
<1>3. Started' = Started /\ Alive' = Alive /\ Listening' = Listening
  BY <1>1 DEF Started, Alive, Listening
<1> USE <1>1, <1>2, <1>3 DEF configVars, Free
<1>4. CASE LoadBegins
  <2>1. TypeOK' /\ load' = [Free EXCEPT !.at = "stat"]
    BY <1>4 DEF LoadBegins, KillLocked, TypeOK, NoProc
  <2>2. LoadsInv'
    BY <1>4, <2>1, OneIsLeft DEF LoadBegins, LoadsInv, TypeOK
  <2>3. EveryRuntimeIsOwned'
    BY <1>4, <2>1 DEF LoadBegins, KillLocked, EveryRuntimeIsOwned, TypeOK
  <2> QED BY <2>1, <2>2, <2>3
<1>5. CASE NothingToStart
  <2>1. TypeOK' /\ load.proc = NoProc
    BY <1>5, LauncherAssumption DEF NothingToStart, LoadFails, TypeOK, LoadsInv
  <2> QED BY <1>5, <2>1 DEF NothingToStart, LoadFails, LoadsInv, EveryRuntimeIsOwned
<1>6. CASE SeeExit /\ proc[load.proc] = "exited"
  <2>1. load' = Free /\ UNCHANGED <<killed, cmd, watched>> /\ load.proc \notin Alive
    BY <1>6 DEF SeeExit, LoadFails, Alive
  <2>2. TypeOK'
    BY <2>1, FreshTypes DEF TypeOK
  <2> QED BY <2>1, <2>2, FreshTypes DEF LoadsInv, EveryRuntimeIsOwned
<1>7. CASE SeeExit /\ proc[load.proc] # "exited"
  <2>1. /\ load' = [load EXCEPT !.at = "dial", !.polls = @ + 1]
        /\ load.polls < MaxPolls /\ load.at = "poll"
        /\ UNCHANGED <<killed, cmd, watched>>
    BY <1>7 DEF SeeExit, RoundsAfter
  <2>2. load.polls + 1 \in 0 .. MaxPolls
    BY <2>1, LauncherAssumption DEF TypeOK
  <2>3. TypeOK' /\ load'.at = "dial" /\ load'.proc = load.proc
    BY <2>1, <2>2 DEF TypeOK
  <2> QED BY <2>1, <2>3 DEF LoadsInv, EveryRuntimeIsOwned
<1>8. CASE Dial
  <2>1. TypeOK' /\ load'.at \in {"record", "poll"} /\ load'.proc = load.proc
    BY <1>8 DEF Dial, TypeOK
  <2> QED BY <1>8, <2>1 DEF Dial, LoadsInv, EveryRuntimeIsOwned
<1>9. CASE Deadline
  <2>1. TypeOK'
    BY <1>9, LauncherAssumption DEF Deadline, KilledThen, LoadFails, TypeOK, LoadsInv
  <2> QED BY <1>9, <2>1
          DEF Deadline, KilledThen, LoadFails, LoadsInv, EveryRuntimeIsOwned
<1>10. CASE Recorded
  <2>1. TypeOK'
    BY <1>10, LauncherAssumption DEF Recorded, TypeOK, LoadsInv
  <2>2. EveryRuntimeIsOwned'
    BY <1>10 DEF Recorded, EveryRuntimeIsOwned, TypeOK, Alive, Procs, NoProc
  <2> QED BY <1>10, <2>1, <2>2 DEF Recorded, LoadsInv
<1>11. CASE Unload
  <2>1. TypeOK'
    BY <1>11 DEF Unload, KillLocked, TypeOK
  <2> QED BY <1>11, <2>1 DEF Unload, KillLocked, LoadsInv, EveryRuntimeIsOwned
<1>12. ASSUME NEW p \in Procs, Watchdog(p) PROVE IndInv'
  <2>1. TypeOK'
    BY <1>12 DEF Watchdog, TypeOK
  <2>2. EveryRuntimeIsOwned'
    BY <1>12 DEF Watchdog, Forgets, EveryRuntimeIsOwned, Alive
  <2> QED BY <1>12, <2>1, <2>2 DEF Watchdog, LoadsInv
<1> QED BY <1>4, <1>5, <1>6, <1>7, <1>8, <1>9, <1>10, <1>11, <1>12

\* A Load has a runtime left to start, and takes it for its own.
LEMMA StartStep ==
  ASSUME IndInv, Start
  PROVE  IndInv'
<1> USE DEF IndInv
<1> DEFINE p == CHOOSE q \in Procs : proc[q] = "none"
<1>1. p \in Procs /\ proc[p] = "none"
  BY DEF Start, LoadsInv
<1>2. /\ proc' = [proc EXCEPT ![p] = "starting"]
      /\ load' = [at |-> "poll", proc |-> p, polls |-> 0]
      /\ UNCHANGED <<killed, cmd, watched, configVars, boot, models, stops, left>>
  BY DEF Start
<1> HIDE DEF p
<1>3. PostsInv' /\ SettledConfigStands'
  BY <1>2, ConfigFrame DEF configVars
<1>4. Started' = Started \cup {p} /\ Alive' = Alive \cup {p} /\ Listening' = Listening
  BY <1>1, <1>2 DEF Started, Alive, Listening, TypeOK
<1>5. TypeOK'
  BY <1>1, <1>2, <1>4, LauncherAssumption DEF TypeOK, Started, configVars, Start
<1>6. LoadsInv'
  BY <1>1, <1>2, <1>4 DEF LoadsInv, TypeOK, Started
<1>7. EveryRuntimeIsOwned'
  BY <1>2, <1>4 DEF EveryRuntimeIsOwned, LoadsInv, Start, Alive, Procs, NoProc
<1> QED BY <1>3, <1>5, <1>6, <1>7

\* A runtime that takes the port or ends is owned by whom it was.
LEMMA ProcessStep ==
  ASSUME IndInv, NEW p \in Procs, Listen(p) \/ Exit(p)
  PROVE  IndInv'
<1> USE DEF IndInv
<1>1. UNCHANGED <<killed, cmd, load, watched, configVars, boot, models, stops, left>>
  BY DEF Listen, Exit
<1>2. PostsInv' /\ SettledConfigStands'
  BY <1>1, ConfigFrame DEF configVars
<1>3. /\ proc' \in [Procs -> {"none", "starting", "listening", "exited"}]
      /\ Started' = Started /\ Alive' \subseteq Alive
      /\ \A q \in Procs : proc[q] = "none" <=> proc'[q] = "none"
  BY DEF Listen, Exit, TypeOK, Started, Alive
<1>4. Cardinality(Listening') <= 1
  <2>1. CASE Listen(p)
    <3>1. Listening' \subseteq {p}
      BY <2>1 DEF Listen, Listening, TypeOK
    <3> QED BY <3>1, AtMostOne
  <2>2. CASE Exit(p)
    <3>1. Listening' \subseteq Listening
      BY <2>2 DEF Exit, Listening, TypeOK
    <3> QED BY <3>1, FewerListeners DEF TypeOK
  <2> QED BY <2>1, <2>2
<1>5. TypeOK'
  BY <1>1, <1>3, <1>4 DEF TypeOK, configVars
<1>6. LoadsInv' /\ EveryRuntimeIsOwned'
  BY <1>1, <1>3 DEF LoadsInv, EveryRuntimeIsOwned
<1> QED BY <1>2, <1>5, <1>6

\* The configuration: a client alone in its POST cuts the file and fills it.
LEMMA ConfigStep ==
  ASSUME IndInv,
         GetConfig \/ GetStatus
           \/ (\E c \in Clients : \/ \E new \in Configs : PostSets(c, new)
                                  \/ PostOpens(c) \/ PostWrites(c) \/ PostFails(c))
  PROVE  IndInv'
<1> USE DEF IndInv
<1>1. UNCHANGED <<runtimeVars, boot, stops, left>>
  BY DEF GetConfig, GetStatus, PostSets, PostOpens, PostWrites, PostFails
<1>2. LoadsInv' /\ EveryRuntimeIsOwned'
  BY <1>1, RuntimeFrame
<1>3. Started' = Started /\ Listening' = Listening
  BY <1>1 DEF runtimeVars, Started, Listening
<1>4. CASE GetConfig \/ GetStatus
  <2>1. /\ UNCHANGED <<file, post, posts, settled, alone, torn>> /\ models' \in BOOLEAN
        /\ boot = "up" \/ cfg' = cfg
    BY <1>4 DEF GetConfig, GetStatus, configVars
  <2>2. TypeOK'
    BY <1>1, <1>3, <2>1 DEF TypeOK, runtimeVars
  <2> QED BY <1>1, <1>2, <2>1, <2>2, ConfigFrame
<1>5. ASSUME NEW c \in Clients, NEW new \in Configs, PostSets(c, new) PROVE IndInv'
  <2>1. TypeOK'
    BY <1>1, <1>3, <1>5, LauncherAssumption DEF PostSets, TypeOK, runtimeVars
  <2>2. PostsInv'
    BY <1>5 DEF PostSets, PostsInv, TypeOK
  <2>3. SettledConfigStands'
    BY <1>5 DEF PostSets, SettledConfigStands
  <2> QED BY <1>2, <2>1, <2>2, <2>3
<1>6. ASSUME NEW c \in Clients, PostOpens(c) PROVE IndInv'
  <2>1. TypeOK'
    BY <1>1, <1>3, <1>6 DEF PostOpens, TypeOK, runtimeVars
  <2>2. settled = {} /\ settled' = {}
    BY <1>6 DEF PostOpens, PostsInv
  <2>3. PostsInv'
    BY <1>6, <2>2 DEF PostOpens, PostsInv, TypeOK
  <2> QED BY <1>2, <2>1, <2>2, <2>3 DEF SettledConfigStands
<1>7. ASSUME NEW c \in Clients, PostWrites(c) PROVE IndInv'
  <2>1. TypeOK'
    BY <1>1, <1>3, <1>7 DEF PostWrites, TypeOK, runtimeVars, IdlePost
  <2>2. settled = {}
    BY <1>7 DEF PostWrites, PostsInv
  <2>3. CASE c \in alone
    <3>1. file' = Whole(post[c].cfg) /\ settled' = {post[c].cfg}
      BY <1>7, <2>3 DEF PostWrites, PostsInv, Overlaid, Cut, Whole
    <3>2. alone = {c} /\ \A d \in Clients : post'[d].at = "idle"
      BY <1>7, <2>3 DEF PostWrites, PostsInv, TypeOK, IdlePost
    <3> QED BY <1>2, <1>7, <2>1, <3>1, <3>2
            DEF PostWrites, PostsInv, SettledConfigStands, Whole
  <2>4. CASE c \notin alone
    <3>1. settled' = {} /\ alone' = alone
      BY <1>7, <2>2, <2>4 DEF PostWrites
    <3>2. alone = {} /\ boot' = "up"
      BY <1>1, <1>7, <2>4 DEF PostWrites, PostsInv, TypeOK
    <3> QED BY <1>2, <2>1, <3>1, <3>2 DEF PostsInv, SettledConfigStands
  <2> QED BY <2>3, <2>4
<1>8. ASSUME NEW c \in Clients, PostFails(c) PROVE IndInv'
  <2>1. TypeOK'
    BY <1>1, <1>3, <1>8 DEF PostFails, TypeOK, runtimeVars, IdlePost
  <2>2. settled = {} /\ settled' = {}
    BY <1>8 DEF PostFails, PostsInv
  <2>3. PostsInv'
    <3>1. CASE c \in alone
      <4>1. alone' = {} /\ \A d \in Clients : post'[d].at = "idle"
        BY <1>8, <3>1 DEF PostFails, PostsInv, TypeOK, IdlePost
      <4> QED BY <2>2, <4>1 DEF PostsInv
    <3>2. CASE c \notin alone
      <4>1. alone = {} /\ alone' = {}
        BY <1>8, <3>2 DEF PostFails, PostsInv, TypeOK
      <4>2. boot' = "up"
        BY <1>1, <1>8 DEF PostFails, PostsInv
      <4> QED BY <2>2, <4>1, <4>2 DEF PostsInv
    <3> QED BY <3>1, <3>2
  <2> QED BY <1>2, <2>1, <2>2, <2>3 DEF SettledConfigStands
<1> QED BY <1>4, <1>5, <1>6, <1>7, <1>8

\* A stop forgets the runtimes and ends the posts; the file is as it was.
LEMMA StopStep ==
  ASSUME IndInv, Stop
  PROVE  IndInv'
<1> USE DEF IndInv
<1>1. Started' = Started /\ Listening' = Listening /\ Alive' = Alive
  BY DEF Stop, Started, Listening, Alive
<1>2. TypeOK'
  <2>1. load' \in [at : {"free", "stat", "poll", "dial", "record"},
                   proc : {NoProc} \cup Started', polls : 0 .. MaxPolls]
    BY FreshTypes DEF Stop
  <2>2. post' \in [Clients -> [at : {"idle", "open", "write"}, cfg : Configs \cup {{}}]]
    BY FreshTypes DEF Stop
  <2>3. posts' \in 0 .. MaxPosts /\ stops' \in 0 .. MaxStops
    BY LauncherAssumption DEF Stop, TypeOK
  <2>4. boot' \in {"down", "open", "write", "up"} /\ torn' \in BOOLEAN
    BY DEF Stop, TypeOK
  <2> QED BY <1>1, <2>1, <2>2, <2>3, <2>4, FreshTypes DEF Stop, TypeOK
<1>3. LoadsInv' /\ EveryRuntimeIsOwned'
  BY <1>1 DEF Stop, LoadsInv, EveryRuntimeIsOwned, Free
<1>4. PostsInv'
  BY DEF Stop, PostsInv, IdlePost
<1>5. SettledConfigStands'
  BY DEF Stop, SettledConfigStands
<1> QED BY <1>2, <1>3, <1>4, <1>5

\* A start has what is settled in its memory before it cuts the file.
LEMMA StartsStep ==
  ASSUME IndInv, StartSteps
  PROVE  IndInv'
<1> USE DEF IndInv
<1>1. /\ UNCHANGED <<runtimeVars, post, posts, settled, alone, models, stops, left>>
      /\ boot # "up" /\ boot' \in {"open", "write", "up"} /\ torn' \in BOOLEAN
  BY DEF StartSteps, StartReads, StartOpens, StartWrites, StartSaveFails, TypeOK
<1>2. LoadsInv' /\ EveryRuntimeIsOwned'
  BY <1>1, RuntimeFrame
<1>3. Started' = Started /\ Listening' = Listening
  BY <1>1 DEF runtimeVars, Started, Listening
<1>4. TypeOK'
  BY <1>1, <1>3 DEF TypeOK, runtimeVars
<1>5. PostsInv'
  <2>1. alone = {} /\ \A c \in Clients : post[c].at = "idle"
    BY <1>1 DEF PostsInv, TypeOK
  <2> QED BY <1>1, <2>1 DEF PostsInv
<1>6. SettledConfigStands'
  <2> USE DEF SettledConfigStands
  <2>1. CASE StartReads
    BY <2>1 DEF StartReads, MergedRoots
  <2>2. CASE StartOpens
    BY <2>2 DEF StartOpens
  <2>3. CASE StartWrites
    BY <2>3 DEF StartWrites, Whole
  <2>4. CASE StartSaveFails
    BY <2>4 DEF StartSaveFails, TypeOK
  <2> QED BY <2>1, <2>2, <2>3, <2>4 DEF StartSteps
<1> QED BY <1>2, <1>4, <1>5, <1>6

\* A stutter changes nothing that the invariant mentions.
LEMMA StutterStep ==
  ASSUME IndInv, UNCHANGED vars
  PROVE  IndInv'
<1>1. UNCHANGED <<runtimeVars, configVars, boot, models, stops, left>>
  BY DEF vars
<1>2. TypeOK'
  BY <1>1 DEF IndInv, TypeOK, runtimeVars, configVars, Started, Listening
<1> QED BY <1>1, <1>2, ConfigFrame, RuntimeFrame DEF IndInv, configVars

\* Every step of the launcher, its processes and its clients keeps the invariant.
LEMMA NextInvariant == IndInv /\ [Next]_vars => IndInv'
<1> SUFFICES ASSUME IndInv, [Next]_vars PROVE IndInv'
  OBVIOUS
<1>1. CASE LoadBegins \/ LoadSteps \/ Unload
  BY <1>1, ManagerStep, StartStep DEF LoadSteps
<1>2. ASSUME NEW p \in Procs, Watchdog(p) \/ Listen(p) \/ Exit(p) PROVE IndInv'
  BY <1>2, ManagerStep, ProcessStep
<1>3. CASE \/ GetConfig \/ GetStatus
           \/ \E c \in Clients : \/ \E new \in Configs : PostSets(c, new)
                                 \/ PostOpens(c) \/ PostWrites(c) \/ PostFails(c)
  BY <1>3, ConfigStep
<1> QED BY <1>1, <1>2, <1>3, StopStep, StartsStep, StutterStep DEF Next

-----------------------------------------------------------------------------
(* Theorems.                                                                *)

\* Whatever is loaded, posted, stopped or started, the books of the launcher agree:
\* whose each runtime is, who holds the manager's mutex, what the file holds.
THEOREM InvariantHolds == Spec => []IndInv
  BY InitInvariant, NextInvariant, PTL DEF Spec

\* Type correctness; two runtimes never listen on the port.
THEOREM TypeCorrect == Spec => []TypeOK
<1>1. IndInv => TypeOK
  BY DEF IndInv
<1> QED BY <1>1, InvariantHolds, PTL

\* However a Load ended, a runtime that is neither loaded nor being loaded was
\* sent a kill, unless the launcher itself stopped (runtime.go 37).
THEOREM EveryRuntimeIsOwnedHolds == Spec => []EveryRuntimeIsOwned
<1>1. IndInv => EveryRuntimeIsOwned
  BY DEF IndInv
<1> QED BY <1>1, InvariantHolds, PTL

\* A configuration posted with no other beside it is in the file until the next
\* post, through reloads, stops and starts (launcher/README.md 51), but for the
\* window between the truncation and the write of a start's own save.
THEOREM SettledConfigStandsHolds == Spec => []SettledConfigStands
<1>1. IndInv => SettledConfigStands
  BY DEF IndInv
<1> QED BY <1>1, InvariantHolds, PTL

\* The watchdog of an earlier runtime never clears the record of a later one
\* (runtime.go 150-160): a record goes with its process, by a kill, or with the
\* launcher.
THEOREM RecordGoesWithItsProcessHolds == Spec => RecordGoesWithItsProcess
<1> DEFINE Goes == cmd # NoProc /\ cmd' # cmd =>
                      proc[cmd] = "exited" \/ cmd \in killed' \/ stops' # stops
<1>1. ASSUME IndInv, [Next]_vars PROVE [Goes]_vars
  <2> SUFFICES ASSUME Next, cmd # NoProc, cmd' # cmd
               PROVE  proc[cmd] = "exited" \/ cmd \in killed' \/ stops' # stops
    BY <1>1
  <2>1. CASE LoadBegins \/ Unload
    BY <2>1 DEF LoadBegins, Unload, KillLocked
  <2>2. CASE LoadSteps
    BY <1>1, <2>2 DEF LoadSteps, NothingToStart, Start, SeeExit, Dial, Deadline, Recorded,
                      IndInv, TypeOK
  <2>3. ASSUME NEW p \in Procs, Watchdog(p) \/ Listen(p) \/ Exit(p)
        PROVE  proc[cmd] = "exited"
    BY <2>3 DEF Watchdog, Listen, Exit, Forgets
  <2>4. CASE GetConfig \/ GetStatus
    BY <2>4 DEF GetConfig, GetStatus, runtimeVars
  <2>5. ASSUME NEW c \in Clients, NEW new \in Configs,
               PostSets(c, new)
        PROVE  FALSE
    BY <2>5 DEF PostSets, runtimeVars
  <2>6. ASSUME NEW c \in Clients, PostOpens(c) \/ PostWrites(c) \/ PostFails(c) PROVE FALSE
    BY <2>6 DEF PostOpens, PostWrites, PostFails, runtimeVars
  <2>7. CASE Stop
    BY <1>1, <2>7 DEF Stop, IndInv, TypeOK
  <2>8. CASE StartSteps
    BY <2>8 DEF StartSteps, StartReads, StartOpens, StartWrites, StartSaveFails, runtimeVars
  <2> QED BY <2>1, <2>2, <2>3, <2>4, <2>5, <2>6, <2>7, <2>8 DEF Next
<1> QED BY <1>1, InvariantHolds, PTL DEF Spec, RecordGoesWithItsProcess
=============================================================================
