------------------------------ MODULE Launcher ------------------------------
(***************************************************************************)
(* The launcher (launcher/runtime.go, server.go, config.go): it starts one  *)
(* runtime process at a time, waits for its port, and forgets a process     *)
(* that exits; beside that it keeps a configuration in memory and in a      *)
(* file.  RuntimeManager.mu is held for the whole of a Load, launcherState  *)
(* .mu by a request for the models while it waits for the former.  A file is *)
(* saved by a truncation and a write, and the launcher may stop at any step. *)
(***************************************************************************)
EXTENDS Integers, FiniteSets

CONSTANTS
    MaxLoads,     \* bound: runtimes started
    MaxPolls,     \* bound: rounds of the wait for the port before its deadline
    MaxPosts,     \* bound: configurations posted
    MaxStops,     \* bound: stops of the launcher
    Clients,      \* who posts configurations
    Configs,      \* the configurations that are posted, as their model roots
    DefaultRoots

ASSUME LauncherAssumption ==
    /\ MaxLoads \in Nat \ {0} /\ MaxPolls \in Nat \ {0} /\ MaxPosts \in Nat
    /\ MaxStops \in Nat

Procs == 1 .. MaxLoads
NoProc == 0

VARIABLES
    proc,         \* each runtime: "none", "starting", "listening" or "exited"
    killed,       \* the runtimes that were sent a kill
    cmd,          \* RuntimeManager.cmd and .loaded
    load,         \* the Load that holds RuntimeManager.mu: where, whose, rounds
    watched,      \* the runtimes with a watchdog
    cfg,          \* launcherState.cfg
    file,         \* the configuration file: "whole" with a configuration, or "cut"
    boot,         \* the launcher: "down", its start at its save, or "up"
    post,         \* each client's POST /api/config
    models,       \* a request for the models holds launcherState.mu
    posts, stops, \* counters of the bounds
    left,         \* history: runtimes alive when the launcher stopped
    settled,      \* history: {the last configuration posted with no other beside it}
    alone,        \* history: clients whose POST has had no other beside it
    torn          \* history: since it was settled, a start cut the file and wrote none

runtimeVars == <<proc, killed, cmd, load, watched>>
configVars == <<cfg, file, post, posts, settled, alone, torn>>
vars == <<runtimeVars, configVars, boot, models, stops, left>>

Free == [at |-> "free", proc |-> NoProc, polls |-> 0]
IdlePost == [at |-> "idle", cfg |-> {}]
Whole(c) == [state |-> "whole", cfg |-> c]
\* Nothing that parses: no file, or one whose text is not all there.
Cut == [state |-> "cut", cfg |-> {}]

Init ==
    /\ proc = [p \in Procs |-> "none"]
    /\ killed = {} /\ cmd = NoProc /\ load = Free /\ watched = {}
    /\ cfg = {} /\ file = Cut /\ boot = "down"
    /\ post = [c \in Clients |-> IdlePost]
    /\ models = FALSE /\ posts = 0 /\ stops = 0
    /\ left = {} /\ settled = {} /\ alone = {} /\ torn = FALSE

-----------------------------------------------------------------------------
(* RuntimeManager                                                           *)

Alive == {p \in Procs : proc[p] \in {"starting", "listening"}}
Listening == {p \in Procs : proc[p] = "listening"}
Started == {p \in Procs : proc[p] # "none"}

\* killLocked(): a kill is sent, and not waited for.
KillLocked ==
    /\ killed' = killed \cup ({cmd} \ {NoProc})
    /\ cmd' = NoProc

LoadBegins ==
    /\ boot = "up" /\ load = Free /\ Cardinality(Started) < MaxLoads
    /\ KillLocked
    /\ load' = [load EXCEPT !.at = "stat"]
    /\ UNCHANGED <<proc, watched, configVars, boot, models, stops, left>>

LoadFails == load' = Free

\* No binary, no model file, or the process does not start.
NothingToStart ==
    /\ load.at = "stat"
    /\ LoadFails
    /\ UNCHANGED <<proc, killed, cmd, watched, configVars, boot, models, stops, left>>

Start ==
    /\ load.at = "stat"
    /\ LET p == CHOOSE q \in Procs : proc[q] = "none"
       IN /\ proc' = [proc EXCEPT ![p] = "starting"]
          /\ load' = [at |-> "poll", proc |-> p, polls |-> 0]
    /\ UNCHANGED <<killed, cmd, watched, configVars, boot, models, stops, left>>

\* Mutated: the wait has no deadline.
NotCounted(n) == n

RoundsAfter(n) == n + 1

\* A round: first the exit channel, then the port.
SeeExit ==
    /\ load.at = "poll" /\ load.polls < MaxPolls
    /\ IF proc[load.proc] = "exited" THEN LoadFails
       ELSE load' = [load EXCEPT !.at = "dial", !.polls = RoundsAfter(@)]
    /\ UNCHANGED <<proc, killed, cmd, watched, configVars, boot, models, stops, left>>

\* Whoever listens on the port counts as healthy.
Dial ==
    /\ load.at = "dial"
    /\ load' = [load EXCEPT !.at = IF Listening # {} THEN "record" ELSE "poll"]
    /\ UNCHANGED <<proc, killed, cmd, watched, configVars, boot, models, stops, left>>

\* Mutated: the process that never became healthy is left running.
KilledAtDeadline == killed

KilledThen == killed \cup {load.proc}

\* 15 seconds are over.
Deadline ==
    /\ load.at = "poll"
    /\ killed' = KilledThen
    /\ LoadFails
    /\ UNCHANGED <<proc, cmd, watched, configVars, boot, models, stops, left>>

Recorded ==
    /\ load.at = "record"
    /\ cmd' = load.proc
    /\ watched' = watched \cup {load.proc}
    /\ load' = Free
    /\ UNCHANGED <<proc, killed, configVars, boot, models, stops, left>>

Unload ==
    /\ load = Free /\ cmd # NoProc
    /\ KillLocked
    /\ UNCHANGED <<proc, load, watched, configVars, boot, models, stops, left>>

\* Mutated: whatever is loaded is forgotten.
ForgetsAny(p) == TRUE

\* Mutated: nothing is forgotten.
ForgetsNone(p) == FALSE

Forgets(p) == cmd = p

\* The watchdog gets the exit of its process, and then the mutex.
Watchdog(p) ==
    /\ p \in watched /\ proc[p] = "exited" /\ load = Free
    /\ watched' = watched \ {p}
    /\ cmd' = IF Forgets(p) THEN NoProc ELSE cmd
    /\ UNCHANGED <<proc, killed, load, configVars, boot, models, stops, left>>

\* The runtimes: one takes the port, exits by itself, or dies of its kill.
Listen(p) ==
    /\ proc[p] = "starting" /\ Listening = {}
    /\ proc' = [proc EXCEPT ![p] = "listening"]
    /\ UNCHANGED <<killed, cmd, load, watched, configVars, boot, models, stops, left>>

Exit(p) ==
    /\ p \in Alive
    /\ proc' = [proc EXCEPT ![p] = "exited"]
    /\ UNCHANGED <<killed, cmd, load, watched, configVars, boot, models, stops, left>>

-----------------------------------------------------------------------------
(* The configuration.                                                       *)

\* reloadConfigFromDiskLocked(): a file that does not parse is passed over.
Reloaded == IF file.state = "whole" THEN file.cfg ELSE cfg

\* GET /api/config, and GET /api/models, which keeps the mutex for Status().
GetConfig ==
    /\ boot = "up" /\ ~models
    /\ cfg' = Reloaded
    /\ models' \in BOOLEAN
    /\ UNCHANGED <<runtimeVars, file, post, posts, settled, alone, torn, boot, stops, left>>

GetStatus ==
    /\ models /\ load = Free
    /\ models' = FALSE
    /\ UNCHANGED <<runtimeVars, configVars, boot, stops, left>>

\* POST /api/config: set under the mutex, saved after it.
PostSets(c, new) ==
    /\ boot = "up" /\ post[c].at = "idle" /\ posts < MaxPosts /\ ~models
    /\ cfg' = new
    /\ post' = [post EXCEPT ![c] = [at |-> "open", cfg |-> new]]
    /\ posts' = posts + 1
    /\ settled' = {}
    /\ alone' = IF \A d \in Clients : post[d].at = "idle" THEN {c} ELSE {}
    /\ UNCHANGED <<runtimeVars, file, boot, models, stops, left, torn>>

PostOpens(c) ==
    /\ post[c].at = "open"
    /\ file' = Cut
    /\ post' = [post EXCEPT ![c].at = "write"]
    /\ UNCHANGED <<runtimeVars, cfg, boot, models, posts, stops, left, settled, alone, torn>>

\* Written at offset 0: a longer text another one left there shows at its end.
Overlaid(new) ==
    IF file.state = "whole" /\ Cardinality(file.cfg) > Cardinality(new) THEN Cut
    ELSE Whole(new)

PostWrites(c) ==
    /\ post[c].at = "write"
    /\ file' = Overlaid(post[c].cfg)
    /\ post' = [post EXCEPT ![c] = IdlePost]
    /\ settled' = IF c \in alone THEN {post[c].cfg} ELSE settled
    /\ torn' = FALSE
    /\ alone' = alone \ {c}
    /\ UNCHANGED <<runtimeVars, cfg, boot, models, posts, stops, left>>

\* saveConfig() fails, and the answer is a 500: memory keeps what was posted.  The
\* file was not touched, or holds no more than a part of the text.
PostFails(c) ==
    /\ post[c].at \in {"open", "write"}
    /\ file' \in {file} \cup {f \in {Cut} : post[c].at = "write"}
    /\ post' = [post EXCEPT ![c] = IdlePost]
    /\ alone' = alone \ {c}
    /\ UNCHANGED <<runtimeVars, cfg, boot, models, posts, stops, left, settled, torn>>

-----------------------------------------------------------------------------
(* The launcher itself stops at any step, and starts; its runtimes go on.   *)

Stop ==
    /\ boot # "down" /\ stops < MaxStops
    /\ stops' = stops + 1
    /\ boot' = "down"
    /\ torn' = (torn \/ boot = "write")
    /\ post' = [c \in Clients |-> IdlePost] /\ alone' = {}
    /\ cmd' = NoProc /\ load' = Free /\ watched' = {} /\ models' = FALSE
    /\ left' = left \cup Alive
    /\ UNCHANGED <<proc, killed, cfg, file, posts, settled>>

\* Mutated: the defaults replace what was saved.
StartsFromDefaults == DefaultRoots

\* loadOrInitConfig(): the default roots are added to the saved ones; a file that
\* does not parse gives the defaults.
MergedRoots == IF file.state = "whole" THEN file.cfg \cup DefaultRoots ELSE DefaultRoots

\* The configuration that is read is saved before anything is served.
StartReads ==
    /\ boot = "down"
    /\ cfg' = MergedRoots
    /\ boot' = "open"
    /\ UNCHANGED <<runtimeVars, file, post, posts, settled, alone, torn, models, stops, left>>

StartOpens ==
    /\ boot = "open"
    /\ file' = Cut
    /\ boot' = "write"
    /\ UNCHANGED <<runtimeVars, cfg, post, posts, settled, alone, torn, models, stops, left>>

StartWrites ==
    /\ boot = "write"
    /\ file' = Whole(cfg)
    /\ boot' = "up"
    /\ UNCHANGED <<runtimeVars, cfg, post, posts, settled, alone, torn, models, stops, left>>

\* The error of this save is ignored or logged: the launcher serves all the same.
StartSaveFails ==
    /\ boot \in {"open", "write"}
    /\ torn' = (torn \/ boot = "write")
    /\ boot' = "up"
    /\ UNCHANGED <<runtimeVars, cfg, file, post, posts, settled, alone, models, stops, left>>

StartSteps == StartReads \/ StartOpens \/ StartWrites \/ StartSaveFails

LoadSteps == NothingToStart \/ Start \/ SeeExit \/ Dial \/ Deadline \/ Recorded

Next ==
    \/ LoadBegins \/ LoadSteps \/ Unload
    \/ \E p \in Procs : Watchdog(p) \/ Listen(p) \/ Exit(p)
    \/ GetConfig \/ GetStatus
    \/ \E c \in Clients : \/ \E new \in Configs : PostSets(c, new)
                          \/ PostOpens(c) \/ PostWrites(c) \/ PostFails(c)
    \/ Stop \/ StartSteps

Spec == Init /\ [][Next]_vars

\* Threads of the launcher run, Go's mutexes starve nobody, and a process that
\* was killed exits.
FairSpec ==
    /\ Spec
    /\ WF_vars(LoadSteps)
    /\ SF_vars(GetStatus)
    /\ \A p \in Procs : SF_vars(Watchdog(p)) /\ WF_vars(p \in killed /\ Exit(p))

-----------------------------------------------------------------------------
TypeOK ==
    /\ proc \in [Procs -> {"none", "starting", "listening", "exited"}]
    /\ Cardinality(Listening) <= 1
    /\ killed \subseteq Started /\ watched \subseteq Started
    /\ cmd \in {NoProc} \cup (Started \ killed)
    /\ load \in [at : {"free", "stat", "poll", "dial", "record"},
                 proc : {NoProc} \cup Started, polls : 0 .. MaxPolls]
    /\ load.at # "free" => cmd = NoProc
    /\ post \in [Clients -> [at : {"idle", "open", "write"}, cfg : Configs \cup {{}}]]
    /\ alone \subseteq Clients
    /\ boot \in {"down", "open", "write", "up"} /\ torn \in BOOLEAN
    /\ models \in BOOLEAN /\ posts \in 0 .. MaxPosts /\ stops \in 0 .. MaxStops

-----------------------------------------------------------------------------
(* The inductive invariant of the proofs.                                   *)

\* RuntimeManager.mu is held exactly while a Load is under way, and a Load has
\* a process of its own, not killed, from its start to its end.
LoadsInv ==
    /\ load.at = "free" => load = Free
    /\ load.at = "stat" => load.proc = NoProc /\ \E p \in Procs : proc[p] = "none"
    /\ load.at \in {"poll", "dial", "record"} => load.proc \in Started \ killed

\* A client whose POST had no other beside it is the only one under way, and
\* finds the file as it cut it; while a configuration is settled, or the launcher
\* is not up, there is none.
PostsInv ==
    /\ \A c \in alone :
          /\ post[c].at # "idle"
          /\ post[c].at = "write" => file = Cut
          /\ \A d \in Clients \ {c} : post[d].at = "idle"
    /\ settled # {} \/ boot # "up" => \A c \in Clients : post[c].at = "idle"

(* "If a previous runtime is running, it's killed first" (runtime.go 37): a   *)
(* runtime that is neither loaded nor being loaded has been sent a kill,     *)
(* whatever way its Load ended, unless the launcher itself stopped.          *)
EveryRuntimeIsOwned ==
    \A p \in Alive : p \in killed \cup {cmd, load.proc} \cup left

(* The watchdog "reaps the process when it exits later" (runtime.go 150): one *)
(* that fires late never clears the record of the runtime loaded after it,   *)
(* which goes only with its process, by Unload or Load, or with the launcher.*)
RecordGoesWithItsProcess ==
    [][cmd # NoProc /\ cmd' # cmd =>
          proc[cmd] = "exited" \/ cmd \in killed' \/ stops' # stops]_vars

(* A runtime that exits by itself does not stay on record: status does not    *)
(* show for ever a model that nobody serves; and every Load ends, so that     *)
(* the request for the models that waits for it under launcherState.mu, and  *)
(* everything that waits for that mutex, goes on (server.go 95-99).          *)
DeadRecordsGo == \A p \in Procs : (cmd = p /\ proc[p] = "exited") ~> cmd # p
RequestsReturn == (load.at # "free" ~> load.at = "free") /\ (models ~> ~models)

(* "Update + persist config" (launcher/README.md 51): a configuration posted   *)
(* while no other was being saved is in the file, through reloads, stops and *)
(* starts, until the next one is posted.  A start saves what it has read: from *)
(* its truncation to its write the configuration is in its memory only, and   *)
(* if it stops or fails just there, it is lost (`torn`); a start that stops or *)
(* fails at any other step loses nothing.                                   *)
SettledConfigStands ==
    ~torn => \A c \in settled :
        /\ boot # "write" => file.state = "whole" /\ c \subseteq file.cfg
        /\ boot \in {"open", "write"} => c \subseteq cfg

(* All of it together is kept by every step.                                *)
IndInv ==
    /\ TypeOK
    /\ LoadsInv
    /\ PostsInv
    /\ EveryRuntimeIsOwned
    /\ SettledConfigStands
=============================================================================
