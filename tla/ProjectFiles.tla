---------------------------- MODULE ProjectFiles ----------------------------
(***************************************************************************)
(* The files of the project under their two writers: the handlers of        *)
(* /api/fs and /api/plan, one at a time under ws_mutex, and the agent's     *)
(* turn, whose tool calls do not take it (http_server.cpp 493-659, 889-920, *)
(* 1146-1176, with workspace.cpp, session.cpp and dispatch_tool).  A write  *)
(* opens the file empty, then stores the text; it may fail in between, and  *)
(* the process may stop at any step and be started again.                   *)
(***************************************************************************)
EXTENDS PlanText, Workspace

CONSTANTS
    Tree,         \* the tree at the start
    UserJobs,     \* what the handlers may be asked
    AgentJobs,    \* the tool calls the model may make
    PlanPath, TodosPath, LogPath,
    MaxJobs,      \* bound: calls of each of the two
    MaxStops      \* bound: stops of the process

Actors == {"user", "agent"}
Other(a) == IF a = "user" THEN "agent" ELSE "user"

\* A job names its path as the client sends it.
WriteJob(rel, text) == [kind |-> "write", rel |-> rel, text |-> text]
EditJob(rel, edits) == [kind |-> "edit", rel |-> rel, edits |-> edits]
RenameJob(rel, to) == [kind |-> "rename", rel |-> rel, to |-> to]
RemoveJob(rel) == [kind |-> "remove", rel |-> rel]
MkdirJob(rel) == [kind |-> "mkdir", rel |-> rel]
PhaseJob(number, done) ==
    [kind |-> "phase", rel |-> PlanPath, number |-> number, done |-> done]

AllJobs == UserJobs \cup AgentJobs
OwnPaths == {PlanPath, TodosPath, LogPath}

\* The links of the project are in its root and lead out of it, to something that
\* is there or to nothing; links to a place within it are not modelled.
ASSUME TreeAssumption ==
    /\ IsTree(Tree) /\ ~Exists(Tree, NoPath)
    /\ \A p \in DOMAIN Tree : IsFile(Tree, p) => IsLines(Tree[p].text)
    /\ \A p \in DOMAIN Links(Tree) :
          /\ Inside(p) /\ Len(p) = 1
          /\ Tree[p].to \in Seq(STRING) /\ ~Inside(Tree[p].to) /\ Tree[p].to # NoPath

\* A job is one of those above; only a handler checks off a phase, and the server's
\* own files lie behind no link.
ASSUME JobsAssumption ==
    /\ \A j \in AllJobs :
          /\ j.kind \in {"write", "edit", "rename", "remove", "mkdir", "phase"}
          /\ j.kind = "write" => j = WriteJob(j.rel, j.text)
          /\ j.kind = "edit" => j = EditJob(j.rel, j.edits)
          /\ j.kind = "rename" => j = RenameJob(j.rel, j.to) /\ j.to \in Seq(STRING)
          /\ j.kind = "remove" => j = RemoveJob(j.rel)
          /\ j.kind = "mkdir" => j = MkdirJob(j.rel)
          /\ j.kind = "phase" => /\ j = PhaseJob(j.number, j.done)
                                 /\ j.number \in DOMAIN Numbers /\ j.done \in BOOLEAN
          /\ j.kind = "write" => IsLines(j.text)
          /\ j.kind = "edit" => /\ j.edits \in Seq(Range(j.edits))
                                /\ \A i \in DOMAIN j.edits : IsLines(j.edits[i].replace)
          /\ j.rel \in Seq(STRING)
    /\ \A j \in AgentJobs : j.kind # "phase"
    /\ \A p \in OwnPaths :
          /\ p \in Seq(STRING) /\ p # <<>> /\ <<Head(p)>> \notin DOMAIN Links(Tree)
          /\ Inside(p) /\ Resolve(Tree, p) = p
    /\ PlanPath # LogPath

ASSUME BoundsAssumption == MaxJobs \in Nat /\ MaxStops \in Nat

VARIABLES
    disk,         \* the tree on the disk
    call,         \* what each actor is doing, see Idle
    turn,         \* the agent's turn: stage, planning, plan_written, the prompt
    jobs, stops,  \* counters of the bounds
    lost,         \* history: files a failed write or a stop left cut
    clobbered,    \* history: the agent and a handler ran into each other
    checked,      \* history: phases whose box a handler has checked in the file
    shown         \* history: the plan last sent to the panel, if its boxes had to be
                  \* cleared, and if nobody changed the file since

ghosts == <<lost, clobbered, checked, shown>>
vars == <<disk, call, turn, jobs, stops, ghosts>>

Absent == [there |-> FALSE, text |-> <<>>]
Content(tree, path) == IF IsFile(tree, path) THEN [there |-> TRUE, text |-> tree[path].text]
                       ELSE Absent

\* An actor is at "rest", "read", "open", "put" or "load", does a job on the
\* file at path, where it will store text; then comes the end of the call, the
\* "log" or the "load" of the plan.  History: what held held before it was opened.
Idle == [at |-> "rest", job |-> [kind |-> "none"], path |-> NoPath, text |-> <<>>,
         then |-> "end", held |-> Absent]

Nothing == [plan |-> NoPlan, current |-> FALSE, fixed |-> FALSE]
NoTurn == [stage |-> "none", planning |-> FALSE, written |-> FALSE,
           prompt |-> PlanForPrompt(NoPlan)]

Init ==
    /\ disk = Tree
    /\ call = [a \in Actors |-> Idle]
    /\ turn = NoTurn
    /\ jobs = [a \in Actors |-> 0] /\ stops = 0
    /\ lost = {} /\ clobbered = FALSE /\ checked = <<>> /\ shown = Nothing

-----------------------------------------------------------------------------
\* load_plan() and load_todos()
PlanLoads(tree) ==
    Exists(tree, PlanPath) =>
        /\ Readable(tree, PlanPath)
        /\ Exists(tree, TodosPath) =>
              /\ Readable(tree, TodosPath)
              /\ ~BadTodos(ReadText(tree, TodosPath))

LoadedPlan(tree) ==
    IF ~Exists(tree, PlanPath) THEN NoPlan
    ELSE WithTodos(ParsePlan(ReadText(tree, PlanPath)),
                   IF Exists(tree, TodosPath) THEN ReadText(tree, TodosPath) ELSE <<>>)

At(a, place) == call[a].at = place
Kind(a) == call[a].job.kind
Path(a) == call[a].path

\* The other actor has emptied a file at or below p, or has read what it is
\* about to write there.
InUse(a, p) ==
    LET b == Other(a)
    IN /\ IsPrefix(p, Path(b))
       /\ At(b, "put") \/ (At(b, "open") /\ Kind(b) # "write")

Clobbers(a, p) == clobbered' = (clobbered \/ InUse(a, p))

Touches(p) == IsPrefix(p, PlanPath)
StalePanel(p) == shown' = [shown EXCEPT !.current = @ /\ ~Touches(p)]

\* The call ends without a change.
Refuse(a) ==
    /\ call' = [call EXCEPT ![a] = Idle]
    /\ UNCHANGED <<disk, turn, stops, ghosts>>

\* The agent loads the plan again after a call that changed it.
AfterCall(a, p) ==
    IF a = "agent" /\ p \in {PlanPath, TodosPath} THEN "load" ELSE "end"

-----------------------------------------------------------------------------
(* Calls.                                                                   *)

\* A planning turn runs what has plan.md in its argument "path".
Allowed(a, j) ==
    a = "agent" =>
        /\ turn.stage = "calls"
        /\ turn.planning => j.kind # "rename" /\ j.rel = PlanPath

JobsOf(a) == IF a = "user" THEN UserJobs ELSE AgentJobs

Takes(a, j) ==
    /\ At(a, "rest") /\ jobs[a] < MaxJobs
    /\ j \in JobsOf(a) /\ Allowed(a, j)
    /\ jobs' = [jobs EXCEPT ![a] = @ + 1]

\* write(), edit() and the plan's handler, up to their first look at the file.
BeginWrite(a, j) ==
    /\ j.kind \in {"write", "edit", "phase"} /\ Takes(a, j)
    /\ LET p == Resolve(disk, j.rel)
       IN call' = [call EXCEPT ![a] = [Idle EXCEPT
             !.job = j, !.path = p,
             !.at = IF j.kind = "write" THEN "open" ELSE "read",
             !.text = IF j.kind = "write" THEN j.text ELSE <<>>,
             !.then = IF j.kind = "phase" /\ j.done THEN "log" ELSE AfterCall(a, p)]]
    /\ UNCHANGED <<disk, turn, stops, ghosts>>

\* rename(), remove() and mkdir(): the checks and the change.
ChangeTree(a, j) ==
    /\ j.kind \in {"rename", "remove", "mkdir"} /\ Takes(a, j)
    /\ LET from == Resolve(disk, j.rel)
           to == IF j.kind = "rename" THEN Resolve(disk, j.to) ELSE from
           does == CASE j.kind = "rename" -> CanRename(disk, from, to)
                     [] j.kind = "remove" -> CanRemove(disk, from)
                     [] j.kind = "mkdir"  -> CanMkdir(disk, from)
           after == CASE j.kind = "rename" -> Renamed(disk, from, to)
                      [] j.kind = "remove" -> Removed(disk, from)
                      [] j.kind = "mkdir"  -> WithDirs(disk, from)
       IN /\ disk' = IF does THEN after ELSE disk
          /\ call' = [call EXCEPT ![a].at =
                        IF disk' # disk /\ AfterCall(a, to) = "load" THEN "load" ELSE "rest"]
          /\ clobbered' = (clobbered \/ (disk' # disk /\ (InUse(a, from) \/ InUse(a, to))))
          /\ shown' = [shown EXCEPT !.current =
                          @ /\ (disk' # disk => ~Touches(from) /\ ~Touches(to))]
    /\ UNCHANGED <<turn, stops, lost, checked>>

\* What was read becomes the text to write, or the call is refused.  (write() resolves
\* the path again; a link that has come to lead to something since is refused there,
\* and is no file here.)
Proceed(a, ok, text) ==
    IF ok THEN /\ call' = [call EXCEPT ![a].at = "open", ![a].text = text]
               /\ UNCHANGED <<disk, turn, stops, ghosts>>
    ELSE Refuse(a)

ReadForEdit(a) ==
    /\ At(a, "read") /\ Kind(a) = "edit"
    /\ LET edits == call[a].job.edits
       IN Proceed(a, Editable(disk, Path(a), edits),
                  EditText(ReadText(disk, Path(a)), edits).text)
    /\ UNCHANGED jobs

\* POST /api/plan/phase: the plan is loaded, and written whole.
ReadForPhase(a) ==
    /\ At(a, "read") /\ Kind(a) = "phase" /\ Path(a) = PlanPath
    /\ LET plan == LoadedPlan(disk)
           j == call[a].job
       IN Proceed(a, PlanLoads(disk) /\ j.number \in DOMAIN plan.phases,
                  RenderPlan(Check(plan, j.number, j.done)))
    /\ UNCHANGED jobs

LogLine(number) == Prose(<<"phase", Numbers[number], "done">>)

\* append_changelog(): the log is read, at most MaxRead of it, and written whole.
ReadForLog(a) ==
    /\ At(a, "read") /\ Kind(a) = "phase" /\ Path(a) = LogPath
    /\ Proceed(a, Exists(disk, LogPath) => Readable(disk, LogPath),
               Append(IF Exists(disk, LogPath) THEN ReadText(disk, LogPath)
                      ELSE <<Prose(<<"log">>)>>,
                      LogLine(call[a].job.number)))
    /\ UNCHANGED jobs

Open(a) ==
    /\ At(a, "open")
    /\ LET p == Landing(disk, Path(a))
       IN IF CanWrite(disk, Path(a))
          THEN /\ disk' = Opened(disk, Path(a))
               /\ call' = [call EXCEPT ![a].at = "put", ![a].path = p,
                                       ![a].held = Content(disk, p)]
               /\ Clobbers(a, p) /\ StalePanel(p)
               /\ UNCHANGED <<turn, stops, lost, checked>>
          ELSE Refuse(a)
    /\ UNCHANGED jobs

\* The store is followed by the log, by loading the plan again, or by nothing.
AfterPut(c) ==
    CASE c.then = "end"  -> Idle
      [] c.then = "log"  -> [Idle EXCEPT !.at = "read", !.job = c.job, !.path = LogPath]
      [] c.then = "load" -> [Idle EXCEPT !.at = "load"]

Put(a) ==
    /\ At(a, "put")
    /\ disk' = IF IsFile(disk, Path(a)) THEN Stored(disk, Path(a), call[a].text) ELSE disk
    /\ call' = [call EXCEPT ![a] = AfterPut(@)]
    /\ checked' = IF call[a].then = "log" THEN Append(checked, call[a].job.number)
                  ELSE checked
    /\ Clobbers(a, Path(a))
    /\ IF Kind(a) = "fix" THEN shown' = [shown EXCEPT !.current = TRUE]
       ELSE StalePanel(Path(a))
    /\ UNCHANGED <<turn, jobs, stops, lost>>

\* Mutated: the result of the write is not looked at.
GoesOn(c) == AfterPut(c)

AfterFailure(c) == Idle

\* The disk is full: the file stays as it was opened, and the call fails.
PutFails(a) ==
    /\ At(a, "put") /\ stops < MaxStops
    /\ stops' = stops + 1
    /\ call' = [call EXCEPT ![a] = AfterFailure(@)]
    /\ lost' = lost \cup {Path(a)}
    /\ UNCHANGED <<disk, turn, jobs, clobbered, checked, shown>>

-----------------------------------------------------------------------------
(* The agent's turn.                                                        *)

\* The plan is loaded under ws_mutex, before the turn gets the model.
BeginTurn(planning) ==
    /\ turn.stage = "none" /\ At("user", "rest") /\ jobs["agent"] < MaxJobs
    /\ turn' = [stage |-> "calls", planning |-> planning, written |-> FALSE,
                prompt |-> PlanForPrompt(IF PlanLoads(disk) THEN LoadedPlan(disk) ELSE NoPlan)]
    /\ UNCHANGED <<disk, call, jobs, stops, ghosts>>

\* Mutated: the boxes of a plan that was just written stay checked.
MustFixNothing(plan) == FALSE

MustFix(plan) == turn.planning /\ Done(plan) # {}

\* A call changed the plan: it is loaded, its boxes cleared while planning, and
\* sent to the panel.
LoadAgain ==
    /\ At("agent", "load")
    /\ LET plan == LoadedPlan(disk)
           fix == PlanLoads(disk) /\ MustFix(plan)
       IN /\ IF PlanLoads(disk)
             THEN /\ turn' = [turn EXCEPT !.written = TRUE]
                  /\ shown' = [plan |-> IF fix THEN Unchecked(plan) ELSE plan,
                               current |-> ~fix /\ ~InUse("agent", PlanPath),
                               fixed |-> fix]
             ELSE UNCHANGED <<turn, shown>>
          /\ call' = [call EXCEPT !["agent"] =
                IF fix THEN [Idle EXCEPT !.at = "open", !.job = [kind |-> "fix"],
                                         !.path = PlanPath,
                                         !.text = RenderPlan(Unchecked(plan))]
                ELSE Idle]
    /\ UNCHANGED <<disk, jobs, stops, lost, clobbered, checked>>

\* Out of rounds, or a planning turn that has written its plan.
EndTurn ==
    /\ turn.stage = "calls" /\ At("agent", "rest")
    /\ turn' = NoTurn
    /\ UNCHANGED <<disk, call, jobs, stops, ghosts>>

\* The process stops and is started again on the same files.
Stop ==
    /\ stops < MaxStops
    /\ stops' = stops + 1
    /\ call' = [a \in Actors |-> Idle]
    /\ turn' = NoTurn
    /\ lost' = lost \cup {Path(a) : a \in {b \in Actors : At(b, "put")}}
    /\ shown' = Nothing
    /\ UNCHANGED <<disk, jobs, clobbered, checked>>

Call(a) ==
    \/ \E j \in JobsOf(a) : BeginWrite(a, j) \/ ChangeTree(a, j)
    \/ ReadForEdit(a) \/ ReadForPhase(a) \/ ReadForLog(a)
    \/ Open(a) \/ Put(a) \/ PutFails(a)

Next ==
    \/ \E a \in Actors : Call(a)
    \/ \E planning \in BOOLEAN : BeginTurn(planning)
    \/ LoadAgain \/ EndTurn
    \/ Stop

Spec == Init /\ [][Next]_vars

-----------------------------------------------------------------------------
\* Where the path of a job leads, as long as it is not refused: to itself, or through
\* a dangling link to the file created there.
Spots(rel) == {Resolve(Tree, rel), Landing(Tree, Resolve(Tree, rel))}

AllPaths == OwnPaths \cup {NoPath} \cup (UNION {Spots(j.rel) : j \in AllJobs})

IsCall(c) ==
    /\ DOMAIN c = {"at", "job", "path", "text", "then", "held"}
    /\ c.at \in {"rest", "read", "open", "put", "load"} /\ c.path \in AllPaths
    /\ c.then \in {"end", "log", "load"}

TypeOK ==
    /\ IsTree(disk)
    /\ DOMAIN call = Actors /\ \A a \in Actors : IsCall(call[a])
    /\ turn.stage = "none" => At("agent", "rest")
    /\ turn = [stage |-> turn.stage, planning |-> turn.planning,
               written |-> turn.written, prompt |-> turn.prompt]
    /\ jobs \in [Actors -> 0 .. MaxJobs] /\ stops \in 0 .. MaxStops
    /\ lost \subseteq AllPaths /\ clobbered \in BOOLEAN

\* The files as a client may think of them: one that is being written still
\* has its old text.
Writers(p) == {a \in Actors : At(a, "put") /\ Path(a) = p}
Seen(p) == IF Writers(p) = {} THEN Content(disk, p)
           ELSE call[CHOOSE a \in Writers(p) : TRUE].held
FileTexts == [p \in {q \in DOMAIN disk : Seen(q).there} |-> Seen(p).text]

Canon(j, p) == [f \in DOMAIN j \cup {"path"} |->
                   IF f = "path" THEN p
                   ELSE IF f = "to" THEN Resolve(Tree, j.to) ELSE j[f]]

AtomicJobs == UNION {{Canon(j, p) : p \in Spots(j.rel)} : j \in AllJobs}

Atomic == INSTANCE AtomicFiles
              WITH store <- FileTexts, Jobs <- AtomicJobs

(* "File ops are not otherwise serialized" (http_server.cpp 420): with        *)
(* ws_mutex around each request, every one of them, and every tool call that *)
(* does not run into one, changes the files as one step would: no update is  *)
(* lost, a failed edit leaves the file alone ("a failure part-way through    *)
(* must leave the file alone", workspace.cpp 311), and only a write that     *)
(* fails or a stop may cost a file, and then that file only.                 *)
ImplementsAtomicFiles == Atomic!Spec

\* Where the dangling links of the project lead.
Dangling == Range(Links(Tree)) \ DOMAIN Tree

(* "A request that needs to climb out" is refused, and a link inside the      *)
(* workspace is no way to what is outside (workspace.cpp 131-152): nothing   *)
(* outside is ever changed or removed.  What the code does let happen is that *)
(* a write through a dangling link creates the file it leads to, once: after *)
(* that the link is refused, but for a call that had resolved it before.     *)
OutsideUntouched ==
    \A p \in DOMAIN disk \cup DOMAIN Tree :
        ~Inside(p) =>
            \/ p \in DOMAIN disk /\ p \in DOMAIN Tree /\ disk[p] = Tree[p]
            \/ IsFile(disk, p) /\ p \in Dangling

\* The lines somebody may put into a file by hand: those of the files at the
\* start, and those a write or an edit brings.
Written ==
    UNION ({Range(Tree[p].text) : p \in {q \in DOMAIN Tree : IsFile(Tree, q)}}
           \cup {Range(j.text) : j \in {w \in AllJobs : w.kind = "write"}}
           \cup UNION {{Range(j.edits[i].replace) : i \in DOMAIN j.edits} :
                        j \in {e \in AllJobs : e.kind = "edit"}})

Recorded == {n \in DOMAIN Numbers : LogLine(n) \notin Written}
Count(text, line) == Cardinality(Matches(text, line))

(* "Append-only log of completed phases" (session.hpp 25): the box is checked *)
(* in the plan before the line is written, so a stop or a failure between    *)
(* the two leaves a phase without its line, never a line nobody wrote by     *)
(* hand for a phase whose box was not checked; and unless the agent and a    *)
(* handler ran into each other, no more lines than times it was.             *)
RecordedPhasesWereChecked ==
    IsFile(disk, LogPath) =>
        \A n \in Recorded :
            /\ Matches(disk[LogPath].text, LogLine(n)) # {} => Matches(checked, n) # {}
            /\ ~clobbered => Count(disk[LogPath].text, LogLine(n)) <= Count(checked, n)

\* What load_plan() makes of the file, and when it makes of a saved plan what was
\* saved: it reads so much of a file, and no dot or colon before a phase.
FilePhases(tree) == ParsePlan(Head2M(Content(tree, PlanPath).text)).phases
Storable(plan) == ReadsBack(plan) /\ Len(RenderPlan(plan)) <= MaxRead

SamePhases(some, others) ==
    /\ DOMAIN some = DOMAIN others
    /\ \A i \in DOMAIN some : some[i].done = others[i].done /\ some[i].text = others[i].text

(* "Push it the moment it changes" (http_server.cpp 1157) and "a plan written  *)
(* this turn cannot have finished phases" (1161): the phases the panel was   *)
(* sent are those of the file until somebody changes it again, and a         *)
(* planning turn leaves no box checked.  Where the boxes had to be cleared   *)
(* the panel is sent what was saved, whatever is loaded from that later.     *)
PanelShowsThePlan ==
    shown.current /\ ~clobbered /\ (shown.fixed => Storable(shown.plan)) =>
        /\ SamePhases(FilePhases(disk), shown.plan.phases)
        /\ turn.planning /\ turn.written =>
              \A i \in DOMAIN FilePhases(disk) : ~FilePhases(disk)[i].done

-----------------------------------------------------------------------------
(* The inductive invariant.                                                 *)

\* No link is new, and none is gone but one that led to nothing.
LinksStay ==
    /\ \A p \in DOMAIN Links(disk) : p \in DOMAIN Tree /\ disk[p] = Tree[p]
    /\ \A p \in DOMAIN LiveLinks(Tree) : p \in DOMAIN disk /\ disk[p] = Tree[p]

\* What a call does where: an actor at rest has none, one that loads comes from
\* a call that is over, and one at a file does its job there, or the log after it.
\* No file is being written at the root or nowhere.
GoodCall(a, c) ==
    /\ c.at = "rest" => c = Idle
    /\ c.at = "load" => a = "agent" /\ c = [Idle EXCEPT !.at = "load"]
    /\ c.at = "read" => c.job.kind \in {"edit", "phase"}
    /\ c.at = "put" => c.path \notin {<<>>, NoPath}
    /\ c.then = "log" => c.job.kind = "phase" /\ c.path = PlanPath /\ c.job.done
    /\ c.then = "load" => a = "agent"
    /\ c.at \in {"read", "open", "put"} =>
          \/ /\ c.job \in AllJobs /\ c.job.kind \in {"write", "edit"}
             /\ c.path \in Spots(c.job.rel) \cup {NoPath}
             /\ c.at # "put" => c.path \in {NoPath, Resolve(Tree, c.job.rel)}
          \/ /\ c.job \in AllJobs /\ c.job.kind = "phase"
             /\ c.path = PlanPath \/ (c.path = LogPath /\ c.job.done)
          \/ c.job.kind = "fix" /\ c.path = PlanPath

CallInv == \A a \in Actors : GoodCall(a, call[a])

\* The text a call will store is what its job makes of the old content.
Makes(c, old) ==
    LET plan == ParsePlan(Head2M(old.text))
    IN /\ c.job.kind = "write" => c.text = c.job.text
       /\ c.job.kind = "edit" =>
             /\ old.there /\ EditText(old.text, c.job.edits).ok
             /\ c.text = EditText(old.text, c.job.edits).text
       /\ c.job.kind = "phase" /\ c.path = PlanPath =>
             /\ old.there /\ c.job.number \in DOMAIN plan.phases
             /\ c.text = RenderPlan(Check(plan, c.job.number, c.job.done))
       /\ c.job.kind = "phase" /\ c.path = LogPath =>
             c.text = Append(IF old.there THEN Head2M(old.text) ELSE <<Prose(<<"log">>)>>,
                             LogLine(c.job.number))
       /\ c.job.kind = "fix" => old.there /\ c.text = RenderPlan(Unchecked(plan))

\* Until somebody runs into it, a call finds the file as it read it, then as it
\* emptied it; and no two write one file.
GoodText(c, tree) ==
    /\ c.at = "open" => Makes(c, Content(tree, c.path))
    /\ c.at = "put" => /\ Makes(c, c.held)
                      /\ Content(tree, c.path) = [there |-> TRUE, text |-> <<>>]

TextInv ==
    ~clobbered =>
        /\ \A a \in Actors : GoodText(call[a], disk)
        /\ \A a, b \in Actors : At(a, "put") /\ At(b, "put") /\ a # b => Path(a) # Path(b)

IndInv == TypeOK /\ OutsideUntouched /\ LinksStay /\ CallInv /\ TextInv

\* The user's call has checked a phase and not yet written its line.
Due(n) ==
    IF Kind("user") = "phase" /\ Path("user") = LogPath /\ call["user"].job.number = n
    THEN 1 ELSE 0

\* A text holds no line of the log but for phases that were checked, and unless
\* somebody ran into a call, no more of them than that leaves room for: the user's
\* may hold the line that is due.
Fits(who, text) ==
    /\ IsLines(text)
    /\ \A n \in Recorded :
          /\ Matches(text, LogLine(n)) # {} => Matches(checked, n) # {}
          /\ ~clobbered =>
                Count(text, LogLine(n)) + (IF who = "user" THEN 0 ELSE Due(n))
                    <= Count(checked, n)

LogInv ==
    /\ checked \in Seq(DOMAIN Numbers) /\ Kind("agent") # "phase"
    /\ \A n \in DOMAIN Numbers : Due(n) <= Count(checked, n)
    /\ \A p \in DOMAIN disk : IsFile(disk, p) => Fits("disk", disk[p].text)
    /\ \A a \in Actors : Fits(a, call[a].text)

\* The phases of a plan that was loaded.
GoodPhases(phases) ==
    /\ IsText(phases)
    /\ \A i \in DOMAIN phases : phases[i].done \in BOOLEAN /\ IsTrimmed(phases[i].text)

\* The panel has what is about to be written where boxes must be cleared, and what
\* the file has where nobody changed it since.
PanelInv ==
    /\ shown = [plan |-> shown.plan, current |-> shown.current, fixed |-> shown.fixed]
    /\ shown.current \in BOOLEAN /\ shown.fixed \in BOOLEAN
    /\ GoodPhases(shown.plan.phases)
    /\ turn.planning /\ turn.written => Done(shown.plan) = {}
    /\ \A a \in Actors : Kind(a) = "fix" =>
          a = "agent" /\ shown.fixed /\ call[a].text = RenderPlan(shown.plan)
    /\ shown.current /\ ~clobbered /\ (shown.fixed => Storable(shown.plan)) =>
          SamePhases(FilePhases(disk), shown.plan.phases)
=============================================================================
