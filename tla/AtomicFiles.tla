---------------------------- MODULE AtomicFiles ----------------------------
(***************************************************************************)
(* What the clients of the workspace count on: each request and each tool   *)
(* call changes the files at once or not at all, and reads what the one     *)
(* before it left (http_server.cpp 420: file operations are serialized by   *)
(* ws_mutex).  A write that fails or a process that stops may lose a file,  *)
(* which is then in lost; and when a call of the agent, which does not take  *)
(* the mutex, runs into another one, nothing is promised.                   *)
(***************************************************************************)
EXTENDS PlanText, Workspace

CONSTANTS
    Jobs,         \* the calls that may be made; their paths are resolved
    PlanPath, LogPath

VARIABLES store, lost, clobbered

Texts(tree) == [p \in {q \in DOMAIN tree : tree[q].kind = "file"} |-> tree[p].text]

With(path, text) == [p \in DOMAIN store \cup {path} |->
                        IF p = path THEN text ELSE store[p]]

DoWrite(j) == store' = With(j.path, j.text)

DoEdit(j) ==
    /\ j.path \in DOMAIN store
    /\ EditText(store[j.path], j.edits).ok
    /\ store' = With(j.path, EditText(store[j.path], j.edits).text)

DoRename(j) ==
    LET moved == {p \in DOMAIN store : IsPrefix(j.path, p)}
    IN /\ moved # {} /\ \A p \in DOMAIN store : ~IsPrefix(j.to, p)
       /\ store' = [p \in (DOMAIN store \ moved) \cup {Rebased(q, j.path, j.to) : q \in moved} |->
                      IF IsPrefix(j.to, p) THEN store[Rebased(p, j.to, j.path)]
                      ELSE store[p]]

DoRemove(j) ==
    store' = [p \in {q \in DOMAIN store : ~IsPrefix(j.path, q)} |-> store[p]]

CurrentPlan == ParsePlan(Head2M(store[PlanPath]))

CheckOff(j) ==
    /\ PlanPath \in DOMAIN store
    /\ j.number \in DOMAIN CurrentPlan.phases
    /\ store' = With(PlanPath, RenderPlan(Check(CurrentPlan, j.number, j.done)))

UncheckAll ==
    /\ PlanPath \in DOMAIN store
    /\ store' = With(PlanPath, RenderPlan(Unchecked(CurrentPlan)))

\* The changelog grows by a line at its end.
Record(entry) ==
    IF LogPath \in DOMAIN store
    THEN store' = With(LogPath, Append(Head2M(store[LogPath]), entry))
    ELSE store' = With(LogPath, <<Prose(<<"log">>), entry>>)

LogLine(number) == Prose(<<"phase", Numbers[number], "done">>)

Do(j) == \/ j.kind = "write" /\ DoWrite(j)
         \/ j.kind = "edit" /\ DoEdit(j)
         \/ j.kind = "rename" /\ DoRename(j)
         \/ j.kind = "remove" /\ DoRemove(j)
         \/ j.kind = "phase" /\ CheckOff(j)
         \/ j.kind = "phase" /\ j.done /\ Record(LogLine(j.number))

Lose(paths) ==
    /\ store' = [p \in DOMAIN store \cup paths |->
                    IF p \in paths THEN <<>> ELSE store[p]]
    /\ lost' = lost \cup paths
    /\ UNCHANGED clobbered

Init == lost = {} /\ clobbered = FALSE

Next == \/ clobbered'
        \/ (\E j \in Jobs : Do(j)) /\ UNCHANGED <<lost, clobbered>>
        \/ UncheckAll /\ UNCHANGED <<lost, clobbered>>
        \/ \E p, q \in {j.path : j \in Jobs} \cup {PlanPath, LogPath} : Lose({p, q})

Spec == Init /\ [][Next]_<<store, lost, clobbered>>
=============================================================================
