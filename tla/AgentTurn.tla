------------------------------ MODULE AgentTurn ------------------------------
(***************************************************************************)
(* The agent's turns (POST /api/agent/chat, http_server.cpp 947-1202) and    *)
(* the handlers that talk to a running one: the answer to a permission       *)
(* prompt and the change of the permission mode.  Turns hold model_mutex      *)
(* from beginning to end, so one runs at a time; the handlers run at any      *)
(* moment, between any two steps of it, under perm_mutex.                    *)
(***************************************************************************)
EXTENDS Permissions, Integers, Sequences, FiniteSets

CONSTANTS
    Replies,      \* the sequences of tool calls the model's replies may hold
    MaxTurns,     \* bound: turns
    MaxRounds,    \* rounds_budget of a working turn
    MaxPosts,     \* bound: answers and mode changes the user sends
    PlanningBudget,
    Ids           \* the n of the ids "perm-n" answers are posted under

ASSUME AgentAssumption ==
    /\ Replies \subseteq Seq(ToolCalls) \ {<<>>}
    /\ MaxTurns \in Nat /\ MaxRounds \in Nat /\ MaxPosts \in Nat
    /\ PlanningBudget \in Nat
    /\ Ids \subseteq Nat

Decisions == {"allow", "always", "deny"}
Stages == {"idle", "round", "call", "gate", "parked", "act"}

VARIABLES
    mode,         \* perm_mode
    allowed,      \* perm_session_allowed
    answers,      \* perm_answers: id -> decision
    nextId,       \* perm_next_id
    stage,        \* where the turn is; "idle" when model_mutex is free
    turns, planning, round,
    calls,        \* the calls of this round still to be run
    planWritten,
    gone,         \* client_gone(): hung up, or over max_turn_seconds
    verdict,      \* of the call at hand: its risk and whether it was asked about
    pid,          \* the id of its prompt
    refused,
    posts,
    prompts,      \* history: per prompt its id and risk, and when it got its
                  \* answer: the epoch, and how many decisions were posted by then
    said,         \* history: the decisions posted
    epoch,        \* history: mode changes so far
    modeSeen      \* history: the mode the verdict was made under

permVars == <<mode, allowed, answers, nextId>>
turnVars == <<stage, turns, planning, round, calls, planWritten, gone>>
gateVars == <<verdict, pid, refused, modeSeen>>
userVars == <<posts, said, epoch>>
vars == <<permVars, turnVars, gateVars, userVars, prompts>>

NoVerdict == [risk |-> "read", asked |-> FALSE]
Prompts == [id : Nat, risk : Risks, closed : Nat, heard : Nat]
Posts == [id : Ids, decision : Decisions, epoch : Nat]

TypeOK ==
    /\ mode \in Modes /\ allowed \subseteq Risks
    /\ DOMAIN answers \subseteq Ids
    /\ \A i \in DOMAIN answers : answers[i] \in Decisions
    /\ nextId \in Nat \ {0}
    /\ stage \in Stages /\ turns \in 0 .. MaxTurns /\ planning \in BOOLEAN
    /\ round \in Nat
    /\ calls \in Seq(ToolCalls)
    /\ planWritten \in BOOLEAN /\ gone \in BOOLEAN
    /\ verdict \in [risk : Risks, asked : BOOLEAN]
    /\ pid \in Nat /\ refused \in BOOLEAN
    /\ posts \in 0 .. MaxPosts
    /\ prompts \in Seq(Prompts) /\ said \in Seq(Posts)
    /\ epoch \in Nat /\ modeSeen \in Modes

Init ==
    /\ mode \in Modes
    /\ allowed = {} /\ answers = <<>> /\ nextId = 1
    /\ stage = "idle" /\ turns = 0 /\ planning = FALSE /\ round = 0
    /\ calls = <<>> /\ planWritten = FALSE /\ gone = FALSE
    /\ verdict = NoVerdict /\ pid = 0 /\ refused = FALSE /\ modeSeen = mode
    /\ posts = 0 /\ prompts = <<>> /\ said = <<>> /\ epoch = 0

-----------------------------------------------------------------------------
(* The turn.                                                                *)

EndTurn ==
    /\ stage' = "idle"
    /\ UNCHANGED <<turns, planning, round, calls, planWritten, gone>>

BeginTurn(p) ==
    /\ stage = "idle" /\ turns < MaxTurns
    /\ stage' = "round"
    /\ turns' = turns + 1
    /\ planning' = p
    /\ round' = 0 /\ calls' = <<>> /\ planWritten' = FALSE /\ gone' = FALSE
    /\ UNCHANGED <<permVars, gateVars, userVars, prompts>>

Budget == IF planning THEN PlanningBudget ELSE MaxRounds

\* Out of rounds, the client gone, a failed generation or an answer without
\* tool calls: the turn is over.
RoundEndsTurn ==
    /\ stage = "round"
    /\ EndTurn
    /\ UNCHANGED <<permVars, gateVars, userVars, prompts>>

Generate(cs) ==
    /\ stage = "round" /\ round < Budget /\ ~gone
    /\ calls' = cs
    /\ stage' = "call"
    /\ UNCHANGED <<turns, planning, round, planWritten, gone, permVars, gateVars,
                   userVars, prompts>>

CallGone ==
    /\ stage = "call" /\ calls # <<>> /\ gone
    /\ EndTurn
    /\ UNCHANGED <<permVars, gateVars, userVars, prompts>>

\* evaluate(), under perm_mutex.
Evaluate ==
    /\ stage = "call" /\ calls # <<>> /\ ~gone
    /\ LET risk == Classify(Head(calls))
       IN verdict' = [risk |-> risk, asked |-> NeedsPrompt(mode, risk, allowed)]
    /\ stage' = IF verdict'.asked THEN "gate" ELSE "act"
    /\ refused' = FALSE
    /\ modeSeen' = mode
    /\ UNCHANGED <<turns, planning, round, calls, planWritten, gone, permVars, pid,
                   userVars, prompts>>

NextIdAfter == nextId + 1

\* The prompt gets an id and goes out to the user.
Ask ==
    /\ stage = "gate"
    /\ pid' = nextId
    /\ nextId' = NextIdAfter
    /\ prompts' = Append(prompts, [id |-> nextId, risk |-> verdict.risk,
                                   closed |-> epoch, heard |-> 0])
    /\ stage' = "parked"
    /\ UNCHANGED <<turns, planning, round, calls, planWritten, gone, mode, allowed,
                   answers, verdict, refused, modeSeen, userVars>>

Without(f, i) == [j \in DOMAIN f \ {i} |-> f[j]]

Remember(answer) == answer = "always"

\* The wait ends with an answer, which may have been there before: it is taken
\* out of the map, and an "always" is remembered for the risk of the call.
TakeAnswer ==
    /\ stage = "parked" /\ pid \in DOMAIN answers
    /\ answers' = Without(answers, pid)
    /\ allowed' = allowed \cup (IF Remember(answers[pid]) THEN {verdict.risk} ELSE {})
    /\ refused' = (answers[pid] = "deny")
    /\ stage' = "act"
    /\ prompts' = [prompts EXCEPT ![Len(prompts)].closed = epoch,
                                  ![Len(prompts)].heard = Len(said)]
    /\ UNCHANGED <<turns, planning, round, calls, planWritten, gone, mode, nextId,
                   verdict, pid, modeSeen, userVars>>

\* Mutated: the wait has no limit.
NeverExpires == FALSE

\* After 120 s wait_for looks once more, and finds no answer.
Expired == pid \notin DOMAIN answers

\* "Silence is never consent": it counts as a denial.
TimeOut ==
    /\ stage = "parked" /\ Expired
    /\ refused' = TRUE
    /\ stage' = "act"
    /\ UNCHANGED <<turns, planning, round, calls, planWritten, gone, permVars,
                   verdict, pid, modeSeen, userVars, prompts>>

\* target.find("plan.md"), on the "path" argument that a rename does not have.
WritesPlan(call) == call.tool # "rename_file" /\ call.subject = "plan"

\* Mutated: the permission gate's refusal is not looked at.
RunsUnlessPlanning(call) == ~planning \/ WritesPlan(call)

Runs(call) == ~refused /\ (~planning \/ WritesPlan(call))

\* The call is refused, put off until the plan exists, or dispatched; then the
\* plan is loaded again if the call changed it.
Act(ok, loads) ==
    /\ stage = "act"
    /\ LET call == Head(calls)
           changed == Runs(call) /\ CanChange(call) /\ ok
       IN planWritten' = (planWritten \/ (changed /\ loads /\ ChangedPath(call) \in PlanFiles))
    /\ calls' = Tail(calls)
    /\ stage' = "call"
    /\ UNCHANGED <<turns, planning, round, gone, permVars, gateVars, userVars, prompts>>

\* dump() of a result that is not UTF-8 throws out of the whole turn.
ActThrows ==
    /\ stage = "act" /\ Runs(Head(calls)) /\ Head(calls).tool = "read_file"
    /\ EndTurn
    /\ UNCHANGED <<permVars, gateVars, userVars, prompts>>

RoundOver ==
    /\ stage = "call" /\ calls = <<>>
    /\ IF planning /\ planWritten THEN EndTurn
       ELSE /\ round' = round + 1
            /\ stage' = "round"
            /\ UNCHANGED <<turns, planning, calls, planWritten, gone>>
    /\ UNCHANGED <<permVars, gateVars, userVars, prompts>>

-----------------------------------------------------------------------------
(* The user.                                                                *)

\* POST /api/permission, at any time and under any id: of the prompt that
\* waits, of one that is over, of one that has not been sent yet (ids start at
\* "perm-1" with every server, so a page of an earlier one may hold them).
Answer(i, d) ==
    /\ posts < MaxPosts
    /\ answers' = [j \in DOMAIN answers \cup {i} |-> IF j = i THEN d ELSE answers[j]]
    /\ posts' = posts + 1
    /\ said' = Append(said, [id |-> i, decision |-> d, epoch |-> epoch])
    /\ UNCHANGED <<mode, allowed, nextId, turnVars, gateVars, epoch, prompts>>

\* Mutated: blanket approvals survive a change of mode.
KeptApprovals == allowed

ApprovalsAfterModeChange == {}

\* POST /api/permissions
SetMode(m) ==
    /\ posts < MaxPosts
    /\ mode' = m
    /\ allowed' = ApprovalsAfterModeChange
    /\ posts' = posts + 1
    /\ epoch' = epoch + 1
    /\ UNCHANGED <<answers, nextId, turnVars, gateVars, said, prompts>>

ClientGone ==
    /\ stage # "idle" /\ ~gone
    /\ gone' = TRUE
    /\ UNCHANGED <<stage, turns, planning, round, calls, planWritten, permVars,
                   gateVars, userVars, prompts>>

Stopped == stage = "idle" /\ turns = MaxTurns /\ UNCHANGED vars

TurnStep ==
    \/ RoundEndsTurn
    \/ \E cs \in Replies : Generate(cs)
    \/ CallGone \/ Evaluate \/ Ask
    \/ TakeAnswer \/ TimeOut
    \/ \E ok, loads \in BOOLEAN : Act(ok, loads)
    \/ ActThrows
    \/ RoundOver

Next ==
    \/ \E p \in BOOLEAN : BeginTurn(p)
    \/ TurnStep
    \/ \E i \in Ids, d \in Decisions : Answer(i, d)
    \/ \E m \in Modes : SetMode(m)
    \/ ClientGone
    \/ Stopped

Spec == Init /\ [][Next]_vars

\* The turn's thread runs, and its wait expires.
FairSpec == Spec /\ WF_vars(TurnStep)

-----------------------------------------------------------------------------
Gated(m, risk) == m # "yolo" /\ risk # "read" /\ (risk = "mutate" => m = "ask")

\* Post k is the last of the first h posts under id i.
LastUnder(i, k, h) ==
    k \in 1 .. h /\ said[k].id = i /\ \A j \in k + 1 .. h : said[j].id # i

\* When prompt n was answered, d was what the user had said last under its id.
Answered(n, d) ==
    \E k \in 1 .. prompts[n].heard :
        LastUnder(prompts[n].id, k, prompts[n].heard) /\ said[k].decision = d

(* A call that the mode gates runs only if the user's last word under the id  *)
(* of its very prompt was "allow" or "always", or was "always" under that of  *)
(* an earlier one of its kind.  An answer to another prompt, however late,    *)
(* a denial, and a timeout never let one through (http_server.cpp 1081-1123). *)
(* It need not have been said while the prompt was open: see README.         *)
GatedCallsWereApproved ==
    stage = "act" /\ Runs(Head(calls)) /\ Gated(modeSeen, verdict.risk) =>
        IF verdict.asked
        THEN Answered(Len(prompts), "allow") \/ Answered(Len(prompts), "always")
        ELSE \E n \in 1 .. Len(prompts) :
                 prompts[n].risk = verdict.risk /\ Answered(n, "always")

(* A blanket approval stands only for a kind of call one of whose prompts got *)
(* "always", and got it since the last change of the mode.                   *)
ApprovalsWereGiven ==
    \A r \in allowed : \E n \in 1 .. Len(prompts) :
        prompts[n].risk = r /\ prompts[n].closed = epoch /\ Answered(n, "always")

(* A prompt nobody answers does not hold model_mutex for ever: every turn     *)
(* ends, whatever the model produces and the user does.                      *)
TurnEnds == (stage # "idle") ~> (stage = "idle")

(* "Changing the mode clears blanket approvals: they were granted under the   *)
(* old policy and should not survive a tightening" (http_server.cpp 700): an *)
(* approval in force was given since the last change of the mode.            *)
ApprovalsDoNotSurviveModeChange ==
    \A r \in allowed : \E n \in 1 .. Len(prompts), k \in 1 .. Len(said) :
        /\ prompts[n].risk = r /\ said[k].id = prompts[n].id
        /\ said[k].decision = "always" /\ said[k].epoch = epoch
-----------------------------------------------------------------------------
(* The inductive invariant.                                                 *)

\* Prompts are numbered in the order they went out, and heard what had been
\* said by then.
PromptsInv ==
    /\ nextId = Len(prompts) + 1
    /\ \A n \in 1 .. Len(prompts) : prompts[n].id = n /\ prompts[n].heard <= Len(said)

\* An answer in the map is the last one posted under its id.
AnswersInv ==
    \A i \in DOMAIN answers : \E k \in 1 .. Len(said) :
        LastUnder(i, k, Len(said)) /\ said[k].decision = answers[i]

\* A turn at the gate has a call to decide; one that waits does so for the
\* last prompt, which has not got its answer.
GateInv ==
    /\ stage \in {"gate", "parked", "act"} => calls # <<>>
    /\ stage \in {"gate", "parked"} => verdict.asked
    /\ stage = "act" /\ verdict.asked => prompts # <<>>
    /\ stage = "parked" =>
        /\ pid = Len(prompts) /\ pid # 0
        /\ prompts[pid].risk = verdict.risk /\ prompts[pid].heard = 0

\* GatedCallsWereApproved of a call that planning puts off, too.
NotRefusedWasApproved ==
    stage = "act" /\ ~refused /\ Gated(modeSeen, verdict.risk) =>
        IF verdict.asked
        THEN Answered(Len(prompts), "allow") \/ Answered(Len(prompts), "always")
        ELSE \E n \in 1 .. Len(prompts) :
                 prompts[n].risk = verdict.risk /\ Answered(n, "always")

(* The gate's books agree: which prompt is open, what was said under its id,  *)
(* who approved what (http_server.cpp 1049-1120).  Implies the two properties    *)
(* about approvals, and is inductive.                                        *)
IndInv ==
    /\ TypeOK /\ PromptsInv /\ AnswersInv /\ GateInv
    /\ NotRefusedWasApproved /\ ApprovalsWereGiven
=============================================================================
