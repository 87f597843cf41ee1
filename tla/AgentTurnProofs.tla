-------------------------- MODULE AgentTurnProofs --------------------------
(***************************************************************************)
(* The permission gate for any number of turns, rounds, calls, answers and  *)
(* changes of the mode, and whatever replies the model makes.               *)
(***************************************************************************)
EXTENDS AgentTurn, SequenceTheorems, TLAPS

-----------------------------------------------------------------------------
(* Facts about the policy.                                                  *)

\* A call has one of the risks.
LEMMA RiskOfACall == \A c \in ToolCalls : Classify(c) \in Risks
  BY DEF Classify, CommandRisk, Risks

\* What the mode gates and evaluate() does not ask about is approved already.
LEMMA NotAskedIsApproved ==
  \A m \in Modes, r \in Risks : \A S :
      Gated(m, r) /\ ~NeedsPrompt(m, r, S) => r \in S
  BY DEF Gated, NeedsPrompt

-----------------------------------------------------------------------------
(* The inductive invariant, one lemma for each kind of step.                *)

\* The server starts with no prompt, no answer and no turn.
LEMMA InitInvariant == Init => IndInv
<1> SUFFICES ASSUME Init PROVE IndInv
  OBVIOUS
<1>1. /\ NoVerdict \in [risk : Risks, asked : BOOLEAN]
      /\ prompts \in Seq(Prompts) /\ Len(prompts) = 0
      /\ said \in Seq(Posts) /\ Len(said) = 0
      /\ calls \in Seq(ToolCalls)
      /\ DOMAIN answers = {}
  BY DEF Init, NoVerdict, Risks
<1>2. TypeOK
  <2>1. /\ allowed \subseteq Risks /\ DOMAIN answers \subseteq Ids
        /\ \A i \in DOMAIN answers : answers[i] \in Decisions
        /\ nextId \in Nat \ {0} /\ pid \in Nat /\ epoch \in Nat /\ round \in Nat
        /\ turns \in 0 .. MaxTurns /\ posts \in 0 .. MaxPosts
    BY <1>1, AgentAssumption DEF Init
  <2>2. /\ mode \in Modes /\ modeSeen \in Modes /\ stage \in Stages
        /\ planning \in BOOLEAN /\ planWritten \in BOOLEAN /\ gone \in BOOLEAN
        /\ refused \in BOOLEAN
        /\ verdict \in [risk : Risks, asked : BOOLEAN]
    BY <1>1 DEF Init, Stages
  <2> QED BY <1>1, <2>1, <2>2 DEF TypeOK
<1> QED BY <1>1, <1>2
        DEF Init, IndInv, PromptsInv, AnswersInv, GateInv, NotRefusedWasApproved,
            ApprovalsWereGiven

\* What was said stays said.
LEMMA AnsweredStays ==
  ASSUME NEW n, UNCHANGED said,
         prompts'[n].id = prompts[n].id, prompts'[n].heard = prompts[n].heard
  PROVE  \A d : Answered(n, d)' <=> Answered(n, d)
  BY DEF Answered, LastUnder

\* What no step of a turn between its gates sees.
LEMMA GrantsFrame ==
  ASSUME IndInv, UNCHANGED <<permVars, userVars, prompts>>
  PROVE  PromptsInv' /\ AnswersInv' /\ ApprovalsWereGiven'
<1>1. UNCHANGED <<nextId, answers, allowed, said, epoch, prompts>>
  BY DEF permVars, userVars
<1>2. PromptsInv'
  BY <1>1 DEF IndInv, PromptsInv
<1>3. AnswersInv'
  BY <1>1 DEF IndInv, AnswersInv, LastUnder
<1>4. ApprovalsWereGiven'
  BY <1>1, AnsweredStays DEF IndInv, ApprovalsWereGiven
<1> QED BY <1>2, <1>3, <1>4

\* The turn away from its gate: a stage with no call to decide.
LEMMA OutsideTheGate ==
  ASSUME IndInv,
         \/ \E p \in BOOLEAN : BeginTurn(p)
         \/ RoundEndsTurn \/ CallGone \/ ActThrows \/ RoundOver
         \/ \E cs \in Replies : Generate(cs)
         \/ \E ok, loads \in BOOLEAN : Act(ok, loads)
  PROVE  IndInv'
<1> USE DEF IndInv
<1>1. UNCHANGED <<permVars, gateVars, userVars, prompts>>
  BY DEF BeginTurn, RoundEndsTurn, CallGone, ActThrows, RoundOver, Generate, Act
<1>2. PromptsInv' /\ AnswersInv' /\ ApprovalsWereGiven'
  BY <1>1, GrantsFrame
<1>3. stage' \in {"idle", "round", "call"}
  BY DEF BeginTurn, RoundEndsTurn, CallGone, ActThrows, RoundOver, Generate, Act, EndTurn
<1>4. GateInv' /\ NotRefusedWasApproved'
  BY <1>3 DEF GateInv, NotRefusedWasApproved
<1>5. /\ turns' \in 0 .. MaxTurns /\ planning' \in BOOLEAN /\ round' \in Nat
      /\ calls' \in Seq(ToolCalls) /\ planWritten' \in BOOLEAN /\ gone' \in BOOLEAN
  <2> USE DEF TypeOK
  <2>1. CASE \E p \in BOOLEAN : BeginTurn(p)
    <3>1. PICK p \in BOOLEAN : BeginTurn(p)
      BY <2>1
    <3>2. turns' \in 0 .. MaxTurns /\ round' \in Nat /\ calls' \in Seq(ToolCalls)
      BY <3>1, AgentAssumption DEF BeginTurn
    <3> QED BY <3>1, <3>2 DEF BeginTurn
  <2>2. CASE RoundEndsTurn \/ CallGone \/ ActThrows
    BY <2>2 DEF RoundEndsTurn, CallGone, ActThrows, EndTurn
  <2>3. CASE RoundOver
    <3>1. round' \in Nat
      BY <2>3 DEF RoundOver, EndTurn
    <3>2. UNCHANGED <<turns, planning, calls, planWritten, gone>>
      BY <2>3 DEF RoundOver, EndTurn
    <3> QED BY <3>1, <3>2
  <2>4. CASE \E cs \in Replies : Generate(cs)
    BY <2>4, AgentAssumption DEF Generate
  <2>5. CASE \E ok, loads \in BOOLEAN : Act(ok, loads)
    <3>1. PICK ok, loads \in BOOLEAN : Act(ok, loads)
      BY <2>5
    <3>2. calls # <<>>
      BY <3>1 DEF GateInv, Act
    <3>3. calls' \in Seq(ToolCalls)
      BY <3>1, <3>2 DEF Act
    <3>4. planWritten' \in BOOLEAN
      BY <3>1 DEF Act
    <3> QED BY <3>1, <3>3, <3>4 DEF Act
  <2> QED BY <2>1, <2>2, <2>3, <2>4, <2>5
<1>6. TypeOK'
  BY <1>1, <1>3, <1>5 DEF TypeOK, Stages, permVars, gateVars, userVars
<1> QED BY <1>2, <1>4, <1>6

\* The verdict: what is gated and not asked about was approved before.
LEMMA EvaluateStep ==
  ASSUME IndInv, Evaluate
  PROVE  IndInv'
<1> USE DEF IndInv
<1>1. /\ UNCHANGED <<turns, planning, round, calls, planWritten, gone, permVars, pid,
                     userVars, prompts>>
      /\ stage = "call" /\ calls # <<>> /\ refused' = FALSE /\ modeSeen' = mode
      /\ verdict'.risk = Classify(Head(calls))
      /\ verdict'.asked = NeedsPrompt(mode, Classify(Head(calls)), allowed)
      /\ stage' = IF verdict'.asked THEN "gate" ELSE "act"
  BY DEF Evaluate
<1>2. Classify(Head(calls)) \in Risks
  BY <1>1, RiskOfACall DEF TypeOK
<1>3. verdict' \in [risk : Risks, asked : BOOLEAN]
  BY <1>2 DEF Evaluate, NeedsPrompt
<1>4. PromptsInv' /\ AnswersInv' /\ ApprovalsWereGiven'
  BY <1>1, GrantsFrame
<1>5. TypeOK'
  BY <1>1, <1>3 DEF TypeOK, Stages, permVars, userVars
<1>6. GateInv'
  BY <1>1 DEF GateInv
<1>7. NotRefusedWasApproved'
  <2> SUFFICES ASSUME stage' = "act", Gated(mode, verdict'.risk)
               PROVE  \E n \in 1 .. Len(prompts) :
                          prompts[n].risk = verdict'.risk /\ Answered(n, "always")'
    BY <1>1 DEF NotRefusedWasApproved, userVars
  <2>1. ~NeedsPrompt(mode, verdict'.risk, allowed)
    BY <1>1
  <2>2. verdict'.risk \in allowed
    BY <1>1, <1>2, <2>1, NotAskedIsApproved DEF TypeOK
  <2>3. PICK n \in 1 .. Len(prompts) : prompts[n].risk = verdict'.risk /\ Answered(n, "always")
    BY <2>2 DEF ApprovalsWereGiven
  <2>4. UNCHANGED <<said, prompts>>
    BY <1>1 DEF userVars
  <2> QED BY <2>3, <2>4, AnsweredStays
<1> QED BY <1>4, <1>5, <1>6, <1>7

\* The prompt is the last of all.
LEMMA AskStep ==
  ASSUME IndInv, Ask
  PROVE  IndInv'
<1> USE DEF IndInv
<1>1. /\ stage = "gate" /\ stage' = "parked"
      /\ pid' = nextId /\ nextId' = nextId + 1
      /\ prompts' = Append(prompts, [id |-> nextId, risk |-> verdict.risk,
                                     closed |-> epoch, heard |-> 0])
      /\ UNCHANGED <<turns, planning, round, calls, planWritten, gone, mode, allowed,
                     answers, verdict, refused, modeSeen, posts, said, epoch>>
  BY DEF Ask, NextIdAfter, userVars
<1>2. nextId = Len(prompts) + 1 /\ Len(prompts) \in Nat /\ Len(said) \in Nat
  BY DEF PromptsInv, TypeOK
<1>3. /\ prompts' \in Seq(Prompts) /\ Len(prompts') = Len(prompts) + 1
      /\ \A n \in 1 .. Len(prompts) : prompts'[n] = prompts[n]
      /\ prompts'[nextId].id = nextId /\ prompts'[nextId].risk = verdict.risk
      /\ prompts'[nextId].heard = 0
  <2>1. PICK row : row = [id |-> nextId, risk |-> verdict.risk,
                          closed |-> epoch, heard |-> 0]
    OBVIOUS
  <2>2. /\ row \in Prompts /\ row.id = nextId /\ row.risk = verdict.risk
        /\ row.heard = 0
    BY <1>2, <2>1 DEF TypeOK, Prompts
  <2>3. prompts \in Seq(Prompts) /\ prompts' = Append(prompts, row)
    BY <1>1, <2>1 DEF TypeOK
  <2>4. /\ prompts' \in Seq(Prompts) /\ Len(prompts') = Len(prompts) + 1
        /\ \A n \in 1 .. Len(prompts) : prompts'[n] = prompts[n]
        /\ prompts'[Len(prompts) + 1] = row
    BY <2>2, <2>3, AppendProperties
  <2> QED BY <1>2, <2>2, <2>4
<1>4. TypeOK'
  BY <1>1, <1>2, <1>3 DEF TypeOK, Stages
<1>5. PromptsInv' /\ AnswersInv'
  BY <1>1, <1>2, <1>3 DEF PromptsInv, AnswersInv, LastUnder
<1>6. GateInv'
  BY <1>1, <1>2, <1>3 DEF GateInv
<1>7. NotRefusedWasApproved'
  BY <1>1 DEF NotRefusedWasApproved
<1>8. ApprovalsWereGiven'
  <2> SUFFICES ASSUME NEW r \in allowed
               PROVE  \E n \in 1 .. Len(prompts') :
                          /\ prompts'[n].risk = r /\ prompts'[n].closed = epoch
                          /\ Answered(n, "always")'
    BY <1>1 DEF ApprovalsWereGiven
  <2>1. PICK n \in 1 .. Len(prompts) :
            prompts[n].risk = r /\ prompts[n].closed = epoch /\ Answered(n, "always")
    BY DEF ApprovalsWereGiven
  <2>2. n \in 1 .. Len(prompts') /\ prompts'[n] = prompts[n]
    BY <1>2, <1>3
  <2>3. Answered(n, "always")'
    BY <1>1, <2>1, <2>2, AnsweredStays
  <2> QED BY <2>1, <2>2, <2>3
<1> QED BY <1>4, <1>5, <1>6, <1>7, <1>8

\* The answer taken is the last one under the prompt's id; an "always" closes
\* the prompt in the epoch whose approvals it joins.
LEMMA TakeAnswerStep ==
  ASSUME IndInv, TakeAnswer
  PROVE  IndInv'
<1> USE DEF IndInv
<1>1. /\ stage = "parked" /\ stage' = "act" /\ pid \in DOMAIN answers
      /\ answers' = Without(answers, pid)
      /\ allowed' = allowed \cup (IF answers[pid] = "always" THEN {verdict.risk} ELSE {})
      /\ refused' = (answers[pid] = "deny")
      /\ prompts' = [prompts EXCEPT ![Len(prompts)].closed = epoch,
                                    ![Len(prompts)].heard = Len(said)]
      /\ UNCHANGED <<turns, planning, round, calls, planWritten, gone, mode, nextId,
                     verdict, pid, modeSeen, posts, said, epoch>>
  BY DEF TakeAnswer, Remember, userVars
<1>2. /\ pid = Len(prompts) /\ pid \in 1 .. Len(prompts) /\ Len(prompts) \in Nat
      /\ prompts[pid].risk = verdict.risk /\ prompts[pid].id = pid
      /\ verdict.asked /\ calls # <<>> /\ answers[pid] \in Decisions /\ Len(said) \in Nat
  BY <1>1 DEF GateInv, PromptsInv, TypeOK
<1>3. PICK k \in 1 .. Len(said) : LastUnder(pid, k, Len(said)) /\ said[k].decision = answers[pid]
  BY <1>1 DEF AnswersInv
<1>4. /\ prompts' \in Seq(Prompts) /\ Len(prompts') = Len(prompts)
      /\ \A n \in 1 .. Len(prompts) : /\ prompts'[n].id = prompts[n].id
                                      /\ prompts'[n].risk = prompts[n].risk
                                      /\ n # pid => prompts'[n] = prompts[n]
      /\ prompts'[pid].closed = epoch /\ prompts'[pid].heard = Len(said)
  <2>1. prompts \in Seq(Prompts) /\ epoch \in Nat
    BY DEF TypeOK
  <2>2. prompts[pid] \in Prompts
    BY <1>2, <2>1, ElementOfSeq
  <2>3. PICK row : row = [prompts[pid] EXCEPT !.closed = epoch, !.heard = Len(said)]
    OBVIOUS
  <2>4. /\ row \in Prompts /\ row.id = prompts[pid].id /\ row.risk = prompts[pid].risk
        /\ row.closed = epoch /\ row.heard = Len(said)
    BY <1>2, <2>1, <2>2, <2>3 DEF Prompts
  <2>5. prompts' = [prompts EXCEPT ![pid] = row]
    <3>1. pid \in DOMAIN prompts
      BY <1>2, <2>1
    <3> QED BY <1>1, <1>2, <2>1, <2>3, <3>1
  <2>6. /\ prompts' \in Seq(Prompts) /\ Len(prompts') = Len(prompts)
        /\ \A n \in 1 .. Len(prompts) : prompts'[n] = IF n = pid THEN row ELSE prompts[n]
    BY <1>2, <2>1, <2>4, <2>5, ExceptSeq
  <2> QED BY <1>2, <2>4, <2>6
<1>5. TypeOK'
  <2>1. DOMAIN answers' \subseteq Ids /\ \A i \in DOMAIN answers' : answers'[i] \in Decisions
    BY <1>1 DEF TypeOK, Without
  <2>2. allowed' \subseteq Risks
    BY <1>1 DEF TypeOK
  <2>3. refused' \in BOOLEAN
    BY <1>1
  <2> QED BY <1>1, <1>4, <2>1, <2>2, <2>3 DEF TypeOK, Stages
<1>6. PromptsInv'
  BY <1>1, <1>2, <1>4 DEF PromptsInv
<1>7. AnswersInv'
  BY <1>1 DEF AnswersInv, LastUnder, Without
<1>8. GateInv'
  BY <1>1, <1>2 DEF GateInv
<1>9. PICK a, q : a = answers[pid] /\ q = pid
  OBVIOUS
<1>10. Answered(q, a)'
  <2>1. /\ LastUnder(q, k, Len(said)) /\ said[k].decision = a /\ k \in 1 .. Len(said)
        /\ prompts'[q].id = q /\ prompts'[q].heard = Len(said) /\ said' = said
    BY <1>1, <1>2, <1>3, <1>4, <1>9
  <2> QED BY <2>1 DEF Answered, LastUnder
<1>11. NotRefusedWasApproved'
  <2> SUFFICES ASSUME ~refused'
               PROVE  Answered(Len(prompts), "allow")' \/ Answered(Len(prompts), "always")'
    BY <1>1, <1>2, <1>4 DEF NotRefusedWasApproved
  <2>1. a = "allow" \/ a = "always"
    BY <1>1, <1>2, <1>9 DEF Decisions
  <2>2. q = Len(prompts')
    BY <1>2, <1>4, <1>9
  <2> QED BY <1>10, <2>1, <2>2
<1>12. ApprovalsWereGiven'
  <2> SUFFICES ASSUME NEW r \in allowed'
               PROVE  \E n \in 1 .. Len(prompts) :
                          /\ prompts'[n].risk = r /\ prompts'[n].closed = epoch
                          /\ Answered(n, "always")'
    BY <1>1, <1>4 DEF ApprovalsWereGiven
  <2>1. CASE r \in allowed
    <3>1. PICK n \in 1 .. Len(prompts) :
              prompts[n].risk = r /\ prompts[n].closed = epoch /\ Answered(n, "always")
      BY <2>1 DEF ApprovalsWereGiven
    <3>2. CASE n # pid
      <4>1. prompts'[n] = prompts[n]
        BY <1>4, <3>2
      <4> QED BY <1>1, <3>1, <4>1, AnsweredStays
    <3>3. CASE n = pid
      BY <1>1, <3>1, <3>3 DEF GateInv, Answered
    <3> QED BY <3>2, <3>3
  <2>2. CASE r \notin allowed
    <3>1. a = "always" /\ r = verdict.risk
      BY <1>1, <1>9, <2>2
    <3>2. /\ q \in 1 .. Len(prompts) /\ prompts'[q].risk = r /\ prompts'[q].closed = epoch
          /\ Answered(q, "always")'
      BY <1>2, <1>4, <1>9, <1>10, <3>1
    <3> QED BY <3>2
  <2> QED BY <2>1, <2>2
<1> QED BY <1>5, <1>6, <1>7, <1>8, <1>11, <1>12

\* Silence: the call is refused.
LEMMA TimeOutStep ==
  ASSUME IndInv, TimeOut
  PROVE  IndInv'
<1> USE DEF IndInv
<1>1. UNCHANGED <<turns, planning, round, calls, planWritten, gone, permVars,
                  verdict, pid, modeSeen, userVars, prompts>>
  BY DEF TimeOut
<1>2. PromptsInv' /\ AnswersInv' /\ ApprovalsWereGiven'
  BY <1>1, GrantsFrame
<1>3. TypeOK'
  BY <1>1 DEF TimeOut, TypeOK, Stages, permVars, userVars
<1>4. GateInv' /\ NotRefusedWasApproved'
  BY <1>1 DEF TimeOut, GateInv, NotRefusedWasApproved
<1> QED BY <1>2, <1>3, <1>4

\* An answer is the last word under its id, and leaves those before it as
\* they are.
LEMMA AnswerStep ==
  ASSUME IndInv, NEW i \in Ids, NEW d \in Decisions, Answer(i, d)
  PROVE  IndInv'
<1> USE DEF IndInv
<1>1. /\ UNCHANGED <<mode, allowed, nextId, turnVars, gateVars, epoch, prompts>>
      /\ answers' = [j \in DOMAIN answers \cup {i} |-> IF j = i THEN d ELSE answers[j]]
      /\ posts < MaxPosts /\ posts' = posts + 1
      /\ said' = Append(said, [id |-> i, decision |-> d, epoch |-> epoch])
  BY DEF Answer
<1>2. /\ said' \in Seq(Posts) /\ Len(said') = Len(said) + 1 /\ Len(said) \in Nat
      /\ \A k \in 1 .. Len(said) : said'[k] = said[k]
      /\ said'[Len(said) + 1].id = i /\ said'[Len(said) + 1].decision = d
  <2>1. PICK post : post = [id |-> i, decision |-> d, epoch |-> epoch]
    OBVIOUS
  <2>2. post \in Posts /\ post.id = i /\ post.decision = d
    BY <2>1 DEF TypeOK, Posts
  <2>3. said \in Seq(Posts) /\ said' = Append(said, post)
    BY <1>1, <2>1 DEF TypeOK
  <2>4. /\ said' \in Seq(Posts) /\ Len(said') = Len(said) + 1 /\ Len(said) \in Nat
        /\ \A k \in 1 .. Len(said) : said'[k] = said[k]
        /\ said'[Len(said) + 1] = post
    BY <2>2, <2>3, AppendProperties
  <2> QED BY <2>2, <2>4
<1>3. TypeOK'
  <2>1. DOMAIN answers' \subseteq Ids /\ \A j \in DOMAIN answers' : answers'[j] \in Decisions
    BY <1>1 DEF TypeOK
  <2>2. posts' \in 0 .. MaxPosts
    BY <1>1, AgentAssumption DEF TypeOK
  <2> QED BY <1>1, <1>2, <2>1, <2>2 DEF TypeOK, turnVars, gateVars
<1>4. PromptsInv'
  <2>1. prompts \in Seq(Prompts)
    BY DEF TypeOK
  <2>2. \A n \in 1 .. Len(prompts) : prompts[n] \in Prompts
    BY <2>1, ElementOfSeq
  <2>3. \A n \in 1 .. Len(prompts) : prompts[n].heard <= Len(said')
    BY <1>2, <2>2 DEF PromptsInv, Prompts
  <2> QED BY <1>1, <2>3 DEF PromptsInv
<1>5. AnswersInv'
  <2> SUFFICES ASSUME NEW j \in DOMAIN answers'
               PROVE  \E k \in 1 .. Len(said') :
                          LastUnder(j, k, Len(said))' /\ said'[k].decision = answers'[j]
    BY DEF AnswersInv
  <2>1. CASE j = i
    <3>1. PICK k : k = Len(said) + 1
      OBVIOUS
    <3>2. LastUnder(i, k, k)' /\ k = Len(said')
      BY <1>2, <3>1 DEF LastUnder
    <3>3. answers'[j] = d /\ k \in 1 .. Len(said') /\ said'[k].decision = d
      BY <1>1, <1>2, <2>1, <3>1
    <3> QED BY <2>1, <3>2, <3>3
  <2>2. CASE j # i
    <3>1. j \in DOMAIN answers /\ answers'[j] = answers[j]
      BY <1>1, <2>2
    <3>2. PICK k \in 1 .. Len(said) :
              LastUnder(j, k, Len(said)) /\ said[k].decision = answers[j]
      BY <3>1 DEF AnswersInv
    <3>3. k \in 1 .. Len(said') /\ said'[k] = said[k]
      BY <1>2
    <3>4. ASSUME NEW m \in k + 1 .. Len(said')
          PROVE  said'[m].id # j
      <4>1. CASE m = Len(said) + 1
        BY <1>2, <2>2, <4>1
      <4>2. CASE m # Len(said) + 1
        <5>1. m \in k + 1 .. Len(said) /\ m \in 1 .. Len(said)
          BY <1>2, <3>2, <4>2
        <5> QED BY <1>2, <3>2, <5>1 DEF LastUnder
      <4> QED BY <4>1, <4>2
    <3>5. LastUnder(j, k, Len(said))'
      BY <3>2, <3>3, <3>4 DEF LastUnder
    <3> QED BY <3>1, <3>2, <3>3, <3>5
  <2> QED BY <2>1, <2>2
<1>6. GateInv'
  BY <1>1 DEF GateInv, turnVars, gateVars
<1>7. \A n \in 1 .. Len(prompts) : \A a : Answered(n, a) => Answered(n, a)'
  <2> SUFFICES ASSUME NEW n \in 1 .. Len(prompts), NEW a, Answered(n, a)
               PROVE  Answered(n, a)'
    OBVIOUS
  <2>1. prompts[n].heard \in Nat /\ prompts[n].heard <= Len(said)
    <3>1. prompts \in Seq(Prompts)
      BY DEF TypeOK
    <3>2. prompts[n] \in Prompts
      BY <3>1, ElementOfSeq
    <3> QED BY <3>2 DEF Prompts, PromptsInv
  <2>2. PICK k \in 1 .. prompts[n].heard :
            LastUnder(prompts[n].id, k, prompts[n].heard) /\ said[k].decision = a
    BY DEF Answered
  <2>3. \A m \in 1 .. prompts[n].heard : said'[m] = said[m]
    BY <1>2, <2>1
  <2>4. \A m \in k + 1 .. prompts[n].heard : said'[m] = said[m]
    BY <2>1, <2>2, <2>3
  <2>5. PICK h, id : h = prompts[n].heard /\ id = prompts[n].id
    OBVIOUS
  <2>6. h = prompts'[n].heard /\ id = prompts'[n].id
    BY <1>1, <2>5
  <2>7. k \in 1 .. h /\ said[k].id = id /\ said[k].decision = a /\ said'[k] = said[k]
    BY <2>2, <2>3, <2>5 DEF LastUnder
  <2>8. \A m \in k + 1 .. h : said'[m].id # id
    BY <2>2, <2>4, <2>5 DEF LastUnder
  <2>9. LastUnder(id, k, h)' /\ said'[k].decision = a
    BY <2>7, <2>8 DEF LastUnder
  <2> QED BY <2>6, <2>7, <2>9 DEF Answered
<1>8. prompts # <<>> => Len(prompts) \in 1 .. Len(prompts)
  <2>1. prompts \in Seq(Prompts)
    BY DEF TypeOK
  <2> QED BY <2>1, EmptySeq
<1>9. NotRefusedWasApproved'
  <2> SUFFICES ASSUME stage = "act", ~refused, Gated(modeSeen, verdict.risk)
               PROVE  IF verdict.asked
                      THEN Answered(Len(prompts), "allow")' \/ Answered(Len(prompts), "always")'
                      ELSE \E n \in 1 .. Len(prompts) :
                               prompts[n].risk = verdict.risk /\ Answered(n, "always")'
    BY <1>1 DEF NotRefusedWasApproved, turnVars, gateVars
  <2>1. CASE verdict.asked
    <3>1. Len(prompts) \in 1 .. Len(prompts)
      BY <1>8, <2>1 DEF GateInv
    <3>2. PICK n, d0 : n = Len(prompts) /\ d0 \in {"allow", "always"} /\ Answered(n, d0)
      BY <2>1 DEF NotRefusedWasApproved
    <3>3. Answered(n, d0)' /\ n = Len(prompts')
      BY <1>1, <1>7, <3>1, <3>2
    <3> QED BY <2>1, <3>2, <3>3
  <2>2. CASE ~verdict.asked
    BY <1>7, <2>2 DEF NotRefusedWasApproved
  <2> QED BY <2>1, <2>2
<1>10. ApprovalsWereGiven'
  BY <1>1, <1>7 DEF ApprovalsWereGiven
<1> QED BY <1>3, <1>4, <1>5, <1>6, <1>9, <1>10

\* A change of the mode, which a call that has its verdict does not see.
LEMMA SetModeStep ==
  ASSUME IndInv, NEW m \in Modes, SetMode(m)
  PROVE  IndInv'
<1> USE DEF IndInv
<1>1. /\ UNCHANGED <<answers, nextId, turnVars, gateVars, said, prompts>>
      /\ posts < MaxPosts /\ posts' = posts + 1 /\ mode' = m /\ allowed' = {}
      /\ epoch' = epoch + 1
  BY DEF SetMode, ApprovalsAfterModeChange
<1>2. TypeOK'
  BY <1>1, AgentAssumption DEF TypeOK, turnVars, gateVars
<1>3. PromptsInv'
  BY <1>1 DEF PromptsInv
<1>4. AnswersInv'
  BY <1>1 DEF AnswersInv, LastUnder
<1>5. GateInv'
  BY <1>1 DEF GateInv, turnVars, gateVars
<1>6. NotRefusedWasApproved'
  <2>1. UNCHANGED <<stage, refused, modeSeen, verdict, prompts, said>>
    BY <1>1 DEF turnVars, gateVars
  <2> QED BY <2>1, AnsweredStays DEF NotRefusedWasApproved
<1>7. ApprovalsWereGiven'
  BY <1>1 DEF ApprovalsWereGiven
<1> QED BY <1>2, <1>3, <1>4, <1>5, <1>6, <1>7

\* Every step of the turn and of the permission handlers keeps the invariant.
LEMMA StepInvariant == IndInv /\ [Next]_vars => IndInv'
<1> SUFFICES ASSUME IndInv, [Next]_vars PROVE IndInv'
  OBVIOUS
<1>1. CASE \/ \E p \in BOOLEAN : BeginTurn(p)
           \/ RoundEndsTurn \/ CallGone \/ ActThrows \/ RoundOver
           \/ \E cs \in Replies : Generate(cs)
           \/ \E ok, loads \in BOOLEAN : Act(ok, loads)
  BY <1>1, OutsideTheGate
<1>2. CASE Evaluate
  BY <1>2, EvaluateStep
<1>3. CASE Ask
  BY <1>3, AskStep
<1>4. CASE TakeAnswer
  BY <1>4, TakeAnswerStep
<1>5. CASE TimeOut
  BY <1>5, TimeOutStep
<1>6. CASE \E i \in Ids, d \in Decisions : Answer(i, d)
  BY <1>6, AnswerStep
<1>7. CASE \E m \in Modes : SetMode(m)
  BY <1>7, SetModeStep
<1>8. CASE ClientGone
  <2>1. UNCHANGED <<stage, turns, planning, round, calls, planWritten, permVars,
                    gateVars, userVars, prompts>> /\ gone' \in BOOLEAN
    BY <1>8 DEF ClientGone
  <2>2. PromptsInv' /\ AnswersInv' /\ ApprovalsWereGiven'
    BY <2>1, GrantsFrame
  <2>3. TypeOK'
    BY <2>1 DEF IndInv, TypeOK, permVars, gateVars, userVars
  <2>4. UNCHANGED <<stage, calls, refused, modeSeen, verdict, pid, prompts, said>>
    BY <2>1 DEF permVars, gateVars, userVars
  <2>5. GateInv' /\ NotRefusedWasApproved'
    BY <2>1, <2>4, AnsweredStays DEF IndInv, GateInv, NotRefusedWasApproved
  <2> QED BY <2>2, <2>3, <2>5 DEF IndInv
<1>9. CASE UNCHANGED vars
  <2>1. UNCHANGED <<permVars, turnVars, gateVars, userVars, prompts>>
    BY <1>9 DEF vars
  <2>2. PromptsInv' /\ AnswersInv' /\ ApprovalsWereGiven'
    BY <2>1, GrantsFrame
  <2>3. TypeOK'
    BY <2>1 DEF IndInv, TypeOK, permVars, turnVars, gateVars, userVars
  <2>4. UNCHANGED <<stage, calls, refused, modeSeen, verdict, pid, prompts, said>>
    BY <2>1 DEF turnVars, gateVars, userVars
  <2>5. GateInv' /\ NotRefusedWasApproved'
    BY <2>4, AnsweredStays DEF IndInv, GateInv, NotRefusedWasApproved
  <2> QED BY <2>2, <2>3, <2>5 DEF IndInv
<1> QED
  BY <1>1, <1>2, <1>3, <1>4, <1>5, <1>6, <1>7, <1>8, <1>9 DEF Next, TurnStep, Stopped

-----------------------------------------------------------------------------
(* The theorems.                                                            *)

\* The gate's books agree in every reachable state (http_server.cpp 1049-1120).
THEOREM InvariantHolds == Spec => []IndInv
<1>1. Init => IndInv
  BY InitInvariant
<1>2. IndInv /\ [Next]_vars => IndInv'
  BY StepInvariant
<1> QED BY <1>1, <1>2, PTL DEF Spec

\* Every variable has its type; an answer is held for any id at all.
THEOREM TypeCorrect == Spec => []TypeOK
<1>1. IndInv => TypeOK
  BY DEF IndInv
<1> QED BY <1>1, InvariantHolds, PTL

\* Whatever runs though the mode gates it was allowed, by the last word under
\* the id of its prompt or by an "always" to its kind (http_server.cpp
\* 1081-1123).
THEOREM GatedCallsWereApprovedHolds == Spec => []GatedCallsWereApproved
<1>1. IndInv => GatedCallsWereApproved
  BY DEF IndInv, NotRefusedWasApproved, GatedCallsWereApproved, Runs
<1> QED BY <1>1, InvariantHolds, PTL

\* A blanket approval was given by the last word under the id of a prompt that
\* closed since the last change of the mode.
THEOREM ApprovalsWereGivenHolds == Spec => []ApprovalsWereGiven
<1>1. IndInv => ApprovalsWereGiven
  BY DEF IndInv
<1> QED BY <1>1, InvariantHolds, PTL
=============================================================================
