------------------------------ MODULE PlanText ------------------------------
(***************************************************************************)
(* The plan file between its text and its meaning (session.cpp).  A line is *)
(* what its beginning makes of it, the content of its box if it has one,    *)
(* and its text, a sequence of words and marks; the bullets a phase may     *)
(* have ("- [", "* [", "-[", "1. [") are the one mark "item".               *)
(***************************************************************************)
EXTENDS Integers, Sequences, FiniteSets, SequencesExt

CONSTANT Numbers  \* the numbers a phase may have: 1, 2, ... as words

Space == " "

ASSUME NumbersAssumption ==
    /\ Numbers \in Seq(Range(Numbers))
    /\ \A i, j \in DOMAIN Numbers : Numbers[i] = Numbers[j] => i = j
    /\ Range(Numbers) \cap {":", ".", Space} = {}

Line(mark, box, text) == [mark |-> mark, box |-> box, text |-> text]
Prose(text) == Line("prose", "none", text)
Item(box, text) == Line("item", box, text)
Todo(phase, text) == [mark |-> "todo", phase |-> phase, text |-> text]

\* A text is a sequence: of words and marks in a line, of lines in a file.
IsText(text) == text \in Seq(Range(text))
IsLines(text) == IsText(text) /\ \A line \in Range(text) : IsText(line.text)
IsTrimmed(text) == IsText(text) /\ (text # <<>> => text[1] # Space /\ text[Len(text)] # Space)

Trimmed(text) ==
    LET kept == {i \in DOMAIN text : text[i] # Space}
    IN IF kept = {} THEN <<>> ELSE SubSeq(text, Min(kept), Max(kept))

DropLeading(text, marks) ==
    LET kept == {i \in DOMAIN text : text[i] \notin marks}
    IN IF kept = {} THEN <<>> ELSE SubSeq(text, Min(kept), Len(text))

\* Mutated: the number is left where it stands.
NoStrip(text) == text

\* "Phase 3: build" is "build"; everything of ":", "." and " " goes.
StripPhasePrefix(text) ==
    IF text = <<>> \/ Head(text) \notin {"Phase", "phase"} THEN text
    ELSE LET rest == DropLeading(Tail(text), {Space})
         IN IF rest = <<>> \/ Head(rest) \notin Range(Numbers) THEN text
            ELSE DropLeading(Tail(rest), {":", ".", Space})

PhaseText(text) == Trimmed(StripPhasePrefix(Trimmed(text)))

-----------------------------------------------------------------------------
(* parse_plan() and render_plan()                                           *)

\* The lines at the positions kept, in their order.
Selected(lines, kept) ==
    [k \in 1 .. Cardinality(kept) |->
        lines[CHOOSE i \in kept : Cardinality({j \in kept : j <= i}) = k]]

Marked(lines, mark) == Selected(lines, {i \in DOMAIN lines : lines[i].mark = mark})
Titles(lines) ==
    Selected(lines, {i \in DOMAIN lines : lines[i].mark = "title" /\ Trimmed(lines[i].text) # <<>>})
FirstText(lines) == IF lines = <<>> THEN <<>> ELSE Trimmed(Head(lines).text)
LastText(lines) == IF lines = <<>> THEN <<>> ELSE Trimmed(Last(lines).text)

Phases(lines) ==
    LET items == Selected(lines, {i \in DOMAIN lines :
                                     lines[i].mark = "item" /\ lines[i].box # "none"})
    IN [i \in DOMAIN items |-> [done |-> items[i].box \in {"x", "X"},
                                text |-> PhaseText(items[i].text),
                                todos |-> <<>>]]

\* Lines that are nothing of this are passed over.
ParsePlan(lines) == [title     |-> FirstText(Titles(lines)),
                     requested |-> LastText(Marked(lines, "requested")),
                     started   |-> LastText(Marked(lines, "started")),
                     phases    |-> Phases(lines)]

NoPlan == [title |-> <<>>, requested |-> <<>>, started |-> <<>>, phases |-> <<>>]

OrDefault(text, default) == IF text = <<>> THEN default ELSE text

Box(done) == IF done THEN "x" ELSE Space

RenderPlan(plan) ==
    <<Line("title", "none", OrDefault(plan.title, <<"Untitled", "project">>))>>
    \o (IF plan.requested = <<>> THEN <<>>
        ELSE <<Line("requested", "none", plan.requested)>>)
    \o <<Line("started", "none", OrDefault(plan.started, <<"now">>))>>
    \o [i \in DOMAIN plan.phases |->
           Item(Box(plan.phases[i].done),
                <<"Phase", Space, Numbers[i], ":", Space>> \o plan.phases[i].text)]

\* As far as there are numbers, a phase keeps its text unless that begins as what
\* goes with the number ends.
ReadsBack(plan) ==
    /\ DOMAIN plan.phases \subseteq DOMAIN Numbers
    /\ \A i \in DOMAIN plan.phases :
          LET text == plan.phases[i].text IN text = <<>> \/ Head(text) \notin {":", "."}

-----------------------------------------------------------------------------
(* The phase that is worked on, and what the prompt says of the plan.       *)

Done(plan) == {i \in DOMAIN plan.phases : plan.phases[i].done}
Pending(plan) == DOMAIN plan.phases \ Done(plan)
Active(plan) == Min(Pending(plan))
Complete(plan) == Pending(plan) = {}

\* load_todos(): anything that is not JSON is an error.
BadTodos(lines) == lines = <<>> \/ \E i \in DOMAIN lines : lines[i].mark = "prose"

WithTodos(plan, lines) ==
    [plan EXCEPT !.phases = [i \in DOMAIN @ |->
        [@[i] EXCEPT !.todos =
            Selected(lines, {k \in DOMAIN lines :
                                lines[k].mark = "todo" /\ lines[k].phase = i})]]]

\* render_plan_for_prompt(): the first open phase and no other.
PlanForPrompt(plan) ==
    IF plan.phases = <<>> THEN [about |-> "nothing"]
    ELSE IF Complete(plan) THEN [about |-> "complete"]
    ELSE [about |-> "phase", number |-> Active(plan),
          text  |-> plan.phases[Active(plan)].text,
          todos |-> plan.phases[Active(plan)].todos,
          later |-> Cardinality(Pending(plan)) - 1]

Check(plan, number, done) == [plan EXCEPT !.phases[number].done = done]

\* A plan written this turn cannot have finished phases.
Unchecked(plan) ==
    [plan EXCEPT !.phases = [i \in DOMAIN @ |-> [@[i] EXCEPT !.done = FALSE]]]

\* What saving a plan and loading it again may change: the words that stand for a
\* title or a date it has not.
RoundTrips(plan) ==
    LET again == ParsePlan(RenderPlan(plan))
    IN /\ again.phases = plan.phases
       /\ again.requested = plan.requested
       /\ RenderPlan(again) = RenderPlan(plan)
       /\ PlanForPrompt(again) = PlanForPrompt(plan)
=============================================================================
