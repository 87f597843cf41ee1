------------------------------ MODULE ToolCalls ------------------------------
(***************************************************************************)
(* What an agent turn makes of a reply (tools.cpp): the tool calls in it    *)
(* and the prose outside them, and the tool a name stands for.  The tags    *)
(* <tool_call> and </tool_call> are spelt shorter, and of JSON only braces, *)
(* strings and the "name" of a call ("n") are kept: a call is {n} or        *)
(* {n "..."}; "q" is a typographic quote.                                   *)
(***************************************************************************)
EXTENDS Integers, Sequences, FiniteSets, SequencesExt

OpenTag == <<"<", "t", ">">>
CloseTag == <<"<", "/", ">">>
Fence == <<"fence">>

\* find(): where pattern first begins at or after from, 0 if nowhere.
Find(text, pattern, from) ==
    LET at == {i \in from..(Len(text) - Len(pattern) + 1) :
                  SubSeq(text, i, i + Len(pattern) - 1) = pattern}
    IN IF at = {} THEN 0 ELSE Min(at)

After(text, from) == SubSeq(text, from, Len(text))

-----------------------------------------------------------------------------
(* Prose                                                                    *)

\* Mutated: the beginning of a tag is shown while the tag still arrives.
ShowsAll(tail) == tail

\* The end of the text that may become an open tag is held back.
WithoutPartialTag(tail) ==
    LET keeps == {n \in 1..Min({Len(OpenTag) - 1, Len(tail)}) :
                     SubSeq(tail, Len(tail) - n + 1, Len(tail)) = SubSeq(OpenTag, 1, n)}
    IN IF keeps = {} THEN tail ELSE SubSeq(tail, 1, Len(tail) - Max(keeps))

\* The text outside calls; an open call swallows what follows it.
OutsideCalls(text, streaming) ==
    LET From[pos \in 1..(Len(text) + 1)] ==
            LET open == Find(text, OpenTag, pos)
                end  == Find(text, CloseTag, open)
            IN IF open = 0 THEN (IF streaming THEN WithoutPartialTag(After(text, pos))
                                  ELSE After(text, pos))
               ELSE IF end = 0 THEN SubSeq(text, pos, open - 1)
               ELSE SubSeq(text, pos, open - 1) \o From[end + Len(CloseTag)]
    IN From[1]

\* trim()
TrimBlanks(text) ==
    LET kept == {i \in DOMAIN text : text[i] \notin {" ", "\n"}}
    IN IF kept = {} THEN <<>> ELSE SubSeq(text, Min(kept), Max(kept))

VisibleProsePrefix(acc) == OutsideCalls(acc, TRUE)
StripToolCalls(text) == TrimBlanks(OutsideCalls(text, FALSE))

-----------------------------------------------------------------------------
(* Calls                                                                    *)

\* Mutated: a quote ends a string also where it is escaped.
ForgetsEscapes(scan, c) ==
    [str |-> scan.str # (c = "\""), esc |-> FALSE,
     depth |-> scan.depth + (IF ~scan.str /\ c = "{" THEN 1
                             ELSE IF ~scan.str /\ c = "}" THEN -1 ELSE 0)]

\* One character of the scan: within a string only what ends it counts.
ScanStep(scan, c) ==
    IF scan.str
    THEN [scan EXCEPT !.esc = ~scan.esc /\ c = "\\", !.str = scan.esc \/ c # "\""]
    ELSE [str |-> c = "\"", esc |-> FALSE,
          depth |-> scan.depth + (IF c = "{" THEN 1 ELSE IF c = "}" THEN -1 ELSE 0)]

\* match_brace(): the end of the object the first brace begins, 0 if none.
MatchBrace(text) ==
    LET after[i \in 0..Len(text)] ==
            IF i = 0 THEN [str |-> FALSE, esc |-> FALSE, depth |-> 0]
            ELSE ScanStep(after[i - 1], text[i])
        closes == {i \in DOMAIN text : ~after[i].str /\ text[i] = "}" /\ after[i].depth = 0}
    IN IF text = <<>> \/ Head(text) # "{" \/ closes = {} THEN 0 ELSE Min(closes)

\* From its first brace to the matching one, or to the end.
Object(blob) ==
    LET brace == Find(blob, <<"{">>, 1)
        rest  == After(blob, brace)
    IN IF brace = 0 THEN <<>>
       ELSE IF MatchBrace(rest) = 0 THEN rest ELSE SubSeq(rest, 1, MatchBrace(rest))

\* A string as JSON has it: no other quote in it is not escaped.
IsJsonString(text) ==
    LET escaped[i \in DOMAIN text] == i > 1 /\ text[i - 1] = "\\" /\ ~escaped[i - 1]
    IN Len(text) > 1 /\ {i \in DOMAIN text : text[i] = "\"" /\ ~escaped[i]} = {1, Len(text)}

Strict(object) ==
    /\ Len(object) >= 3
    /\ object[1] = "{" /\ object[2] = "n" /\ Last(object) = "}"
    /\ LET args == SubSeq(object, 3, Len(object) - 1)
       IN args = <<>> \/ IsJsonString(args)

RepairSmartQuotes(object) ==
    [i \in DOMAIN object |-> IF object[i] = "q" THEN "\"" ELSE object[i]]

\* call_from_json(): as it stands, or else with its quotes repaired.
CallsIn(object) ==
    IF Strict(object) \/ Strict(RepairSmartQuotes(object)) THEN <<object>> ELSE <<>>

\* A tag that is not closed takes the rest of the text.
TaggedCalls(text) ==
    LET From[pos \in 1..(Len(text) + 1)] ==
            LET open == Find(text, OpenTag, pos)
                body == open + Len(OpenTag)
                end  == Find(text, CloseTag, body)
            IN IF open = 0 THEN <<>>
               ELSE IF end = 0 THEN CallsIn(Object(After(text, body)))
               ELSE CallsIn(Object(SubSeq(text, body, end - 1)))
                    \o From[end + Len(CloseTag)]
    IN From[1]

\* A fenced block begins on the line after its fence and must close its braces.
FencedCalls(text) ==
    LET Closed(blob) == MatchBrace(After(blob, Find(blob, <<"{">>, 1))) # 0
        CallsOf(blob) == IF Find(blob, <<"{">>, 1) # 0 /\ Closed(blob)
                         THEN CallsIn(Object(blob)) ELSE <<>>
        From[pos \in 1..(Len(text) + 1)] ==
            LET fence == Find(text, Fence, pos)
                line  == Find(text, <<"\n">>, fence + 1)
                end   == Find(text, Fence, line + 1)
            IN IF fence = 0 \/ line = 0 THEN <<>>
               ELSE IF end = 0 THEN CallsOf(After(text, line + 1))
               ELSE CallsOf(SubSeq(text, line + 1, end - 1)) \o From[end + 1]
    IN From[1]

\* A bare object is a call only when it is the whole reply.
BareCall(text) ==
    LET body == TrimBlanks(text)
    IN IF body # <<>> /\ MatchBrace(body) = Len(body) THEN CallsIn(body) ELSE <<>>

ParseToolCalls(text) ==
    IF TaggedCalls(text) # <<>> THEN TaggedCalls(text)
    ELSE IF FencedCalls(text) # <<>> THEN FencedCalls(text)
    ELSE BareCall(text)
=============================================================================
