-------------------------------- MODULE Reply --------------------------------
(***************************************************************************)
(* How a reply reaches the client while it is generated (http_server.cpp):  *)
(* after every token the whole reply is decoded again and what is new of it *)
(* handed on as a piece; an agent turn shows of the pieces what lies        *)
(* outside tool calls.                                                      *)
(***************************************************************************)
EXTENDS Tokenizer, ToolCalls

\* The reply after the first k tokens: it is replaced only when it grew.
Accumulated(t, ids) ==
    LET After_[k \in 0..Len(ids)] ==
            IF k = 0 THEN <<>>
            ELSE LET full == Decode(t, SubSeq(ids, 1, k), TRUE)
                 IN IF Len(full) > Len(After_[k - 1]) THEN full ELSE After_[k - 1]
    IN After_

\* What on_delta is called with, one piece for every token that adds some.
Pieces(t, ids) ==
    LET acc == Accumulated(t, ids)
        news == [k \in DOMAIN ids |-> After(acc[k], Len(acc[k - 1]) + 1)]
    IN SelectSeq(news, LAMBDA piece : piece # <<>>)

\* Every character of two bytes has both.
Whole(piece) ==
    /\ \A i \in DOMAIN piece : piece[i] \in Lead =>
          i < Len(piece) /\ piece[i + 1] \in Continuation
    /\ \A i \in DOMAIN piece : piece[i] \in Continuation => i > 1 /\ piece[i - 1] \in Lead

\* What an agent turn finds to show: what is visible and not yet shown.
News(pieces) ==
    LET Shown[k \in 0..Len(pieces)] ==
            IF k = 0 THEN 0
            ELSE Max({Shown[k - 1], Len(VisibleProsePrefix(Flat(SubSeq(pieces, 1, k))))})
        Delta(k) == After(VisibleProsePrefix(Flat(SubSeq(pieces, 1, k))), Shown[k - 1] + 1)
    IN SelectSeq([k \in DOMAIN pieces |-> Delta(k)], LAMBDA delta : delta # <<>>)

\* dump() throws at half a character, and the generation ends there.
Throws(pieces) == \E k \in DOMAIN News(pieces) : ~Whole(News(pieces)[k])

\* The delta events of an agent turn.
Deltas(pieces) ==
    LET halves == {k \in DOMAIN News(pieces) : ~Whole(News(pieces)[k])}
    IN IF halves = {} THEN News(pieces) ELSE SubSeq(News(pieces), 1, Min(halves) - 1)
=============================================================================
