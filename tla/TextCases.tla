------------------------------ MODULE TextCases ------------------------------
(* The texts, tokenizers and replies the algorithms are checked on, and what *)
(* they must yield, said another way.                                        *)
EXTENDS Reply

TextsOver(alphabet, n) == UNION {[1..k -> alphabet] : k \in 0..n}

\* Of two characters of two bytes the vocabularies below know one.
CharacterTexts(n) ==
    {Flat(cs) : cs \in TextsOver({<<"a">>, <<"b">>, <<" ">>, <<"C3", "A9">>, <<"C3", "A8">>}, n)}

-----------------------------------------------------------------------------
(* The alternation the pretokenizer implements: the ends each alternative    *)
(* can have from i on.  The first with an end counts, the farthest of it.    *)

AllIn(text, from, to, class) == \A k \in from..(to - 1) : text[k] \in class
Runs(text, i, class) == {j \in (i + 1)..(Len(text) + 1) : AllIn(text, i, j, class)}

\* An optional character of a class before a run.
WithPrefix(text, i, prefix, class) ==
    Runs(text, i, class)
    \cup (IF text[i] \in prefix THEN Runs(text, i + 1, class) ELSE {})

Contractions(text, i) ==
    {j \in (i + 2)..(Len(text) + 1) :
        Slice(text, i, j) \in {<<"'">> \o s : s \in {<<"t">>, <<"T">>}
                                  \cup {<<r, e>> : r \in {"r", "R"}, e \in {"e", "E"}}}}

\* A run of white space that no other character follows.
Trailing(text, i) ==
    {j \in Runs(text, i, Spaces) : j = Len(text) + 1 \/ text[j] \in Spaces}

Alternatives(pre, text, i) ==
    IF pre = "gpt2"
    THEN <<Contractions(text, i), WithPrefix(text, i, {" "}, Letters),
           WithPrefix(text, i, {" "}, Digits), WithPrefix(text, i, {" "}, Others),
           Trailing(text, i), Runs(text, i, Spaces)>>
    ELSE LET others == WithPrefix(text, i, {" "}, Others)
             prefixes == (Printable \cup Spaces) \ (Letters \cup Digits \cup Newlines)
             digits == IF pre = "qwen2" THEN 1 ELSE 3
         IN <<Contractions(text, i), WithPrefix(text, i, prefixes, Letters),
              {j \in Runs(text, i, Digits) : j - i <= digits},
              others \cup UNION {Runs(text, j, Newlines) : j \in others},
              {j \in Runs(text, i, Spaces) : text[j - 1] \in Newlines},
              Trailing(text, i), Runs(text, i, Spaces)>>

FirstEnd(alternatives) ==
    Max(alternatives[Min({a \in DOMAIN alternatives : alternatives[a] # {}})])

Alternation(pre, text) ==
    LET From[i \in 1..(Len(text) + 1)] ==
            IF i = Len(text) + 1 THEN <<>>
            ELSE LET end == FirstEnd(Alternatives(pre, text, i))
                 IN <<Slice(text, i, end)>> \o From[end]
    IN From[1]

-----------------------------------------------------------------------------
(* Tokenizers                                                                *)

\* With the special ids 14 and 15, of which the merges can make 14 or not.
BpeTokenizer(pre, more) ==
    [kind |-> "bpe", pre |-> pre, unk |-> 0, scores |-> <<>>, special |-> {14, 15},
     vocab |-> <<<<"a">>, <<"b">>, <<"u ">>, <<"uC3">>, <<"uA9">>, <<"<">>, <<"(">>, <<">">>,
                 <<"a", "b">>, <<"u ", "a">>, <<"uC3", "uA9">>, <<"u ", "a", "b">>, <<"b", "b">>,
                 <<"<", "(">>, <<"<", "(", ">">>>>,
     merges |-> <<<<<<"b">>, <<"b">>>>, <<<<"u ">>, <<"a">>>>, <<<<"a">>, <<"b">>>>,
                  <<<<"uC3">>, <<"uA9">>>>, <<<<"u ", "a">>, <<"b">>>>>> \o more]

BpeTokenizers == {BpeTokenizer(pre, more) :
    pre \in {"gpt2", "qwen2"}, more \in {<<>>, <<<<<<"<">>, <<"(">>>>>>}}

\* The special ids 1, which may be the unknown one, and 2.
SpmVocab ==
    <<<<"<", "/", ">">>, <<"<", "(", ">">>, <<"_">>, <<"a">>, <<"b">>, <<"<">>, <<"(">>,
      <<"_", "a">>, <<"a", "a">>, <<"a", "b">>, <<"b", "a">>, <<"a", "a", "b">>,
      <<"b", "a", "a">>, <<"a", "b", "a", "b">>, <<"C3", "A9">>>>

\* The pieces more and the tokens of some bytes, all of score 0.
SpmTokenizer(scores, unk, more, bytes) ==
    LET added == more \o [i \in DOMAIN bytes |-> ByteToken(bytes[i])]
    IN [kind |-> "spm", pre |-> "", unk |-> unk, special |-> {1, 2}, merges |-> <<>>,
        vocab |-> SpmVocab \o added, scores |-> scores \o [i \in DOMAIN added |-> 0]]

\* Scores by length, against it, and with ties.
SpmTokenizers ==
    {SpmTokenizer([i \in 1..7 |-> 0] \o scores, 1, <<>>, <<"00", "C3", "A8">>) : scores \in
        {<<1, 2, 3, 4, 9, 8, 7, 0>>, <<9, 4, 3, 5, 1, 2, 6, 0>>,
         <<1, 1, 1, 1, 1, 1, 1, 0>>, <<0, 2, 2, 1, 1, 3, 2, 0>>}}

\* A token for every byte, for some only, or none for the byte 0; an unknown id
\* or none; a special token the pieces can or cannot be merged to.
SpmByteTokenizers ==
    {SpmTokenizer([i \in DOMAIN SpmVocab |-> i], unk, more, bytes) :
        unk \in {0, 1}, more \in {<<>>, <<<<"(", ">">>>>},
        bytes \in {<<"00", "C3", "A8", "A9", ">">>, <<"00", "C3">>, <<"C3", "A8", "A9", ">">>}}

\* SentencePiece as it is defined: the best adjacent pair, over and over.
MergeBestPairs(t, texts) ==
    LET Go[now \in Seq(Seq(STRING))] ==
            LET pairs == {i \in 1..(Len(now) - 1) : IdOf(t, now[i] \o now[i + 1]) # 0}
                score(i) == t.scores[IdOf(t, now[i] \o now[i + 1])]
                best == {i \in pairs : \A o \in pairs : score(o) <= score(i)}
            IN IF pairs = {} THEN now
               ELSE Go[SubSeq(now, 1, Min(best) - 1) \o <<now[Min(best)] \o now[Min(best) + 1]>>
                       \o SubSeq(now, Min(best) + 2, Len(now))]
    IN Go[texts]

\* What the tokens of a text without special tokens stand for.
Spelled(t, text) ==
    LET pieces == MergeBestPairs(t, Characters(Normalised(text)))
        Unknown == IF t.unk = 0 THEN <<>> ELSE t.vocab[t.unk]
        Byte(b) == IF {<<"<0x00>">>, <<"<0x" \o b \o ">">>} \subseteq Range(t.vocab)
                   THEN <<b>> ELSE Unknown
        Blanks(p) == [i \in DOMAIN p |-> IF p[i] = "_" THEN " " ELSE p[i]]
        OfPiece(p) == IF p \in Range(t.vocab) THEN Blanks(p)
                      ELSE Flat([i \in DOMAIN p |-> Byte(p[i])])
        Known(b) == <<ByteChar(b)>> \in Range(t.vocab)
    IN IF text = <<>> THEN <<>>
       ELSE IF t.kind = "spm" THEN Flat([i \in DOMAIN pieces |-> OfPiece(pieces[i])])
       ELSE [i \in DOMAIN text |-> IF Known(text[i]) THEN text[i] ELSE Head(t.vocab[1])]

\* The same around the special tokens in it.
RECURSIVE SpelledAround(_, _)
SpelledAround(t, text) ==
    LET at == {i \in DOMAIN text : SpecialsAt(t, text, i) # {}}
        first == Min(at)
        special == t.vocab[LongestOf(t, SpecialsAt(t, text, first))]
    IN IF at = {} THEN Spelled(t, text)
       ELSE Spelled(t, SubSeq(text, 1, first - 1)) \o special
            \o SpelledAround(t, SubSeq(text, first + Len(special), Len(text)))

\* Merging can make this text of two others.
Joined(t, text) ==
    IF t.kind = "bpe" THEN \E r \in DOMAIN t.merges : t.merges[r][1] \o t.merges[r][2] = text
    ELSE \E k \in 1..(Len(text) - 1) :
            \A part \in {SubSeq(text, 1, k), SubSeq(text, k + 1, Len(text))} :
                part \in Range(t.vocab) \/ Len(Characters(part)) = 1

-----------------------------------------------------------------------------
(* Replies: the ids of a tokenizer with the halves of a character, of a tag   *)
(* and whole tags.                                                           *)

ReplyTokenizer ==
    [kind |-> "bpe", pre |-> "qwen2", unk |-> 0, scores |-> <<>>, special |-> {7}, merges |-> <<>>,
     vocab |-> <<<<"a">>, <<"<">>, <<"t", ">">>, <<"<", "t", ">">>, <<"<", "/", ">">>, <<"uC3">>,
                 <<"<", "(", ">">>, <<"uA9">>, <<"uC3", "uA9">>, <<"u ">>>>]

ProseTexts == {<<>>, <<"a">>, <<" ", "a", "\n">>}
CallTexts ==
    {<<"{", "n", "}">>, <<"{", "n", "\"", "a", "\"", "}">>, <<"{", "n", "\"", "{", "\"", "}">>,
     <<"{", "n", "\"", "}", "}", "\"", "}">>, <<"{", "n", "q", "a", "q", "}">>,
     <<"{", "n", "\"", "\\", "\"", "}", "\"", "}">>,
     <<"{", "n", "\"", "a", "\\", "\\", "\"", "}">>}
Tagged(call) == OpenTag \o call \o <<" ">> \o CloseTag
Fenced(call) == Fence \o <<"\n">> \o call \o <<"\n">> \o Fence
Written(form, call) == IF form = "tagged" THEN Tagged(call) ELSE Fenced(call)

=============================================================================
