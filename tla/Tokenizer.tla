------------------------------ MODULE Tokenizer ------------------------------
(***************************************************************************)
(* The tokenizer (bpe_tokenizer.cpp): text is cut at special tokens, then   *)
(* into pretokens (byte-level vocabularies) or normalised (SentencePiece),  *)
(* and merged into tokens; decoding goes back.                              *)
(*                                                                         *)
(* A text is a sequence of bytes, a byte the name of one.  "C3" stands for  *)
(* a byte that begins a two-byte character, "A8" and "A9" for one that ends *)
(* it; "_" is the word boundary U+2581.  A tokenizer t is a record: its     *)
(* kind ("bpe" or "spm"), its pretokenizer, its vocabulary (ids are         *)
(* indices, from 1), the special ids, the unknown id (0 if it has none),    *)
(* the merges by rank, the scores.                                          *)
(***************************************************************************)
EXTENDS Integers, Sequences, FiniteSets, SequencesExt

Capitals == {"E", "R", "T"}
Printable == Capitals \cup {"a", "b", "e", "r", "t", "1", "2", "'", "(", "<", ">", "/"}
Lead == {"C3"}
Continuation == {"A9", "A8"}
Newlines == {"\n"}
Spaces == {" "} \cup Newlines
Digits == {"1", "2"}

\* is_letter_cp(): a letter of ASCII, and everything beyond ASCII, so that a
\* byte decides for its character however decode_utf8() groups the bytes.
Letters == Capitals \cup {"a", "b", "e", "r", "t"} \cup Lead \cup Continuation
Others == Printable \ (Letters \cup Digits)
Bytes == Printable \cup Spaces \cup Lead \cup Continuation \cup {"00"}

Slice(text, from, to) == SubSeq(text, from, to - 1)
Flat(texts) == FlattenSeq(texts)

\* The characters a byte-level vocabulary writes for bytes, and back.
ByteChar(b) == IF b \in Printable THEN b ELSE "u" \o b
CharByte(c) ==
    IF \E b \in Spaces \cup Lead \cup Continuation : ByteChar(b) = c
    THEN CHOOSE b \in Spaces \cup Lead \cup Continuation : ByteChar(b) = c
    ELSE c

\* 0: no such token.  Of two equal entries the first counts.
IdOf(t, text) ==
    LET ids == {i \in DOMAIN t.vocab : t.vocab[i] = text}
    IN IF ids = {} THEN 0 ELSE Min(ids)

-----------------------------------------------------------------------------
(* Pretokens                                                                *)

RunEnd(text, from, class) ==
    Min({j \in from..(Len(text) + 1) : j = Len(text) + 1 \/ text[j] \notin class})

\* Mutated: the whole run of white space, the last blank too.
TakesAllBlanks(text, i, end) == end

\* White space before something else leaves its last blank to that.
BlanksEnd(text, i, end) ==
    IF end = Len(text) + 1 \/ end - i < 2 THEN end ELSE end - 1

MaxDigits(pre, text) ==
    CASE pre = "qwen2" -> 1 [] pre = "llama3" -> 3 [] OTHER -> Len(text)

\* std::tolower()
Lower(b) == CASE b = "E" -> "e" [] b = "R" -> "r" [] b = "T" -> "t" [] OTHER -> b
LowerSlice(text, from, to) ==
    LET slice == Slice(text, from, Min({to, Len(text) + 1}))
    IN [k \in DOMAIN slice |-> Lower(slice[k])]

\* match_contraction(), for every family: 't and its like are two bytes, 're and its
\* like three, in either case.
ContractionEnd(text, i) ==
    IF LowerSlice(text, i, i + 2) = <<"'", "t">> THEN i + 2
    ELSE IF LowerSlice(text, i, i + 3) = <<"'", "r", "e">> THEN i + 3
    ELSE i

\* The end of the pretoken that begins at i: the first alternative that fits.
PretokenEnd(pre, text, i) ==
    LET gpt2   == pre = "gpt2"
        blank  == IF text[i] = " " THEN i + 1 ELSE i
        word   == IF gpt2 THEN blank
                  ELSE IF text[i] \in Letters \cup Digits \cup Newlines THEN i
                  ELSE i + 1
        number == IF gpt2 THEN blank ELSE i
        others == RunEnd(text, blank, Others)
        spaces == RunEnd(text, i, Spaces)
        breaks == {k \in i..(spaces - 1) : text[k] \in Newlines}
    IN IF ContractionEnd(text, i) > i THEN ContractionEnd(text, i)
       ELSE IF RunEnd(text, word, Letters) > word THEN RunEnd(text, word, Letters)
       ELSE IF RunEnd(text, number, Digits) > number
            THEN Min({RunEnd(text, number, Digits), number + MaxDigits(pre, text)})
       ELSE IF others > blank
            THEN (IF gpt2 THEN others ELSE RunEnd(text, others, Newlines))
       ELSE IF ~gpt2 /\ breaks # {} THEN Max(breaks) + 1
       ELSE BlanksEnd(text, i, spaces)

Pretokens(pre, text) ==
    LET From[i \in 1..(Len(text) + 1)] ==
            IF i = Len(text) + 1 THEN <<>>
            ELSE LET end == PretokenEnd(pre, text, i)
                 IN <<Slice(text, i, end)>> \o From[end]
    IN From[1]

-----------------------------------------------------------------------------
(* Byte-level merging: the pair of the lowest rank, the leftmost of it.     *)

\* The rank of the pair at i, 0 if it has none.
RankAt(t, ids, i) ==
    LET ranks == {r \in DOMAIN t.merges :
                     /\ IdOf(t, t.merges[r][1]) = ids[i]
                     /\ IdOf(t, t.merges[r][2]) = ids[i + 1]}
    IN IF ranks = {} THEN 0 ELSE Min(ranks)

\* A byte the vocabulary has no token for becomes the first token.
ByteId(t, b) ==
    IF IdOf(t, <<ByteChar(b)>>) = 0 THEN 1 ELSE IdOf(t, <<ByteChar(b)>>)

EncodePretoken(t, bytes) ==
    LET Merge[ids \in Seq(DOMAIN t.vocab)] ==
            LET pairs == {i \in 1..(Len(ids) - 1) : RankAt(t, ids, i) # 0}
                least == Min({RankAt(t, ids, i) : i \in pairs})
                at == Min({i \in pairs : RankAt(t, ids, i) = least})
                id == IdOf(t, t.vocab[ids[at]] \o t.vocab[ids[at + 1]])
            IN IF pairs = {} \/ id = 0 THEN ids
               ELSE Merge[Slice(ids, 1, at) \o <<id>> \o SubSeq(ids, at + 2, Len(ids))]
    IN Merge[[i \in DOMAIN bytes |-> ByteId(t, bytes[i])]]

-----------------------------------------------------------------------------
(* SentencePiece: symbols in a doubly linked list, merged in the order of a *)
(* heap of pairs that may have gone stale.                                  *)

Normalised(text) ==
    <<"_">> \o [i \in DOMAIN text |-> IF text[i] = " " THEN "_" ELSE text[i]]

Characters(text) ==
    LET From[i \in 1..(Len(text) + 1)] ==
            IF i > Len(text) THEN <<>>
            ELSE LET end == Min({Len(text) + 1, IF text[i] \in Lead THEN i + 2 ELSE i + 1})
                 IN <<Slice(text, i, end)>> \o From[end]
    IN From[1]

Symbols(texts) == [i \in DOMAIN texts |->
    [text |-> texts[i], prev |-> i - 1, alive |-> TRUE,
     next |-> IF i = Len(texts) THEN 0 ELSE i + 1]]

\* try_add(): the pair as it would be pushed, if the vocabulary has it.
Bigrams(t, syms, l, r) ==
    IF l = 0 \/ r = 0 \/ ~syms[l].alive \/ ~syms[r].alive
       \/ IdOf(t, syms[l].text \o syms[r].text) = 0
    THEN {}
    ELSE {[left |-> l, right |-> r, size |-> Len(syms[l].text \o syms[r].text),
           score |-> t.scores[IdOf(t, syms[l].text \o syms[r].text)]]}

\* Mutated: a pair whose text has grown is not noticed.
StaleOnlyIfDead(syms, b) == ~syms[b.left].alive \/ ~syms[b.right].alive

Stale(syms, b) ==
    \/ ~syms[b.left].alive
    \/ ~syms[b.right].alive
    \/ Len(syms[b.left].text) + Len(syms[b.right].text) # b.size

Best(work) == CHOOSE b \in work : \A o \in work :
    b.score > o.score \/ (b.score = o.score /\ b.left <= o.left)

Glue(syms, b) ==
    LET after == syms[b.right].next
        glued == [syms EXCEPT ![b.left].text = @ \o syms[b.right].text,
                              ![b.left].next = after,
                              ![b.right].alive = FALSE]
    IN IF after = 0 THEN glued ELSE [glued EXCEPT ![after].prev = b.left]

RECURSIVE Merged(_, _, _)
Merged(t, syms, work) ==
    IF work = {} THEN syms
    ELSE LET b == Best(work)
             glued == Glue(syms, b)
         IN IF Stale(syms, b) THEN Merged(t, syms, work \ {b})
            ELSE Merged(t, glued, (work \ {b})
                     \cup Bigrams(t, glued, glued[b.left].prev, b.left)
                     \cup Bigrams(t, glued, b.left, glued[b.left].next))

SpmPieces(t, text) ==
    LET syms == Symbols(Characters(Normalised(text)))
        work == UNION {Bigrams(t, syms, i - 1, i) : i \in DOMAIN syms}
        done == Merged(t, syms, work)
        kept == SelectSeq(done, LAMBDA s : s.alive)
    IN [i \in DOMAIN kept |-> kept[i].text]

ByteToken(b) == <<"<0x" \o b \o ">">>

\* Mutated: a piece the vocabulary lacks is unknown as a whole.
UnknownWhole(t, piece) ==
    IF IdOf(t, piece) # 0 THEN <<IdOf(t, piece)>> ELSE IF t.unk = 0 THEN <<>> ELSE <<t.unk>>

\* byte_fallback_base: there are byte tokens if there is one for the byte 0.
HasByteTokens(t) == IdOf(t, ByteToken("00")) # 0
FallbackId(t, b) ==
    IF HasByteTokens(t) /\ IdOf(t, ByteToken(b)) # 0 THEN IdOf(t, ByteToken(b)) ELSE t.unk

\* What the vocabulary lacks falls back to its bytes, those to unknown, and where
\* there is no such token to nothing.
PieceIds(t, piece) ==
    IF IdOf(t, piece) # 0 THEN <<IdOf(t, piece)>>
    ELSE SelectSeq([i \in DOMAIN piece |-> FallbackId(t, piece[i])], LAMBDA id : id # 0)

-----------------------------------------------------------------------------
(* encode() and decode()                                                    *)

EncodeChunk(t, chunk) ==
    LET pieces == IF t.kind = "spm" THEN SpmPieces(t, chunk) ELSE Pretokens(t.pre, chunk)
    IN Flat([i \in DOMAIN pieces |-> IF t.kind = "spm" THEN PieceIds(t, pieces[i])
                                     ELSE EncodePretoken(t, pieces[i])])

SpecialsAt(t, text, i) ==
    {id \in t.special : t.vocab[id] = SubSeq(text, i, Min({Len(text), i + Len(t.vocab[id]) - 1}))}

LongestOf(t, ids) == CHOOSE id \in ids : \A o \in ids : Len(t.vocab[o]) <= Len(t.vocab[id])

Encode(t, text, allow_special) ==
    LET From[i \in 1..(Len(text) + 1)] ==
            IF i = Len(text) + 1 THEN <<>>
            ELSE IF SpecialsAt(t, text, i) # {}
            THEN LET id == LongestOf(t, SpecialsAt(t, text, i))
                 IN <<id>> \o From[i + Len(t.vocab[id])]
            ELSE LET j == Min({k \in (i + 1)..(Len(text) + 1) :
                                  k = Len(text) + 1 \/ SpecialsAt(t, text, k) # {}})
                 IN EncodeChunk(t, Slice(text, i, j)) \o From[j]
    IN IF text = <<>> THEN <<>>
       ELSE IF allow_special THEN From[1] ELSE EncodeChunk(t, text)

\* The bytes a token stands for.
TokenBytes(t, id) ==
    LET text == t.vocab[id]
    IN IF id \in t.special THEN text
       ELSE IF t.kind = "bpe" THEN [i \in DOMAIN text |-> CharByte(text[i])]
       ELSE IF \E b \in Bytes : text = ByteToken(b)
       THEN <<CHOOSE b \in Bytes : text = ByteToken(b)>>
       ELSE [i \in DOMAIN text |-> IF text[i] = "_" THEN " " ELSE text[i]]

Decode(t, ids, skip_special) ==
    Flat([i \in DOMAIN ids |-> IF skip_special /\ ids[i] \in t.special THEN <<>>
                               ELSE TokenBytes(t, ids[i])])
=============================================================================
