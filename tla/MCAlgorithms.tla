----------------------------- MODULE MCAlgorithms -----------------------------
(* The pure algorithms, one input a state: a text, a reply, a plan, logits,  *)
(* a model file or the metadata of a model.                                  *)
EXTENDS TextCases, Inputs, TLC

CONSTANTS MaxText, MaxWord, MaxReply

MCNumbers == <<"1", "2", "3", "4", "5", "6">>

-----------------------------------------------------------------------------
(* Texts                                                                     *)

PickText ==
    /\ Is("none")
    /\ \E pre \in {"gpt2", "llama3", "qwen2"},
          text \in TextsOver({"a", "t", "1", "'", "(", " ", "\n"}, MaxText)
                   \cup TextsOver({"'", "t", "T", "r", "E", " "}, MaxText - 1) :
           Pick("text", [pre |-> pre, text |-> text])

\* The pretokens of a text are the matches of the alternation the tokenizer's
\* comment gives for its family, with the contractions in either case also for
\* GPT-2, whose line of the comment has them in lower case (pretokenize).
PretokensFollowTheAlternation ==
    Is("text") => Pretokens(input.of.pre, input.of.text) = Alternation(input.of.pre, input.of.text)

PickWord ==
    /\ Is("none")
    /\ \E t \in SpmTokenizers,
          text \in TextsOver({"a", "b"}, MaxWord) \cup TextsOver({"a", "b", " "}, MaxText - 1) :
           Pick("word", [t |-> t, text |-> text])

\* The heap with its stale pairs merges what merging the best pair of the
\* text over and over would (encode_spm).
HeapMergesBestPair ==
    Is("word") => SpmPieces(input.of.t, input.of.text)
                  = MergeBestPairs(input.of.t, Characters(Normalised(input.of.text)))

PickBytes ==
    /\ Is("none")
    /\ \E special \in BOOLEAN :
          \/ \E t \in BpeTokenizers,
                text \in TextsOver({"a", "b", "e", " ", "C3", "A9"}, MaxText - 1)
                         \cup TextsOver({"a", "<", "(", ">"}, MaxText) :
                Pick("bytes", [t |-> t, text |-> text, special |-> special])
          \/ \E t \in SpmByteTokenizers,
                text \in CharacterTexts(MaxText - 2)
                         \cup TextsOver({"a", "_", "C3", "A9"}, MaxText - 2)
                         \cup TextsOver({"a", "<", "(", ">"}, MaxText) :
                Pick("bytes", [t |-> t, text |-> text, special |-> special])

\* Decoding gives back every byte that was encoded, of characters that are not
\* whole and around special tokens too, but for what the vocabulary has no token
\* of: that becomes the unknown token (for bytes the first one) or is lost.  A
\* SentencePiece text comes back with a blank in front of every stretch between
\* special tokens.  With special tokens not allowed none is encoded but the
\* unknown one and one that merging makes (encode, decode).
DecodingInvertsEncoding ==
    Is("bytes") =>
        LET t == input.of.t
            ids == Encode(t, input.of.text, input.of.special)
        IN /\ Decode(t, ids, FALSE) = IF input.of.special THEN SpelledAround(t, input.of.text)
                                      ELSE Spelled(t, input.of.text)
           /\ ~input.of.special => \A id \in Range(ids) \cap t.special :
                                      id = t.unk \/ Joined(t, t.vocab[id])

-----------------------------------------------------------------------------
(* Replies                                                                   *)

PickReply ==
    /\ Is("none")
    /\ \E ids \in TextsOver(DOMAIN ReplyTokenizer.vocab, MaxReply) : Pick("reply", ids)

\* The prose shown while a reply is generated is never taken back: it begins
\* the prose of the finished reply, and when no piece ends the generation only
\* what might have become a tag is missing of it, and blanks at its ends, which
\* the finished reply is trimmed of (run_chat_stream, the agent's loop,
\* visible_prose_prefix, strip_tool_calls).
StreamedProseIsStable ==
    Is("reply") =>
        LET pieces == Pieces(ReplyTokenizer, input.of)
            shown == Flat(Deltas(pieces))
        IN /\ IsPrefix(shown, OutsideCalls(Flat(pieces), FALSE))
           /\ Throws(pieces) \/ \E n \in 0..(Len(OpenTag) - 1) :
                 StripToolCalls(Flat(pieces)) = TrimBlanks(shown \o SubSeq(OpenTag, 1, n))
           /\ Flat(pieces) = Decode(ReplyTokenizer, input.of, TRUE)

\* The pieces of a reply of whole characters are whole characters, as the
\* comments say of characters split across two tokens (run_chat_stream).
PiecesAreWholeCodepoints ==
    Is("reply") /\ Whole(Decode(ReplyTokenizer, input.of, TRUE))
        => \A i \in DOMAIN Pieces(ReplyTokenizer, input.of) :
              Whole(Pieces(ReplyTokenizer, input.of)[i])

\* The last call of a reply may break off, cut characters before its end.
PickCalls ==
    /\ Is("none")
    /\ \E form \in {"tagged", "fenced", "bare"}, before, after \in ProseTexts,
          calls \in TextsOver(CallTexts, 2) :
         \E cut \in 0..(IF calls = <<>> \/ form = "bare" THEN 0
                         ELSE Len(Written(form, Last(calls)))) :
           Pick("calls", [form |-> form, calls |-> calls, before |-> before, after |-> after,
                          cut |-> cut])

\* The reply those calls make: only tagged and fenced calls may stand among others.
ReplyOf(c) ==
    LET closed == IF c.cut = 0 THEN Len(c.calls) ELSE Len(c.calls) - 1
        Part(i) == Written(c.form, c.calls[i]) \o (IF i <= closed THEN c.after ELSE <<>>)
        whole == c.before \o Flat([i \in DOMAIN c.calls |-> Part(i)])
    IN IF c.form = "bare" THEN <<" ">> \o Flat(c.calls) \o <<"\n">>
       ELSE SubSeq(whole, 1, Len(whole) - c.cut)

\* The calls a reply was made of are the calls found in it, in their order and
\* whatever braces and quotes their strings hold, a last one too whose tag or
\* fence is not closed; prose or a call that breaks off yields none
\* (parse_tool_calls, match_brace).
EveryCallIsFound ==
    Is("calls") /\ (input.of.form = "bare" => Len(input.of.calls) <= 1)
        => LET c == input.of
               closing == 1 + Len(IF c.form = "tagged" THEN CloseTag ELSE Fence)
           IN ParseToolCalls(ReplyOf(c)) = IF c.cut <= closing THEN c.calls ELSE Front(c.calls)

-----------------------------------------------------------------------------
(* Plans                                                                     *)

PlanTexts ==
    {<<"nav">>, <<"Phase", " ", "2", ":", " ", "nav">>, <<"nav", " ", "2">>, <<".", "nav">>}

PlanOf(title, requested, boxes, texts, prose) ==
    <<Line("title", "none", title), Line("requested", "none", requested)>>
    \o (IF prose THEN <<Prose(<<"nav">>)>> ELSE <<>>)
    \o [i \in DOMAIN texts |-> Item(boxes[i], texts[i])]

AnyPlan ==
    /\ Is("none")
    /\ \E title, requested \in {<<>>, <<"site">>}, prose \in BOOLEAN, n \in 0..2 :
         \E boxes \in [1..n -> {" ", "x", "X", "-"}], texts \in [1..n -> PlanTexts] :
            PickPlan(PlanOf(title, requested, boxes, texts, prose))

-----------------------------------------------------------------------------
(* Sampling                                                                  *)

Tokens == 1..3

AnyLogits ==
    /\ Is("none")
    /\ \E logits \in [Tokens -> {-1, 0, 3, Draw!Masked}], top_k \in {0, 1, 2},
          top_p \in {100, 50, 90}, min_p \in {0, 30, 100, 200}, inverse \in {0, 1},
          penalties \in {<<1, 0, 0, 0>>, <<2, 1, 1, 1>>}, recent \in {<<>>, <<2, 1, 2, 2>>} :
           PickLogits(
                [logits |-> logits, recent |-> recent,
                 p |-> [bias |-> [t \in Tokens |-> IF t = 3 THEN 1 ELSE 0],
                        repeat_last_n |-> 3, dry_last_n |-> 2, dry_base |-> 2,
                        dry_allowed_len |-> 1, rep_penalty |-> penalties[1],
                        dry_multiplier |-> penalties[2], frequency_penalty |-> penalties[3],
                        presence_penalty |-> penalties[4], inverse |-> inverse,
                        top_k |-> top_k, top_p |-> top_p, min_p |-> min_p]])

-----------------------------------------------------------------------------
(* Model files                                                               *)

Entry(key, type, value) == [key |-> key, value |-> [type |-> type, value |-> value]]
Info(name, dtype, dims, offset) ==
    [name |-> name, dtype |-> dtype, dims |-> dims, offset |-> offset]

\* A matrix of two rows of extra elements beside whole blocks, and a stack of
\* two such matrices or a vector.
FileOf(alignment, dtype, extra, other, experts) ==
    LET cols(t) == Max({Gguf!BlockSize(t), 32})
        first == Info("m", dtype, <<cols(dtype) + extra, 2>>, 0)
        dims == IF experts = 0 THEN <<cols(other)>> ELSE <<cols(other), 2, experts>>
        file == [magic |-> "GGUF", version |-> 3, size |-> 0,
                 kv |-> <<[key |-> "flags",
                            value |-> [type |-> "Array", element |-> "U8", count |-> 3]],
                          Entry("general.architecture", "String", "qwen2"),
                          Entry("general.alignment", "U32", alignment)>>,
                 tensors |-> <<first, Info("s", other, dims,
                     Gguf!AlignUp(Gguf!TensorBytes(dtype, first.dims), Max({alignment, 1})))>>]
        last == file.tensors[2]
    IN [file EXCEPT !.size = Gguf!DataBase(file) + last.offset + Gguf!TensorBytes(other, dims)]

Dtypes == {"F32", "F16", "Q4_0", "Q8_0", "Q2_0", "PQ2_0", "Q6_K", "IQ4_XS"}

Shapes(file, experts) ==
    LET last == file.tensors[2].dims
    IN {<<"m", 2, file.tensors[1].dims[1], 0>>,
        IF experts = 0 THEN <<"s", last[1], 0, 0>> ELSE <<"s", 2, last[1], experts>>}

\* A file nothing is missing of loads.
ASSUME WholeFilesLoad ==
    \A alignment \in {0, 32, 64}, dtype, other \in Dtypes, extra \in {0, 16}, experts \in {0, 2} :
        Gguf!Loads(FileOf(alignment, dtype, extra, other, experts))

AnyFile ==
    /\ Is("none")
    /\ \E alignment \in {0, 64}, dtype, other \in Dtypes, extra \in {0, 3, -16, 16},
          experts \in {0, 2}, cut \in {0, 1, 33, 300, 700} :
           LET whole == FileOf(alignment, dtype, extra, other, experts)
           IN PickFile([file |-> [whole EXCEPT !.size = Max({0, @ - cut})],
                        shapes |-> Shapes(whole, experts)])

-----------------------------------------------------------------------------
(* Metadata of models                                                        *)

Keyed(key, values) == {key :> v : v \in values}
Optional(key, values) == {<<>>} \cup Keyed(key, values)

\* The keys an architecture brings: feed-forward, experts, delta-net.
FfnKeys(arch) ==
    IF Arch!Archs[arch].ffn # "moe" THEN Keyed("feed_forward_length", {3, 9})
    ELSE {"expert_count" :> 2 @@ "expert_used_count" :> used
          @@ "expert_feed_forward_length" :> width @@ shared :
             used \in {1, 3}, width \in {1, 9},
             shared \in Optional("expert_shared_feed_forward_length", {0, 5})}

DeltaKeys(arch) ==
    IF ~Arch!Archs[arch].hybrid THEN {<<>>}
    ELSE {"conv_kernel" :> conv @@ "inner_size" :> inner @@ "state_size" :> state
          @@ "group_count" :> groups @@ "time_step_rank" :> 4 @@ interval :
             conv \in {1, 3}, inner \in {8, 16}, state \in {2, 4}, groups \in {1, 2},
             interval \in {<<>>, "full_attention_interval" :> 2,
                          "recurrent_layers" :> <<TRUE, FALSE, TRUE>>}}

WindowKeys(arch) ==
    IF arch # "spark2_5" THEN {<<>>}
    ELSE {"sliding_window" :> 3 @@ "window_pattern" :> pattern :
             pattern \in {<<TRUE, TRUE, FALSE>>, <<TRUE>>}}

AnyMetadata ==
    /\ Is("none")
    /\ \E arch \in DOMAIN Arch!Archs, kv \in Optional("head_count_kv", {0, 1, 2}),
          heads \in {1, 3},
          width \in Optional("key_length", {2, 5}),
          mtp \in Optional("nextn_predict_layers", {1, 3}), batch \in {1, 3} :
         \E ffn \in FfnKeys(arch), delta \in DeltaKeys(arch), window \in WindowKeys(arch) :
           PickMetadata(
                [batch |-> batch, slots |-> 2,
                 md |-> "arch" :> arch @@ "context_length" :> 5 @@ "embedding_length" :> 6
                        @@ "block_count" :> 3 @@ "head_count" :> heads @@ "vocab" :> 7
                        @@ kv @@ width @@ mtp @@ ffn @@ delta @@ window])

-----------------------------------------------------------------------------
Next == \/ PickText \/ PickWord \/ PickBytes \/ PickReply \/ PickCalls
        \/ AnyPlan \/ AnyLogits \/ AnyFile \/ AnyMetadata

Spec == InputsInit /\ [][Next]_input
=============================================================================
