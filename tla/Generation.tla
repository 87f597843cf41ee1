----------------------------- MODULE Generation -----------------------------
(***************************************************************************)
(* One generation of the server: run_chat_stream (http_server.cpp) driving  *)
(* the transformer's prefill and decode (qwen_model.cpp), which write the   *)
(* KV cache layer by layer and, on a hybrid model, the recurrent state.     *)
(* Generations are serialised by model_mutex, so the only concurrency here  *)
(* is the connection, which may break at any moment, and the clock.         *)
(*                                                                         *)
(* What a recurrent layer has absorbed is the sequence of tokens it was fed; *)
(* what a K/V vector depends on is modelled as in KVCache.                  *)
(***************************************************************************)
EXTENDS KVCache, SequencesExt

CONSTANTS
    LayerKinds,       \* the sets of recurrent layers of the models served
    k_prefill_batch,
    max_tokens,
    ProbeEvery,       \* quiet pieces between two pings: 24
    Prompts,          \* encoded prompts
    MaxRequests       \* bound: the number of requests

ASSUME GenerationAssumption ==
    /\ LayerKinds \subseteq SUBSET Layers
    /\ k_prefill_batch \in Nat \ {0}
    /\ max_tokens \in Nat
    /\ ProbeEvery \in Nat \ {0}
    /\ Prompts \subseteq Seq(TokenIds) \ {<<>>}
    /\ MaxRequests \in Nat /\ SessionIds = 1 .. MaxRequests

Channels == {"json", "stream", "agent"}

VARIABLES
    recurrent,   \* the recurrent layers of the loaded model
    rstate,      \* RecurrentState: what each layer of each slot absorbed
    rtokens,     \* RecurrentState: its token count, per slot
    phase,
    channel,     \* the handler the generation runs for
    sid, slot, prompt,
    out,         \* out_ids
    fed,         \* tokens of prompt \o out the model has been run on
    batch,       \* the tokens of the current forward_batch
    start,       \* its start_pos
    layer,       \* the next layer of it
    committed,   \* how many of its tokens are committed
    broken,      \* the client is gone for the TCP stack too: writes fail
    overtime,    \* the turn is past max_turn_seconds
    sink_dead,   \* a write has failed
    since_probe, \* pieces since the last write
    latePieces,  \* history: pieces handed on after the connection broke
    lateDecodes, \* history: decodes begun after client_gone() became true
    leaked       \* history: the slots an exception skipped the release of

modelState == <<rstate, rtokens>>
requestVars == <<channel, sid, slot, prompt>>
progress == <<out, fed>>
batchVars == <<batch, start, layer, committed>>
sinkVars == <<sink_dead, since_probe, latePieces>>
history == <<lateDecodes, leaked>>
surroundings == <<recurrent, broken, overtime>>
vars == <<cacheVars, modelState, phase, requestVars, progress, batchVars,
          sinkVars, history, surroundings>>

Phases == {"idle", "acquired", "released", "ready", "prefill", "forward",
           "loop", "draw", "emit", "emitted"}

TypeOK ==
    /\ CacheTypeOK
    /\ recurrent \in LayerKinds
    /\ rstate \in [Slots -> [Layers -> Seq(TokenIds)]]
    /\ rtokens \in [Slots -> Nat]
    /\ phase \in Phases /\ channel \in Channels
    /\ sid \in 0 .. MaxRequests /\ slot \in Slots
    /\ prompt \in Seq(TokenIds)
    /\ out \in Seq(TokenIds) /\ Len(out) <= max_tokens
    /\ fed \in 0 .. Len(prompt) + Len(out)
    /\ batch \in Seq(TokenIds) /\ Len(batch) <= k_prefill_batch /\ start \in Nat
    /\ layer \in 0 .. NumLayers /\ committed \in 0 .. Len(batch)
    /\ broken \in BOOLEAN /\ overtime \in BOOLEAN /\ sink_dead \in BOOLEAN
    /\ since_probe \in 0 .. ProbeEvery - 1
    /\ latePieces \in Nat /\ lateDecodes \in Nat
    /\ leaked \subseteq Slots

Init ==
    /\ CacheInit
    /\ recurrent \in LayerKinds
    /\ rstate = [i \in Slots |-> [l \in Layers |-> <<>>]]
    /\ rtokens = [i \in Slots |-> 0]
    /\ phase = "idle" /\ channel = "json"
    /\ sid = 0 /\ slot = 0
    /\ prompt = <<>> /\ out = <<>> /\ fed = 0
    /\ batch = <<>> /\ start = 0 /\ layer = 0 /\ committed = 0
    /\ broken = FALSE /\ overtime = FALSE
    /\ sink_dead = FALSE /\ since_probe = 0 /\ latePieces = 0
    /\ lateDecodes = 0 /\ leaked = {}

-----------------------------------------------------------------------------
Hybrid == recurrent # {}        \* params_.delta.active()

Dialogue == prompt \o out

\* Mutated: a return that forgets the slot.
ReturnKeepsSlot ==
    /\ phase' = "idle"
    /\ UNCHANGED <<cacheVars, modelState, requestVars, progress, batchVars,
                   sinkVars, history, surroundings>>

\* run_chat_stream returns with the slot released.
Return ==
    /\ Release(slot)
    /\ phase' = "idle"
    /\ UNCHANGED <<modelState, requestVars, progress, batchVars, sinkVars, history,
                   surroundings>>

\* A handler gets the mutex: a session id nobody had before, and a slot for it.
Accept(p, c) ==
    /\ phase = "idle" /\ sid < MaxRequests
    /\ Acquire(sid + 1)
    /\ sid' = sid + 1
    /\ slot' = SlotFor(sid + 1)
    /\ leaked' = leaked \ {SlotFor(sid + 1)}
    /\ phase' = "acquired"
    /\ channel' = c
    /\ prompt' = p
    /\ out' = <<>> /\ fed' = 0 /\ batch' = <<>> /\ start' = 0
    /\ layer' = 0 /\ committed' = 0
    /\ broken' = FALSE /\ overtime' = FALSE
    /\ sink_dead' = FALSE /\ since_probe' = 0 /\ latePieces' = 0
    /\ lateDecodes' = 0
    /\ UNCHANGED <<modelState, recurrent>>

ReuseThePrefix ==
    /\ phase = "acquired" /\ ~Hybrid
    /\ ReusePrefix(slot, prompt)
    /\ phase' = "ready"
    /\ UNCHANGED <<modelState, requestVars, progress, batchVars, sinkVars, history,
                   surroundings>>

\* A hybrid model starts over instead: release, then acquire.
DropTheSlot ==
    /\ phase = "acquired" /\ Hybrid
    /\ Release(slot)
    /\ phase' = "released"
    /\ UNCHANGED <<modelState, requestVars, progress, batchVars, sinkVars, history,
                   surroundings>>

AcquireAgain ==
    /\ phase = "released"
    /\ Acquire(sid)
    /\ slot' = SlotFor(sid)
    /\ phase' = "ready"
    /\ UNCHANGED <<modelState, progress, batchVars, sinkVars, history, channel, sid,
                   prompt, surroundings>>

\* Mutated: a slot's recurrent state survives into the next generation.
NoReset(i) == UNCHANGED <<rstate, rtokens>>

\* RecurrentState::reset
Reset(i) ==
    /\ rstate' = [rstate EXCEPT ![i] = [l \in Layers |-> <<>>]]
    /\ rtokens' = [rtokens EXCEPT ![i] = 0]

\* The call of prefill() with the tokens past the reused prefix, of which
\* there always are some: see StartsCold.
CallPrefill ==
    /\ phase = "ready"
    /\ IF Hybrid /\ pos[slot] # 0 /\ rtokens[slot] # pos[slot]
       THEN Return
       ELSE /\ IF Hybrid /\ pos[slot] = 0 THEN Reset(slot)
               ELSE UNCHANGED <<rstate, rtokens>>
            /\ fed' = pos[slot]
            /\ phase' = "prefill"
            /\ UNCHANGED <<cacheVars, requestVars, batchVars, sinkVars, history, out,
                           surroundings>>

\* forward_batch on tokens b from position p.
Begin(b, p) ==
    /\ batch' = b
    /\ start' = p
    /\ layer' = 0
    /\ committed' = 0
    /\ phase' = "forward"

\* Mutated: prefill passes the start of the prompt, not of the chunk.
FirstChunkAgain == SubSeq(prompt, 1, IF fed + k_prefill_batch < Len(prompt)
                                     THEN k_prefill_batch ELSE Len(prompt) - fed)

\* Mutated: the last chunk ends one token early.
ChunkOneShort == SubSeq(prompt, fed + 1,
                        IF fed + k_prefill_batch < Len(prompt)
                        THEN fed + k_prefill_batch ELSE Len(prompt) - 1)

Chunk == SubSeq(prompt, fed + 1,
                IF fed + k_prefill_batch < Len(prompt) THEN fed + k_prefill_batch
                ELSE Len(prompt))

NextChunk ==
    /\ phase = "prefill"
    /\ Begin(Chunk, fed)
    /\ UNCHANGED <<cacheVars, modelState, requestVars, progress, sinkVars, history,
                   surroundings>>

\* write_at for every token of the batch; those past the context are ignored.
\* A vector depends on the positions before it, which the cache holds, and on
\* the tokens of the batch up to its own.
WriteBatch(l) ==
    LET before == IF start = 0 \/ start > NumCtx THEN <<>>
                  ELSE Vectors(slot, l, start - 1)
        kept == {p \in Positions : start <= p /\ p < start + Len(batch)}
    IN /\ buf' = [buf EXCEPT ![BufferIndex(slot, l)] =
                     [p \in Positions |-> IF p \in kept
                                          THEN before \o Prefix(batch, p - start + 1)
                                          ELSE @[p]]]
       /\ clock' = clock + Cardinality(kept)
       /\ touchedAt' = [touchedAt EXCEPT ![slot] = IF kept = {} THEN @ ELSE clock']
       /\ UNCHANGED <<owner, pos, tokens, written>>

\* block_forward: attention writes K/V and reads it back, a recurrent layer
\* absorbs the batch into its state.
RunBlock ==
    /\ phase = "forward" /\ layer < NumLayers
    /\ IF layer \in recurrent
       THEN /\ rstate' = [rstate EXCEPT ![slot][layer] = @ \o batch]
            /\ UNCHANGED cacheVars
       ELSE WriteBatch(layer) /\ UNCHANGED rstate
    /\ layer' = layer + 1
    /\ UNCHANGED <<requestVars, progress, sinkVars, history, rtokens, phase, batch,
                   committed, start, surroundings>>

\* An embedding, a projection or the output head fails.
ForwardFails ==
    /\ phase = "forward" /\ committed = 0
    /\ Return

CommitNext ==
    /\ phase = "forward" /\ layer = NumLayers /\ committed < Len(batch)
    /\ CommitToken(slot, batch[committed + 1])
    /\ committed' = committed + 1
    /\ UNCHANGED <<modelState, requestVars, progress, batch, start, layer,
                   sinkVars, history, phase, surroundings>>

\* RecurrentState::advance, and on to the next chunk or to the decode loop.
Advance ==
    /\ phase = "forward" /\ layer = NumLayers /\ committed = Len(batch)
    /\ rtokens' = IF Hybrid THEN [rtokens EXCEPT ![slot] = @ + Len(batch)]
                  ELSE rtokens
    /\ fed' = fed + Len(batch)
    /\ phase' = IF fed + Len(batch) < Len(prompt) THEN "prefill" ELSE "loop"
    /\ UNCHANGED <<cacheVars, requestVars, batchVars, sinkVars, history, rstate, out,
                   surroundings>>

\* client_gone(), which the agent handler alone passes as should_abort. What
\* it knows for certain is a write that failed and the wall clock.
Aborts == channel = "agent" /\ (sink_dead \/ overtime)

\* On a connection that is gone sink.is_writable() may say so, or not.
Unwritable == channel = "agent" /\ broken

\* The head of the decode loop.
LoopEnds ==
    /\ phase = "loop"
    /\ Len(out) >= max_tokens \/ Aborts \/ Unwritable
    /\ Return

LoopGoesOn ==
    /\ phase = "loop"
    /\ Len(out) < max_tokens /\ ~Aborts
    /\ phase' = "draw"
    /\ UNCHANGED <<cacheVars, modelState, requestVars, progress, batchVars,
                   sinkVars, history, surroundings>>

\* The sampler draws eos or im_end, or nothing.
DrawStop == phase = "draw" /\ Return

Draw(t) ==
    /\ phase = "draw"
    /\ out' = Append(out, t)
    /\ phase' = "emit"
    /\ UNCHANGED <<cacheVars, modelState, requestVars, batchVars, sinkVars,
                   history, fed, surroundings>>

\* on_delta throws (nlohmann's dump() of a split codepoint): nothing catches it
\* here, and the slot stays with the session.
EmitThrows ==
    /\ phase = "emit" /\ channel # "json"
    /\ phase' = "idle"
    /\ leaked' = leaked \cup {slot}
    /\ UNCHANGED <<cacheVars, modelState, requestVars, progress, batchVars,
                   sinkVars, lateDecodes, surroundings>>

\* What a token brings an agent's client: no text at all (on_delta is not
\* called), text that is not shown, inside a tool call, or prose.
Pieces == {"none", "quiet", "prose"}

\* Mutated: nothing is written while the model writes a tool call.
NoPing(piece) == piece = "prose"

\* Prose is written as it comes, and a ping after so many quiet pieces.
Writes(piece) ==
    \/ piece = "prose"
    \/ piece = "quiet" /\ since_probe + 1 >= ProbeEvery

\* on_delta of the agent handler. A write to a client that has left succeeds
\* for as long as the TCP stack has not noticed, and fails from then on.
OnDelta(piece) ==
    /\ phase = "emit" /\ channel = "agent"
    /\ sink_dead' = (sink_dead \/ (Writes(piece) /\ broken))
    /\ since_probe' = IF Writes(piece) THEN 0
                      ELSE IF piece = "quiet" /\ since_probe + 1 < ProbeEvery
                      THEN since_probe + 1 ELSE since_probe
    /\ latePieces' = IF broken /\ piece # "none" THEN latePieces + 1
                     ELSE latePieces
    /\ phase' = "emitted"
    /\ UNCHANGED <<cacheVars, modelState, requestVars, progress, batchVars,
                   history, surroundings>>

\* The other handlers write their pieces and look at no result.
PassOn ==
    /\ phase = "emit" /\ channel # "agent"
    /\ phase' = "emitted"
    /\ UNCHANGED <<cacheVars, modelState, requestVars, progress, batchVars,
                   sinkVars, history, surroundings>>

\* if (i + 1 == max_tokens) break;
LastToken ==
    /\ phase = "emitted" /\ Len(out) = max_tokens
    /\ Return

Decode ==
    /\ phase = "emitted" /\ Len(out) < max_tokens
    /\ Begin(<<Last(out)>>, pos[slot])
    /\ lateDecodes' = IF Aborts THEN lateDecodes + 1 ELSE lateDecodes
    /\ UNCHANGED <<cacheVars, modelState, requestVars, progress, sinkVars,
                   leaked, surroundings>>

\* The TCP stack gives up on a client that left, now or long ago. Only the decode
\* loop looks at the connection and the clock, so that which step of prefill or
\* of a forward pass this comes at makes no difference.
ConnectionBreaks ==
    /\ phase \in {"loop", "emit"} /\ channel = "agent" /\ ~broken
    /\ broken' = TRUE
    /\ UNCHANGED <<cacheVars, modelState, requestVars, progress, batchVars,
                   sinkVars, history, recurrent, overtime, phase>>

\* The turn has taken max_turn_seconds.
TimeRunsOut ==
    /\ phase \in {"loop", "emit"} /\ channel = "agent" /\ ~overtime
    /\ overtime' = TRUE
    /\ UNCHANGED <<cacheVars, modelState, requestVars, progress, batchVars,
                   sinkVars, history, recurrent, broken, phase>>

Stopped == phase = "idle" /\ sid = MaxRequests /\ UNCHANGED vars

Step ==
    \/ ReuseThePrefix \/ DropTheSlot \/ AcquireAgain
    \/ CallPrefill \/ NextChunk
    \/ RunBlock \/ ForwardFails \/ CommitNext \/ Advance
    \/ LoopEnds \/ LoopGoesOn
    \/ DrawStop \/ (\E t \in TokenIds : Draw(t))
    \/ EmitThrows \/ PassOn \/ (\E piece \in Pieces : OnDelta(piece))
    \/ LastToken \/ Decode

Next ==
    \/ \E p \in Prompts, c \in Channels : Accept(p, c)
    \/ Step
    \/ ConnectionBreaks \/ TimeRunsOut
    \/ Stopped

Spec == Init /\ [][Next]_vars

\* The thread that holds the mutex keeps running.
FairSpec == Spec /\ WF_vars(Step)

-----------------------------------------------------------------------------
(* Attention of layer l looks at vectors computed from this dialogue alone,  *)
(* for every position it looks at, whatever chunk, slot or earlier           *)
(* generation wrote the buffers before.                                      *)
AttentionSeesDialogue ==
    phase = "forward" =>
        \A l \in Layers \ recurrent : \A p \in 0 .. NumCtx - 1 :
            p < start + (IF l < layer THEN Len(batch) ELSE 0) =>
                Vectors(slot, l, p) = Prefix(Dialogue, p + 1)

(* "The recurrent state must have absorbed exactly the tokens the KV cache   *)
(* holds" (qwen_model.cpp 87): at every layer of every forward pass the      *)
(* state is that of the dialogue up to here, no token missing, doubled or    *)
(* left from the slot's last generation; and as long as the dialogue fits    *)
(* the context both counters say the same.                                   *)
RecurrentAgrees ==
    phase = "forward" /\ Hybrid =>
        /\ \A l \in recurrent :
               rstate[slot][l] =
                   Prefix(Dialogue, fed + (IF l < layer THEN Len(batch) ELSE 0))
        /\ rtokens[slot] = fed
        /\ fed + Len(batch) <= NumCtx => pos[slot] = fed + committed

(* A generation finds its slot empty, so the server reuses no prefix and the *)
(* branch for "every prompt token is already cached" is never taken.         *)
StartsCold == phase = "ready" => pos[slot] = 0 /\ tokens[slot] = <<>>

(* Every way out of run_chat_stream gives the slot back, but an exception:   *)
(* between generations the slots still owned are those an exception left.    *)
SlotsComeBack ==
    phase = "idle" => \A i \in Slots : owner[i] # NoOwner <=> i \in leaked

(* "A client that hangs up should stop the work" (http_server.cpp 954): in an *)
(* agent turn at most ProbeEvery pieces come after the connection broke, be   *)
(* they prose or inside a tool call, before a write has failed, and once one  *)
(* has, or the turn is over its time, at most one more token is decoded.      *)
(* While the TCP stack still takes the writes only the clock stops the work,  *)
(* and so it is for tokens that bring no text.                               *)
StopsWhenClientLeaves ==
    channel = "agent" => latePieces <= ProbeEvery /\ lateDecodes <= 1

(* The mutex is not held for ever: a generation ends.                        *)
GenerationEnds == (phase # "idle") ~> (phase = "idle")

(* "Write this token's K/V before attending, so a token can see itself"      *)
(* (qwen_block.cpp 725): the view of a token's attention has its own         *)
(* position in it.                                                           *)
TokenSeesItself ==
    phase = "forward" =>
        \A l \in Layers \ recurrent : l < layer =>
            \A t \in 1 .. Len(batch) : start + t - 1 \in ReadAt(start + t)
-----------------------------------------------------------------------------
(* The inductive invariant.                                                 *)

\* The slot a generation holds, between acquire and release.
Held == IF phase \in {"idle", "released"} THEN {} ELSE {slot}

\* Every slot is free, held by this generation or lost to an exception.
OwnersInv ==
    /\ \A i \in Slots : /\ owner[i] # NoOwner <=> i \in leaked \cup Held
                        /\ owner[i] # NoOwner => owner[i] \in 1 .. sid
    /\ Held # {} => owner[slot] = sid
    /\ phase # "idle" => /\ sid \in SessionIds /\ slot \notin leaked
                         /\ \A i \in leaked : owner[i] # sid

\* Before prefill the slot is empty and nothing is generated.
ColdInv ==
    /\ phase \in {"acquired", "released", "ready"} => prompt # <<>> /\ out = <<>>
    /\ phase \in {"acquired", "ready"} => pos[slot] = 0 /\ tokens[slot] = <<>>

\* The model is run on the dialogue in order: all of it but for the prompt's
\* rest, the token just drawn, or the batch on its way through the layers.
FeedInv ==
    /\ phase = "prefill" => out = <<>> /\ fed < Len(prompt)
    /\ phase \in {"loop", "draw"} => fed = Len(prompt) + Len(out)
    /\ phase = "draw" => Len(out) < max_tokens
    /\ phase \in {"emit", "emitted"} =>
        out # <<>> /\ fed + 1 = Len(prompt) + Len(out)
    /\ phase = "forward" =>
        /\ batch # <<>> /\ batch = SubSeq(Dialogue, fed + 1, fed + Len(batch))
        /\ IF fed + Len(batch) < Len(prompt) THEN out = <<>>
           ELSE fed + Len(batch) = Len(prompt) + Len(out)
        /\ start = fed \/ (start = NumCtx /\ NumCtx <= fed)

Running == phase \in {"prefill", "forward", "loop", "draw", "emit", "emitted"}

\* The cache counts what was fed and committed, up to the context.
PosInv ==
    Running =>
        LET n == fed + (IF phase = "forward" THEN committed ELSE 0)
        IN /\ pos[slot] = IF n < NumCtx THEN n ELSE NumCtx
           /\ Len(tokens[slot]) = pos[slot]

\* How much of the dialogue layer l has seen.
Through(l) == fed + (IF phase = "forward" /\ l < layer THEN Len(batch) ELSE 0)

\* AttentionSeesDialogue and RecurrentAgrees between forward passes, too.
VectorsInv ==
    Running => \A l \in Layers \ recurrent, p \in Positions :
                   p < Through(l) => Vectors(slot, l, p) = Prefix(Dialogue, p + 1)

StateInv ==
    Running /\ Hybrid =>
        /\ rtokens[slot] = fed
        /\ \A l \in recurrent : rstate[slot][l] = Prefix(Dialogue, Through(l))

\* Pieces that came after the connection broke were quiet ones since the last
\* write, or there was a write and it failed; past the head of the decode loop
\* none had.
LateInv ==
    channel = "agent" =>
        /\ latePieces <= IF ~broken THEN 0
                         ELSE IF sink_dead THEN ProbeEvery ELSE since_probe
        /\ sink_dead => broken /\ phase \notin {"draw", "emit"}
        /\ lateDecodes <= IF Aborts /\ phase \notin {"draw", "emit", "emitted"}
                          THEN 1 ELSE 0

(* What a generation holds, has fed, written and absorbed agrees, from       *)
(* acquire to release (http_server.cpp 116-199, qwen_model.cpp 55-190).       *)
(* Implies the five invariants above, and is inductive.                      *)
IndInv ==
    /\ TypeOK /\ OwnersInv /\ ColdInv /\ FeedInv /\ PosInv
    /\ VectorsInv /\ StateInv /\ LateInv
=============================================================================
