---------------------------- MODULE KVCacheClient ----------------------------
(***************************************************************************)
(* Requests served out of one KVCache, one at a time (the server holds      *)
(* model_mutex for a whole generation), by sessions that keep their slot    *)
(* between requests and lose it to a steal.  A request takes its session's  *)
(* slot, cuts it to the prefix it shares with the new dialogue, then writes  *)
(* every layer of each remaining position and commits the token: prompt and  *)
(* generated tokens alike.  It may stop anywhere, with or without giving     *)
(* the slot back.                                                           *)
(*                                                                         *)
(* The server itself never reuses a session id, so it exercises a part of   *)
(* this only; the cache's interface promises the rest.                      *)
(***************************************************************************)
EXTENDS KVCache, SequencesExt

CONSTANTS MaxDialogue,   \* bound: the length of a dialogue
          MaxRequests    \* bound: the number of requests

ASSUME ClientAssumption == MaxDialogue \in Nat \ {0} /\ MaxRequests \in Nat

Dialogues == UNION {[1 .. n -> TokenIds] : n \in 1 .. MaxDialogue}

VARIABLES
    turn,      \* the session being served, or NoOwner
    slot,      \* its handle
    want,      \* the dialogue it is to hold
    at,        \* the position being computed
    todo,      \* the layers that have not run at that position
    stage,     \* "idle", "acquired", "rewind" or "forward"
    style,     \* "write_at" (the transformer) or "append" (the tests)
    requests

clientVars == <<turn, slot, want, at, todo, stage, style, requests>>
vars == <<cacheVars, clientVars>>

TypeOK ==
    /\ CacheTypeOK
    /\ turn \in SessionIds \cup {NoOwner}
    /\ slot \in Slots
    /\ want \in Dialogues \cup {<<>>}
    /\ at \in 0 .. NumCtx
    /\ todo \in SUBSET Layers
    /\ stage \in {"idle", "acquired", "rewind", "forward"}
    /\ style \in {"write_at", "append"}
    /\ requests \in 0 .. MaxRequests

Init ==
    /\ CacheInit
    /\ turn = NoOwner
    /\ slot = 0
    /\ want = <<>>
    /\ at = 0
    /\ todo = Layers
    /\ stage = "idle"
    /\ style = "write_at"
    /\ requests = 0

-----------------------------------------------------------------------------
\* acquire(): session s comes with dialogue d.
Begin(s, d, how) ==
    /\ stage = "idle"
    /\ requests < MaxRequests
    /\ Acquire(s)
    /\ turn' = s
    /\ slot' = SlotFor(s)
    /\ want' = d
    /\ style' = how
    /\ stage' = "acquired"
    /\ requests' = requests + 1
    /\ UNCHANGED <<at, todo>>

\* reuse_prefix(): when it finds every token cached the last one is run again.
Reuse ==
    /\ stage = "acquired"
    /\ ReusePrefix(slot, want)
    /\ at' = pos'[slot]
    /\ todo' = Layers
    /\ stage' = IF pos'[slot] < Len(want) THEN "forward" ELSE "rewind"
    /\ UNCHANGED <<turn, slot, want, style, requests>>

Rewind ==
    /\ stage = "rewind"
    /\ ReusePrefix(slot, Front(want))
    /\ at' = pos'[slot]
    /\ stage' = "forward"
    /\ UNCHANGED <<turn, slot, want, todo, style, requests>>

\* A vector depends on the position before it, and on the token.
Computed(l) ==
    Append(IF at = 0 THEN <<>> ELSE Vectors(slot, l, at - 1), want[at + 1])

\* Layer l runs at the current position and leaves its vectors there. Nothing
\* stops a dialogue at the end of the context: the cache ignores the writes.
RunLayer(l) ==
    /\ stage = "forward" /\ at < Len(want)
    /\ l \in todo
    /\ IF style = "append" THEN AppendKV(slot, l, Computed(l))
       ELSE WriteAt(slot, l, at, Computed(l))
    /\ todo' = todo \ {l}
    /\ UNCHANGED <<turn, slot, want, at, stage, style, requests>>

Commit ==
    /\ stage = "forward" /\ todo = {}
    /\ CommitToken(slot, want[at + 1])
    /\ at' = pos'[slot]
    /\ todo' = Layers
    /\ UNCHANGED <<turn, slot, want, stage, style, requests>>

\* The request is over: complete, out of context, failed or abandoned.
GoIdle ==
    /\ stage # "idle"
    /\ stage' = "idle"
    /\ turn' = NoOwner
    /\ at' = 0
    /\ todo' = Layers
    /\ want' = <<>>
    /\ UNCHANGED <<slot, style, requests>>

Leave == GoIdle /\ UNCHANGED cacheVars

GiveBack ==
    /\ GoIdle
    /\ Release(slot)

Stopped == stage = "idle" /\ requests = MaxRequests /\ UNCHANGED vars

Next ==
    \/ \E s \in SessionIds, d \in Dialogues, how \in {"write_at", "append"} :
           Begin(s, d, how)
    \/ Reuse
    \/ Rewind
    \/ \E l \in Layers : RunLayer(l)
    \/ Commit
    \/ Leave
    \/ GiveBack
    \/ Stopped

Spec == Init /\ [][Next]_vars

-----------------------------------------------------------------------------
(* Whatever was reused, cut, overwritten, abandoned or stolen before, the   *)
(* vectors behind a slot's tokens were all computed from exactly those      *)
(* tokens: attention over a reused prefix sees what a fresh prefill would   *)
(* have written (kv_cache.cpp 149-153, "K/V beyond lcp is left in place").  *)
VectorsMatchTokens ==
    \A i \in Slots, l \in Layers : \A p \in 0 .. Len(tokens[i]) - 1 :
        Vectors(i, l, p) = Prefix(tokens[i], p + 1)

(* While a request runs, everything below the position it computes belongs  *)
(* to its own dialogue, so no other session's text can reach its answer.    *)
RequestReadsItsDialogue ==
    stage = "forward" =>
        /\ owner[slot] = turn
        /\ \A l \in Layers : \A p \in 0 .. at - 1 :
               Vectors(slot, l, p) = Prefix(want, p + 1)
        /\ at < NumCtx => \A l \in Layers \ todo :
                              Vectors(slot, l, at) = Prefix(want, at + 1)

(* acquire() gives a session the slot it already has: no session owns two,  *)
(* which would split its dialogue over them.                                *)
OneSlotPerSession ==
    \A i, j \in Slots : owner[i] = owner[j] /\ owner[i] # NoOwner => i = j

(* pos and the token list, two accounts of the same thing, never drift: pos *)
(* runs one ahead only between an append() of the last layer and the        *)
(* commit_token that follows, a gap an abandoned request can leave behind,  *)
(* and the next token computed closes it.  The last position of the context *)
(* is the exception: commit_token returns at once there.                    *)
PosCountsTokens ==
    /\ \A i \in Slots : Len(tokens[i]) <= pos[i] /\ pos[i] <= Len(tokens[i]) + 1
    /\ stage = "forward" /\ todo = Layers /\ at < NumCtx => Len(tokens[slot]) = at
-----------------------------------------------------------------------------
(* The inductive invariant.                                                 *)

\* A request owns its slot, and has a dialogue to hold.
ServedInv ==
    stage # "idle" => turn \in SessionIds /\ owner[slot] = turn /\ want \in Dialogues

\* A rewind is for a dialogue that is cached to its end.
RewindInv == stage = "rewind" => tokens[slot] = want /\ todo = Layers

\* While layers run, the slot's tokens are the dialogue's up to the position
\* computed, and pos and the layers marked are what the way of writing makes
\* of them; past the end of the context all stands still.
ForwardInv ==
    stage = "forward" =>
        /\ at <= Len(want) /\ (todo # Layers => at < Len(want))
        /\ Len(tokens[slot]) <= at /\ tokens[slot] = Prefix(want, Len(tokens[slot]))
        /\ IF at = NumCtx THEN pos[slot] = NumCtx
           ELSE /\ Len(tokens[slot]) = at
                /\ IF style = "append" /\ todo = {} THEN pos[slot] = at + 1
                   ELSE pos[slot] = at
                /\ style = "append" /\ todo # {} => written[slot] = Layers \ todo

(* The cache's books agree with the buffers and with the request being        *)
(* served (kv_cache.cpp 85-260).  Implies the four properties, and is         *)
(* inductive.                                                                *)
IndInv ==
    /\ TypeOK /\ ServedInv /\ RewindInv /\ ForwardInv
    /\ VectorsMatchTokens /\ RequestReadsItsDialogue
    /\ OneSlotPerSession /\ PosCountsTokens
=============================================================================
