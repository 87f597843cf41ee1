------------------------------- MODULE KVCache -------------------------------
(***************************************************************************)
(* The operations of KVCache (src/src/kv_cache/kv_cache.cpp) on its slots.  *)
(* A K/V vector is modelled by the tokens it was computed from: position p  *)
(* of a dialogue holds a vector that depends on the first p+1 tokens of it. *)
(* That is what prefix reuse relies on, and what a stale vector betrays.    *)
(*                                                                         *)
(* The operations are actions for a caller's module to conjoin; a handle    *)
(* that is out of range makes the code return at once and is left out.      *)
(***************************************************************************)
EXTENDS Prefixes, FiniteSets

CONSTANTS
    NumSlots,     \* cfg.n_slots
    NumCtx,       \* cfg.n_ctx
    NumLayers,    \* cfg.n_layers
    SessionIds,
    TokenIds,
    NoOwner       \* the empty std::optional

ASSUME KVCacheAssumption ==
    /\ NumSlots \in Nat \ {0}
    /\ NumCtx \in Nat \ {0}
    /\ NumLayers \in Nat \ {0}
    /\ NoOwner \notin SessionIds

Slots == 0 .. NumSlots - 1
Layers == 0 .. NumLayers - 1
Positions == 0 .. NumCtx - 1
Buffers == 0 .. NumSlots * NumLayers - 1

VARIABLES
    owner,      \* SlotState::owner
    pos,        \* SlotState::pos
    tokens,     \* SlotState::tokens
    touchedAt,  \* SlotState::touched_at
    written,    \* the layers marked in SlotState::layers_written_at_pos
    clock,
    buf         \* k_buf and v_buf: [slot * n_layers + layer][position],
                \* a zeroed vector being <<>>

cacheVars == <<owner, pos, tokens, touchedAt, written, clock, buf>>

CacheTypeOK ==
    /\ owner \in [Slots -> SessionIds \cup {NoOwner}]
    /\ pos \in [Slots -> 0 .. NumCtx]
    /\ tokens \in [Slots -> Seq(TokenIds)]
    /\ touchedAt \in [Slots -> Nat]
    /\ written \in [Slots -> SUBSET Layers]
    /\ clock \in Nat
    /\ buf \in [Buffers -> [Positions -> Seq(TokenIds)]]

CacheInit ==
    /\ owner = [i \in Slots |-> NoOwner]
    /\ pos = [i \in Slots |-> 0]
    /\ tokens = [i \in Slots |-> <<>>]
    /\ touchedAt = [i \in Slots |-> 0]
    /\ written = [i \in Slots |-> {}]
    /\ clock = 0
    /\ buf = [b \in Buffers |-> [p \in Positions |-> <<>>]]

-----------------------------------------------------------------------------
\* Mutated: consecutive slots share all layers but one.
BufferIndexOverlap(i, l) == i + l

\* "Buffer index (slot, layer) -> flat."
BufferIndex(i, l) == i * NumLayers + l

\* The vectors of slot i, layer l, position p.
Vectors(i, l, p) == buf[BufferIndex(i, l)][p]

\* "slot full; caller should error"
Full(i) == pos[i] >= NumCtx

Lowest(S) == CHOOSE i \in S : \A j \in S : i <= j

\* s.touched_at = ++clock
Touch(i) ==
    /\ clock' = clock + 1
    /\ touchedAt' = [touchedAt EXCEPT ![i] = clock + 1]

OwnedBy(sid) == {i \in Slots : owner[i] = sid}
FreeSlots == {i \in Slots : owner[i] = NoOwner}

LeastRecent == {i \in Slots : \A j \in Slots : touchedAt[i] <= touchedAt[j]}

\* The session's own slot, else the first free one, else the LRU victim.
\* Mutated: a free slot is preferred to the session's own.
FreeSlotFirst(sid) ==
    IF FreeSlots # {} THEN Lowest(FreeSlots)
    ELSE IF OwnedBy(sid) # {} THEN Lowest(OwnedBy(sid)) ELSE Lowest(LeastRecent)

SlotFor(sid) ==
    IF OwnedBy(sid) # {} THEN Lowest(OwnedBy(sid))
    ELSE IF FreeSlots # {} THEN Lowest(FreeSlots) ELSE Lowest(LeastRecent)

\* Mutated: the slot comes with what its last owner left in it.
TakeAsIs(i, sid) ==
    /\ owner' = [owner EXCEPT ![i] = sid]
    /\ UNCHANGED <<pos, tokens, written>>

\* A free or stolen slot becomes the session's, empty.
Take(i, sid) ==
    /\ owner' = [owner EXCEPT ![i] = sid]
    /\ pos' = [pos EXCEPT ![i] = 0]
    /\ tokens' = [tokens EXCEPT ![i] = <<>>]
    /\ written' = [written EXCEPT ![i] = {}]

Acquire(sid) ==
    LET i == SlotFor(sid)
    IN /\ IF owner[i] = sid THEN UNCHANGED <<owner, pos, tokens, written>>
          ELSE Take(i, sid)
       /\ Touch(i)
       /\ UNCHANGED buf

\* The buffers are left in place.
Release(i) ==
    /\ owner' = [owner EXCEPT ![i] = NoOwner]
    /\ pos' = [pos EXCEPT ![i] = 0]
    /\ tokens' = [tokens EXCEPT ![i] = <<>>]
    /\ written' = [written EXCEPT ![i] = {}]
    /\ UNCHANGED <<touchedAt, clock, buf>>

\* Mutated: tokens are cut, pos is not.
PosKept(i, n) == pos[i]

\* The new s.pos.
PosAfterReuse(i, n) == n

\* tokens and pos are cut to the common prefix; the vectors past it stay.
ReusePrefix(i, new) ==
    LET n == Lcp(tokens[i], new)
    IN /\ tokens' = [tokens EXCEPT ![i] = Prefix(tokens[i], n)]
       /\ pos' = [pos EXCEPT ![i] = PosAfterReuse(i, n)]
       /\ written' = [written EXCEPT ![i] = {}]
       /\ Touch(i)
       /\ UNCHANGED <<owner, buf>>

\* Writes at pos; the last layer to be written at pos advances it.
AppendKV(i, l, content) ==
    IF Full(i) THEN UNCHANGED cacheVars
    ELSE LET w == written[i] \cup {l}
         IN /\ buf' = [buf EXCEPT ![BufferIndex(i, l)][pos[i]] = content]
            /\ written' = [written EXCEPT ![i] = IF w = Layers THEN {} ELSE w]
            /\ pos' = [pos EXCEPT ![i] = IF w = Layers THEN @ + 1 ELSE @]
            /\ Touch(i)
            /\ UNCHANGED <<owner, tokens>>

\* A position past the context is ignored.
WriteAt(i, l, p, content) ==
    IF p >= NumCtx THEN UNCHANGED cacheVars
    ELSE /\ buf' = [buf EXCEPT ![BufferIndex(i, l)][p] = content]
         /\ Touch(i)
         /\ UNCHANGED <<owner, pos, tokens, written>>

\* tokens after commit_token: grown by one, or its entry at pos replaced.
TokensAfterCommit(i, t) ==
    IF Len(tokens[i]) < pos[i] + 1 THEN Append(tokens[i], t)
    ELSE [tokens[i] EXCEPT ![pos[i] + 1] = t]

\* pos after commit_token left n tokens.
PosAfterCommit(i, n) == IF pos[i] = n - 1 THEN n ELSE pos[i]

CommitToken(i, t) ==
    IF Full(i) THEN UNCHANGED cacheVars
    ELSE /\ tokens' = [tokens EXCEPT ![i] = TokensAfterCommit(i, t)]
         /\ pos' = [pos EXCEPT ![i] = PosAfterCommit(i, Len(TokensAfterCommit(i, t)))]
         /\ written' = [written EXCEPT ![i] = {}]
         /\ Touch(i)
         /\ UNCHANGED <<owner, buf>>

\* The positions a read_at view lets attention look at.
ReadAt(upTo) == 0 .. (IF upTo < NumCtx THEN upTo ELSE NumCtx) - 1
=============================================================================
