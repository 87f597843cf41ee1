# Ultima.cpp in TLA+

Ultima.cpp is a local inference runtime for GGUF language models with an OpenAI-style
HTTP server and a coding agent. These modules model the parts of it whose correctness
depends on order, on shared state and on limits; TLC checks them on small instances,
and TLAPS proves the safety of every component with state (pool, row dispatch, KV
cache, generation, agent turn, project files, launcher) for all of them. The
algorithms that work alone (tokenizer, sampler, parsers, layout) are operators that
TLC compares with reference definitions over bounded inputs; what a saved plan keeps,
and that a forward pass stays inside its buffers and its file, is proved for every
input. Paths below are relative to the repository; `PROJECT.json` maps every
definition to the lines it stands for.

## The system

| Component | State | Operations | Talks to |
|---|---|---|---|
| `ThreadPool` (`src/runtime`) | task queue, stop flag, one `DoneState` per call | `parallel_for`, worker loop, destructor | every matrix product |
| row dispatch (`matvec_threaded`, `weight_dispatch`) | none | splits a product over the pool, batched or token by token | ThreadPool, kernels |
| `KVCache` (`src/kv_cache`) | per slot: owner, pos, tokens, touched_at, layers written; the K/V buffers; a clock | acquire, release, reuse_prefix, append, write_at, commit_token, read | transformer, server |
| `RecurrentState` | per slot: state of each recurrent layer, token count | reset, advance, pos | transformer |
| `TransformerModel` (`src/model`) | scratch, the recurrent state | prefill (chunks of 32), decode, forward_batch, block_forward | KVCache, RecurrentState, pool |
| generation loop (`run_chat_stream`) | a session id, a slot, the output | acquire, prefill, sample, emit, decode, release | model, tokenizer, sampler, client |
| `HttpServer` handlers | `model_mutex`, `ws_mutex`, `perm_mutex` with mode, approvals, answers | chat, agent turn, permission answers, files, plan | all of the above |
| permission policy | none | classify, evaluate | agent turn |
| session, workspace, tools, skills | files under the project | plan, todos, changelog; read, write, edit, rename, remove; dispatch | agent turn, handlers |
| tokenizer, sampler | vocabulary; recent tokens and generator | encode, decode; sample | generation loop |
| GGUF loader, kernels, drafter | the mapped file | load, configure; arithmetic | model |
| reply streaming | the reply so far, what of it was shown | decode again, hand on the new bytes, hide tool calls | generation loop, client |
| launcher (Go) | the running process and its record, the configuration in memory and in a file | load, unload, watchdog, status, get and post of the configuration | the server's process |

Concurrency: httplib runs each request on its own thread. A generation, and a whole
agent turn, holds `model_mutex`, so at most one runs and the pool has one caller at a
time. The permission handlers take only `perm_mutex` and interleave with a running
turn at every step; file and plan handlers take `ws_mutex`, which an agent turn does
not. The launcher has two mutexes: the process manager's is held for a whole Load, up
to 15 s, and a request for the models holds the other one while it waits for the
first. Inside a generation the pool's workers run concurrently.

What is hard: lost wake-ups and lifetimes in the pool; stale K/V vectors behind a
reused, stolen or abandoned slot; two counters (pos and tokens) and two caches (K/V
and recurrent) that must agree after any failure; the limit of the context; a client
that leaves without a word to the TCP stack; a prompt whose answer comes early, late,
never, twice, or around a change of the policy; a plan, a todo list and a log that two
threads read, cut and write, one of them without a mutex, on a disk that may be full;
a process that dies early, late, or after its successor has started; a character or a
tag that arrives in two halves; thirty buffers sized in one function and used in
others. `hazards` in `PROJECT.json` lists them line by line.

What makes each component correct: the pool is a fork-join and never touches a freed
object; a product computes each element once; a cached prefix is what a fresh prefill
would have written; a forward pass attends to its own dialogue only; slots come back;
a gated call runs only with the user's word; nothing holds the model for ever. A
request changes the files as one step would, and nothing that exists outside the
project; the log holds no phase that was not checked; no runtime escapes its launcher,
and a posted configuration stands until a start is stopped in the middle of its save.
Encoding loses no byte, calls are found and prose is never taken back, filters keep
the likeliest tokens, and no read or write of a forward pass leaves its buffer or its
file.

## Modules

| Module | Models | Notes |
|---|---|---|
| `Chunking` | how `parallel_for` splits `[0, n)` | pure |
| `ForkJoin` | what the header of the pool promises | abstract specification |
| `ThreadPool` | `thread_pool.cpp`, whole | implements `ForkJoin`; holds the inductive invariant |
| `Prefixes` | the shared prefix that `reuse_prefix` looks for | pure |
| `RowDispatch` | `matmul_dispatch_threaded` and the threaded matvecs | uses `Chunking` |
| `KVCache` | the operations of `kv_cache.cpp` | an operations module, for a client to conjoin |
| `KVCacheClient` | sessions that keep, reuse and lose slots | everything the cache's interface allows one request at a time |
| `Generation` | `run_chat_stream`, `prefill`, `decode`, `RecurrentState` | composes `KVCache` with the model and the client |
| `Permissions` | `permissions.cpp`, and what a tool may change | pure |
| `AgentTurn` | the agent's turn and the permission handlers | uses `Permissions` |
| `Workspace` | `workspace.cpp`: paths, links, the tree and what each operation does to it | pure |
| `PlanText` | `session.cpp`: the plan between text and meaning | pure |
| `AtomicFiles` | what clients of the workspace count on | abstract specification |
| `ProjectFiles` | the file and plan handlers and an agent's tool calls on one disk | composes `Workspace` and `PlanText`; implements `AtomicFiles` |
| `Launcher` | `runtime.go`, `server.go`, `config.go` | |
| `Tokenizer` | `bpe_tokenizer.cpp` | pure |
| `ToolCalls` | `tools.cpp`: calls in a reply, prose outside them | pure |
| `Reply` | pieces and delta events of a reply | uses `Tokenizer`, `ToolCalls` |
| `Sampler` | `sampler.cpp` | pure |
| `ModelFile` | a GGUF file and where its weights are read | pure |
| `ModelLayout` | metadata to weights, scratch and reach of a forward pass | pure |
| `Inputs` | what is read from files: plans, logits, model files, metadata; the properties of what is made of them | one state for each input, of any size |
| `TextCases` | reference definitions and inputs for the texts | |
| `MCAlgorithms` | `Inputs` with bounded inputs, and the properties of the texts | |
| other `MC...` | constants and symmetry for TLC | |
| `OperatorProofs` | | lemmas about chunks, prefixes, least elements, flat buffers, functions defined by steps |
| `ThreadPoolProofs`, `KVCacheClientProofs`, `GenerationProofs`, `AgentTurnProofs`, `LauncherProofs` | | theorems about the module each is named for |
| `ProjectFilesProofs` | | theorems about `ProjectFiles` and the plans of `Inputs` |
| `ForwardProofs` | | theorems about `RowDispatch` and the model files and metadata of `Inputs` |

### How state and steps correspond to the code

*ThreadPool.* A thread's place in its function is a variable (`wpc`, `cpc`, `opc`). A
critical section that neither waits nor leaves its mutex locked is one step that needs
the mutex free. A condition-variable wait is two steps, the test of the predicate and
the release-and-sleep, because a notification that comes between them while the mutex
is free is lost; holding the mutex there is what the code relies on. `copies` records
which closures and callers still own a `DoneState`; `ran` counts the returns of the
work function per chunk.

*RowDispatch.* The chunks of one pass run in index order: only which rows are computed
matters to the result, and `ThreadPool` covers the schedules. `end - begin` keeps its
unsigned width, scaled down to `SizeModulus` values.

*KVCache.* A K/V vector is the sequence of tokens it was computed from, so a stale
vector is visible as a wrong sequence. `buf` is indexed flat, slot times layers plus
layer, as in the code. Symmetry over sessions and tokens is sound: no operator tells
two of them apart.

*Generation.* One thread runs; a step is one block, one commit, one draw. The model
served is dense or hybrid (`LayerKinds`). Tokens are drawn freely, since the sampler
may draw any. An exception in the callback ends the request without a release, as
nothing in `run_chat_stream` catches it. Only the agent's channel asks whether its
client is gone, and then it knows little: `broken` says that writes fail, which may
begin minutes after the client left; `sink_dead` that one did; `overtime` that the
turn has taken its `max_turn_seconds`. Whether `is_writable()` tells the truth about a
broken connection is left open. A piece of the reply is prose, which is written, or
part of a tool call, of which only every `ProbeEvery`-th leads to a write, the ping
(24 in the code), or a token brings no text and no call of `on_delta` at all.

*AgentTurn.* The mode, the approvals, the answers and the counter are those of
`HttpServer::Impl`. Each critical section under `perm_mutex` is a step: verdict, id,
wait. Emitting the prompt is part of the step that draws the id, so a client can
answer it from then on. An answer needs no prompt: the handler keeps whatever it is
sent under whatever id (`Answer`, any of `Ids` at any moment), so an early one, or one
a page kept from an earlier run of the server, is there when the prompt of that id
goes out. `prompts`, `said`, `epoch` and `modeSeen` are history variables: they record
what the user said under which id, and what a prompt had heard when it closed. A call
is reduced to its tool and to the kind of path or command it names.

*ProjectFiles.* The disk is a function from existing paths to directories, links and
files of lines. A handler holds `ws_mutex` from its first step to its last, so there
is one user's call at a time, but it is several steps: the read, the opening that
empties the file, the write. The agent's call takes the same steps between them, for
it takes no mutex. `PutFails` is a write that fails after the file was emptied, `Stop`
a stop of the process with a start on the same files. `clobbered` records that agent
and handler ran into each other: the code promises nothing then, and the properties
are about everything else. `lost` are the files cut by a failure or a stop, `shown`
the plan last sent to the panel, with whether its boxes had to be cleared for it and
whether the file is still as it was then, `checked` the phases a handler has checked
off. A planning turn runs only what names plan.md in its argument `path`, as in the
code. A link may lead to something, to a file that is not there yet, or to nowhere.
`weakly_canonical` resolves the first and leaves the others as they are written, so
these pass the check of containment (`Canonical`); an opening follows them
(`Landing`), `exists()` finds nothing there (`Found`), and a rename onto one replaces
it. A link that cannot be looked through (a loop, no permission) makes `resolve` fall
back to the lexical path (workspace.cpp:156): for every operation that is a link to
nowhere. A path that is too long for the system is not modelled. An operation resolves
its path when it begins and opens it later; rename, remove and mkdir do both in one
step. A file as clients may think of it keeps its old text while it is written
(`FileTexts`); that is the refinement mapping to `AtomicFiles`.

*Launcher.* A process is starting, listening or exited; one listens at a time, as
there is one port. A round of Load's wait is two steps, the look at the exit channel
and the dial. `load` names the Load that holds `RuntimeManager.mu`; a request for the
models holds `launcherState.mu` while `models` is true. A post of a configuration sets
it, empties the file and writes it, three steps, and only the first is under the
mutex; either of the others may fail (`PostFails`), and memory keeps what was posted.
`Stop` ends the launcher at any step, with its processes left alone. A start reads the
file and saves what it read, with the default roots (`StartReads`, `StartOpens`,
`StartWrites`), before it serves anything; this save may fail too, which the code
ignores (`StartSaveFails`), and `Stop` may come between any two of these steps. `torn`
records that a start ended between its truncation of the file and its write.

*The pure modules.* A text is a sequence of byte names: letters, some of them capital,
a digit, a quote, blanks, the two halves of a two-byte character, tags spelt shorter.
Where the code keeps a heap, a linked list or indices, so does the operator
(`Tokenizer!Merged`); the reference in `TextCases` is the plain definition, the best
pair of the text merged again and again. Where the code leaves an order to a sort,
`Sampler` yields every outcome. `ModelLayout` computes widths of weights, buffers and
accesses from three different functions of the code. `IsFile` and `IsMetadata` say
what a reader of their results may rely on; both are spelt out under what is proved.

## Runs

| Run | Result | Shows |
|---|---|---|
| `thread_pool` | passes | 3 workers, 1 caller, 2 calls with n of 0, 1, 5, one spurious wake-up |
| `row_dispatch` | passes | pools up to 5, rows up to 13, 0, 1, 3 and 4 tokens |
| `row_dispatch_matvec` | violated | see finding 1 |
| `kv_cache_client` | passes | 3 sessions, 2 slots, context 2, 2 layers, dialogues up to 3, 3 requests |
| `generation` | passes | 3 requests, 2 slots, context 3, chunks of 2, 2 tokens to draw up to 3, prompts of 1 and 4, a ping at every 2nd quiet piece |
| `generation_context` | violated | see finding 2 |
| `agent_turn` | passes | 1 turn of 2 rounds, 2 messages of the user under 2 ids, seven kinds of reply |
| `agent_turn_mode` | violated | see finding 3 |
| `project_files` | passes | a plan of two phases, three links out of the project, 2 calls of the user of 7, 2 of the agent of 11, one failure or stop |
| `launcher` | passes | 2 runtimes, 1 round of the wait, 2 clients, 2 posts of 2 configurations, 2 stops |
| `algorithms` | passes | every pure algorithm over bounded inputs |
| `reply_pieces` | violated | see finding 4 |

Why the bounds are enough. *thread_pool*: n = 0 returns at once, n = 1 runs inline, n
= 5 over four threads gives chunks of 2, 2, 1 and an empty one; a second call can
begin while the workers still finish the first; two callers never meet in this program
(`model_mutex`), and the proofs cover any number. *row_dispatch*: 11 to 13 rows on
pools of 2 to 5 give full, short and empty last chunks, and both sides of the serial
threshold and of the batch crossover. *kv_cache_client*: three sessions over two slots
make a steal, a return and a free slot possible in three requests; dialogues are
longer than the context. *generation*: a prompt shorter than the context, one longer,
an odd last chunk, and three requests so that a slot is used by a third after a failed
and a leaked one. *agent_turn*: two prompts can be open one after the other, so a late
answer can meet a later prompt; two messages are what it takes for an answer and a
change of mode, or two contradicting answers; with two ids an answer can be early,
late, or under the other prompt's. *project_files*: two calls of each actor are what a
read, a change by the other and a write need, and a third follows from a turn that
loads its plan again; the agent's jobs move the plan's directory away, remove a file
outside and add a line to the log, the user's include a batch whose second edit fails
after the first, todos that are no JSON and a write through the link; both write
through a link that dangles, and the agent renames a file onto it. *launcher*: with
two runtimes the second may start before the first exits, fail to get the port and be
taken for healthy; a third would repeat the second. A round more of the wait adds only
the same pair of steps. Two stops are what it takes to stop a start in the middle of
its save after a post had settled, and to start again on what that left. *algorithms*:
texts up to 5 symbols of a 7-letter alphabet hold every alternative of the patterns
and every pair of neighbours among them, and those of another one every contraction in
either case; vocabularies have all byte tokens, some, or none for the byte 0, with
which the code stops looking for any, an unknown token or none, and special tokens
that merging can make; words of up to 8 symbols make a pair stale in both ways;
replies of 4 tokens hold a whole call in pieces, with blanks around it; calls hold
braces, quotes and escaped quotes in their strings, and the last one of a reply is cut
at every character of it; 3 tokens give ties on both sides of each filter, some or all
of them masked, with a `min_p` above 1 too; files are cut within the header, the
directory and each tensor, and hold rows that are no whole number of blocks; heads are
no multiple of their key heads, and these may be 0; every architecture of the registry
is built with shared and unequal head counts, experts wider and narrower than the
shared one, both ways to name recurrent layers, and windows.

Fairness. `ThreadPool`: each thread that can move does (weak fairness per thread);
mutexes need not be fair because calls and spurious wake-ups are finite; nobody has to
call or to destroy the pool. `Generation`: the thread that holds the mutex keeps
running. `AgentTurn`: the turn's thread keeps running and its wait expires after 120 s
(`wait_for`); the user has to do nothing. A generation inside a turn is one step
there: that it ends is what `generation` shows. `Launcher`: the thread of a Load goes
on, Go's mutexes starve nobody (a goroutine that waits for over a millisecond is
handed the mutex), hence strong fairness for whoever waits for one, and a process that
was sent a kill exits; a process need not exit or listen otherwise. `ProjectFiles`
states no fairness: it has safety properties only.

Deadlock is checked in `thread_pool`, `row_dispatch`, `kv_cache_client`, `generation`
and `agent_turn`. `project_files`, `launcher` and `algorithms` stop where their bounds
on jobs, loads and posts, or the one choice of an input, are used up, and say so in
their configuration. A final state of the others is one the program may rest in (pool
destroyed, server idle with the bound on requests reached) and stutters by an explicit
action.

## Findings

1. `parallel_for` hands late chunks a `begin` beyond `end` (thread_pool.cpp:75);
   `end - begin` then wraps in the matvec path (matvec_threaded.cpp:36).
2. The server generates past the context: a token's own K/V is dropped
   (qwen_block.cpp:725-727), and no error is raised.
3. An "always" can survive the change of mode meant to clear it
   (http_server.cpp:700-702 and 1113).
4. Pieces of a reply are cut by bytes, so a character split across two tokens is
   handed on in halves (http_server.cpp:188), against the comments at 94-96 and
   185-187; a delta that ends within a character makes `dump()` throw, and the slot is
   not released.

Met on the way, with no run of their own. They are in the models as the code has them.

*Cache and generation.* The server gives every generation a fresh session id and
releases its slot, so the prefix reuse that the documents promise never happens
(`StartsCold` states it). `commit_token` records nothing at the last position after
`append` (kv_cache.cpp:237, against kv_cache.hpp:109-110). The comment of
kv_cache.cpp:194-199 calls reuse_prefix "a no-op on an empty tokens vector", but it
sets pos to 0; the guard against duplicate commits (kv_cache.cpp:245-248) cannot be
reached by one. "Checked every token so a hung-up client stops the work immediately"
(http_server.cpp:175-176) is more than the check can do: it asks about failed writes,
and "a small write into a socket whose peer has vanished succeeds locally until the
TCP stack notices, which can take minutes" (984-986). Until one fails, tokens that
bring no text ask for no write at all, those of a tool call for one in 24, and a
prefill asks nothing; only the clock of the turn is sure. `StopsWhenClientLeaves`
counts from the moment the connection fails writes.

*Agent turn and files.* "Silence is never consent" (http_server.cpp:1103), but the
handler keeps answers under any id (671), and every start of the server numbers its
prompts from 1. An answer posted before its prompt, or by a page left over from an
earlier run, lets a gated call run with nobody having decided while the prompt was
open; an early "always" approves its kind of call from then on.
`GatedCallsWereApproved` and `ApprovalsWereGiven` therefore ask for the user's last
word under the prompt's id, whenever it was said. `resolve` "refuses ... anything that
resolves (through symlinks) to a location outside the root" (workspace.hpp:35-36), but
not through a link whose target does not exist: `weakly_canonical` leaves it as it is
(workspace.cpp:155), it passes as inside, and a write creates the file it leads to
(286), outside; the next call then finds a target and is refused. `OutsideUntouched`
allows that one file. A rename onto the plan is no plan change for `classify`
(permissions.cpp:171, against PERMISSIONS.md:32 and 38). An agent turn changes files
without `ws_mutex` (http_server.cpp:1146), so a phase checked off meanwhile, or the
agent's own edit, is lost. A turn that waited for `model_mutex` works from the plan of
before (http_server.cpp:891-897). A planning turn that leaves boxes checked while
todos.json does not parse keeps them. Deleting the plan counts as writing it. Checking
off a phase drops hand-written prose from the plan (`RenderPlan`); the changelog,
"append-only", is written whole and what is beyond 2 MiB is cut (session.cpp:198-210).
A line of the log that the agent writes, or copies while a handler appends to the same
file, may stand there more often than its phase was checked. `strip_phase_prefix`
takes any run of ":", "." and " " after the number (session.cpp:44), so the phase
".net upgrade" is written as "Phase 1: .net upgrade" and read back as "net upgrade",
against "Round-trips what parse_plan understands" (session.hpp:64); TLC finds
`SavedPlanIsThePlan` violated as soon as its hypothesis `ReadsBack` is left out. A
failed write leaves an emptied file.

*Launcher.* Load takes any listener on the port for its process (runtime.go:124;
README.md:38 of the launcher speaks of /api/health). A launcher that restarts leaves
its runtimes running, and the next Load may find them on the port. A reload during a
post puts the old configuration back into memory until the next reload. Default roots
a user deletes return at the next start. Every start empties the configuration file
and writes it again (config.go:89, 108), with the error ignored: a stop or a full disk
between the two loses the configuration, and the next start gives defaults;
`SettledConfigStands` leaves out just that. A post whose save fails is answered with
an error, but the launcher goes on with what was posted while the file has the old
configuration, or none (server.go:84-86).

*Texts.* `strip_tool_calls` takes tagged calls out, but not fenced or bare ones. A
close tag within a string of a call ends the call. A reply that ends in the beginning
of a tag never shows that tail. Contractions match in any case for every family
(bpe_tokenizer.cpp:174), though the alternation given for Gpt2 is one of small letters
(105); the reference of `PretokensFollowTheAlternation` has both cases for both. The
comment of `build_spm` says control pieces are never merged; `encode_spm` does not
look, and the merges of a BPE vocabulary can make a special token as well. A
SentencePiece vocabulary without a token for the byte 0 is taken to have no byte
tokens (679): what it has no piece for becomes the unknown token, or nothing if there
is none. Each chunk between special tokens gets a leading word boundary of its own in
SentencePiece, so such text does not round-trip, nor does text that holds U+2581 or
bytes that are not UTF-8.

*Model files.* A tensor whose element count is no multiple of its block has size 0 and
escapes the bounds check. F16 and Q2_0 weights can be multiplied in batches of four
tokens and more, but not fewer. hadamard.hpp promises an error "when the file declares
one Ultima cannot honour exactly", but names it does not rotate (experts, fused
feed-forward, beta, alpha, head gate) pass silently. The loader does not check that
query heads are a multiple of key heads. `min_p` above 1 masks all tokens and the draw
is uniform; with both windows 0 the frequency and presence penalties are off.

## What is proved

Each component with state has an inductive invariant, named `IndInv` at the end of its
module. TLC checked each on the instances of its runs before it was proved
(`thread_pool` still lists its own, as it says more than the properties drawn from
it). A proof module has `Init => IndInv`, one lemma per action that `IndInv` is kept,
`InvariantHolds` (`Spec => []IndInv`), and what follows. What would be an induction
over numbers (the chunks cover, two sequences share a longest prefix, the walk of
`resolve` reaches its end) goes through the least number that fails (`LeastElement`).

| Component | Assumed | Proved |
|---|---|---|
| thread pool | `ThreadPoolAssumption`: a worker, sizes and bounds natural numbers | `TypeOK`, `NoUseAfterDestroy`, `EveryIndexOnce`, `NoDoneStateLeak`, `ImplementsForkJoin` |
| row dispatch | `RowDispatchAssumption`: the modulus of sizes is beyond any row number | `EachRowOnce` |
| KV cache | `KVCacheAssumption`, `ClientAssumption`: a slot, a layer, a position; the free mark is no session | `TypeOK`, `VectorsMatchTokens`, `RequestReadsItsDialogue`, `OneSlotPerSession`, `PosCountsTokens` |
| generation | `GenerationAssumption`: batches of at least one token, prompts not empty, a session per request, a ping after some number of quiet pieces | `TypeOK`, `AttentionSeesDialogue`, `RecurrentAgrees`, `StartsCold`, `SlotsComeBack`, `StopsWhenClientLeaves` |
| agent turn | `AgentAssumption`: a reply makes at least one call; ids of answers are any set of numbers; bounds are numbers | `TypeOK`, `GatedCallsWereApproved`, `ApprovalsWereGiven` |
| project files | `TreeAssumption`, `JobsAssumption`, `BoundsAssumption`, `MaxReadAssumption`, see below | `TypeOK`, `OutsideUntouched`, `ImplementsAtomicFiles`, `RecordedPhasesWereChecked`, `PanelShowsThePlan` |
| plans | `NumbersAssumption`; a plan file holds lines | `SavedPlanIsThePlan`, `PlanRoundTrips` |
| model files and metadata | `IsFile`, `IsMetadata`, see below | `WeightsAreReadInside`, `ScratchHolds` |
| launcher | `LauncherAssumption`: a process and a round at least; bounds are numbers | `TypeOK`, `EveryRuntimeIsOwned`, `SettledConfigStands`, `RecordGoesWithItsProcess` |

TLC evaluates every assumption in the runs of the same component, and picks only
inputs that `PickPlan`, `PickFile` and `PickMetadata` allow. The proofs are in eight
modules.

*ThreadPool.* That a worker which counts finds its `DoneState` alive depends on why
the caller is still there. `IndInv` says where everything is: no task exists twice
(`TasksDistinctInv`), a task belongs to a call that was enqueued, and unless it has
been counted its caller is still waiting (`TasksPostedInv`), the counter is the number
of chunks not yet counted (`CounterInv`), a chunk has run once unless it is pending
(`RanInv`), and the shared copies are those of the queued and held tasks and of the
active caller (`CopiesInv`). Steps that only move a thread share `ControlFrame`. The
properties follow: a worker's own copy is among the owners; an uncounted task keeps
its caller in the call; the chunks partition `[0, n)` (`ChunksCover`,
`ChunksDisjoint`). A chunk that runs is a `DoChunk` of `ForkJoin`, a return is a
`Finish` because the wait predicate means that nothing is left uncounted, and all else
stutters.

*RowDispatch.* `Filled` says which elements the passes and chunks so far have written:
these once, all others not at all. At the end they are all.

*KVCacheClient.* While a request is served its session owns the slot (`ServedInv`), a
rewind is for a dialogue that is cached to its end (`RewindInv`), and while layers run
`pos`, the tokens and the layers done stand where the way of writing puts them
(`ForwardInv`). Without the last, a vector written ahead of its token could belong to
any dialogue. Buffers of two slots or layers never meet (`RowsDoNotOverlap`), and what
a reuse keeps is a common prefix (`LcpIsLcp`).

*Generation.* Every slot is free, held, or lost to an exception (`OwnersInv`); a slot
is empty before prefill (`ColdInv`); the model is fed the dialogue in order, chunk by
chunk, then token by token (`FeedInv`); the cache counts what was fed up to the
context (`PosInv`); and each layer has written (`VectorsInv`) or absorbed (`StateInv`)
the dialogue up to `Through`, the batch included if the layer is done with it.
`AttentionSeesDialogue` and `RecurrentAgrees` are the case of the layer that is about
to run. A token past the context is what `VectorsInv` does not speak of: there the
finding is. `LateInv` is about the client: the pieces since the connection broke are
at most the quiet ones since the last write, and a token is decoded past a failed
write or the end of the turn's time only by the round that had asked before.

*AgentTurn.* Prompts are numbered in the order they went out, and none has heard more
than was said (`PromptsInv`); an answer in the map is the last one posted under its
id, whether before its prompt or after it (`AnswersInv`); a parked turn waits for the
last prompt (`GateInv`); so a call past the gate that the user did not refuse has the
user's last word under the id of its prompt (`NotRefusedWasApproved`).

*Launcher.* A Load holds the mutex from start to end and has a living process of its
own (`LoadsInv`); a post with no other beside it finds the file as it left it, and
while a configuration is settled, or the launcher is not up, no post is under way
(`PostsInv`). A start carries the configuration in its memory through its save, so a
start loses it only if it ends between truncation and write, which `torn` records.

*ProjectFiles.* The links in the project's root lead out of it, to something or to
nothing (`TreeAssumption`): what `resolve` is written for, and what it misses. Links
that lead from place to place within, that a rename could move, or whose target a
removal could take away are not modelled, so nothing is claimed of them.
`JobsAssumption` says that a job has the form of one of the requests, and that the
server's own three files lie behind no link. A walk that ends inside went through no
link that leads to something (`CanonicalIsClean`), at most to one that dangles. So
nothing that exists outside changes, and the only thing outside that may come to exist
is a file that such a link leads to (`Dangling`). Links stay as they are but for those
a rename replaces, of those that led to nothing, and for those that a created file now
makes lead somewhere (`MoreLinks`, `ResolveStays`). A path then resolves to what it
did, or to a place outside and is refused; what an open call works at is where its
path led at the start (`Spots`). `CallInv` says which job a call can be doing where.
`TextInv` is about the contents: until agent and handler run into each other, an open
call will store what its job makes of the file as it now is (`Makes`), one that is
storing found the file empty as it left it, and no two store in one. The refinement
then goes step by step. `Seen` is what a client may think a file holds, the old text
while it is being written. A call that begins, reads, opens or is refused is a
stutter; a store is `Do(job)` of its job, a record in the log, or `UncheckAll`; a
failed write or a stop is `Lose` of the files then open; rename, remove and mkdir are
one step in both. `AtomicFiles` reaches the operators on texts and paths through an
instance of its own, and the proof shows them equal to those of `ProjectFiles` one by
one (`SameEdits`, `SameParse`, ...).

*The log.* `RecordedPhasesWereChecked` speaks of lines nobody writes by hand
(`Recorded`: the line is in no file at the start and in nothing a write or an edit
brings); for a line that a user may type there is nothing to say. Such a line comes
from `append_changelog`, or is copied by an edit, a move, or a write of what was read.
So the invariant has to follow it everywhere: `LogInv` says that every text, in a file
and in the hands of a call, fits what was checked (`Fits`), with room for the line a
handler still has to write (`Due`). Without the room, a step that writes it could go
beyond the count. The count is promised only until agent and handler run into each
other. With the agent's edit of the log among the jobs, TLC finds an unconditional
bound violated in 24 steps: the edit was read before the handler's line, stored after
the log was written again, and the line stands twice.

*The panel.* `PanelInv` says that what is about to be written where boxes must be
cleared is the plan the panel was sent, and that after a load nothing but a clash or a
change of the file, which `shown.current` notes, parts the two. A plan that was saved
is loaded as it was if it is `Storable`: no phase begins with a dot or a colon, and
its text is no longer than what a read takes of a file. Both limits are in the code;
the first is the phase ".net upgrade" above. A plan that is sent as it was loaded
needs no such hypothesis. That the boxes of a planning turn are clear needs that a
cleared plan is parsed back with its boxes clear, which is the next theorem.

*Plans.* `PlanRoundTrips`: parsing what was rendered gives the phases in their order
with text and box (a phase's prefix is taken off again, and nothing else is, as its
text is trimmed and begins with no mark), the request, and so the same rendering and
the same prompt. The plan may have as many phases as there are `Numbers`, any number
of distinct words none of which is a mark (`NumbersAssumption`). Title and date are
left out, as a plan with neither gets words for them. No induction is needed as the
lines kept by the parser are a list given by their positions (`Selected`).

*Model files.* `WeightsAreReadInside` holds for any size of the file, alignment,
number, order and types of entries and tensors. `IsFile` asks that integers in it are
integers and that arrays are of scalars or strings. A tensor whose rows are no whole
blocks is in it too: its products with four tokens and more are refused
(`Multiplies`), and if the tensor as a whole is no number of blocks either, it has
size 0 and the theorem says nothing of its products with fewer (`Sized`, see above).
Rows come apart as each takes `RowBytes` from a tensor of exactly that many times rows
and experts. The sums over the directory (`Total`) and the products of dimensions
(`ElementCount`) are recursive functions; that these are what their equations say is
`RecursionExists`, and what the proofs need of them comes from the least place that
fails.

*Scratch.* `ScratchHolds` holds for every registered architecture and any dimensions,
expert and state sizes, batch and number of slots. `IsMetadata` asks that numbers are
natural and flags Boolean, no more. Nowhere is checked that key heads divide query
heads; where there are at least as many heads as key heads, and some, every head has
its key head exactly if they do, which the theorem states as it is. Each of the thirty
widths is at least the reach of every access at every layer, dense or expert, fused or
not, and the regions of recurrent states are apart as a flat index tells slots, layers
and heads apart.

Only model-checked:

- All liveness (`CallsReturn`, `ShutdownCompletes`, `GenerationEnds`, `TurnEnds`,
  `RequestsReturn`, `DeadRecordsGo`), which needs ENABLED and fairness and is out of
  the prover's reach.
- `PretokensFollowTheAlternation`, `HeapMergesBestPair`, `DecodingInvertsEncoding`,
  `StreamedProseIsStable`, `EveryCallIsFound`: their operators recurse over a text or
  merge until nothing is left, and say what they yield for every text, which is an
  induction over data. Their modules hold RECURSIVE operators.
- `TheMostLikelySurvive`: the mass of a set of tokens is a fold over a set, with
  powers of two; that it grows with the set is an induction over finite sets.

## Not modelled, and why

- Kernels, quantization and the arithmetic of the blocks, RoPE and softmax: floating
  point, of which TLC and TLAPS can say nothing useful. What they read and write is in
  `ModelLayout` and `ModelFile`.
- The memory map and aligned buffers: operating-system calls.
- Skills, the launcher's discovery, chat templates, the command line: input of files
  or formatting, alone on one thread, with no state to keep.
- The drafter (`dspark.cpp`): the server never calls it.
- Synonyms of tool and argument names, globs, the text of results.
- Handlers that only read. `/api/health` and `/api/slots` read the owners of the slots
  without a mutex; the number is displayed and nothing else depends on it.
- 64-bit overflow in a model file's sizes, and directories made to deceive.
- The browser code, which is the environment: it answers prompts, posts and leaves.

## Plan

1. Thread pool, chunking, row dispatch: done, proved.
2. KV cache and a client; generation; permissions and agent turn: done, proved.
3. Project files with their abstract specification; launcher: done, proved; the pure
   algorithms: done, checked; plans, model files and metadata of them proved.
4. Left: an abstract specification of the KV cache, slots as dialogues, that
   `KVCacheClient` implements; the tokenizer's and the parsers' properties for every
   text, when a prover with induction is at hand; the handlers that only read.
