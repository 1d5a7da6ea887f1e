# A verification development of the Sui submission agent API

The repository is a NestJS/Fastify server (`src/src`) that runs a crypto-wallet
assistant: a mobile client POSTs a message, the server streams back server-sent
events, calls a language model in a loop, runs some tools itself and asks the
wallet on the phone to run the others. This directory holds TLA+ models of its
core, TLC configurations that check them on small instances, and theorems about
them checked by TLAPS. `PROJECT.json` maps every definition to the lines it
stands for.

## 1. The system

Paths below are relative to `src/src`.

| Part | State | Operations | Talks to |
|---|---|---|---|
| Session store (`session/session.service.ts`) | an in-memory `Map` of sessions: messages, `state`, `last_active`, `pending` Deferreds, `pendingPayloads` | create, get, awaitMobileResult, its timer and `.finally`, resolveMobileResult, cleanup, delete, sweep, lazy eviction | called by both controllers and by the turn |
| Agent turn (`chat.service.ts`, `runAgentTurn`) | the loop's counters and guards, the transcript | model call, server tool, mobile tool, duplicate-read guard, failure spiral, iteration cap | session store (awaits), model provider, MCP tools |
| Orchestrator (`agents/orchestrator.ts`, `agents/engine.ts`, `runCoreRouter`, `runSpecialistTurn`) | hop, plan, delegated steps, specialists already run | ask Core, route, skip, delegate, close | agent turn, one per step |
| HTTP requests (`chat.controller.ts`, `agents/agent.controller.ts`, `history/conversations.controller.ts`) | the session's wallet, conversation and messages; who owns a conversation | find or create the session, reload, create, keep, refuse, delete, show | session store, Prisma, orchestrator |
| Turn persistence (both POST handlers, `persistTurnSoFar`, `history/conversation.service.ts`) | `lastPersistedIndex`, `conversationId`, the message rows | seed, flush (two database writes), reload | Prisma |
| SSE stream (`sseResponse`, `buildReconnectResponse`, delay hints) | `enqueueExternal`, `awaitingMobileSince`, `delayHintsSent` | pull, cancel, reconnect, delay hint | agent turn, session store |
| Transcript sanitizers (`sanitizeOrphanedToolCalls`, `dropOrphanedToolResults`) | none | two pure functions over a transcript | before each model call |
| Stream sanitizer (`agents/leakFilter.ts`, the text loop of `runAgentTurn`) | a segment buffer, the anchor line, `stopped` | push, endStep, consume, emitText | agent turn |
| Conversation list (`prisma/prisma.service.ts`, Valkey) | cached lists | cache-aside read, recompute, delete | controllers |
| Agent task store (`agents/tasks`) | tasks, their peer messages, subscribers | create, transition, append, list, cascade | Prisma; the conversation endpoint lists it |
| x402 catalog (`x402`) | a table, one list of it in Valkey for all processes, a `SNAPSHOT` in each | boot, load, invalidate, resolve | tools of a turn, paid calls |
| Tools of a turn (`buildAllTools`, `withResourceEnum`, `getMcpTools`) | what a turn offers its model | build at the start of the turn, route each call | registry, MCP server, x402 catalog, wallet |
| Agent registry (`agents/registry.ts`, `loadAgentCards.ts`, `tools/internal/compose.ts`, `agents/tools/dispatch.ts`) | cards, manifest, tools, all written by hand | import, register, cross-check, assert, dispatch | bootstrap |
| API key guard (`guards/api-key.guard.ts`) | none | find the key, let in or refuse | every controller |

One POST runs through them as follows. The guard lets it in; the controller finds or
creates the session, gives it the wallet the request names, pushes the user's message,
reloads or creates the conversation and seeds the watermark. The tools are fixed for the
turn. `orchestrate` asks Core; each hand-off is a specialist's `runAgentTurn`. That loop
sends its text through the stream sanitizer, commits an assistant message and, for every
call in it, a tool result; each commit is flushed to the log. A mobile tool registers a
Deferred in the store, streams `tool_pending` and suspends; `POST /chat/respond`, a
timeout, an eviction or a cleanup settles it.

**What is hard.** JavaScript runs each handler to completion, so races happen
only at awaits, but there are many of them: two requests of one session share
the same session object; an answer races the timer and the eviction of the
session; `.finally` callbacks run after the entry they clean up may have been
replaced; the flush of a transcript awaits twice; the process can restart at any
await; a stream can be cancelled while the turn goes on; several processes share one
cache. `PROJECT.json`
(`hazards`) lists each of them at its line.

**What makes each part correct.**

- Session store: a promise, its map entry, its payload and its timer live and die
  together; it is settled once, and always; expiry never cuts off a call.
- Agent turn: it ends, idle, with one closing frame; every committed tool call has
  exactly one result; no read is dispatched twice; failures do not spiral.
- Orchestrator: nothing the user asked for is dropped, no specialist is asked
  again in a later hop, the stream is closed once, the turn ends.
- Turn persistence: what the watermark covers is in the log, once, and reads back
  in order; what the model is shown is the conversation in order.
- Stream: a reconnecting client gets every pending call, with the right flags.
- Requests: a turn is run for the wallet its request was accepted with, and what a
  wallet reads in its conversations was said in its own turns.
- Stream sanitizer: what is streamed does not depend on how the text was cut.
- Caches and catalog: a read after a completed write does not see older data, and
  what a turn offers its model can be used.
- Task store: statement by statement it does what the in-memory store does at once.
- Registry: after a boot that passed, every tool has one owner, the right one.

## 2. The modules

### `SessionStore` and `Rendezvous`

`SessionStore` has one action per method of `SessionService` and one per callback.
`pending` is the union of the sessions' maps, a Deferred is `<<session, call, n>>`
(the n-th await of that call id). A handler or timer callback is one step; the
`.finally(cleanup)` microtasks it queues are in `finals`, each a step, and nothing
else runs before they have (`Quiescent`), which is the event loop's rule. Time is
relative: `age` since `last_active`, `left` to a deadline, both bounded; a due
timer may run up to `Lateness` ticks late.

`Rendezvous` is the abstract specification: an await is opened when no other of
its call is open, and settled once, by its own answer or by a failure.
`SessionStore` implements it with the refinement `outcome <- status`.

### `AgentTurn`

The loop of `runAgentTurn`. A tool call is its slot `<<model step, index>>` and a
key (tool and arguments). What the provider, the tools and the wallet do is chosen
freely: the model may fail, answer or call any keys; a tool may succeed or fail;
the wallet may answer either way or the await may be rejected, which is all the
loop can see of the session store. All exits of the code's loop are actions. Text,
prompts, token usage and frames other than the closing one are left out.

A client that drops its stream makes `sseResponse` call `generator.return`, which
takes effect at the next `yield` (`Cancel`, `Yield`): until then the turn runs on,
and it may commit messages, run a tool or wait for the wallet. So each yield of the
code that a state change can follow or precede is a step boundary: the status frame
of an iteration, a text chunk, the frames around a server tool, `tool_pending`, the
error frame of a rejected await. A turn that ends this way is `"cut"`, one that ends
by itself `"ended"`. Pushes and the flush after them are one step here; the flush is
in `TurnPersistence`.

### `Orchestrator`

`orchestrate` with Core's routing decision. A reply of Core is a sequence of
hand-offs, valid or not; `RouteOf` are the valid ones in their order, the k-th being
the one of rank k. A specialist turn is the pair start/end of `AgentTurn`, and a
dropped stream may end the turn at any yield of Core or of the specialist (`Cut`).
`CoreFails` covers the two failures a fixed agent configuration leaves: a model that
cannot be resolved and one that throws. The wallet that `tool_pending` frames are
stamped with is in `Requests`.

### `Requests` and `ApiKeyGuard`

`Requests` is the life of a POST as far as it decides who speaks to whom: which
session it meets or makes, that the session takes its wallet, how it finds its
conversation (`"new"`, `"continue"`, or `"keep"`, which takes whatever the session
has), what its awaits find when they return, and into which conversation the turn's
messages are written. A message is just the request it came with; a flush is one
step. A session may be forgotten (TTL) or all of them (`Restart`), a conversation
deleted. The same two switches describe the client as in `TurnPersistence`.

`ApiKeyGuard` has the places a key is looked for as operators, and a reference
definition of who should be let in (`LetIn`). The guard has no state: `MCRequests`
compares the two on every credential of its small sets by an assumption
(`GuardAssumption`) that TLC evaluates.

### `TurnPersistence`

Both POST handlers as far as they touch the transcript, the watermark, and
`appendMessages` with each of its two writes a step of its own that may fail. A
message is a number in the order messages came into being, so a faithful
transcript is an increasing sequence. `LoseSession` is a restart or an eviction.
`Date.now()` is `now`; a round trip to the database takes at least `RoundTrip` ms.
A reload returns rows by `createdAt`, ties in any order. Two switches describe the
client: `OneAtATime` and `LoadsFreshOnly`. Either write of a flush may always fail.
Two history variables: `floor` is the watermark the session was seeded with,
`halfWritten` the messages whose insert was not followed by its update. Those are
written again (section 5), so the order and once-only properties except them.
A turn may outlive its session: the object goes on without being in the map.

### `StreamLifecycle`

The streams of one session. A POST with messages starts a stream and its turn; the
turn is reduced to what a stream can tell: it runs, is suspended on a call, has its
closing frame to come, or is over. The client may `Drop` a stream at any moment:
`generator.return` is queued and obeyed at the next yield (`Cut`, or the
`tool_pending` yield in `Ask`, which leaves the call registered with nobody awaiting
it). `Respond` and `Expire` settle the promise and resume the awaiting turn in one
step, since the continuation is a microtask of the same tick. `Reconnect` is the
empty POST: it replays `pendingPayloads` and adds `interrupted_at` from
`awaitingMobileSince`, one stamp for the session. `Progress` starts a delay hint,
which captures `enqueueExternal` and writes to it chunk by chunk; the model behind
it may end or fail at any time. Ages are `since` (of the stamp) and `left` (of a
timer), both bounded. The history variable `overlapped` records that a POST came
while a turn was active or a call pending; the properties that need a client which
waits for its turn are stated for behaviours where it is still `FALSE`, and the
others without it. A call is lost when it is settled and its answer not in the
transcript (`LiveFlagNeedsLostCall`). Eviction and lazy expiry of the session are in
`SessionStore`.

### `TranscriptRepair` and `SharedTranscript`

`TranscriptRepair` has the two passes every model call makes over the transcript, as
operators on sequences of messages: `SanitizeOrphanedToolCalls` puts an interrupted
marker behind a reply for each call without a result directly behind it,
`DropOrphanedToolResults` drops each result without an open call. A message is its
role and tool call ids. The module ends with reference definitions that say what the
view should be without the passes: which message resolves which call (`Resolves`),
the view message by message (`ViewInPlace`) and what a provider accepts
(`WellPaired`). The loop of each pass is a function on the positions of the transcript
(`Sanitized`, `Scanned`), the value at a position from the one before it: the provers
can unfold that, where a fold or a recursive operator is closed to them.

`SharedTranscript` makes the transcripts they meet: turns that push to one
`session.messages`, Core that sees its prefix up to `turnStartIndex` and specialists
that see it whole, tool results, rejected awaits, turns cut off in mid-step, and a
session that is lost and read back from the log, short of a tail, or with a slice
repeated (by a failed update) or two rows swapped (equal dates). `told` remembers the
calls some model was shown as interrupted, `clean` whether turns never overlapped
and no row was repeated or moved.

### `ConversationCache`

The list of a wallet's conversations in `PrismaService` and its two sides. Each write
starts an in-flight task that goes on to recompute the list (`RecomputeQuery`,
`RecomputeStore`), unless it throws, is lost in a restart (`Fail`), or is a title
change, which does not recompute. A reader without a cursor takes what is cached or
queries and fills (`ListMiss`, `ListQuery`, `ListFill`); with a cursor it reads the
database (`NextPage`). A list is a set of ids and its oldest `updatedAt`; rows of
equal `updatedAt` come in any order. That an update with empty data moves
`updatedAt` is Prisma's part, taken as the comment at
`history/conversation.service.ts:55` says. Spellings of an address share a
key (`KeyOf`, the lower-casing of `convListKey`) and not their rows. Three pieces of
history: `moved` of a list is what was written since its query, `owed` of the client
what it may expect on the pages to come, `disturbed` the keys whose list may be stale
with nobody about to replace it: a title was changed, a recompute was lost, or a write
came between the query and the `setex` of the list. A fresh store or expiry clears it.

### `StreamSanitizer`

Text is a sequence of units: words, blanks, the two ends of a segment and the two
halves of a forbidden phrase, which a chunk may separate. `Feed` is one turn of
`push`'s loop, `Consume` one segment, `EmitText` the cap on an assistant text. The
turn writes up to `MaxSteps` texts; the anchor and `stopped` outlive a step, the
buffer does not. Two histories, what the model wrote (`raw`) and where a full buffer
was flushed (`cuts`), let the properties compare the streamed text with the sanitized
text by definition (`Expected`): the segments of `raw`, without leaks, up to the first
that repeats the first substantial one. The loop of `push` is a function on the
positions of the chunk (`FedBy`).

### `X402Catalog` and `ToolSets`

`X402Catalog` has the table, the list in Valkey, the snapshot of each process, and
each call of `refresh` with its awaits apart: del, get, query, store, and the snapshot
it sets. A list is the number of the table's version it was read from. Every call to
Valkey may fail; the table's may throw; the list may expire and processes stop at any
step. `load[l].since` is history: the version an invalidation has to show, 0 when it
is excused. `ToolSets` extends it with a turn of one of the processes: its tools and
the enum of resource ids are fixed when it begins, a call is routed, and a paid call
resolved, against the snapshot of its own moment. It assumes that the turn's process is
one of the processes (`HostAssumption`) and that an entry of the registry has one
executor (`ExecutorsAssumption`).

### `AgentRegistry`

The boot, with each of its checks a step that may end it: the import of the tool
modules in any order, the spread into `TOOL_REGISTRY`, the registration of the cards,
the cross-check with the manifest, the assertions, and `dispatch` afterwards. A build
is any cards, manifest and tools, which may disagree. A tool name is its sequence of
words, a prefix a family of names or one whole name.

### `TaskContract` and `TaskStore`

`TaskContract` is the abstract specification: the in-memory store, each method a step.
`TaskStore` is the Prisma store with the read, the check and the update of a transition
apart, other callers' statements and deletions in between, and the listing of a
conversation in two queries. It implements the contract (`agentTask` for `tasks`,
`agentPeerMessage` for `peer`) when a task has one driver; the store has no lock, so
that is a condition on its callers, written `Driver`, and `OneDriver` where a theorem
needs it.

### `MC...`

One module per component that TLC starts from; the `.cfg` files give the constants
their values and replace no definition.

Operators marked `Mutant:` are plausible mistakes in one mapped definition. They
are not part of the specification; each property is known to fail when the mutant
named in `PROJECT.json` replaces the definition.

## 3. The runs

| Run | Instance | What it shows |
|---|---|---|
| `session_store` | 1 session, 2 call ids awaited twice each, timeout 2, TTL 3, lateness 1 | entries, payloads and timers agree, expiry cuts no call, the refinement of `Rendezvous`, every await is settled |
| `agent_turn` | 4 iterations, 3 failures, 2 calls a step; a server read, a wallet read, a wallet write | pairing, no repeated read, no spiral, termination, with the stream dropped at any moment |
| `orchestrator` | 3 specialists and `core`, 3 hops, 2 steps, 2 briefs | one hop per specialist, no lost step, termination |
| `turn_persistence` | 4 turns, 5 messages, round trip 5 ms | nothing lost, exactly once, ordered reload, ordered transcript |
| `stream_lifecycle` | 2 turns, 2 calls, timeout 2 | replay of what is pending, streamed answers heard, a live call flagged only after a lost one, the session comes to rest |
| `shared_transcript` | 2 turns, 2 calls, 5 messages | models see paired transcripts only, the repair is local, shows every result and marks no call that may still get one |
| `conversation_cache` | a wallet in 2 spellings, 2 conversations, pages of up to 2, 2 writes, 2 tasks | a walk along `next_cursor` is complete and without repeats, lists are stale at rest only for a known reason and not for good |
| `stream_sanitizer` | 2 steps of 5 units together, chunks of up to 2, full buffer 3, substantial line 2, cap 3 | the streamed text is the sanitized text by definition however it was cut, and a forbidden phrase gets out by a full-buffer flush only |
| `tool_sets` | 2 processes, 2 loads, 1 resource, 2 versions of the table | an invalidation shows the table as it was when it was called, or newer, and what a turn offers works |
| `agent_registry` | 3 cards with entries that nest, coincide or do not meet, 5 manifests, 16 choices of tools | after a boot each tool has one owner, and it is the agent that composed it |
| `task_store` | 2 callers with a task each, 1 conversation, 1 reader, 1 message a task | the Prisma store implements the in-memory one, and an ended task is listed with all that was said before it ended |
| `requests` | 3 requests, 2 sessions, 2 wallets, 2 conversations, 1 reply each | a turn is its wallet's, and a wallet reads only what was said in its own turns; the guard lets in what it should |

Every type invariant is proved, and those of `StreamSanitizer`, `ToolSets` and
`Requests` are in a run as well. `TaskTypeOK`, `AwaitingHasPending`, `EndsIdle`,
`OneFrame`, `WriterIsCurrent`, `HintInOwnStream`, `RoutersAgree` and
`CoreGetsOnlyItsOwn` are proved (section 4) and in no run. Every property of a run is
violated by the mutant `PROJECT.json` names for it.

**Bounds.** Sessions share nothing but the map, so one session is enough for the store's
interleavings (the theorems are for any number); two calls make one the last and one not
the last of a session; two awaits of a call id make the old `.finally` meet the new
entry. `Timeout + Lateness = TTL` is the tight case of the code's 5 and 15 minutes. Four
iterations and three failures let the spiral guard fire before and after a step with
progress, and the iteration cap fire without it; two calls give mixed steps and a
remainder to pair. The code has two specialists and four hops, where the hop cap cannot
be reached (a specialist is spent after its hop); three specialists and three hops spend
the cap exactly. Four turns with five messages cover a turn, a restart, a reload and a
later turn, with slices of one to three messages; `RoundTrip` is at least `MaxMessages`
because dates run ahead of the clock by the length of a slice: with `RoundTrip = 2` the
same configuration violates `ReloadInOrder`. Five messages of two turns and two calls
hold a reply and its result twice over, a reply between another's call and result, and a
prefix of Core that ends there. In `StreamLifecycle` two turns let the `finally` of an
old stream, or a hint that captured it, meet a newer writer; two calls let one time out
and leave its stamp behind for a later, live one; a timeout of 2 separates "due", "not
due" and "past". In `ConversationCache` two tasks let one store overtake another, or a
write come between a query and its store; two writes on rows that are there already
(`Start`) make a first page stale, tie its cursor or move a row of it; limits 1 and 2
make a cached page too short and too long. In `StreamSanitizer` the limits 24, 2000 and
32000 shrink to 2, 3 and 3 units: a line that is just substantial, one that is not, a
buffer just full, and a phrase that the flush cuts in two all occur, and two steps let
the anchor of one stop the next. In `ToolSets` two loads overtake each other in one
process or across two; two versions make one list older. In `AgentRegistry` the three
cards cover a longer family inside a shorter one, a whole name inside a family and equal
entries, in both orders. In `TaskStore` a task per caller lets a deletion or a message
come between the statements of a transition; two callers of one task are the case the
contract excludes. In `Requests` three requests let one make a session, a second change
its wallet or its conversation, and a third see what is left. Models where the client
simply stops sending turn deadlock checking off; the others check it.

**Fairness.** `SessionStore`: time passes, due timers and queued microtasks run; nothing
is assumed of the wallet or of any caller. `AgentTurn`: the generator runs on, the
provider answers or throws, and an await of the wallet is settled, which is
`AwaitsSettle` of the store. `Orchestrator`: the same for Core, and a specialist's turn
ends, which is `TurnEnds` of `AgentTurn`. `StreamLifecycle`: time passes, timers fire
and turns run on; nothing of the client or of the hint's model. `ConversationCache`: a
call to the database or the cache returns or throws, and an entry expires (every `setex`
gives it `CACHE_TTL_S`); nothing is assumed of clients. `TurnPersistence` states no
liveness: a flush that fails forever is allowed. Nor do `StreamSanitizer`, `ToolSets`,
`AgentRegistry`, `TaskStore` and `Requests`: a load, a listing or a request may be
abandoned at any await, and the code promises nothing then.

## 4. The proofs

Each proof module extends its component and has one lemma per action or group of
actions; the temporal step is the last line. A smaller component shares the proof module
of the one it works for: the tools of a turn that of the turn, the task store that of
the orchestrator, requests that of the agents they are routed to, the stream sanitizer
that of the transcript its text is committed to.

- `SessionStoreProofs`. Assumes `TimeoutBeforeTTL` (a due timer plus its lateness
  fits in the TTL) and the types of the bounds. The inductive invariant adds to the
  type and consistency invariants that a queued `.finally` belongs to a settled
  promise that no live entry shares (`FinalsAreSettled`), that a session's age is
  covered by what its pending timers have run (`DeadlineBoundsAge`) and that
  `awaiting_mobile` is justified by an entry or by a `.finally` still queued
  (`AwaitingJustified`): without them an old callback could delete a new entry, and
  expiry could overtake a timer. From it: `TypeCorrect`, `StoreIsConsistent`,
  `NoCallCutByExpiry`, `AwaitingMeansPending`, and `StoreIsRendezvous`, that every
  step of the store is a step of `Rendezvous` or leaves its variable alone.
- `AgentTurnProofs`. For any keys, caps and replies. The strengthening says where
  the loop is (`LoopShape`), that every read issued since the last write is in
  `seenReads` (`ReadsRemembered`), and that the failure counter is the length of
  the stuck suffix of the steps (`SuffixCounted`). From it: `TypeCorrect`,
  `TranscriptAlwaysPaired`, `TurnEndsIdle`, `ReadsRunOnce`, `FailureSpiralBounded`.
  A turn cut off by its client is included: it leaves open calls of its last step
  and nothing else unpaired, which `sanitizeOrphanedToolCalls` closes before the
  next model call; `TurnEndsIdle` is about the turns that end by themselves.
  Of `X402Catalog` and `ToolSets`, for any processes, loads, edits and tools:
  `InvalidationsShow`, from the invariants that nothing read is newer than the table
  (`NothingAhead`) and that the cached list stays as new as each invalidation under way
  needs it, until it has read one that is (`LoadsKeepUp`); `OfferedAlwaysWorks`, from
  the invariant that a turn's tools are what the snapshot of its beginning makes of them
  (`ToolsAsBuilt`); `ToolsTypes`.
- `OrchestratorProofs`. For any specialists, plans and hop cap. What ran is remembered
  in `delegated`, `ranThisHop` and `ranInPriorHop` (`RunsRemembered`): from it
  `SpecialistsRunInOneHop` and `OneClosingFrame`. `CompoundRequestsComplete` adds that
  every step Core planned is covered by a run or still due in the rest of the plan
  (`PlanKept`), that the sets which make a step be skipped are justified by runs
  (`GuardsJustified`), and that a plan is empty when Core is asked (`PlanEmpty`).
  Routing loses no hand-off: ranks number the valid ones without a gap, by a pigeonhole
  argument (`EveryRankTaken`). `TypeCorrect` needs that a hop under way is below the cap
  (`HopOpen`).
  Of `TaskStore`, for any tasks, callers, readers and outputs: `TaskTypes`, whoever
  drives the tasks, and under `OneDriver` the refinement `StoreKeepsContract`, each
  statement of the Prisma store being a step of `TaskContract` or none. An update is one
  because what the transition read is still so when it writes: nobody else moves the
  task, and a deleted one does not come back (`ReadIsCurrent`). `EndedTasksListAll` adds
  that messages of an ended task stay (`EndedKeeps`), and that a listing that shows it
  ended reads its messages afterwards (`ListedStays`).
- `TurnPersistenceProofs`. A `Careful` client is `OneAtATime` and `LoadsFreshOnly`;
  whatever writes fail and whenever the session is lost, then:
  `LogKeepsWhatItAcknowledged`, every message under the watermark is in the log. The
  strengthening: at most one turn is active (`Solo`), a running turn is seeded
  (`Seeded`), and the slice in flight is exactly the messages above the watermark
  (`SliceCurrent`).
  `LogHoldsEachMessageOnce`, from: the messages above the watermark are distinct
  (`Distinct`), and new to the log unless a flush is between its two writes or failed
  there (`NewToLog`).
  `DatesFollowTheTalk` and `ModelSeesTheTalkInOrder`, for a round trip of at least
  `MaxMessages` ms (`SlowEnough`): the messages above the watermark ascend and are
  younger than the log's (`Ascending`, `AboveLog`), and dates stay behind the clock,
  since a slice is no longer than a round trip (`Dated`). A reload sorts the rows by
  date; that it returns each of them once is another pigeonhole argument.
  `TypeCorrect` holds for any client, careful or not (`WasSeeded`).
- `StreamLifecycleProofs`. For any turns, calls and timeout. The strengthening: a
  pending call belongs to one turn, which is suspended on it or over, and is
  suspended if its own stream delivered it (`Owned`); and while no POST has
  overlapped, at most one turn is active, the pending calls are its own, and a hint
  being spoken captured its call's stream (`Alone`). From it: `TypeCorrect`,
  `ReconnectSeesAll`, `WriterStaysCurrent`, `StreamedAnswersAreHeard`,
  `HintsStayInTheirStream`. `StreamedIsHeard` holds for overlapping requests too.
  `LiveCallsFlaggedAfterLoss` adds where the stamp `awaitingMobileSince` comes from
  (`Stamped`): it is that of a call not heard since, and while that call is pending its
  timer and the stamp add up to the timeout, so a late stamp means the call is over.
- `AgentRegistryProofs`. For every set of builds. The invariant (`BootInvariant`) says
  what each check that passed still guarantees: which modules were imported
  (`Imported`), that registered cards have different ids and no entry in common
  (`Registered`), what the assertions saw (`Asserted`) and what the last dispatch
  returned (`Dispatched`). From it: `ToolsHaveOneOwner` (two families of one length that
  match a name are the same, hence on one card), `RoutersAlwaysAgree` (three different
  ids among three are all of them), `ComposedToolsGoHome` (entries that match one name
  overlap, and clean builds have no overlap across cards), `CoreKeepsToItself`,
  `RegistryTypes`.
  Of `Requests`, for any requests, sessions, wallets and conversations, in three layers.
  For any client: `RequestsTypes`; watermarks never pass the transcript
  (`RequestsBase`). For a client that sends one request at a time, through expiry and
  restarts: `TurnsAreTheirWallets`, from the facts that one request is active
  (`OneActive`) and that its session has its wallet and, unless it kept one, a
  conversation of that wallet (`TurnsOwn`). For one that also names a conversation only
  without a live session: `RowsAreTheirOwners`, from what is in the logs (`LogsOwned`)
  and what a session has still to write: its present turn's messages and those of
  unsaved turns, which the property excepts (`RestUnsaved`).
  Of `ApiKeyGuard`, for any keys and every request: `GuardLetsIn`, that `canActivate` is
  `LetIn`.
- `SharedTranscriptProofs`. First of the repair, for every transcript. The passes are
  unfolded position by position, and what holds behind each position holds behind the
  last: the induction is the set of positions for which the claim holds, and the least
  of those left out, of which there is none (`UpTo`). `SanitizeAnswersAll`: behind the
  first pass every call has a result directly behind its reply. `ViewPairs`: what both
  make is well paired, whatever they got. `ViewIsInPlace`: they do message by message what
  the reference definition says. `CallsResolvedOnce`, `AnsweredCallsUnmarked`. Then of the
  turns, for any turns, calls and length: `TypeCorrect`; `PairsAreSeen` and
  `RepairStaysLocal` follow from the above in every state, overlapping turns and damaged
  logs included. `NoResultWithheld` needs that a turn in its tool calls has made the last
  reply, with nothing behind it but results of calls it has done (`StepIsLast`).
  `InterruptedStaysOver` adds that each call is in one reply (`OneReplyEach`), that a
  turn starts behind a user message (`StartsAtUser`), which is why Core's prefix ends in
  no open step, and that a call given up has no result and no turn to get one from
  (`Settled`).
  Of `StreamSanitizer`, for every text, chunks, limits and number of model calls:
  `SanitizerTypes`; `LeaksAreDropped`, from the invariant that a step of which no full
  buffer was flushed has no leak and, while it is written, ends where a segment does,
  so that nothing that comes behind it can complete a phrase (`SoundSteps`);
  `ChunksAreIrrelevant`, from the invariant `Tracked`: `stopped` says that a segment of
  what was written repeats the first substantial one, `anchor` is that first one, the
  buffer is the text behind the last end, and the streamed text is `Expected`, or a
  beginning of it past the cap. It is kept unit by unit: a unit behind which no segment
  ends changes none of the segments before it (`WordsSame`, `VerdictsSame`), one behind
  which a segment ends adds that segment to both sides (`Add`).
- `ConversationCacheProofs`. For any wallets, spellings, page size, tasks and writes.
  The strengthening: each list, cached or in flight, is good for what was not written
  since its query (`ListOK`: such a row is on it, or it is full and the row is not
  newer than its last); what a client has seen is not older than its cursor and what
  it is owed is older (`WalkOK`); for each outdated row of a cached list some task
  will still replace it, or its key is disturbed (`Covered`). From it: `TypeCorrect`,
  `WalkIsComplete`, `WalkIsDistinct`, `RestIsFresh`.

**From which assumptions.** Those on constants are in the module that declares them:
bounds are naturals, the timeouts are as in the code (`TimeoutBeforeTTL`), `None` and
other absent values are not among the real ones. Those on the client or the callers are
hypotheses of the theorem: `OneAtATime`, `LoadsFreshOnly`, `SlowEnough`, `OneDriver`.
Section 5 says what happens without them.

**Only model-checked.** Liveness (`AwaitsSettle`, both `TurnEnds`, `RestsAgain`,
`EventuallyFresh`): fairness and `ENABLED` are out of the prover's reach. Every safety
property of a run is stated by a theorem.

## 5. Where the code and its words part

Each of these was met while modelling. Where a model shows it, the switch or the bound
to change is named; the runs above state the properties for the behaviours where they
hold.

**Overlapping requests.** Nothing serializes two POSTs of one session.

- A message pushed by the other turn while a flush awaits the database is passed over:
  the slice is taken before the await, the watermark after it
  (`chat.service.ts:286-292`), though the comment at 274-277 says that a crash "leaves
  the conversation log consistent with what the user actually saw". `MCTurnPersistence`
  with `OneAtATime = FALSE` violates `NothingLost`.
- A `tool_pending` is stamped with the session's wallet at that moment, "the wallet
  that initiated the turn" according to `agents/orchestrator.ts:158-161`; a request
  that came meanwhile may have replaced it. `MCRequests` with `OneAtATime = FALSE`
  violates `TurnIsItsWallets` and `RowsAreTheOwners`.
- `ResultsAreShown` and `InterruptedIsOver` fail without `clean`: the second turn's
  model is shown a call of the first as interrupted while the wallet still has it, and
  its result, pushed behind the second user message, is dropped from every later view.

**Reload into a live session.** The comment at `chat.controller.ts:92` says that prior
messages are prepended "before the new ones that were just pushed"; when the session
is live, what is spliced out is its whole transcript and the log comes in front of
messages it already contains (`LoadsFreshOnly = FALSE`: `TranscriptInOrder` of
`MCTurnPersistence` is violated). The watermark is kept although everything moved, so a
later flush may write rows of another conversation (`RowsAreTheOwners` of `MCRequests`
is violated; `TurnIsItsWallets` holds).

**Requests.** A reload that fails with `conversation_not_found` leaves the pushed
message and the replaced wallet in the session; they are sent and written with the next
turn. So are the messages of any turn that ended unsaved, whatever conversation the
session is in by then: `RowsAreTheOwners` excepts both. `POST /agents/:agentId` never
looks at the conversation, so after a change of wallet the session goes on writing to
the former wallet's (kind `"keep"`, also excepted). `Session.wallet_address` is set
when the session is made and not refreshed with `wallet_context`.
`SessionService.sweep` has no caller outside the tests: a session nobody names again
stays in the map.

**Streams and calls.** `chat.controller.ts:48-51` says that after a drop the "in-flight
agent loop keeps running on its original HTTP connection", and `AGENT_PROTOCOL.md:339`
that the loop resumes when the mobile responds; the cancelled stream ends the generator
at its next yield, and if that is the `tool_pending` one, a reconnect still delivers
the call, its answer is accepted and nobody hears it (`StreamedIsHeard` is stated for
calls their own stream delivered). The comment at `chat.service.ts:1276-1277` wants no
later reconnect to mark an answered call as interrupted; only a success clears the
stamp, so after a timeout the next, live call is replayed with `interrupted_at`
(`LiveFlagNeedsLostCall` says that this takes a lost call). A replayed `tool_pending`
has no `wallet_context`, which the first delivery carried. The promise of a call whose
turn was cut has no handler, so its timeout is an unhandled rejection. A hint whose
model fails sends its fixed line without the check for a pending call that its chunks
get (`HintFails`).

**Turns.** The comment at `session/session.service.ts:59` says that `session.messages`
is never written to a database, and `persistTurnSoFar` writes it; the branch of
`runCoreRouter` for a missing Core configuration (901-904) cannot be reached, since
`AGENT_CONFIGS` hard-codes `core`. When Core itself fails, the stream gets an `error`
and then a `done`, and the session's state stays `streaming` (`CoreFails` of
`Orchestrator`), while `agents/orchestrator.ts:180` calls an error frame terminal and
the diagram at `AGENT_PROTOCOL.md:1225-1234` ends every turn in `IDLE`.
The UI-facing `display` of a result, which `buildAgentToolResult` forwards to the log
(`chat.service.ts:1600-1602`), never comes: the schema of an answer
(`chat.schemas.ts:60-69`) does not list it, and zod strips what it does not list.

**Stream sanitizer.** A segment ends at every `.`, so a decimal or a domain splits a
sentence, and a phrase across it is not found. The leak filter's comment promises to
drop "any SENTENCE that contains a forbidden machinery phrase" before it is emitted; a
line without an end that fills the buffer is flushed where it stands, and a phrase
across that cut gets out (excepted from `NoLeakStreamed` by `cuts`). The same
comment says of a repeated reply that the repeat is dropped "BEFORE any of it is
emitted"; when the first line is shorter than 24 characters, the repeat is recognised
only at its first substantial line, and its opening is streamed twice.

**x402 catalog.** The service's comment says that an edited row propagates "on the next
boot or within the cache TTL"; nothing refreshes the snapshot of a running process, the
only other load, `invalidate`, has no caller, and a boot may keep a list up to 300 s old
for good. An invalidation between whose del and get a slower load stores an older list
shows that list (excused in `InvalidateShows`). `chat.service.ts:718-721` says that the
class of invented hosts "cannot occur"; a call whose id does not resolve goes to the
wallet with the model's own input.

**Registry.** `dispatch` and `getAgentForTool` have no caller in production. `dispatch`
accepts `to: "core"`, and a disabled card, which Core's prompt does not list. A family
nested in another agent's and a manifest that names an agent twice pass every check of
the boot (both excepted by `Clean` in `ComposedGoesHome`).

**Task store.** A transition with output `null` keeps the former output in memory
(`output ?? task.output`) and overwrites it in the database. Rows of equal `createdAt`
are listed in any order. Two drivers of one task can both pass the check, and the later
update moves a task out of an ended status: `KeepsContract` is violated when `Driver`
gives a task two. `createPrismaTaskStore` and the event bus have no caller.

**Conversation log and list.** `appendMessages` inserts the rows and then updates the
conversation, without a transaction. When the update fails the watermark stays and the
next flush inserts the same rows again (`TouchFails` of `TurnPersistence`), while
`session/types.ts:211-212` says that a re-flush only writes messages added since the
last persist.

The cached list of a wallet has one key for all limits and spellings. After a reader
with `limit=3` filled it, a reader with the default limit gets three items and
`next_cursor: null`, and after a full fill a reader with `limit=3` gets ten items
and, since ten is not three, no next cursor either: its walk ends after the first
page. A spelling of the address in other case is answered with whichever spelling's
rows were stored last. `WalkShowsAll` is therefore stated for a first page that was
queried with the client's own limit and spelling. `message_count` is at most 1: every
query of the list loads one message of a conversation and counts what it loaded.

Rows of one flush are dated a millisecond apart so that "reload order is
deterministic" (`history/conversation.service.ts:34`); a flush of n rows ends n-1 ms
ahead of the clock, so a database faster than that gives the next flush equal or
earlier dates (`ReloadInOrder` fails with a small `RoundTrip`).

## 6. What is left

Every module of the plan is written: the session store and the turn first, then the
orchestrator, persistence, streams and transcripts, the conversation list, and last the
sanitizer, catalog, registry, task store and requests. What would add to it:

1. A composition of two `AgentTurn`s over one `SessionStore`. So far overlap is
   modelled where it bites: `TurnPersistence`, `StreamLifecycle`, `SharedTranscript`
   and `Requests` each have several turns over the state they are about.
2. What the abstract specifications do not say yet: that the session store of several
   processes, or a client that follows the protocol, implements one.

**Not modelled.** Human summaries (`tools/human-summary.ts`) and result shapes
(`tools/result-shapes.ts`) format single values, without state. Tool descriptors and
prompts are constant data. The transport of the MCP client and the diagnostic MCP
servers, the transcription endpoint and Nest's wiring are glue around external
services; the models see a tool that returns or throws, and an MCP server whose tools
are all there or none. The task event bus is a set of callbacks nobody registers with.
The single-agent mode (`AGENT_ORCHESTRATOR=single`) is one `AgentTurn` with all tools.
Formatting of frames, token counts, logging and the audit log are left out everywhere;
a tool name that ends in `_` is not a sequence of words and does not occur. A Valkey
client that never connected caches nothing and is not a case of `ConversationCache`.
