# PocketClaw: TLA+ specifications

PocketClaw is a personal AI agent that runs on a phone or a small computer. A
Go gateway (`core/src/pkg`) receives messages from chat channels, runs agent
turns against an LLM provider with tools, and sends the answers back. A Flutter
app with an Android service (`src/lib`, `src/android`) starts and watches the
gateway; a dashboard backend (`core/src/web/backend`) configures it. All paths
below are relative to `src/`; `pkg/` stands for `core/src/pkg/`.

The specifications model the parts of the gateway whose correctness depends on
the order in which concurrent things happen. TLC checks small instances of every
module; TLAPS proves the theorems of the `*Proofs` modules for every instance.

## 1. Inventory

| Component | State it keeps | Operations | Hard behaviour | What makes it correct |
|---|---|---|---|---|
| Session dispatcher (`pkg/agent/agent.go`, `agent_inbound_mailbox.go`, `agent_stop.go`, `steering.go`, `agent_steering.go`, `turn_coord.go`) | mailboxes, active turns, steering queues, pending stops, worker slots | receive, claim, queue, steer, /stop, run, continue, release | one dispatcher and many workers share five maps, each step under a different lock | one worker per session, arrival order, no message lost or handled twice, nothing left claimed |
| Session history of a turn (`pkg/agent/turn_state.go`, `context_legacy.go`, `context_recent_window.go`, `pipeline_setup.go`, `pipeline_finalize.go`) | session transcript, summary, restore point of the turn | capture, project, persist, compact, summarise in the background, abort and restore | summariser, /stop and turn write the same transcript | a stopped turn leaves the transcript as it was, no message is dropped before it is summarised |
| Sub-turns (`pkg/agent/subturn.go`) | parent and children, result channel, concurrency semaphore, contexts | spawn, run, deliver, finish, abort | results race the end of the parent | no more run than there are slots, each slot comes back once, no goroutine waits for ever |
| Message bus (`pkg/bus/bus.go`) | five bounded channels, closed flag, publisher count | publish, publish audio, close, drain | publishers race Close | no send on a closed channel, Close returns, what was accepted is delivered or drained |
| Session store (`pkg/memory/jsonl.go`) | a JSONL file and a metadata file per session | append, truncate, compact, read, crash | two files written in two steps | a crash loses at most the last write; reads never see truncated messages again |
| Cron (`pkg/cron/service.go`, its tool `pkg/tools/cron.go`) | jobs, next run, wake-up channel, file | add, update, enable, remove, run, start, stop | handlers run outside the lock while jobs are edited; a reload makes a second service on the same file | no due time is taken twice, a recurring job keeps a next run, an acknowledged job is in the file, a due job is run |
| Provider fallback (`pkg/providers`: cooldown, fallback chain, rate limiter) | failure counts, cooldown deadlines, tokens | select candidate, mark failure or success | time, concurrent calls | back-off grows and is capped, a disabled provider is not called |
| Event bus (`pkg/events`) | subscriptions, counters | subscribe, publish, close | slow subscribers, back pressure policies | an event is delivered or counted as dropped |
| PID file (`pkg/pid`) | PID record, token | write, read, remove | two gateways start at once, stale files | one live gateway |
| Media store (`pkg/media`) | references, scopes | store, resolve, release, clean up | clean-up races readers | a live reference resolves |
| Channel manager (`pkg/channels/manager.go`) | channel instances, workers and queues per channel, dispatch contexts, placeholders, typing indicators | start, dispatch, send with retry, reload, register and unregister, stop | a reload replaces channels while messages are sent, and finishes in a goroutine of its own | per channel the order of the bus and no message twice, a started channel is served, a reload spares the others and ends |
| Gateway supervision (`core/src/web/backend/api/gateway.go`, `gateway_config_restart.go`, `gateway_idle_bridge.go`) | the tracked process, its status, token and configuration signature; the parked change; the list of joined restarts | save and apply, park, supervise, notify, restart, start, stop, poll | every look at the process is stale at once; saves, orders and a supervisor overlap | no work is cut short by a saved configuration, who joined a restart is answered, a stale configuration shows, a parked change is settled |
| Gateway (`pkg/gateway`), health, heartbeat, state, config, auth, credentials | services, reload flag, files | reload, probe, save | configuration reload | a reload keeps either the old or the new services |
| Tools (`pkg/tools`), skills, MCP, evolution, seahorse, audio, devices, isolation | per tool | per tool | external processes | - |
| Flutter app (`src/lib`), Android service (`src/android`), release tooling (`src/tool`), runtime scripts (`src/runtime`), web frontend | UI and process state | start, stop, watch | Android kills processes | - |

How they interact: channels publish inbound messages on the bus; the dispatcher
takes them, resolves the session, and a worker runs the turn, which reads and
writes the session store through the context manager, calls the provider chain,
may spawn sub-turns, and publishes the answer on the bus for the channel
manager. Cron and heartbeat inject messages the same way. Events of the turn go
to the event bus.

## 2. Plan

Done, in this order: `SessionDispatch`, `SessionHistory`, `SubTurn`,
`MessageBus` (with the abstract `MessageStreams`), `JsonlStore`, `CronService`,
`ChannelWorkers`, `GatewaySupervision`, and the proofs section 6 lists (`SessionDispatchProofs`,
`SessionHistoryProofs`, `SubTurnProofs`, `MessageBusProofs`, `JsonlStoreProofs`,
`CronServiceProofs`, `ChannelWorkersProofs`, `GatewaySupervisionProofs`).

| Open module | What it is for | Abstract specification | Runs and bounds |
|---|---|---|---|
| `ProviderChain` (`pkg/providers/cooldown.go`, fallback and rate limiter) | `cooldown.go:95` may shorten an earned cooldown against its comment; a late `MarkSuccess` ends a cooldown a newer failure started | a provider is not asked before its deadline | 2 providers, 2 callers, time to 6 |
| `AnswerDelivery` (`preSend` and the placeholders of `pkg/channels/manager.go`) | a typing indicator or placeholder edited by a late tool result after the answer | one final answer per turn | 2 answers, 1 placeholder |
| `EventBus`, `PidFile`, `MediaStore` | slow subscribers under three policies; two processes that start at once; clean-up next to readers | an event is delivered or counted | 2 to 3 actors each |
| `JsonlStore` with two stores on one directory | a reload builds a second `JSONLStore` with locks of its own (`agent.go:457`) while turns of the first still run | - | 2 stores, 2 callers |

Composition: `MessageStreams` is the interface `ChannelWorkers` and
`SessionDispatch` read from; `SessionHistory` takes each store call as atomic,
which `SessionsExclusive` of `JsonlStore` justifies; the stops and starts of
`CronService` are those of a gateway that `GatewaySupervision` restarts or that
reloads.

## 3. The modules

An action stands for one critical section, one store write, or one send of the
code. The comment in front of it names the function. Every module that TLC runs
has an `MC...` module with the values of its function-valued constants.

### SessionDispatch

One main goroutine (`AgentLoop.Run`) and one worker goroutine per claimed
session. A worker is named by the message that spawned it, so `pc[w]` is the
line a worker is at and `cur[w]` the message it serves.

| State | Code |
|---|---|
| `mailbox` | `sessionMailboxes`: owner and queued messages |
| `active` | `activeTurnStates`: nothing, `pendingTurnPlaceholder`, or a turn |
| `steering` | `steeringQueue.queues` |
| `pendingStop`, `abort` | `pendingStops`, `turnState.hardAbort` |
| `dpc`, `dmsg`, `dcleared` | where the dispatcher is inside `Run` or `tryHandleStopCommand` |
| `fate`, `killer`, `log`, `begun` | history variables for the properties |

`Receive` is one look of `claimSessionMailboxPosition` under its lock. The
placeholder is stored in a step of its own (`SpawnWorker`), which is where the
races are. A `/stop` is six steps, since each of its looks at the active turn
uses another lock. A worker runs `CheckPendingStop`, then a command or a turn,
then `drainQueuedSteeringContinuations`, then `takeNextSessionMessage`, and
leaves through its three deferred functions in their order: slot, safety net,
mailbox.

Not modelled: `Steer`, `InjectFollowUp` and `InterruptGraceful`, which nothing
but tests calls; the manual steering scope; a system
message that is routed to the key of a live session; the `Load` and `Delete` of
`releaseSessionTurnState` are one step; a session keeps one channel. A `/stop` that
reaches a worker as a command (`RunCommand`) is one step, unlike the one the
dispatcher handles, and it does not panic.

### SessionHistory

One session: the turn, the background summariser, and `HardAbort` on behalf of
`/stop`. `history` and `summary` are the store; `restore`, `initial` and
`persisted` are the fields of `turnState` that a rollback uses. A message is its
turn, its number and its role; the summary is the set of messages it was written
from (`covers`) and the set a note in it only mentions (`drops`: what
`forceCompression` cut off, and oversized messages). Tool results are in neither,
as `summarizeSession` leaves them out. Token budgets are a choice of
the environment (`Compresses` says where); counts of messages are exact, since
the cuts depend on them. `findSafeBoundary`, `projectRecentHistory`,
`forceCompression` and `matchingTurnMessageTail` are operators. Every write of the
store is a step: the note and the cut of a compression, the summary and the
truncation of the summariser, the two halves of a restore. The history variable
`marks` says what a compaction did under a turn: it came at all (`short`), took
messages of the turn itself (`own`), came in the middle of its rollback (`back`).

`Overlaps` names the goroutines of an earlier turn that may still run when the
next turn starts. It is empty in `history_turns` and the summariser in
`history_overlap`.

Not modelled: message contents, media, the exact facts carried between
summaries, the retry of a compression within one call (once per turn), and more
than one oversized message in a cut. Reading the history and the summary, where the
code does it in two calls, is one step.

### SubTurn

Turn 0 is the root turn, the others are numbered as `generateSubTurnID` names
them. `phase` is where the goroutine of a turn is, `sem` the number of values in
its `concurrencySem`, `acquired` the sub-turns whose flag `semAcquired` is set,
`pending` the number of results in `pendingResults`, `finished` is `isFinished`. A
spawn takes a slot, validates, runs, releases, delivers, returns; a panic goes
through the deferred functions in their order, delivery before release, and a
refusal through the deferred release alone. The semaphore counts values, not
owners, as the channel of the code does, so that a slot given back twice shows. The root
turn has neither slots nor a channel nor the `al` field: `newTurnState` leaves
them nil and the root turn is not spawned.

Not modelled: the ad-hoc root turn of `agent_init.go:319-326`, the content
of a result, which result is where, and the return value and callback that carry
one besides the channel. A sub-turn that times out is `EndTurn`.

### MessageBus and MessageStreams

Every message is one call of `publish` in its own goroutine. `call` is where it
is, `wg` the calls between `wg.Add` and `wg.Done`, `stage` the progress of
`Close`. A send on a closed channel is modelled as what Go does, a panic, so
that `NoSendOnClosed` is about the code and not about a guard. `MessageStreams`
is the promise to callers; `ImplementsStreams` maps `queue`, the sent calls, and
"`Close` has waited for the publishers" to it.

Over-approximated: the order in which `Close` closes the channels. The gateway
calls `Close` before the agent loop stops, so buffered inbound messages are then
drained and lost; the abstract `Discard` says so.

### JsonlStore

`lines` and `ended` are the `.jsonl` file, `skip` and `summary` the metadata.
`call` is the operation each goroutine is inside, `lock` the sharded mutexes.
Every action ends with at most one write, so `Crash` between two actions is a
crash between two writes. `AddMessageBreaks` covers a write that stops anywhere
in the line; `AtomicWriteFails` a `WriteFileAtomic` that returns an error.
History variables: `kept` (acknowledged and not dropped), `forgotten` (dropped
by a caller), `swallowed` (written behind a torn line), `taint` (why a session
may show other messages: from the first write of a promotion over an offset on it
is `promoting`, until the second write, or a rollback, which brings the state of
before the promotion back).

Not modelled: lines longer than `maxLineSize` (10 MB), which `addMsg` accepts and
`readMessages` then fails on; timestamps, `meta.Count`, scope and alias lists in the metadata,
`ResolveSessionKey` (it reads without locks), the aliases of main sessions, and
a power failure after an unreported `fsync` error.

### CronService

A configuration reload makes a new service on the same file while the loop of the
old one still runs the jobs it has taken, so services are numbered and `mem`,
`loop`, `wake` and `batch` are per service. `disk` is `jobs.json`. `Check` is
`checkJobs`, which clears the due times and saves before any handler runs, and
`RunJob` is `executeJobByID` of the first job taken, at the return of its
handler. `notify` succeeds only at `select`: `LoopCompute` and `LoopWait` are
apart, which is where a wake-up is lost. `GetJob` and `UpdateJob` are two steps,
as the tool edits a copy. Every save may fail, and `Crash` ends the process
between any two steps. History variables: `taken` and `again` (due times a loop
took), `torn` (jobs whose next run came from an old copy), `acked` (jobs `AddJob`
reported), `clobbered` (a stopped service has written the file).

A cron expression behaves as a period, the kind `every`. Delays and periods are
any numbers; 0 stands for a schedule without a next run, for which `computeNextRun`
returns nil and which the tool and `AddJob` accept: `every_seconds` or `at_seconds`
below one (`tools/cron.go:194-205`), or an expression that does not parse. Not modelled: the edits of the
`picoclaw cron` command, which is another process on the same file, and the
contents of a job.

### ChannelWorkers

`bus` is the outbound stream; a dispatcher takes a message, looks the worker up
under the lock and sends to its queue without it; a worker sends the messages of
its queue through its channel. A `Reload` is six kinds of step under the lock, one per
channel it stops, releases, builds or starts, and leaves `deferFuncs` in `late`
to a goroutine that takes the lock again for each. Contexts are numbered by the
`Reload` that made them: `task` is the one `StopAll` will cancel, which shows
that a `Reload` replaces it without cancelling it. A send on a closed queue is
what Go does, a panic that ends the process (`crashed`); the close of a closed
queue in a deferred function is recovered there. `shaky` names the channels
whose registration is no longer in order, by one of the two ways of section 5.

Not modelled: media messages, whose dispatcher and workers are copies of the ones
here; `SendMessage` and `SendMedia`; rate limits and splitting; the retry loop of a
send (`manager.go:1833-1875`), which is one attempt that ends one way or the other, so
that a platform that got a message and answered with an error may get it again is not
seen; placeholders and `preSend`; HTTP routes.

### GatewaySupervision

A call is a goroutine of the launcher that may end in a restart: the request of
the Telegram form, which asks once whether the gateway is idle, the other saving
requests, which wait for it, the supervisor of a parked change, the apply a
notification starts, and the user's restart. `call` is where each one is and what
it remembers; `saw` is what it last learned of the gateway and `asked` the turns
begun until then. `gw` is the launcher's own view: process, status, signature.
`proc` is the truth: a process reads its configuration, takes the port, writes its
record, runs turns, ends. Every probe may fail to be answered (`Answers`), and a
record of a process the launcher did not spawn may be refused (`PidReads`).

Merged steps: the consecutive critical sections of `Park`, `Report` and
`Prepare`, which no other goroutine can tell apart but by the order of two
indicator reads; the removal of a record and the exit behind it. Bounded or left
out: one notified apply at a time; the clean-up of a stale record; a restart of
the launcher; PID reuse, and with it the refusal to signal a process that is no
gateway (`gateway.go:1524-1534`); the Windows branches; the log buffer; the PocketClaw
channel's token.

## 4. What is checked

| Run | Instance | Distinct states | Question |
|---|---|---|---|
| `dispatch_telegram` | 4 messages, 2 Telegram sessions, 1 slot, a command, fair | 125,697 | order, loss, residue, progress with the pool at its limit |
| `dispatch_stops` | 4 messages, a Telegram session with a `/stop` and a session of another channel, 2 slots, shutdown | 2,357,026 | one worker per session, the turn reachable, the owner alive |
| `dispatch_steering` | 3 messages of a steering session with a command and a `/stop`, queue of 1, a system message | 44,935 | nothing handled twice |
| `dispatch_overlap` | 3 messages of one steering session | violation | two turns of one session |
| `history_turns` | 2 turns of up to 5 messages, threshold 3, tail 2, batch 3, both compressions, a `/stop` per turn | 795,397 | order, what an abort leaves, what a rollback spares, tool calls whole |
| `history_overlap` | 2 turns of up to 5 messages, threshold 3, tail 4 and batch 10 as in the code, the summariser next to the second turn | violation | a count used after an LLM call |
| `subturn_pool` | 4 sub-turns, depth 2, 1 slot and 1 place per turn, panics, abort, fair | 274,318 | slots, release of a blocked caller |
| `bus_close` | 5 publishers, 2 channels of capacity 1, 2 callers of `Close`, fair | 320,112 | close and refinement |
| `store_crashes` | 2 goroutines, a session and its legacy key, 2 messages, 2 failed writes, 1 crash | 2,363,604 | durability and exclusion |
| `cron_jobs` | 2 jobs, 2 services (one reload or crash), 1 edit in two steps, delays and periods of 0 and 1, no job at first, or one, which may be due later than an hour, failing saves, 3 ticks and an hour of 1, fair | 516,599 | no second run of a due time, no dead recurring job, no acknowledged job lost, no due job forgotten |
| `channel_reload` | 2 channels, 1 of them changed or removed by up to 2 reloads, factories and starts that fail, 2 messages, queues of 1, a shutdown, fair | 459,035 | order, registration, isolation and end of a reload |
| `gateway_config` | 3 processes, 1 turn, 2 saves or orders, 2 attempts of the supervisor, 1 repeated poll, a gateway adopted at first or none, fair | 394,471 | joined restarts, spared work, shown staleness, settled changes |

Why the bounds are enough. Every queue, pool and channel is bounded by one or
two places, so that it is full after one or two steps and both outcomes of every
bound occur. Two sessions suffice for the slot pool, since a worker touches no
state of another session but the pool. Three messages of one session give a
running message, one behind it and one that arrives in the handover; four are
needed for the pool to be full meanwhile. Two turns give a finished turn and a
stopped one on top of it; with a tail of 2 and a threshold of 3 a summary, a
compression before a turn and one in the middle of it all happen under both. With
three turns the four properties of `history_turns` hold as well (9,061,441 states
with one compression and turns of 5, 16,919,662 with both and turns of 4, both with
stops), beyond what is run every time. Depth
two is the least at which a sub-turn has slots and a channel of its own. Two
messages give the store an order, an offset between them, and a torn line in
front of a whole one. Two cron services are one that was stopped and its
successor; the second job is the one an edit adds next to one in progress; the
edits end a tick before the clock does, so that a job made due by the last of them
is still due in time; the job that is due later than an hour makes the loop sleep past one. Two reloads are needed for a context that nobody
cancels any more, four instances for a channel to be replaced twice next to one
that stays. Two saves or orders are what it takes to join a restart, to park a
change over a parked one, or to order something while one is under way; the third
process is the successor of a successor; a second attempt of the supervisor is
one that follows a failed one.

`CHECK_DEADLOCK FALSE` stands only where the bounded program ends: all turns
taken, all calls returned. The dispatcher has `Idle` instead, so that
any other halt of it is an error.

Fairness, and what in the code gives it:

- `SessionDispatch`: the Go runtime runs every goroutine that can run, and
  providers and tools have timeouts, so weak fairness of the dispatcher and of
  each worker. `AcquireSlot` needs strong fairness, as a slot is free only now
  and then: senders that wait on a Go channel are served first come first
  served.
- `SubTurn`: a turn ends (its own timeout, `MaxIterations`), a wait for a slot
  ends (`concurrencyTimeout`). Polling is not assumed: a blocked caller never
  polls.
- `MessageBus`: the publishers, the closer and `wg.Done`. Neither consumers nor
  the contexts of callers are relied on.
- `CronService`: time passes, and the loop of each service goes on: a handler
  returns, as the agent call behind it has a time-out. Nobody has to edit, and a
  stopped service may stay stopped.
- `ChannelWorkers`: each dispatcher, each worker, the `Reload` or `StopAll` in
  progress and each deferred goroutine go on, as sends have a time-out. Weak fairness of
  a dispatcher or a goroutine that waits for the lock is enough: with finitely
  many reloads the lock is free from some time on.
- `GatewaySupervision`: each call goes on; its waits are polls with a deadline.
  The gateway is not assumed to answer, to become idle, to start or to end.
- `SessionHistory` and `JsonlStore` have safety properties only.

Each property of a passing run has a mutant: an operator next to the one it
replaces, marked "Mutant:", which is how a slip in that code would look. The
property fails on it under the same configuration.

## 5. Where the code departs from what is written about it

With a run that shows it:

- `history_overlap`: `summarizeSession` truncates by a count taken before its LLM
  call (`context_legacy.go:223` and `:296`); what the next turn appended meanwhile
  pushes messages out that the summary was not written from.
  `context_recent_window.go:131-136` says that the history left is exactly what the
  summary does not cover.
- `dispatch_overlap`: a steering message that lands between `clearActiveTurn`
  and the drain replaces the mailbox of a live worker
  (`agent_inbound_mailbox.go:61`). `docs/architecture/steering.md:182` promises
  that messages of a session are serialized. A Telegram chat is
  not affected, nor is any other session that lines up (theorem `LinedSerialized`).

Without a run, seen while modelling; the constants to see them with are given
where there are any:

- Dispatcher. A turn that ends in an error does not drain the steering queue
  (`agent_steering.go:25`); messages already queued there stay until the next
  message of the session. A pending stop is stored after the look that justifies
  it (`agent_stop.go:44`) and may cancel a later message
  (`StopSparesLaterMessages`). A worker that ends on a pending stop drops the
  messages of its mailbox (`agent.go:329`): `NothingDropped` with a `/stop`.
- History; the numbers are `TurnMax`, `PersistMax`, `Threshold`, `KeepTail`, `BatchMax`,
  `Window`. `NothingForgotten` has two more violations, without any overlap and stop:
  with two batches the previous summary is not folded in (`context_legacy.go:252-274`
  against `context_recent_window.go:150`; 3, 5, 3, 2, 10, 0), and a window starts the
  summariser next to the very turn that set it off (`context_legacy.go:296`;
  3, 5, 4, 2, 10, 2). With one batch and no window (3, 5, 3, 4, 10, 0, both compressions)
  it holds in 3,026,517 states. `AbortKeepsTranscript`: the restore point is the projected history
  (`pipeline_setup.go:33` against `context_recent_window.go:177-179`; 3, 4, 5, 2, 10, 2
  with `MayStop`, a trace of 28 states). `MayStop` violates `StopForgetsTurn`:
  `Finalize` does not look at the abort flag (`pipeline_finalize.go:51`), and the
  back-off sleep does not set it (`pipeline_llm.go:434`).
  `Compresses = {"llm"}` violates `ActiveTurnWhole`: the compression of a single
  turn keeps its user message only (`context_legacy.go:171` against
  `context_recovery.go:190-192`). After a compaction under a turn the length
  `HardAbort` uses is that of a longer transcript (`turn_state.go:287`,
  `steering.go:545`), so that it may leave messages of the turn (`Marked(t, "own")`
  is what `AbortForgetsTurn` and `StopKeepsFinished` exempt); with
  `Overlaps = {"summariser"}` `StopKeepsFinished` and `ToolCallsWhole` fail as well,
  `HistoryOrdered` and `AbortForgetsTurn` do not (5,703,262 states).
- Sub-turns. `Finish` cascades only if `al` is set, which it is not on a root turn
  (`turn_state.go:846` against `subturn.md:110`): an aborted root turn leaves its
  grandchildren running. The 17th undelivered result of a sub-turn that ended normally keeps
  its goroutine: nobody reads the channel and `Finish(false)` is never called
  (`subturn.go:573-585`). Asynchronous results of children of the root turn are
  always orphans. There is no last poll (`subturn.md:132`), and a full channel
  makes the child wait (`subturn.md:240` calls such a result an orphan). A panicked
  sub-turn delivers nil while it holds its slot.
- Store. `PromoteAliasHistory` brings a legacy history back after `/clear`
  (`jsonl.go:401`). The first message appended behind a torn line shares that line and is
  lost, although it is acknowledged (`jsonl.go:60-63`,
  `docs/architecture/session-system.md:184-190`): `swallowed`. A promotion is two
  writes (`jsonl.go:230` says "atomically"): a crash between them leaves an older
  offset over the promoted lines, and a later `Compact` deletes what it hides:
  taint `promoting`. `lockSessionPair` orders by key, not by shard
  (`jsonl.go:363`): two promotions whose keys hash crosswise wait for each other;
  TLC reports the deadlock with four keys, `ShardOf` 1 and 4 to one shard, 2 and
  3 to the other, and 1, 3 the aliases of 2, 4. A line above 10 MB is accepted and
  fails every later read of the session (`jsonl.go:527`). `Compact` returns at once with an
  offset of 0, so that corrupt lines stay. `AddMessage` may report an error for a
  line that is in the file.
- Cron. An update that stores an old copy (`service.go:480`) may bring a due time
  back that was taken meanwhile, so that a recurring job runs twice, or an empty
  one, so that it has no next run until the next start: `torn`. A one-time job
  that is given a new time while its handler runs is disabled or deleted by the
  end of the run. A service that was stopped, and is still in a handler, saves
  its own jobs over those of its successor: `clobbered`. A lost wake-up
  (`service.go:340`) makes a job late until the next run the loop knew, however far
  that is (`service.go:141-151`), or by an hour if it knew none. `AddJob` reports success
  for jobs that never run: less than one in `every_seconds` or `at_seconds`
  (`tools/cron.go:194-205`), an expression that does not parse. A one-time job whose
  cleared due time was saved when the process died (`service.go:202`) never runs.
- Channels. A channel that is enabled without an instance, because its factory
  failed, and is then changed is unregistered late although it is replaced
  (`manager.go:2302-2312`), which takes the new worker down again; the comment in
  front of it (`manager.go:2280-2287`) says that this must not happen. A `Reload` that
  begins while the goroutine of an earlier one has work left may register a
  stopped instance again. Both are `shaky`. `UnregisterChannel` closes a queue that
  the dispatcher may have looked up: the send panics and ends the process
  (`crashed`). `StopAll` cancels the workers' context before it waits "for them
  to drain" (`manager.go:1644`), so that what is queued is dropped; after a `Reload`
  has replaced `dispatchTask` the context of the first workers is nobody's to cancel.
- Supervision. `android_bridge.go:434` says that a stopped gateway is left to its
  next start: `gatewayIdleNow` is true of a stopped gateway, so the save starts it;
  the supervisor of a parked change starts a gateway that its user has stopped. A
  gateway that serves while the launcher still shows `starting`, `restarting` or
  `error` counts as not running, and a change may cut its turn short, against
  `gateway_config_restart.go:392`; `WorkSpared` is about the others, and only about
  turns that had begun at the probe. A change that is parked between the last look of a
  supervisor and its deferred `supervised = false` has no supervisor:
  `ParkedSettles` starts inside the loop. A save that joins a restart whose
  gateway has already read its configuration is told that it is live, against
  `gateway_config_restart.go:304`; the restart indicator still shows it
  (`StaleShown`). Adopting a running gateway, by a start or a status poll, takes the signature
  of the configuration on disk and hides a stale one. The one `applying` flag is cleared
  by the first of two applies. A start during a stop adopts the process that is going; of
  two starts the one that loses the port ends, but the other's notification is
  refused from then on (`gateway.go:1536`).
- Reload of the gateway process (`pkg/gateway/gateway.go:225-335`, not modelled). A
  configuration saved while another is buffered is not looked at before the next
  change, and one that was loaded before a manual reload may be applied after it.

## 6. What is proved

Each `*Proofs` module extends its component. The assumptions are those named in
the component (`DispatchConstants`, `HistoryConstants`, `SubTurnConstants`,
`BusConstants`, `StoreConstants`, `CronConstants`, `ChannelConstants`,
`GatewayConstants`); no bound on the number of messages, turns, sessions, callers,
jobs, services, channels, reloads, processes or places is used. A theorem that needs
more says so in an `ASSUME` of its own; those hypotheses are named below.

- `SessionDispatchProofs`. `TypeCorrect`: `TypeOK` is inductive; it says with the
  types that the dispatcher has a message exactly while it handles one, without
  which `Key(dmsg)` means nothing. `OwnerAliveCorrect`: inductive with `TypeOK`;
  the two steps that matter are the end of a worker, which gives its own mailbox
  up, and the spawn, which makes the pending owner live. `NoResidueCorrect`: by
  `EntryInv` an entry is a turn whose worker is inside it, or a placeholder whose
  worker has its safety net still ahead, and by `UnownedGone` a mailbox without an
  owner was deleted whole. `HandledOnceCorrect`: `PlaceInv` says of every message
  where it may be (`QueuesInv`: mailboxes and steering queues hold each message
  once and keep apart; `HandsInv`: what a worker or the dispatcher has in hand is in
  no queue; `GoneInv`: what was merged, cleared or rejected is nowhere). None of
  these four has a hypothesis.

  The others hold session by session. A session is `Lined` if none of its messages
  steers, or it has just the one, and `Calm` if all its messages wait in line and
  none is a `/stop`; the theorems are about any set L of such sessions, whatever the
  other sessions of the system do. `OwningInv(L)`: a worker that serves owns its
  mailbox, because a claim of a lined session finds no owner (`ClaimsUnowned`).
  `LinedSerialized` follows, as a mailbox has one owner, and `LinedTurnReachable`: a
  worker that shares the session of a running turn owns no mailbox, and such a worker
  only takes placeholders away. `LinedInOrder` by `OrderInv(L)`: what waits was
  received after everything its session has begun, and in the order of its queue.
  `CalmNothingDropped` by `Unstopped(L)` and `HeldInv(L)`: until the shutdown a message
  that is held is in a hand or in a mailbox, and a worker that ends has no mailbox
  left. `SessionsSerializedCorrect`, `TurnReachableCorrect`, `ArrivalOrderCorrect` and
  `NothingDroppedCorrect` are the case L = `Sessions`. The hypotheses are needed:
  `dispatch_overlap` shows a session that is not lined, and section 5 names the drops
  of a `/stop`. The runs `dispatch_telegram` and `dispatch_stops` satisfy them.
- `SessionHistoryProofs`. `TypeInv` is `TypeOK` with the room a turn has left
  (`RoomInv`). `OrderInv` says that the transcript and every copy of it that a
  goroutine may put back (the restore point, what a compression and a stop have read)
  is in the order of writing and older than the next message; every write is an
  append to the transcript or a piece of a copy, and `HistoryOrderedCorrect` follows
  without a hypothesis.

  `AbortForgetsTurnCorrect` has one hypothesis, that no turn begins before the
  `HardAbort` of the last one is done; compactions, windows and summarisers of earlier
  turns are all admitted. By `MineInv` the messages of the running turn are those it
  has recorded, and its own stand at the end of the transcript, unmixed, unless marked; `OldInv` says that the
  restore point holds none of them, `TailInv` that `matchingTurnMessageTail`, which
  compares messages, finds all that are left after a compression, and
  `LengthInv` that the length `HardAbort` has kept cuts them off, unless a
  compaction came under the turn, which `marks` then shows (`MarksInv`, `OutcomeInv`,
  `EmptyInv`). The invariant is needed because each rollback alone may be undone by
  what another goroutine writes after it.

  `ToolCallsWholeCorrect` has the hypothesis `OneWriter`: no window, and no turn
  before the summariser of the last one is done. `WholeInv` follows the pairs of call
  and result, and `CutInv` says what a cut that is still to be made will keep. Where
  a cut falls is a choice of a boundary, the last or the first of a set of numbers,
  so the lemmas about it use least elements and need no induction. `history_turns`
  satisfies both hypotheses.
- `SubTurnProofs`. `TreeInv` is `TypeOK` with: turns not named yet are unused,
  a child is one level below its parent, and whoever runs is within the depth
  limit; the depth bound in `TypeOK` is not inductive without the levels.
  `SlotInv` on top of it: the semaphore of a turn holds as many values as children
  occupy a slot (`SlotsReturned`), the flags that are set are those of the occupants
  whose parent has slots (`FlagsRight`), and a panic leaves at once
  (`PanickedLeave`). A step changes the count and the set of occupants together, so the
  proof is about cardinalities of sets with one element more or less.
  `SlotsReturnedCorrect` is its first part, and `SlotsBoundedCorrect` follows, as
  who runs under a turn occupies one of its slots.
- `MessageBusProofs`. `BusInv` relates calls inside to `wg`, and the channels to
  the stage: before `closing` all are live, and from `closing` on nobody is
  inside. `NoSendOnClosedCorrect` and `CloseIsCompleteCorrect` follow, and
  `StreamsImplemented` maps each step to a step of `MessageStreams` or a stutter.
- `JsonlStoreProofs`. `StoreInv` has three parts. `LockInv`: calls have the fields of
  a call, a mutex that is held belongs to a call in progress on a session of that
  shard, and a call inside holds the mutexes of both of its sessions.
  `SessionsExclusiveCorrect` follows from the last part (two calls inside on one
  session would hold one mutex), `NoLockLeakedCorrect` is the second. `TypeInv`: a
  file that does not end where it should has a last line, which a broken append
  needs. `DataInv` says what a file and its offset promise between any two writes
  (`FileInv`), and what a call in the middle of a rewrite or of a promotion knows
  about them (`RewriteInv`, `RestoreInv`: the file a rollback restores showed nothing,
  and nothing was awaited). A count of messages behind an offset is
  a choice of the line where it is reached, so that `TruncateExactCorrect` is
  about least elements of a set of line numbers; `NothingLostCorrect` and
  `NothingReturnsCorrect` follow from `DataInv`. No theorem here has a hypothesis.
- `CronServiceProofs`. `StoresInv` types the stores; with `CountsInv`, which does so for
  services and clock, it gives `TypeCorrect`, under any delays and periods.
  `JobsKeptCorrect` follows the acknowledged jobs through
  every save. `LoopsInv`: a loop holds taken jobs only while it
  runs them, and a service that was not made has no loop. `JobMoves` is the lemma the other two
  theorems share: a step leaves a job alone, takes it, gives it a next run after the
  clock, or makes it `torn`. `RecurringAliveCorrect` uses it with the batch,
  `DueTimesTakenOnceCorrect` with `TakenInv`: the last due time taken of a job is
  not later than the clock and lies before its next run.
- `ChannelWorkersProofs`. `SparesInv`: until `StopAll` no context is cancelled, hence no
  message ends by a context and no dispatcher stops, whichever channels a `Reload`
  replaces. `ReloadSparesOthersCorrect` follows. `RegistryInv` relates the channels, their
  workers, the configurations and the entries that are left to a `Reload` and its
  goroutines: an instance has one name, a name without a configuration has nothing
  registered unless it is still to be done, and a name that is started has an open
  worker of its instance (`ServedInv`, `ListedInv`: `StartedIsServedCorrect`).
  `TrafficInv` follows the messages through it: there is one dispatcher, what it has
  passed on is older than what it has; the messages of a name are with the worker
  that is registered for it or were sent, because a replacement is registered only
  after the old worker has sent all it had. `OrderedOnceCorrect` follows.
- `GatewaySupervisionProofs`. `CallInv` says what a goroutine inside a call knows at each
  of its places. `WorkInv`: a restart is marked as running exactly while one call is at
  work, and its waiters are the calls that joined; `WaitersAnsweredCorrect` follows.
  `SignatureInv`, on which `StaleShownCorrect` rests: the signature the launcher
  remembers is not newer than the configuration its process has read. `OneHolder`: one
  process at a time has the port, and only that one runs a turn; with it `SparedInv`
  says that every running turn began after the answer a call is about to act on, which
  gives the action property `WorkSparedCorrect`.

These theorems state formulas that no run lists: `TypeCorrect` of every module,
`LinedSerialized`, `LinedTurnReachable`, `LinedInOrder` and `CalmNothingDropped`.

Only model-checked is what needs fairness or `ENABLED`, which is beyond the prover:
`EveryMessageSettled`, `CallerReleased`, `ReconcileEnds`, `EveryMessageEnds`,
`ParkedSettles`, `DueJobsRun` and `CloseReturns`; and the action property
`StopKeepsFinished`, whose invariant would have to follow the summary through every
rollback. Every other invariant and action
property of a passing run is a theorem, under the hypotheses named above where there
are any.

## 7. What is not modelled

The components marked `not_modelled` in `PROJECT.json`, each with its reason:
external processes and protocols (MCP, channels' transports, audio, devices),
user interface (the Flutter app and the web frontend), build and release tooling,
and the parts of section 2 that are still planned.

Of the components that are modelled in part, what is left out is named under each
module in section 3. The largest such parts: the turn pipeline is a turn that polls,
answers, fails or is aborted, without its hooks, tools and provider calls; the provider
fallback with its cooldowns is not a module yet; of the channel manager the media
stream and its workers, which have the form of the text stream, `SendMessage` and the
placeholders of `preSend`; of the launcher the PID record is what `PidReads` lets a
poll see; the reload of the gateway process appears through its parts (`CronService`,
`ChannelWorkers`), not as one module.

The specifications cover a small share of the lines of the repository: most of those
lines are sequential (parsing, formatting, provider and channel protocols, tools,
configuration), where a test reaches what a model would say.
