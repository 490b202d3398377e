# A verification of Anvio's turn handling

Anvio runs agents behind chat channels, a gateway daemon and an API. This directory holds TLA+ models of
the parts of it whose correctness depends on the order in which things happen, TLC runs over small
instances, and TLAPS proofs for every value of the constants. Paths below are relative to `src/packages`
unless they start with `docs/` or `apps/`. `PROJECT.json` maps each definition to its source lines.

## 1. Inventory

The system is one Node process (the gateway) by default: one event loop, JSON and Markdown files for
state, an in-process event bus. NATS, SQLite, PostgreSQL and Redis are options. "Concurrent" here means
handlers that interleave at `await`, timers that fire in between, and a process that dies and restarts.

| Component | State it keeps | Operations | Interacts with |
|---|---|---|---|
| Turn queue (`core/src/concurrency.ts`, `runSerialized`) | tail promise per session; slots in use; waiters | run, acquire, release, isBusy | publishers of run requests, the worker |
| Gateway worker (`platform/src/gateway-worker.ts`) | none of its own; writes the session | run consumer, decision consumer, stop consumer, repair on start | bus, session store, runtime, harness, channels |
| Approval gate (`harness/src/approval-gate.ts`, `gateway.ts`) | pending requests, timers, waiters | requestApproval, waitFor, resolve, timeout, rehydrate | channels, session store, vendor runtimes |
| Agent runtime (`agents/src/runtime.ts`, `tool-round.ts`, `run-checkpoint.ts`) | active run per session; checkpoint in the session's metadata; short-term history | stream, stop, pause, resume | model router, tool port, memory |
| Orchestrator (`agents/src/orchestrator.ts`, `task-planner.ts`) | where each task of a plan is; sets of completed, failed and skipped tasks | execute, run a task, retry, skip, abort, synthesise | runtime, bus |
| Session store (`workspace/src/index.ts`) | a JSON record per session | get, update (read, merge, write) | nearly everything |
| Event bus (`events/src`) | subscriptions; durable consumers with NATS | publish, subscribe, ack | everything in the gateway |
| Model router and circuit breaker (`models/src`) | a slot per provider; budget | chat, stream, fallback chain | credential pools, runtime |
| Runtimes (`runtimes/src`) | vendor process per turn | stream, stop | approval gate (blocking) |
| Channels (`channels/src`) | connection per adapter | inbound, send, buttons, /reset | harness, bus |
| Batch engine (`batch/src`) | item records and a status in files; cancelled jobs in memory | run, resume, cancel, workers with retries | blueprint runner |
| Automation engine (`automation/src`) | `lastRunAt` of each automation in a file; a timer | tick, run, record | bus, agents, goals |
| MCP (`integrations/src/mcp-bridge.ts`, `mcp-stdio-client.ts`) | a client per server: process, pending requests, restarts | call, start, respawn, invalidate, close | server processes, tools |
| Workflows, kanban, goals, credential pools | files with runs, tasks, pools | run, move, acquire | runtime, bus |

All other packages (souls, personas, skills, knowledge, blueprints, voice, storage, auth, ...) are listed in
`PROJECT.json` with the reason they are left out: parsing, wiring or I/O without a protocol of their own.

**What is hard.** Two turns of one session that overlap lose history. A publisher may be parked behind the
turn that needs it. A turn can pause (local runtime: checkpoint, return, resume by a second run request) or
block (vendor runtime: the call stays open), while messages, button presses, typed answers, timeouts, stop
requests, `/reset` and crashes all write the same session record. Most writers read the session, await
something, and write back what they read.

**What makes each component correct.**
Turn queue: no overlap per session, arrival order, slots exact, nobody starves, no self-deadlock of a
publisher. Worker and gate: a session's status tells the truth once the code is quiet; a paused turn can
be resumed; a blocked turn can be woken and is not run twice; a decision reaches the pause it was made for;
history only grows by the turn's message. Router: a failing provider is skipped and probed again, one at a
time. Tool loop: every tool call is answered in every conversation, the model is told of what ran, the
budget of iterations survives pauses, a stop finds the turn and ends it. Orchestrator: dependencies first, every task
accounted for, an end to every plan. Batch: no item in two hands, nothing completed is done over, a final
status that fits the items. Automation: no minute swallowed, none run twice by ticks in turn, no automation's failure ends another one's tick. MCP: every
call settles, a process is not left behind by a failure. Kanban, goals, pools: no lost update of a shared file.

## 2. Modules

| Module | Models | Kind |
|---|---|---|
| `TurnScheduler` | what the gateway promises about the order of turns | abstract specification |
| `TurnQueue` | `KeyedSerialQueue`, `Semaphore`, `runSerialized` | detailed specification, implements `TurnScheduler` |
| `MCTurnQueue` | instances for TLC | |
| `TurnQueueProofs` | invariants and refinement, proved | proofs |
| `SessionTurns` | one session: worker, gate, runtime's turn life cycle, everything that disturbs it | specification |
| `MCSessionTurns` | budgets of disturbances for TLC | |
| `SessionTurnsProofs` | type correctness, four invariants, two action properties, proved | proofs |
| `ModelRouter` | the circuit breaker, the walk down a route, chat and stream calls, aborts | specification |
| `MCModelRouter` | routes for TLC | |
| `ModelRouterProofs` | type correctness, four invariants, one action property, proved | proofs |
| `AgentLoop` | the tool loop of one session's turns: model and tool calls, pause and resumption, stop, what is kept | specification |
| `AgentLoopProofs` | type correctness, four invariants, one action property of queued turns, proved | proofs |
| `Orchestrator` | one `execute()` over any plan | specification |
| `OrchestratorProofs` | type correctness, two invariants, three limits of counterexamples, proved | proofs |
| `BatchEngine` | one job, the engines that share its files, their workers | specification |
| `BatchEngineProofs` | type correctness, three invariants and an action property, proved | proofs |
| `Automation` | cron ticks of several processes, runs, `lastRunAt` | specification |
| `AutomationProofs` | type correctness and three action properties, one of them under conditions, proved | proofs |
| `McpClient` | the calls of one MCP server, its client and processes | specification |
| `McpClientProofs` | type correctness and two action properties, proved | proofs |
| `MCAgentLoop`, `MCOrchestrator`, `MCAutomation`, `MCMcpClient` | instances for TLC | |

`TurnQueue` and `SessionTurns` compose by a contract rather than by one large module: `TurnQueue` shows
that turns of a session run one at a time in arrival order (`OneTurnPerSession`, `ArrivalOrder`), and
`SessionTurns` uses that by keeping a queue of requests and at most one current turn. `ModelRouter` stands below
both: a running turn of a local runtime is one of its callers. That a walk down a finite route comes to its end, because each of its targets answers or is given up, is part of what the fairness of turns rests on.
`AgentLoop` looks inside the points `running` and `storing` of a local turn: `StopEndsTurn` is what lets `SessionTurns`
treat a stopped turn as one that ends, and with `Queued = TRUE` its turns start as `TurnQueue` has them start. The other
components run turns through the bus or call tools; the contracts are those an `await` gives: it settles or throws.

### 2.1 TurnQueue

A promise is represented by the request that settles it. `tails` is the map of `KeyedSerialQueue`;
`previous[r]` is the promise r's task was chained to; `stage[r]` says whether the task is chained, waits for
a slot, runs, or ended (`ok`/`failed`: the chain must survive both). `active` and `waiters` are the
semaphore's fields. `publisher[r]` is the caller of `runSerialized`; `needs[p] = r` says turn p
cannot end before the publisher of r is free, the case the comment in `runSerialized` is about. `ticket` and
`arrivals` are history variables. One action per synchronous piece of the code: `Chain` (whole of `run` up
to its return), `Acquire`, `Release` inside `Finish`, `DropTail` (the tail's own callback, which may run
late), `PublisherReturns`.

### 2.2 SessionTurns

State: `session` (status, pendingApproval, checkpoint, inline marker, transcript), `memory` (short-term
history, only the user messages), `gate` (pending and timers), `prompts` (buttons people can press),
`turn` (a program counter `point` plus the local variables of the worker's closure: `stored`, the session it
read at the beginning; `context`; `asked`; `answer`; `aborted`), `orphans` (tool calls that outlive an aborted turn), `decisions`
(decisions on their way, each with the next await of the handler that carries it), `process`.

An action is what the code does between two awaits at which another handler can matter. The order of points:

    idle -> loading -> starting -> running -> storing -> idle             BeginTurn .. WorkerDone
    running -> prompting -> pausing -> announcing -> arming -> idle       local: channel tool asks, turn pauses
    running -> pausing -> ...                                             local: first-call policy asks
    running -> asking -> sending -> blocked -> answered -> running        vendor: requestApprovalAndWait

Abstractions, all on the data side:
- a session exists throughout; one user, one channel; user messages are model values, the assistant's and
  the tools' messages are left out of histories;
- one `SessionStore.update` is one step (a lost update inside the store is a separate question, section 6);
- the time of a timer is nondeterministic: it fires at any moment after it is armed;
- which of several tool calls asks is left open: a turn may ask at any point while it runs. Every tool that returns
  `pending_approval` gives its request's id along (`harness/src/gateway.ts:231`, `integrations/src/mcp-tool-port.ts:50`), so the
  fallback to the id of the call (`agents/src/tool-round.ts:82`) is never taken and a pause always has a fresh id;
- short-term memory has its default window, which is unlimited: a sliding window that drops old messages is left out;
- vendor runtimes keep their own history, so `memory` is not changed by their turns;
- authorisation of an approver is left out: a `Click` is one the gate accepts. A person may press either
  button at any time while the request is pending.

A prompt can fail to be sent in each of the three places that send one: from the worker after a pause (`AnnounceFails`), from the
approval tool, with its turn there or gone (`PromptNotSent`, `OrphanNotSent`), and from `requestApprovalAndWait`
(`PromptInlineNotSent`). The handler of a decision updates the session and publishes the resumed run in two steps (`Apply`,
`Resume`). A turn that has its final answer completes although a stop came meanwhile (`Complete`): the runtime does not look at the signal again.

`Runtime`, `HarnessEnabled`, `TimeoutsOn` and `LocalBus` are the configuration switches that change the
control flow; each run fixes them.

### 2.3 ModelRouter

State: `circuits` (a slot per provider), `call` (per caller: which target of its route it waits for, whether
it relays a stream, whether the caller is gone), the clock `now`; `failedAt` and `probedAt` are history variables. A
caller makes one call after another, so calls started under an older state of a circuit meet newer ones.
One action per outcome of an `await execute(target)`: success (chat, or a primed stream), a terminal error
chunk (which `primeStream` returns like an answer, so the breaker records a success), a terminal throw
(nothing is recorded), a retryable failure. `Walk` is the loop of `walkFallbackChain` up to the next await;
skipping a target changes nothing, so it is one step.
`CallerLeaves` is a stop or the idle timeout of `guardStream`: nobody reads the stream any more and the walk
goes on. What the abort looks like depends on the adapter: `fetch` rejects with the signal's reason
(OpenAI-compatible, Gemini; the set `FetchProviders`), the Anthropic SDK with an error of its own.
Not modelled: calls without a route and provider overrides, which do not use the breaker; the spend ledger,
which the platform does not configure.

### 2.4 AgentLoop

A turn is an async generator: it moves between its awaits and its yields, and its consumer may keep it
waiting at a yield or leave it there (`ConsumerLeaves`, which runs the `finally` block). `turn[t].at` is the await or
yield a turn is at; `messages` the conversation the next model call gets, in which one `round` stands for an
assistant message with tool calls together with the messages of all its calls: `told` says for each whether
its result or "not executed" was pushed. `activeRuns` is the map of controllers, `history` the short-term memory, `keeps`
and `unfinished` the history of a turn that does not complete. `ran` and `modelCalls` are history variables. One
action per piece between awaits: `CallModel`, `Answers`, `AsksForTools`, `AnnounceTool`, `CallTool`, `ToolReturns`,
`ToolPends` (checkpoint), `Store`, and on the way out `EndsWith`, `Finally`, `Closes`, in the order of the `finally` block:
the controller goes first, then the history is stored. Not modelled: which tools exist, the harness's own decision about a
call, compaction, long-term memory, token budgets.

### 2.5 Orchestrator

`plan` is the input: mode, dependencies (circles and tasks that are not there allowed), failure policies, tasks with a sub-plan. `hierarchical` runs as
`sequential` and `fan-out` as `parallel` do. `queue` is the wave (or the order) that workers take tasks from, `task` where
`runSingleTask` is. The sets, the result and the abort flag change where the code changes them, which is not at
once: a failure is recorded, then published, then its policy is applied (`RecordsFailure`, `FailureReported`). `bus` counts the
throws of `publishEvent`: the announcement of the execution ends it before it began (`BusRefusesStart`); outside an attempt one ends the worker and `execute()` with it (`BusEndsExecution`) while the other workers go on, inside
it counts as a failed attempt of a task that may have completed (`BusFailsAttempt`). A sub-plan is one step with any set of
result statuses. Tasks that are left over when nothing is ready are skipped without an entry in the results
(`orchestrator.ts:279`), so `EveryTaskAccounted` speaks of the three sets, not of the results. A `maxAttempts` of 0 or less, with which a task would
end in no set at all, is excluded by `NumbersAssumption`. `SupervisorOrchestrator` is exported and tested; nothing in the platform wires it yet.

### 2.6 BatchEngine

An engine is a process: each CLI command has its own, and so has the gateway. They share `item` (the records) and `file`
(`status.yaml`); `cancelled` is a field of each engine. `run[e]` is the listing a run holds, what it has still to save, and
the work nobody has taken; a worker goes through `Take` (the cancel check and the shared index), `GetItem` (the record, read after an await), `MarkRunning`,
`Attempt`, and twice through `syncProgress`, which reads (`SyncRead`) and writes (`SyncWrite`) with an await in between. The
`try` of an attempt also covers the saving of its result: when `syncProgress` throws after the item was saved as completed, the item is done again or marked as
failed (`SyncFails`, `MarkFailed`). Errors of the file store elsewhere reject `run()` while its other workers go on; they are left out. `Crash` loses all
but the files. The stats are a function of the listing, which stands for them. `Overlap` says whether a job may be resumed while a run of it goes on;
nothing in the code prevents it, and the passing run and all theorems but type correctness assume that nobody does.

### 2.7 Automation

A *lane* is a chain of awaits of one process: a tick, or a run started otherwise. Lanes are not tied to minutes: `tick()` may be
called at any time and as often as one likes, ticks overlap when a run lasts, and a process may start in the minute another one ended in. `clock`
counts real minutes, `Wall[a][m]` is what the clock shows in minute m in the zone of a: a schedule matches wall-clock minutes (`Due`, `cronMatches`), and `lastRunAt` is
compared as a wall-clock minute without an offset (`Handled`, `cronMinuteKey`), so in the hour that is repeated in autumn two minutes are the same to it. `lastRunAt` is
the file; `runs` and `overlapped` are history variables: which runs were begun and recorded, and whether a lane ever began while another was at work.
`Throws` is everything the catch of the tick handles. Not modelled: what an action does and its retries, rate limits, webhooks and events as sources.

### 2.8 McpClient

`clients` is the bridge's entry for the server, which all callers share: calls overlap, and nothing in the code serialises them. A client is put there before it
has started, so other calls find it (`EnterKnown`) while its process is spawning, and spawn a second one (`Ensures`). `pending` is what `invalidate` clears and the exit of a process
rejects. Processes are named after the call that spawned them; a process whose stdin is no longer writable is "deaf" until it exits (`GoesDeaf`, `Writable`). `close()` of the bridge
clears its map a step after it closed the client (`Close`, `ClearMap`). That the answer to `initialize` and the `notify` after it are
a microtask apart, in which nothing but the loss of the process could fall, is not split. Left out: the HTTP client, framing, ids of responses.

## 3. Runs

Deadlock is checked in the runs of `TurnQueue`, `SessionTurns` and `ModelRouter`: `Idle` / `Rest` are the only steps of a
quiet system there, enabled only when nothing is left to do. The other five components come to an end (a plan is executed, the
turns, runs, calls and minutes are used up), so their runs do not check it; `PlanEnds`, `EveryRunEnds`, `StopEndsTurn`,
`SettlesUnlessForgotten` and `TickReachesAll` say that they end well.

| Run | Question | Bounds | Distinct states |
|---|---|---|---|
| `turn_queue` | overlap, order, slots, isBusy, liveness of turns and publishers, refinement of `TurnScheduler` | 4 requests, 3 sessions, 2 slots | 24 621 |
| `session_local` | paused sessions are registered and resumable; history; a session that waits stops waiting (timeouts on) | 2 messages, 2 approvals | 1 078 451 |
| `session_vendor` | blocked turns can be woken, all messages are served | 2 messages, 2 approvals, 1 stop, 1 failed prompt | 343 490 |
| `session_crash` | no session stays "in progress" without a turn | 2 messages, 1 approval, each disturbance once | 2 421 845 |
| `session_ungated` | the same without the harness, buttons pressed twice | 2 messages, 2 approvals | 7 585 |
| `model_router` | threshold, probes, rests, nobody shut out, one voice | 2 providers, 2 callers, route p1-p2-p1, threshold 2, cooldown 2, clock to 5 | 315 647 |
| `agent_loop` | calls answered, the model told of what ran, budget over pauses, stop finds and ends the turn | 2 turns that overlap, 2 iterations, 2 calls each, 1 stop, 1 pause | 368 188 |
| `batch_engine` | no item in two hands, completed stays, the final status fits, runs end | 2 engines, 2 items, 2 workers, 2 attempts, 2 runs, 1 cancel, 1 crash, 1 failed sync | 1 340 263 |
| `automation` | what is passed over was run, ticks reach every automation, ticks in turn fire once | 2 processes of 2 lanes, 2 at work at once, 2 automations, 2 minutes that read alike in one zone, 1 run by hand | 352 818 |
| `orchestrator` | dependencies first, tasks accounted for, plans end | 180 plans of 3 tasks, 2 workers, 2 attempts, 1 bus failure | 188 365 |
| `mcp_client` | only restarts leave processes behind, only invalidation forgets a call, the others settle | 2 calls that overlap, 1 restart, 2 crashes or deaf processes | 219 724 |

**Bounds.** In `TurnQueue` three sessions with two slots give a waiter while both slots are in use, and two
turns of one session a turn that waits for its predecessor and for a slot; a longer queue of one session adds
no new kind of state, because a request only ever looks at the one before it. In
`SessionTurns` two messages give a message that arrives while another turn is paused, blocked, queued or
finishing; two approval ids give a second pause while the first is open or in flight. Disturbances (crash, stop, reset, a typed
answer, an ungated click, a failed send) are counted by `Budget`; one of each already meets every point of
a turn. `MaxRequests` bounds how often a turn may ask; a turn that cannot ask any more completes or
fails. In `ModelRouter` the clock lets a circuit open, be probed, have the probe expire
and be probed again; two callers give a probe and a late outcome at once; threshold 2 tells one failure from two. In `AgentLoop`
two iterations with two calls each put a pause before, between and after calls that ran, and in the last iteration; the second turn is
there to be refused or to begin while the first is on its way out. The plans of `Orchestrator` are independent tasks, a
chain, a join, a circle and a task with an unknown dependency, in each mode, with each policy for the first task and a sub-plan or none for the second; two workers and three tasks make one wait. In
`BatchEngine` two items and two workers make every race for an item, and the second run resumes after a cancel, a crash, both or neither, in the same engine or
the other one. `Automation` has one automation for every minute in UTC and one in a zone in which the two minutes read alike, so a tick of
the second minute meets runs of the first that have or have not been recorded, in a minute of its own and in one that is repeated; two lanes at work meet every race for the file.
In `McpClient` the first call creates the client and the second finds it starting, started, failing or gone, or creates the next one; one restart lets both spawn.

**Fairness.** `TurnQueue`: weak fairness of each request's steps: microtasks run, and a turn that
waits for nobody ends because model streams have an idle timeout (`agents/src/runtime.ts`, `modelIdleTimeoutMs`) and tools their
own. `SessionTurns`: weak fairness of delivering a message, of the turn's next step, of the decision
handlers and of each armed timer. Nobody is obliged to write, press, type, stop, reset or crash. `session_vendor` runs with timeouts
on, otherwise a turn may wait for a person for ever, which is intended. `ModelRouter` is checked for safety only, without fairness; the clock need not advance. `AgentLoop`: weak
fairness of the turn's own steps, which includes that the consumer reads on; nothing of the model and the tools, which may hang. `Orchestrator`: weak
fairness of each task's steps (runs end by the same timeouts) and of the plan's; the bus is never obliged to fail. `BatchEngine`: of each
engine's run; `Automation`: of each lane's step, actions included. `ActionExecutor` has no timeout of its own, so this is what its callers give (agents and goals end their turns): an action that hangs holds up the automations after it
in its tick, and `TickReachesAll` says nothing of it; `McpClient`: of timers and catches only, the server is owed nothing. Cancels, crashes, stops and restarts never are.

### 3.1 Where the code and its comments disagree

The run `redispatch_after_timeout` checks `NoRedispatch`, a comment's claim, and ends in a counterexample of the code as it is: the timeout
handler replaces `metadata`, so the inline marker is gone when its decision is handled, and the vendor run is dispatched again. `PROJECT.json` quotes the lines.

`PausedIsResumable` and `AwaitingIsPaused` are checked in `session_local`, where nobody disturbs the session. The proof
(section 4, `Calm`) shows how far they reach: resets, typed answers, ungated clicks, prompts that fail and, with a vendor runtime or without the harness, stops do not
break them. Two things do. A crash between clearing `pendingApproval` and dispatching the resume is `CrashAfterAnswer`. A stop
while the approval tool of a local runtime sends its prompt ends the turn, and the tool, which nobody told, then marks the session as waiting
(`SessionTurnsLocal.cfg` with `Budget <- OneStop`). `AwaitingEnds` holds when prompts can be sent; that a prompt that is not sent loses no wake-up, no message and no session is in `session_vendor` and `session_crash`.

### 3.2 Further counterexamples

The modules end in a counterexample under these configurations, which are kept beside them
(`tlc -config X.cfg MC<module>`). Most contradict a comment, a document or a test, which the last column quotes.

| Configuration | Module, property | What happens | Against |
|---|---|---|---|
| `MessageWipesPause` | `SessionTurns`, `DecidedTurnResumes` | `recordActivity` replaces `metadata` on each inbound message and wipes the checkpoint of the paused turn | `docs/07-mcp.md:14` |
| `CrossedDecision` | `SessionTurns`, `DecisionResumesItsPause` | the decision on one pause resumes the checkpoint of another | `harness/src/gateway.ts:261` "must agree (issue #68)" |
| `CrashAfterAnswer` | `SessionTurns`, `AwaitingIsPaused` | crash between clearing `pendingApproval` and dispatching: `awaiting_approval` for ever | `platform/src/gateway-worker.ts` "awaiting_approval is a real paused state" |
| `InstantAnswer` | `SessionTurns`, `AnswerIsHonoured` | an answer between the sending of the prompt and `waitFor` reaches the turn as a denial | `harness/src/gateway.ts:295` |
| `ResumeRewindsHistory` | `SessionTurns`, `HistoryNeverShrinks` | a message served during a pause drops out of the short-term history when the paused turn completes | `agents/src/runtime.ts:377` |
| `TextAnswerWakesNobody` | `SessionTurns`, `AnswerWakesTurn` | a typed "approve" does not go through the gate, the blocked turn keeps waiting | `core/src/ports/runtime-approval.port.ts:8` |
| `ResetDuringTurn` | `SessionTurns`, `ResetSticks` | `/reset` while a turn runs is undone at its end | `core/src/ports/slash-command.port.ts:37` |
| `StopFailsOver` | `ModelRouter`, `StopNeverFailsOver` | a stop before the first chunk looks like a connection error to a fetch adapter: it counts as a failure of that provider and the walk contacts the next | `models/src/provider-error.ts` "must never fail over" |
| `StopDuringAnnouncement` | `AgentLoop`, `StopCallsNoTool` | the signal is looked at before "Running <tool>" is yielded; a stop while the consumer handles that event does not keep the tool from being called | `agents/src/runtime.ts:170` |
| `DecisionOutOfIterations` | `AgentLoop`, `DecisionReachesModel` | a turn that pauses in its last iteration is resumed with none left: it ends with the limit notice and the model never hears of the decision | `docs/07-mcp.md:14` "the run pauses and resumes after the decision" |
| `HistoryAfterRelease` | `AgentLoop`, `HistoryIsKept` | the controller is dropped before the history of an unfinished turn is stored; a turn that starts in between reads the history without it, and writes that back later. Needs callers outside the turn queue | `agents/src/runtime.ts:377` "so the next turn still sees both" |
| `AbortIsLate` | `Orchestrator`, `AbortStopsTheRest` | the abort flag is set only after the failure was published; a parallel worker takes its next task in between | `docs/40-subagent-delegation.md:131` "Stop all remaining tasks (default)" |
| `CompletedWithFailures` | `Orchestrator`, `CompletedMeansNoneFailed` | the status is computed from the results, the failed set is not looked at: a sub-plan that paused, or has no results at all, puts its task in the failed set without a failed result | |
| `OrphanTasks` | `Orchestrator`, `NothingStartsAfterwards` | `publishEvent` throws in one worker: `execute()` rejects while the other workers go on taking tasks | |
| `CancelFromAnotherProcess` | `BatchEngine`, `CancelStopsTheJob` | `anvio batch cancel` is a process of its own; the engine that runs the job never learns of it, and its next status write says running again | `docs/32-batch-processing.md:154` "Cancel running batch" |
| `ResumeForgetsItems` | `BatchEngine`, `CompletedCoversInput` | a crash while the first run saves its records: the resumed run takes the records it finds for the whole input and completes without the others | |
| `CronFiresTwice` | `Automation`, `FiresOncePerMinute` | two ticks, of two processes or of one, look at `lastRunAt` before the first run was recorded | `tests/integration/e2e/scheduler.e2e.integration.spec.ts:69` "cron tick fires once per minute and survives a restart without re-firing" |
| `LastRunGoesBack` | `Automation`, `LastRunAtGrows` | a long run of an earlier minute records it over a later one | |
| `RunByHandSwallowsMinute` | `Automation`, `ByHandSwallowsNothing` | a run started by hand records the time it ended, which makes that minute's scheduled run look done. So does, in the hour the clock repeats, the run of the first time round | `automation/src/automation-engine.ts:222` |
| `McpCallHangs` | `McpClient`, `EveryCallSettles` | `invalidate` clears the pending map while another call waits in it, and a request's timer rejects only what it finds there: the caller waits for ever | `integrations/src/mcp-stdio-client.ts:50`, `docs/07-mcp.md:11` "30 s request timeout" |
| `McpFailureSpreads` | `McpClient`, `OneFailureStaysOne` | one failed call invalidates the client that other calls are using | |

For some of these a theorem says when they cannot happen, for every value of the constants, so that the condition in it is the one to look after:

| Configuration | What cannot go wrong | When | Theorem |
|---|---|---|---|
| `CrashAfterAnswer` | a session waits for a request the gate holds | no crash, and no stop in a gated local runtime | `WaitingIsPending` |
| `HistoryAfterRelease` | no turn takes anything from the history | the turn queue starts the turns | `QueuedTurnsKeepHistory` |
| `AbortIsLate` | nothing starts after a failure with the policy abort | one task at a time, no sub-plans | `AbortStopsOneWorker` |
| `ResetDuringTurn` | a turn adds only its own message to the transcript | no reset | `OnlyResetIsUndone` |
| `CompletedWithFailures` | a completed plan has no failed task | no sub-plans | `CompletedIsTrueWhenFlat` |
| `OrphanTasks` | no task starts after the execution has ended | the bus takes every event | `NoOrphansWhileBusWorks` |
| `ResumeForgetsItems` | a completed job has done its whole input | no crash, no runs that overlap | `CompletedJobIsWhole` |
| `CronFiresTwice` | a tick runs no minute that was run | ticks and runs come one after the other, in however many processes | `SerialTicks` |
| `RunByHandSwallowsMinute` | a tick passes over a due minute only if a tick began a run for it | nothing is run by hand, no minute of the wall clock comes twice | `TicksSwallowNothing` |
| `McpCallHangs` | a waiting call keeps its place in the pending map | no invalidation of its client | `ForgettingTakesInvalidation` |

Variations that the same modules answer when a configuration is changed: with `Overlap = TRUE`, `BatchEngine` does completed items over and puts items
in two hands; `CompletedStays` without its second disjunct fails, since a status file that cannot be written has the completed item begun again; `McpClient` violates
`NoOrphanProcess`, for two calls that find a client starting both spawn a process, and the first one is nobody's from then on (`OnlyRestartsLeaveOrphans` says that
nothing but such restarts does that); `NoRedispatch` also fails when a message arrives while a vendor turn
waits, and with `LocalBus = FALSE`; `AwaitingEnds` fails when a prompt cannot be sent.

Seen while modelling the router, without a run: a terminal error chunk, and with the SDK adapter an abort,
is recorded as a success and closes the circuit (`StreamRefused`); a chain that failed at one target and
skipped the others reports that every circuit is open; a switch after a mere skip is not announced.

## 4. Proofs

`tlapm` checks the eight proof modules from nothing. The only assumptions are the named `ASSUME`s of the
specifications (finite sets of requests and of tasks, limits at least 1, switches Boolean, bounds natural numbers, a `None` that is no message,
request or checkpoint),
which TLC evaluates in every run.

**TurnQueueProofs** (all requests, sessions, limits). `TypeOK` is inductive. `OneTurnPerSession` is not:
`ChainInv` strengthens it by the shape of the promise chain: tickets of a session are distinct; a chained request's
`previous` is the request with the ticket just before its own, or none when that one has settled; a request
past "chained" has only settled predecessors; the tail is the newest request. From it follow `ArrivalOrder`,
`OneTurnPerSession` and `NotBusyMeansFinished`. `SlotInv` says that `active` is the number of running
turns, that waiters are distinct requests in stage "waiting", and that there are waiters only when all slots
are taken; it needs the library's facts on cardinality. `QueueImplementsScheduler` maps each step to a step
of `TurnScheduler` or a stutter; the case of `Release` with a waiter is its `HandOver`.

**SessionTurnsProofs** (all messages, bounds, budgets and switches). `TypeInvariant` is inductive.
`NoSessionStuckInProgress` uses `ProgressInv`: the status is `calling_model` only when there is a turn, a queued request
or a process that has not repaired its sessions yet, together with what is empty while the process is down or starting.
`BlockedTurnCanBeWoken` uses `WakeInv`: a turn that blocks is the only one that asked for its id, and
every action that takes the id out of `pending` moves the turn on. `TurnsKeepHistory` uses that, between a turn's
start and end, `memory` is what it read (`HistoryInv`), and that no vendor turn writes it.
`WaitingIsPending` and `WaitingIsResumable` are theorems about a `Calm` session. Neither property is inductive: the status says `awaiting_approval` before
the request is registered, and for a while after it was answered. `WaitingInv` names what excuses it: a turn that is loading or has not marked
the session yet, a vendor turn that blocks, a queued request, a decision on its way; otherwise the request is in the gate. The excuse must end in
another status, which is where each step is checked: `CalmInv` leaves no aborted turn and no orphaned tool to break that off. `ResumableInv` says the same of the checkpoint, where a message
on its way is an excuse too, since `recordActivity` wipes the checkpoint before the message's turn changes the status.
`OnlyResetIsUndone` rests on `TranscriptInv`: from the load on, the turn's copy of the transcript is the stored one until the turn writes it back. No stop, timeout, decision or crash
disturbs that, only a reset does. There is no such boundary for `DecisionResumesItsPause`: TLC finds it violated with one message and no disturbance at all.

**ModelRouterProofs** (all providers, callers, routes, thresholds, cooldowns). Except for the threshold, none of the breaker properties is
inductive. `CircuitInv` says what a circuit counts its cooldown from: an open one from the provider's last
recorded failure, a half-open one from its last probe, which came a cooldown after the last failure; it also
says that a circuit that is not closed has its full count of failures, without which a late failure of an open circuit
would not restart the cooldown. `ProbeInv` says that no probe in flight is younger than that moment, so the next
one is a cooldown away from it, through any number of closings and openings in between. `WalkKeeps` shows the
whole invariant for one walk from circuits that a failure may just have changed; both actions that walk cite it.

**AgentLoopProofs** (all turns, iterations, calls, stops and pauses). `TurnInv` is what holds of each turn alone: that its conversations
answer every call, where it is within a round, and that it has called the model at most once more than it has
finished iterations, from which `BudgetNeverExceeded` follows. `StopFindsTheRun` is inductive beside it. `ModelIsTold` needs more, since a turn's
calls are in its messages only between rounds: `RanInv` says that what ran is what the messages tell of plus the calls of the round under way, for every
turn that may still go on, paused ones included; `FreshInv` that nobody's conversation has a round of a turn that has not begun.
`QueuedTurnsKeepHistory` uses `KeptInv`: of turns that are queued one is under way at most, and as long as it has something to keep, its conversation and what it would
leave unfinished both begin with the history as it is.

**OrchestratorProofs** (any plan over any finite set of tasks, any concurrency, any bus failures). `DependenciesHonoured` is not inductive, because a task
that completed can be recorded as failed until its worker is through with it. `DepsInv` therefore says that the dependencies of a task that
started, or that a wave holds, are out of their workers' hands; `TakenIsReady` shows it for the step that takes a task. In the sequential mode that follows
from the one worker being free, and there is only one as long as the bus ended none; in waves from nobody being busy between two. `PlacesInv` and
`PhaseInv` relate where a task is to the sets it is in and to the phase, and give `TasksAreAccounted` with `OnceInv`. `FaultInv` says what a failure leaves
behind: unless its task has a sub-plan it is in the results, and if the policy is abort, the execution is aborted, or the event is still to go out, or a worker was lost. A
single worker that has not put the event out is busy, and a lost one takes no task, which is `AbortStopsOneWorker`. `BusRefusesStart` touches nothing but the phase, before anything has begun.

**BatchEngineProofs** (all engines, items, workers, attempts, cancels, crashes). `OneRun` is what `Overlap = FALSE` buys. `HandsInv` says what a worker may rely on of the
item it holds: it is not in the list any more, no other worker has it, and its record is as the worker saved it last, also when it could not report that. `SavingInv` and `FileInv` say that a run which writes
the records anew does not forget a completed one. `CompletedItemsStay` follows step by step. `FinalStatusIsTrue` needs `DoneInv` on top: no work is lost (`WorkInv`: an item that
is not settled is in the list or in the hands of a worker), a run has saved what it lists (`SavedInv`), and a final status is written by nobody but the run that came to it, because
no `syncProgress` that writes back a status read earlier can have read a final one (`EndInv`). `CompletedJobIsWhole` adds `CoverInv`: without a crash, the items without a record
are those the run has still to save.

**AutomationProofs** (all processes, lanes, automations, schedules, zones). `JobsInv`: a run that a tick waits for was begun for the tick's minute; `RecordedInv`: a `lastRunAt` on disk
is the minute of a run that a tick began, or in which a run by hand ended, whoever wrote it last. With them `NothingDueIsSwallowed` is one step: what `Handled` compares is the wall clock of a minute
something ran in. The invariant holds of overlapping ticks and of repeated minutes too, where `lastRunAt` may go back. `SerialTicks` does rest on the file: `SerialInv` says that as long as lanes come one after the other, recorded
minutes are no later than `lastRunAt`, and that no later than the minute of the tick under way, so a tick of a recorded minute finds just that minute on disk. `TicksSwallowNothing` needs `OnlyTicks`: nothing is
at work, or was recorded, that no tick began.

**McpClientProofs** (all calls at once, restarts, crashes, deaf processes, closings and invalidations). `OrphansTakeRestarts` and `ForgettingTakesInvalidation` are statements about each step; `EnteredInv` is what they need of the
states: a call that waits has a client, only calls that have entered are pending, only they have spawned processes. The lemmas on `Kill`, `Invalidates` and `ProcessLost` say for each which processes still run and which calls are still pending.

The theorems of `BatchEngineProofs` that begin with `~Overlap =>` are about the case in which the runs check their properties too; type correctness is proved without it. The inductive invariants were checked
with TLC before they were proved.

**Only model-checked.** Liveness (`EveryRequestServed`, `PublishersReturn`, `AwaitingEnds`,
`EveryMessageServed`, `StopEndsTurn`, `EveryRunEnds`, `TickReachesAll`, `PlanEnds`, `SettlesUnlessForgotten`): outside the prover. Every invariant and every
action property that a passing run checks is a theorem. `LastRunAtGrows` holds not even for one process, whose ticks overlap.

## 5. Mutants

Each property of a passing run has a mutant of the code that breaks it, defined next to the definition it
replaces and marked "Mutant". They are the bugs that audit comments in the code tell of, or plausible
slips: the task that does not wait for its predecessor, the tail dropped by anyone, the waiter that is not
woken, the prompt the gate never heard of (issue #68), the history replaced by one message (audit G-01), the
session not repaired after a crash, the half-open circuit that lets everyone through (audit CQ-022), the probe
that never expires, the success that leaves the failures counted, the stream that is retried after it reached the user; the round that is cut off at a pause, the resumed run that counts from
nothing, the tool that is awaited without the signal; the task skipped only after failures, the leftover tasks dropped or waited for; the shared index advanced too
late, the resume that starts everything anew, the final status that forgets the cancel; the run recorded at its completion, the tick that ends
with its first failure, the tick that does not ask for the last run; the process left running, the pending requests dropped, `initialize` without a timer.

## 6. Plan and what is not modelled

In order:
1. `SessionStore`: read-merge-write below one update, as an implementation of the atomic store `SessionTurns` assumes;
   kanban, goals and credential pools have the same shape.
2. `EventBus`: NATS consumers with acknowledgement and redelivery, composed with the run consumer.
3. The DAG executor of workflows, pending mutations, hooks; pure algorithms (message splitting, cron matching, engagement
   rules) against reference definitions.

Proofs to come: when a paused turn's history is not rewound (`ResumeRewindsHistory`); what `CompletedStays` needs of a
caller when runs overlap; refinement of the atomic store.

Not modelled yet, though it could be: the workflow engine (levels of a graph run in parallel, like the orchestrator's waves), kanban and goals (files
without exclusion), credential pools (the platform never calls `markRateLimited`, so their cooldown does not come into play), NATS redelivery, the file
store and what its errors do to a batch run, the HTTP client of MCP, webhooks and rate limits of automations. Under these components `PROJECT.json` names what is missing.

Left out for good: adapter protocols, vendor processes, model providers' wire formats, prompt assembly,
parsing, logging and metrics, the web dashboard.
