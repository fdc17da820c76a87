# Verification of the companion harness

TLA+ models of the part of this repository where concurrency, failure and
ordering decide correctness: the durable Run engine, the path from an action
proposal to an external calendar write, the tool broker and the agent strategy
that uses it, the way of a message from the page to a Run and of its events
back, delegated trials, the background services (memory, shadow deliberation,
auto-dispatch, notifications), the supervisor of the server process and the MCP
connector. TLC checks the models on small
instances; TLAPS proves the central invariants, step properties and two
refinements for every value of the constants.

## 1. The system

A companion server (`apps/server`) keeps conversations in one SQLite database.
A user message becomes a *turn*; a *Run* is one attempt to answer it. Runs are
rows that a single-process scheduler picks up and executes with a named
strategy. The agent strategy calls tools through a broker; a tool may *propose*
an external write. The user approves or rejects; an approval creates an *Action
Run* that performs the write once and records a receipt. Around this core the
server runs background services (memory, notifications, autonomy, trials,
shadow evaluation, learning, agora) that own tables of the same database.

### Inventory

| Component | State | Operations | Hard behaviour | What makes it correct |
|---|---|---|---|---|
| Run engine (`kernel/src/engine.ts`) | `inFlight`, `watchdogs`, `draining`, `stopped`; one AbortController per Run | start, pump, cancel, shutdown, watchdog, continuation of a strategy | cancel against completion, drain against late results, commit failures, crash | commit before abort; no slot leaks; nothing leaks as `running`; queued Runs are picked up; a cancel settles |
| Run store (`kernel/src/repository.ts` 1108-2430) | `sessions`, `turns`, `runs`, `run_events`, `turn_selections` | postMessage, postRetry, startRun, completeRun, failRun, cancelRun, finalize, recover, drain, appendToolEvent | all of it inside one IMMEDIATE transaction each | one active Run per session; terminal is final; journal agrees with row; selection is the newest success |
| Proposals (`kernel/src/action_proposals.ts`) | in-memory stager per Run; `action_proposals` | stage, stageCreate, commitStaged, removeStaged | memory outlives or loses what the database decided | a proposal appears only with its completed Run |
| Action execution (`kernel/src/action_executions.ts`, `action_strategy.ts`) | `action_executions`, `action_execution_grants`, `action_receipts`, marker | pickup, preflight, gate, write, read-back, cancel, recover | crash between gate, write and receipt; lost answers; cancel against gate; other writers of the event | at most one write; honest cancel; honest receipt; recovery accepts every reachable row |
| Calendar write ports (`connector-calendar/src/*Write.ts`) | none | update, insert | answer lost after dispatch | one attempt; `unknown` whenever the proof is lost |
| Idempotent intake (`ui/client.ts`, `app.ts`, `repository.ts` 1295-1342) | `api_idempotency`; the page's frozen request and stored key | send, resend, recover after reload, every keyed POST | requests and answers lost, late or repeated; drain; reload | a key makes one Turn and always gets the same answer |
| Tool broker (`kernel/src/broker.ts`) | budgets, slots, dedup table, audit, confirmations | call | parallel calls at a limit, abort during a call, refused dictation | budget never exceeded, one audit terminal per call, a dictated write passes only as the reply to its refusal |
| Agent strategy (`kernel/src/agent.ts`) | per-Run loop, `model_calls`, step events | recall, steps, tool rounds, answer, voice | abort, wall, step deadline and late answer at each await | one audit row per step, grounded citations, no worker left, always ends |
| Event stream (`sse.ts`, `ui/client.ts`, `ui/reducer.ts`) | server cursor, page cursor, queue, fallback poll | connect, push, apply, catch up, poll, reload | breaks, gaps, failed reads, two readers of one journal | an answer shown once; a page that follows a Run comes to show its end |
| Trials (`kernel/src/trial_authority.ts`, `trial_runner.ts`) | proposal, grant, boot, permit, outcome, alias fence; relay | stage, approve, derive, claim, boot, permit, poll, settle, recover | STOP and foreground between any two gates; the worker outlives the process | a stop is final; loose work is fenced; the rows tell one story |
| Memory (`repository.ts` 4710-, `memory_service.ts`) | outbox, operations, drain tick, extraction, distillation | stage, drain, ack, fail, extract, distill, associate, stop | replay without lease, two-job corrections, preemption, stop | what an operation reports is true; one model call; every operation settles |
| Background gate (`background_resource.ts`) | one holder | tryAcquire, release | three services and foreground Runs | held exactly by the one that runs |
| Shadow deliberation (`kernel/src/shadow.ts`, `shadow_service.ts`) | jobs, epochs, one worker | change, request, claim, judge, complete, hold | the ground moves under the model call | decisions stand on unchanged ground; a claimed job settles |
| Auto-dispatch (`kernel/src/autodispatch*.ts`, `autodispatch_*.ts`) | policies, plans, executions, copies, one worker | intake, plan, copy, reserve, grant, link, prune | STOP, revocation, new message at each await; crash between the three transactions | grants answer a current intent, within quotas, and stop with their policy |
| Notifications (`kernel/src/notifications.ts`, `notification_service.ts`) | cursors, schedule, alerts, one timer | ingest, project, record, arm | failing calls inside a bounded tick, restart, control | schedule follows tasks; no late alert; what is owed arrives |
| Supervisor (`supervisor.ts`, `supervisor_cli.ts`, `bootstrap.ts`) | state file, lock, loop, signal handler, child | start, spawn, commit ready/crash/hold, stop, resume, restart | three writers of one file, two processes, commits that fail, signals at each await | a stop stands and lands; restarts stay within their budget; a held child is spared |
| MCP connector (`connector-mcp/src/client.ts`, `session.ts`) | session, flight, epoch, failures, mutex, cleanups | callTool, ensureConnected, shutdown, close, overflow | loss and shutdown at each await of a connect or a call | no answer across a shutdown; failures counted once; what was opened is closed; callers are freed |
| Reference manager (`kernel/src/reference_manager.ts`) | resources, snapshots, session references | presentObservations, resolve | Run ends while an observation is out | not modelled |
| Learning, handoff, agora, spontaneous and persona chat | own tables | see `PROJECT.json` | | not modelled |
| Gateways, other connectors, web UI, CLI, config, backup | I/O | | | not modelled |

Components interact by calls inside one Node process and by shared rows. The
HTTP routes call `RunEngine.cancel` and the repository; the engine's pump finds
queued rows by polling; the strategy's promise resolves into the engine's
continuation; `repository.startRun`, `cancelRun`, `recover`, `drain` and
`settleAbandonedRunningRun` dispatch rows of strategy `m5-action` to the
execution service.

### Atomicity

JavaScript between two awaits is atomic, and every repository or service call
is one `BEGIN IMMEDIATE` transaction. In `RunEngine` one action is one timer
callback, handler or promise continuation, since a crash inside one only shows
as the prefix of transactions it committed, and each is at most one
transaction per Run. In `ActionExecution` one action is one transaction, so a
crash fits between any two; this also lets a cancel or a drain fit between
pickup and binding or between gate and dispatch, where the event loop leaves
little room: the model allows more than the code there. In the other modules
one action is the code between two awaits, unless a process may end between two
transactions of it (the three transactions of an auto-dispatch authorisation).

## 2. Modules

| Module | Models |
|---|---|
| `RunLifecycle` | abstract: what a Run may do, from `contracts/src/run_status.ts` and the partial unique index |
| `RunStore` | the rows and transitions of `repository.ts`, as relations on sets of rows |
| `RunEngine` | extends `RunStore` with the engine's memory, storage failures, crash and restart |
| `RunEngineProofs` | the engine's theorems |
| `MCRunEngine` | instance for TLC |
| `ActionPromise` | abstract: decided once, attempted at most once after approval, reported truthfully |
| `ActionExecution` | proposal, decision, Action Run, execution row, grant, marker, receipt, provider |
| `ActionExecutionProofs` | its theorems |
| `MCActionExecution` | instance for TLC |
| `ToolBroker` | one tool call from `invoke` to its audit: budget, deduplication, slots, deadline, detachment |
| `MCToolBroker` | instance for TLC |
| `ToolBrokerProofs` | its theorems |
| `ToolConfirmation` | the broker's gate for dictated writes |
| `ChatIntake` | a message from the page to its Turn and the answer back |
| `RunStream` | a Run's journal from the store to the page |
| `RunStreamProofs` | its theorems |
| `AgentStrategy` | the strategy of a chat Run: steps, tools, timers, audit, answer |
| `TrialAuthority` | the rows of a delegated trial and the runner |
| `AdmissionProofs` | theorems of the gate, the intake and the trials |
| `MemoryOutbox` | the memory service over its outbox and operation tables |
| `ShadowWorker` | shadow jobs and their one worker |
| `AutoDispatch` | the dispatch ledger and its one worker |
| `Notifications` | the notification projector |
| `MemoryOutboxProofs` | theorems of the memory service |
| `BackgroundProofs` | theorems of shadow deliberation, dispatch and notices, and of the background services side by side |
| `Supervisor` | the supervisor process, its state file, the operator and the server processes |
| `McpConnector` | one MCP connector: connect, call, lose, overflow, shut down |
| `MCServices` | gate, trial, intake, stream, agent, supervisor and connector for TLC |
| `ServicesProofs` | theorems of the strategy, the supervisor and the connector, and of the services side by side |
| `MCBackground` | memory, shadow, dispatch and notices for TLC |
| `MCShadowWorker` | one load of `ShadowWorker` for TLC |

The last eleven component modules share no variables. What a component takes from
another (a foreground Run, the holder of the background gate, the control row)
is an action of its own module, free to happen at any time its owner could do
it. `MCServices` and `MCBackground` put several of them in one run: `part` names
the one that moves in a behaviour, the others stay in their initial states, so
the state spaces add up instead of multiplying. Names that would clash in such
a module carry a suffix or a prefix (`Claim0`, `noticeVars`).

**RunStore / RunEngine.** `status`, `row`, `events`, `nextTurn`, `nextAttempt`,
`selection` are columns; `pending` abstracts `action_proposals` to "the session
has a pending one". `inFlight`, `watchdogs`, `staged` are the maps of the same
names, `tasks` the promises not yet settled, `aborted` the controllers fired.
`phase` is the process: `gated` between `markDraining` and the engine's
`shutdown`, `draining` until its sweep commits. A storage failure that survives
its retries costs one `faults`: `PumpFaulty` (a row skipped, or started and then
orphaned, or orphaned and not even settled), `TaskPersistFails`,
`WatchdogFails`, `DrainFails`, and the failing read-back in `SettleOwnership`.
`TaskRejected` is the definitive refusal of a staged proposal. Definitions whose
comment begins with "Mutant:" are deliberate bugs, used only to test that the
property next to them can fail; no specification uses them.

**ActionExecution.** One session. `pc` is the await the strategy of an execution
is at. `event` is the calendar event with its revision, the proposal whose times
it carries, and whether it was deleted; `sample` is the answer to the read in
progress (taken when the provider answers, used when the strategy resumes);
`wire` is the write request at the provider, which outlives the process that
sent it. `ProviderReads`, `ProviderApplies`, `ProviderRefuses` and `UserEdits`
are external: the provider applies a reschedule only if the revision it carries
is still current (the port always sends the grant's revision as `expectedEtag`).
A create reads back its own new event, whose content is not modelled, so either
verdict of the read-back is possible. Snapshots and references materialised on
the way are left out.

**ToolBroker.** One action is the code between two awaits; `pc` is the await.
`life` and `row` are the columns of `tool_calls`, `journal` the tool events,
`slot` the two kinds of `Slot` with their counter and queue as the class keeps
them, `dedup` the table of in-flight and finished entries, `settled` the outcome
a call carries from `executePhysical` to its commit and then the value of its
promise. `work` is the handler, then the normalizer; a call in `detached` has
stopped awaiting it while it holds the slots. A storage failure may hit the
requested event, the mark that the handler runs, or the final commit. The two
cumulative output budgets are one counter and every result costs one unit;
invalid, unknown, denied and unconfirmed requests are one refusal; the private
execution recorder is left out. Aborts and timeouts may fire at any await, while
the event loop fires timers only between tasks: the model allows more there.

**ToolConfirmation.** One session: turns, Runs (a Run is known by its place),
the unconsumed row per call, time in ticks. `attempts` is a ghost, so that the
properties speak of what the user was asked and what passed, not of the table.
Rows of different keys never meet, so the instance has one.

**ChatIntake.** One session, one page. A key is the ordinal of the frozen
request, a body the message and the UI context fetched for it. Requests and
replies on the wire may be served late, after the page gave them up, or never.
The request hash also covers the time zone, which does not change on one page.
The retry button draws a fresh key each time, so a repeated retry is kept out
by the busy check alone. `boot` is where the page's start is: it has a session
and has enabled Send, then awaits the lookup of the stored key, the active Run
and the history, while the user may already send or retry (`SendAllowed` and
`RetryAllowed` look at what the code looks at and not at `boot`); recovery then
clears whatever request the page holds, and subscribing follows the adopted Run
whatever the page followed meanwhile. After a reload the page only knows the key: it asks for
its outcome, and a `missing` answer followed by the late arrival of the POST and
a new message makes two Turns, under two keys.

**RunStream.** One Run, one page that may be reloaded. `view` is the reducer's
cursor, `saved` the one in local storage, `received` the browser's Last-Event-ID,
`pushed` the server loop's. `missed` is a ghost: a catch-up of this visit failed.
Left out: a corrupt stored cursor, the cap of twenty pages, an EventSource closed
by an error status.

**AgentStrategy.** One Run. What the model writes is how the step is classified
and what it cites; a tool result is its references and whether it fits. The two
clocks may pass before or after their timers fire, which is what makes a late
success. Trimming of the conversation and prompts are left out. A raw response
that cannot be recorded ends the step without row and event (`rawLost`).

**TrialAuthority.** One alias. `trial` are the rows of an execution, `runner` the
locals of `TrialRunner`, `work` the bridge process and its scope (external).
Two ghosts: `halted`, the executions a stop reached, and `slipped`, those the
runner lets go of while their work may be loose. A call whose failure the runner
swallows (the record of a quiescence or a result, a fence, recovery's scan) or
that throws past it (a directory or the relay, after the claim) costs one
`faults` and leaves the rows as they are. Adoption of a result, and
`clearTrialAliasFence` and `reconcileTrialExpiries`, which nothing in production
calls, are left out.

**MemoryOutbox.** A job is named by its stable key; a correction is two jobs.
`store` is what the external memory program applied. `tick` is the drain in
flight, `call` the job whose call it awaits, `cult` the extraction of a Run,
`gate` the background gate as memory sees it. Back-off is modelled by the order
in which jobs become due again (`dueJobs`, a list each pending job is on at most
once, which is why an enqueue looks its key up first, `Fresh`). A failing call either counts an attempt or, when
the program is at its limit, fails the job at once.

**ShadowWorker, AutoDispatch, Notifications.** Each has one worker whose place
is one variable (`drain`; `pump` and `intake`; `sweep`), the rows it works on, a
ghost for what its properties compare with (`due`, `drifted`; `era`; `lapsed`),
and a budget of what its surroundings may do. In `AutoDispatch` the planner and
the copying of files are external; the trial grant of an execution is kept with
its row. A copy on disk has its retention record or not (`bare`, which a prune
neither counts nor removes); a prune that fails leaves any prefix of its work,
the last record possibly torn (`BrokenPrunes`), and reads as zero copies, so the
intake and the copy it makes are `blind`; the copy of a job that is given up may
resist its removal. In `Notifications` the sources of notices other than tasks are one, and
a task's deadline is immutable, as in the code.

**Supervisor.** Every update of the state file runs in the SQLite mutex on the
latest file and is one step. `sup` is the loop with its current child and the
messages its listener has heard, `handler` the child `onSignal` is terminating
meanwhile, `kids` all server processes, which outlive the supervisor. The
lock's owner is the one supervisor there is; a second one is refused and changes
nothing. `stopStands` and `fresh` are ghosts: whether a stop stands, and the
spawns that neither a deliberate end nor a resume accounts for. Back-off is the
time others may use between two steps. The server's graceful shutdown is one
state that ends in an acknowledgement, an exit or a failure; its inside is
`RunEngine`'s.

**McpConnector.** A connect attempt (`dial`) makes at most one connection
(`peer`), which has its number; `hub` are the connector's fields, `waiters` the
promise mutex. The peer is a child on stdio. For other transports the code
renews the cleanup of a start that settles late; that is left out. Admission of
a tool by name and hash is local and changes nothing; identity checks of the
peer are one verdict, and tool-level errors are answers.

## 3. Runs

All runs set `CHECK_DEADLOCK FALSE`: the number of Runs, messages, jobs or
proposals is bounded and the system rightly stops when all are settled.

| Run | Instance | Shows |
|---|---|---|
| `engine_faults` | failures, a crash, a shutdown | types; `JournalSafe` (journal agrees with row, proposals only from completed Runs, concurrency bound); commit before abort; nothing executing after shutdown; no dead staged entry; terminal is final; refinement of `RunLifecycle` |
| `engine_contention` | two sessions, several Runs, one slot | one active Run per session; `OwnershipSafe` (selection is the newest success; without failures no slot outlives its task) |
| `engine_progress` | fair, hanging strategies, a restart | a requested cancel becomes cancelled; a queued Run is picked up if strategies settle |
| `action_recovery` | fair; a reschedule and a create, other writers, two restarts, two storage failures | at most one write; honest cancel; honest receipt; recovery and drain never meet a row they refuse; the journal is ordered; receipts are final; an approved proposal gets its receipt; refinement of `ActionPromise` |
| `broker_calls` | fair; two Runs at process cap and request budget, a storage failure | `BrokerSafe` (caps; rows and events agree; no handler without its event); nothing reaches a Run that left; every call returns though handlers hang |
| `broker_reuse` | three calls with one key at the slot of a Run, refresh, an abort | `ReuseSafe` (rows and events agree; only audited successes are reused; none older than a refresh; output budget); nothing reaches a Run that left |
| `services` | fair; one part at a time | `ConfirmationSafe`: a dictated write passes only as the next reply to a refusal, and once. `IntakeSafe`: one Turn per key, agreeing answers, no conflict, no refused Turn, with sends and retries beside boot's recovery. `StreamSafe`: an answer is shown once, the composer is freed by the Run's end only. `AgentSafe`: single and complete audit, grounded citations, settled tools, honest end. `TrialSafe`: rows agree; a stop is final; permitted work that is alive is the runner's, on recovery's list, or fenced with nothing launched beside it, but for the three cases of `slipped`. `ProcessSafe`: a stop on file stands until a resume, restarts are within budget, a held child is spared, one server; the connector's state agrees with its connection, no answer across a shutdown, failures count once, a finished shutdown has closed what was open. `ServicesProgress`: a permitted relay is closed by a stop, a following page comes to show the end, every strategy ends, a stop ends the servers, a shutdown frees the connector's callers |
| `background` | fair; one part at a time | `MemorySafe`: operations report the truth, provenance comes first, one model call. `QuietAfterStop`: nothing written after `stop`. `AutonomySafe`: one shadow lease, decisions on unchanged ground, every change answered; dispatch grants current, stopped with their policy, within quotas, counted copies within the budget but for those admitted behind a failed prune, no worker without its copy; schedule follows tasks, no late alert. `BackgroundSettles`: staged operations and claimed jobs settle, waiting intakes are taken, owed notices arrive |

Four runs find a violation of something the repository says of itself:

* `engine_rejected` (`ActiveIsOwned`): a completion whose staged proposal is
  refused (another is pending, or the target moved) throws a validation error;
  `persistLifecycle` counts it as settled, ownership is released and the row
  stays `running` until the next restart, so the session is busy.
* `broker_slots` (`OnlyExcessQueues`): `Slot.release` hands its permit to a
  waiter, whose grant counts it a second time; each hand-over loses a permit
  until calls queue, and time out, with nothing running.
* `stream_gap` (`GapIsRetried`): after a reload the first frame asks for a
  catch-up page; if that frame was the terminal one and the page fails, nothing
  retries the gap and the page shows the Run as active until the next reload.
* `shadow_backlog` (`BacklogDrains`): the wake at the end of a full batch is
  honoured by the first tick of a chain only, so a backlog of more than two
  batches waits for the next outside wake.

Four more are in the models without a run of their own:

* A storage failure between taking the slots and starting the handler leaves the
  deduplication entry in flight for ever and the slots taken, against the comment
  at `broker.ts:1769` (`ToolBroker!StartFails`).
* A pending confirmation that can no longer be confirmed is neither replaced nor
  usable until it expires, against `broker.ts:2435-2436`
  (`ToolConfirmation!RecordRow`).
* Boot enables Send (`client.ts:798-801`) before it awaits the lookup of the
  stored key. A message sent meanwhile is frozen under a new key, and the recovery
  of the old key then drops whatever request the page holds (`client.ts:1123`,
  `1140`): the message is never posted, or can no longer be asked for under its
  key, against `client.ts:2722-2724` ("resend the SAME frozen key ... while the
  page lives"; `ChatIntake!RecoverPending`, `NothingToPost`). `IntakeSafe` holds
  all the same: each key makes one Turn.
* A prune that throws, or finds the jobs directory unreadable, counts as no copies
  (`autodispatch_service.ts:211-213`, `autodispatch_materializer.ts:425-429`), so
  the next job is materialised although the budget is spent, against
  `autodispatch_service.ts:419-420` ("refuse a new job when terminal
  cleanup/expiry cannot free room"; `AutoDispatch!PrunesAndPrepares`). `CopiesHeld`
  bounds the other copies only.

The models also contain smaller differences between code and comments, and
behaviour a reader may not expect:

* Engine and broker: staging does not look at pending proposals, which the
  comment on the tool registration says it does (`Stage`; it is what makes
  `engine_rejected` reachable); the sweep removes staged entries inside its
  transaction, so a drain that rolls back has lost them (`DrainFails`); a handler
  that settles before its aborted call commits loses its late report to that
  commit (`DetachHandler`, `LandFailed`); a request over the budget is journalled
  as completed and never as requested (`InvokeOverBudget`).
* Memory: the return of `maintain.associate` overwrites a dirty mark set while it
  was out (`AssociateReturns`); an aborted distillation counts as an attempt; a
  crash between the commit of a completion and `onRunCompleted` loses the raw
  turn; an operation may read `failed` although the memory program applied it.
* Trials: a scope still active at the deadline is fenced, where the comment at
  `trial_runner.ts:1684-1685` says it is recorded as quiescent; a launch that is
  denied or fails certifies quiescence when its front end exits, without waiting
  for the scope; `recordWorkerResult` does not compare the proposal's versions again.
  Three ways work can be loose without a fence, the exceptions of
  `LooseWorkIsFenced` (`slipped`): the relay refuses after the permit
  (`trial_runner.ts:1601-1617`), the runner waits for the exit and records and
  fences nothing, and the next grant may be launched beside a scope that lives on
  (`LeaveUnrecorded`); the fence, or the scan or record of recovery, fails and
  the failure is swallowed (`trial_runner.ts:1733-1735`, `1763-1765`, `551-554`;
  `Slips`, `RestartServer`); a pause revoked the grant before the process ended,
  and recovery lists claimed grants only (`RestartServer`). A directory or relay
  that cannot be made after the claim (`951-985`) leaves the grant claimed until
  the next restart.
* Shadow: the cancel of a queued Run announces the foreground and not its end,
  so a job deferred for it waits for another wake (`RunEndsUnannounced`).
* Auto-dispatch: a crash after the reservation uses up a concurrent execution
  until the policy ends; cleaned copies are kept up to exactly the count at which
  admission refuses, so retention by count never makes room; a launched grant
  revoked by STOP, or a crash before the link, pins its copy; a record torn by a
  failing write hides its copy from every later count
  (`autodispatch_materializer.ts:440`); the write that blocks a failed
  authorisation may itself fail (`autodispatch.ts:1640`), which leaves a
  reservation as the crash does; constraints that do not fit the wire block the
  plan although only the execution was denied (`AuthoriseDenies`).
* Notifications: any write of the control moves the resume cut-off, so a deadline
  that is due and not yet recorded is skipped; a failing read of the cursors ends
  the tick without the diagnostic (`blind`), a failing list of sessions or of the
  next deadline leaves no timer.
* Supervisor: when the commit of a drain hold fails, the restart stays pending on
  file and nothing holds, so the next round of the loop ends the child that the
  comment at `supervisor_cli.ts:618` says is deliberately kept
  (`DrainConcludes`); a stop clears a newer-database or drain hold, so the resume
  after it spawns again (`ApplyOperatorStop`).

**Bounds.** Two or three Runs over two sessions are enough for every pair of
Runs to compete for a slot and for a session; two turns and retries give the
selection two attempts to choose from. One restart reaches recovery from every
state, a second one recovery of recovered rows. Two storage failures let a
fallback fail after the operation it backs up. Two revisions let an event move
before and after the preflight read. In the
broker, two calls compete for a slot; three calls with one key are a result, its
refresh and the reader of either; a budget of one request per Run is exhausted
by the second. `broker_reuse` gives up storage failures for its third call.
`MaxAborts` is the number of calls wherever progress is checked. In `services`, three turns
give a reply and a turn in between, and a time to live of one tick in a clock of
two expires or not; two messages (one of them refused by the schema), three
posts and a change of context give a resend after the context moved and a late
first request, and a reload between two messages sends the second beside the
recovery of the first; three events over pages of two give a gap that needs two pages,
two failed reads exhaust the poll's streak; two steps of two tool calls and one
worker give a halt between two calls; a budget of two crashes and three spawns
lets the budget run out and a resume renew it; two calls and a warm-up over two
connections give a queue behind the holder of the mutex, a joined attempt and a
connection that supersedes another. Trials, supervisor, connector, memory, shadow jobs, dispatch and
notices are explored under several *loads*, each a choice of what its
surroundings may do in one behaviour (pauses, edits, foreground Runs, crashes,
failed writes), so that two or three kinds of disturbance meet without all of
them multiplying. A trial or dispatch load has at most one failing call: one is
enough to leave an alias unfenced or to get past a budget. In `background`, batches of one or two are exceeded by the
jobs there are; two attempts are one retry; quotas of two a day and one at once
are met by three intakes; two deadlines in a clock of three instants lie on both
sides of a restart or a stop.

**Fairness.** `RunEngine!FairSpec`: the poll timer re-arms itself, the watchdog
is a timer, a process that went down is started again. Strategies may hang; that
they settle (the agent enforces a wall clock) is a hypothesis of
`QueuedIsPickedUp` only. `ActionExecution!FairSpec`: the scheduler picks up,
every port call ends by answer or timeout, a process that went down is started
again; the provider and the user owe nothing. Two storage failures in a row (the
second one in the fallback) leave an execution to the next restart, which
`ApprovedIsReported` excepts. `ToolBroker!FairSpec`: the event loop does not stop
while a continuation or a deadline is due; handlers and normalizers owe nothing.
`AgentFairness`: the strategy's own continuations and its step timer run; the
gateway owes nothing. `StreamFairness`: the browser reconnects and delivers,
timers fire, requests end; nothing makes the Run go on. `TrialFairness`: the
runner's poll and its settle loop have deadlines; the bridge owes nothing.
`SupervisorFairness`: the loop polls, the handler's wait is bounded, and a server
process that starts, drains or was killed gets there (a kill is not refused by
the operating system). `McpFairness`: continuations run, timers fire, aborted
operations are rejected; the peer owes neither an answer nor a close.
`MemoryFairness`: every call is bounded by a time-out, back-off passes, the idle
timer is re-armed, other holders return the gate, a stopped process is started
again. `ShadowFairness`, `DispatchFairness`, `NoticeFairness`: the worker's own
continuations, the wall and the one timer fire, foreground Runs end and other
holders return the gate. A part that does not move has no enabled fair action in
its initial state, so the conjunction in `ServicesSpec` and `BackgroundSpec`
asks nothing of it. `BackgroundSettles` excepts what a failed write leaves to
the next wake (`faulted`, `degraded`, `blind`).

## 4. Proofs

`RunEngineProofs` proves, for any sessions, Runs, strategies, concurrency and
any number of failures and restarts, from the assumptions `StoreAssumption` and
`EngineAssumption`:

* `TypeCorrect`, `OneActive`, `CommitBeforeAbort`, `DrainSettles`,
  `NoDeadProposal`, `JournalSound`, `SelectionSound`, `Ownership`: invariants;
  `TerminalFinality`: a step property; `Refinement`: the engine implements
  `RunLifecycle`. `OwnershipSound` has the hypothesis `~WriteEnabled`.

None of the invariants is inductive alone. `IInv` adds: a created row has its
session (so an insert into a free session keeps one active Run); a Run owned,
watched, aborted or out as a task has been started (so `Cancel` of a queued Run
leaves no signal behind, and a sweep settles what it aborts); and a process that
is down owns nothing (so a restart cannot resurrect an abort or a staged entry).
One lemma says how a step moves statuses (an insert, or moves along the edges);
finality and refinement follow from it. Journal, selection and ownership each have
an invariant and a step lemma of their own over `TypeOK`: what a status says of
the journal's last event; the turn's selection against its newest success; and
`OwnershipInv`, by which an active row is owned or was left behind by a refused
proposal. That exception is real (`engine_rejected`), so `OwnershipSafe`, which
has none, is a theorem for compositions without proposals, where
`engine_contention` checks it, and `OwnershipInv` is the one for all.

`ActionExecutionProofs` proves, for any proposals and executions and any number
of edits, failures and restarts, from `ActionAssumption`:

* `TypeCorrect`, `WriteOnce`, `HonestCancel`, `HonestReceipt`,
  `RecoverySucceeds`, `AuditOrder`: invariants; `SettledFinality`: a step property;
  `Refinement`: the action path implements `ActionPromise`.

Its `IInv` has four parts beside the types. `Linked` and `OneExecPerProposal`: an
execution belongs to one approved proposal and is its only one (an approval
needs a pending row, and no decision is taken back). `RowsAgree`: the pair of Run
and execution is one recovery accepts, the grant is consumed exactly with the
marker, a receipt exists exactly at the end, a cancelled Run has no marker.
`Placed`: where the strategy is agrees with the marker and with the request; this
is what makes a late answer harmless after a drain, when the rows are settled and
the strategy is still out. `Counted`: a proposal's writes are its execution's
request. The argument has three step lemmas, one per view of a step: `RowStep`
(inserted, started, opened, ended or abandoned), `StrategyStep` (how one strategy
and its request move) and `ReceiptStep` (a step that writes a receipt has the
evidence for it).

The instance of `action_recovery` has two proposals; that a third decided while
two old strategies are still out changes nothing is covered by these theorems.

`AuditOrder` has a shape of the journal for each state of Run and execution.

`ToolBrokerProofs` proves `TypeOK`, `BrokerSafe`, `ReuseSafe` and the step property
`NothingAfterRunLeft` for any caps, budgets, Runs, keys and calls, from
`BrokerAssumption` and `NoneAssumption` (no request, entry or outcome is the
value that stands for `undefined`). `BrokerInv` says where each call is against
its row, its events, its work and its slots (`CallsInv`, `TracedInv`,
`JournalInv`), what the deduplication table and its followers may hold
(`DedupInv`, `FollowInv`), and what queues and holders of a slot are (`QueueInv`,
`HoldInv`). Two of the parts
carry what no single property says. `DedupInv`, `FollowInv`, `ReuseInv`: an entry of the table is the
newest request of its key that may lead, so a call that follows it, or later reuses
it, had no refresh requested in between, however late it resumes.
`HoldInv`: a slot's count is at least its holders, and may stay above them after a
hand-over (the finding of `broker_slots`); what stays within the capacity is the
set of holders, and this weaker fact is the one that is inductive.

`AdmissionProofs` (the voice gate, the intake, the trials) and `RunStreamProofs`
prove the type invariant and the safety invariant of their modules for any
values of the bounds. What each adds to be inductive:

* gate: every row of the table stands for a refused attempt that was not passed
  since, with its Run and its time (`RowsStandForRefusals`);
* intake: the key and the Run that boot carries exist (`BootStep`), one body per key wherever the key travels, the frozen draft agrees with
  it, and the ledger's rows and Turns name each other (`Ledger`);
* trial: each row of authority is one of the combinations of `Agree`, an ended
  execution is gone from relay and runner, permitted work outside the runner is
  fenced, listed or `slipped`, and a stop holds in the rows, the
  fences and the runner's position; the head of the queue is chosen by a least
  element (`HasLeast`, from the well-foundedness of the naturals);
* stream: a reducer at the end has shown it or is about to be rendered; a page that
  let go has shown the end or a catch-up under way will; the fallback poll and the
  EventSource never read side by side.

`ServicesProofs` does the same for the three components that have no module of
theorems of their own, then composes. `AgentInv`: the steps behind are closed, those
ahead blank, and the present one is open exactly while its call is out or its
response is judged. `SupervisorInv`: a hold is decided only at the top of the loop;
every spawn but the latest, while that one is not accounted for, has its crash on
file; processes are spawned in order; a serving child is the current one.
`McpInv`: a session is unstopped, uncounted and of the present epoch, and until it
is published its attempt is the flight; a dial in its back-off of the present
epoch is the flight, so a second connection cannot replace a live one; whatever is
up and unstopped is the session, so a shutdown fences everything; a call past the
mutex heads its queue. From it `McpSound`: among others the back-off count never
exceeds the number of failed connections, by a cardinality argument. Since each
part of `MCServices` takes its own steps or stays, a behaviour of the services is
one of every part (`ServicesAreParts`), and `ServicesTypeCorrect` and `ProcessSound`
follow from the theorems of the parts without new invariants.

`MemoryOutboxProofs` proves `MemoryTypeOK`, `MemorySafe` and the step property
`QuietAfterStop` for any Runs, operations, batch, attempts, retries and any
number of faults, crashes and preemptions, from `MemoryAssumption`. What the
inductive `MemoryInv` adds to the properties:

* the due list holds each job once, and only pending ones (`DueListed`); this is
  what lets the drain take a page and put a failed job back without making a
  second entry of it;
* an operation is bound to its first job or, once that is acknowledged, to its
  real one; until it is rebound, the first is not acknowledged and the second
  does not exist (`Bound`). So the acknowledgement of a source, the insert of
  its correction and the rebinding of the operation cannot come apart at a crash;
* what is acknowledged is in the store, and the source of a correction that
  exists is (`Applied`), although a call's answer may be lost after it was applied;
* a tick's page is of pending jobs, none twice and none the one being called
  (`TickInv`), so an answer always finds its job pending;
* an extraction, and what it enqueued, has the raw event of its turn before it
  (`CultivationInv`), and the holder of the gate is what runs a model call
  (`GateInv`).

A service that has stopped has no tick (`TickInv`) and writes nothing, which
gives `QuietAfterStop`.

`BackgroundProofs` has an inductive invariant for each of the other three
services, from `NoticeAssumption`, `ShadowAssumption` and `DispatchAssumption`:

* notices: a task whose events are consumed is scheduled just when it is open, and
  an announced one that has left the schedule has an outdated alert (`Followed`);
  a deadline that lapsed under a stop is silenced by the last control write, made
  after the deadline and not before the task's last write (`Timely`). The
  marks of the clock are in the past (`ClockOrdered`), so the next write is no
  earlier than either;
* shadow: what the worker froze at its claim is in force or behind
  (`Frozen`), and if the ground moved since, one of the completion's fences sees
  it: the control's version, the epoch, the lease, the window (`Moved`). Versions
  and epochs only grow and a window only closes under a claim, so no fence forgets
  what it saw. A change is answered by a job of its scope whose epoch, once
  claimed, is no older (`Answered`);
* dispatch: `ExecSound` relates an execution's status, its grant, its link, its
  policy and its copy; an intent of the present control version is of the
  present era (`Captured`), which is what a grant checks although it sees no era.
  The daily cap counts what was spent today and the other `Load`: reservations
  as well as grants, because a process that dies between reserving and granting
  leaves a reservation, and counting grants alone is not inductive; that it
  counts until its policy ends is why no crash opens room for one more. The
  same death leaves copies, which `CopiesBounded` counts with the intake's own,
  blind ones apart; a prune, broken or not, lets go of no copy a worker or an
  open grant may still need (`LetGo`).

As each part of `MCBackground` takes its own steps or stays, a behaviour of the
background is one of every service (`BackgroundIsParts`); `BackgroundTypeCorrect`,
`AutonomySound` and `BackgroundMemorySound` follow from the theorems of the
services.

Each inductive invariant was checked by TLC before its proof, and the proofs led to
changes of the models. In `ChatIntake.StatusOf` and `AgentStrategy.LateAs`
the arms of a `CASE` overlapped, which leaves the choice open where the code has an
order; they are conditions in that order now. `ToolBroker.Abort` removes the waiter
by `indexOf` and `splice` (`Spliced`), and `McpConnector` assumes, as the code has
it, that a call of a tool and an explicit warm-up are different demands.
`MemoryOutbox` enqueues the jobs that are new and takes one from the due list as
functions on positions (`Enqueue`, `Without`), where it filtered with
`SelectSeq`, whose recursion no proof here reaches, and assumes that no Run has
the name of another holder of the gate.

Only model-checked: everything about progress (`QueuedIsPickedUp`,
`CancelSettles`, `ApprovedIsReported`, `EveryCallReturns`, `ServicesProgress`,
`BackgroundSettles`), since liveness under fairness is outside this prover. Every
safety property of a passing run is a theorem; `ActiveIsOwned` is the claim that
`engine_rejected` refutes, and `OwnershipSafe` and `Ownership` are what holds instead.

## 5. Plan

1. *Core (done)*: `RunStore`, `RunEngine`, `ActionExecution` with their abstract
   specifications; `ToolBroker` and `ToolConfirmation`.
2. *Extend (done)*: the intake, the event stream, the agent strategy, trials,
   memory, shadow deliberation, auto-dispatch, notifications, the supervisor and
   the MCP connector.
3. *Prove (done)*: the safety of every component, the two refinements, and the
   compositions of `MCServices` and `MCBackground`.
4. *Later*: references (ordinals, presentation against a Run that ends), the
   adoption of trial results, and the composition of `RunEngine` with
   `ActionExecution` for a failing `isActionRun` read (`engine.ts:447`).

## 6. Not modelled

Most of the repository's lines are not state that changes concurrently: the
pages and panels (`apps/web`, most of `ui/`), routes that validate and forward,
configuration, CLIs, schemas and contracts, model transports and their streaming
parsers, the wire side of the connectors, prompts and rendering, file backup and migration. A
model of them would repeat the code, and its properties would hold by the shape
of the model. The map therefore covers the control of the parts above and a
small share of the whole.

Of the parts with state of their own, these are left out: references and
snapshots (written inside single transactions of a Run that is checked to be
running), learning proposals, handoff and agora documents, persona and
spontaneous chat (whose messages enter through the intake), trial adoption,
execution records. Within the modelled parts, hashes and provenance checks that
compare immutable columns with themselves are left out. `PROJECT.json` lists
each component with its reason.
