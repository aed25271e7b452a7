# Specifications of claude-minions

claude-minions runs coding agents on the tasks of a *workflow*: a graph of tasks with
dependencies, each of which is dispatched to an agent in a terminal session, gated, turned
into a pull request and merged. The engine (`packages/engine`) keeps each workflow as one
row of a SQLite database and moves it by commands; everything else (scheduler,
orchestrators, recovery, gates, merges, HTTP) is an actor that reads the row and issues
commands. Browsers (`packages/web`, and a page the engine serves itself) follow workflows by
event streams and post commands. This directory models that system in TLA+, checks the
models with TLC and proves part of what is checked with TLAPS.

Contents: [inventory](#inventory), [modules](#the-modules), [runs](#the-runs),
[bounds](#the-bounds), [fairness](#fairness), [proofs](#the-proofs),
[disagreements](#where-the-code-and-its-documents-disagree),
[not modelled](#what-is-not-modelled), [plan](#plan).

## Inventory

Paths are below `packages/engine/src` unless they start with `web/` (`packages/web/src`) or
`pwa/` (`packages/engine/pwa`).

| component | state it keeps | operations | what makes it correct |
|---|---|---|---|
| **Aggregate** `domain/types.ts`, `domain/runs.ts`, `application/transitions.ts` | per task: execution and stack status, session, artifacts, run history, version; per workflow: operations, rolled-up status, version | 17 transitions, each with its source statuses, guards and effects | one open run exactly while a task runs; settled tasks stay settled; histories and evidence only grow; the stored roll-up is never stale |
| **Restacks** `application/restack.ts`, `restack-executor.ts` | operations in flight and the nodes they cover; branches and their worktrees | request, start, complete, conflict; execute, resume | a blocked node is covered by somebody's work; every operation ends; every branch gets the new head |
| **Commands** `application/commands.ts`, `domain/events.ts` | none | lookup of a key, get, rule, derive events, save | commands act as if atomic; events tell every change; one operation per key |
| **Repository** `persistence/sqlite-repo.ts` | workflow rows, event log, idempotency records, transcripts | save in one transaction with a version check, get, eventsSince, listRecoverable, delete | no update lost; log and row agree |
| **Fan-out** `persistence/subscriber-hub.ts` | subscribers with buffers | subscribe (register, replay, drain), notify, cap, abort, return | every durable event, once, in order; nobody sleeps on a full buffer |
| **Client** `web/transport`, `web/store` | per connection: snapshot of workflows, a stream and a cursor each, a saved copy | apply event, list, attach, dispose, reconnect | the copy converges to the row; a disposed attachment changes nothing |
| **Scheduler** `application/scheduler.ts`, `scheduler-service.ts` | in-flight keys, failures and backoff | attach, dispatch pass on every task event | dependencies, claims and capacity respected; no wake-up lost |
| **Retry and continue** `retry-task-service.ts`, `continue-task-service.ts` | none (local state across awaits) | mark-ready, create worktree, start session, mark-running, undo | no agent at work that no record names, but one whose stop fails |
| **Orchestrator** `run-orchestrator.ts` | what it has read of its agent's output | follow, save the offset, end, interrupt, recover its run; idle timeout; cleanup | acts on its own run only; a run ends as its log tells; every run ends |
| **Recovery** `recovery.ts`, `recovery-service.ts`, `boot.ts` | idempotency records | probe sessions, plan, act; respawn orchestrators at boot | takes back what died and nothing else; everything stuck is taken back |
| **Gates, local merges** `quality-gate-service.ts`, `local-finalize-service.ts` | per-task controllers, the user's clone | check, pass, fail; compare with the merge target, merge into what the clone has checked out, reset | only its own checks pass a run; a status tells what was merged; nothing waits for ever |
| **Pull requests** `completion-dispatcher.ts`, `merge-service.ts`, `land-workflow-service.ts`, `ci-babysitter-service.ts` | watches, pull requests, worktrees | open, poll, repair, merge, land in order | nothing merged unchecked; a merge is recorded or reported; a head is repaired once |
| **HTTP API** `transport/server.ts` | none | commands, lists, event and transcript streams, plans, deletion | inputs of the above |
| **Assembly** `engine.ts` | which services follow which workflow | boot, attach, periodic scans | no transition falls between a service's look and its subscription |
| **Workspaces** `plugins/workspace` | worktrees, git's record of them, a lock per repository | create, reset, clean up | a worktree is whole when given; one git operation at a time |
| **Runtime, providers** `plugins/tmux`, `plugins/providers` | sessions, panes, pipes, logs | start, stop, probe, attach, parse | every line once, in order, through restarts |
| **GitHub client** `plugins/github` | a token bucket, paging | request with a token, list pages | every call is served |
| **Supervisor, push, observability** `supervisor/`, `push-service.ts`, `observability/` | alerts and when they were given, subscriptions, record queues | rules on records and scans, notify, flush | what must be told is told, history is not told again, no record vanishes |
| **Planner** `planner-service.ts`, `create-workflow.ts` | none | prompt, parse, check the graph, create | proper plans are taken and others are not |
| **Web interface** `web/chat`, `web/views`, `web/pwa` | panel, transcript, retry dialog, gestures | seeds and streams, buttons and slash commands, pull and drag | what was shown stays; one retry per mounted canvas; no gesture hangs |
| **Engine's own page** `pwa/assets/app-v1.js` | route, board, stream, reply box, push banner | routes, loads, events, replies | late answers never land on another workflow's board |

How they interact: every actor calls `applyCommand`; a save notifies the hub; the hub wakes
the services subscribed to the workflow (scheduler, gates, dispatcher, babysitter) and the
streams of clients. All of the engine runs on one event loop, so what interleaves are the
code's stretches between two `await`s, and those are the steps of the models. Three things
outlive a crash of the engine: the database, the sessions of the terminal server with their
logs, and what git and GitHub have.

The hard behaviours: get and save of a command interleave with other commands; the services
keep state across awaits (a plan, a probe, a session they started, the head of a branch);
agents end or time out while they are being recovered; a crash separates starting a session
from recording it, or a merge from its transition; tasks share a clone, a worktree or a pull
request that nothing locks; subscriptions are replayed while events arrive; buffers overflow;
answers come to a screen that shows something else. `PROJECT.json` lists these hazards with
the lines where they bite and the properties that would show them.

## The modules

The core, which share the aggregate:

| module | models | built on |
|---|---|---|
| `Transitions` | the transition table, runs, roll-up and restack state machine, as operators | |
| `Commands` | commands as values: `Outcome`, `Apply`, and the events `DeriveEvents` of two snapshots | `Transitions` |
| `SnapshotReducer` | the browser's reducer of those events | `Commands` |
| `AtomicWorkflow` | one workflow, every command one atomic step, any caller at any time: the abstract specification of the store | `Commands` |
| `WorkflowStore` | `applyCommand` over SQLite: lookup, get and save as separate steps of concurrent callers, version conflicts, retries, idempotency records, the event log, crashes | `Commands`, refines `AtomicWorkflow` |
| `Planners` | `planDispatch`, `planRecovery` and what is done with a recovery action | `Commands` |
| `Dispatch` | scheduler, retry and continue calls, agents, orchestrators, the babysitter's repairs, recovery scans, boot and crashes around one workflow | `Planners` |

Delivery of finished work, composed by `MCDelivery`:

| module | models | built on |
|---|---|---|
| `Restacking` | the executor and its resumption by the recovery scan: branches rebased one after the other, conflicts, crashes, operators who settle the operation meanwhile | `Commands` |
| `LocalDelivery` | `QualityGateService` and `LocalFinalizeService` with their subscriptions and per-task controllers, git in the shared clone, version conflicts, crashes, recovery of stale gates | `Transitions` |
| `GithubDelivery` | dispatcher, babysitter, merges and landings by operators, all through `MergeService`; GitHub from the answers the code tells apart; crashes | `Transitions` |

Below and beside the core, composed by `MCServices`:

| module | models |
|---|---|
| `Worktrees` | worktrees as directories and git's record of them, the promise chain that is the per-repository lock, its timeout, killed and failing commands |
| `Providers`, `AgentRun` | `parseFrame` by the type of a line; pane, pipe, log and sentinel, `attach()` (replay, follow, drain), `runProvider`, the end of the run, shutdown, crash and boot |
| `Supervisor` | every rule with its memory, alerts stored, deduplicated and pushed, the scan loop |
| `Services` | attachment of each kind of service (what it reads first, the graph or the cursor), subscriptions that break, push notifications |
| `GithubClient` | the token bucket with its waiters and timers, paging |
| `LogSink` | the HTTP sink's batches, timer and close, the file sink |

The fan-out and the user's side, composed by `MCClients`:

| module | models |
|---|---|
| `OrderedDelivery` | the promise of a subscription: every event, once, in order, eventually |
| `SubscriberHub` | registration, replay, buffer cap, abort, wake-up, broken connections and resumption; refines `OrderedDelivery` |
| `ClientConnection` | `attachConnection`, streams with backoff and cursors, lists that come late, snapshots, creation and deletion by views |
| `Transcript` | what an agent says: stored, published, streamed and seeded into the panel |
| `TaskPanel` | every request a button, menu or slash command posts and what the engine makes of it; the canvas' retry dialog (uses the engine's own table, `Transitions`) |
| `Planning` | from the prompt over the language model's answer to the stored workflow |
| `PullToRefresh`, `DragToDismiss` | the two gesture hooks: fingers, frames, animations, promises |
| `EnginePage` | routes, loads, the stream, board, reply box and push banner of the engine's page |
| `Positions` | what a filter leaves of a sequence, by the positions it keeps; for `SubscriberHub` and `Transcript` |

`TransitionsProofs`, `AtomicWorkflowProofs`, `WorkflowStoreProofs`, `DispatchProofs`,
`DeliveryProofs`, `GithubDeliveryProofs`, `ServicesProofs` and `ClientsProofs` hold the
theorems, the `MC...` modules the instances.

**The data.** A task is a record of the fields the code's decisions read: both statuses, the
artifact kinds, the session, the runs and the version. Sessions, provider references, keys
and operation ids are opaque. Times, texts and offsets are left out; an age ("stale") is a
choice in the recovery scan that must say yes to a task which was ready at the scan before
(`aged`). Claims are the set of conflicting pairs `Overlapping`, and a priority is a place in
`DispatchOrder`. `Unset` is `undefined`. Each module's head says what else it abstracts.

**Transitions and commands.** `TransitionOutcome` makes the checks of `transitionTask` in the
code's order and answers "ok" or the error code; `TransitionTask` is the new workflow.
`From`, `Target`, `CloseReason`, `ClearsSession` and `AppendsArtifacts` are the columns of the
table `TRANSITIONS`. `RequestRestack` keeps two details of the code: a known key changes
nothing, not even the version (so the save that follows is a version conflict, as in the
code), and an id that is in use is overwritten.

**WorkflowStore.** `pc[p]` is where a caller is suspended. `Save` is one SQLite transaction:
compare versions, insert the idempotency records strictly, stamp the events, replace the
row; or nothing. A `Crash` forgets the callers and keeps `db`, `log` and `recorded`.

**SubscriberHub.** An event is its cursor, a transient event is 0. `stage[s]` is where the
async generator is suspended, `Notify` pushes, trims, aborts and wakes in one step as the
synchronous code does. The reader is the client of the event stream, which remembers the
last cursor it has and resumes from it.

**Dispatch.** `pass[i]` is the rest of the plan of one `dispatchPending` call, a set of tasks
of which the next is the first in `DispatchOrder`; the call claims it in `inFlight` before the
re-read; `kicks` are unread task events. `attempt[t, o]` is
the retry or continue call for `t` by the scheduler, an operator or the babysitter, one step per await
("get", "ready", "create", "start", "mark", and back: "stop", "cleanup"). `watch[s]` is the
orchestrator of session `s`, `scan` the recovery scan (idle, probed, acting on a plan) and
`recovered` its idempotency records. The scans at boot and every five minutes are the same
steps; boot ends with the respawn of orchestrators and the attachment of the scheduler
(`Boot`), except for a completed workflow, which is left out of both (`NothingToRecover`).
A step that can throw does so at the price of one of `MaxFaults`, a stop included: its error is
dropped and the agent works on (`StopSession`). `OrchestratorThrows` is the catch of
`run-orchestrator.ts:181`, which interrupts the run of an agent at work and removes its worktree;
`EndFails` an end of a run whose command fails. `abandoned` notes the agents that were let go of in
one of these two ways; nothing reads it but properties. `Deliver` has the
transitions by which gates, finalizers and merges take a completed task further (those in
`DeliveryKinds`, as the engine is configured; the services are in `LocalDelivery` and
`GithubDelivery`), and `Babysit` sends a task whose pull request failed its checks back to its agent.

**Restacking.** A head is the set of changes it contains, so a rebase is set arithmetic. The
branches outlive a crash, the executor's progress (`exec`) does not; `broken` notes that an
executor has died half-way or met a conflict.

**LocalDelivery.** `gateEvents` and `finalEvents` are what each subscription has not read;
what is resolved is handed over by microtasks, which run before the next callback
(`MicrotasksAreDone`). A branch is a set of changes, a change being the task and
the run that made it. The clone has `Branches` with their contents (`clone`), of which one is
`checkedOut`; `merging` and `lock` are the rest of its state. A task's branch is compared with its
`TargetOf` (`mergeTarget`, or the default branch), which may not exist; it is merged into what is
checked out, and a reset moves that to the head of the target. The user checks out other branches in
between (`Checkout`) but commits nothing there, and HEAD is on a branch. `into` notes what a
task was merged into. `dropped` and `undone` note that a transition met a version conflict and that
a branch was reset or a merge interrupted.

**GithubDelivery.** `calls` are the merges and reviews under way, each with its stage; calls
for one task are not kept apart, as in the code. `checks` has one conclusion per head.
`alarms` are the inconsistencies reported, `repairs` the heads an agent was sent back for.

**Worktrees.** `call[c].waits` is the promise that `c` waits for and `tail` what the map of
locks holds; `arrivals` numbers the calls. An operation that times out gives up the lock and
goes on (`Late`).

**AgentRun.** Offsets count half lines so that a chunk can end inside one. `run` is the
orchestrator with its `attach()`; `saved` and `named` are what the row has of it.

**TaskPanel.** A request is known by who has posted it. `RemountCanvas` is the canvas that is
collapsed or left and comes back: its dialog and its `loading` are new, and the requests it had under
way are answered to nobody.

**The rest** follow one pattern: a variable per field of the code's object or closure, a
record with a stage per promise under way, and an action per callback.

## The runs

| run | module and cfg | what it asks | states |
|---|---|---|---|
| `atomic` | MCAtomicWorkflow | every transition in any order on two dependent tasks, and two overlapping restacks of the parent | 87 thousand |
| `store` | MCWorkflowStore | two callers of the store: runs that are ended, recovered and replaced, restack requests whose ids and keys collide, crashes | 43 thousand |
| `dispatch_calls` | MCDispatch, MCDispatchCalls | scheduler, operator, babysitter and scan compete for one task, or one step fails | 1.4 million |
| `dispatch_crash` | MCDispatch, MCDispatchCrash | one crash and one fault | 327 thousand |
| `dispatch_chain` | MCDispatch, MCDispatchChain | a dependent task, overlapping dispatch passes, repairs | 65 thousand |
| `delivery` | MCDelivery | restacks, gates and local merges, pull requests | 200 thousand |
| `services` | MCServices | worktrees, logs of agents, attachment, alerts, rate limit, sinks | 378 thousand |
| `clients` | MCClients | fan-out, connections, transcripts, panel, planning, gestures, the engine's page | 158 thousand |
| `claims`, `double_dispatch`, `stale_ready` | MCDispatch | sentences of the documents the code does not keep | |
| `offered_cancel` | TaskPanel, MCOfferedCancel | a button the code does not honour | |

`MCDelivery`, `MCServices` and `MCClients` put modules that share no state into one instance:
`part` says which of them a behaviour is about, and the others rest. A property of one of
them is then checked on that module's own state space.

`atomic`

- `RunsFitStatus`: one open run, the last, exactly while running, and of the task's session.
- `StatusIsRollup`: the stored status of the workflow is that of its stored tasks.
- `BlockedIsCovered`: a blocked task is covered by an operation in flight or one that met a
  conflict. (Each operation id is used with one key: both come from who posts the request and
  nothing checks that an id is new; a reused one overwrites the operation and the property is
  lost.)
- `NothingIsUndone`: settled tasks stay, histories and evidence only grow, and only the
  completion of a restack that covers a task makes it clean.
- `EventsTellEveryChange`: a copy to which the derived events are applied, in whatever order, is
  the new snapshot.

`store`

- `CommandsAreAtomic`: the refinement of `AtomicWorkflow`.
- `LogTellsWorkflow`: replaying the log from the start gives the row.
- `OneOperationPerKey`, though the lookup precedes the transaction: the records are inserted
  in it.
- `FencedBySession`: who names a session that was replaced changes nothing.
- `EveryCallReturns`.

`dispatch_calls`, `dispatch_crash`, `dispatch_chain`

- `NothingIsLeaked`: whatever races and whatever single step fails, an agent at work that nobody
  watches is one whose orchestrator threw or whose stop failed (`abandoned`: the code drops both), or
  that a crash has orphaned; and `inFlight` is exactly what passes and attempts hold.
- `RunOutlastsAgent`: no late orchestrator and no scan with an old probe takes a run from its live
  agent. Its own orchestrator does, when it throws or cannot stop the agent, and so does the recovery of a
  stale ready task, which carries no session; both are exempt, as the code has it.
- `EveryRunEnds`.
- `DependentsWait`: the scheduler starts a task only after each of its dependencies has been through
  a run, although a dispatch from an old plan reads only its own task again and the babysitter,
  recovery or an operator may have sent a dependency back. It cannot say that no dependency is at work:
  the babysitter does send one back while its dependents run (see below).
- `DueTaskIsTaken`: no wake-up of the scheduler is lost. A task whose dispatch failed is exempt;
  for it the code waits for the next event.

`delivery`

- `UndisturbedRestackReachesAll`: a restack that completes has brought the head into every
  branch it can reach, unless an executor before it died half-way or met a conflict.
- `EveryRestackEnds`, through crashes and operators who settle it meanwhile.
- `StatusTellsBase`: the changes of a merged task are in the branch that was checked out at its
  merge, and those of the last run of one sent to review are in no branch. That branch need not be the
  task's merge target (see below). A finalizer that was killed, or reset the base, or lost its transition to a
  version conflict ends the claim: the code has no answer to these.
- `NothingPassesUnchecked`: a run passes its gate by a check of that run; the babysitter merges
  no commit of an agent of which no check ended without failure.
- `DeliveryMovesOn`, unless a service's transition met a version conflict: it is not tried again.
- `MergeIsTold`: merged means merged on GitHub, and a merge without faults and crashes is
  recorded, about to be, or reported as inconsistent.
- `OneRepairPerHead`: no head is repaired twice.
- `FinalizingMovesOn`: the dispatcher opens a pull request for every finalizing task, if no
  request fails and no operator merges it.

`services`

- `LockIsExclusive`, `GivenWorktreeIsWhole`: except through operations that overran their
  timeout and go on without the lock, and git commands that were killed.
- `OutcomeFitsLog`: a run is completed, recovered or interrupted as its log tells; not so when the
  log was resumed past its start or reading it failed.
- `LinesAreReadOnce`: replay, following and draining give every line once and in order.
- `ScanMeetsTail`: no transition falls between a service's look at the graph and its place in the
  log. The babysitter reads in the other order (`ci-babysitter-service.ts:198`) and is exempt.
- `HistoryIsNotPushed`: `push-service.ts` says so of itself.
- `EveryInconsistencyIsTold`: the deduplication of alerts does not swallow one.
- `EveryCallIsServed`, `EveryRecordIsSettled` (delivered, or counted in a record of what was
  dropped).

`clients`

- `EveryEventInOrder`: every step of the hub is one of `OrderedDelivery` or none; with it
  `PendingIsGapless`, what a subscriber still owes has no gap, and `OnlyBacklogAborts`, no flood
  of transient events ends a stream.
- `DetachedIsSilent`: what a disposed connection had asked for changes nothing.
- `ScreensCatchUp`: a reader gets every event (the liveness of `OrderedDelivery`), and the store
  and the board of the engine's page become equal to the engine's state once it rests. A workflow that a late list overwrote is exempt (see below).
- `ShownStaysShown`: no seed, stream or late answer takes from the transcript on show.
- `OneRetryPerCanvas`: a canvas has at most one retry of its own under way, and its buttons are
  disabled exactly as long. It knows nothing of what it posted before it was unmounted, so there can be
  two in all.
- `ProperPlansAreTaken`: a plan becomes a workflow exactly if it is a graph of whole tasks, by a
  definition that does not walk the graph as the code does.
- `GesturesEnd`: a promised refresh runs and ends, and no finger that left is waited for.
- `ShownIsRouted`: board, stream and reply box belong to the workflow that is routed.

**Mutants.** Every property has a mutant in `PROJECT.json`: a definition with a plausible slip
(named as such beside the definition) under which the property fails.

## The bounds

Every bound is a constant or a conjunct of an `MC` module. They were chosen so that the case a
property is about occurs:

- `BusyVersions` ends a history after so many commands: in `atomic` ten for transitions
  (pending to the end of a second run takes six, with the other task's moves between) and
  fifteen with restacks (two operations to their ends take six, the child's own life three
  more); in `store` six and four, where two callers with three tries each meet every conflict.
- `Dispatch`: two sessions tell a run from its successor; one unread event stands for any number,
  since a pass reads the whole row; two passes overlap; one fault (in `dispatch_calls` and
  `dispatch_crash`) and one crash can hit any step. In `dispatch_calls` either an operator asks for
  something or a step fails (`OneDisturbance`). In `dispatch_chain` a parent is sent back while its child works,
  but agents leave no session to resume (`Refs = {}`), so that its repair is refused; `dispatch_calls` has
  repairs that start, and the theorem is about all of it.
- `Restacking`: a chain of three (the theorem is about any graph), so that there is a branch before, at and after a failure; two
  operations, three heads of the ancestor, one crash, fault or outside call.
- `LocalDelivery`: two tasks that conflict, two runs each, two branches, each the target of one task,
  of which either is checked out at first; one crash, one version conflict. The gates' part has no
  checkouts, and the clone's part no retries and no checkouts after a restart.
  `GithubDelivery`: a stack of two, four runs (three repairs of one task), one move of the base, one
  operator, one fault and one crash, in four parts (repair, merge, ask, land), each with what it
  needs.
- `Worktrees`: three calls for one task, the least with a holder, a waiter and one behind it, from
  no directory, a whole worktree and a directory without its marker. `AgentRun`: eight scripts that
  have, for each agent, lines that close a turn and lines that tell of a failure, and a broken
  connection, a line that is no JSON and one that names the conversation; one fault, one crash.
  `Supervisor`: one run and two reports for rules that compare with the last. `Services`: three
  events and one restart. `GithubClient`: a bucket of one token and two pages. `LogSink`: settings of
  1, 2 and 9 with three records: below, at and above.
- `SubscriberHub`: a cap of two and bursts of three overflow before, during and after a replay; two
  lost connections. `ClientConnection`: two workflows, two requests, two attachments, one fault.
  `Transcript`: two tasks, two runs, two lines each. `TaskPanel`: one move of the engine between
  two clicks. `Planning`: every graph on up to three tasks (a cycle needs two, one that the first
  task does not reach three) and five other plans. Gestures: two fingers, three or two presses.
  `EnginePage`: four events, routes (the same workflow again too) and faults in all.

Deadlock is not checked (`CHECK_DEADLOCK FALSE`) because commands, requests and faults are
bounded and work may be done.

## Fairness

Weak fairness of what the event loop, a timer or an answer will bring by itself:

- `WorkflowStore`: a suspended call is resumed.
- `SubscriberHub`: a generator asked for its next event runs; the reader reads and reconnects (a
  timer in `sse.ts`).
- `Dispatch`: passes, calls and orchestrators go on; backoff timers run out; agents end, or are
  ended by the idle timeout; the scan is made again and again (the interval in `engine.ts`).
- `Restacking`: scans, and the git commands they await. `LocalDelivery`: microtasks first, then
  checks, git commands and scans. `GithubDelivery`: the dispatcher's requests are answered.
- `GithubClient`: timers, time, answers. `LogSink`: its timer and posts.
- `ClientConnection`, `EnginePage`, `PullToRefresh`: requests are answered, streams reopen,
  frames and animations come, the refresh promise settles.

Nothing an operator, an agent or a fault does is fair. In the composed instances a fairness
condition is on one part, or on a disjunction of steps of different parts, which is the same
since `part` never changes.

## The proofs

The theorems hold for every graph, set of sessions, callers, keys, operations, requests and
tasks, and use no bound on how often something happens. Those about `MCDelivery`, `MCServices`
and `MCClients` are of the composed specification, whose run checks the same definition.

`TransitionsProofs` has the lemmas about the operators of `Transitions` and `Commands`.
`WorkflowInv(w)` says that a workflow has its type, that each task has one open run exactly
while running and then names its session (`TaskInv`), that an idle task has no session, and that
a task which names a session names that of its last run (`NamesLastRun`). It is inductive as a
whole only: that a transition keeps one open run needs that the task had a session exactly while
running, and that recovery leaves an idle task sessionless needs the types. `ApplyInv` is the
result: every command that is accepted keeps it (`UpdateTaskInv` by the kinds that open, close
or patch a run, `GraphCommandShape` for restacks).

It also has the argument about the events. A browser applies a list of events one after the
other, and what a list gives cannot be had by induction here; but two replays that start alike
can differ only from a least place on (`SameTale`, by `LeastNumber`), so that a replay of a log and
some more events is the replay of the log and then of those (`ReducedOnwards`). A command is
`Tellable` if what it does to a task can be told with one event of each kind: at most one run more,
at most one run ended, nothing else changed about a run that is over. Every accepted command is
(`ApplyTellable`), and this is what the proof asks of the code, since `deriveEvents` has at most one
run event of each kind per task. Then after any number of the events a copy has in each field the
new value if the event of the field is among them and the old one otherwise (`PartlyTold`),
which is inductive over the places of the list whatever its order, because each event changes fields
of its own (`EventsAreApplied`). A browser's copy need only fit the workflow (`Fits`): have
its statuses and runs, and no later version of a task (`EventsTell`).

`AtomicWorkflowProofs` adds the roll-up to it (`IInv`) and proves `RunsFitStatus`,
`StatusIsRollup`, `SettledHasNoOpenRun` (no settled status is "running", and the roll-up is
fresh), the action property `NothingIsUndone` with its four parts, and `EventsTellAll`:
`EventsTellEveryChange` for every order of the events. `BlocksAreCovered` proves
`BlockedIsCovered` under one hypothesis, `OneKeyPerId`: an operation id comes with one key. Both
come from who posts the request (`restack.ts:150`), and nothing checks that an id is new: one that is
used again with another key overwrites the operation, and what it covered stays blocked
uncovered. The invariant adds that an
operation has the key of its id (`KeysFit`), from which a request for an id that exists changes
nothing.

`WorkflowStoreProofs` proves:

- `VersionsNameWorkflows`: a copy of the row's version is the row, because versions only grow and
  each is given to one row. This is why comparing versions suffices.
- `StoreImplementsAtomic`: the refinement, with the row as the abstract workflow. A successful
  save is the command applied to the copy, which is the row; every other step stutters.
- `FencedByLastRun`: `WorkflowInv` carries over to the row (`RowInvariance`), so a save that
  passes the fence finds that the task names the session, which is then that of the last run.
- `KeysNameOperations`: a new operation's key was not recorded when it was saved, and no other
  command adds or renames one (`ApplyKeys`).
- `LogTellsRow`: a browser that has replayed the log from the creation of the workflow has a copy
  that fits the row (`LogInv`); a save that succeeds appends the events of its command to the row
  in the same step (`SaveIsTold`), and nothing else touches either. That the row does not change
  without the log is what the proof has from the transaction.
- `StoreTypes`: type correctness.

`DispatchProofs` rests on `WhoCommands`, which says for each step of scheduler, calls,
orchestrators, recovery and boot what command it gives the row, if any. Then:

- `NothingLeaks`: a live agent is held by its orchestrator or by the call that has started it, unless
  one of these has let go of it (`abandoned`), and each call and each pass with a plan holds one claim of its own (`LeakInv`). That claims are not
  shared (`OneClaimEach`) is what makes it inductive: a call that ends releases `inFlight`, which
  must not be another's.
- `RunsOutlastAgents`: what a scan or an idle timeout believes to be gone is gone, however old the
  belief, because a session is used once (`GoneIsGone`), unless it was the stop at a timeout that failed. So no
  recovery that names a session takes a run from a live agent that was not abandoned.
- `DependentsRunLast`: a dependency that has succeeded has a completed run in its history, and a
  history only grows; so what is planned, being started or running depends on tasks that have been through a
  run, whoever sends them back later. Of tasks that run it is said until an operator asks for something,
  since an operator's retry does not look at dependencies (`retry-task-service.ts` checks the task's
  own status only).
- `DispatchTypes`: type correctness. The order of a plan is proved total on the way.

`DeliveryProofs`:

- `OwnGatePasses`, the gate's half of `NothingPassesUnchecked`: a check that has looked at its task
  is aborted, or its run still waits, or the event that aborts it is the next one to be consumed
  (`Watched`). The last case is why it is inductive, and why it matters that the service consumes
  events in microtasks: a callback that could pass the task finds the queue empty (`Settled`).
- `WhatStatusTells` proves `StatusTellsBase`. A finalizer beyond its first look belongs to a task
  that is finalizing or cancelled meanwhile (`FinalsFit`); whatever is in a branch of the clone or of a task
  is based or the branch's own (`ChangesFit`); and a task is merged, or its finalizer about to
  accept, only with its branch in the one it was merged into, while that of a task under review is in none
  (`StatusFits`). No lock is needed for this, which is what the overlap of finalizers puts in doubt,
  and it holds for any branches, targets and checkouts.
- `UndisturbedReachesAll` proves `UndisturbedRestackReachesAll`, for any graph, any number of
  operations, moves of the ancestor, settlements by operators and crashes; of `Restacking` alone it is
  `RestackReachesAll`. A restack completes for the moves that were asked for, although its executor
  starts from branches another restack has moved, so what it relies on must be said of all branches
  at once (`Level`): as long as no executor has died or met a conflict, the branches that can be reached
  have one and the same head of the ancestor, but for those the executor has still to rebase, which
  all have another; and what it has recorded of a task it has passed is a move from the one to the
  other. It is inductive because the heads of the ancestor grow, so that the union a rebase
  makes of two of them and a third is a head again (`MovedHead`); because a task that can be reached
  depends on the ancestor or on a task that can be reached (`EachDependsOnOne`, `ParentsReachable`);
  and because the plan has a task after those it depends on, so that some parent's move is recorded
  by then and any of them will do (`KnownParents`).

`GithubDeliveryProofs` has one invariant (`GithubInv`) for three properties, since each needs
what the others say:

- a call of `MergeService` at a request has a pushed head and a pull request that exists, and one
  that finalizes has a merged one (`CallFits`): `MergesAreTold`;
- a watch of the babysitter whose task is still in review has a head not older than the last one
  reported and not newer than the branch, and a head that is reported is later than any before
  (`PollFits`, `RepairsFit`): `HeadsAreRepairedOnce`, where "later" is by commits of the agent and
  then by base;
- a merge the babysitter makes is of commits whose check has ended, for as long as the task is in
  review nobody commits (`Onward`): `PassesAreChecked`.

What a step only adds to (`Onward`) keeps most of it, so that a step has to be looked at for its own
call or watch only. The attempt to prove these found three cases the properties now name, because
the code has them (see below): `late`, `strays`, and operators who are told apart from the engine's
own callers.

`ServicesProofs`:

- `TheLockIsExclusive`, for any number of calls: tickets differ, the tail of the chain is the last
  arrival, each call waits for the one before it, and so whoever is inside and in time is the
  oldest that is not done (`LockInvariant`).
- `EveryScanMeetsItsTail` and `NoHistoryIsPushed`, for any number of events, restarts, failures and
  browsers: at the end of the log what is known is the status, or will be when the graph that was
  read is scanned (`Knowing`); what is pushed or being sent is behind the service's place in the
  log, which starts where the log was at the start of the engine (`Placed`, `Sending`).
- `GivenWorktreesAreWhole`, for any number of calls and tasks: as long as nobody is late and git was
  not killed, whoever is inside the lock is alone, so that what it has probed, removed or added is
  still so at its next command; a whole worktree is on git's record, and one that is not checked out
  yet is being worked on (`TreesFit`). A "timeout" answer says that somebody is or has been
  late (`LateIsTimeout`), which is what the property exempts.
- `LinesAreOnce` and `RunsEndAsLogged`, for logs of any length and any lines the three parsers tell
  apart: what is left of a chunk goes on from the last line parsed, and chunk and log end where the
  saved and read offsets say (`Reading`); a run is past its last chunk only if pane and pipe are
  gone and the log is read to its end (`Drains`); and what the lines up to the last parsed say is
  noted in the run or still among the events of the line in hand (`Counted`), hence in its outcome
  (`Concluded`). That a line's events tell what the line tells is one lemma over the parsers
  (`FrameTells`).
- `NoInconsistencyIsMissed`, for any number of reports and restarts: for every alert the
  supervisor remembers the store has one that is as young (`AlertsFit`), so what it suppresses has
  been told within the cooldown.

Each is also proved of its module alone, without `MCServices` around it (`LockHolds`,
`NothingIsMissed`, `OnlyNewsIsPushed`, `WorktreesAreGivenWhole`, `EveryLineOnce`, `OutcomesFitLogs`,
`InconsistenciesAreTold`).

`ClientsProofs`:

- `RoutedIsShown`, for any number of workflows, clicks and late answers: a load whose generation is
  the page's was begun for the workflow that is routed (`LoadsAreDated`), and what the page shows
  came of such a load.
- `OneRetryIsUnderWay`: a retry the canvas has posted keeps `loading` set until it is answered, and
  closing the dialog does not reset that; unmounting does, and lets go of the request (`CanvasInv`).
- `TheDetachedAreSilent`: a fetch belongs to the attachment that asked, free ones to none, so that
  only an answer to the present attachment touches what is shown.
- `ShownIsKept` proves `ShownStaysShown`, for any number of tasks, runs, lines and fetches: what is shown is of
  the task on show, and a fetch that was not cancelled is for it (`ShowsOneTask`), so that a change of
  task need only cancel the others. That merging a seed takes nothing from what was shown is
  `MergeFits`, from the elements a filter keeps (`ChosenFits`).
- `EventsComeInOrder`, for any number of subscribers, bursts and lost connections and any cap: what
  the reader has, the frames on the way and the rest of the replay go on from each other without a
  gap (`OnTheWay`, `Replaying`); the durable events of the buffer increase (`InOrder`) and have
  among them all that are later than the replay (`NothingMissed`). Events may be both in the replay
  and in the buffer; the cursor the generator has yielded decides, and this is why the buffer need
  not begin where the replay ends. That trimming takes transient events only and keeps the order is
  `TrimmedFits`, by counting positions (`Ranks`, `EveryRank`). From this invariant (`HubInv`) follow
  the refinement of `OrderedDelivery` without its fairness (`ReadersMissNothing`), `OwedIsGapless`
  and `BacklogsAbort` of the hub alone.

Assumptions: the named ASSUMEs of the modules (a graph has finitely many tasks, dependencies are a function on them, the command
sets contain commands, the graph is not empty, `Unset` is none of the values it is told apart
from, no operator has the name of one of the engine's own callers, a log has lines of its
agent's types, the hub's caps and bursts are positive, the plan of a restack has each descendant of the
ancestor once and after those it depends on). TLC evaluates them in every
run. `BlocksAreCovered` has the hypothesis named above.

Only model-checked, and why:

- liveness (`EveryRunEnds`, `DueTaskIsTaken`, `EveryCallReturns`, `DeliveryMovesOn`,
  `FinalizingMovesOn`, `EveryRestackEnds`, `EveryCallIsServed`, `EveryRecordIsSettled`,
  `ScreensCatchUp`, `GesturesEnd`): fairness and ENABLED are beyond the prover here;
- `ProperPlansAreTaken`: what the walk through the graph finds in every plan would need an
  induction over it.

Every other safety property of a passing run is proved.

## Where the code and its documents disagree

Shown by runs:

1. `claims`: `domain/types.ts` says the dispatcher prevents two writers of overlapping paths
   from running at once. `planDispatch` compares candidates with holders, not with each
   other: two that become due together are started together.
2. `double_dispatch`: `docs/architecture.md` says recovery idempotency keys prevent double
   dispatch after a restart. A crash between the start of a session and `mark-running` leaves
   an agent no record names, and the task gets a second one.
3. `stale_ready`: the recovery table says stale ready tasks are recovered. The key of a
   recovery has the number of runs in it, and a task stuck in ready twice at one count is
   skipped.
4. `offered_cancel`: the Cancel button posts the transition "cancel"; the engine's kind is
   "cancel-task", and it answers 400.

Read in the source while modelling, and exempted by name in the properties they concern:

- `restack-executor.ts:77`: an executor resumed after a crash half-way leaves the descendants it
  had not reached where they were, if the ancestor has moved on.
- `engine.ts:505-536`: gated work of a workflow that is no longer recoverable is passed but not
  finalized after a restart; a workflow that only waits for pull requests is not followed either.
- `run-orchestrator.ts:181-239`: what `persistTranscript`, a listener or the reading of the log throws
  while the agent works marks its run interrupted and removes its worktree; the agent is not stopped, and nothing
  watches it any more.
- `retry-task-service.ts:113`, `continue-task-service.ts:131`, `tmux-runtime.ts:203`: the error of a stop is
  dropped, and an agent that could not be stopped works on.
- `ci-babysitter-service.ts:471-489`: a task in review whose checks fail is put back to work while tasks that
  were dispatched because it had succeeded are running.
- `local-finalize-service.ts:177`, `:211-237`: a branch is compared with the task's merge target, merged into
  what the user's clone has checked out, and reported as merged into the target. So a merged task's work need not
  be in its target.
- `dagCanvas.tsx:475`, `:522`, `useApiMutation.ts:43`: a canvas that is collapsed or left and mounted again
  has forgotten its request, and offers the retry that is under way once more.
- `local-finalize-service.ts:254`: `reset --hard` to a head read earlier can take another
  task's merge with it.
- `completion-dispatcher.ts:118`: what an operator merges need not have passed its checks.
- `connectionState.ts:101`: a list that failed is not asked for again. An older list that comes
  late overwrites newer events, and the cursor is not rewound.
- `ChatSurface.tsx:487`, `:509`: an event that is seeded and streamed may be shown twice.
  `:573` takes the oldest run for the latest.
- `dagCanvas.tsx:61` offers a retry that `retry-task-service.ts:54` refuses; an answer for one
  task closes the dialog of another.
- `app-v1.js:325`: the push banner says "active" without a subscription.
- `ci-babysitter-service.ts:198`: it reads the workflow before its cursor. `:410`: a watch that was
  dropped while it listed the checks still reports what they say, so that a head may be sent back
  again though the task has been to its agent meanwhile (`late`).
- `merge-service.ts`: a merge that an operator asked for in review, and that gets to open the review
  when the agent is through with its next run, calls pr-open what is not pushed yet (`strays`).
- `git-worktree-backend.ts:453`: a removal that fails leaves git's registration, and the next
  creation is refused.
- Services whose subscription breaks stay deaf until a restart.

## What is not modelled

- The quality plugin: it runs the commands of a configuration file; its report is a choice.
- Authentication, static files, read-only routes, configuration and wiring.
- Deletion as the engine's services see it: `Services` has it for one service,
  `ClientConnection` for clients; `Dispatch` does not.
- Rendering, layout, settings and the service worker of the web interface; `optimistic.ts`, which
  no view uses; failures of IndexedDB.
- tmux, git, GitHub and the language model are external: their answers are choices, from the ways
  the code uses them. A head's check does not change its conclusion.
- A second engine on the same database is in `WorkflowStore` only, and the hub sees the saves of
  its own process, as in the code.
- In `Dispatch` a command is one step, which `WorkflowStore` justifies; restacks are absent and a
  worktree has no identity (`Worktrees` has both sides of that).

## Plan

Done: everything in the inventory but the above. What is left, the most important first:

1. To prove: that `topologicalTasks` gives the plan of a restack what `RestackingAssumption` asks of it,
   and `ProperPlansAreTaken`; both are walks through a graph.
2. `Dispatch` with the worktrees' identities, to state what two attempts at one task do to each
   other's directory.
3. The quality plugin's processes and their timeouts; deletion of workflows in the store.
4. The scope arithmetic of claims against a reference definition over short paths.
