# Verification of Ever's durable control plane

Ever runs long Tasks with Agents that survive crashes, restarts and lost
connections. This directory holds TLA+ models of the parts that make that
safe, the TLC configurations that check them on small instances, and TLAPS
proofs of the main results for every value of the constants. Source paths
below are relative to the repository; `store.ts` is
`packages/long-tasks/src/store.ts`.

## 1. The system

| Part | State | Operations | What is hard |
|---|---|---|---|
| Task and Agent state machine (`store.ts`, `controller.ts`) | `tasks.state`, `agents.state`, `agent_dispatches.state` | submit, pause, resume, cancel, transitions carried from Task to Agents | user commands meet Workers and recovery |
| Attempts and leases (`store.ts`) | `leases` with fencing token, `attempts` | claim, renew, release, expire, revoke | a Worker that lost its lease still runs |
| Operation journal (`store.ts`, `core/long-task-runtime.ts`) | started and finished tools, provider requests | start, finish, mark unknown | a crash between an effect and its record |
| Recovery (`recovery.ts`, `store.ts`) | Agent `recovering`, revoked lease | list, prove stopped, begin, judge, finish | several awaits, several engines |
| Continuation, delegation, reports (`continuation-controller.ts`, `coordinator.ts`) | decisions, Dispatches, Delegations | record and apply a decision, create, report, settle | competing settlements |
| Daemon commands (`cli/daemon-command.ts`, `store.ts`) | `daemon_commands`, pid and socket file | receive, dispatch, forward, complete, fail, acknowledge, prune | retries, lost answers, restarts, a second daemon |
| Session inbox (`extensions/agent-coordination.ts`, `store.ts`) | `agent_messages`, receipts, the extension's sets | queue, claim, deliver, receipt, settle, read, acknowledge | four callbacks and three processes on one row |
| Flows (`flow.ts`, `store.ts`) | `flows`, `flow_nodes`, edges, Dispatches | define, schedule, claim, settle, skip | Agents with several Dispatches, nodes that end in unusual ways |
| Turn loop (`core/agent-session.ts`, `core/long-task-runtime.ts`, `continuation-controller.ts`, `verified-completion.ts`) | decisions, completion requests, acceptance, `next_wake_at` | turn, tool, compaction, decide, apply, prompt, verify | reads, decisions and transitions in different transactions |
| Budgets (`store.ts`) | `budget_reservations`, totals, reviewer ledger | reserve, settle, mark unknown | several Agents at the limit, lost answers |
| Tool permission (`core/permission-kernel.ts`, `store.ts`) | grants, authorizations, denials | compile, decide, ask, approve, start | a decision is used after a review or a question |
| Schedules (`schedule-engine.ts`, `store.ts`) | due time, cursor, claim | list, claim, deliver, mark, pause | crash between claim and delivery, two engines |
| Steering, adoption, event stream, notifications | | | section 6 |
| Agent loop, sessions, client/server, session backends, providers, terminal | | | outside the control plane |

All processes (daemon, resident Workers, command line, foreground sessions)
share one SQLite database. A store method is one `BEGIN IMMEDIATE`
transaction, hence one atomic step; anything can happen between two of them.
`PROJECT.json` lists every component with its status, and the main hazards with
the line where each bites.

## 2. Modules

| Module | Models |
|---|---|
| `ExecutionRight` | abstract: the right to execute an Agent, granted in increasing epochs, never while an earlier Worker executes |
| `AgentExecution` | Task, Agents, Dispatches, leases, resident and foreground Workers, worker registry, operation journal, recovery engines |
| `DaemonCommands` | the daemon's command journal, request handlers, start, shutdown and crash |
| `SessionInbox` | durable messages to an Agent that runs as an interactive Session |
| `FlowPlan` | abstract: what the graph of a Flow promises about the order and the end of its nodes |
| `FlowGraph` | Flows over the tables: Dispatches, Agents, Workers, recovery |
| `TurnLoop` | the turns of the main Agent, continuation rules, verified completion, a required subagent |
| `BudgetLedger` | reservations, charges and the limits of a Task and of its reviewer |
| `ToolPermission` | grants, authorizations, denials, and the start of a tool |
| `Schedules` | schedules and their engines |
| `Sums` | the sum of a function, as the number of its units |
| `MCAgentExecution`, `MCFlowGraph`, `MCBudgetLedger`, `MCSchedules` | instances for TLC |
| `AgentExecutionProofs`, `DaemonCommandsProofs`, `SessionInboxProofs`, `FlowGraphProofs`, `TurnLoopProofs`, `BudgetLedgerProofs`, `ToolPermissionProofs`, `SchedulesProofs` | the theorems about the module of that name and their proofs (section 5) |

### AgentExecution

The columns of the database are variables (`task`, `agent`, `dispatch`,
`lease`, `token`, `journal`, `facts`); a Worker process is a program counter
`pc[a][n]` and the operation it is busy with; a recovery engine is the phase
of its `recover()` call. One action is one store method or one handler; the
map in `PROJECT.json` gives the lines.

* The n-th Attempt of an Agent is the execution with fencing token n.
* Time is abstract: `LeaseExpires` may come at any moment; a renewal changes
  nothing. Operations that a process abandons stay in the journal as
  entries of no execution (`Lost`).
* `side_effect` is every tool effect that is not `read_only`; no adapter in
  the repository reconciles writes. `failed` stands for every unsuccessful
  outcome of a Dispatch. An Agent has one Dispatch.
* What the continuation rules, acceptance and reports decide is an input.
* A process that attaches is a resident Worker, started by the daemon, or a
  foreground process (`resident`). The daemon and the attach of a resident Worker
  prove an execution stopped from the worker registry (`RegistryEngines`), a
  foreground attach from the pid of a `foreground:` execution (`CanProve`), so
  the two kinds never prove the same execution stopped. The registry keeps one
  descriptor per Agent (`registry`): a Worker writes its own at every heartbeat,
  and the daemon writes that of a Worker it starts, whose execution is not
  claimed yet, over the one before (`StartWorker`).
* A Worker that stops detaches and goes on to `exiting`. A resident one then
  ends its process; a foreground one lives on as long as its user likes, so
  that nothing makes it exit. A resident Worker is drained before it stops, a
  foreground user may quit under an operation (`Stoppable`).
* `Prompt`: a `recover()` call does not outlast a lease that was claimed after
  the call began (section 5).

Steps merged because nothing relevant fits between them: `Release` reads the
Task and releases the lease; `HeartbeatStop` checks and stops;
`WorkerFailed` pauses Agent and Task. Steps that are *not* merged:
`SettleAttempt` and `RequeueAgent` (the end of `run()` reads and writes in two
transactions), `RecordDecision` and `ApplyDecision`, and the three steps of
`recover()`. Crashes of Workers and engines fall between any two steps.

### DaemonCommands

A command is a (clientId, commandId) pair; a payload stands for its type and
hash. `row` is its journal row, `handler` the request handler in flight in a
daemon, `late` requests a Worker may still act on though nobody waits,
`effects` what Workers did, `told` the answers sent. Requests carry the number
of times the row was pruned, so that a command sent again after pruning
counts as new.

`ClaimPid` merges the removal of both files and the creation of the pid file
(this drops only a start that fails on an existing file). `OpenJournal` merges
marking and pruning; the daemon does not serve yet. `Age` waits for handlers
of the command: a Worker request ends within 31 minutes, retention is at least
a day. `hello`, `status` and `attach` have no effect of their own.

### SessionInbox

`msg` and `receipt` are the tables; `scheduled`, `recovering`, `visible` are
the extension's sets; `pending` and `transcript` are the Session's follow-up
queue and its durable transcript; `seen` records what the model was shown.
The recipient is a Session, so live delivery always ends with the daemon
having no Worker for it. A request and its successful response are one step
(nothing that could change a receipt fits in between); an unsuccessful
response changes nothing. That compaction may remove a message from later
requests is not modelled.

### FlowPlan and FlowGraph

`FlowPlan` knows a status per node and the graph. `FlowGraph` has the rows
(`flow`, `node`, the queue `dispatch[n]` of the Agent of node n, `agent`,
`task`) and a Worker per Agent. Each node has an Agent of its own, created
by the Flow; `DispatchAgain` gives it further work, as a delegation does, and
the first Dispatch is the node's. Scheduling, preparation of the context, claim
and settlement are separate steps; `Finalize` is the whole of
`finalizeAgentDispatch`, skipping and verdict included. The scheduler's limit
counts all Workers of the Task, so the main Agent's resident one takes a slot
(`MainWorkers`). The refinement maps pauses, crashes, recoveries and further
Dispatches to stuttering.

### TurnLoop

One Task with its main Agent, its Worker, a required subagent and a user. A
turn is a sequence of requests and tools; when it settles, the Worker reads the
Task (`ReadTask`), records a decision (`RecordDecision`), applies it
(`ApplyDecision`) and prompts (`PromptContinuation`), and the user, the
daemon, the subagent and a crash come between any two of these. `Decide` is
`decideContinuation` with all its rules. `index` counts assistant messages in
the Session's context, which `Compact` lowers. What a tool does, what a
criterion finds and how progress is described are inputs.

### BudgetLedger

Costs are small integers: `Worst` is the worst case of a kind of request,
`Charges` what the provider may really charge, more than the worst case
included (`overrun` sums the excess). `spent` is the provider's own count. An
answer carries a usage: what it was charged or, if it failed or was aborted,
what had been seen by then (`Partials`). `after_response` settles the usage;
`unreported` sums the rest. The limits 32, 128, 32, 0.05, 0.002 and 5 % of
`startProviderRequest` are the constants `CompilerLimit`, `ReviewerLimit`,
`AttemptLimit`, `Cap`, `Allowance` and `1/ShareOf`; the tolerance of 1e-9 in
the comparisons, which is for floating-point noise, has no counterpart.

A Worker may die or lose its lease (`Lose`, then `BeginRecovery` and
`FinishRecovery`, two steps as in the code), or exit by itself without waiting
for its request (`Detach`). `finishRecovery` holds back an Agent with an active
reservation, and flags its Task only if that is running just then; a crash of
the engine leaves the Agent `recovering`. `Resume` puts the Task in the queue,
from which a claim takes it to running. `requeued` remembers the requests that
no recovery stands in the way of: those left behind when the Task was last
queued, by an exiting Worker, or by one whose `markProviderOutcomeUnknown`
failed. Terminal states of the Task, after which nothing is sent, are left out.

### ToolPermission

An intent is one that needs confirmation (incomplete metadata, external,
destructive) or a process that needs review; intents allowed by policy never
reach this code's state. A tool call is compiled, decided, reviewed or put to
the user, and started in separate steps of its Worker. Within one Task the
lifetime `workspace` is that of `task`. `consumePermissionGrant` has no
production caller: a grant is used up by `startToolExecution`.

### Schedules

`row` is the table, `claims` the claim events, `engine[e]` one call of
`deliverDue` or `deliverEvents` in progress: its clock, what it listed and what
it has claimed. `log[n]` is the `created_at` of the event with `seq` n. Engines
list events by `created_at` first and `seq` second (`Before`), and a writer may
read the clock before the transaction that gives the event its number
(`store.ts:2273`), so the two orders may differ. Only the order of these times
matters: they are numbers up to `MaxStamp`. Listings are shorter than their
`LIMIT`. `refused` is a history variable: the events whose claim found
the schedule paused or cancelled. `transitionSchedule` reads and writes in two steps. No
production code constructs a `ScheduleEngine` or changes a schedule yet: the
model is of the library's interface, with callers in several processes as the
rest of the store has them.

## 3. Runs

Passing runs:

| Run | Instance | Properties |
|---|---|---|
| `execution` | 1 Agent, 2 Attempts, resident and foreground, requests, 3 engines (daemon, resident attach, foreground attach), fairness | `TypeOK`, `RecoveryBarrier`, `WriteAheadJournal`, `ExecutionInv`, `SafeRequeue`, `ImplementsExecutionRight`, `StaleWorkerStops`, `ExpiredLeaseIsRevoked`, `TerminalTaskDrains` |
| `execution_team` | main Agent and a required subagent, 1 Attempt each, foreground, tools with side effects, 2 engines | `TerminalTaskIsSettled`, `DispatchSettlesOnce` |
| `daemon` | 2 daemons, 1 command, 2 payloads (one the stop command), 1 pruning, fairness | `ExecutedAtMostOnce`, `SuccessIsReal`, `ConclusiveAnswerIsFinal`, `NoHangingCommand` |
| `inbox` | 2 messages, 2 senders, 2 claims per message, fairness | `AcknowledgedWasSeen`, `ReceiptIsInTranscript`, `QueuedMessageIsSeen` |
| `flow` | 3 nodes, 2 subagents at a time, the graphs of `MCFlowGraph` and a cyclic one that is refused, 1 further Dispatch, 1 crash, 1 user command, fairness | `NodeFollowsDispatch`, `DispatchesInOrder`, `FlowVerdict`, `ImplementsFlowPlan`, `FlowSettles` |
| `turns` | 2 criteria (one manual), 4 turns, 2 Attempts, 1 crash or intervention of the user, 1 compaction, fairness | `CompletedIsVerified`, `AutomaticWorkStops`, `SettledTurnIsFollowedUp` |
| `budget` | 2 Agents (symmetric), 2 Attempts and 2 requests each, 2 turns, cost 5 | `BudgetHeld`, `SpendingIsAccounted`, `LedgerAgrees`, `ReviewerShareHeld`, `LostRequestStopsAgent` |
| `permission` | 2 Agents, 1 message, 2 grants, 1 restart, 3 calls | `UsesAreLimited`, `ConfirmedByUser`, `RevisionCounts`, `SpentIsFinal`, `DenialHolds` |
| `schedule` | 3 schedules, 2 engines (symmetric), 1 user, time 0..4, 2 events with 2 creation times, 2 calls, 2 changes | `NoTickTwice`, `MissedTicksAreCounted`, `EventsInOrder`, `DeliveredWasSent` |

Bounds. Two Attempts are needed for an old Worker to meet a new one, and
enough for it; two engines need three (the first recovery, its successor, the
successor's successor). `execution` has provider requests as its operations and
`failed` as its decision, `execution_team` tools and `completed`; the other
operations and decisions, `read_only` tools among them, are covered by the
proofs, which take them all. Two payloads make one identity mean two things; one
pruning lets a command come back. Two daemons are the smallest number that can
interfere. Two messages let one block the other; two claims let a stale claim
be taken over. Three nodes give a chain, along which skipping has to recurse,
and a join. Three continuations reach every rule of `decideContinuation`, the
limits on repetition (2 and 3) and the turn budget (4) included. In `budget`
the request limits and the reviewer's cap are small enough to be met and large
enough not to hide the share; an answer costs more than its worst case, just
that, or reports less. Two creation times let two events stand in either order. Three tool calls let two Agents compete for one
grant and one of them come back. Period 2 and time 4 let a tick be missed; two
calls let two engines work on one list, and two changes let a pause and a
resume both fall into one call.
Deadlock is checked where the system does not stop (`daemon`, `inbox`); the
other models stop when their bounds are used up or their Task has ended.

Runs that end in a counterexample. Each states what the repository says, and
shows what the code does instead (quotations in `PROJECT.json`, `findings`):

| Run | Statement | What happens |
|---|---|---|
| `two_engines` | `RecoveryBarrier` | the daemon and a resident Worker's attach recover; a stop proof for one execution revokes the lease of the next |
| `failed_answer` | `SpendingIsCovered` | a request that failed or was aborted is settled at the usage seen so far, and its reservation given up |
| `timed_wait` | `TimedWaitEnds` | a Task that waits for a time is not taken up when the time has come |

Behaviours the models reach, recorded here without a run of their own.

Execution:

* A Worker that cannot save a result moves a cancelled or completed Task to
  `unknown_outcome` (`store.ts:3291`; `TECHNICAL_SPEC.md:480` gives terminal
  states no successor).
* A crash between releasing the lease and requeueing leaves an Agent that
  nothing lists (`long-task-runtime.ts:399`;
  `LONG_RUNNING_CONTROL_PLANE_SPEC.md:743`); so does a crash of the recovering
  process between `beginRecovery` and `finishRecovery` (`store.ts:3888`).
* The expired lease of a dead foreground process stays until somebody attaches in
  the foreground: the daemon finds no descriptor for it
  (`long-task-runtime.ts:923`). So does that of a resident Worker whose
  descriptor was overwritten by that of another Worker started for the Agent
  (`worker-registry.ts:40`), and no foreground attach takes it up.
  `ExpiredLeaseIsRevoked` is about the other leases.
* A foreground process that lost its lease detaches from the Task and lives on.
* Pausing a Task moves a `recovering` Agent to `paused` (`store.ts:2909`),
  while `TECHNICAL_SPEC.md:535` leaves that state to the RecoveryEngine alone.
* A heartbeat that finds the Agent paused or cancelled stops the Worker, and
  `run()` releases the lease under a tool that is still running
  (`long-task-runtime.ts:799`); its lost result meets no recovery pass.
* The end of `run()` requeues an Agent on a state it read one transaction
  earlier, without a lease check (`long-task-runtime.ts:402`), possibly while
  recovery holds the Agent.

Daemon and inbox:

* Two daemons that start together both pass the pid check
  (`daemon-command.ts:341`) and both serve. The journal properties of
  `DaemonCommands` are therefore checked with two daemons.
* A handler that fails after dispatch journals `uncertain` and answers
  `rejected` (`daemon-command.ts:798`).
* A message acknowledged with `agent_inbox` blocks the settlement of the other
  messages of its turn (`store.ts:4771`).

Flows:

* A recovered node stays `running`, and its queued Agent is not scheduled again
  (`store.ts:2514`).
* Cancelling one Agent skips none of the nodes that depend on it
  (`store.ts:2768`). Skipping a node cancels its Agent's first queued Dispatch
  only.
* An unsafe recovery moves the Task to `unknown_outcome`; the other Agents of
  the Flow stay `running` when their Workers have stopped.

`FlowSettles` names these as the ways a node is stranded (`Stranded`).

Turns:

* After compaction a turn may have the index of an earlier one; its decision is
  taken for a duplicate and not applied (`agent-session-runtime.ts:240`).
* An Attempt that starts from a checkpoint gets no prompt (`task-run.ts:89`).
* The wait for a required subagent makes the daemon stop the subagent's Worker
  (`store.ts:2898`, `daemon-command.ts:390`).
* A decision made on a Task read earlier can undo a resume
  (`continuation-controller.ts:216`); a completion on the last permitted turn
  ends in a budget pause (`continuation-controller.ts:119`).
* A `read_only` tool left open by a crash refuses completion for ever
  (`store.ts:5399`). Manual acceptance does not resume its Task.

Budget, permission, schedules:

* A reservation left by a crash is never settled and makes every later recovery
  unsafe (`store.ts:5431`).
* A foreground process whose user quits releases the lease with a request in
  flight. The reservation stays, but the Agent can be claimed again without a recovery or a question to the user
  (`long-task-runtime.ts:399`), though the specification asks for a recovery
  (`LONG_RUNNING_CONTROL_PLANE_SPEC.md:749`). The same holds when marking the
  outcome as unknown fails, which is ignored (`long-task-runtime.ts:486`).
* An unsafe recovery of an Agent whose Task is queued or waiting leaves the Task
  as it is (`store.ts:3905`) and the Agent in `unknown_outcome`: a queued Task
  has to be paused and resumed before that Agent runs again.
* For some intents the user is offered lifetimes that the decision afterwards
  does not accept (`long-task-runtime.ts:554`, `permission-kernel.ts:651`): the
  call stays blocked.
* A claimed tick is lost when its process dies, as the specification says; a
  claim that was replaced makes marking throw, and the later claims of that
  call are not delivered (`schedule-engine.ts:143`). A pause that races a claim
  can make a completed schedule active again (`store.ts:2065`), without a
  second tick.
* When a schedule is paused and resumed during one call of `deliverEvents`, the
  claim of an event can be refused and that of a later one accepted, and the
  cursor passes the first (`schedule-engine.ts:119`, `store.ts:1955`).
* When two events were created in one order and numbered in the other, the one
  with the earlier creation time and the higher number is claimed first, and the
  cursor passes the other one, which is never delivered (`store.ts:1942`,
  `store.ts:1955`). `EventsInOrder` names these two ways, and there is no third.

Type invariants are part of the inductive invariants of section 5, and proved
with them. Only the run of `AgentExecution` checks one with TLC as well.

Every property of a passing run has a mutant in `PROJECT.json`: a plausible
slip in one definition under which TLC finds the property violated.

## 4. Fairness

* Workers: timers, aborted tools and requests, and the rest of `run()` make
  progress in a process that is not killed. A resident Worker that has drained
  exits; a foreground process need not. A lease nobody renews expires.
* The daemon's scheduling pass repeats for ever; strong fairness says that an
  interrupted pass is followed by another one. It proves stopped what its
  registry lets it prove. Nothing makes anybody attach.
* Daemon: the service manager restarts it after a crash (a clean stop leaves no
  handler and no open row behind), and not every start is killed before
  the journal is open (`run()` does not wait between the pid check and there).
  Handlers take their next step or time out.
* Inbox: claims end or age, a scheduled scan runs, and the Session is used: not
  every turn is aborted before it takes its follow-up messages and completes a
  request. `QueuedMessageIsSeen` is about a Session that stays open from some
  point on.
* Flow: the scheduling pass starts what can be scheduled, Workers claim, work
  and end, and recovery takes up a lost Worker; the user promises nothing.
* Turns: requests, tools, checks and the steps after a settled turn are taken in
  a live Worker, the daemon stops and starts Workers, recovery runs, time
  passes. The user is not fair, nor is the model obliged to ask for completion.

## 5. Proofs

Every safety invariant, action property and refinement of a passing run is
proved by TLAPS for every value of the constants that satisfies the
assumptions below: any number of Agents, engines, daemons, messages, nodes,
schedules, calls and crashes. Six more theorems are the safety halves of the
liveness properties: what waits is not lost, does not change hands and has a
step to take; that the step is taken is left to fairness and to TLC.

| Module | Theorem | Result |
|---|---|---|
| `AgentExecutionProofs` | `TypeCorrect`, `JournalIsWriteAhead` | `TypeOK`, `WriteAheadJournal` |
| | `TaskEndSettles`, `DispatchSettledForGood` | `TerminalTaskIsSettled`, `DispatchSettlesOnce` |
| | `ExecutionInvariant`, `BarrierHolds`, `RequeueIsSafe`, `ExecutionRightImplemented` (`Prompt`) | `ExecutionInv`, `RecoveryBarrier`, `SafeRequeue`, `ImplementsExecutionRight` |
| | `LostLeaseStaysLost` (`Prompt`) | an expired lease is only ever revoked, after its process is gone; a Worker without its lease never holds it again |
| `DaemonCommandsProofs` | `JournalSound` | `JournalInv` |
| | `ExecutedAtMostOnceAlways`, `SuccessIsRealAlways`, `ConclusiveAnswerIsFinalAlways` | the property of that name |
| | `HandlerSettlesRowAlways` | no way out of a handler leaves its row unsettled, but the death of its daemon |
| `SessionInboxProofs` | `TypeCorrect` | `TypeOK` |
| | `AcknowledgedWasSeenAlways`, `ReceiptIsInTranscriptAlways` | the property of that name |
| | `InboxLosesNothingAlways` | what counts as delivered was seen; what counts as scheduled waits or is in the transcript |
| `FlowGraphProofs` | `FlowSound`, `SkippingFindsDispatches` | `FlowInv`; the `throw` in `skipBlockedFlowNodes` is never reached |
| | `NodeFollowsDispatchAlways`, `DispatchesInOrderAlways`, `FlowVerdictAlways` | the property of that name |
| | `FlowImplementsPlan` | `ImplementsFlowPlan` |
| | `FlowNeverStuckAlways` (a free slot) | a Flow at rest and not settled has a node the scheduler can start, or a stranded one |
| `TurnLoopProofs` | `LoopSound`, `TurnsWithinBudget` | `LoopInv`; `turns <= MaxTurns` |
| | `CompletedIsVerifiedAlways` | the property of that name |
| | `AutomaticTurnsLimitedAlways` | at most `MaxAutomatic` continuation prompts per Attempt |
| | `LoopGoesOnAlways` | an automatic Turn ends with a prompt timed, the Worker stopping or the Task not running |
| `BudgetLedgerProofs` | `LedgerSound` | `BudgetInv` |
| | `BudgetHeldAlways`, `SpendingIsAccountedAlways`, `LedgerAgreesAlways`, `ReviewerShareHeldAlways`, `LostRequestStopsAgentAlways` | the property of that name |
| `ToolPermissionProofs` | `PermissionSound` | `PermissionInv` |
| | `UsesAreLimitedAlways`, `ConfirmedByUserAlways`, `RevisionCountsAlways`, `DenialHoldsAlways`, `SpentIsFinalAlways` | the property of that name |
| `SchedulesProofs` | `ScheduleSound` | `ScheduleInv` |
| | `NoTickTwiceAlways`, `MissedTicksAreCountedAlways`, `EventsInOrderAlways`, `DeliveredWasSentAlways` | the property of that name |

### Assumptions

* Bounds, limits and costs are natural numbers (`BoundAssumption`,
  `BoundsAssumption`, `PolicyAssumption`, `CostAssumption`,
  `MaxTokenAssumption`, ...); a charge is one as well. The period of an
  interval is positive, as `parseScheduleInterval` demands, and so is the
  divisor of the reviewer's share.
* Names differ: `None`, where it stands for a NULL column, is no payload,
  number or row (`NoneAssumption`, `NamesAssumption`); the ids of grants and of
  messages do not collide, as uuids do not, and the user's messages are finite in
  number (`MessagesAssumption`); a schedule
  has one kind (`KindsAssumption`).
* Parts belong to their wholes: `MainAssumption`, `RequiredAssumption`,
  `InputsAssumption`, `CriteriaAssumption`, `StopAssumption`; a Flow has at
  least one node and a graph over its nodes (`FlowAssumption`), which need not
  be acyclic: `ValidFlow` refuses the others.
* `Prompt`, in the five theorems marked so: when a lease expires, no `recover()`
  call about that Agent is still under way that began before the lease was
  claimed. Any number of engines may recover at once. `recover()` is
  straight-line code: `stopExecution` looks at a file and a pid and awaits
  nothing, and store calls are synchronous, while a lease lasts `leaseSeconds`
  (30 by default) after its last renewal; only a
  process suspended for that long between two of its steps breaks the
  assumption. Nothing in the code enforces it, and the run `two_engines` shows
  that it cannot be dropped.
* `EnginesAssumption`: the daemon has a registry, and who has one is an engine.
* `MainWorkers < MaxConcurrent`, in `FlowNeverStuckAlways`: the settings leave a
  slot beside the main Agent's Worker. Nothing validates the setting; with
  `maxConcurrentAgentsPerTask` 1 the Worker of the main Agent, while attached,
  keeps the daemon from starting any subagent of the Task. The default is 4.

TLC evaluates the named assumptions on the instances of the runs.

### Inductive invariants

Hardly any of the properties is inductive as it stands, because the code decides
in one transaction and acts in another. Each invariant says what is still true,
when a process acts, of what it found before.

`ExecutionInv`. `RecoveryBarrier` is not inductive: a claim is safe only
because the lease it replaces was released by a Worker that detached first, or
revoked on a proof that still holds. So: only the holder of the current token
is attached, and its lease is live or expired (`OnlyHolderAttached`); a lease
has a token (`LeaseHasToken`); an engine that proved an execution stopped still
finds that process gone and its lease expired or, if another engine was faster,
revoked or replaced (`StopProofStands`), and in the last case it meets no expired
lease (`LateFindsNothing`, where `Prompt` is needed); a
recovering Agent has a revoked lease (`RecoveringIsRevoked`); a positive
verdict is still true (`VerdictStands`), which rests on the journal being
write-ahead.

`JournalInv`. At-most-once does not rest on the pid file (two daemons may
serve) but on the row: only the transaction that inserts the row of a command
creates a handler for it, and the effects and late requests of a handler's
request are nothing before it is forwarded and at most one afterwards
(`LoadsSound`, `HandlersFresh`). One payload per generation of the row
(`OnePayload`), results backed by effects (`ResultsReal`) and answers that
agree with the settled row (`AnswersAgree`) give the rest.

`InboxInv`. A receipt is written only for a message in the transcript that
the model was shown (`ReceiptIsEarned`); senders only touch messages that have
none.

`FlowInv`. The node, its first Dispatch, the Agent and the Worker have states
that fit (`RowsExist`, `RunningIsStarted`, `SameVerdict`); Dispatches start in
order (`StartedInOrder`) and a running Worker works on one that has started
(`LeaseIsClaimed`). For the refinement, a step of the tables is a step of
`FlowPlan` or stutters. The hard case is a failed node: the code skips breadth
first through *queued* dependents, while the plan skips what is open
downstream. Both sets satisfy the same equation, and in an acyclic graph that
equation has one solution. `FlowNeverStuck` needs two facts more: no open node
depends on a failed or skipped one (`BlockedIsSettled`), and an Agent that has
ended leaves no open node (`EndedIsSettled`). Then the open nodes of a Flow at
rest have one that depends on none of them, its sources are all completed, and
its first Dispatch is the one its Agent is given.

`LoopInv`. `assertCompletionReady` does not ask whether completion was
requested. That rests on the decision, taken from a Task state read two steps
before the transition (`VerdictSound`); a Task read as completed still is,
because nothing leaves `completed`. The limit on automatic prompts is a count of
recorded decisions, which grows by one only when it was below the limit; that
the loop goes on needs the prompt each Turn came from (`OriginKnown`), for a
refused transition is handled by it.

`BudgetInv`. A sum is the number of units of its function (`Sums`), so that
adding or deleting a row is a fact about cardinalities (`SumChanges`,
`RowAdded`, `RowDeleted`). `MoneySound` books for each reservation what may
have been charged on it and, for an answer not settled yet, the excess over its
worst case: total plus reservations stay within the budget by what a request
reserves before it is sent, and `spent` is accounted for because a reservation is
given up only against the usage that settles it, and what the usage leaves out
goes to `unreported`. `LostRequestStopsAgent` rests on `LostSound`: the active
reservations of an Agent that can be claimed are all in `requeued`. `LedgerAgrees` needs unique
keys (`KeysAreUnique`), so that settling a request deletes one row, and an
Attempt for every Worker that settles (`WorkersSound`).

`PermissionInv`. What a decision found may be gone when the tool starts. The
limits therefore rest on the checks of `startToolExecution` (`UsesCovered`
counts the tools started per grant and authorization), and the confirmation on
fields of a grant that never change (`CallsSound`).

`ScheduleInv`. An engine works on a list it made earlier. `ListSound` relates
the list to the row as it is now: a listed time is not after the engine's
clock, and between the cursor and a listed event there is nothing but events
still listed, refused before, or overtaken by a claimed event that was created
earlier (`Overtaken`); claims are of logged events (`ClaimsLogged`). `MissedTicksAreCounted` holds by an invariant on
top of it (`TicksCounted`): each claim adds to the sum what it adds to
`next`.

### Only model-checked

Liveness, which is out of the prover's reach: `StaleWorkerStops`,
`ExpiredLeaseIsRevoked`, `TerminalTaskDrains`, `NoHangingCommand`,
`QueuedMessageIsSeen`, `FlowSettles`, `AutomaticWorkStops` and
`SettledTurnIsFollowedUp`. For all but
`TerminalTaskDrains`, whose safety half is `TaskEndSettles`, a theorem of its own
states the part that needs no fairness.

## 6. Not modelled

* Live steering inside a resident Worker: the protocol of `SessionInbox` with an
  in-memory queue in place of the transcript. `DaemonCommands` has its
  forwarding, timeouts and late answers.
* Adoption of Workers by a new daemon (generations and tokens in files). Safety
  of a Worker rests on its lease and token, which are modelled, and of the
  descriptors what the stop proof reads.
* The daemon's event stream: a bounded in-memory view for clients.
* Desktop notifications: delivery is at least once and changes no other state.
* Cron expressions (a calendar library), expiry of grants (no caller sets it),
  the scope language of permissions, the review cache, permission of foreground
  sessions and their reviewer budget.
* The command rows of the command line (`beginTaskCommand`): a repeated command
  is applied again, which the state checks of `applyControl` make idempotent.
* Git workspaces, change bundles, snapshots and prompt contents: I/O without
  protocol state. Provider adapters and generated model lists, rendering,
  telemetry, evaluation harnesses and the wire encoding, which tests reach.
* The in-process agent loop, remote client and server, and session backends are
  outside the durable control plane; most of the repository's lines are in
  these and in the terminal interface and the providers.
