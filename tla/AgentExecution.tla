--------------------------- MODULE AgentExecution ---------------------------
(***************************************************************************)
(* The execution right over the Agents of one durable Task: the state      *)
(* machines of the Task and of its Agents, the lease with its fencing      *)
(* token, the Worker process of every Attempt, the journal of tool calls   *)
(* and provider requests, and the recovery barrier.                        *)
(*                                                                         *)
(* Every SqliteTaskStore method runs in one BEGIN IMMEDIATE transaction,   *)
(* so one method is one atomic step; the Workers, the daemon, the CLI and  *)
(* the recovery engines are separate processes on the same database and    *)
(* interleave between methods.                                             *)
(*                                                                         *)
(* Time.  A lease is only ever compared with the clock, and a renewal      *)
(* requires a lease that has not expired, so the clock is abstracted to    *)
(* the step LeaseExpires and a renewal is a step that changes nothing.     *)
(*                                                                         *)
(* Attempts.  claimAttempt is the only production code that inserts an     *)
(* Attempt; it increments the fencing token and the ordinal together, so   *)
(* the n-th Attempt of an Agent is the execution with fencing token n.     *)
(***************************************************************************)
EXTENDS Naturals, FiniteSets

CONSTANTS
  Agents,    \* the main Agent and the subagents the Task may create
  Main,      \* the main Agent
  Required,  \* subagents whose Delegation is required
  Engines,   \* processes that run the RecoveryEngine: the daemon, every attach
  RegistryEngines,  \* the ones with a WorkerRegistry: the daemon, a resident Worker's attach
  Daemon,    \* the daemon's scheduling pass
  Prompt,    \* no recover() call outlasts a lease that is claimed after it began
  MaxToken,  \* bound: Attempts per Agent
  HostInputs,       \* the kinds of processes that attach
  OperationInputs,  \* the kinds of operations Workers start
  DecisionInputs,   \* the Task states continuation decisions ask for
  AcceptanceInputs  \* the verdicts of the acceptance checks

ASSUME MainAssumption == Main \in Agents
ASSUME RequiredAssumption == Required \subseteq Agents \ {Main}
ASSUME MaxTokenAssumption == MaxToken \in Nat
ASSUME EnginesAssumption == Daemon \in RegistryEngines /\ RegistryEngines \subseteq Engines
ASSUME PromptAssumption == Prompt \in BOOLEAN

VARIABLES
  task,      \* tasks.state
  agent,     \* agents.state of every Agent; "absent" before createDelegation
  dispatch,  \* agent_dispatches.state of the Agent's Dispatch
  lease,     \* leases row: live / expired (unrevoked) / revoked
  token,     \* leases.fencing_token; 0 when there is no row
  journal,   \* ToolStarted without ToolFinished, and active reservations
  pc,        \* the Worker process of every Attempt
  busy,      \* what the session of that Worker is doing
  engine,    \* the recover() call of every RecoveryEngine
  facts,     \* Task-wide facts that completion reads
  resident,  \* the Attempts of resident Workers; the others are foreground:<pid>
  registry   \* the Attempt whose Worker the Agent's descriptor names; 0: none of them

worker == <<pc, busy>>
hosts == <<resident, registry>>
vars == <<task, agent, dispatch, lease, token, journal, pc, busy, engine, facts, resident, registry>>

-----------------------------------------------------------------------------
Tokens == 1..MaxToken

TaskStates == {"draft", "queued", "running", "waiting_input", "waiting_external",
  "paused", "unknown_outcome", "completed", "failed", "cancelled"}

AgentStates == {"absent", "created", "queued", "running", "recovering",
  "waiting_message", "waiting_external", "paused", "unknown_outcome",
  "completed", "failed", "cancelled"}

Terminal == {"completed", "failed", "cancelled"}

Tools == {"read_only", "side_effect"}      \* side_effect: every effect that is not read_only
Operations == Tools \cup {"request"}       \* request: a provider request of any kind

\* Task states a ContinuationDecision of the main Agent asks for.
Decisions == {"completed", "failed", "paused", "waiting_input", "waiting_external"}

Hosts == {"resident", "foreground"}        \* EVER_RESIDENT_WORKER, or foreground:<pid>

ASSUME InputsAssumption ==
  /\ HostInputs \subseteq Hosts
  /\ OperationInputs \subseteq Operations
  /\ DecisionInputs \subseteq Decisions
  /\ AcceptanceInputs \subseteq BOOLEAN

TaskTransitions == [
  draft            |-> {"queued", "cancelled"},
  queued           |-> {"running", "waiting_input", "paused", "cancelled"},
  running          |-> {"waiting_input", "waiting_external", "paused", "unknown_outcome",
                        "completed", "failed", "cancelled"},
  waiting_input    |-> {"queued", "cancelled"},
  waiting_external |-> {"queued", "paused", "cancelled"},
  paused           |-> {"queued", "cancelled"},
  unknown_outcome  |-> {"queued", "failed", "cancelled"},
  completed        |-> {},
  failed           |-> {},
  cancelled        |-> {}]

\* The targets production code asks of transitionAgent: a daemon command on a
\* subagent ("paused", "cancelled"), a Worker that settles its Attempt
\* ("queued") and a Worker that fails before it claims one ("paused").
AgentTransitions == [
  absent           |-> {},
  created          |-> {"queued", "cancelled"},
  queued           |-> {"running", "paused", "cancelled"},
  running          |-> {"queued", "waiting_message", "waiting_external", "paused",
                        "unknown_outcome", "completed", "failed", "cancelled"},
  recovering       |-> {"queued", "waiting_message", "unknown_outcome", "failed", "cancelled"},
  waiting_message  |-> {"queued", "paused", "cancelled"},
  waiting_external |-> {"queued", "paused", "cancelled"},
  paused           |-> {"queued", "cancelled"},
  unknown_outcome  |-> {"queued", "failed", "cancelled"},
  completed        |-> {"queued"},
  failed           |-> {"queued"},
  cancelled        |-> {}]

Idle == [phase |-> "idle", agent |-> Main, exec |-> 0, safe |-> FALSE]

Init ==
  /\ task = "draft"
  /\ agent = [a \in Agents |-> IF a = Main THEN "created" ELSE "absent"]
  /\ dispatch = [a \in Agents |-> IF a = Main THEN "queued" ELSE "absent"]
  /\ lease = [a \in Agents |-> "absent"]
  /\ token = [a \in Agents |-> 0]
  /\ journal = [a \in Agents |-> {}]
  /\ pc = [a \in Agents |-> [n \in Tokens |-> "none"]]
  /\ busy = [a \in Agents |-> [n \in Tokens |-> "no"]]
  /\ engine = [e \in Engines |-> Idle]
  /\ facts = [accepted |-> FALSE, checkpoint |-> FALSE]
  /\ resident = [a \in Agents |-> {}]
  /\ registry = [a \in Agents |-> 0]

-----------------------------------------------------------------------------
(* Task transitions                                                        *)

\* The Task takes an Agent in state s along when it enters `next'.
Carries(next, s) ==
  \/ next = "queued" /\ s \in
       {"created", "paused", "waiting_message", "waiting_external", "unknown_outcome"}
  \/ next \in {"waiting_input", "waiting_external"} /\ s = "running"
  \/ next = "paused" /\ s \notin Terminal \cup {"absent", "unknown_outcome"}
  \/ next \in Terminal /\ s \notin Terminal \cup {"absent"}

\* Mutant: the Task's waiting_input is written to the Agents as it is.
CarriedVerbatim(next) ==
  [a \in Agents |-> IF Carries(next, agent[a]) THEN next ELSE agent[a]]

Carried(next) ==
  [a \in Agents |->
     IF Carries(next, agent[a])
     THEN IF next = "waiting_input" THEN "waiting_message" ELSE next
     ELSE agent[a]]

OpenTools(a) == {op \in journal[a] : op.kind \in Tools}

\* Mutant: required Delegations are not looked at.
CompletionReadyAlone ==
  facts.accepted /\ facts.checkpoint /\ \A a \in Agents : OpenTools(a) = {}

\* assertCompletionReady
CompletionReady ==
  /\ facts.accepted
  /\ facts.checkpoint
  /\ \A a \in Required : dispatch[a] \in {"absent", "completed"}
  /\ \A a \in Agents : OpenTools(a) = {}

\* transitionTask.  A terminal Task settles the Agents and the Dispatches; it
\* leaves the leases alone.
TransitionTask(next) ==
  /\ next \in TaskTransitions[task]
  /\ next = "completed" => CompletionReady
  /\ task' = next
  /\ agent' = Carried(next)
  /\ dispatch' = [a \in Agents |->
       IF next \in Terminal /\ dispatch[a] \in {"queued", "running"} THEN next ELSE dispatch[a]]

Submit == /\ task = "draft"
          /\ TransitionTask("queued")
          /\ UNCHANGED <<lease, token, journal, pc, busy, engine, facts, hosts>>

\* The user, the daemon's sandbox gate and the wall-time deadline.
Pause == /\ TransitionTask("paused")
         /\ UNCHANGED <<lease, token, journal, pc, busy, engine, facts, hosts>>

Resume == /\ task # "draft"
          /\ TransitionTask("queued")
          /\ UNCHANGED <<lease, token, journal, pc, busy, engine, facts, hosts>>

Cancel == /\ TransitionTask("cancelled")
          /\ UNCHANGED <<lease, token, journal, pc, busy, engine, facts, hosts>>

\* Runtime drift found by attach, a missing model or credential found by the
\* daemon, a permission request of a running Worker.
AskUser == /\ TransitionTask("waiting_input")
           /\ UNCHANGED <<lease, token, journal, pc, busy, engine, facts, hosts>>

\* pause-agent, stop-agent and cancel-agent on a subagent.
ControlSubagent(a, next) ==
  /\ a # Main
  /\ next \in AgentTransitions[agent[a]]
  /\ agent' = [agent EXCEPT ![a] = next]
  /\ dispatch' = [dispatch EXCEPT ![a] =
       IF next = "cancelled" /\ @ \in {"queued", "running"} THEN next ELSE @]
  /\ UNCHANGED <<task, lease, token, journal, pc, busy, engine, facts, hosts>>

\* The daemon's exit handler for a resident Worker with a non-zero exit code.
WorkerFailed(a) ==
  /\ task \in {"queued", "running"}
  /\ agent[a] = "queued"
  /\ task' = "waiting_input"
  /\ agent' = [Carried("waiting_input") EXCEPT ![a] = "paused"]
  /\ UNCHANGED <<dispatch, lease, token, journal, pc, busy, engine, facts, hosts>>

\* recordAcceptance: the latest fact is authoritative.
RecordAcceptance(passed) ==
  /\ facts.accepted # passed
  /\ facts' = [facts EXCEPT !.accepted = passed]
  /\ UNCHANGED <<task, agent, dispatch, lease, token, journal, pc, busy, engine, hosts>>

-----------------------------------------------------------------------------
(* Workers                                                                 *)

\* assertLeaseInternal for the lease the n-th Attempt of Agent a was given.
Holds(a, n) == /\ token[a] = n
               /\ lease[a] = "live"

Attached(a, n) == pc[a][n] = "attached"   \* the session lifecycle is installed
Alive(a, n) == pc[a][n] \in {"attached", "released", "settling", "requeueing", "exiting"}

Entry(n, kind) == [exec |-> n, kind |-> kind]
Lost(kind) == [exec |-> 0, kind |-> kind]   \* no process is left to finish it

\* The operation in flight ends without a durable result.
Abandoned(a, n) ==
  IF busy[a][n] \in Operations
  THEN (journal[a] \ {Entry(n, busy[a][n])}) \cup {Lost(busy[a][n])}
  ELSE journal[a]

\* Mutant: a lease that has expired does not stand in the way of a claim.
ClaimableExpired(a) ==
  /\ dispatch[a] \in {"queued", "running"}
  /\ task \in {"queued", "running"}
  /\ agent[a] \in {"queued", "running"}
  /\ lease[a] # "live"

\* What claimAttempt requires.
Claimable(a) ==
  /\ dispatch[a] \in {"queued", "running"}
  /\ task \in {"queued", "running"}
  /\ agent[a] \in {"queued", "running"}
  /\ lease[a] \in {"absent", "revoked"}

\* claimAttempt by a process that has attached to Agent a: a resident Worker,
\* which its descriptor names from the start, or a foreground process.
ClaimAttempt(a, host) ==
  /\ Claimable(a)
  /\ token[a] < MaxToken
  /\ token' = [token EXCEPT ![a] = @ + 1]
  /\ lease' = [lease EXCEPT ![a] = "live"]
  /\ dispatch' = [dispatch EXCEPT ![a] = "running"]
  /\ agent' = [agent EXCEPT ![a] = "running"]
  /\ task' = "running"
  /\ pc' = [pc EXCEPT ![a][token[a] + 1] = "attached"]
  /\ IF host = "resident"
     THEN /\ resident' = [resident EXCEPT ![a] = @ \cup {token[a] + 1}]
          /\ registry' = [registry EXCEPT ![a] = token[a] + 1]
     ELSE UNCHANGED hosts
  /\ UNCHANGED <<journal, busy, engine, facts>>

\* Mutant: the reservation of a provider request is kept in memory.
StartOperationInMemory(a, n, kind) ==
  /\ Attached(a, n) /\ busy[a][n] = "no"
  /\ Holds(a, n)
  /\ journal' = [journal EXCEPT ![a] = IF kind \in Tools THEN @ \cup {Entry(n, kind)} ELSE @]
  /\ busy' = [busy EXCEPT ![a][n] = kind]
  /\ UNCHANGED <<task, agent, dispatch, lease, token, pc, engine, facts, hosts>>

\* startToolExecution and startProviderRequest.
StartOperation(a, n, kind) ==
  /\ Attached(a, n) /\ busy[a][n] = "no"
  /\ Holds(a, n)
  /\ journal' = [journal EXCEPT ![a] = @ \cup {Entry(n, kind)}]
  /\ busy' = [busy EXCEPT ![a][n] = kind]
  /\ UNCHANGED <<task, agent, dispatch, lease, token, pc, engine, facts, hosts>>

\* finishToolExecution and finishProviderRequest.
FinishOperation(a, n) ==
  /\ Attached(a, n) /\ busy[a][n] \in Operations
  /\ Holds(a, n)
  /\ journal' = [journal EXCEPT ![a] = @ \ {Entry(n, busy[a][n])}]
  /\ busy' = [busy EXCEPT ![a][n] = "no"]
  /\ UNCHANGED <<task, agent, dispatch, lease, token, pc, engine, facts, hosts>>

\* The result cannot be persisted, or a reviewer request ends in an error:
\* markExecutionOutcomeUnknown and markProviderOutcomeUnknown.
MarkOutcomeUnknown(a, n) ==
  /\ Attached(a, n) /\ busy[a][n] \in Operations
  /\ Holds(a, n)
  /\ journal' = [journal EXCEPT ![a] = Abandoned(a, n)]
  /\ busy' = [busy EXCEPT ![a][n] = "no"]
  /\ agent' = [agent EXCEPT ![a] = "unknown_outcome"]
  /\ task' = "unknown_outcome"
  /\ UNCHANGED <<dispatch, lease, token, pc, engine, facts, hosts>>

\* The result arrives when the lease is lost or the lifecycle is uninstalled.
DropResult(a, n) ==
  /\ Alive(a, n) /\ busy[a][n] \in Operations
  /\ ~(Attached(a, n) /\ Holds(a, n))
  /\ journal' = [journal EXCEPT ![a] = Abandoned(a, n)]
  /\ busy' = [busy EXCEPT ![a][n] = "no"]
  /\ UNCHANGED <<task, agent, dispatch, lease, token, pc, engine, facts, hosts>>

\* commitCheckpoint, at a settled Turn or before compaction.
CommitCheckpoint(a, n) ==
  /\ Attached(a, n) /\ busy[a][n] = "no"
  /\ Holds(a, n)
  /\ ~facts.checkpoint
  /\ facts' = [facts EXCEPT !.checkpoint = TRUE]
  /\ UNCHANGED <<task, agent, dispatch, lease, token, journal, pc, busy, engine, hosts>>

\* recordContinuationDecision of the main Agent at a settled Turn; the Turn
\* has committed a checkpoint.
RecordDecision(n, next) ==
  /\ Attached(Main, n) /\ busy[Main][n] = "no"
  /\ Holds(Main, n)
  /\ facts.checkpoint
  /\ busy' = [busy EXCEPT ![Main][n] = next]
  /\ UNCHANGED <<task, agent, dispatch, lease, token, journal, pc, engine, facts, hosts>>

\* The Task transition the decision asks for, in a transaction of its own that
\* asserts no lease; a transition the table refuses throws and is never tried
\* again.
ApplyDecision(n) ==
  /\ Attached(Main, n) /\ busy[Main][n] \in Decisions
  /\ \/ TransitionTask(busy[Main][n])
     \/ /\ \/ busy[Main][n] \notin TaskTransitions[task]
           \/ busy[Main][n] = "completed" /\ ~CompletionReady
        /\ UNCHANGED <<task, agent, dispatch>>
  /\ busy' = [busy EXCEPT ![Main][n] = "no"]
  /\ UNCHANGED <<lease, token, journal, pc, engine, facts, hosts>>

\* The task_update tool of the main Agent: wait and fail.
TaskUpdate(n, next) ==
  /\ Alive(Main, n) /\ busy[Main][n] \in Tools
  /\ TransitionTask(next)
  /\ UNCHANGED <<lease, token, journal, pc, busy, engine, facts, hosts>>

\* The agent_spawn tool of the main Agent: createDelegation.
CreateDelegation(n, a) ==
  /\ Alive(Main, n) /\ busy[Main][n] \in Tools
  /\ agent[a] = "absent"
  /\ task \notin Terminal
  /\ agent' = [agent EXCEPT ![a] = "queued"]
  /\ dispatch' = [dispatch EXCEPT ![a] = "queued"]
  /\ UNCHANGED <<task, lease, token, journal, pc, busy, engine, facts, hosts>>

\* queueMessage with high priority wakes an Agent that waits.
Woken(b) == IF agent[b] \in {"waiting_message", "waiting_external"} THEN "queued" ELSE agent[b]

\* The agent_message tool, high priority.
MessageAgent(a, n, b) ==
  /\ Alive(a, n) /\ busy[a][n] \in Tools
  /\ a # b
  /\ agent' = [agent EXCEPT ![b] = Woken(b)]
  /\ UNCHANGED <<task, dispatch, lease, token, journal, pc, busy, engine, facts, hosts>>

\* Mutant: the state of the Dispatch and of its Agent is not looked at.
FinalizableAgain(a) == a # Main /\ dispatch[a] # "absent" /\ task \notin Terminal

\* finalizeAgentDispatch
Finalizable(a) ==
  /\ a # Main
  /\ dispatch[a] \in {"queued", "running"}
  /\ agent[a] \notin Terminal
  /\ task \notin Terminal

\* The agent_report tool: a high-priority message to the main Agent and the
\* end of the Dispatch, in one transaction that asserts no lease.
ReportDispatch(a, n, status) ==
  /\ Alive(a, n) /\ busy[a][n] \in Tools
  /\ Finalizable(a)
  /\ dispatch' = [dispatch EXCEPT ![a] = status]
  /\ agent' = [agent EXCEPT ![a] = status, ![Main] = Woken(Main)]
  /\ UNCHANGED <<task, lease, token, journal, pc, busy, engine, facts, hosts>>

\* finalizeSettledSubagent: a subagent settles its Turn without a report.
FinalizeSettled(a, n, status) ==
  /\ Attached(a, n) /\ busy[a][n] = "no"
  /\ Holds(a, n)
  /\ Finalizable(a)
  /\ dispatch' = [dispatch EXCEPT ![a] = status]
  /\ agent' = [agent EXCEPT ![a] = status]
  /\ UNCHANGED <<task, lease, token, journal, pc, busy, engine, facts, hosts>>

\* Time passes beyond leases.expires_at.  recover() is straight-line code whose
\* awaits are resolved already, a lease lasts leaseSeconds: Prompt says that a
\* call which began before the lease was claimed is over by then.
LeaseExpires(a) ==
  /\ lease[a] = "live"
  /\ Prompt => \A e \in Engines :
       engine[e].phase # "idle" /\ engine[e].agent = a => engine[e].exec = token[a]
  /\ lease' = [lease EXCEPT ![a] = "expired"]
  /\ UNCHANGED <<task, agent, dispatch, token, journal, pc, busy, engine, facts, hosts>>

\* run() after the stop signal: uninstall the lifecycle, read the Task and
\* releaseLease; a lease that is lost makes run() throw instead.
Release(a, n) ==
  /\ pc' = [pc EXCEPT ![a][n] =
       IF ~Holds(a, n) THEN "exiting" ELSE IF task = "running" THEN "settling" ELSE "released"]
  /\ lease' = [lease EXCEPT ![a] = IF Holds(a, n) THEN "revoked" ELSE @]
  /\ UNCHANGED <<task, agent, dispatch, token, journal, busy, engine, facts, hosts>>

\* A resident Worker is drained when its session has become idle; the user of a
\* foreground process quits at any time, and its session is not waited for.
Stoppable(a, n) == busy[a][n] = "no" \/ (n \notin resident[a] /\ busy[a][n] \in Operations)

\* Mutant: only the Workers of a running Task are stopped.
StopWorkerOfRunningTask(a, n) ==
  /\ Attached(a, n) /\ Stoppable(a, n)
  /\ task = "running"
  /\ Release(a, n)

\* stopWorker, or the quit of a foreground process, then the end of run().
StopWorker(a, n) ==
  /\ Attached(a, n) /\ Stoppable(a, n)
  /\ Release(a, n)

\* Mutant: a renewal that fails is ignored.
HeartbeatIgnoresLease(a, n) ==
  /\ Attached(a, n) /\ busy[a][n] \notin Decisions
  /\ agent[a] \in {"paused", "cancelled"}
  /\ Release(a, n)

\* The heartbeat finds a paused or cancelled Agent, or fails: it starts the
\* abort of the session without waiting for it and signals run() to stop.
HeartbeatStop(a, n) ==
  /\ Attached(a, n) /\ busy[a][n] \notin Decisions
  /\ agent[a] \in {"paused", "cancelled"} \/ ~Holds(a, n)
  /\ Release(a, n)

\* A heartbeat after the wall-time deadline of a Task that is not running (one
\* that is running is paused first: Pause).
DeadlineStop(a, n) ==
  /\ Attached(a, n) /\ busy[a][n] \notin Decisions
  /\ task # "running"
  /\ Release(a, n)

\* The rest of run(): requireAgent finds out whether the Agent is still running ...
SettleAttempt(a, n) ==
  /\ pc[a][n] \in {"released", "settling"}
  /\ pc' = [pc EXCEPT ![a][n] =
       IF @ = "settling" /\ agent[a] = "running" THEN "requeueing" ELSE "exiting"]
  /\ UNCHANGED <<task, agent, dispatch, lease, token, journal, busy, engine, facts, hosts>>

\* ... and transitionAgent, in a transaction of its own, puts it back in the
\* queue from whatever state it has by then, or throws.
RequeueAgent(a, n) ==
  /\ pc[a][n] = "requeueing"
  /\ agent' = [agent EXCEPT ![a] = IF "queued" \in AgentTransitions[@] THEN "queued" ELSE @]
  /\ pc' = [pc EXCEPT ![a][n] = "exiting"]
  /\ UNCHANGED <<task, dispatch, lease, token, journal, busy, engine, facts, hosts>>

\* A resident Worker has drained its session, which its descriptor and its exit
\* report; the user of a foreground process, which lives on, has ended it.
ExitWorker(a, n) ==
  /\ pc[a][n] = "exiting" /\ busy[a][n] = "no"
  /\ pc' = [pc EXCEPT ![a][n] = "exited"]
  /\ UNCHANGED <<task, agent, dispatch, lease, token, journal, busy, engine, facts, hosts>>

\* The process is killed; what it was doing stays in the journal.
CrashWorker(a, n) ==
  /\ Alive(a, n)
  /\ pc' = [pc EXCEPT ![a][n] = "exited"]
  /\ journal' = [journal EXCEPT ![a] = Abandoned(a, n)]
  /\ busy' = [busy EXCEPT ![a][n] = "no"]
  /\ UNCHANGED <<task, agent, dispatch, lease, token, engine, facts, hosts>>

\* A resident Worker writes its descriptor: at its start, at every heartbeat, on
\* adoption and at its end.  The registry keeps one file per Agent.
WriteDescriptor(a, n) ==
  /\ Alive(a, n) /\ n \in resident[a]
  /\ registry' = [registry EXCEPT ![a] = n]
  /\ UNCHANGED <<task, agent, dispatch, lease, token, journal, pc, busy, engine, facts, resident>>

\* The scheduling pass starts a resident Worker for an Agent that is runnable and
\* for which the daemon knows of none (one that it has restarted may know less),
\* whatever the lease; the descriptor of the new process, which has no Attempt
\* yet, takes the place of the one before.
StartWorker(a) ==
  /\ task \in {"queued", "running"}
  /\ agent[a] = "queued" /\ dispatch[a] \in {"queued", "running"}
  /\ "resident" \in HostInputs
  /\ registry' = [registry EXCEPT ![a] = 0]
  /\ UNCHANGED <<task, agent, dispatch, lease, token, journal, pc, busy, engine, facts, resident>>

-----------------------------------------------------------------------------
(* The recovery barrier                                                    *)

\* An unfinished operation recovery cannot resolve: a provider request, or a
\* tool that is not read_only (no adapter for reconcilable writes is installed).
Unresolved(a) == {op \in journal[a] : op.kind # "read_only"}

\* Mutant: provider requests are not looked at.
RecoverySafeForTools(a) == \A op \in Unresolved(a) : op.kind = "request"

\* What recover() concludes from the unfinished operations.
RecoverySafe(a) == Unresolved(a) = {}

\* Whether stopExecution can tell: with a registry, of the execution the Agent's
\* descriptor names; without one, of a foreground execution.
CanProve(e, a) ==
  IF e \in RegistryEngines THEN registry[a] = token[a] ELSE token[a] \notin resident[a]

\* recover() goes on with the execution that holds the expired lease of Agent a.
Stopped(e, a) ==
  /\ engine' = [engine EXCEPT ![e] =
       [phase |-> "stopped", agent |-> a, exec |-> token[a], safe |-> FALSE]]
  /\ UNCHANGED <<task, agent, dispatch, lease, token, journal, pc, busy, facts, hosts>>

\* Mutant: the stop proof does not look at the process.
VerifyStoppedUnseen(e, a) ==
  /\ engine[e].phase = "idle"
  /\ lease[a] = "expired"
  /\ CanProve(e, a)
  /\ Stopped(e, a)

\* Mutant: only the lease of an Agent that is still running is recovered.
VerifyStoppedRunning(e, a) ==
  /\ engine[e].phase = "idle"
  /\ lease[a] = "expired" /\ agent[a] = "running"
  /\ CanProve(e, a) /\ pc[a][token[a]] = "exited"
  /\ Stopped(e, a)

\* recover(): the lease has expired and stopExecution finds the process gone.
VerifyStopped(e, a) ==
  /\ engine[e].phase = "idle"
  /\ lease[a] = "expired"
  /\ CanProve(e, a) /\ pc[a][token[a]] = "exited"
  /\ Stopped(e, a)

\* beginRecovery, after the await; it is given the Agent, not the execution.
BeginRecovery(e) ==
  LET a == engine[e].agent IN
  /\ engine[e].phase = "stopped"
  /\ IF lease[a] = "expired"
     THEN /\ lease' = [lease EXCEPT ![a] = "revoked"]
          /\ agent' = [agent EXCEPT ![a] = "recovering"]
          /\ engine' = [engine EXCEPT ![e] =
               [phase |-> "begun", agent |-> a, exec |-> engine[e].exec, safe |-> RecoverySafe(a)]]
     ELSE /\ engine' = [engine EXCEPT ![e] = Idle]
          /\ UNCHANGED <<lease, agent>>
  /\ UNCHANGED <<task, dispatch, token, journal, pc, busy, facts, hosts>>

\* finishRecovery; it throws when the Agent has left "recovering".
FinishRecovery(e) ==
  LET a == engine[e].agent IN
  /\ engine[e].phase = "begun"
  /\ engine' = [engine EXCEPT ![e] = Idle]
  /\ IF agent[a] = "recovering"
     THEN /\ agent' = [agent EXCEPT ![a] = IF engine[e].safe THEN "queued" ELSE "unknown_outcome"]
          /\ task' = IF ~engine[e].safe /\ task = "running" THEN "unknown_outcome" ELSE task
     ELSE UNCHANGED <<agent, task>>
  /\ UNCHANGED <<dispatch, lease, token, journal, pc, busy, facts, hosts>>

\* The process that recovers dies between two steps of recover().
CrashEngine(e) ==
  /\ engine[e].phase # "idle"
  /\ engine' = [engine EXCEPT ![e] = Idle]
  /\ UNCHANGED <<task, agent, dispatch, lease, token, journal, pc, busy, facts, hosts>>

-----------------------------------------------------------------------------
Control ==
  \/ Submit \/ Pause \/ Resume \/ Cancel \/ AskUser
  \/ \E a \in Agents : \/ \E next \in {"paused", "cancelled"} : ControlSubagent(a, next)
                       \/ WorkerFailed(a) \/ StartWorker(a)
  \/ \E passed \in AcceptanceInputs : RecordAcceptance(passed)

WorkerStep(a, n) ==
  \/ \E kind \in OperationInputs : StartOperation(a, n, kind)
  \/ FinishOperation(a, n) \/ MarkOutcomeUnknown(a, n) \/ DropResult(a, n)
  \/ CommitCheckpoint(a, n)
  \/ \E b \in Agents : MessageAgent(a, n, b)
  \/ \E status \in {"completed", "failed"} :
       ReportDispatch(a, n, status) \/ FinalizeSettled(a, n, status)
  \/ StopWorker(a, n) \/ HeartbeatStop(a, n) \/ DeadlineStop(a, n)
  \/ SettleAttempt(a, n) \/ RequeueAgent(a, n) \/ ExitWorker(a, n) \/ CrashWorker(a, n)
  \/ WriteDescriptor(a, n)

MainStep(n) ==
  \/ \E next \in DecisionInputs : RecordDecision(n, next)
  \/ ApplyDecision(n)
  \/ \E next \in {"waiting_input", "waiting_external", "failed"} : TaskUpdate(n, next)
  \/ \E a \in Agents : CreateDelegation(n, a)

Recovery(e) ==
  \/ \E a \in Agents : VerifyStopped(e, a)
  \/ BeginRecovery(e) \/ FinishRecovery(e) \/ CrashEngine(e)

Next ==
  \/ Control
  \/ \E a \in Agents : LeaseExpires(a) \/ \E host \in HostInputs : ClaimAttempt(a, host)
  \/ \E a \in Agents, n \in Tokens : WorkerStep(a, n)
  \/ \E n \in Tokens : MainStep(n)
  \/ \E e \in Engines : Recovery(e)

Spec == Init /\ [][Next]_vars

(* Fairness.  A lease nobody renews expires.  A heartbeat timer, a provider  *)
(* or a tool that is aborted, and the rest of run() make progress in a       *)
(* process that is not killed; a resident Worker that has drained exits, a   *)
(* foreground process need not.  A recover() call ends, or its process dies. *)
(* The daemon's scheduling pass repeats for ever: it stops the Workers of a  *)
(* Task that is neither queued nor running and calls recover for every       *)
(* expired lease (strong fairness: another pass follows one that is          *)
(* interrupted).  Nothing makes anybody attach.                              *)
RunGoesOn(a, n) ==
  \/ HeartbeatStop(a, n)
  \/ a = Main /\ ApplyDecision(n)
  \/ SettleAttempt(a, n) \/ RequeueAgent(a, n)
  \/ n \in resident[a] /\ ExitWorker(a, n)

WorkerFairness(a, n) ==
  /\ WF_vars(RunGoesOn(a, n))
  /\ WF_vars(FinishOperation(a, n) \/ DropResult(a, n))
  /\ SF_vars(task \notin {"queued", "running"} /\ busy[a][n] = "no" /\ StopWorker(a, n))

DaemonFairness ==
  /\ \A a \in Agents : SF_vars(VerifyStopped(Daemon, a))
  /\ SF_vars(BeginRecovery(Daemon))

FairSpec ==
  /\ Spec
  /\ \A a \in Agents, n \in Tokens : WorkerFairness(a, n)
  /\ \A a \in Agents : WF_vars(LeaseExpires(a) /\ ~Attached(a, token[a]))
  /\ \A e \in Engines : WF_vars(BeginRecovery(e) \/ FinishRecovery(e) \/ CrashEngine(e))
  /\ DaemonFairness

-----------------------------------------------------------------------------
(* Properties                                                              *)

OperationLog == [exec : 0..MaxToken, kind : Operations]
DispatchStates == {"absent", "queued", "running"} \cup Terminal
LeaseStates == {"absent", "live", "expired", "revoked"}
ProcessStates == {"none", "attached", "released", "settling", "requeueing", "exiting", "exited"}
Activities == {"no"} \cup Operations \cup Decisions

\* Every column and every process stays in its type.
TypeOK ==
  /\ task \in TaskStates
  /\ agent \in [Agents -> AgentStates]
  /\ dispatch \in [Agents -> DispatchStates]
  /\ lease \in [Agents -> LeaseStates]
  /\ token \in [Agents -> 0..MaxToken]
  /\ journal \in [Agents -> SUBSET OperationLog]
  /\ pc \in [Agents -> [Tokens -> ProcessStates]]
  /\ busy \in [Agents -> [Tokens -> Activities]]
  /\ engine \in [Engines -> [phase : {"idle", "stopped", "begun"}, agent : Agents, exec : 0..MaxToken, safe : BOOLEAN]]
  /\ facts \in [accepted : BOOLEAN, checkpoint : BOOLEAN]
  /\ resident \in [Agents -> SUBSET Tokens]
  /\ registry \in [Agents -> 0..MaxToken]

\* claimAttempt, releaseLease and beginRecovery: when an Agent has been given
\* a newer Attempt, no process of an older one still has its lifecycle
\* installed, whatever expiries, crashes, pauses and recoveries lie between.
RecoveryBarrier ==
  \A a \in Agents, n \in Tokens : n < token[a] => ~Attached(a, n)

\* The lease, the fencing token and the recovery barrier implement the
\* exclusive right to execute that ExecutionRight promises: attached Workers
\* are the ones that execute, fencing tokens are the epochs.
Right == INSTANCE ExecutionRight WITH
  epoch <- token,
  workers <- [a \in Agents |-> {n \in Tokens : Attached(a, n)}]

\* claimAttempt grants the right only when no Worker has its lifecycle
\* installed, and every other step leaves it or gives it up.
ImplementsExecutionRight == Right!Spec

\* startToolExecution and startProviderRequest commit before the operation
\* starts, and only its own result removes the entry: every operation a
\* process is executing, even one whose lease is gone, is in the journal that
\* recovery and completion read.
WriteAheadJournal ==
  \A a \in Agents, n \in Tokens :
    busy[a][n] \in Operations => Entry(n, busy[a][n]) \in journal[a]

\* beginRecovery and finishRecovery: recovery puts an Agent back in the queue
\* only when no provider request and no tool with side effects is unresolved
\* at that moment, although it looked at the journal in an earlier transaction.
SafeRequeue ==
  [][\A e \in Engines :
       LET a == engine[e].agent IN
       engine[e].phase = "begun" /\ engine'[e].phase = "idle"
         /\ agent[a] = "recovering" /\ agent'[a] = "queued" => Unresolved(a) = {}]_vars

\* agent_report, the settled Turn, cancel-agent and a terminal Task compete to
\* settle a Dispatch: the first one wins, and a settled Dispatch gets no
\* further Attempt.
DispatchSettlesOnce ==
  [][\A a \in Agents : dispatch[a] \in Terminal =>
       dispatch'[a] = dispatch[a] /\ token'[a] = token[a]]_vars

\* assertCompletionReady and transitionTask: a Task that is completed has
\* every required Delegation completed, and a terminal Task has no Dispatch
\* a Worker could still claim.
TerminalTaskIsSettled ==
  /\ task = "completed" => \A a \in Required : dispatch[a] \in {"absent", "completed"}
  /\ task \in Terminal => \A a \in Agents : dispatch[a] \notin {"queued", "running"}

\* The heartbeat: a Worker that has lost its lease detaches, and a resident one
\* ends its process, so that the lease can be recovered.
StaleWorkerStops ==
  \A a \in Agents, n \in Tokens :
    (Attached(a, n) /\ ~Holds(a, n)) ~>
      (~Attached(a, n) /\ (n \in resident[a] => pc[a][n] = "exited"))

\* recoverExpired: the expired lease of a resident Worker is revoked by the
\* daemon, because its process stops and a later pass finds it stopped, unless
\* the Agent's one descriptor has been overwritten by another Worker's.
ExpiredLeaseIsRevoked ==
  \A a \in Agents :
    (lease[a] = "expired" /\ registry[a] = token[a]) ~>
      (lease[a] = "revoked" \/ registry[a] # token[a])

\* The scheduling pass and the heartbeat: the Workers of a terminal Task detach.
TerminalTaskDrains ==
  (task \in Terminal) ~> (task \notin Terminal \/ \A a \in Agents, n \in Tokens : ~Attached(a, n))

-----------------------------------------------------------------------------
(* The inductive invariant behind the safety properties                    *)

OnlyHolderAttached ==
  \A a \in Agents, n \in Tokens :
    Attached(a, n) => n = token[a] /\ lease[a] \in {"live", "expired"}

LeaseHasToken == \A a \in Agents : lease[a] # "absent" => token[a] \in Tokens

\* A stop proof is of an execution that has ended: an older one, or one that
\* does not hold a live lease.
StopProofStands ==
  \A e \in Engines :
    LET a == engine[e].agent IN
    engine[e].phase # "idle" =>
      \/ engine[e].exec < token[a]
      \/ /\ engine[e].exec = token[a]
         /\ pc[a][token[a]] = "exited"
         /\ lease[a] \in (IF engine[e].phase = "begun" THEN {"revoked"} ELSE {"expired", "revoked"})

\* A recover() call that has been overtaken finds no expired lease.
LateFindsNothing ==
  \A e \in Engines :
    engine[e].phase # "idle" /\ lease[engine[e].agent] = "expired"
      => engine[e].exec = token[engine[e].agent]

RecoveringIsRevoked == \A a \in Agents : agent[a] = "recovering" => lease[a] = "revoked"

VerdictStands ==
  \A e \in Engines :
    engine[e].phase = "begun" /\ engine[e].safe /\ agent[engine[e].agent] = "recovering"
      => Unresolved(engine[e].agent) = {}

AbsentIsUndispatched == \A a \in Agents : agent[a] = "absent" => dispatch[a] = "absent"

\* When recover() calls are prompt: what the stop proofs and the verdicts of any
\* number of engines say stays true until they act on them, and only the holder
\* of an unrevoked lease executes.
ExecutionInv ==
  /\ TypeOK /\ WriteAheadJournal /\ OnlyHolderAttached /\ LeaseHasToken
  /\ StopProofStands /\ LateFindsNothing /\ RecoveringIsRevoked /\ VerdictStands
  /\ AbsentIsUndispatched
=============================================================================
