----------------------------- MODULE FlowGraph -----------------------------
(***************************************************************************)
(* A Flow: a dependency graph whose nodes are subagents of one Task.  A    *)
(* node stands for the first Dispatch of its Agent; the main Agent may     *)
(* queue further Dispatches for the same Agent.  The rows of flows,        *)
(* flow_nodes, agents, delegations and agent_dispatches are kept in step   *)
(* by the store methods below, each one transaction; daemon, Workers and   *)
(* commands interleave between them.                                       *)
(*                                                                         *)
(* The status "failed" stands for completed_unaccepted too: the store      *)
(* treats both alike everywhere.  The Task state "running" stands for      *)
(* queued and running: a claim and the scheduler accept both, and "queued" *)
(* becomes "running" with the first claim.                                 *)
(***************************************************************************)
EXTENDS Naturals, Sequences, FiniteSets

CONSTANTS
  Nodes,          \* the node keys of the Flow; one subagent each
  Required,       \* the nodes declared required
  Definitions,    \* dependency sets the Orchestrator proposes to flow_define
  MaxDispatches,  \* bound: Dispatches per Agent
  MaxAgain,       \* bound: Agents that get more than one
  MaxConcurrent,  \* maxConcurrentAgentsPerTask
  MainWorkers,    \* Workers of the main Agent, which count towards that limit
  MaxCrashes,     \* bound: Workers that die
  MaxControls     \* bound: commands of the user that pause or cancel

\* validateFlowDefinition refuses a Flow without nodes and a dependency on a
\* node the Flow does not have; required is a field of a node.
ASSUME FlowAssumption ==
  Nodes # {} /\ Required \subseteq Nodes /\ Definitions \subseteq SUBSET (Nodes \X Nodes)

ASSUME BoundsAssumption ==
  /\ MaxDispatches \in Nat \ {0} /\ MaxCrashes \in Nat /\ MaxControls \in Nat
  /\ MaxConcurrent \in Nat /\ MainWorkers \in {0, 1}

VARIABLES
  task,      \* tasks.state
  flow,      \* flows.state, "none" before flow_define
  edges,     \* flow_edges
  node,      \* flow_nodes.state
  agent,     \* agents.state
  deleg,     \* delegations.state
  dispatch,  \* Agent -> its agent_dispatches in the order of sequence
  worker,    \* Agent -> the process working for it and the Dispatch it was given
  crashes, controls

vars == <<task, flow, edges, node, agent, deleg, dispatch, worker, crashes, controls>>

Terminal == {"completed", "failed", "cancelled"}
NodeTerminal == Terminal \cup {"skipped"}
NoWorker == [phase |-> "none", d |-> 0]

Init ==
  /\ task = "running" /\ flow = "none" /\ edges = {}
  /\ node = [n \in Nodes |-> "absent"]
  /\ agent = [n \in Nodes |-> "absent"]
  /\ deleg = [n \in Nodes |-> "absent"]
  /\ dispatch = [n \in Nodes |-> <<>>]
  /\ worker = [n \in Nodes |-> NoWorker]
  /\ crashes = 0 /\ controls = 0

Sources(n) == {e[1] : e \in {f \in edges : f[2] = n}}

-----------------------------------------------------------------------------
(* Definition *)

\* The nodes that wait for nothing outside of S.
Wave(g, S) == {n \in Nodes : \A s \in Nodes : <<s, n>> \in g => s \in S}

\* validateFlowDefinition peels off waves of nodes whose dependencies are all
\* in earlier waves, and throws when a wave is empty while nodes are left: the
\* only set of nodes that has its next wave inside is the set of all nodes.
ValidFlow(g) == \A S \in SUBSET Nodes : Wave(g, S) \subseteq S => S = Nodes

\* DurableFlowCoordinator.define and createFlow: every node gets an Agent, a
\* Delegation and its first Dispatch, in one transaction.  One Flow per model.
DefineFlow(g) ==
  /\ flow = "none" /\ task \notin Terminal
  /\ ValidFlow(g)
  /\ flow' = "running"
  /\ edges' = g
  /\ node' = [n \in Nodes |-> "queued"]
  /\ agent' = [n \in Nodes |-> "queued"]
  /\ deleg' = [n \in Nodes |-> "queued"]
  /\ dispatch' = [n \in Nodes |-> <<"queued">>]
  /\ UNCHANGED <<task, worker, crashes, controls>>

\* createAgentDispatch by the main Agent, for an Agent of the Flow.
DispatchAgain(n) ==
  /\ agent[n] \notin {"absent", "cancelled"}
  /\ task \notin Terminal
  /\ Len(dispatch[n]) < MaxDispatches
  /\ Cardinality({m \in Nodes : Len(dispatch[m]) > 1} \cup {n}) <= MaxAgain
  /\ dispatch' = [dispatch EXCEPT ![n] = Append(@, "queued")]
  /\ agent' = [agent EXCEPT ![n] = IF @ \in {"completed", "failed"} THEN "queued" ELSE @]
  /\ deleg' = [deleg EXCEPT ![n] = IF agent[n] \in {"completed", "failed"} THEN "queued" ELSE @]
  /\ UNCHANGED <<task, flow, edges, node, worker, crashes, controls>>

\* getRunnableAgentDispatch: the running Dispatch, else the oldest queued one.
Runnable(ds) == {d \in DOMAIN ds : ds[d] \in {"running", "queued"}}

\* Mutant: the newest Dispatch is taken first.
CurrentNewest(ds) == CHOOSE d \in Runnable(ds) : \A o \in Runnable(ds) : o <= d

Current(ds) ==
  CHOOSE d \in Runnable(ds) :
    \A o \in Runnable(ds) : IF ds[d] = ds[o] THEN d <= o ELSE ds[d] = "running"

-----------------------------------------------------------------------------
(* Settling nodes and the Flow *)

\* Mutant: only the direct dependents of the failed node are skipped.
DirectlySkipped(n, nodes) == {m \in Nodes : <<n, m>> \in edges /\ nodes[m] = "queued"}

QueuedDependents(S, nodes) ==
  {m \in Nodes : nodes[m] = "queued" /\ \E s \in S : <<s, m>> \in edges}

\* skipBlockedFlowNodes: breadth first from the failed node through the
\* dependents that are still queued, up to the first set that has all queued
\* dependents of the failed node and of its own members.
Skipped(n, nodes) ==
  {m \in Nodes : \A S \in SUBSET Nodes : QueuedDependents(S \cup {n}, nodes) \subseteq S => m \in S}

\* Mutant: the verdict does not wait for the nodes that are still open.
SettledEarly(nodes) ==
  IF flow # "running" THEN flow
  ELSE IF \A n \in Required : nodes[n] = "completed" THEN "completed"
  ELSE IF \E n \in Required : nodes[n] \in NodeTerminal \ {"completed"} THEN "failed"
  ELSE flow

\* settleFlow
Settled(nodes) ==
  IF flow # "running" \/ \E n \in Nodes : nodes[n] \notin NodeTerminal THEN flow
  ELSE IF \A n \in Required : nodes[n] = "completed" THEN "completed" ELSE "failed"

\* finalizeAgentDispatch for the Dispatch the Worker was given: by a report of
\* the subagent or by the end of its turn.  A skipped Agent without a runnable
\* Dispatch makes the whole transaction throw.
Finalize(n, status) ==
  LET d == worker[n].d
      own == [node EXCEPT ![n] = IF d = 1 THEN status ELSE @]
      skip == IF d = 1 /\ status = "failed" THEN Skipped(n, own) ELSE {}
      nodes == [m \in Nodes |-> IF m \in skip THEN "skipped" ELSE own[m]]
      more == \E o \in DOMAIN dispatch[n] : o # d /\ dispatch[n][o] = "queued"
      last == IF more THEN "queued" ELSE status
  IN /\ worker[n].phase = "running"
     /\ dispatch[n][d] \in {"queued", "running"}
     /\ agent[n] \notin Terminal /\ task \notin Terminal
     /\ \A m \in skip : Runnable(dispatch[m]) # {}
     /\ node' = nodes
     /\ flow' = IF d = 1 THEN Settled(nodes) ELSE flow
     /\ agent' = [m \in Nodes |->
          IF m = n THEN last
          ELSE IF m \in skip /\ agent[m] = "queued" THEN "cancelled" ELSE agent[m]]
     /\ deleg' = [m \in Nodes |->
          IF m = n THEN last
          ELSE IF m \in skip /\ deleg[m] = "queued" THEN "cancelled" ELSE deleg[m]]
     /\ dispatch' = [m \in Nodes |->
          IF m = n THEN [dispatch[n] EXCEPT ![d] = status]
          ELSE IF m \in skip
          THEN [dispatch[m] EXCEPT ![Current(dispatch[m])] = IF @ = "queued" THEN "cancelled" ELSE @]
          ELSE dispatch[m]]
     /\ UNCHANGED <<task, edges, worker, crashes, controls>>

-----------------------------------------------------------------------------
(* Workers *)

\* listRunnableAgents, and the scheduler's limit on the Workers of a Task, the
\* main Agent's among them.
Schedulable(n) ==
  /\ task = "running" /\ agent[n] = "queued"
  /\ Runnable(dispatch[n]) # {}
  /\ Current(dispatch[n]) = 1 =>
       node[n] = "queued" /\ \A s \in Sources(n) : node[s] = "completed"
  /\ Cardinality({m \in Nodes : agent[m] \in {"running", "recovering"}}) < MaxConcurrent
  /\ Cardinality({m \in Nodes : worker[m].phase # "none"}) + MainWorkers < MaxConcurrent

\* Mutant: a Dispatch of the Flow is started without its sources' Episodes.
ContextNotNeeded(n) == Runnable(dispatch[n]) # {}

\* prepareAgentDispatchContext throws unless the Dispatch of every source has
\* a completed Episode, which only finalizeAgentDispatch writes.
ContextReady(n) ==
  /\ Runnable(dispatch[n]) # {}
  /\ Current(dispatch[n]) = 1 => \A s \in Sources(n) : dispatch[s][1] = "completed"

\* The daemon starts `task run --agent`.
SpawnWorker(n) ==
  /\ worker[n].phase = "none"
  /\ Schedulable(n) /\ ContextReady(n)
  /\ worker' = [worker EXCEPT ![n] = [phase |-> "starting", d |-> Current(dispatch[n])]]
  /\ UNCHANGED <<task, flow, edges, node, agent, deleg, dispatch, crashes, controls>>

\* A user runs `task run --agent` themself: prepareTaskRun looks at the Task
\* and at the Dispatch, not at the graph.
RunByHand(n) ==
  /\ worker[n].phase = "none"
  /\ task = "running" /\ ContextReady(n)
  /\ worker' = [worker EXCEPT ![n] = [phase |-> "starting", d |-> Current(dispatch[n])]]
  /\ UNCHANGED <<task, flow, edges, node, agent, deleg, dispatch, crashes, controls>>

\* claimAttempt; the lease of the process before has been released or revoked.
Claimable(n) ==
  task = "running" /\ agent[n] \in {"queued", "running"} /\ Runnable(dispatch[n]) # {}

Claim(n) ==
  LET d == Current(dispatch[n]) IN
  /\ worker[n].phase = "starting"
  /\ Claimable(n)
  /\ worker' = [worker EXCEPT ![n] = [phase |-> "running", d |-> d]]
  /\ dispatch' = [dispatch EXCEPT ![n][d] = "running"]
  /\ agent' = [agent EXCEPT ![n] = "running"]
  /\ node' = [node EXCEPT ![n] = IF @ = "queued" THEN "running" ELSE @]
  /\ UNCHANGED <<task, flow, edges, deleg, crashes, controls>>

\* What transitionTask(next) does to Agents and nodes while the Task goes on.
AgentsAfter(next) == [n \in Nodes |->
  CASE next = "running" /\ agent[n] \in {"paused", "waiting", "unknown_outcome"} -> "queued"
    [] next = "waiting" /\ agent[n] = "running" -> "waiting"
    [] next = "paused" /\ agent[n] \notin Terminal \cup {"unknown_outcome", "absent"} -> "paused"
    [] OTHER -> agent[n]]

NodesAfter(next) ==
  [n \in Nodes |-> IF next # "running" /\ node[n] = "running" THEN "queued" ELSE node[n]]

\* The process dies or is refused before it holds a lease.  The daemon's exit
\* handler pauses an Agent that is still queued and asks the user.
StartFails(n) ==
  /\ worker[n].phase = "starting"
  /\ ~Claimable(n) \/ controls < MaxControls
  /\ worker' = [worker EXCEPT ![n] = NoWorker]
  /\ IF task = "running" /\ agent[n] = "queued"
     THEN /\ task' = "waiting"
          /\ agent' = [AgentsAfter("waiting") EXCEPT ![n] = "paused"]
          /\ node' = NodesAfter("waiting")
     ELSE UNCHANGED <<task, agent, node>>
  /\ controls' = IF Claimable(n) THEN controls + 1 ELSE controls
  /\ UNCHANGED <<flow, edges, deleg, dispatch, crashes>>

\* The Worker of an ended, paused or cancelled Dispatch has to stop; a daemon
\* that shuts down stops any Worker.  run() releases the lease and, while the
\* Task and the Agent are running, transitionAgent queues the Agent again.
MustStop(n) ==
  /\ worker[n].phase = "running"
  /\ task # "running" \/ agent[n] # "running" \/ dispatch[n][worker[n].d] # "running"

StopWorker(n) ==
  /\ worker[n].phase = "running"
  /\ MustStop(n) \/ controls < MaxControls
  /\ worker' = [worker EXCEPT ![n] = NoWorker]
  /\ IF task = "running" /\ agent[n] = "running"
     THEN /\ agent' = [agent EXCEPT ![n] = "queued"]
          /\ node' = [node EXCEPT ![n] = IF @ = "running" THEN "queued" ELSE @]
     ELSE UNCHANGED <<agent, node>>
  /\ controls' = IF MustStop(n) THEN controls ELSE controls + 1
  /\ UNCHANGED <<task, flow, edges, deleg, dispatch, crashes>>

CrashWorker(n) ==
  /\ worker[n].phase = "running" /\ crashes < MaxCrashes
  /\ worker' = [worker EXCEPT ![n].phase = "lost"]
  /\ crashes' = crashes + 1
  /\ UNCHANGED <<task, flow, edges, node, agent, deleg, dispatch, controls>>

\* beginRecovery of the expired lease, whatever state the Agent has.
BeginRecovery(n) ==
  /\ worker[n].phase = "lost"
  /\ worker' = [worker EXCEPT ![n].phase = "revoked"]
  /\ agent' = [agent EXCEPT ![n] = "recovering"]
  /\ UNCHANGED <<task, flow, edges, node, deleg, dispatch, crashes, controls>>

\* finishRecovery does not touch flow_nodes.
FinishRecovery(n, safe) ==
  /\ worker[n].phase = "revoked"
  /\ worker' = [worker EXCEPT ![n] = NoWorker]
  /\ IF agent[n] = "recovering"
     THEN /\ agent' = [agent EXCEPT ![n] = IF safe THEN "queued" ELSE "unknown_outcome"]
          /\ task' = IF ~safe /\ task = "running" THEN "unknown_outcome" ELSE task
     ELSE UNCHANGED <<agent, task>>
  /\ UNCHANGED <<flow, edges, node, deleg, dispatch, crashes, controls>>

-----------------------------------------------------------------------------
(* Commands *)

\* transitionTask to paused, to waiting_input or waiting_external, and back.
HoldTask(next) ==
  /\ next \in {"paused", "waiting"} /\ controls < MaxControls
  /\ task = "running" \/ (task = "waiting" /\ next = "paused")
  /\ task' = next
  /\ agent' = AgentsAfter(next)
  /\ node' = NodesAfter(next)
  /\ controls' = controls + 1
  /\ UNCHANGED <<flow, edges, deleg, dispatch, worker, crashes>>

ResumeTask ==
  /\ task \in {"paused", "waiting", "unknown_outcome"}
  /\ task' = "running"
  /\ agent' = AgentsAfter("running")
  /\ UNCHANGED <<flow, edges, node, deleg, dispatch, worker, crashes, controls>>

\* queueMessage wakes an Agent that waits for one.
WakeAgent(n) ==
  /\ agent[n] = "waiting"
  /\ agent' = [agent EXCEPT ![n] = "queued"]
  /\ UNCHANGED <<task, flow, edges, node, deleg, dispatch, worker, crashes, controls>>

\* transitionTask to a terminal state; completion needs the required
\* Delegations completed.
EndTask(next) ==
  LET open(s) == IF s \in Terminal THEN s ELSE next IN
  /\ task \notin Terminal /\ next \in Terminal
  /\ next = "completed" => task = "running" /\ \A n \in Required : deleg[n] = "completed"
  /\ next = "failed" => task \in {"running", "unknown_outcome"}
  /\ task' = next
  /\ agent' = [n \in Nodes |-> IF agent[n] = "absent" THEN "absent" ELSE open(agent[n])]
  /\ dispatch' = [n \in Nodes |-> [d \in DOMAIN dispatch[n] |-> open(dispatch[n][d])]]
  /\ node' = [n \in Nodes |->
       IF node[n] \in NodeTerminal \cup {"absent"} THEN node[n]
       ELSE IF next = "failed" THEN "failed" ELSE "cancelled"]
  /\ flow' = IF flow = "running" THEN next ELSE flow
  /\ UNCHANGED <<edges, deleg, worker, crashes, controls>>

\* pause-agent, stop-agent and cancel-agent name a Worker of the daemon.
PauseAgent(n) ==
  /\ worker[n].phase # "none" /\ controls < MaxControls
  /\ agent[n] \in {"queued", "running", "waiting"}
  /\ agent' = [agent EXCEPT ![n] = "paused"]
  /\ controls' = controls + 1
  /\ UNCHANGED <<task, flow, edges, node, deleg, dispatch, worker, crashes>>

\* transitionAgent settles the node, its Dispatches and the Flow; the nodes
\* that depend on a cancelled one stay as they are.
CancelAgent(n) ==
  LET nodes == [node EXCEPT ![n] = IF @ \in NodeTerminal THEN @ ELSE "cancelled"] IN
  /\ worker[n].phase # "none" /\ controls < MaxControls
  /\ agent[n] \notin Terminal \cup {"absent"}
  /\ agent' = [agent EXCEPT ![n] = "cancelled"]
  /\ deleg' = [deleg EXCEPT ![n] = "cancelled"]
  /\ dispatch' = [dispatch EXCEPT ![n] =
       [d \in DOMAIN @ |-> IF @[d] \in {"queued", "running"} THEN "cancelled" ELSE @[d]]]
  /\ node' = nodes
  /\ flow' = IF nodes = node THEN flow ELSE Settled(nodes)
  /\ controls' = controls + 1
  /\ UNCHANGED <<task, edges, worker, crashes>>

-----------------------------------------------------------------------------
NodeStep(n) ==
  \/ DispatchAgain(n) \/ SpawnWorker(n) \/ RunByHand(n) \/ Claim(n) \/ StartFails(n)
  \/ Finalize(n, "completed") \/ Finalize(n, "failed")
  \/ StopWorker(n) \/ CrashWorker(n) \/ BeginRecovery(n)
  \/ FinishRecovery(n, TRUE) \/ FinishRecovery(n, FALSE)
  \/ PauseAgent(n) \/ CancelAgent(n) \/ WakeAgent(n)

Next ==
  \/ \E g \in Definitions : DefineFlow(g)
  \/ \E n \in Nodes : NodeStep(n)
  \/ \E next \in {"paused", "waiting"} : HoldTask(next)
  \/ ResumeTask
  \/ \E next \in Terminal : EndTask(next)

Spec == Init /\ [][Next]_vars

\* The daemon's schedule loop starts what is schedulable and recovers expired
\* leases; a process that started claims or fails; a Worker that holds a lease
\* brings its turn to an end and stops when told.  Nothing obliges the users.
NodeFairness(n) ==
  /\ WF_vars(SpawnWorker(n))
  /\ WF_vars(Claim(n))
  /\ WF_vars(~Claimable(n) /\ StartFails(n))
  /\ WF_vars(Finalize(n, "completed") \/ Finalize(n, "failed"))
  /\ WF_vars(MustStop(n) /\ StopWorker(n))
  /\ WF_vars(BeginRecovery(n))
  /\ WF_vars(FinishRecovery(n, TRUE) \/ FinishRecovery(n, FALSE))

FairSpec == Spec /\ \A n \in Nodes : NodeFairness(n)

-----------------------------------------------------------------------------
(* Properties *)

AgentStates == {"absent", "queued", "running", "recovering", "waiting", "paused",
                "unknown_outcome"} \cup Terminal
DispatchStates == {"queued", "running"} \cup Terminal

\* Every row is in a state of its table.
TypeOK ==
  /\ task \in {"running", "paused", "waiting", "unknown_outcome"} \cup Terminal
  /\ flow \in {"none", "running"} \cup Terminal
  /\ edges \subseteq Nodes \X Nodes
  /\ node \in [Nodes -> {"absent", "queued", "running"} \cup NodeTerminal]
  /\ agent \in [Nodes -> AgentStates]
  /\ deleg \in [Nodes -> {"absent", "queued"} \cup Terminal]
  /\ dispatch \in [Nodes -> Seq(DispatchStates)]
  /\ \A n \in Nodes : Len(dispatch[n]) <= MaxDispatches
  /\ worker \in [Nodes -> [phase : {"none", "starting", "running", "lost", "revoked"},
                           d : 0..MaxDispatches]]
  /\ crashes \in 0..MaxCrashes /\ controls \in 0..MaxControls

PlanStatus(n) ==
  CASE node[n] = "absent" -> "none"
    [] node[n] = "completed" -> "done"
    [] node[n] = "skipped" -> "dropped"
    [] node[n] \in {"failed", "cancelled"} -> node[n]
    [] OTHER -> IF dispatch[n][1] = "running" THEN "started" ELSE "open"

Plan == INSTANCE FlowPlan WITH status <- [n \in Nodes |-> PlanStatus(n)]

\* The tables implement the plan: a node is claimed only after every source
\* has completed, and is never started again under another verdict; a failed
\* node drops exactly the open nodes downstream of it; pauses, crashes,
\* recoveries and further Dispatches of the same Agents never show.
ImplementsFlowPlan == Plan!PlanSpec

\* A node ends with the Dispatch it stands for and not before, however the
\* Dispatch ends; so the Agent of a node that can still be skipped has a
\* runnable Dispatch, and skipBlockedFlowNodes does not throw.
NodeFollowsDispatch ==
  \A n \in Nodes : node[n] # "absent" =>
    ((node[n] \in NodeTerminal) <=> (dispatch[n][1] \in Terminal))

\* An Agent works on one Dispatch at a time and in the order of sequence: a
\* later one is started only when all earlier ones are settled.
DispatchesInOrder ==
  \A n \in Nodes : \A d, o \in DOMAIN dispatch[n] :
    (o < d /\ dispatch[n][d] \in {"running", "completed", "failed"} /\ task \notin Terminal)
      => dispatch[n][o] \in Terminal

\* While the Task goes on, settleFlow gives its verdict when the last node is
\* terminal and by the required nodes alone.
FlowVerdict ==
  (flow # "none" /\ task \notin Terminal) =>
    IF \E n \in Nodes : node[n] \notin NodeTerminal THEN flow = "running"
    ELSE flow = IF \A n \in Required : node[n] = "completed" THEN "completed" ELSE "failed"

\* What keeps a node open although the Task is running: its Agent is held, or
\* was recovered with the node still marked running, or is marked running
\* after its Worker stopped for a Task that was not, or a source was
\* cancelled, which skips nothing.
Stranded(n) ==
  /\ node[n] \notin NodeTerminal
  /\ \/ agent[n] \in {"paused", "waiting", "unknown_outcome"}
     \/ node[n] = "running" /\ agent[n] = "queued"
     \/ agent[n] = "running" /\ worker[n].phase = "none"
     \/ \E s \in Sources(n) : node[s] = "cancelled"

\* A Flow settles: whatever fails or crashes, a running Flow of a running Task
\* reaches its verdict unless a node is stranded in one of the ways above.
FlowSettles ==
  (flow = "running") ~> (flow # "running" \/ task # "running" \/ \E n \in Nodes : Stranded(n))
=============================================================================
