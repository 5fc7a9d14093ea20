-------------------------- MODULE FlowGraphProofs --------------------------
(***************************************************************************)
(* Proofs about FlowGraph, for every set of nodes, every graph, any number *)
(* of Dispatches per Agent and any number of crashes and commands: the     *)
(* safety properties of the flow run, that the tables implement FlowPlan,  *)
(* and that no Flow is stuck.                                              *)
(***************************************************************************)
EXTENDS FlowGraph, FiniteSetTheorems, TLAPS

\* Most steps are first-order logic: Zenon is tried first, then SMT, then Zenon for longer.
USE ZenonT(5), SMTT(20), ZenonT(60)

-----------------------------------------------------------------------------
(* The operators *)

\* A set of Dispatch numbers that is not empty has a least one.
LEMMA LeastNumber ==
  ASSUME NEW T \in SUBSET Nat, T # {}
  PROVE  \E x \in T : \A y \in T : x <= y
<1> DEFINE F == {1..x : x \in T}
           R == StrictSubsetOrdering(Nat)
<1>1. F \subseteq FiniteSubsetsOf(Nat) /\ F # {}
  <2>1. \A x \in T : IsFiniteSet(1..x)
    BY FS_Interval
  <2>2. \A x \in T : 1..x \in SUBSET Nat
    OBVIOUS
  <2>3. \A x \in T : 1..x \in FiniteSubsetsOf(Nat)
    BY <2>1, <2>2 DEF FiniteSubsetsOf
  <2>4. \E x \in T : 1..x \in F
    OBVIOUS
  <2> QED BY <2>3, <2>4
<1>2. PICK I \in F : \A J \in F : <<J, I>> \notin R
  <2>1. IsWellFoundedOn(R, FiniteSubsetsOf(Nat))
    BY FS_StrictSubsetOrderingWellFounded
  <2> HIDE DEF F, R
  <2> QED BY <1>1, <2>1, WFMin
<1>3. PICK x \in T : I = 1..x
  BY <1>2
<1>4. ASSUME NEW y \in T PROVE x <= y
  <2>1. <<1..y, 1..x>> \notin R
    BY <1>2, <1>3
  <2>2. ~(1..y \subseteq 1..x /\ 1..y # 1..x)
    BY <2>1 DEF StrictSubsetOrdering
  <2>3. CASE y < x
    <3>1. x \in 1..x /\ x \notin 1..y
      BY <2>3
    <3>2. 1..y \subseteq 1..x
      BY <2>3
    <3> QED BY <2>2, <3>1, <3>2
  <2> QED BY <2>3
<1> QED BY <1>4

\* getRunnableAgentDispatch: when an Agent has a runnable Dispatch, Current is
\* one of them, the running one if there is one and else the oldest.
LEMMA CurrentIsFirst ==
  ASSUME NEW ds \in Seq(DispatchStates), Runnable(ds) # {}
  PROVE  /\ Current(ds) \in Runnable(ds)
         /\ \A o \in Runnable(ds) :
              IF ds[Current(ds)] = ds[o] THEN Current(ds) <= o ELSE ds[Current(ds)] = "running"
<1> DEFINE First(d) == \A o \in Runnable(ds) : IF ds[d] = ds[o] THEN d <= o ELSE ds[d] = "running"
<1>1. Runnable(ds) \in SUBSET Nat
  BY DEF Runnable
<1>2. \E d \in Runnable(ds) : First(d)
  <2>1. CASE \E o \in Runnable(ds) : ds[o] = "running"
    <3> DEFINE T == {o \in Runnable(ds) : ds[o] = "running"}
    <3>1. \E x \in T : \A y \in T : x <= y
      <4>1. T \in SUBSET Nat /\ T # {}
        BY <1>1, <2>1
      <4> HIDE DEF T
      <4> QED BY <4>1, LeastNumber
    <3> QED BY <3>1
  <2>2. CASE \A o \in Runnable(ds) : ds[o] # "running"
    <3>1. \A o \in Runnable(ds) : ds[o] = "queued"
      BY <2>2 DEF Runnable
    <3>2. \E x \in Runnable(ds) : \A y \in Runnable(ds) : x <= y
      BY <1>1, LeastNumber
    <3> QED BY <3>1, <3>2
  <2> QED BY <2>1, <2>2
<1>3. Current(ds) = CHOOSE d \in Runnable(ds) : First(d)
  BY DEF Current
<1>4. Current(ds) \in Runnable(ds) /\ First(Current(ds))
  <2> HIDE DEF First
  <2> QED BY <1>2, <1>3
<1> QED BY <1>4

\* The first Dispatch of an Agent is the current one as long as it is queued
\* and no later one runs.
LEMMA FirstIsCurrent ==
  ASSUME NEW ds \in Seq(DispatchStates), ds # <<>>, ds[1] = "queued",
         \A d \in DOMAIN ds : ds[d] # "running"
  PROVE  Runnable(ds) # {} /\ Current(ds) = 1
<1>1. 1 \in Runnable(ds)
  BY DEF Runnable
<1>2. Current(ds) \in DOMAIN ds /\ ds[Current(ds)] = "queued"
  BY <1>1, CurrentIsFirst DEF Runnable, DispatchStates
<1>3. Current(ds) <= 1
  BY <1>1, <1>2, CurrentIsFirst
<1> QED BY <1>1, <1>2, <1>3

\* Every Dispatch before the current one is settled, when the current one is
\* still queued.
LEMMA BeforeCurrent ==
  ASSUME NEW ds \in Seq(DispatchStates), Runnable(ds) # {}, ds[Current(ds)] = "queued",
         NEW o \in DOMAIN ds, o < Current(ds)
  PROVE  ds[o] \in Terminal
<1>1. Current(ds) \in Nat
  BY CurrentIsFirst DEF Runnable
<1>2. o \notin Runnable(ds)
  <2> SUFFICES ASSUME o \in Runnable(ds) PROVE FALSE
    OBVIOUS
  <2>1. ds[Current(ds)] = ds[o] /\ Current(ds) <= o
    BY CurrentIsFirst
  <2> QED BY <1>1, <2>1
<1> QED BY <1>2 DEF Runnable, DispatchStates, Terminal

\* validateFlowDefinition lets no graph through in which a set of nodes waits
\* for itself: what is left of the nodes after any number of waves has a next
\* wave.
LEMMA ValidIsAcyclic ==
  ASSUME NEW g, ValidFlow(g)
  PROVE  Plan!Acyclic(g)
<1> SUFFICES ASSUME NEW T \in (SUBSET Nodes) \ {{}}, ~\E n \in T : \A s \in T : <<s, n>> \notin g
             PROVE  FALSE
  BY Zenon DEF Plan!Acyclic
<1> DEFINE S == Nodes \ T
<1>1. Wave(g, S) \subseteq S
  BY DEF Wave
<1>2. S = Nodes
  <2> HIDE DEF S
  <2>1. S \in SUBSET Nodes
    BY DEF S
  <2> QED BY <1>1, <2>1 DEF ValidFlow
<1>3. PICK n \in T : n \in Nodes
  OBVIOUS
<1> QED BY <1>2, <1>3

\* What skipBlockedFlowNodes skips is exactly the queued dependents of the
\* failed node and of the nodes it skips.
LEMMA SkippedIsFixed ==
  ASSUME NEW n, NEW nodes
  PROVE  Skipped(n, nodes) = QueuedDependents(Skipped(n, nodes) \cup {n}, nodes)
<1> DEFINE K == Skipped(n, nodes)
           D == QueuedDependents(K \cup {n}, nodes)
<1>1. \A A, B : A \subseteq B =>
        QueuedDependents(A \cup {n}, nodes) \subseteq QueuedDependents(B \cup {n}, nodes)
  BY DEF QueuedDependents
<1>2. \A S \in SUBSET Nodes : QueuedDependents(S \cup {n}, nodes) \subseteq S => K \subseteq S
  BY DEF Skipped
<1>3. K \subseteq Nodes /\ D \subseteq Nodes
  BY DEF Skipped, QueuedDependents
<1>4. D \subseteq K
  <2> SUFFICES ASSUME NEW m \in D, NEW S \in SUBSET Nodes,
                      QueuedDependents(S \cup {n}, nodes) \subseteq S
               PROVE  m \in S
    BY <1>3 DEF Skipped
  <2>1. K \subseteq S
    BY <1>2
  <2>2. D \subseteq QueuedDependents(S \cup {n}, nodes)
    BY <1>1, <2>1
  <2> QED BY <2>2
<1>5. K \subseteq D
  <2>1. QueuedDependents(D \cup {n}, nodes) \subseteq D
    BY <1>1, <1>4
  <2> QED BY <1>2, <1>3, <2>1
<1> QED BY <1>4, <1>5

-----------------------------------------------------------------------------
(* The inductive invariant *)

\* Before flow_define there are no rows and no Workers; after it every node
\* has its first Dispatch.
RowsExist ==
  \A n \in Nodes :
    IF flow = "none"
    THEN node[n] = "absent" /\ agent[n] = "absent" /\ dispatch[n] = <<>> /\ worker[n] = NoWorker
    ELSE node[n] # "absent" /\ dispatch[n] # <<>>

\* A node is marked running only while its Dispatch is running.
RunningIsStarted == \A n \in Nodes : node[n] = "running" => dispatch[n][1] = "running"

\* While the Task goes on, the verdict on a node is that of its Dispatch.
SameVerdict ==
  (flow # "none" /\ task \notin Terminal) =>
    \A n \in Nodes : (node[n] = "completed") <=> (dispatch[n][1] = "completed")

SourcesCompleted(n) == \A s \in Sources(n) : dispatch[s][1] = "completed"

\* A node's Dispatch was started only with the Episodes of all its sources,
\* and a process about to start it has them.
StartedInOrder ==
  task \notin Terminal =>
    \A n \in Nodes :
      \/ flow = "none"
      \/ SourcesCompleted(n)
      \/ /\ dispatch[n][1] \in {"queued", "cancelled"}
         /\ worker[n].phase = "starting" => dispatch[n][1] = "cancelled"

\* A Worker that holds a lease has claimed its Dispatch.
LeaseIsClaimed ==
  \A n \in Nodes : worker[n].phase = "running" =>
    worker[n].d \in DOMAIN dispatch[n] /\ dispatch[n][worker[n].d] # "queued"

FlowInv ==
  /\ TypeOK
  /\ Plan!Acyclic(edges)
  /\ RowsExist /\ RunningIsStarted /\ SameVerdict /\ StartedInOrder /\ LeaseIsClaimed
  /\ NodeFollowsDispatch /\ DispatchesInOrder /\ FlowVerdict

-----------------------------------------------------------------------------
(* Types *)

\* The Dispatches of an Agent after some of them changed their state.
LEMMA Rewritten ==
  ASSUME NEW ds \in Seq(DispatchStates), NEW fs,
         fs = [d \in DOMAIN ds |-> fs[d]], \A d \in DOMAIN ds : fs[d] \in DispatchStates
  PROVE  fs \in Seq(DispatchStates) /\ Len(fs) = Len(ds) /\ DOMAIN fs = DOMAIN ds
<1>1. DOMAIN fs = 1..Len(ds) /\ Len(ds) \in Nat
  OBVIOUS
<1>2. fs \in [1..Len(ds) -> DispatchStates]
  BY <1>1
<1>3. fs \in Seq(DispatchStates)
  BY <1>1, <1>2
<1> QED BY <1>1, <1>3

\* One Dispatch of an Agent changes its state.
LEMMA RewrittenAt ==
  ASSUME NEW ds \in Seq(DispatchStates), NEW d \in DOMAIN ds, NEW v \in DispatchStates
  PROVE  /\ [ds EXCEPT ![d] = v] \in Seq(DispatchStates)
         /\ Len([ds EXCEPT ![d] = v]) = Len(ds)
         /\ DOMAIN [ds EXCEPT ![d] = v] = DOMAIN ds
  BY Rewritten

\* Every step leaves each row in a state of its table.
LEMMA TypeStep ==
  ASSUME TypeOK, LeaseIsClaimed, [Next]_vars
  PROVE  TypeOK'
<1> USE FlowAssumption, BoundsAssumption
<1>1. CASE UNCHANGED vars
  BY <1>1 DEF vars, TypeOK
<1>2. ASSUME NEW g \in Definitions, DefineFlow(g) PROVE TypeOK'
  <2>1. <<"queued">> \in Seq(DispatchStates) /\ Len(<<"queued">>) = 1
    BY DEF DispatchStates
  <2>2. dispatch' \in [Nodes -> Seq(DispatchStates)] /\ \A n \in Nodes : Len(dispatch'[n]) <= MaxDispatches
    BY <1>2, <2>1 DEF DefineFlow
  <2> QED BY <1>2, <2>2 DEF TypeOK, DefineFlow, AgentStates
<1>3. ASSUME NEW n \in Nodes, DispatchAgain(n) PROVE TypeOK'
  <2>1. Append(dispatch[n], "queued") \in Seq(DispatchStates)
        /\ Len(Append(dispatch[n], "queued")) = Len(dispatch[n]) + 1
    BY DEF TypeOK, DispatchStates
  <2>2. dispatch' \in [Nodes -> Seq(DispatchStates)] /\ \A m \in Nodes : Len(dispatch'[m]) <= MaxDispatches
    BY <1>3, <2>1 DEF DispatchAgain, TypeOK
  <2> QED BY <1>3, <2>2 DEF TypeOK, DispatchAgain, AgentStates
<1>4. ASSUME NEW n \in Nodes, SpawnWorker(n) \/ RunByHand(n) PROVE TypeOK'
  <2>1. Runnable(dispatch[n]) # {}
    BY <1>4 DEF SpawnWorker, RunByHand, ContextReady
  <2>2. Current(dispatch[n]) \in DOMAIN dispatch[n]
    BY <2>1, CurrentIsFirst DEF TypeOK, Runnable
  <2>3. Current(dispatch[n]) \in 0..MaxDispatches
    BY <2>2 DEF TypeOK
  <2>4. worker' = [worker EXCEPT ![n] = [phase |-> "starting", d |-> Current(dispatch[n])]]
        /\ UNCHANGED <<task, flow, edges, node, agent, deleg, dispatch, crashes, controls>>
    BY <1>4 DEF SpawnWorker, RunByHand
  <2> QED BY <2>3, <2>4 DEF TypeOK
<1>5. ASSUME NEW n \in Nodes, Claim(n) PROVE TypeOK'
  <2> DEFINE d == Current(dispatch[n])
             ds == [dispatch[n] EXCEPT ![d] = "running"]
  <2>1. d \in DOMAIN dispatch[n] /\ d \in 0..MaxDispatches
    BY <1>5, CurrentIsFirst DEF Claim, Claimable, TypeOK, Runnable
  <2>2. ds \in Seq(DispatchStates) /\ Len(ds) = Len(dispatch[n])
    <3> HIDE DEF d
    <3> QED BY <2>1, RewrittenAt DEF TypeOK, DispatchStates
  <2>3. dispatch' = [dispatch EXCEPT ![n] = ds]
    BY <1>5 DEF Claim, TypeOK
  <2> HIDE DEF ds
  <2>4. dispatch' \in [Nodes -> Seq(DispatchStates)] /\ \A m \in Nodes : Len(dispatch'[m]) <= MaxDispatches
    BY <2>2, <2>3 DEF TypeOK
  <2> QED BY <1>5, <2>1, <2>4 DEF TypeOK, Claim, AgentStates
<1>6. ASSUME NEW n \in Nodes, NEW status \in {"completed", "failed"}, Finalize(n, status) PROVE TypeOK'
  <2>1. \A m \in Nodes : /\ dispatch'[m] \in Seq(DispatchStates)
                         /\ Len(dispatch'[m]) = Len(dispatch[m])
    <3> SUFFICES ASSUME NEW m \in Nodes PROVE /\ dispatch'[m] \in Seq(DispatchStates)
                                              /\ Len(dispatch'[m]) = Len(dispatch[m])
      OBVIOUS
    <3>1. CASE m = n
      <4>1. dispatch'[n] = [dispatch[n] EXCEPT ![worker[n].d] = status]
        BY <1>6 DEF Finalize
      <4>2. worker[n].d \in DOMAIN dispatch[n]
        BY <1>6 DEF Finalize, LeaseIsClaimed
      <4> QED BY <3>1, <4>1, <4>2, RewrittenAt DEF TypeOK, DispatchStates, Terminal
    <3>2. CASE dispatch'[m] = dispatch[m]
      BY <3>2 DEF TypeOK
    <3>3. CASE m # n /\ dispatch'[m] # dispatch[m]
      <4> DEFINE e == Current(dispatch[m])
                 v == IF dispatch[m][e] = "queued" THEN "cancelled" ELSE dispatch[m][e]
      <4>1. Runnable(dispatch[m]) # {} /\ dispatch'[m] = [dispatch[m] EXCEPT ![e] = v]
        BY <1>6, <3>3 DEF Finalize
      <4>2. e \in DOMAIN dispatch[m] /\ v \in DispatchStates
        BY <4>1, CurrentIsFirst DEF TypeOK, Runnable, DispatchStates, Terminal
      <4> HIDE DEF e, v
      <4> QED BY <4>1, <4>2, RewrittenAt DEF TypeOK
    <3> QED BY <3>1, <3>2, <3>3
  <2>2. dispatch' \in [Nodes -> Seq(DispatchStates)] /\ \A m \in Nodes : Len(dispatch'[m]) <= MaxDispatches
    BY <1>6, <2>1 DEF TypeOK, Finalize
  <2>3. node' \in [Nodes -> {"absent", "queued", "running"} \cup NodeTerminal]
    BY <1>6 DEF TypeOK, Finalize, NodeTerminal, Terminal
  <2>4. agent' \in [Nodes -> AgentStates] /\ deleg' \in [Nodes -> {"absent", "queued"} \cup Terminal]
    BY <1>6 DEF TypeOK, Finalize, AgentStates, Terminal
  <2>5. flow' \in {"none", "running"} \cup Terminal
    BY <1>6 DEF TypeOK, Finalize, Settled, Terminal
  <2> QED BY <1>6, <2>2, <2>3, <2>4, <2>5 DEF TypeOK, Finalize
<1>7. ASSUME NEW n \in Nodes, StartFails(n) \/ StopWorker(n) \/ CrashWorker(n) \/ BeginRecovery(n)
      PROVE  TypeOK'
  <2>0. worker' \in [Nodes -> [phase : {"none", "starting", "running", "lost", "revoked"},
                               d : 0..MaxDispatches]]
    <3> DEFINE W == [phase : {"none", "starting", "running", "lost", "revoked"}, d : 0..MaxDispatches]
    <3>a. worker \in [Nodes -> W] /\ NoWorker \in W
      BY DEF TypeOK, NoWorker
    <3>b. ASSUME NEW p \in {"lost", "revoked"} PROVE [worker[n] EXCEPT !.phase = p] \in W
      BY <3>a
    <3>1. /\ worker \in [Nodes -> W] /\ NoWorker \in W
          /\ \A p \in {"lost", "revoked"} : [worker[n] EXCEPT !.phase = p] \in W
      BY <3>a, <3>b
    <3>2. worker' = [worker EXCEPT ![n] = NoWorker]
          \/ \E p \in {"lost", "revoked"} : worker' = [worker EXCEPT ![n] = [worker[n] EXCEPT !.phase = p]]
      BY <1>7, <3>1 DEF StartFails, StopWorker, CrashWorker, BeginRecovery
    <3> HIDE DEF W
    <3>3. worker' \in [Nodes -> W]
      BY <3>1, <3>2
    <3> QED BY <3>3 DEF W
  <2>1. task' \in {"running", "paused", "waiting", "unknown_outcome"} \cup Terminal
    BY <1>7 DEF TypeOK, StartFails, StopWorker, CrashWorker, BeginRecovery
  <2>2. agent' \in [Nodes -> AgentStates]
    <3>1. CASE StartFails(n)
      BY ZenonT(60), <3>1 DEF TypeOK, StartFails, AgentsAfter, AgentStates
    <3>2. CASE ~StartFails(n)
      BY <1>7, <3>2 DEF TypeOK, StopWorker, CrashWorker, BeginRecovery, AgentStates
    <3> QED BY <3>1, <3>2
  <2>3. node' \in [Nodes -> {"absent", "queued", "running"} \cup NodeTerminal]
    <3>1. CASE StartFails(n)
      BY <3>1 DEF TypeOK, StartFails, NodesAfter
    <3>2. CASE ~StartFails(n)
      BY <1>7, <3>2 DEF TypeOK, StopWorker, CrashWorker, BeginRecovery
    <3> QED BY <3>1, <3>2
  <2>4. crashes' \in 0..MaxCrashes /\ controls' \in 0..MaxControls
    BY <1>7 DEF TypeOK, StartFails, StopWorker, CrashWorker, BeginRecovery
  <2>5. UNCHANGED <<flow, edges, deleg, dispatch>>
    BY <1>7 DEF StartFails, StopWorker, CrashWorker, BeginRecovery
  <2> QED BY <2>0, <2>1, <2>2, <2>3, <2>4, <2>5 DEF TypeOK
<1>8. ASSUME NEW n \in Nodes, NEW safe \in BOOLEAN, FinishRecovery(n, safe) PROVE TypeOK'
  <2>1. agent' \in [Nodes -> AgentStates]
    BY <1>8 DEF TypeOK, FinishRecovery, AgentStates
  <2>2. task' \in {"running", "paused", "waiting", "unknown_outcome"} \cup Terminal
    BY <1>8 DEF TypeOK, FinishRecovery
  <2>3. worker' \in [Nodes -> [phase : {"none", "starting", "running", "lost", "revoked"},
                               d : 0..MaxDispatches]]
    BY <1>8 DEF TypeOK, FinishRecovery, NoWorker
  <2> QED BY <1>8, <2>1, <2>2, <2>3 DEF TypeOK, FinishRecovery
<1>9. ASSUME NEW n \in Nodes, PauseAgent(n) \/ WakeAgent(n) PROVE TypeOK'
  <2>1. CASE PauseAgent(n)
    BY <2>1 DEF TypeOK, PauseAgent, AgentStates
  <2>2. CASE WakeAgent(n)
    BY <2>2 DEF TypeOK, WakeAgent, AgentStates
  <2> QED BY <1>9, <2>1, <2>2
<1>10. ASSUME NEW n \in Nodes, CancelAgent(n) PROVE TypeOK'
  <2> DEFINE fs == [d \in DOMAIN dispatch[n] |->
                      IF dispatch[n][d] \in {"queued", "running"} THEN "cancelled" ELSE dispatch[n][d]]
  <2>1. dispatch' = [dispatch EXCEPT ![n] = fs]
    BY <1>10 DEF CancelAgent
  <2>2. fs \in Seq(DispatchStates) /\ Len(fs) = Len(dispatch[n])
    <3>1. fs = [d \in DOMAIN dispatch[n] |-> fs[d]]
          /\ \A d \in DOMAIN dispatch[n] : fs[d] \in DispatchStates
      BY DEF TypeOK, DispatchStates, Terminal
    <3> HIDE DEF fs
    <3> QED BY <3>1, Rewritten DEF TypeOK
  <2> HIDE DEF fs
  <2>3. dispatch' \in [Nodes -> Seq(DispatchStates)] /\ \A m \in Nodes : Len(dispatch'[m]) <= MaxDispatches
    BY <2>1, <2>2 DEF TypeOK
  <2>4. flow' \in {"none", "running"} \cup Terminal
    BY <1>10 DEF TypeOK, CancelAgent, Settled, Terminal
  <2> QED BY <1>10, <2>3, <2>4 DEF TypeOK, CancelAgent, AgentStates, NodeTerminal, Terminal
<1>11. ASSUME NEW next \in {"paused", "waiting"}, HoldTask(next) PROVE TypeOK'
  BY <1>11 DEF TypeOK, HoldTask, AgentsAfter, NodesAfter, AgentStates, NodeTerminal, Terminal
<1>12. CASE ResumeTask
  BY <1>12 DEF TypeOK, ResumeTask, AgentsAfter, AgentStates, Terminal
<1>13. ASSUME NEW next \in Terminal, EndTask(next) PROVE TypeOK'
  <2>1. ASSUME NEW n \in Nodes
        PROVE  dispatch'[n] \in Seq(DispatchStates) /\ Len(dispatch'[n]) = Len(dispatch[n])
    <3>1. dispatch'[n] = [d \in DOMAIN dispatch[n] |-> dispatch'[n][d]]
          /\ \A d \in DOMAIN dispatch[n] : dispatch'[n][d] \in DispatchStates
      BY <1>13 DEF EndTask, TypeOK, DispatchStates
    <3> QED BY <3>1, Rewritten DEF TypeOK
  <2>2. dispatch' \in [Nodes -> Seq(DispatchStates)] /\ \A n \in Nodes : Len(dispatch'[n]) <= MaxDispatches
    BY <1>13, <2>1 DEF TypeOK, EndTask
  <2> QED BY <1>13, <2>2 DEF TypeOK, EndTask, AgentStates, NodeTerminal, Terminal
<1> QED BY <1>1, <1>2, <1>3, <1>4, <1>5, <1>6, <1>7, <1>8, <1>9, <1>10, <1>11, <1>12, <1>13
        DEF Next, NodeStep

-----------------------------------------------------------------------------
(* Steps that settle nothing *)

\* What Workers that come and go, crashes, recoveries, pauses and resumptions
\* have in common.
Quiet ==
  /\ UNCHANGED <<flow, edges, dispatch>>
  /\ (task \in Terminal) <=> (task' \in Terminal)
  /\ flow = "none" => UNCHANGED <<node, agent, worker>>
  /\ \A n \in Nodes : node'[n] = node[n] \/ (node[n] = "running" /\ node'[n] = "queued")
  /\ \A n \in Nodes : worker'[n].phase = "starting" =>
       worker[n].phase = "starting" \/ SourcesCompleted(n) \/ dispatch[n][1] = "cancelled"
  /\ \A n \in Nodes : worker'[n].phase = "running" => worker'[n] = worker[n]

\* Such a step keeps the invariant.
LEMMA QuietStep ==
  ASSUME FlowInv, TypeOK', Quiet
  PROVE  FlowInv'
<1>1. RowsExist'
  BY DEF FlowInv, RowsExist, Quiet
<1>2. RunningIsStarted' /\ NodeFollowsDispatch'
  <2> USE DEF Quiet, FlowInv
  <2>1. RunningIsStarted'
    BY DEF RunningIsStarted
  <2>2. NodeFollowsDispatch'
    BY DEF NodeFollowsDispatch, NodeTerminal, Terminal
  <2> QED BY <2>1, <2>2
<1>3. SameVerdict'
  BY DEF FlowInv, SameVerdict, Quiet
<1>4. StartedInOrder'
  <2>1. \A n \in Nodes : SourcesCompleted(n)' <=> SourcesCompleted(n)
    BY DEF SourcesCompleted, Sources, Quiet
  <2> QED BY <2>1 DEF FlowInv, StartedInOrder, Quiet
<1>5. LeaseIsClaimed'
  BY DEF FlowInv, LeaseIsClaimed, Quiet
<1>6. DispatchesInOrder'
  BY DEF FlowInv, DispatchesInOrder, Quiet
<1>7. FlowVerdict'
  <2>1. ASSUME NEW n \in Nodes
        PROVE  /\ (node'[n] \in NodeTerminal) <=> (node[n] \in NodeTerminal)
               /\ (node'[n] = "completed") <=> (node[n] = "completed")
    BY DEF Quiet, NodeTerminal, Terminal
  <2>2. (\E n \in Nodes : node[n] \notin NodeTerminal) <=> (\E n \in Nodes : node'[n] \notin NodeTerminal)
    BY <2>1
  <2>3. (\A n \in Required : node[n] = "completed") <=> (\A n \in Required : node'[n] = "completed")
    BY <2>1, FlowAssumption
  <2> QED BY <2>2, <2>3 DEF FlowInv, FlowVerdict, Quiet
<1>8. Plan!Acyclic(edges)'
  BY DEF FlowInv, Quiet
<1> QED BY <1>1, <1>2, <1>3, <1>4, <1>5, <1>6, <1>7, <1>8 DEF FlowInv

\* A process is started for a node only with the Episodes of all its sources,
\* or for a later Dispatch of its Agent when the first one was cancelled.
LEMMA SpawnIsInOrder ==
  ASSUME FlowInv, NEW n \in Nodes, task = "running", ContextReady(n)
  PROVE  flow # "none" /\ (SourcesCompleted(n) \/ dispatch[n][1] = "cancelled")
<1> DEFINE d == Current(dispatch[n])
<1>1. dispatch[n] \in Seq(DispatchStates) /\ Runnable(dispatch[n]) # {}
  BY DEF FlowInv, TypeOK, ContextReady
<1>2. flow # "none" /\ dispatch[n] # <<>>
  BY <1>1 DEF FlowInv, RowsExist, Runnable
<1>3. CASE d = 1
  BY <1>2, <1>3 DEF ContextReady, SourcesCompleted
<1>4. CASE d # 1 /\ ~SourcesCompleted(n)
  <2>1. dispatch[n][1] \in {"queued", "cancelled"}
    BY <1>2, <1>4 DEF FlowInv, StartedInOrder, Terminal
  <2>2. ASSUME dispatch[n][1] = "queued" PROVE FALSE
    <3>1. PICK e \in DOMAIN dispatch[n] : dispatch[n][e] = "running"
      BY <1>1, <1>2, <1>4, <2>2, FirstIsCurrent
    <3>2. 1 \in DOMAIN dispatch[n] /\ 1 < e
      BY <1>1, <1>2, <2>2, <3>1
    <3> QED BY <2>2, <3>1, <3>2 DEF FlowInv, DispatchesInOrder, Terminal
  <2> QED BY <1>2, <2>1, <2>2
<1> QED BY <1>2, <1>3, <1>4

\* Which steps are quiet.
LEMMA QuietActions ==
  ASSUME FlowInv,
         \/ \E n \in Nodes : \/ SpawnWorker(n) \/ RunByHand(n) \/ StartFails(n) \/ StopWorker(n)
                             \/ CrashWorker(n) \/ BeginRecovery(n)
                             \/ FinishRecovery(n, TRUE) \/ FinishRecovery(n, FALSE)
                             \/ PauseAgent(n) \/ WakeAgent(n)
         \/ \E next \in {"paused", "waiting"} : HoldTask(next)
         \/ ResumeTask
  PROVE  Quiet
<1>1. ASSUME NEW n \in Nodes, SpawnWorker(n) \/ RunByHand(n) PROVE Quiet
  <2>1. task = "running" /\ ContextReady(n)
    BY <1>1 DEF SpawnWorker, RunByHand, Schedulable
  <2>2. flow # "none" /\ (SourcesCompleted(n) \/ dispatch[n][1] = "cancelled")
    BY <2>1, SpawnIsInOrder
  <2>3. /\ UNCHANGED <<task, flow, edges, node, agent, deleg, dispatch, crashes, controls>>
        /\ worker' = [worker EXCEPT ![n] = [phase |-> "starting", d |-> Current(dispatch[n])]]
    BY <1>1 DEF SpawnWorker, RunByHand
  <2> QED BY <2>2, <2>3 DEF Quiet, FlowInv, TypeOK
<1>2. ASSUME NEW n \in Nodes, StartFails(n) PROVE Quiet
  <2>1. flow # "none"
    BY <1>2 DEF StartFails, FlowInv, RowsExist, NoWorker
  <2>2. \A m \in Nodes : node'[m] = node[m] \/ (node[m] = "running" /\ node'[m] = "queued")
    BY <1>2 DEF StartFails, NodesAfter
  <2>3. (task \in Terminal) <=> (task' \in Terminal)
    BY <1>2 DEF StartFails, Terminal
  <2>4. worker' = [worker EXCEPT ![n] = NoWorker] /\ UNCHANGED <<flow, edges, dispatch>>
    BY <1>2 DEF StartFails
  <2> QED BY <2>1, <2>2, <2>3, <2>4 DEF Quiet, FlowInv, TypeOK, NoWorker
<1>3. ASSUME NEW n \in Nodes, StopWorker(n) PROVE Quiet
  <2>1. flow # "none"
    BY <1>3 DEF StopWorker, FlowInv, RowsExist, NoWorker
  <2>2. \A m \in Nodes : node'[m] = node[m] \/ (node[m] = "running" /\ node'[m] = "queued")
    BY <1>3 DEF StopWorker, FlowInv, TypeOK
  <2>3. worker' = [worker EXCEPT ![n] = NoWorker] /\ UNCHANGED <<task, flow, edges, dispatch>>
    BY <1>3 DEF StopWorker
  <2> QED BY <2>1, <2>2, <2>3 DEF Quiet, FlowInv, TypeOK, NoWorker
<1>4. ASSUME NEW n \in Nodes, CrashWorker(n) \/ BeginRecovery(n) PROVE Quiet
  <2>1. flow # "none"
    BY <1>4 DEF CrashWorker, BeginRecovery, FlowInv, RowsExist, NoWorker
  <2>2. UNCHANGED <<task, flow, edges, node, dispatch>>
    BY <1>4 DEF CrashWorker, BeginRecovery
  <2>3. \A m \in Nodes : worker'[m] = worker[m] \/ worker'[m].phase \in {"lost", "revoked"}
    BY <1>4 DEF CrashWorker, BeginRecovery, FlowInv, TypeOK
  <2> QED BY <2>1, <2>2, <2>3 DEF Quiet
<1>5. ASSUME NEW n \in Nodes, FinishRecovery(n, TRUE) \/ FinishRecovery(n, FALSE) PROVE Quiet
  <2>1. flow # "none"
    BY <1>5 DEF FinishRecovery, FlowInv, RowsExist, NoWorker
  <2>2. UNCHANGED <<flow, edges, node, dispatch>> /\ worker' = [worker EXCEPT ![n] = NoWorker]
    BY <1>5 DEF FinishRecovery
  <2>3. (task \in Terminal) <=> (task' \in Terminal)
    BY <1>5 DEF FinishRecovery, Terminal
  <2> QED BY <2>1, <2>2, <2>3 DEF Quiet, FlowInv, TypeOK, NoWorker
<1>6. ASSUME NEW n \in Nodes, PauseAgent(n) \/ WakeAgent(n) PROVE Quiet
  <2>1. UNCHANGED <<task, flow, edges, node, dispatch, worker>> /\ agent[n] # "absent"
    BY <1>6 DEF PauseAgent, WakeAgent
  <2> QED BY <2>1 DEF Quiet, FlowInv, RowsExist
<1>7. ASSUME NEW next \in {"paused", "waiting", "running"}, HoldTask(next) \/ (next = "running" /\ ResumeTask)
      PROVE  Quiet
  <2>1. UNCHANGED <<flow, edges, dispatch, worker>> /\ agent' = AgentsAfter(next)
    BY <1>7 DEF HoldTask, ResumeTask
  <2>2. \A m \in Nodes : node'[m] = node[m] \/ (node[m] = "running" /\ node'[m] = "queued")
    BY <1>7 DEF HoldTask, ResumeTask, NodesAfter
  <2>3. (task \in Terminal) <=> (task' \in Terminal)
    BY <1>7 DEF HoldTask, ResumeTask, Terminal
  <2>4. ASSUME flow = "none" PROVE UNCHANGED <<node, agent>>
    <3>1. \A m \in Nodes : node[m] = "absent" /\ agent[m] = "absent"
      BY <2>4 DEF FlowInv, RowsExist
    <3>2. \A m \in Nodes : AgentsAfter(next)[m] = agent[m]
      BY <3>1 DEF AgentsAfter
    <3>3. UNCHANGED node
      BY <1>7, <3>1 DEF HoldTask, ResumeTask, NodesAfter, FlowInv, TypeOK
    <3>4. UNCHANGED agent
      BY <2>1, <3>2 DEF AgentsAfter, FlowInv, TypeOK
    <3> QED BY <3>3, <3>4
  <2> QED BY <2>1, <2>2, <2>3, <2>4 DEF Quiet
<1> QED BY <1>1, <1>2, <1>3, <1>4, <1>5, <1>6, <1>7

-----------------------------------------------------------------------------
(* Steps that create, start or settle Dispatches *)

\* A dependency of a node is a node.
LEMMA SourcesAreNodes ==
  ASSUME TypeOK, NEW n
  PROVE  Sources(n) \subseteq Nodes
  BY DEF TypeOK, Sources

\* What has an Episode keeps it, so a node whose sources are completed stays
\* ready.
LEMMA CompletedStays ==
  ASSUME TypeOK, UNCHANGED edges, NEW n,
         \A s \in Nodes : dispatch[s][1] = "completed" => dispatch'[s][1] = "completed",
         SourcesCompleted(n)
  PROVE  SourcesCompleted(n)'
<1>1. Sources(n)' = Sources(n)
  BY DEF Sources
<1> QED BY <1>1, SourcesAreNodes DEF SourcesCompleted

\* createFlow establishes the invariant's facts about the new rows.
LEMMA DefineFlowStep ==
  ASSUME FlowInv, TypeOK', NEW g \in Definitions, DefineFlow(g)
  PROVE  FlowInv'
<1>1. \A n \in Nodes : node'[n] = "queued" /\ dispatch'[n] = <<"queued">> /\ worker'[n] = NoWorker
  BY DEF DefineFlow, FlowInv, RowsExist
<1>2. flow' = "running" /\ edges' = g /\ task' = task
  BY DEF DefineFlow
<1>3. Plan!Acyclic(edges)'
  <2>1. Plan!Acyclic(g)
    BY ValidIsAcyclic DEF DefineFlow
  <2> QED BY <1>2, <2>1 DEF Plan!Acyclic
<1>4. RowsExist' /\ RunningIsStarted' /\ LeaseIsClaimed'
  BY <1>1, <1>2 DEF RowsExist, RunningIsStarted, LeaseIsClaimed, NoWorker
<1>5. SameVerdict' /\ NodeFollowsDispatch'
  BY <1>1, <1>2 DEF SameVerdict, NodeFollowsDispatch, NodeTerminal, Terminal
<1>6. StartedInOrder'
  BY <1>1, <1>2 DEF StartedInOrder, NoWorker
<1>7. DispatchesInOrder'
  BY <1>1 DEF DispatchesInOrder
<1>8. FlowVerdict'
  BY <1>1, <1>2, FlowAssumption DEF FlowVerdict, NodeTerminal, Terminal
<1> QED BY <1>3, <1>4, <1>5, <1>6, <1>7, <1>8 DEF FlowInv

\* A further Dispatch goes behind the ones there are.
LEMMA DispatchAgainStep ==
  ASSUME FlowInv, TypeOK', NEW n \in Nodes, DispatchAgain(n)
  PROVE  FlowInv'
<1>1. flow # "none"
  BY DEF DispatchAgain, FlowInv, RowsExist
<1>2. UNCHANGED <<task, flow, edges, node, worker>>
  BY DEF DispatchAgain
<1>3. \A m \in Nodes : dispatch[m] \in Seq(DispatchStates) /\ dispatch[m] # <<>>
  BY <1>1 DEF FlowInv, RowsExist, TypeOK
<1>4. \A m \in Nodes : dispatch'[m] = dispatch[m] \/ dispatch'[m] = Append(dispatch[m], "queued")
  BY DEF DispatchAgain, FlowInv, TypeOK
<1>5. ASSUME NEW m \in Nodes
      PROVE  /\ dispatch'[m] # <<>> /\ dispatch'[m][1] = dispatch[m][1]
             /\ \A e \in DOMAIN dispatch[m] :
                  e \in DOMAIN dispatch'[m] /\ dispatch'[m][e] = dispatch[m][e]
             /\ \A e \in DOMAIN dispatch'[m] :
                  e \in DOMAIN dispatch[m] \/ dispatch'[m][e] = "queued"
  <2> DEFINE ds == dispatch[m]
             fs == Append(ds, "queued")
  <2>1. ds \in Seq(DispatchStates) /\ ds # <<>> /\ (dispatch'[m] = ds \/ dispatch'[m] = fs)
    BY <1>3, <1>4
  <2> HIDE DEF ds
  <2>2. 1 \in DOMAIN ds /\ DOMAIN ds = 1..Len(ds) /\ DOMAIN fs = 1..(Len(ds) + 1)
    BY <2>1
  <2>3. \A e \in DOMAIN ds : e \in DOMAIN fs /\ fs[e] = ds[e]
    BY <2>1, <2>2
  <2>4. \A e \in DOMAIN fs : e \in DOMAIN ds \/ fs[e] = "queued"
    BY <2>1, <2>2
  <2>5. fs # <<>>
    BY <2>1
  <2> HIDE DEF fs
  <2> QED BY <2>1, <2>2, <2>3, <2>4, <2>5 DEF ds
<1>6. Plan!Acyclic(edges)'
  BY <1>2 DEF FlowInv
<1>7. RowsExist' /\ RunningIsStarted'
  BY <1>1, <1>2, <1>5 DEF FlowInv, RowsExist, RunningIsStarted
<1>8. SameVerdict' /\ NodeFollowsDispatch'
  BY <1>2, <1>5 DEF FlowInv, SameVerdict, NodeFollowsDispatch
<1>9. StartedInOrder'
  <2>1. \A m \in Nodes : SourcesCompleted(m) => SourcesCompleted(m)'
    BY <1>2, <1>5, CompletedStays DEF FlowInv
  <2> QED BY <1>2, <1>5, <2>1 DEF FlowInv, StartedInOrder
<1>10. LeaseIsClaimed'
  BY <1>2, <1>5 DEF FlowInv, LeaseIsClaimed
<1>11. DispatchesInOrder'
  <2> SUFFICES ASSUME NEW m \in Nodes, NEW d \in DOMAIN dispatch'[m], NEW o \in DOMAIN dispatch'[m],
                      o < d, dispatch'[m][d] \in {"running", "completed", "failed"}, task' \notin Terminal
               PROVE  dispatch'[m][o] \in Terminal
    BY DEF DispatchesInOrder
  <2>1. d \in DOMAIN dispatch[m]
    BY <1>5
  <2>2. o \in DOMAIN dispatch[m]
    <3>1. dispatch'[m] \in Seq(DispatchStates)
      BY DEF TypeOK
    <3> QED BY <1>3, <2>1, <3>1
  <2> QED BY <1>2, <1>5, <2>1, <2>2 DEF FlowInv, DispatchesInOrder
<1>12. FlowVerdict'
  BY <1>2 DEF FlowInv, FlowVerdict
<1> QED BY <1>6, <1>7, <1>8, <1>9, <1>10, <1>11, <1>12 DEF FlowInv

\* The Dispatch a node stands for is the one its Agent works on until it is
\* settled.
LEMMA OpenIsCurrent ==
  ASSUME FlowInv, task \notin Terminal, flow # "none", NEW n \in Nodes, dispatch[n][1] \notin Terminal
  PROVE  1 \in Runnable(dispatch[n]) /\ Current(dispatch[n]) = 1
<1>1. dispatch[n] \in Seq(DispatchStates) /\ dispatch[n] # <<>> /\ 1 \in DOMAIN dispatch[n]
  BY DEF FlowInv, TypeOK, RowsExist
<1>2. dispatch[n][1] \in {"queued", "running"}
  BY <1>1 DEF DispatchStates
<1>3. 1 \in Runnable(dispatch[n])
  BY <1>1, <1>2 DEF Runnable
<1>4. \A d \in DOMAIN dispatch[n] : d # 1 => dispatch[n][d] # "running"
  <2> SUFFICES ASSUME NEW d \in DOMAIN dispatch[n], d # 1, dispatch[n][d] = "running" PROVE FALSE
    OBVIOUS
  <2>1. 1 < d
    BY <1>1
  <2> QED BY <1>1, <2>1 DEF FlowInv, DispatchesInOrder
<1>5. CASE dispatch[n][1] = "queued"
  BY <1>1, <1>3, <1>4, <1>5, FirstIsCurrent
<1>6. CASE dispatch[n][1] = "running"
  <2>1. Current(dispatch[n]) \in DOMAIN dispatch[n] /\ dispatch[n][Current(dispatch[n])] = "running"
    BY <1>1, <1>3, <1>6, CurrentIsFirst DEF Runnable
  <2> QED BY <1>3, <1>4, <2>1
<1> QED BY <1>2, <1>5, <1>6

\* What a claim does to the Dispatches of its Agent.
LEMMA ClaimFacts ==
  ASSUME FlowInv, NEW n \in Nodes, Claim(n)
  PROVE  LET d == Current(dispatch[n]) IN
         /\ task = "running" /\ flow # "none" /\ d \in Runnable(dispatch[n])
         /\ dispatch' = [dispatch EXCEPT ![n] = [dispatch[n] EXCEPT ![d] = "running"]]
         /\ \A e \in DOMAIN dispatch[n] : dispatch'[n][e] = IF e = d THEN "running" ELSE dispatch[n][e]
         /\ DOMAIN dispatch'[n] = DOMAIN dispatch[n]
         /\ 1 \in DOMAIN dispatch[n]
<1> DEFINE d == Current(dispatch[n])
           ds == [dispatch[n] EXCEPT ![d] = "running"]
<1>1. task = "running" /\ flow # "none"
  BY DEF Claim, Claimable, FlowInv, RowsExist, NoWorker
<1>2. d \in Runnable(dispatch[n])
  BY CurrentIsFirst DEF Claim, Claimable, FlowInv, TypeOK
<1>3. dispatch' = [dispatch EXCEPT ![n] = ds]
  BY DEF Claim, FlowInv, TypeOK
<1>4. dispatch'[n] = ds
  <2> HIDE DEF ds
  <2> QED BY <1>3 DEF FlowInv, TypeOK
<1>5. 1 \in DOMAIN dispatch[n]
  BY <1>1 DEF FlowInv, TypeOK, RowsExist
<1> QED BY <1>1, <1>2, <1>3, <1>4, <1>5 DEF Runnable

\* claimAttempt starts a node's Dispatch only with the Episodes of its sources,
\* and a later Dispatch only when the earlier ones are settled.
LEMMA ClaimStep ==
  ASSUME FlowInv, TypeOK', NEW n \in Nodes, Claim(n)
  PROVE  FlowInv'
<1> DEFINE d == Current(dispatch[n])
<1>1. task = "running" /\ flow # "none" /\ d \in Runnable(dispatch[n]) /\ 1 \in DOMAIN dispatch[n]
  BY ClaimFacts
<1>2. /\ \A e \in DOMAIN dispatch[n] : dispatch'[n][e] = IF e = d THEN "running" ELSE dispatch[n][e]
      /\ DOMAIN dispatch'[n] = DOMAIN dispatch[n]
  BY ClaimFacts
<1>3. \A m \in Nodes \ {n} : dispatch'[m] = dispatch[m] /\ node'[m] = node[m] /\ worker'[m] = worker[m]
  BY DEF Claim, FlowInv, TypeOK
<1>4. worker'[n] = [phase |-> "running", d |-> d]
  BY DEF Claim, FlowInv, TypeOK
<1>5. node'[n] = IF node[n] = "queued" THEN "running" ELSE node[n]
  BY DEF Claim, FlowInv, TypeOK
<1>6. UNCHANGED <<task, flow, edges>> /\ task \notin Terminal
  BY <1>1 DEF Claim, Terminal
<1>7. d \in DOMAIN dispatch[n] /\ dispatch[n][d] \in {"queued", "running"}
  BY <1>1 DEF Runnable
<1> HIDE DEF d
<1>8. node[n] # "absent" /\ (node[n] \in NodeTerminal <=> dispatch[n][1] \in Terminal)
  BY <1>1 DEF FlowInv, RowsExist, NodeFollowsDispatch
<1>9. dispatch[n][1] \notin Terminal => d = 1
  BY <1>1, <1>6, OpenIsCurrent DEF d
<1>10. dispatch[n][1] \in Terminal => d # 1 /\ dispatch'[n][1] = dispatch[n][1]
  BY <1>1, <1>2, <1>7 DEF Terminal
<1>11. dispatch[n][1] \notin Terminal => dispatch'[n][1] = "running"
  BY <1>1, <1>2, <1>9
<1>12. Plan!Acyclic(edges)'
  BY <1>6 DEF FlowInv
<1>13. RowsExist'
  <2>1. dispatch'[n] # <<>> /\ node'[n] # "absent"
    BY <1>1, <1>2, <1>5, <1>8
  <2> QED BY <1>1, <1>3, <1>6, <2>1 DEF FlowInv, RowsExist
<1>14. RunningIsStarted'
  <2>1. node'[n] = "running" => dispatch'[n][1] = "running"
    BY <1>5, <1>8, <1>11 DEF NodeTerminal, Terminal
  <2> QED BY <1>3, <2>1 DEF FlowInv, RunningIsStarted
<1>15. NodeFollowsDispatch'
  <2>1. (node'[n] \in NodeTerminal) <=> (dispatch'[n][1] \in Terminal)
    BY <1>5, <1>8, <1>10, <1>11 DEF NodeTerminal, Terminal
  <2> QED BY <1>3, <2>1 DEF FlowInv, NodeFollowsDispatch
<1>16. SameVerdict'
  <2>1. (node[n] = "completed") <=> (dispatch[n][1] = "completed")
    BY <1>1, <1>6 DEF FlowInv, SameVerdict
  <2>2. (node'[n] = "completed") <=> (dispatch'[n][1] = "completed")
    BY <1>5, <1>10, <1>11, <2>1 DEF Terminal
  <2> QED BY <1>3, <1>6, <2>2 DEF FlowInv, SameVerdict
<1>17. StartedInOrder'
  <2>1. \A s \in Nodes : dispatch[s][1] = "completed" => dispatch'[s][1] = "completed"
    BY <1>3, <1>10 DEF Terminal
  <2>2. \A m \in Nodes : SourcesCompleted(m) => SourcesCompleted(m)'
    BY <1>6, <2>1, CompletedStays DEF FlowInv
  <2>3. SourcesCompleted(n) \/ dispatch[n][1] = "cancelled"
    BY <1>1, <1>6 DEF Claim, FlowInv, StartedInOrder
  <2>4. SourcesCompleted(n)' \/ dispatch'[n][1] = "cancelled"
    BY <1>10, <2>2, <2>3 DEF Terminal
  <2> QED BY <1>1, <1>3, <1>6, <2>2, <2>4 DEF FlowInv, StartedInOrder
<1>18. LeaseIsClaimed'
  <2>1. worker'[n].d \in DOMAIN dispatch'[n] /\ dispatch'[n][worker'[n].d] # "queued"
    BY <1>2, <1>4, <1>7
  <2> QED BY <1>3, <2>1 DEF FlowInv, LeaseIsClaimed
<1>19. DispatchesInOrder'
  <2>1. ASSUME NEW e \in DOMAIN dispatch'[n], NEW o \in DOMAIN dispatch'[n], o < e,
               dispatch'[n][e] \in {"running", "completed", "failed"}
        PROVE  dispatch'[n][o] \in Terminal
    <3>1. dispatch[n] \in Seq(DispatchStates)
      BY DEF FlowInv, TypeOK
    <3>2. CASE dispatch[n][e] \in {"running", "completed", "failed"}
      <4>1. dispatch[n][o] \in Terminal
        BY <1>2, <1>6, <2>1, <3>2 DEF FlowInv, DispatchesInOrder
      <4> QED BY <1>2, <1>7, <4>1 DEF Terminal
    <3>3. CASE dispatch[n][e] \notin {"running", "completed", "failed"}
      <4>1. e = d /\ dispatch[n][d] = "queued"
        BY <1>2, <1>7, <2>1, <3>3
      <4>2. dispatch[n][o] \in Terminal
        BY <1>1, <1>2, <2>1, <3>1, <4>1, BeforeCurrent DEF d
      <4> QED BY <1>2, <1>7, <4>2 DEF Terminal
    <3> QED BY <3>2, <3>3
  <2> QED BY <1>3, <1>6, <2>1 DEF FlowInv, DispatchesInOrder
<1>20. FlowVerdict'
  <2>1. \A m \in Nodes : /\ (node'[m] \in NodeTerminal) <=> (node[m] \in NodeTerminal)
                         /\ (node'[m] = "completed") <=> (node[m] = "completed")
    BY <1>3, <1>5 DEF NodeTerminal, Terminal
  <2>2. (\A m \in Required : node[m] = "completed") <=> (\A m \in Required : node'[m] = "completed")
    BY <2>1, FlowAssumption
  <2>3. (\E m \in Nodes : node[m] \notin NodeTerminal) <=> (\E m \in Nodes : node'[m] \notin NodeTerminal)
    BY <2>1
  <2> QED BY <1>6, <2>2, <2>3 DEF FlowInv, FlowVerdict
<1> QED BY <1>12, <1>13, <1>14, <1>15, <1>16, <1>17, <1>18, <1>19, <1>20 DEF FlowInv

\* An Agent without a numbered Dispatch has none.
LEMMA NoDispatches ==
  ASSUME NEW ds \in Seq(DispatchStates), DOMAIN ds = {}
  PROVE  ds = <<>>
<1>1. DOMAIN ds = 1..Len(ds) /\ Len(ds) \in Nat
  OBVIOUS
<1>2. 1 \notin 1..Len(ds)
  BY <1>1, Zenon
<1>3. Len(ds) = 0
  BY <1>1, <1>2
<1> QED BY <1>3

\* The end of the Task settles every node with its Dispatch.
LEMMA EndTaskStep ==
  ASSUME FlowInv, TypeOK', NEW next \in Terminal, EndTask(next)
  PROVE  FlowInv'
<1>1. task' \in Terminal /\ UNCHANGED <<edges, worker>>
  BY DEF EndTask
<1>2. (flow' = "none") <=> (flow = "none")
  BY DEF EndTask, Terminal
<1>3. ASSUME NEW n \in Nodes
      PROVE  /\ DOMAIN dispatch'[n] = DOMAIN dispatch[n]
             /\ \A d \in DOMAIN dispatch[n] : dispatch'[n][d] \in Terminal
  BY DEF EndTask
<1>4. ASSUME NEW n \in Nodes
      PROVE  /\ node[n] = "absent" => node'[n] = "absent"
             /\ node[n] # "absent" => node'[n] \in NodeTerminal
  BY DEF EndTask, NodeTerminal, Terminal
<1>5. Plan!Acyclic(edges)'
  BY <1>1 DEF FlowInv
<1>6. RowsExist'
  <2>1. ASSUME NEW n \in Nodes, flow = "none"
        PROVE  node'[n] = "absent" /\ agent'[n] = "absent" /\ dispatch'[n] = <<>> /\ worker'[n] = NoWorker
    <3>1. node'[n] = "absent" /\ agent'[n] = "absent" /\ worker'[n] = NoWorker
      BY <1>1, <1>4, <2>1 DEF EndTask, FlowInv, RowsExist
    <3>2. dispatch'[n] \in Seq(DispatchStates) /\ DOMAIN dispatch'[n] = {}
      BY <1>3, <2>1 DEF FlowInv, RowsExist, TypeOK
    <3> QED BY <3>1, <3>2, NoDispatches
  <2>2. ASSUME NEW n \in Nodes, flow # "none" PROVE node'[n] # "absent" /\ dispatch'[n] # <<>>
    <3>1. node[n] # "absent" /\ 1 \in DOMAIN dispatch'[n]
      BY <1>3, <2>2 DEF FlowInv, RowsExist, TypeOK
    <3> QED BY <1>4, <3>1 DEF NodeTerminal, Terminal
  <2> QED BY <1>2, <2>1, <2>2 DEF RowsExist
<1>7. RunningIsStarted' /\ NodeFollowsDispatch'
  <2>1. ASSUME NEW n \in Nodes, node'[n] # "absent"
        PROVE  node'[n] \in NodeTerminal /\ dispatch'[n][1] \in Terminal
    <3>1. node[n] # "absent" /\ 1 \in DOMAIN dispatch[n]
      BY <1>4, <2>1 DEF FlowInv, RowsExist, TypeOK
    <3> QED BY <1>3, <1>4, <3>1
  <2> QED BY <2>1 DEF RunningIsStarted, NodeFollowsDispatch, NodeTerminal, Terminal
<1>8. LeaseIsClaimed'
  BY <1>1, <1>3 DEF FlowInv, LeaseIsClaimed, Terminal
<1>9. SameVerdict' /\ StartedInOrder' /\ DispatchesInOrder' /\ FlowVerdict'
  BY <1>1 DEF SameVerdict, StartedInOrder, DispatchesInOrder, FlowVerdict
<1> QED BY <1>5, <1>6, <1>7, <1>8, <1>9 DEF FlowInv

\* cancel-agent settles the node with all Dispatches of its Agent and closes
\* the Flow when it was the last open one.
LEMMA CancelAgentStep ==
  ASSUME FlowInv, TypeOK', NEW n \in Nodes, CancelAgent(n)
  PROVE  FlowInv'
<1>1. flow # "none" /\ UNCHANGED <<task, edges, worker>>
  BY DEF CancelAgent, FlowInv, RowsExist
<1>2. \A m \in Nodes \ {n} : dispatch'[m] = dispatch[m] /\ node'[m] = node[m]
  BY DEF CancelAgent, FlowInv, TypeOK
<1>3. node'[n] = IF node[n] \in NodeTerminal THEN node[n] ELSE "cancelled"
  BY DEF CancelAgent, FlowInv, TypeOK
<1>4. dispatch'[n] = [d \in DOMAIN dispatch[n] |->
        IF dispatch[n][d] \in {"queued", "running"} THEN "cancelled" ELSE dispatch[n][d]]
  BY DEF CancelAgent, FlowInv, TypeOK
<1>5. /\ DOMAIN dispatch'[n] = DOMAIN dispatch[n]
      /\ \A d \in DOMAIN dispatch[n] :
           dispatch'[n][d] \in Terminal /\ (dispatch[n][d] \in Terminal => dispatch'[n][d] = dispatch[n][d])
  BY <1>4 DEF FlowInv, TypeOK, DispatchStates, Terminal
<1>6. 1 \in DOMAIN dispatch[n] /\ node[n] # "absent"
      /\ ((node[n] \in NodeTerminal) <=> (dispatch[n][1] \in Terminal))
  BY <1>1 DEF FlowInv, RowsExist, TypeOK, NodeFollowsDispatch
<1>7. flow' # "none"
  BY <1>1 DEF CancelAgent, Settled
<1>8. Plan!Acyclic(edges)'
  BY <1>1 DEF FlowInv
<1>9. RowsExist'
  <2>1. node'[n] # "absent" /\ dispatch'[n] # <<>>
    BY <1>3, <1>5, <1>6
  <2> QED BY <1>1, <1>2, <1>7, <2>1 DEF FlowInv, RowsExist
<1>10. node'[n] \in NodeTerminal /\ dispatch'[n][1] \in Terminal
  BY <1>3, <1>5, <1>6 DEF NodeTerminal, Terminal
<1>11. RunningIsStarted' /\ NodeFollowsDispatch'
  <2>1. RunningIsStarted'
    BY <1>2, <1>10 DEF FlowInv, RunningIsStarted, NodeTerminal, Terminal
  <2>2. NodeFollowsDispatch'
    BY <1>2, <1>10 DEF FlowInv, NodeFollowsDispatch
  <2> QED BY <2>1, <2>2
<1>12. SameVerdict'
  <2> SUFFICES ASSUME task' \notin Terminal
               PROVE  \A m \in Nodes : (node'[m] = "completed") <=> (dispatch'[m][1] = "completed")
    BY DEF SameVerdict
  <2>1. \A m \in Nodes : (node[m] = "completed") <=> (dispatch[m][1] = "completed")
    BY <1>1 DEF FlowInv, SameVerdict
  <2>2. (node'[n] = "completed") <=> (dispatch'[n][1] = "completed")
    BY <1>3, <1>4, <1>6, <2>1 DEF NodeTerminal, Terminal
  <2> QED BY <1>2, <2>1, <2>2
<1>13. StartedInOrder'
  <2>1. \A s \in Nodes : dispatch[s][1] = "completed" => dispatch'[s][1] = "completed"
    BY <1>2, <1>5, <1>6 DEF Terminal
  <2>2. \A m \in Nodes : SourcesCompleted(m) => SourcesCompleted(m)'
    BY <1>1, <2>1, CompletedStays DEF FlowInv
  <2>3. dispatch[n][1] \in {"queued", "cancelled"} => dispatch'[n][1] = "cancelled"
    BY <1>4, <1>6
  <2> QED BY <1>1, <1>2, <1>7, <2>2, <2>3 DEF FlowInv, StartedInOrder
<1>14. LeaseIsClaimed'
  BY <1>1, <1>2, <1>5 DEF FlowInv, LeaseIsClaimed, Terminal
<1>15. DispatchesInOrder'
  BY <1>1, <1>2, <1>5 DEF FlowInv, DispatchesInOrder
<1>16. FlowVerdict'
  <2>1. CASE node' = node
    <3>1. flow' = flow
      BY <2>1 DEF CancelAgent
    <3> QED BY <1>1, <2>1, <3>1 DEF FlowInv, FlowVerdict
  <2>2. CASE node' # node
    <3>1. flow' = Settled(node')
      BY <2>2 DEF CancelAgent
    <3>2. node[n] \notin NodeTerminal
      BY <1>2, <1>3, <2>2 DEF FlowInv, TypeOK
    <3>3. task \notin Terminal => flow = "running"
      BY <1>1, <3>2 DEF FlowInv, FlowVerdict
    <3> QED BY <1>1, <3>1, <3>3 DEF FlowVerdict, Settled
  <2> QED BY <2>1, <2>2
<1> QED BY <1>8, <1>9, <1>11, <1>12, <1>13, <1>14, <1>15, <1>16 DEF FlowInv


\* What skipBlockedFlowNodes finds: every node it skips still has its first
\* Dispatch queued, and that is the one getRunnableAgentDispatch gives it.
LEMMA SkippedIsOpen ==
  ASSUME FlowInv, NEW n \in Nodes, task \notin Terminal, flow # "none", dispatch[n][1] = "running",
         NEW m \in Skipped(n, [node EXCEPT ![n] = "failed"])
  PROVE  /\ m \in Nodes /\ m # n /\ node[m] = "queued"
         /\ dispatch[m][1] = "queued" /\ 1 \in DOMAIN dispatch[m] /\ Current(dispatch[m]) = 1
<1> DEFINE own == [node EXCEPT ![n] = "failed"]
           K == Skipped(n, own)
<1>1. own \in [Nodes -> {"absent", "queued", "running"} \cup NodeTerminal]
      /\ own[n] = "failed" /\ \A k \in Nodes : k # n => own[k] = node[k]
  BY DEF FlowInv, TypeOK, NodeTerminal, Terminal
<1> HIDE DEF own
<1>2. K = QueuedDependents(K \cup {n}, own)
  BY SkippedIsFixed
<1>3. m \in K
  BY DEF own
<1> HIDE DEF K
<1>4. \A k \in K : k \in Nodes /\ k # n /\ node[k] = "queued" /\ \E s \in K \cup {n} : <<s, k>> \in edges
  <2> SUFFICES ASSUME NEW k \in K
               PROVE  k \in Nodes /\ k # n /\ node[k] = "queued" /\ \E s \in K \cup {n} : <<s, k>> \in edges
    OBVIOUS
  <2>1. k \in QueuedDependents(K \cup {n}, own)
    BY <1>2
  <2> QED BY <1>1, <2>1 DEF QueuedDependents
<1>5. PICK s \in K \cup {n} : <<s, m>> \in edges
  BY <1>3, <1>4
<1>6. dispatch[s][1] # "completed"
  <2>1. CASE s = n
    BY <2>1
  <2>2. CASE s \in K
    BY <1>4, <2>2 DEF FlowInv, NodeFollowsDispatch, NodeTerminal, Terminal
  <2> QED BY <2>1, <2>2
<1>7. ~SourcesCompleted(m)
  BY <1>5, <1>6 DEF SourcesCompleted, Sources
<1>8. dispatch[m][1] \in {"queued", "cancelled"} /\ dispatch[m][1] \notin Terminal
  BY <1>3, <1>4, <1>7 DEF FlowInv, StartedInOrder, NodeFollowsDispatch, NodeTerminal, Terminal
<1>9. 1 \in Runnable(dispatch[m]) /\ Current(dispatch[m]) = 1
  BY <1>3, <1>4, <1>8, OpenIsCurrent
<1> QED BY <1>3, <1>4, <1>8, <1>9 DEF Runnable, Terminal

\* The nodes a report of status skips.
SkippedBy(n, status) ==
  IF worker[n].d = 1 /\ status = "failed" THEN Skipped(n, [node EXCEPT ![n] = "failed"]) ELSE {}

\* What finalizeAgentDispatch does to the nodes and their Dispatches.
Finalized(n, status) ==
  /\ task \notin Terminal /\ flow # "none" /\ UNCHANGED <<task, edges, worker>>
  /\ worker[n].d \in DOMAIN dispatch[n] /\ dispatch[n][worker[n].d] = "running"
  /\ node'[n] = IF worker[n].d = 1 THEN status ELSE node[n]
  /\ dispatch'[n] = [dispatch[n] EXCEPT ![worker[n].d] = status]
  /\ \A m \in SkippedBy(n, status) :
       /\ m \in Nodes /\ m # n /\ node[m] = "queued" /\ node'[m] = "skipped"
       /\ 1 \in DOMAIN dispatch[m] /\ dispatch[m][1] = "queued"
       /\ dispatch'[m] = [dispatch[m] EXCEPT ![1] = "cancelled"]
  /\ \A m \in Nodes : m # n /\ m \notin SkippedBy(n, status) =>
       node'[m] = node[m] /\ dispatch'[m] = dispatch[m]
  /\ flow' = IF worker[n].d = 1 THEN Settled(node') ELSE flow

\* A node is skipped with its first Dispatch still queued, and that Dispatch is
\* the one cancelled.
LEMMA FinalizeFacts ==
  ASSUME FlowInv, NEW n \in Nodes, NEW status \in {"completed", "failed"}, Finalize(n, status)
  PROVE  Finalized(n, status)
<1> DEFINE d == worker[n].d
           own == [node EXCEPT ![n] = IF d = 1 THEN status ELSE @]
           skip == IF d = 1 /\ status = "failed" THEN Skipped(n, own) ELSE {}
<1>1. skip = SkippedBy(n, status)
  BY DEF SkippedBy
<1>2. worker[n].phase = "running" /\ task \notin Terminal /\ UNCHANGED <<task, edges, worker>>
  BY DEF Finalize
<1>3. flow # "none"
  BY <1>2 DEF FlowInv, RowsExist, NoWorker
<1>4. d \in DOMAIN dispatch[n] /\ dispatch[n][d] = "running"
  BY <1>2 DEF Finalize, FlowInv, LeaseIsClaimed
<1>5. /\ node' = [m \in Nodes |-> IF m \in skip THEN "skipped" ELSE own[m]]
      /\ flow' = IF d = 1 THEN Settled(node') ELSE flow
      /\ dispatch' = [m \in Nodes |->
           IF m = n THEN [dispatch[n] EXCEPT ![d] = status]
           ELSE IF m \in skip
           THEN [dispatch[m] EXCEPT ![Current(dispatch[m])] = IF @ = "queued" THEN "cancelled" ELSE @]
           ELSE dispatch[m]]
  BY DEF Finalize
<1>6. own[n] = (IF d = 1 THEN status ELSE node[n]) /\ \A m \in Nodes : m # n => own[m] = node[m]
  BY DEF FlowInv, TypeOK
<1>7. ASSUME NEW m \in SkippedBy(n, status)
      PROVE  /\ m \in Nodes /\ m # n /\ node[m] = "queued"
             /\ 1 \in DOMAIN dispatch[m] /\ dispatch[m][1] = "queued" /\ Current(dispatch[m]) = 1
  <2>1. d = 1 /\ m \in Skipped(n, [node EXCEPT ![n] = "failed"])
    BY <1>7 DEF SkippedBy
  <2> QED BY <1>2, <1>3, <1>4, <2>1, SkippedIsOpen
<1>8. n \notin SkippedBy(n, status)
  BY <1>7
<1> HIDE DEF own, skip
<1>9. \A m \in SkippedBy(n, status) :
        node'[m] = "skipped" /\ dispatch'[m] = [dispatch[m] EXCEPT ![1] = "cancelled"]
  BY <1>1, <1>5, <1>7
<1>10. \A m \in Nodes : m # n /\ m \notin SkippedBy(n, status) =>
         node'[m] = node[m] /\ dispatch'[m] = dispatch[m]
  BY <1>1, <1>5, <1>6
<1>11. node'[n] = (IF d = 1 THEN status ELSE node[n]) /\ dispatch'[n] = [dispatch[n] EXCEPT ![d] = status]
  BY <1>1, <1>5, <1>6, <1>8
<1>12. flow' = IF d = 1 THEN Settled(node') ELSE flow
  BY <1>5
<1> QED BY <1>2, <1>3, <1>4, <1>7, <1>9, <1>10, <1>11, <1>12 DEF Finalized

\* finalizeAgentDispatch settles a node with its Dispatch, skips what waits for
\* it, and closes the Flow with the last open node.
LEMMA FinalizeStep ==
  ASSUME FlowInv, TypeOK', NEW n \in Nodes, NEW status \in {"completed", "failed"}, Finalize(n, status)
  PROVE  FlowInv'
<1> DEFINE d == worker[n].d
           K == SkippedBy(n, status)
<1>0. Finalized(n, status)
  BY FinalizeFacts
<1>1. task \notin Terminal /\ flow # "none" /\ UNCHANGED <<task, edges, worker>>
  BY <1>0 DEF Finalized
<1>2. d \in DOMAIN dispatch[n] /\ dispatch[n][d] = "running"
  BY <1>0 DEF Finalized
<1>3. node'[n] = (IF d = 1 THEN status ELSE node[n]) /\ dispatch'[n] = [dispatch[n] EXCEPT ![d] = status]
  BY <1>0 DEF Finalized
<1>4. \A m \in K : /\ m \in Nodes /\ m # n /\ node[m] = "queued" /\ node'[m] = "skipped"
                   /\ 1 \in DOMAIN dispatch[m] /\ dispatch[m][1] = "queued"
                   /\ dispatch'[m] = [dispatch[m] EXCEPT ![1] = "cancelled"]
  BY <1>0 DEF Finalized
<1>5. \A m \in Nodes : m # n /\ m \notin K => node'[m] = node[m] /\ dispatch'[m] = dispatch[m]
  BY <1>0 DEF Finalized
<1>6. flow' = IF d = 1 THEN Settled(node') ELSE flow
  BY <1>0 DEF Finalized
<1> HIDE DEF d, K
<1>7. /\ DOMAIN dispatch'[n] = DOMAIN dispatch[n] /\ dispatch'[n][d] = status
      /\ \A e \in DOMAIN dispatch[n] : e # d => dispatch'[n][e] = dispatch[n][e]
  BY <1>2, <1>3
<1>8. \A m \in K : /\ DOMAIN dispatch'[m] = DOMAIN dispatch[m] /\ dispatch'[m][1] = "cancelled"
                   /\ \A e \in DOMAIN dispatch[m] : e # 1 => dispatch'[m][e] = dispatch[m][e]
  BY <1>4
<1>9. \A m \in Nodes : node[m] # "absent" /\ 1 \in DOMAIN dispatch[m]
  BY <1>1 DEF FlowInv, RowsExist, TypeOK
<1>10. Plan!Acyclic(edges)'
  BY <1>1 DEF FlowInv
<1>11. flow' # "none"
  BY <1>1, <1>6 DEF Settled
<1>12. RowsExist'
  <2>1. node'[n] # "absent" /\ 1 \in DOMAIN dispatch'[n]
    BY <1>3, <1>7, <1>9
  <2>2. ASSUME NEW m \in Nodes, m # n PROVE node'[m] # "absent" /\ 1 \in DOMAIN dispatch'[m]
    <3>1. CASE m \in K
      BY <1>4, <1>8, <3>1
    <3>2. CASE m \notin K
      BY <1>5, <1>9, <2>2, <3>2
    <3> QED BY <3>1, <3>2
  <2> QED BY <1>11, <2>1, <2>2 DEF RowsExist
<1>13. RunningIsStarted'
  <2>1. node'[n] = "running" => dispatch'[n][1] = "running"
    BY <1>3, <1>7, <1>9 DEF FlowInv, RunningIsStarted
  <2>2. \A m \in K : node'[m] # "running"
    BY <1>4
  <2> QED BY <1>5, <2>1, <2>2 DEF FlowInv, RunningIsStarted
<1>14. NodeFollowsDispatch'
  <2>1. (node'[n] \in NodeTerminal) <=> (dispatch'[n][1] \in Terminal)
    <3>1. CASE d = 1
      BY <1>3, <1>7, <3>1 DEF NodeTerminal, Terminal
    <3>2. CASE d # 1
      BY <1>3, <1>7, <1>9, <3>2 DEF FlowInv, NodeFollowsDispatch
    <3> QED BY <3>1, <3>2
  <2>2. \A m \in K : node'[m] \in NodeTerminal /\ dispatch'[m][1] \in Terminal
    BY <1>4, <1>8 DEF NodeTerminal, Terminal
  <2> QED BY <1>5, <2>1, <2>2 DEF FlowInv, NodeFollowsDispatch
<1>15. SameVerdict'
  <2>1. \A m \in Nodes : (node[m] = "completed") <=> (dispatch[m][1] = "completed")
    BY <1>1 DEF FlowInv, SameVerdict
  <2>2. (node'[n] = "completed") <=> (dispatch'[n][1] = "completed")
    <3>1. CASE d = 1
      BY <1>3, <1>7, <3>1
    <3>2. CASE d # 1
      BY <1>3, <1>7, <1>9, <2>1, <3>2
    <3> QED BY <3>1, <3>2
  <2>3. \A m \in K : node'[m] # "completed" /\ dispatch'[m][1] # "completed"
    BY <1>4, <1>8
  <2> QED BY <1>5, <2>1, <2>2, <2>3 DEF SameVerdict
<1>16. StartedInOrder'
  <2>1. \A s \in Nodes : dispatch[s][1] = "completed" => dispatch'[s][1] = "completed"
    BY ZenonT(60), <1>2, <1>4, <1>5, <1>7, <1>9
  <2>2. \A m \in Nodes : SourcesCompleted(m) => SourcesCompleted(m)'
    BY <1>1, <2>1, CompletedStays DEF FlowInv
  <2>3. \A m \in Nodes : SourcesCompleted(m) \/
          (/\ dispatch[m][1] \in {"queued", "cancelled"}
           /\ worker[m].phase = "starting" => dispatch[m][1] = "cancelled")
    BY <1>1 DEF FlowInv, StartedInOrder
  <2>4. ASSUME ~SourcesCompleted(n) PROVE dispatch'[n][1] = dispatch[n][1]
    BY <1>2, <1>7, <1>9, <2>3, <2>4
  <2> QED BY <1>1, <1>5, <1>8, <2>2, <2>3, <2>4 DEF StartedInOrder
<1>17. LeaseIsClaimed'
  <2>1. \A m \in Nodes : /\ DOMAIN dispatch'[m] = DOMAIN dispatch[m]
                         /\ \A e \in DOMAIN dispatch[m] : dispatch[m][e] # "queued" => dispatch'[m][e] # "queued"
    BY <1>4, <1>5, <1>7, <1>8
  <2> QED BY <1>1, <2>1 DEF FlowInv, LeaseIsClaimed
<1>18. DispatchesInOrder'
  <2>1. \A m \in Nodes : /\ DOMAIN dispatch'[m] = DOMAIN dispatch[m]
                         /\ \A e \in DOMAIN dispatch[m] :
                              /\ dispatch[m][e] \in Terminal => dispatch'[m][e] \in Terminal
                              /\ dispatch'[m][e] \in {"running", "completed", "failed"} =>
                                   dispatch[m][e] \in {"running", "completed", "failed"}
    BY <1>2, <1>4, <1>5, <1>7, <1>8 DEF Terminal
  <2> QED BY <1>1, <2>1 DEF FlowInv, DispatchesInOrder
<1>19. FlowVerdict'
  <2>1. CASE d = 1
    <3>1. node[n] \notin NodeTerminal
      BY <1>2, <1>9, <2>1 DEF FlowInv, NodeFollowsDispatch, Terminal
    <3>2. flow = "running" /\ flow' = Settled(node')
      BY <1>1, <1>6, <2>1, <3>1 DEF FlowInv, FlowVerdict
    <3> QED BY <3>2 DEF FlowVerdict, Settled
  <2>2. CASE d # 1
    <3>1. \A m \in Nodes : node'[m] = node[m]
      BY <1>3, <1>5, <2>2 DEF K, d, SkippedBy
    <3>2. flow' = flow /\ \A m \in Required : node'[m] = node[m]
      BY <1>6, <2>2, <3>1, FlowAssumption
    <3> QED BY <1>1, <3>1, <3>2 DEF FlowInv, FlowVerdict
  <2> QED BY <2>1, <2>2
<1> QED BY <1>10, <1>12, <1>13, <1>14, <1>15, <1>16, <1>17, <1>18, <1>19 DEF FlowInv


-----------------------------------------------------------------------------
(* The theorems *)

\* A Task without a Flow satisfies the invariant.
LEMMA InitInv == Init => FlowInv
<1> SUFFICES ASSUME Init PROVE FlowInv
  OBVIOUS
<1> USE DEF Init
<1>1. TypeOK
  <2>1. dispatch \in [Nodes -> Seq(DispatchStates)] /\ \A n \in Nodes : Len(dispatch[n]) <= MaxDispatches
    BY BoundsAssumption
  <2>2. worker \in [Nodes -> [phase : {"none", "starting", "running", "lost", "revoked"},
                              d : 0..MaxDispatches]]
    BY BoundsAssumption DEF NoWorker
  <2> QED BY <2>1, <2>2, BoundsAssumption DEF TypeOK, AgentStates
<1>2. Plan!Acyclic(edges)
  BY DEF Plan!Acyclic
<1>3. RowsExist /\ RunningIsStarted /\ LeaseIsClaimed /\ NodeFollowsDispatch
  BY DEF RowsExist, RunningIsStarted, LeaseIsClaimed, NodeFollowsDispatch, NoWorker
<1>4. SameVerdict /\ StartedInOrder /\ DispatchesInOrder /\ FlowVerdict
  BY DEF SameVerdict, StartedInOrder, DispatchesInOrder, FlowVerdict
<1> QED BY <1>1, <1>2, <1>3, <1>4 DEF FlowInv

\* Every step keeps the invariant.
LEMMA StepInv == FlowInv /\ [Next]_vars => FlowInv'
<1> SUFFICES ASSUME FlowInv, [Next]_vars PROVE FlowInv'
  OBVIOUS
<1>1. TypeOK'
  BY TypeStep DEF FlowInv
<1>2. CASE UNCHANGED vars
  <2>1. Quiet
    BY <1>2 DEF vars, Quiet
  <2> QED BY <1>1, <2>1, QuietStep
<1>3. ASSUME NEW g \in Definitions, DefineFlow(g) PROVE FlowInv'
  BY <1>1, <1>3, DefineFlowStep
<1>4. ASSUME NEW n \in Nodes, NodeStep(n) PROVE FlowInv'
  <2>1. CASE DispatchAgain(n)
    BY <1>1, <2>1, DispatchAgainStep
  <2>2. CASE Claim(n)
    BY <1>1, <2>2, ClaimStep
  <2>3. CASE Finalize(n, "completed") \/ Finalize(n, "failed")
    BY <1>1, <2>3, FinalizeStep
  <2>4. CASE CancelAgent(n)
    BY <1>1, <2>4, CancelAgentStep
  <2>5. CASE \/ SpawnWorker(n) \/ RunByHand(n) \/ StartFails(n) \/ StopWorker(n)
             \/ CrashWorker(n) \/ BeginRecovery(n)
             \/ FinishRecovery(n, TRUE) \/ FinishRecovery(n, FALSE)
             \/ PauseAgent(n) \/ WakeAgent(n)
    <3>1. Quiet
      BY <2>5, QuietActions
    <3> QED BY <1>1, <3>1, QuietStep
  <2> QED BY <1>4, <2>1, <2>2, <2>3, <2>4, <2>5 DEF NodeStep
<1>5. CASE ResumeTask \/ \E next \in {"paused", "waiting"} : HoldTask(next)
  <2>1. Quiet
    BY <1>5, QuietActions
  <2> QED BY <1>1, <2>1, QuietStep
<1>6. ASSUME NEW next \in Terminal, EndTask(next) PROVE FlowInv'
  BY <1>1, <1>6, EndTaskStep
<1> QED BY <1>2, <1>3, <1>4, <1>5, <1>6 DEF Next

\* The rows of a Flow stay consistent: types, graph, nodes, Dispatches,
\* Workers and verdict, through every interleaving of Workers, crashes,
\* recoveries, pauses and commands.
THEOREM FlowSound == Spec => []FlowInv
<1> QED BY InitInv, StepInv, PTL DEF Spec

\* A node ends with the Dispatch it stands for and not before, so
\* skipBlockedFlowNodes always finds a runnable Dispatch to cancel.
THEOREM NodeFollowsDispatchAlways == Spec => []NodeFollowsDispatch
<1>1. FlowInv => NodeFollowsDispatch
  BY DEF FlowInv
<1> QED BY <1>1, FlowSound, PTL

\* An Agent works on its Dispatches one at a time and in the order in which
\* they were created.
THEOREM DispatchesInOrderAlways == Spec => []DispatchesInOrder
<1>1. FlowInv => DispatchesInOrder
  BY DEF FlowInv
<1> QED BY <1>1, FlowSound, PTL

\* settleFlow closes the Flow with its last open node and by the required
\* nodes alone.
THEOREM FlowVerdictAlways == Spec => []FlowVerdict
<1>1. FlowInv => FlowVerdict
  BY DEF FlowInv
<1> QED BY <1>1, FlowSound, PTL


\* A failed node never makes its report throw: every node that
\* skipBlockedFlowNodes reaches from a running one has a runnable Dispatch.
THEOREM SkippingFindsDispatches ==
  Spec => [](\A n \in Nodes : (flow # "none" /\ task \notin Terminal /\ dispatch[n][1] = "running") =>
               \A m \in Skipped(n, [node EXCEPT ![n] = "failed"]) : Runnable(dispatch[m]) # {})
<1>1. ASSUME FlowInv, NEW n \in Nodes, flow # "none", task \notin Terminal, dispatch[n][1] = "running",
             NEW m \in Skipped(n, [node EXCEPT ![n] = "failed"])
      PROVE  Runnable(dispatch[m]) # {}
  <2>1. 1 \in DOMAIN dispatch[m] /\ dispatch[m][1] = "queued"
    BY <1>1, SkippedIsOpen
  <2>2. 1 \in Runnable(dispatch[m])
    BY <2>1 DEF Runnable
  <2> QED BY <2>2
<1>2. FlowInv => \A n \in Nodes : (flow # "none" /\ task \notin Terminal /\ dispatch[n][1] = "running") =>
               \A m \in Skipped(n, [node EXCEPT ![n] = "failed"]) : Runnable(dispatch[m]) # {}
  BY <1>1
<1> QED BY <1>2, FlowSound, PTL

-----------------------------------------------------------------------------
(* FlowGraph implements FlowPlan *)

Status == [n \in Nodes |-> PlanStatus(n)]

\* The states of a node that the plan tells apart.
LEMMA StatusOf ==
  ASSUME FlowInv, NEW n \in Nodes
  PROVE  /\ Status[n] = PlanStatus(n)
         /\ node[n] = "absent" => Status[n] = "none"
         /\ node[n] = "completed" => Status[n] = "done"
         /\ node[n] = "skipped" => Status[n] = "dropped"
         /\ node[n] \in {"failed", "cancelled"} => Status[n] = node[n]
         /\ node[n] \in {"queued", "running"} =>
              Status[n] = IF dispatch[n][1] = "running" THEN "started" ELSE "open"
         /\ node[n] \in {"absent", "queued", "running", "completed", "skipped", "failed", "cancelled"}
<1>1. node[n] \in {"absent", "queued", "running", "completed", "skipped", "failed", "cancelled"}
  BY DEF FlowInv, TypeOK, NodeTerminal, Terminal
<1> QED BY <1>1 DEF Status, PlanStatus

\* A node is open in the plan when it is queued and its Dispatch is too.
LEMMA OpenOrStarted ==
  ASSUME FlowInv, NEW n \in Nodes
  PROVE  /\ Status[n] = "open" <=>
              (node[n] = "queued" /\ dispatch[n][1] = "queued")
         /\ Status[n] = "started" <=>
              (node[n] \in {"queued", "running"} /\ dispatch[n][1] = "running")
<1>1. node[n] \in {"queued", "running"} => dispatch[n][1] \in {"queued", "running"}
  <2>1. ASSUME node[n] \in {"queued", "running"} PROVE 1 \in DOMAIN dispatch[n] /\ dispatch[n] \in Seq(DispatchStates)
    BY <2>1 DEF FlowInv, TypeOK, RowsExist
  <2> QED BY <2>1 DEF FlowInv, NodeFollowsDispatch, NodeTerminal, Terminal, DispatchStates
<1>2. node[n] = "running" => dispatch[n][1] = "running"
  BY DEF FlowInv, RunningIsStarted
<1> QED BY <1>1, <1>2, StatusOf

\* S holds exactly the nodes of O with a source that is n or in S.
IsDownstream(n, O, S) == \A m \in O : m \in S <=> \E s \in Sources(m) : s = n \/ s \in S

\* In an acyclic graph the nodes downstream of n are determined: two sets that
\* both hold exactly the open nodes with a source that is n or in the set are
\* equal, since a first node in which they differ would have no source to
\* differ by.
LEMMA DownstreamIsUnique ==
  ASSUME FlowInv, NEW n, NEW O \in SUBSET Nodes, NEW A \in SUBSET O, NEW B \in SUBSET O,
         IsDownstream(n, O, A), IsDownstream(n, O, B)
  PROVE  A = B
<1> DEFINE D == (A \ B) \cup (B \ A)
<1>1. D \in SUBSET Nodes
  OBVIOUS
<1>2. CASE D # {}
  <2>1. PICK x \in D : \A s \in D : <<s, x>> \notin edges
    <3>1. D \in (SUBSET Nodes) \ {{}}
      BY <1>1, <1>2
    <3>2. \A S \in (SUBSET Nodes) \ {{}} : \E k \in S : \A s \in S : <<s, k>> \notin edges
      BY DEF FlowInv, Plan!Acyclic
    <3> HIDE DEF D
    <3> QED BY <3>1, <3>2
  <2>2. \A s \in Sources(x) : s \notin D
    BY <2>1 DEF Sources, FlowInv, TypeOK
  <2>3. \A s \in Sources(x) : s \in A <=> s \in B
    BY <2>2
  <2>4. x \in O
    BY <2>1
  <2>5. x \in A <=> x \in B
    BY <2>3, <2>4 DEF IsDownstream
  <2> QED BY <2>1, <2>5
<1>3. CASE D = {}
  BY <1>3
<1> QED BY <1>2, <1>3

\* The plan's Downstream is what skipBlockedFlowNodes reaches.
LEMMA SkippedIsDownstream ==
  ASSUME FlowInv, NEW n \in Nodes, task \notin Terminal, flow # "none", dispatch[n][1] = "running"
  PROVE  Plan!Downstream(n) = Skipped(n, [node EXCEPT ![n] = "failed"])
<1> DEFINE own == [node EXCEPT ![n] = "failed"]
           K == Skipped(n, own)
           O == {m \in Nodes : Status[m] = "open"}
<1>1. K \in SUBSET O
  <2> SUFFICES ASSUME NEW m \in K PROVE m \in O
    OBVIOUS
  <2>1. m \in Nodes /\ node[m] = "queued" /\ dispatch[m][1] = "queued"
    BY SkippedIsOpen
  <2> QED BY <2>1, OpenOrStarted
<1>2. K = QueuedDependents(K \cup {n}, own)
  BY SkippedIsFixed
<1>3. \A m \in O : m \in Nodes /\ own[m] = "queued"
  <2> SUFFICES ASSUME NEW m \in O PROVE m \in Nodes /\ own[m] = "queued"
    OBVIOUS
  <2>1. node[m] = "queued" /\ dispatch[m][1] = "queued"
    BY OpenOrStarted
  <2> QED BY <2>1 DEF FlowInv, TypeOK
<1>4. IsDownstream(n, O, K)
  <2> SUFFICES ASSUME NEW m \in O PROVE m \in K <=> \E s \in Sources(m) : s = n \/ s \in K
    BY DEF IsDownstream
  <2>1. m \in QueuedDependents(K \cup {n}, own) <=> \E s \in K \cup {n} : <<s, m>> \in edges
    <3> HIDE DEF K, own
    <3> QED BY <1>3 DEF QueuedDependents
  <2>2. \A s : <<s, m>> \in edges <=> s \in Sources(m)
    <3>1. ASSUME NEW s \in Sources(m) PROVE <<s, m>> \in edges
      <4>1. PICK e \in edges : e[2] = m /\ e[1] = s
        BY DEF Sources
      <4>2. e \in Nodes \X Nodes
        BY DEF FlowInv, TypeOK
      <4> QED BY <4>1, <4>2
    <3>2. ASSUME NEW s, <<s, m>> \in edges PROVE s \in Sources(m)
      BY <3>2 DEF Sources
    <3> QED BY <3>1, <3>2
  <2> HIDE DEF K, own
  <2> QED BY <1>2, <2>1, <2>2
<1> HIDE DEF K
<1>5. Plan!Downstream(n) = CHOOSE S \in SUBSET O : IsDownstream(n, O, S)
  <2>1. \A m : Plan!Sources(m) = Sources(m)
    BY DEF Plan!Sources, Sources
  <2>2. ASSUME NEW S PROVE IsDownstream(n, O, S) <=>
          \A m \in Nodes : Status[m] = "open" => (m \in S <=> \E s \in Plan!Sources(m) : s = n \/ s \in S)
    BY <2>1 DEF IsDownstream
  <2>3. Plan!Downstream(n) = CHOOSE S \in SUBSET {m \in Nodes : Status[m] = "open"} :
          \A m \in Nodes : Status[m] = "open" => (m \in S <=> \E s \in Plan!Sources(m) : s = n \/ s \in S)
    BY DEF Plan!Downstream, Status
  <2> QED BY <2>2, <2>3, Zenon
<1>6. \A S \in SUBSET O : IsDownstream(n, O, S) => S = K
  <2> SUFFICES ASSUME NEW S \in SUBSET O, IsDownstream(n, O, S) PROVE S = K
    OBVIOUS
  <2>1. O \in SUBSET Nodes
    OBVIOUS
  <2> HIDE DEF O
  <2> QED BY <1>1, <1>4, <2>1, DownstreamIsUnique
<1> HIDE DEF O
<1>7. (CHOOSE S \in SUBSET O : IsDownstream(n, O, S)) = K
  BY <1>1, <1>4, <1>6
<1> QED BY <1>5, <1>7 DEF K

\* The same after a step.
LEMMA NextStatusOf ==
  ASSUME TypeOK', NEW n \in Nodes
  PROVE  /\ node'[n] = "absent" => Status'[n] = "none"
         /\ node'[n] = "completed" => Status'[n] = "done"
         /\ node'[n] = "skipped" => Status'[n] = "dropped"
         /\ node'[n] \in {"failed", "cancelled"} => Status'[n] = node'[n]
         /\ node'[n] \in {"queued", "running"} =>
              Status'[n] = IF dispatch'[n][1] = "running" THEN "started" ELSE "open"
         /\ node'[n] \in {"absent", "queued", "running", "completed", "skipped", "failed", "cancelled"}
<1>1. node'[n] \in {"absent", "queued", "running", "completed", "skipped", "failed", "cancelled"}
  BY DEF TypeOK, NodeTerminal, Terminal
<1> QED BY <1>1 DEF Status, PlanStatus

\* A node whose row and first Dispatch do not change keeps its status.
LEMMA SameStatus ==
  ASSUME FlowInv, TypeOK', NEW n \in Nodes, dispatch'[n][1] = dispatch[n][1],
         node'[n] = node[n] \/ (node[n] \in {"queued", "running"} /\ node'[n] \in {"queued", "running"})
  PROVE  Status'[n] = Status[n]
  BY StatusOf, NextStatusOf

\* Pauses, crashes, recoveries and further Dispatches do not show in the plan.
LEMMA QuietRefines ==
  ASSUME FlowInv, TypeOK', Quiet \/ \E n \in Nodes : DispatchAgain(n)
  PROVE  UNCHANGED Plan!planVars
<1>1. UNCHANGED edges
  BY DEF Quiet, DispatchAgain
<1>2. \A m \in Nodes : Status'[m] = Status[m]
  <2>1. CASE Quiet
    BY <2>1, SameStatus DEF Quiet
  <2>2. ASSUME NEW n \in Nodes, DispatchAgain(n) PROVE \A m \in Nodes : Status'[m] = Status[m]
    <3>1. dispatch[n] \in Seq(DispatchStates) /\ dispatch[n] # <<>>
      BY <2>2 DEF DispatchAgain, FlowInv, RowsExist, TypeOK
    <3>2. Append(dispatch[n], "queued")[1] = dispatch[n][1]
      BY <3>1
    <3>3. \A m \in Nodes : node'[m] = node[m] /\ dispatch'[m][1] = dispatch[m][1]
      BY <2>2, <3>2 DEF DispatchAgain, FlowInv, TypeOK
    <3> QED BY <3>3, SameStatus
  <2> QED BY <2>1, <2>2
<1>3. Status' = Status
  BY <1>2 DEF Status
<1> QED BY <1>1, <1>3 DEF Plan!planVars, Status

\* createFlow defines the plan.
LEMMA DefineFlowRefines ==
  ASSUME FlowInv, TypeOK', NEW g \in Definitions, DefineFlow(g)
  PROVE  Plan!PlanNext
<1>1. \A n \in Nodes : Status[n] = "none"
  BY StatusOf DEF DefineFlow, FlowInv, RowsExist
<1>2. \A n \in Nodes : Status'[n] = "open"
  BY NextStatusOf DEF DefineFlow
<1>3. edges' = g /\ g \in SUBSET (Nodes \X Nodes) /\ Plan!Acyclic(g)
  BY ValidIsAcyclic, FlowAssumption DEF DefineFlow
<1>4. Status' = [n \in Nodes |-> "open"]
  BY <1>2 DEF Status
<1>5. Plan!Acyclic(edges')
  BY <1>3
<1>6. Plan!Define
  BY <1>1, <1>3, <1>4, <1>5 DEF Plan!Define, Status
<1> QED BY <1>6 DEF Plan!PlanNext

\* claimAttempt starts a node, once and with all its sources done, or changes
\* nothing the plan sees.
LEMMA ClaimRefines ==
  ASSUME FlowInv, TypeOK', NEW n \in Nodes, Claim(n)
  PROVE  Plan!PlanNext \/ UNCHANGED Plan!planVars
<1> DEFINE d == Current(dispatch[n])
<1>1. task = "running" /\ flow # "none" /\ d \in Runnable(dispatch[n]) /\ 1 \in DOMAIN dispatch[n]
  BY ClaimFacts
<1>2. \A e \in DOMAIN dispatch[n] : dispatch'[n][e] = IF e = d THEN "running" ELSE dispatch[n][e]
  BY ClaimFacts
<1>3. \A m \in Nodes \ {n} : dispatch'[m] = dispatch[m] /\ node'[m] = node[m]
  BY DEF Claim, FlowInv, TypeOK
<1>4. node'[n] = IF node[n] = "queued" THEN "running" ELSE node[n]
  BY DEF Claim, FlowInv, TypeOK
<1>5. UNCHANGED edges /\ task \notin Terminal
  BY <1>1 DEF Claim, Terminal
<1>6. d \in DOMAIN dispatch[n] /\ dispatch[n][d] \in {"queued", "running"}
  BY <1>1 DEF Runnable
<1>7. \A m \in Nodes \ {n} : Status'[m] = Status[m]
  BY <1>3, SameStatus
<1> HIDE DEF d
<1>8. CASE d = 1 /\ dispatch[n][1] = "queued"
  <2>1. node[n] \in {"queued", "running"}
    BY <1>1, <1>8, StatusOf DEF FlowInv, RowsExist, NodeFollowsDispatch, NodeTerminal, Terminal
  <2>2. Status[n] = "open" /\ Status'[n] = "started"
    BY <1>1, <1>2, <1>4, <1>8, <2>1, StatusOf, NextStatusOf
  <2>3. SourcesCompleted(n)
    BY <1>1, <1>5, <1>8 DEF Claim, FlowInv, StartedInOrder
  <2>4. \A s \in Sources(n) : Status[s] = "done"
    <3>1. Sources(n) \subseteq Nodes
      BY SourcesAreNodes DEF FlowInv
    <3>2. \A s \in Sources(n) : node[s] = "completed"
      BY <1>1, <1>5, <2>3, <3>1 DEF FlowInv, SameVerdict, SourcesCompleted
    <3> QED BY <3>1, <3>2, StatusOf
  <2>5. Status' = [Status EXCEPT ![n] = "started"]
    BY <1>7, <2>2 DEF Status
  <2>6. Plan!Start(n)
    BY <1>5, <2>2, <2>4, <2>5 DEF Plan!Start, Plan!Sources, Sources, Status
  <2> QED BY <2>6 DEF Plan!PlanNext
<1>9. CASE ~(d = 1 /\ dispatch[n][1] = "queued")
  <2>1. dispatch'[n][1] = dispatch[n][1]
    BY <1>1, <1>2, <1>6, <1>9
  <2>2. Status'[n] = Status[n]
    BY <1>4, <2>1, SameStatus
  <2>3. Status' = Status
    BY <1>7, <2>2 DEF Status
  <2> QED BY <1>5, <2>3 DEF Plan!planVars, Status
<1> QED BY <1>8, <1>9

\* cancel-agent withdraws the node if it was open, and no other.
LEMMA CancelAgentRefines ==
  ASSUME FlowInv, TypeOK', NEW n \in Nodes, CancelAgent(n)
  PROVE  Plan!PlanNext \/ UNCHANGED Plan!planVars
<1>1. \A m \in Nodes \ {n} : dispatch'[m] = dispatch[m] /\ node'[m] = node[m]
  BY DEF CancelAgent, FlowInv, TypeOK
<1>2. node'[n] = IF node[n] \in NodeTerminal THEN node[n] ELSE "cancelled"
  BY DEF CancelAgent, FlowInv, TypeOK
<1>3. UNCHANGED edges /\ node[n] # "absent"
  BY DEF CancelAgent, FlowInv, RowsExist
<1>4. \A m \in Nodes \ {n} : Status'[m] = Status[m]
  BY <1>1, SameStatus
<1>5. CASE node[n] \in NodeTerminal
  <2>1. Status'[n] = Status[n]
    BY <1>2, <1>5, StatusOf, NextStatusOf DEF NodeTerminal, Terminal
  <2>2. Status' = Status
    BY <1>4, <2>1 DEF Status
  <2> QED BY <1>3, <2>2 DEF Plan!planVars, Status
<1>6. CASE node[n] \notin NodeTerminal
  <2>1. Status[n] \in {"open", "started"} /\ Status'[n] = "cancelled"
    BY <1>2, <1>3, <1>6, StatusOf, NextStatusOf DEF NodeTerminal, Terminal
  <2>2. Status' = [m \in Nodes |-> IF m \in {n} THEN "cancelled" ELSE Status[m]]
    BY <1>4, <2>1 DEF Status
  <2>3. Plan!Withdraw({n}, "cancelled")
    BY <1>3, <2>1, <2>2 DEF Plan!Withdraw, Status
  <2> QED BY <2>3 DEF Plan!PlanNext
<1> QED BY <1>5, <1>6

\* The end of the Task withdraws every node that is not settled.
LEMMA EndTaskRefines ==
  ASSUME FlowInv, TypeOK', NEW next \in Terminal, EndTask(next)
  PROVE  Plan!PlanNext
<1> DEFINE how == IF next = "failed" THEN "failed" ELSE "cancelled"
           S == {n \in Nodes : node[n] \in {"queued", "running"}}
<1>1. \A n \in Nodes : node'[n] = IF node[n] \in NodeTerminal \cup {"absent"} THEN node[n] ELSE how
  BY DEF EndTask
<1>2. ASSUME NEW n \in S PROVE Status[n] \in {"open", "started"} /\ Status'[n] = how
  BY <1>1, <1>2, StatusOf, NextStatusOf DEF NodeTerminal, Terminal
<1>3. ASSUME NEW n \in Nodes, n \notin S PROVE Status'[n] = Status[n]
  BY <1>1, <1>3, StatusOf, NextStatusOf DEF NodeTerminal, Terminal
<1>4. UNCHANGED edges
  BY DEF EndTask
<1>5. S \in SUBSET Nodes /\ how \in {"cancelled", "failed"}
  OBVIOUS
<1> HIDE DEF S, how
<1>6. Status' = [n \in Nodes |-> IF n \in S THEN how ELSE Status[n]]
  BY <1>2, <1>3 DEF Status
<1>7. Plan!Withdraw(S, how)
  <2>1. \A n \in S : Status[n] \in {"open", "started"}
    BY <1>2
  <2> QED BY <1>4, <1>5, <1>6, <2>1 DEF Plan!Withdraw, Status
<1> QED BY <1>5, <1>7 DEF Plan!PlanNext

\* finalizeAgentDispatch of a node's own Dispatch finishes the node, or fails
\* it and drops what is downstream; of a later Dispatch it shows nothing.
LEMMA FinalizeRefines ==
  ASSUME FlowInv, TypeOK', NEW n \in Nodes, NEW status \in {"completed", "failed"}, Finalize(n, status)
  PROVE  Plan!PlanNext \/ UNCHANGED Plan!planVars
<1> DEFINE d == worker[n].d
           K == SkippedBy(n, status)
<1>0. Finalized(n, status)
  BY FinalizeFacts
<1>1. task \notin Terminal /\ flow # "none" /\ UNCHANGED edges
  BY <1>0 DEF Finalized
<1>2. d \in DOMAIN dispatch[n] /\ dispatch[n][d] = "running"
  BY <1>0 DEF Finalized
<1>3. node'[n] = (IF d = 1 THEN status ELSE node[n]) /\ dispatch'[n] = [dispatch[n] EXCEPT ![d] = status]
  BY <1>0 DEF Finalized
<1>4. \A m \in K : m \in Nodes /\ m # n /\ node'[m] = "skipped"
  BY <1>0 DEF Finalized
<1>5. \A m \in Nodes : m # n /\ m \notin K => node'[m] = node[m] /\ dispatch'[m] = dispatch[m]
  BY <1>0 DEF Finalized
<1>6. K = IF d = 1 /\ status = "failed" THEN Skipped(n, [node EXCEPT ![n] = "failed"]) ELSE {}
  BY DEF SkippedBy
<1> HIDE DEF d, K
<1>7. \A m \in Nodes : m # n => Status'[m] = IF m \in K THEN "dropped" ELSE Status[m]
  <2> SUFFICES ASSUME NEW m \in Nodes, m # n PROVE Status'[m] = IF m \in K THEN "dropped" ELSE Status[m]
    OBVIOUS
  <2>1. CASE m \in K
    BY <1>4, <2>1, NextStatusOf
  <2>2. CASE m \notin K
    BY <1>5, <2>2, SameStatus
  <2> QED BY <2>1, <2>2
<1>8. CASE d # 1
  <2>1. node'[n] = node[n] /\ dispatch'[n][1] = dispatch[n][1] /\ K = {}
    BY <1>2, <1>3, <1>6, <1>8
  <2>2. Status'[n] = Status[n]
    BY <2>1, SameStatus
  <2>3. Status' = Status
    BY <1>7, <2>1, <2>2 DEF Status
  <2> QED BY <1>1, <2>3 DEF Plan!planVars, Status
<1>9. ASSUME d = 1 PROVE Status[n] = "started"
  <2>1. node[n] \notin NodeTerminal /\ node[n] # "absent"
    BY <1>1, <1>2, <1>9 DEF FlowInv, RowsExist, NodeFollowsDispatch, Terminal
  <2> QED BY <1>2, <1>9, <2>1, StatusOf DEF NodeTerminal, Terminal
<1>10. CASE d = 1 /\ status = "completed"
  <2>1. Status'[n] = "done" /\ K = {}
    BY <1>3, <1>6, <1>10, NextStatusOf
  <2>2. Status' = [Status EXCEPT ![n] = "done"]
    BY <1>7, <2>1 DEF Status
  <2>3. Plan!Finish(n)
    BY <1>1, <1>9, <1>10, <2>2 DEF Plan!Finish, Status
  <2> QED BY <2>3 DEF Plan!PlanNext
<1>11. CASE d = 1 /\ status = "failed"
  <2>1. Status'[n] = "failed"
    BY <1>3, <1>11, NextStatusOf
  <2>2. Plan!Downstream(n) = K
    BY <1>1, <1>2, <1>6, <1>11, SkippedIsDownstream
  <2>3. Status' = [m \in Nodes |-> IF m = n THEN "failed"
                                   ELSE IF m \in Plan!Downstream(n) THEN "dropped" ELSE Status[m]]
    BY <1>7, <2>1, <2>2 DEF Status
  <2>4. Plan!Fail(n)
    BY <1>1, <1>9, <1>11, <2>3 DEF Plan!Fail, Status
  <2> QED BY <2>4 DEF Plan!PlanNext
<1> QED BY <1>8, <1>10, <1>11

\* The tables of a Flow implement the plan: whatever Workers, pauses, crashes
\* and commands do, a node starts only when its sources are done, a failure
\* drops exactly the open nodes downstream of it, and a verdict is final.
THEOREM FlowImplementsPlan == Spec => ImplementsFlowPlan
<1>1. Init => Plan!PlanInit
  <2> SUFFICES ASSUME Init PROVE Plan!PlanInit
    OBVIOUS
  <2>1. \A n \in Nodes : PlanStatus(n) = "none"
    BY DEF Init, PlanStatus
  <2> QED BY <2>1 DEF Init, Plan!PlanInit
<1>2. FlowInv /\ FlowInv' /\ [Next]_vars => [Plan!PlanNext]_(Plan!planVars)
  <2> SUFFICES ASSUME FlowInv, TypeOK', [Next]_vars PROVE Plan!PlanNext \/ UNCHANGED Plan!planVars
    BY DEF FlowInv
  <2>1. CASE UNCHANGED vars
    <3>1. Quiet
      BY <2>1 DEF vars, Quiet
    <3> QED BY <3>1, QuietRefines
  <2>2. CASE \E g \in Definitions : DefineFlow(g)
    BY <2>2, DefineFlowRefines
  <2>3. ASSUME NEW n \in Nodes, NodeStep(n) PROVE Plan!PlanNext \/ UNCHANGED Plan!planVars
    <3>1. CASE DispatchAgain(n)
      BY <3>1, QuietRefines
    <3>2. CASE Claim(n)
      BY <3>2, ClaimRefines
    <3>3. CASE Finalize(n, "completed") \/ Finalize(n, "failed")
      BY <3>3, FinalizeRefines
    <3>4. CASE CancelAgent(n)
      BY <3>4, CancelAgentRefines
    <3>5. CASE \/ SpawnWorker(n) \/ RunByHand(n) \/ StartFails(n) \/ StopWorker(n)
               \/ CrashWorker(n) \/ BeginRecovery(n)
               \/ FinishRecovery(n, TRUE) \/ FinishRecovery(n, FALSE)
               \/ PauseAgent(n) \/ WakeAgent(n)
      <4>1. Quiet
        BY <3>5, QuietActions
      <4> QED BY <4>1, QuietRefines
    <3> QED BY <2>3, <3>1, <3>2, <3>3, <3>4, <3>5 DEF NodeStep
  <2>4. CASE ResumeTask \/ \E next \in {"paused", "waiting"} : HoldTask(next)
    <3>1. Quiet
      BY <2>4, QuietActions
    <3> QED BY <3>1, QuietRefines
  <2>5. CASE \E next \in Terminal : EndTask(next)
    BY <2>5, EndTaskRefines
  <2> QED BY <2>1, <2>2, <2>3, <2>4, <2>5 DEF Next
<1> QED BY <1>1, <1>2, FlowSound, PTL DEF Spec, ImplementsFlowPlan, Plan!PlanSpec

-----------------------------------------------------------------------------
(* No Flow is stuck *)

\* While the Task goes on, a node that failed or was skipped has no dependent
\* that is still open.
BlockedIsSettled ==
  (flow # "none" /\ task \notin Terminal) =>
    \A a, b \in Nodes : (<<a, b>> \in edges /\ node[a] \in {"failed", "skipped"}) => node[b] \in NodeTerminal

\* While the Task goes on, the node of an Agent that has ended has ended too.
EndedIsSettled ==
  (flow # "none" /\ task \notin Terminal) =>
    \A n \in Nodes : agent[n] \in Terminal \cup {"absent"} => node[n] \in NodeTerminal

\* What transitionTask does to an Agent while the Task goes on never ends it.
LEMMA AgentsAfterOpen ==
  ASSUME NEW next \in {"running", "paused", "waiting"}, NEW n \in Nodes,
         AgentsAfter(next)[n] \in Terminal \cup {"absent"}
  PROVE  agent[n] \in Terminal \cup {"absent"}
<1>1. AgentsAfter(next)[n] \in {"queued", "waiting", "paused", agent[n]}
  BY DEF AgentsAfter
<1> QED BY <1>1 DEF Terminal

\* Nor does a Worker that comes or goes, a recovery or a command that holds.
LEMMA QuietAgents ==
  ASSUME FlowInv, NEW m \in Nodes, agent'[m] \in Terminal \cup {"absent"},
         \/ \E n \in Nodes :
              \/ SpawnWorker(n) \/ RunByHand(n) \/ StartFails(n) \/ StopWorker(n)
              \/ CrashWorker(n) \/ BeginRecovery(n)
              \/ FinishRecovery(n, TRUE) \/ FinishRecovery(n, FALSE)
              \/ PauseAgent(n) \/ WakeAgent(n)
         \/ \E next \in {"paused", "waiting"} : HoldTask(next)
         \/ ResumeTask
  PROVE  agent[m] \in Terminal \cup {"absent"}
<1>1. agent \in [Nodes -> AgentStates]
  BY DEF FlowInv, TypeOK
<1>2. ASSUME NEW n \in Nodes, SpawnWorker(n) \/ RunByHand(n) \/ CrashWorker(n)
      PROVE  agent[m] \in Terminal \cup {"absent"}
  BY <1>2 DEF SpawnWorker, RunByHand, CrashWorker
<1>3. ASSUME NEW n \in Nodes, NEW s \in {"queued", "recovering", "unknown_outcome", "paused"},
             agent' = [agent EXCEPT ![n] = s] \/ agent' = agent
      PROVE  agent[m] \in Terminal \cup {"absent"}
  BY <1>1, <1>3 DEF Terminal
<1>4. ASSUME NEW n \in Nodes,
             StopWorker(n) \/ BeginRecovery(n) \/ FinishRecovery(n, TRUE) \/ FinishRecovery(n, FALSE)
             \/ PauseAgent(n) \/ WakeAgent(n)
      PROVE  agent[m] \in Terminal \cup {"absent"}
  <2>1. \E s \in {"queued", "recovering", "unknown_outcome", "paused"} :
          agent' = [agent EXCEPT ![n] = s] \/ agent' = agent
    BY <1>4 DEF StopWorker, BeginRecovery, FinishRecovery, PauseAgent, WakeAgent
  <2> QED BY <1>3, <2>1
<1>5. ASSUME NEW n \in Nodes, StartFails(n) PROVE agent[m] \in Terminal \cup {"absent"}
  <2>1. CASE agent' = agent
    BY <2>1
  <2>2. CASE agent' = [AgentsAfter("waiting") EXCEPT ![n] = "paused"]
    <3>1. DOMAIN AgentsAfter("waiting") = Nodes
      BY DEF AgentsAfter
    <3>2. m # n /\ agent'[m] = AgentsAfter("waiting")[m]
      BY <2>2, <3>1 DEF Terminal
    <3> QED BY <3>2, AgentsAfterOpen
  <2> QED BY <1>5, <2>1, <2>2 DEF StartFails
<1>6. ASSUME NEW next \in {"paused", "waiting", "running"}, agent' = AgentsAfter(next)
      PROVE  agent[m] \in Terminal \cup {"absent"}
  BY <1>6, AgentsAfterOpen
<1>7. CASE ResumeTask \/ \E next \in {"paused", "waiting"} : HoldTask(next)
  <2>1. \E next \in {"paused", "waiting", "running"} : agent' = AgentsAfter(next)
    BY <1>7 DEF ResumeTask, HoldTask
  <2> QED BY <1>6, <2>1
<1> QED BY <1>2, <1>4, <1>5, <1>7

\* Steps that settle nothing keep both.
LEMMA QuietSettles ==
  ASSUME FlowInv, BlockedIsSettled, EndedIsSettled, Quiet,
         \A m \in Nodes : agent'[m] \in Terminal \cup {"absent"} => agent[m] \in Terminal \cup {"absent"}
  PROVE  BlockedIsSettled' /\ EndedIsSettled'
<1>1. UNCHANGED <<flow, edges>> /\ (task \in Terminal <=> task' \in Terminal)
  BY DEF Quiet
<1>2. \A m \in Nodes : /\ node'[m] \in {"failed", "skipped"} => node[m] \in {"failed", "skipped"}
                       /\ node[m] \in NodeTerminal => node'[m] \in NodeTerminal
  BY DEF Quiet, NodeTerminal, Terminal
<1>3. BlockedIsSettled'
  BY <1>1, <1>2 DEF BlockedIsSettled
<1>4. EndedIsSettled'
  BY <1>1, <1>2 DEF EndedIsSettled
<1> QED BY <1>3, <1>4

\* An open node downstream of one whose Dispatch is not completed is queued.
LEMMA BlockedIsQueued ==
  ASSUME FlowInv, flow # "none", task \notin Terminal, NEW a \in Nodes, NEW b \in Nodes,
         <<a, b>> \in edges, dispatch[a][1] # "completed", node[b] \notin NodeTerminal
  PROVE  node[b] = "queued"
<1>1. ~SourcesCompleted(b)
  BY DEF SourcesCompleted, Sources
<1>2. dispatch[b][1] # "running"
  BY <1>1 DEF FlowInv, StartedInOrder
<1> QED BY <1>2 DEF FlowInv, TypeOK, RowsExist, RunningIsStarted

\* skipBlockedFlowNodes leaves no open dependent behind.
LEMMA FinalizeBlocks ==
  ASSUME FlowInv, BlockedIsSettled, NEW n \in Nodes, NEW status \in {"completed", "failed"},
         Finalize(n, status)
  PROVE  BlockedIsSettled'
<1> DEFINE d == worker[n].d
           K == SkippedBy(n, status)
           own == [node EXCEPT ![n] = "failed"]
<1>0. Finalized(n, status)
  BY FinalizeFacts
<1>1. task \notin Terminal /\ flow # "none" /\ UNCHANGED <<task, edges>> /\ dispatch[n][d] = "running"
  BY <1>0 DEF Finalized
<1>2. node'[n] = IF d = 1 THEN status ELSE node[n]
  BY <1>0 DEF Finalized
<1>3. \A m \in K : m \in Nodes /\ m # n /\ dispatch[m][1] = "queued" /\ node'[m] = "skipped"
  BY <1>0 DEF Finalized
<1>4. \A m \in Nodes : m # n /\ m \notin K => node'[m] = node[m]
  BY <1>0 DEF Finalized
<1>5. own[n] = "failed" /\ \A m \in Nodes : m # n => own[m] = node[m]
  BY DEF FlowInv, TypeOK
<1>6. K # {} \/ (d = 1 /\ status = "failed") => d = 1 /\ K = QueuedDependents(K \cup {n}, own)
  BY SkippedIsFixed DEF SkippedBy
<1> HIDE DEF d, K, own
<1>7. \A m \in Nodes : node[m] \in NodeTerminal => node'[m] \in NodeTerminal
  BY <1>2, <1>3, <1>4 DEF NodeTerminal, Terminal
<1>8. ASSUME NEW a \in Nodes, NEW b \in Nodes, <<a, b>> \in edges, node'[a] \in {"failed", "skipped"}
      PROVE  node'[b] \in NodeTerminal
  <2>1. CASE node[a] \in {"failed", "skipped"}
    BY <1>1, <1>7, <1>8, <2>1 DEF BlockedIsSettled
  <2>2. CASE node[a] \notin {"failed", "skipped"}
    <3>1. a \in K \/ (a = n /\ d = 1 /\ status = "failed")
      BY <1>2, <1>4, <1>8, <2>2
    <3>2. d = 1 /\ K = QueuedDependents(K \cup {n}, own)
      BY <1>6, <3>1
    <3>3. dispatch[a][1] # "completed"
      BY <1>1, <1>3, <3>1, <3>2
    <3>4. CASE node[b] \in NodeTerminal
      BY <1>7, <3>4
    <3>5. CASE node[b] \notin NodeTerminal /\ b # n
      <4>1. own[b] = "queued"
        BY <1>1, <1>5, <1>8, <3>3, <3>5, BlockedIsQueued
      <4>2. b \in QueuedDependents(K \cup {n}, own)
        BY <1>8, <3>1, <4>1 DEF QueuedDependents
      <4> QED BY <1>3, <3>2, <4>2 DEF NodeTerminal
    <3>6. CASE b = n
      BY <1>2, <3>2, <3>6 DEF NodeTerminal, Terminal
    <3> QED BY <3>4, <3>5, <3>6
  <2> QED BY <2>1, <2>2
<1> QED BY <1>1, <1>8 DEF BlockedIsSettled

\* An Agent ends with its last Dispatch, and its node ended with the first.
LEMMA FinalizeEnds ==
  ASSUME FlowInv, EndedIsSettled, NEW n \in Nodes, NEW status \in {"completed", "failed"},
         Finalize(n, status)
  PROVE  EndedIsSettled'
<1> DEFINE d == worker[n].d
           K == SkippedBy(n, status)
<1>0. Finalized(n, status)
  BY FinalizeFacts
<1>1. /\ task \notin Terminal /\ flow # "none" /\ UNCHANGED <<task, edges>>
      /\ d \in DOMAIN dispatch[n] /\ dispatch[n][d] = "running"
  BY <1>0 DEF Finalized
<1>2. node'[n] = IF d = 1 THEN status ELSE node[n]
  BY <1>0 DEF Finalized
<1>3. \A m \in K : m \in Nodes /\ m # n /\ node'[m] = "skipped"
  BY <1>0 DEF Finalized
<1>4. \A m \in Nodes : m # n /\ m \notin K => node'[m] = node[m]
  BY <1>0 DEF Finalized
<1>5. \A m \in Nodes : m # n /\ m \notin K => agent'[m] = agent[m]
  BY DEF Finalize, SkippedBy
<1> HIDE DEF K
<1>6. node'[n] \in NodeTerminal
  <2>1. CASE d = 1
    BY <1>2, <2>1 DEF NodeTerminal, Terminal
  <2>2. CASE d # 1
    <3>1. 1 \in DOMAIN dispatch[n] /\ 1 < d /\ node[n] # "absent"
      BY <1>1, <2>2 DEF FlowInv, TypeOK, RowsExist
    <3>2. dispatch[n][1] \in Terminal
      BY <1>1, <3>1 DEF FlowInv, DispatchesInOrder
    <3> QED BY <1>2, <2>2, <3>1, <3>2 DEF FlowInv, NodeFollowsDispatch
  <2> QED BY <2>1, <2>2
<1> QED BY <1>1, <1>3, <1>4, <1>5, <1>6 DEF EndedIsSettled, NodeTerminal

\* Every step keeps both.
LEMMA SettledStep ==
  ASSUME FlowInv, BlockedIsSettled, EndedIsSettled, [Next]_vars
  PROVE  BlockedIsSettled' /\ EndedIsSettled'
<1>1. CASE UNCHANGED vars
  BY <1>1 DEF vars, BlockedIsSettled, EndedIsSettled
<1>2. ASSUME NEW g \in Definitions, DefineFlow(g) PROVE BlockedIsSettled' /\ EndedIsSettled'
  <2>1. \A m \in Nodes : node'[m] = "queued" /\ agent'[m] = "queued"
    BY <1>2 DEF DefineFlow
  <2> QED BY <2>1 DEF BlockedIsSettled, EndedIsSettled, Terminal
<1>3. ASSUME NEW n \in Nodes, DispatchAgain(n) PROVE BlockedIsSettled' /\ EndedIsSettled'
  <2>1. UNCHANGED <<task, flow, edges, node>>
    BY <1>3 DEF DispatchAgain
  <2>2. \A m \in Nodes : agent'[m] = agent[m] \/ agent'[m] = "queued"
    BY <1>3 DEF DispatchAgain, FlowInv, TypeOK
  <2> QED BY <2>1, <2>2 DEF BlockedIsSettled, EndedIsSettled, Terminal
<1>4. ASSUME NEW n \in Nodes, Claim(n) PROVE BlockedIsSettled' /\ EndedIsSettled'
  <2>1. UNCHANGED <<task, flow, edges>>
    BY <1>4 DEF Claim
  <2>2. \A m \in Nodes : agent'[m] = agent[m] \/ agent'[m] = "running"
    BY <1>4 DEF Claim, FlowInv, TypeOK
  <2>3. \A m \in Nodes : node'[m] = node[m] \/ (node[m] = "queued" /\ node'[m] = "running")
    BY <1>4 DEF Claim, FlowInv, TypeOK
  <2>4. \A m \in Nodes : /\ node'[m] \in {"failed", "skipped"} => node[m] \in {"failed", "skipped"}
                         /\ node[m] \in NodeTerminal => node'[m] \in NodeTerminal
    BY <2>3 DEF NodeTerminal, Terminal
  <2>5. BlockedIsSettled'
    BY <2>1, <2>4 DEF BlockedIsSettled
  <2>6. EndedIsSettled'
    BY <2>1, <2>2, <2>4 DEF EndedIsSettled, Terminal
  <2> QED BY <2>5, <2>6
<1>5. ASSUME NEW n \in Nodes, CancelAgent(n) PROVE BlockedIsSettled' /\ EndedIsSettled'
  <2>1. UNCHANGED <<task, edges>> /\ flow # "none"
    BY <1>5 DEF CancelAgent, FlowInv, RowsExist
  <2>2. \A m \in Nodes \ {n} : node'[m] = node[m] /\ agent'[m] = agent[m]
    BY <1>5 DEF CancelAgent, FlowInv, TypeOK
  <2>3. node'[n] = IF node[n] \in NodeTerminal THEN node[n] ELSE "cancelled"
    BY <1>5 DEF CancelAgent, FlowInv, TypeOK
  <2>4. node'[n] \in NodeTerminal /\ (node'[n] \in {"failed", "skipped"} => node'[n] = node[n])
    BY <2>3 DEF NodeTerminal, Terminal
  <2>5. BlockedIsSettled'
    BY <2>1, <2>2, <2>4 DEF BlockedIsSettled
  <2>6. EndedIsSettled'
    BY <2>1, <2>2, <2>4 DEF EndedIsSettled
  <2> QED BY <2>5, <2>6
<1>6. ASSUME NEW n \in Nodes, Finalize(n, "completed") \/ Finalize(n, "failed")
      PROVE  BlockedIsSettled' /\ EndedIsSettled'
  BY <1>6, FinalizeBlocks, FinalizeEnds
<1>7. ASSUME NEW next \in Terminal, EndTask(next) PROVE BlockedIsSettled' /\ EndedIsSettled'
  BY <1>7 DEF EndTask, BlockedIsSettled, EndedIsSettled
<1>8. ASSUME \/ \E n \in Nodes :
                  \/ SpawnWorker(n) \/ RunByHand(n) \/ StartFails(n) \/ StopWorker(n)
                  \/ CrashWorker(n) \/ BeginRecovery(n)
                  \/ FinishRecovery(n, TRUE) \/ FinishRecovery(n, FALSE)
                  \/ PauseAgent(n) \/ WakeAgent(n)
             \/ \E next \in {"paused", "waiting"} : HoldTask(next)
             \/ ResumeTask
      PROVE  BlockedIsSettled' /\ EndedIsSettled'
  <2>1. Quiet
    BY <1>8, QuietActions
  <2>2. \A m \in Nodes : agent'[m] \in Terminal \cup {"absent"} => agent[m] \in Terminal \cup {"absent"}
    BY <1>8, QuietAgents
  <2> QED BY <2>1, <2>2, QuietSettles
<1> QED BY <1>1, <1>2, <1>3, <1>4, <1>5, <1>6, <1>7, <1>8 DEF Next, NodeStep

\* No process works for the Flow and none is being recovered.
AtRest == \A n \in Nodes : worker[n].phase = "none" /\ agent[n] \notin {"running", "recovering"}

\* A running Flow of a running Task at rest has a node the scheduler can start,
\* unless a node is stranded.
FlowNeverStuck ==
  (flow = "running" /\ task = "running" /\ AtRest /\ \A n \in Nodes : ~Stranded(n)) =>
    \E n \in Nodes : Schedulable(n) /\ ContextReady(n)

\* The Flow still has an open node; since the graph has no cycle there is one
\* whose sources are all settled, and none of these failed, was skipped or was
\* cancelled.
LEMMA FirstOpenNode ==
  ASSUME FlowInv, BlockedIsSettled, flow = "running", task = "running", \A n \in Nodes : ~Stranded(n)
  PROVE  \E n \in Nodes : node[n] \notin NodeTerminal /\ \A s \in Sources(n) : node[s] = "completed"
<1> DEFINE U == {n \in Nodes : node[n] \notin NodeTerminal}
<1>1. task \notin Terminal /\ flow # "none"
  BY DEF Terminal
<1>2. U \in (SUBSET Nodes) \ {{}}
  BY <1>1 DEF FlowInv, FlowVerdict
<1>3. PICK n \in U : \A s \in U : <<s, n>> \notin edges
  <2> HIDE DEF U
  <2> QED BY <1>2, Zenon DEF FlowInv, Plan!Acyclic
<1>4. ASSUME NEW s \in Sources(n) PROVE node[s] = "completed"
  <2>1. s \in Nodes
    BY SourcesAreNodes DEF FlowInv
  <2>2. <<s, n>> \in edges
    <3>1. PICK e \in edges : e[2] = n /\ e[1] = s
      BY DEF Sources
    <3>2. e \in Nodes \X Nodes
      BY DEF FlowInv, TypeOK
    <3>3. e = <<e[1], e[2]>>
      BY <3>2, SMT
    <3> QED BY <3>1, <3>3
  <2>3. node[s] \in NodeTerminal
    BY <1>3, <2>1, <2>2
  <2>4. node[s] \notin {"failed", "skipped"}
    BY <1>1, <1>3, <2>1, <2>2 DEF BlockedIsSettled
  <2>5. node[s] # "cancelled"
    BY <1>3 DEF Stranded
  <2> QED BY <2>3, <2>4, <2>5 DEF NodeTerminal, Terminal
<1> QED BY <1>3, <1>4

\* listRunnableAgents and prepareAgentDispatchContext take such a node.
LEMMA FirstOpenIsSchedulable ==
  ASSUME MainWorkers < MaxConcurrent,
         FlowInv, EndedIsSettled, flow = "running", task = "running", AtRest, NEW n \in Nodes, ~Stranded(n),
         node[n] \notin NodeTerminal, \A s \in Sources(n) : node[s] = "completed"
  PROVE  Schedulable(n) /\ ContextReady(n)
<1>1. task \notin Terminal /\ flow # "none"
  BY DEF Terminal
<1>2. agent[n] = "queued"
  <2>1. agent[n] \in AgentStates /\ agent[n] \notin Terminal \cup {"absent"}
    BY <1>1 DEF EndedIsSettled, FlowInv, TypeOK
  <2> QED BY <2>1 DEF AgentStates, AtRest, Stranded
<1>3. node[n] = "queued"
  BY <1>1, <1>2 DEF FlowInv, TypeOK, RowsExist, Stranded
<1>4. dispatch[n][1] \notin Terminal
  BY <1>1 DEF FlowInv, RowsExist, NodeFollowsDispatch
<1>5. Runnable(dispatch[n]) # {}
  BY <1>1, <1>4, OpenIsCurrent
<1>6. \A s \in Sources(n) : dispatch[s][1] = "completed"
  BY <1>1, SourcesAreNodes DEF FlowInv, SameVerdict
<1>7. /\ {m \in Nodes : agent[m] \in {"running", "recovering"}} = {}
      /\ {m \in Nodes : worker[m].phase # "none"} = {}
  BY DEF AtRest
<1>8. Cardinality({}) < MaxConcurrent /\ Cardinality({}) + MainWorkers < MaxConcurrent
  BY FS_EmptySet, BoundsAssumption
<1>9. Schedulable(n)
  BY <1>2, <1>3, <1>5, <1>7, <1>8 DEF Schedulable
<1> QED BY <1>5, <1>6, <1>9 DEF ContextReady

\* No deadlock in the graph: whatever failed, crashed, was skipped, resumed or
\* dispatched again, a Flow at rest that is not settled has a node that
\* listRunnableAgents offers and prepareAgentDispatchContext lets through, or a
\* node stranded in one of the ways Stranded lists.  The safety half of
\* FlowSettles.  The limit of the settings has to leave a slot beside the main
\* Agent's own Worker, which nothing in the code makes sure of.
THEOREM FlowNeverStuckAlways ==
  ASSUME MainWorkers < MaxConcurrent
  PROVE  Spec => []FlowNeverStuck
<1>1. Init => BlockedIsSettled /\ EndedIsSettled
  BY DEF Init, BlockedIsSettled, EndedIsSettled
<1>2. FlowInv /\ (BlockedIsSettled /\ EndedIsSettled) /\ [Next]_vars => (BlockedIsSettled /\ EndedIsSettled)'
  BY SettledStep
<1>3. FlowInv /\ BlockedIsSettled /\ EndedIsSettled => FlowNeverStuck
  BY FirstOpenNode, FirstOpenIsSchedulable DEF FlowNeverStuck
<1> QED BY <1>1, <1>2, <1>3, FlowSound, PTL DEF Spec
=============================================================================
