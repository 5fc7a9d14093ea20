------------------------ MODULE AgentExecutionProofs ------------------------
(***************************************************************************)
(* Proofs about AgentExecution, for any Agents, any number of Attempts,    *)
(* any recovery engines of both kinds and any inputs.  What rests on the   *)
(* stop proof is proved for recover() calls that are prompt.               *)
(***************************************************************************)
EXTENDS AgentExecution, TLAPS

\* Most steps are first-order logic: Zenon is tried first, then SMT, then Zenon for longer.
USE ZenonT(5), SMTT(20), ZenonT(60)

-----------------------------------------------------------------------------
(* Type correctness                                                        *)

\* transitionTask writes Task, Agent and Dispatch states of their types.
LEMMA TransitionTaskType ==
  ASSUME TypeOK, NEW next, TransitionTask(next)
  PROVE  /\ task' \in TaskStates
         /\ agent' \in [Agents -> AgentStates]
         /\ dispatch' \in [Agents -> DispatchStates]
<1>1. next \in TaskStates
  BY DEF TypeOK, TransitionTask, TaskTransitions, TaskStates
<1>2. \A a \in Agents : Carried(next)[a] \in AgentStates
  <2> SUFFICES ASSUME NEW a \in Agents PROVE Carried(next)[a] \in AgentStates
    OBVIOUS
  <2>1. CASE ~Carries(next, agent[a])
    BY <2>1 DEF Carried, TypeOK
  <2>2. CASE Carries(next, agent[a])
    BY <2>2, <1>1 DEF Carried, Carries, TypeOK, TaskStates, AgentStates, Terminal
  <2> QED BY <2>1, <2>2
<1>3. agent' \in [Agents -> AgentStates]
  BY <1>2 DEF TransitionTask, Carried
<1>4. dispatch' \in [Agents -> DispatchStates]
  BY <1>1 DEF TransitionTask, TypeOK, DispatchStates, Terminal
<1> QED BY <1>1, <1>3, <1>4 DEF TransitionTask

\* createTask, and no Attempt yet.
LEMMA InitType == Init => TypeOK
BY MainAssumption, MaxTokenAssumption
DEF Init, TypeOK, TaskStates, AgentStates, DispatchStates, LeaseStates, ProcessStates,
    Activities, Idle, Terminal

\* What users, the daemon and acceptance do to the Task.
LEMMA ControlType == TypeOK /\ Control => TypeOK'
<1> SUFFICES ASSUME TypeOK, Control PROVE TypeOK'
  OBVIOUS
<1>1. CASE Submit \/ Pause \/ Resume \/ Cancel \/ AskUser
  BY <1>1, TransitionTaskType DEF Submit, Pause, Resume, Cancel, AskUser, TypeOK, hosts
<1>2. ASSUME NEW a \in Agents, NEW next \in {"paused", "cancelled"}, ControlSubagent(a, next)
      PROVE  TypeOK'
  BY <1>2 DEF ControlSubagent, TypeOK, AgentStates, DispatchStates, Terminal, hosts
<1>3. ASSUME NEW a \in Agents, WorkerFailed(a)
      PROVE  TypeOK'
  BY <1>3 DEF WorkerFailed, Carried, Carries, TypeOK, TaskStates, AgentStates, Terminal, hosts
<1>4. ASSUME NEW passed \in BOOLEAN, RecordAcceptance(passed)
      PROVE  TypeOK'
  BY <1>4, InputsAssumption DEF RecordAcceptance, TypeOK, hosts
<1>5. ASSUME NEW a \in Agents, StartWorker(a)
      PROVE  TypeOK'
  BY <1>5, MaxTokenAssumption DEF StartWorker, TypeOK
<1> QED BY <1>1, <1>2, <1>3, <1>4, <1>5, InputsAssumption DEF Control

\* A process moves to another of its states.
LEMMA PcType ==
  ASSUME TypeOK, NEW a \in Agents, NEW n \in Tokens, NEW v \in ProcessStates
  PROVE  [pc EXCEPT ![a][n] = v] \in [Agents -> [Tokens -> ProcessStates]]
BY DEF TypeOK

\* claimAttempt and the expiry of a lease.
LEMMA LeaseType ==
  ASSUME TypeOK, NEW a \in Agents, NEW host, ClaimAttempt(a, host) \/ LeaseExpires(a)
  PROVE  TypeOK'
<1>1. CASE ClaimAttempt(a, host)
  <2>1. token[a] + 1 \in Tokens
    BY <1>1, MaxTokenAssumption DEF ClaimAttempt, TypeOK, Tokens
  <2>2. token[a] + 1 \in 0..MaxToken
    BY <2>1, MaxTokenAssumption, SMT DEF Tokens
  <2>3. resident' \in [Agents -> SUBSET Tokens]
    <3>1. resident[a] \cup {token[a] + 1} \in SUBSET Tokens
      BY <2>1 DEF TypeOK
    <3> QED BY ZenonT(60), <1>1, <3>1 DEF ClaimAttempt, TypeOK, hosts
  <2>4. registry' \in [Agents -> 0..MaxToken]
    BY <1>1, <2>2 DEF ClaimAttempt, TypeOK, hosts
  <2>5. pc' \in [Agents -> [Tokens -> ProcessStates]]
    BY <1>1, <2>1, PcType DEF ClaimAttempt, ProcessStates
  <2>6. /\ token' \in [Agents -> 0..MaxToken]
        /\ task' \in TaskStates
    BY <1>1, <2>2 DEF ClaimAttempt, TypeOK, TaskStates
  <2>7. /\ lease' \in [Agents -> LeaseStates]
        /\ dispatch' \in [Agents -> DispatchStates]
        /\ agent' \in [Agents -> AgentStates]
    BY <1>1 DEF ClaimAttempt, TypeOK, AgentStates, DispatchStates, LeaseStates
  <2> QED BY <1>1, <2>3, <2>4, <2>5, <2>6, <2>7 DEF ClaimAttempt, TypeOK
<1>2. CASE LeaseExpires(a)
  BY <1>2 DEF LeaseExpires, TypeOK, LeaseStates, hosts
<1> QED BY <1>1, <1>2

\* The operation in flight leaves a journal of its type.
LEMMA AbandonedType ==
  ASSUME TypeOK, NEW a \in Agents, NEW n \in Tokens
  PROVE  Abandoned(a, n) \in SUBSET OperationLog
BY MaxTokenAssumption DEF Abandoned, TypeOK, OperationLog, Lost

\* run() uninstalls the lifecycle and releases the lease.
LEMMA ReleaseType ==
  ASSUME TypeOK, NEW a \in Agents, NEW n \in Tokens, Release(a, n)
  PROVE  TypeOK'
<1>1. pc' \in [Agents -> [Tokens -> ProcessStates]]
  BY PcType DEF Release, ProcessStates
<1>2. lease' \in [Agents -> LeaseStates]
  BY DEF Release, TypeOK, LeaseStates
<1> QED BY <1>1, <1>2 DEF Release, TypeOK, hosts

\* What a Worker does.
LEMMA WorkerType ==
  ASSUME TypeOK, NEW a \in Agents, NEW n \in Tokens, WorkerStep(a, n)
  PROVE  TypeOK'
<1> USE DEF hosts
<1>1. ASSUME NEW kind \in OperationInputs, StartOperation(a, n, kind)
      PROVE  TypeOK'
  <2>1. Entry(n, kind) \in OperationLog /\ kind \in Activities
    BY InputsAssumption, MaxTokenAssumption DEF Entry, OperationLog, Tokens, Activities
  <2> QED BY <1>1, <2>1 DEF StartOperation, TypeOK
<1>2. CASE FinishOperation(a, n)
  BY <1>2 DEF FinishOperation, TypeOK, Activities
<1>3. CASE MarkOutcomeUnknown(a, n)
  BY <1>3, AbandonedType DEF MarkOutcomeUnknown, TypeOK, Activities, TaskStates, AgentStates
<1>4. CASE DropResult(a, n)
  BY <1>4, AbandonedType DEF DropResult, TypeOK, Activities
<1>5. CASE CrashWorker(a, n)
  <2>1. pc' \in [Agents -> [Tokens -> ProcessStates]]
    BY <1>5, PcType DEF CrashWorker, ProcessStates
  <2> QED BY <1>5, <2>1, AbandonedType DEF CrashWorker, TypeOK, Activities
<1>6. CASE CommitCheckpoint(a, n)
  BY <1>6 DEF CommitCheckpoint, TypeOK
<1>7. ASSUME NEW b \in Agents, MessageAgent(a, n, b)
      PROVE  TypeOK'
  BY <1>7 DEF MessageAgent, Woken, TypeOK, AgentStates
<1>8. ASSUME NEW status \in {"completed", "failed"}, ReportDispatch(a, n, status)
      PROVE  TypeOK'
  <2>1. Woken(Main) \in AgentStates
    BY MainAssumption DEF Woken, TypeOK, AgentStates
  <2>2. status \in AgentStates /\ status \in DispatchStates
    BY DEF AgentStates, DispatchStates, Terminal
  <2> QED BY <1>8, <2>1, <2>2, MainAssumption DEF ReportDispatch, TypeOK
<1>9. ASSUME NEW status \in {"completed", "failed"}, FinalizeSettled(a, n, status)
       PROVE  TypeOK'
  BY <1>9 DEF FinalizeSettled, TypeOK, AgentStates, DispatchStates, Terminal
<1>10. CASE StopWorker(a, n) \/ HeartbeatStop(a, n) \/ DeadlineStop(a, n)
  BY <1>10, ReleaseType DEF StopWorker, HeartbeatStop, DeadlineStop
<1>11. CASE SettleAttempt(a, n)
  <2>1. pc' \in [Agents -> [Tokens -> ProcessStates]]
    BY <1>11, PcType DEF SettleAttempt, ProcessStates
  <2> QED BY <1>11, <2>1 DEF SettleAttempt, TypeOK
<1>12. CASE RequeueAgent(a, n) \/ ExitWorker(a, n)
  <2>1. pc' \in [Agents -> [Tokens -> ProcessStates]]
    BY <1>12, PcType DEF RequeueAgent, ExitWorker, ProcessStates
  <2> QED BY <1>12, <2>1 DEF RequeueAgent, ExitWorker, TypeOK, AgentStates
<1>13. CASE WriteDescriptor(a, n)
  BY <1>13, MaxTokenAssumption DEF WriteDescriptor, TypeOK, Tokens
<1> QED
  BY <1>1, <1>2, <1>3, <1>4, <1>5, <1>6, <1>7,
     <1>8, <1>9, <1>10, <1>11, <1>12, <1>13 DEF WorkerStep

\* What only the main Agent's Worker does.
LEMMA MainType ==
  ASSUME TypeOK, NEW n \in Tokens, MainStep(n)
  PROVE  TypeOK'
<1> USE DEF hosts
<1>1. ASSUME NEW next \in DecisionInputs, RecordDecision(n, next)
      PROVE  TypeOK'
  BY <1>1, InputsAssumption DEF RecordDecision, TypeOK, Activities
<1>2. CASE ApplyDecision(n)
  BY <1>2, TransitionTaskType DEF ApplyDecision, TypeOK, Activities
<1>3. ASSUME NEW next \in {"waiting_input", "waiting_external", "failed"}, TaskUpdate(n, next)
      PROVE  TypeOK'
  BY <1>3, TransitionTaskType DEF TaskUpdate, TypeOK
<1>4. ASSUME NEW a \in Agents, CreateDelegation(n, a)
      PROVE  TypeOK'
  BY <1>4 DEF CreateDelegation, TypeOK, AgentStates, DispatchStates
<1> QED BY <1>1, <1>2, <1>3, <1>4 DEF MainStep

\* What a recovery engine does.
LEMMA RecoveryType ==
  ASSUME TypeOK, NEW e \in Engines, Recovery(e)
  PROVE  TypeOK'
<1> USE MainAssumption, MaxTokenAssumption DEF hosts
<1>1. ASSUME NEW a \in Agents, VerifyStopped(e, a)
      PROVE  TypeOK'
  <2> DEFINE call == [phase |-> "stopped", agent |-> a, exec |-> token[a], safe |-> FALSE]
  <2>1. call \in [phase : {"idle", "stopped", "begun"}, agent : Agents, exec : 0..MaxToken, safe : BOOLEAN]
    BY DEF TypeOK
  <2>2. engine' = [engine EXCEPT ![e] = call]
    BY <1>1 DEF VerifyStopped, Stopped
  <2> HIDE DEF call
  <2> QED BY <1>1, <2>1, <2>2 DEF VerifyStopped, Stopped, TypeOK
<1>2. CASE BeginRecovery(e)
  <2> DEFINE a == engine[e].agent
             safe == RecoverySafe(a)
  <2>1. a \in Agents /\ safe \in BOOLEAN
    BY DEF TypeOK, RecoverySafe
  <2> HIDE DEF safe
  <2>2. UNCHANGED <<task, dispatch, token, journal, pc, busy, facts, hosts>>
    BY <1>2 DEF BeginRecovery
  <2>3. lease' \in [Agents -> LeaseStates] /\ agent' \in [Agents -> AgentStates]
    BY <1>2, <2>1 DEF BeginRecovery, TypeOK, AgentStates, LeaseStates
  <2> DEFINE Calls == [phase : {"idle", "stopped", "begun"}, agent : Agents, exec : 0..MaxToken, safe : BOOLEAN]
             begun == [phase |-> "begun", agent |-> a, exec |-> engine[e].exec, safe |-> safe]
  <2>4. begun \in Calls /\ Idle \in Calls
    <3>1. engine[e].exec \in 0..MaxToken
      BY DEF TypeOK
    <3> QED BY <2>1, <3>1, SMT DEF Idle
  <2>5. engine' = [engine EXCEPT ![e] = begun] \/ engine' = [engine EXCEPT ![e] = Idle]
    BY <1>2 DEF BeginRecovery, safe
  <2> HIDE DEF begun
  <2>6. engine' \in [Engines -> Calls]
    BY <2>4, <2>5 DEF TypeOK
  <2> QED BY <2>2, <2>3, <2>6 DEF TypeOK
<1>3. CASE FinishRecovery(e)
  <2>1. engine[e].agent \in Agents
    BY DEF TypeOK
  <2>2. task' \in TaskStates /\ agent' \in [Agents -> AgentStates]
    BY <1>3, <2>1 DEF FinishRecovery, TypeOK, AgentStates, TaskStates
  <2> QED BY <1>3, <2>2 DEF FinishRecovery, Idle, TypeOK
<1>4. CASE CrashEngine(e)
  BY <1>4 DEF CrashEngine, Idle, TypeOK
<1> QED BY <1>1, <1>2, <1>3, <1>4 DEF Recovery

\* Every step of every actor keeps the types.
LEMMA NextType == TypeOK /\ [Next]_vars => TypeOK'
<1> SUFFICES ASSUME TypeOK, [Next]_vars PROVE TypeOK'
  OBVIOUS
<1>1. CASE UNCHANGED vars
  BY <1>1 DEF vars, TypeOK
<1>2. CASE Next
  BY <1>2, ControlType, LeaseType, WorkerType, MainType, RecoveryType DEF Next
<1> QED BY <1>1, <1>2

\* Every column of the database and every process stays in its type, whatever
\* the Agents, the Attempts and the recovery engines are.
THEOREM TypeCorrect == Spec => []TypeOK
BY InitType, NextType, PTL DEF Spec

-----------------------------------------------------------------------------
(* The write-ahead journal                                                 *)

\* Users, the daemon and acceptance touch no lease, no journal, no process.
LEMMA ControlFrame == Control => UNCHANGED <<lease, token, journal, pc, busy, engine>>
BY DEF Control, Submit, Pause, Resume, Cancel, AskUser, ControlSubagent, WorkerFailed, StartWorker,
       RecordAcceptance

\* The steps of the main Agent's Worker change nothing of a process but busy.
LEMMA MainFrame ==
  ASSUME NEW n \in Tokens, MainStep(n)
  PROVE  UNCHANGED <<lease, token, journal, pc, engine>>
BY DEF MainStep, RecordDecision, ApplyDecision, TaskUpdate, CreateDelegation

\* A recovery engine touches no journal and no Worker.
LEMMA RecoveryFrame ==
  ASSUME NEW e \in Engines, Recovery(e)
  PROVE  UNCHANGED <<dispatch, token, journal, pc, busy>>
BY DEF Recovery, VerifyStopped, Stopped, BeginRecovery, FinishRecovery, CrashEngine

\* Abandoning the operation of one Attempt keeps the entries of the others.
LEMMA AbandonedKeeps ==
  ASSUME NEW a \in Agents, NEW n \in Tokens, NEW k \in Tokens, NEW kind,
         k # n, Entry(k, kind) \in journal[a]
  PROVE  Entry(k, kind) \in Abandoned(a, n)
<1>1. \A other : Entry(k, kind) # Entry(n, other)
  BY DEF Entry
<1> QED BY <1>1 DEF Abandoned

\* Every step keeps the operations in flight in the journal.
LEMMA JournalNext == TypeOK /\ WriteAheadJournal /\ [Next]_vars => WriteAheadJournal'
<1> SUFFICES ASSUME TypeOK, WriteAheadJournal, [Next]_vars PROVE WriteAheadJournal'
  OBVIOUS
<1>1. ASSUME UNCHANGED <<journal, busy>> PROVE WriteAheadJournal'
  BY <1>1 DEF WriteAheadJournal
<1>2. CASE UNCHANGED vars
  BY <1>1, <1>2 DEF vars
<1>3. CASE Control
  BY <1>1, <1>3, ControlFrame
<1>4. ASSUME NEW a \in Agents, NEW host, ClaimAttempt(a, host) \/ LeaseExpires(a)
      PROVE  WriteAheadJournal'
  BY <1>1, <1>4 DEF ClaimAttempt, LeaseExpires
<1>5. ASSUME NEW a \in Agents, NEW n \in Tokens, WorkerStep(a, n)
      PROVE  WriteAheadJournal'
  <2>1. ASSUME NEW kind \in OperationInputs, StartOperation(a, n, kind)
        PROVE  WriteAheadJournal'
    BY <2>1 DEF StartOperation, WriteAheadJournal, TypeOK
  <2>2. CASE FinishOperation(a, n)
    <3>1. \A k \in Tokens, kind \in Operations :
            k # n => Entry(k, kind) # Entry(n, busy[a][n])
      BY DEF Entry
    <3>2. "no" \notin Operations
      BY DEF Operations, Tools
    <3> QED BY <2>2, <3>1, <3>2 DEF FinishOperation, WriteAheadJournal, TypeOK
  <2>3. CASE MarkOutcomeUnknown(a, n) \/ DropResult(a, n) \/ CrashWorker(a, n)
    <3>1. /\ journal' = [journal EXCEPT ![a] = Abandoned(a, n)]
          /\ busy' = [busy EXCEPT ![a][n] = "no"]
      BY <2>3 DEF MarkOutcomeUnknown, DropResult, CrashWorker
    <3>2. SUFFICES ASSUME NEW b \in Agents, NEW k \in Tokens, busy'[b][k] \in Operations
                   PROVE  Entry(k, busy'[b][k]) \in journal'[b]
      BY DEF WriteAheadJournal, Entry
    <3>3. "no" \notin Operations
      BY DEF Operations, Tools
    <3>4. b # a \/ k # n
      BY <3>1, <3>2, <3>3 DEF TypeOK
    <3>5. busy'[b][k] = busy[b][k] /\ Entry(k, busy[b][k]) \in journal[b]
      BY <3>1, <3>2, <3>4 DEF TypeOK, WriteAheadJournal
    <3> QED BY <3>1, <3>4, <3>5, AbandonedKeeps DEF TypeOK
  <2>4. ASSUME NEW b \in Agents, MessageAgent(a, n, b) PROVE WriteAheadJournal'
    BY <1>1, <2>4 DEF MessageAgent
  <2>5. ASSUME NEW status, ReportDispatch(a, n, status) \/ FinalizeSettled(a, n, status)
        PROVE  WriteAheadJournal'
    BY <1>1, <2>5 DEF ReportDispatch, FinalizeSettled
  <2>6. CASE \/ CommitCheckpoint(a, n) \/ StopWorker(a, n) \/ HeartbeatStop(a, n)
             \/ DeadlineStop(a, n) \/ SettleAttempt(a, n) \/ RequeueAgent(a, n) \/ ExitWorker(a, n)
             \/ WriteDescriptor(a, n)
    BY <1>1, <2>6 DEF CommitCheckpoint, StopWorker, HeartbeatStop, DeadlineStop, Release,
                      SettleAttempt, RequeueAgent, ExitWorker, WriteDescriptor
  <2> QED BY <1>5, <2>1, <2>2, <2>3, <2>4, <2>5, <2>6 DEF WorkerStep
<1>6. ASSUME NEW n \in Tokens, MainStep(n)
      PROVE  WriteAheadJournal'
  <2>1. UNCHANGED journal
    BY <1>6, MainFrame
  <2>2. ASSUME NEW v \in Decisions \cup {"no"}, busy' = [busy EXCEPT ![Main][n] = v]
        PROVE  WriteAheadJournal'
    <3>1. v \notin Operations
      BY DEF Operations, Tools, Decisions
    <3> QED BY <2>1, <2>2, <3>1 DEF WriteAheadJournal, TypeOK
  <2>3. ASSUME NEW next \in DecisionInputs, RecordDecision(n, next) PROVE WriteAheadJournal'
    BY <2>2, <2>3, InputsAssumption DEF RecordDecision
  <2>4. CASE ApplyDecision(n)
    BY <2>2, <2>4 DEF ApplyDecision
  <2>5. ASSUME NEW next, TaskUpdate(n, next) PROVE WriteAheadJournal'
    BY <1>1, <2>5 DEF TaskUpdate
  <2>6. ASSUME NEW a \in Agents, CreateDelegation(n, a) PROVE WriteAheadJournal'
    BY <1>1, <2>6 DEF CreateDelegation
  <2> QED BY <1>6, <2>3, <2>4, <2>5, <2>6 DEF MainStep
<1>7. ASSUME NEW e \in Engines, Recovery(e) PROVE WriteAheadJournal'
  BY <1>1, <1>7, RecoveryFrame
<1> QED BY <1>2, <1>3, <1>4, <1>5, <1>6, <1>7 DEF Next

\* startToolExecution and startProviderRequest journal before they execute: no
\* interleaving of Workers, crashes and recoveries leaves an operation that is
\* executing out of the journal.
THEOREM JournalIsWriteAhead == Spec => []WriteAheadJournal
<1>1. Init => WriteAheadJournal
  BY DEF Init, WriteAheadJournal, Operations, Tools
<1> QED BY <1>1, JournalNext, TypeCorrect, PTL DEF Spec

-----------------------------------------------------------------------------
(* The recovery barrier                                                    *)

LeasePart == OnlyHolderAttached /\ LeaseHasToken /\ StopProofStands /\ LateFindsNothing

\* What a stop proof of the execution that holds the lease says.
LEMMA StopProof ==
  ASSUME TypeOK, LeasePart, NEW e \in Engines, engine[e].phase # "idle"
  PROVE  /\ engine[e].agent \in Agents
         /\ engine[e].exec \in Nat /\ token[engine[e].agent] \in Nat
         /\ \/ engine[e].exec < token[engine[e].agent]
            \/ /\ engine[e].exec = token[engine[e].agent]
               /\ pc[engine[e].agent][token[engine[e].agent]] = "exited"
               /\ lease[engine[e].agent] \in {"expired", "revoked"}
               /\ engine[e].phase = "begun" => lease[engine[e].agent] = "revoked"
               /\ token[engine[e].agent] \in Tokens
<1>1. engine[e].agent \in Agents
  BY DEF TypeOK
<1>2. engine[e].exec \in Nat /\ token[engine[e].agent] \in Nat
  BY <1>1, MaxTokenAssumption, SMT DEF TypeOK
<1>3. \/ engine[e].exec < token[engine[e].agent]
      \/ /\ engine[e].exec = token[engine[e].agent]
         /\ pc[engine[e].agent][token[engine[e].agent]] = "exited"
         /\ lease[engine[e].agent] \in {"expired", "revoked"}
         /\ engine[e].phase = "begun" => lease[engine[e].agent] = "revoked"
  BY SMT DEF LeasePart, StopProofStands
<1>4. lease[engine[e].agent] \in {"expired", "revoked"} => token[engine[e].agent] \in Tokens
  BY <1>1 DEF LeasePart, LeaseHasToken
<1> QED BY <1>1, <1>2, <1>3, <1>4

\* While no engine moves and no lease newly expires, no recover() call is late.
LEMMA NoneLate ==
  ASSUME TypeOK, LeasePart, UNCHANGED <<engine, token>>,
         \A a \in Agents : lease'[a] = "expired" => lease[a] = "expired"
  PROVE  LateFindsNothing'
BY DEF TypeOK, LeasePart, LateFindsNothing

\* A process that detaches, settles or ends disturbs no lease and no stop proof.
LEMMA ProcessMove ==
  ASSUME TypeOK, LeasePart, NEW a \in Agents, NEW n \in Tokens, NEW v \in ProcessStates,
         v # "attached", v = "exited" \/ pc[a][n] # "exited",
         pc' = [pc EXCEPT ![a][n] = v], UNCHANGED <<lease, token, engine>>
  PROVE  LeasePart'
<1>1. OnlyHolderAttached'
  BY DEF LeasePart, OnlyHolderAttached, Attached, TypeOK
<1>2. LeaseHasToken'
  BY DEF LeasePart, LeaseHasToken
<1>3. \A b \in Agents, k \in Tokens : pc[b][k] = "exited" => pc'[b][k] = "exited"
  BY DEF TypeOK
<1>4. ASSUME NEW e \in Engines, engine[e].phase # "idle", engine[e].exec = token[engine[e].agent]
      PROVE  pc'[engine[e].agent][token[engine[e].agent]] = "exited"
  BY <1>3, <1>4, StopProof, SMT
<1>5. StopProofStands'
  BY <1>4 DEF LeasePart, StopProofStands
<1> QED BY <1>1, <1>2, <1>5, NoneLate DEF LeasePart

\* run() gives the lease back after it has uninstalled the lifecycle.
LEMMA ReleaseKeeps ==
  ASSUME TypeOK, LeasePart, NEW a \in Agents, NEW n \in Tokens, Attached(a, n), Release(a, n)
  PROVE  LeasePart'
<1>1. CASE ~Holds(a, n)
  <2>1. lease' = lease
    BY <1>1 DEF Release, TypeOK
  <2> QED BY <1>1, <2>1, ProcessMove DEF Release, ProcessStates, Attached
<1>2. CASE Holds(a, n)
  <2>1. /\ lease' = [lease EXCEPT ![a] = "revoked"]
        /\ pc'[a][n] # "attached"
        /\ \A b \in Agents, k \in Tokens : b # a \/ k # n => pc'[b][k] = pc[b][k]
        /\ UNCHANGED <<token, engine>>
    BY <1>2 DEF Release, TypeOK
  <2>2. OnlyHolderAttached'
    BY <1>2, <2>1 DEF LeasePart, OnlyHolderAttached, Attached, Holds, TypeOK
  <2>3. LeaseHasToken'
    BY <1>2, <2>1 DEF LeasePart, LeaseHasToken, Holds, TypeOK
  <2>4. ASSUME NEW e \in Engines, engine[e].phase # "idle", engine[e].exec = token[engine[e].agent]
        PROVE  /\ lease'[engine[e].agent] = lease[engine[e].agent]
               /\ pc'[engine[e].agent][token[engine[e].agent]] = "exited"
    <3> DEFINE b == engine[e].agent
    <3>1. b \in Agents /\ token[b] \in Tokens /\ pc[b][token[b]] = "exited" /\ lease[b] # "live"
      BY <2>4, StopProof, SMT
    <3>2. b # a
      BY <1>2, <3>1 DEF Holds
    <3> QED BY <2>1, <3>1, <3>2 DEF TypeOK
  <2>5. StopProofStands'
    BY <2>1, <2>4 DEF LeasePart, StopProofStands
  <2>6. LateFindsNothing'
    BY <2>1, NoneLate DEF TypeOK
  <2> QED BY <2>2, <2>3, <2>5, <2>6 DEF LeasePart
<1> QED BY <1>1, <1>2

\* claimAttempt finds no Worker attached, and every stop proof is of an older
\* execution from then on.
LEMMA ClaimKeeps ==
  ASSUME TypeOK, LeasePart, NEW a \in Agents, NEW host, ClaimAttempt(a, host)
  PROVE  LeasePart'
<1>1. token[a] + 1 \in Tokens
  BY MaxTokenAssumption DEF ClaimAttempt, TypeOK, Tokens
<1>2. /\ token' = [token EXCEPT ![a] = token[a] + 1]
      /\ lease' = [lease EXCEPT ![a] = "live"]
      /\ pc' = [pc EXCEPT ![a][token[a] + 1] = "attached"]
      /\ UNCHANGED engine
      /\ lease[a] \in {"absent", "revoked"}
  BY DEF ClaimAttempt, Claimable
<1>3. OnlyHolderAttached'
  BY <1>1, <1>2 DEF LeasePart, OnlyHolderAttached, Attached, TypeOK
<1>4. LeaseHasToken'
  BY <1>1, <1>2 DEF LeasePart, LeaseHasToken, TypeOK
<1>5. ASSUME NEW e \in Engines, engine[e].phase # "idle"
      PROVE  \/ engine[e].exec < token'[engine[e].agent]
             \/ UNCHANGED <<token[engine[e].agent], lease[engine[e].agent], pc[engine[e].agent]>>
  <2>1. CASE engine[e].agent = a
    <3>1. engine[e].exec \in Nat /\ token[a] \in Nat /\ engine[e].exec <= token[a]
      BY <1>5, <2>1, StopProof, SMT
    <3>2. token'[a] = token[a] + 1
      BY <1>2 DEF TypeOK
    <3> QED BY <2>1, <3>1, <3>2, SMT
  <2>2. CASE engine[e].agent # a
    BY <1>2, <1>5, <2>2, StopProof DEF TypeOK
  <2> QED BY <2>1, <2>2
<1>6. StopProofStands'
  BY <1>2, <1>5, SMT DEF LeasePart, StopProofStands
<1>7. LateFindsNothing'
  <2>1. \A b \in Agents : lease'[b] = "expired" => b # a /\ lease[b] = "expired" /\ token'[b] = token[b]
    BY <1>2 DEF TypeOK
  <2> QED BY <1>2, <2>1 DEF TypeOK, LeasePart, LateFindsNothing
<1> QED BY <1>3, <1>4, <1>6, <1>7 DEF LeasePart

\* A lease that expires while recover() calls are prompt meets none that is late.
LEMMA ExpiryKeeps ==
  ASSUME Prompt, TypeOK, LeasePart, NEW a \in Agents, LeaseExpires(a)
  PROVE  LeasePart'
<1>1. /\ lease' = [lease EXCEPT ![a] = "expired"] /\ lease[a] = "live"
      /\ UNCHANGED <<token, pc, engine>>
  BY DEF LeaseExpires
<1>2. OnlyHolderAttached' /\ LeaseHasToken'
  BY <1>1 DEF LeasePart, OnlyHolderAttached, Attached, LeaseHasToken, TypeOK
<1>3. ASSUME NEW e \in Engines, engine[e].phase # "idle", engine[e].exec = token[engine[e].agent]
      PROVE  lease'[engine[e].agent] = lease[engine[e].agent]
  <2>1. engine[e].agent \in Agents /\ lease[engine[e].agent] # "live"
    BY <1>3, StopProof, SMT
  <2> QED BY <1>1, <2>1 DEF TypeOK
<1>4. StopProofStands'
  BY <1>1, <1>3 DEF LeasePart, StopProofStands
<1>5. LateFindsNothing'
  <2>1. \A b \in Agents : b # a => lease'[b] = lease[b]
    BY <1>1 DEF TypeOK
  <2>2. \A e \in Engines : engine[e].agent \in Agents
    BY DEF TypeOK
  <2>3. \A e \in Engines : engine[e].phase # "idle" /\ engine[e].agent = a => engine[e].exec = token[a]
    BY DEF LeaseExpires
  <2> QED BY <1>1, <2>1, <2>2, <2>3 DEF LeasePart, LateFindsNothing
<1> QED BY <1>2, <1>4, <1>5 DEF LeasePart

\* An engine takes back only a lease whose last Worker it has seen exited.
LEMMA RecoveryKeeps ==
  ASSUME TypeOK, LeasePart, NEW e \in Engines, Recovery(e)
  PROVE  LeasePart'
<1>1. UNCHANGED <<token, pc>>
  BY RecoveryFrame
<1>2. ASSUME NEW a \in Agents, VerifyStopped(e, a)
      PROVE  LeasePart'
  <2>1. /\ engine'[e].agent = a /\ engine'[e].exec = token[a] /\ engine'[e].phase = "stopped"
        /\ \A f \in Engines : f # e => engine'[f] = engine[f]
        /\ lease[a] = "expired" /\ pc[a][token[a]] = "exited" /\ UNCHANGED lease
    BY <1>2 DEF VerifyStopped, Stopped, TypeOK
  <2>2. OnlyHolderAttached' /\ LeaseHasToken'
    BY <1>1, <2>1 DEF LeasePart, OnlyHolderAttached, Attached, LeaseHasToken
  <2>3. StopProofStands'
    BY <1>1, <2>1 DEF LeasePart, StopProofStands
  <2>4. LateFindsNothing'
    BY <1>1, <2>1 DEF LeasePart, LateFindsNothing
  <2> QED BY <2>2, <2>3, <2>4 DEF LeasePart
<1>3. ASSUME engine' = [engine EXCEPT ![e] = Idle], UNCHANGED lease
      PROVE  LeasePart'
  <2>1. engine'[e].phase = "idle" /\ \A f \in Engines : f # e => engine'[f] = engine[f]
    BY <1>3 DEF Idle, TypeOK
  <2> QED
    BY <1>1, <1>3, <2>1
    DEF LeasePart, OnlyHolderAttached, Attached, LeaseHasToken, StopProofStands, LateFindsNothing
<1>4. CASE BeginRecovery(e)
  <2> DEFINE a == engine[e].agent
  <2>1. a \in Agents
    BY DEF TypeOK
  <2>2. CASE lease[a] = "expired"
    <3>1. engine[e].exec = token[a] /\ pc[a][token[a]] = "exited"
      BY <1>4, <2>2, StopProof, SMT DEF BeginRecovery, LeasePart, LateFindsNothing
    <3>2. \A n \in Tokens : ~Attached(a, n)
      BY <2>1, <3>1 DEF LeasePart, OnlyHolderAttached, Attached
    <3>3. lease' = [lease EXCEPT ![a] = "revoked"]
      BY <1>4, <2>2 DEF BeginRecovery
    <3>4. /\ engine'[e].phase = "begun" /\ engine'[e].agent = a /\ engine'[e].exec = token[a]
          /\ \A f \in Engines : f # e => engine'[f] = engine[f]
      BY <1>4, <2>2, <3>1 DEF BeginRecovery, TypeOK
    <3>5. OnlyHolderAttached'
      BY <1>1, <2>1, <3>2, <3>3 DEF LeasePart, OnlyHolderAttached, Attached, TypeOK
    <3>6. LeaseHasToken'
      BY <1>1, <2>1, <2>2, <3>3 DEF LeasePart, LeaseHasToken, TypeOK
    <3>7. lease'[a] = "revoked" /\ \A b \in Agents : b # a => lease'[b] = lease[b]
      BY <2>1, <3>3 DEF TypeOK
    <3>8. \A f \in Engines : engine[f].agent \in Agents
      BY DEF TypeOK
    <3>9. StopProofStands'
      BY <1>1, <3>1, <3>4, <3>7, <3>8 DEF LeasePart, StopProofStands
    <3>10. LateFindsNothing'
      BY <1>1, <3>4, <3>7, <3>8 DEF LeasePart, LateFindsNothing
    <3> QED BY <3>5, <3>6, <3>9, <3>10 DEF LeasePart
  <2>3. CASE lease[a] # "expired"
    BY <1>3, <1>4, <2>3 DEF BeginRecovery
  <2> QED BY <2>2, <2>3
<1>5. CASE FinishRecovery(e) \/ CrashEngine(e)
  BY <1>3, <1>5 DEF FinishRecovery, CrashEngine
<1> QED BY <1>2, <1>4, <1>5 DEF Recovery

\* Every step keeps the part of the invariant about leases, tokens and stop proofs.
LEMMA LeaseNext ==
  ASSUME Prompt, TypeOK, LeasePart, [Next]_vars
  PROVE  LeasePart'
<1>1. ASSUME UNCHANGED <<lease, token, pc, engine>> PROVE LeasePart'
  BY <1>1 DEF LeasePart, OnlyHolderAttached, Attached, LeaseHasToken, StopProofStands, LateFindsNothing
<1>2. CASE UNCHANGED vars
  BY <1>1, <1>2 DEF vars
<1>3. CASE Control
  BY <1>1, <1>3, ControlFrame
<1>4. ASSUME NEW a \in Agents, NEW host, ClaimAttempt(a, host)
      PROVE  LeasePart'
  BY <1>4, ClaimKeeps
<1>5. ASSUME NEW a \in Agents, LeaseExpires(a)
      PROVE  LeasePart'
  BY <1>5, ExpiryKeeps
<1>6. ASSUME NEW a \in Agents, NEW n \in Tokens, WorkerStep(a, n)
      PROVE  LeasePart'
  <2>1. ASSUME NEW kind, StartOperation(a, n, kind) PROVE LeasePart'
    BY <1>1, <2>1 DEF StartOperation
  <2>2. ASSUME NEW b, MessageAgent(a, n, b) PROVE LeasePart'
    BY <1>1, <2>2 DEF MessageAgent
  <2>3. ASSUME NEW status, ReportDispatch(a, n, status) \/ FinalizeSettled(a, n, status)
        PROVE  LeasePart'
    BY <1>1, <2>3 DEF ReportDispatch, FinalizeSettled
  <2>4. CASE \/ FinishOperation(a, n) \/ MarkOutcomeUnknown(a, n) \/ DropResult(a, n)
             \/ CommitCheckpoint(a, n) \/ WriteDescriptor(a, n)
    BY <1>1, <2>4 DEF FinishOperation, MarkOutcomeUnknown, DropResult, CommitCheckpoint, WriteDescriptor
  <2>5. CASE StopWorker(a, n) \/ HeartbeatStop(a, n) \/ DeadlineStop(a, n)
    BY <2>5, ReleaseKeeps DEF StopWorker, HeartbeatStop, DeadlineStop
  <2>6. CASE SettleAttempt(a, n)
    BY <2>6, ProcessMove DEF SettleAttempt, ProcessStates
  <2>7. CASE RequeueAgent(a, n)
    BY <2>7, ProcessMove DEF RequeueAgent, ProcessStates
  <2>8. CASE ExitWorker(a, n) \/ CrashWorker(a, n)
    BY <2>8, ProcessMove DEF ExitWorker, CrashWorker, WriteDescriptor, ProcessStates
  <2> QED BY <1>6, <2>1, <2>2, <2>3, <2>4, <2>5, <2>6, <2>7, <2>8 DEF WorkerStep
<1>7. ASSUME NEW n \in Tokens, MainStep(n)
      PROVE  LeasePart'
  BY <1>1, <1>7, MainFrame
<1>8. ASSUME NEW e \in Engines, Recovery(e)
      PROVE  LeasePart'
  BY <1>8, RecoveryKeeps
<1> QED BY <1>2, <1>3, <1>4, <1>5, <1>6, <1>7, <1>8 DEF Next

\* A created Task has no Attempt, so the part about leases holds.
LEMMA LeaseInit == Init => LeasePart
BY DEF Init, LeasePart, OnlyHolderAttached, Attached, LeaseHasToken, StopProofStands, LateFindsNothing, Idle

\* When recover() calls are prompt, whatever engines there are: no expiry, crash, pause or recovery lets a newer
\* Attempt start while the Worker of an older one still executes.
THEOREM BarrierHolds ==
  ASSUME Prompt
  PROVE  Spec => []RecoveryBarrier
<1>1. Init => TypeOK /\ LeasePart
  BY InitType, LeaseInit
<1>2. TypeOK /\ LeasePart /\ [Next]_vars => (TypeOK /\ LeasePart)'
  BY Prompt, NextType, LeaseNext
<1>3. TypeOK /\ LeasePart => RecoveryBarrier
  BY MaxTokenAssumption DEF TypeOK, LeasePart, OnlyHolderAttached, RecoveryBarrier, Tokens
<1> QED BY <1>1, <1>2, <1>3, PTL DEF Spec
-----------------------------------------------------------------------------
(* The execution right                                                     *)

Executing == [a \in Agents |-> {n \in Tokens : Attached(a, n)}]

\* A process that leaves `attached' gives up the right, any other move keeps it.
LEMMA MoveDeparts ==
  ASSUME TypeOK, LeasePart, NEW a \in Agents, NEW n \in Tokens, NEW v \in ProcessStates,
         v # "attached", pc' = [pc EXCEPT ![a][n] = v], UNCHANGED token
  PROVE  Right!Depart(a) \/ UNCHANGED <<token, Executing>>
<1>1. CASE Attached(a, n)
  <2>1. \A k \in Tokens : ~(pc'[a][k] = "attached")
    BY <1>1 DEF LeasePart, OnlyHolderAttached, Attached, TypeOK
  <2>2. \A b \in Agents : b # a => pc'[b] = pc[b]
    BY DEF TypeOK
  <2>3. Executing' = [Executing EXCEPT ![a] = {}]
    BY <2>1, <2>2 DEF Executing, Attached
  <2> QED BY <2>3 DEF Right!Depart, Executing
<1>2. CASE ~Attached(a, n)
  <2>1. \A b \in Agents, k \in Tokens : pc'[b][k] = "attached" <=> pc[b][k] = "attached"
    BY <1>2 DEF Attached, TypeOK
  <2>2. Executing' = Executing
    BY <2>1 DEF Executing, Attached
  <2> QED BY <2>2
<1> QED BY <1>1, <1>2

\* claimAttempt is a grant.
LEMMA ClaimGrants ==
  ASSUME TypeOK, LeasePart, NEW a \in Agents, NEW host, ClaimAttempt(a, host)
  PROVE  Right!Grant(a)
<1>1. token[a] + 1 \in Tokens
  BY MaxTokenAssumption DEF ClaimAttempt, TypeOK, Tokens
<1>2. /\ token' = [token EXCEPT ![a] = token[a] + 1]
      /\ pc' = [pc EXCEPT ![a][token[a] + 1] = "attached"]
      /\ lease[a] \in {"absent", "revoked"}
  BY DEF ClaimAttempt, Claimable
<1>3. \A n \in Tokens : ~Attached(a, n)
  BY <1>2 DEF LeasePart, OnlyHolderAttached
<1>4. \A k \in Tokens : pc'[a][k] = "attached" <=> k = token[a] + 1
  BY <1>1, <1>2, <1>3 DEF Attached, TypeOK
<1>5. \A b \in Agents : b # a => pc'[b] = pc[b]
  BY <1>2 DEF TypeOK
<1>6. Executing' = [Executing EXCEPT ![a] = {token[a] + 1}]
  BY <1>1, <1>4, <1>5 DEF Executing, Attached
<1>7. Executing[a] = {}
  BY <1>3 DEF Executing
<1> QED BY <1>2, <1>6, <1>7 DEF Right!Grant, Executing

\* Every step is a grant, a departure or a stutter of the execution right.
LEMMA StepImplements ==
  ASSUME TypeOK, LeasePart, [Next]_vars
  PROVE  Right!Next \/ UNCHANGED <<token, Executing>>
<1> DEFINE Goal == Right!Next \/ UNCHANGED <<token, Executing>>
<1>1. ASSUME UNCHANGED <<token, pc>> PROVE Goal
  BY <1>1 DEF Executing, Attached
<1>2. ASSUME NEW a \in Agents, NEW n \in Tokens, NEW v \in ProcessStates,
             v # "attached", pc' = [pc EXCEPT ![a][n] = v], UNCHANGED token
      PROVE  Goal
  BY <1>2, MoveDeparts DEF Right!Next
<1> HIDE DEF Goal
<1>3. ASSUME UNCHANGED vars PROVE Goal
  BY <1>1, <1>3 DEF vars
<1>4. ASSUME Control PROVE Goal
  BY <1>1, <1>4, ControlFrame
<1>5. ASSUME NEW a \in Agents, NEW host, ClaimAttempt(a, host) PROVE Goal
  BY <1>5, ClaimGrants DEF Goal, Right!Next
<1>6. ASSUME NEW a \in Agents, LeaseExpires(a) PROVE Goal
  BY <1>1, <1>6 DEF LeaseExpires
<1>7. ASSUME NEW a \in Agents, NEW n \in Tokens, WorkerStep(a, n) PROVE Goal
  <2>1. ASSUME NEW kind, StartOperation(a, n, kind) PROVE Goal
    BY <1>1, <2>1 DEF StartOperation
  <2>2. ASSUME NEW b, MessageAgent(a, n, b) PROVE Goal
    BY <1>1, <2>2 DEF MessageAgent
  <2>3. ASSUME NEW status, ReportDispatch(a, n, status) \/ FinalizeSettled(a, n, status)
        PROVE  Goal
    BY <1>1, <2>3 DEF ReportDispatch, FinalizeSettled
  <2>4. CASE \/ FinishOperation(a, n) \/ MarkOutcomeUnknown(a, n) \/ DropResult(a, n)
             \/ CommitCheckpoint(a, n) \/ WriteDescriptor(a, n)
    BY <1>1, <2>4 DEF FinishOperation, MarkOutcomeUnknown, DropResult, CommitCheckpoint, WriteDescriptor
  <2>5. CASE StopWorker(a, n) \/ HeartbeatStop(a, n) \/ DeadlineStop(a, n)
    BY <1>2, <2>5 DEF StopWorker, HeartbeatStop, DeadlineStop, Release, ProcessStates
  <2>6. CASE SettleAttempt(a, n)
    BY <1>2, <2>6 DEF SettleAttempt, ProcessStates
  <2>7. CASE RequeueAgent(a, n) \/ ExitWorker(a, n) \/ CrashWorker(a, n)
    BY <1>2, <2>7 DEF RequeueAgent, ExitWorker, CrashWorker, WriteDescriptor, ProcessStates
  <2> QED BY <1>7, <2>1, <2>2, <2>3, <2>4, <2>5, <2>6, <2>7 DEF WorkerStep
<1>8. ASSUME NEW n \in Tokens, MainStep(n) PROVE Goal
  BY <1>1, <1>8, MainFrame
<1>9. ASSUME NEW e \in Engines, Recovery(e) PROVE Goal
  BY <1>1, <1>9, RecoveryFrame
<1> QED BY <1>3, <1>4, <1>5, <1>6, <1>7, <1>8, <1>9 DEF Next, Goal

\* When recover() calls are prompt, the lease, the fencing token and the recovery
\* barrier implement the exclusive execution right of ExecutionRight.
THEOREM ExecutionRightImplemented ==
  ASSUME Prompt
  PROVE  Spec => ImplementsExecutionRight
<1>1. Init => Right!Init
  BY DEF Init, Right!Init, Attached
<1>2. Init => TypeOK /\ LeasePart
  BY InitType, LeaseInit
<1>3. TypeOK /\ LeasePart /\ [Next]_vars => (TypeOK /\ LeasePart)'
  BY Prompt, NextType, LeaseNext
<1>4. TypeOK /\ LeasePart /\ [Next]_vars
        => [Right!Next]_<<token, [a \in Agents |-> {n \in Tokens : Attached(a, n)}]>>
  BY StepImplements DEF Executing
<1> QED BY <1>1, <1>2, <1>3, <1>4, PTL DEF Spec, ImplementsExecutionRight, Right!Spec
-----------------------------------------------------------------------------
(* Recovery requeues nothing whose outcome is unknown                      *)

VerdictPart == RecoveringIsRevoked /\ VerdictStands

\* No Task transition puts an Agent into recovery or makes it disappear.
LEMMA TransitionNeverEnters ==
  ASSUME TypeOK, NEW next, TransitionTask(next), NEW a \in Agents,
         NEW s \in {"recovering", "absent"}, agent'[a] = s
  PROVE  agent[a] = s
<1>1. next \in TaskStates
  BY DEF TypeOK, TransitionTask, TaskTransitions, TaskStates
<1> QED BY <1>1 DEF TransitionTask, Carried, TaskStates

\* Only beginRecovery puts one into recovery.
LEMMA OnlyBeginEnters ==
  ASSUME TypeOK, Next, NEW s \in {"recovering", "absent"},
         s = "recovering" => ~(\E e \in Engines : BeginRecovery(e)),
         NEW b \in Agents, agent'[b] = s
  PROVE  agent[b] = s
<1> DEFINE Goal == agent[b] = s
<1>1. ASSUME UNCHANGED agent PROVE Goal
  BY <1>1
<1>2. ASSUME NEW next, TransitionTask(next) PROVE Goal
  BY <1>2, TransitionNeverEnters
<1>3. ASSUME NEW a \in Agents, NEW v, v # s, agent' = [agent EXCEPT ![a] = v] PROVE Goal
  BY <1>3 DEF TypeOK
<1> HIDE DEF Goal
<1>4. ASSUME Control PROVE Goal
  <2>1. ASSUME Submit \/ Pause \/ Resume \/ Cancel \/ AskUser PROVE Goal
    BY <1>2, <2>1 DEF Submit, Pause, Resume, Cancel, AskUser
  <2>2. ASSUME NEW a \in Agents, NEW next \in {"paused", "cancelled"}, ControlSubagent(a, next)
        PROVE  Goal
    BY <1>3, <2>2 DEF ControlSubagent
  <2>3. ASSUME NEW a \in Agents, WorkerFailed(a) PROVE Goal
    BY <2>3 DEF WorkerFailed, Carried, TypeOK, Goal
  <2>4. ASSUME NEW passed, RecordAcceptance(passed) PROVE Goal
    BY <1>1, <2>4 DEF RecordAcceptance
  <2>5. ASSUME NEW a, StartWorker(a) PROVE Goal
    BY <1>1, <2>5 DEF StartWorker
  <2> QED BY <1>4, <2>1, <2>2, <2>3, <2>4, <2>5 DEF Control
<1>5. ASSUME NEW a \in Agents, NEW host, ClaimAttempt(a, host) \/ LeaseExpires(a) PROVE Goal
  BY <1>1, <1>3, <1>5 DEF ClaimAttempt, LeaseExpires
<1>6. ASSUME NEW a \in Agents, NEW n \in Tokens, WorkerStep(a, n) PROVE Goal
  <2>1. ASSUME NEW kind, StartOperation(a, n, kind) PROVE Goal
    BY <1>1, <2>1 DEF StartOperation
  <2>2. ASSUME NEW c \in Agents, MessageAgent(a, n, c) PROVE Goal
    BY <2>2 DEF MessageAgent, Woken, TypeOK, Goal
  <2>3. ASSUME NEW status \in {"completed", "failed"}, ReportDispatch(a, n, status) PROVE Goal
    BY <2>3, MainAssumption DEF ReportDispatch, Woken, TypeOK, Goal
  <2>4. ASSUME NEW status \in {"completed", "failed"}, FinalizeSettled(a, n, status) PROVE Goal
    BY <1>3, <2>4 DEF FinalizeSettled
  <2>5. ASSUME MarkOutcomeUnknown(a, n) PROVE Goal
    BY <1>3, <2>5 DEF MarkOutcomeUnknown
  <2>6. ASSUME RequeueAgent(a, n) PROVE Goal
    BY <2>6 DEF RequeueAgent, TypeOK, Goal
  <2>7. ASSUME \/ FinishOperation(a, n) \/ DropResult(a, n) \/ CommitCheckpoint(a, n)
               \/ StopWorker(a, n) \/ HeartbeatStop(a, n) \/ DeadlineStop(a, n)
               \/ SettleAttempt(a, n) \/ ExitWorker(a, n) \/ CrashWorker(a, n) \/ WriteDescriptor(a, n)
        PROVE  Goal
    BY <1>1, <2>7
    DEF FinishOperation, DropResult, CommitCheckpoint, StopWorker, HeartbeatStop, DeadlineStop,
        Release, SettleAttempt, ExitWorker, CrashWorker, WriteDescriptor
  <2> QED BY <1>6, <2>1, <2>2, <2>3, <2>4, <2>5, <2>6, <2>7 DEF WorkerStep
<1>7. ASSUME NEW n \in Tokens, MainStep(n) PROVE Goal
  <2>1. ASSUME NEW next, RecordDecision(n, next) PROVE Goal
    BY <1>1, <2>1 DEF RecordDecision
  <2>2. ASSUME ApplyDecision(n) PROVE Goal
    BY <1>1, <1>2, <2>2 DEF ApplyDecision
  <2>3. ASSUME NEW next, TaskUpdate(n, next) PROVE Goal
    BY <1>2, <2>3 DEF TaskUpdate
  <2>4. ASSUME NEW a \in Agents, CreateDelegation(n, a) PROVE Goal
    BY <1>3, <2>4 DEF CreateDelegation
  <2> QED BY <1>7, <2>1, <2>2, <2>3, <2>4 DEF MainStep
<1>8. ASSUME NEW e \in Engines, Recovery(e) PROVE Goal
  <2>1. ASSUME NEW a, VerifyStopped(e, a) PROVE Goal
    BY <1>1, <2>1 DEF VerifyStopped, Stopped
  <2>2. ASSUME FinishRecovery(e) PROVE Goal
    BY <2>2 DEF FinishRecovery, TypeOK, Goal
  <2>3. ASSUME CrashEngine(e) PROVE Goal
    BY <1>1, <2>3 DEF CrashEngine
  <2>4. ASSUME BeginRecovery(e) PROVE Goal
    <3>1. engine[e].agent \in Agents
      BY DEF TypeOK
    <3> QED BY <1>1, <1>3, <2>4, <3>1 DEF BeginRecovery
  <2> QED BY <1>8, <2>1, <2>2, <2>3, <2>4 DEF Recovery
<1> QED BY <1>4, <1>5, <1>6, <1>7, <1>8 DEF Next, Goal
\* A lease that is revoked stays revoked until the next claim.
LEMMA RevokedStays ==
  ASSUME TypeOK, Next, NEW b \in Agents, lease[b] = "revoked", \A host : ~ClaimAttempt(b, host)
  PROVE  lease'[b] = "revoked"
<1> DEFINE Goal == lease'[b] = "revoked"
<1>1. ASSUME UNCHANGED lease PROVE Goal
  BY <1>1
<1>2. ASSUME NEW a \in Agents, NEW v, a # b \/ v = "revoked", lease' = [lease EXCEPT ![a] = v]
      PROVE  Goal
  BY <1>2 DEF TypeOK
<1> HIDE DEF Goal
<1>3. ASSUME Control PROVE Goal
  BY <1>1, <1>3, ControlFrame
<1>4. ASSUME NEW a \in Agents, NEW host, ClaimAttempt(a, host) \/ LeaseExpires(a) PROVE Goal
  BY <1>2, <1>4 DEF ClaimAttempt, LeaseExpires
<1>5. ASSUME NEW a \in Agents, NEW n \in Tokens, WorkerStep(a, n) PROVE Goal
  <2>1. ASSUME Release(a, n) PROVE Goal
    BY <2>1 DEF Release, TypeOK, Goal
  <2>2. ASSUME NEW kind, StartOperation(a, n, kind) PROVE Goal
    BY <1>1, <2>2 DEF StartOperation
  <2>3. ASSUME NEW c, MessageAgent(a, n, c) PROVE Goal
    BY <1>1, <2>3 DEF MessageAgent
  <2>4. ASSUME NEW status, ReportDispatch(a, n, status) \/ FinalizeSettled(a, n, status) PROVE Goal
    BY <1>1, <2>4 DEF ReportDispatch, FinalizeSettled
  <2>5. ASSUME StopWorker(a, n) \/ HeartbeatStop(a, n) \/ DeadlineStop(a, n) PROVE Goal
    BY <2>1, <2>5 DEF StopWorker, HeartbeatStop, DeadlineStop
  <2>6. ASSUME \/ FinishOperation(a, n) \/ MarkOutcomeUnknown(a, n) \/ DropResult(a, n)
               \/ CommitCheckpoint(a, n) \/ SettleAttempt(a, n) \/ RequeueAgent(a, n)
               \/ ExitWorker(a, n) \/ CrashWorker(a, n) \/ WriteDescriptor(a, n)
        PROVE  Goal
    BY <1>1, <2>6
    DEF FinishOperation, MarkOutcomeUnknown, DropResult, CommitCheckpoint, SettleAttempt,
        RequeueAgent, ExitWorker, CrashWorker, WriteDescriptor
  <2> QED BY <1>5, <2>2, <2>3, <2>4, <2>5, <2>6 DEF WorkerStep
<1>6. ASSUME NEW n \in Tokens, MainStep(n) PROVE Goal
  BY <1>1, <1>6, MainFrame
<1>7. ASSUME NEW e \in Engines, Recovery(e) PROVE Goal
  <2>1. ASSUME NEW a, VerifyStopped(e, a) PROVE Goal
    BY <1>1, <2>1 DEF VerifyStopped, Stopped
  <2>2. ASSUME BeginRecovery(e) PROVE Goal
    BY <1>1, <1>2, <2>2 DEF BeginRecovery, TypeOK
  <2>3. ASSUME FinishRecovery(e) \/ CrashEngine(e) PROVE Goal
    BY <1>1, <2>3 DEF FinishRecovery, CrashEngine
  <2> QED BY <1>7, <2>1, <2>2, <2>3 DEF Recovery
<1> QED BY <1>3, <1>4, <1>5, <1>6, <1>7 DEF Next, Goal

\* Without a live lease no operation starts, and one that is abandoned was
\* journalled before: a journal without unresolved entries stays so.
LEMMA ResolvedStays ==
  ASSUME TypeOK, WriteAheadJournal, Next, NEW b \in Agents, lease[b] = "revoked", Unresolved(b) = {}
  PROVE  Unresolved(b)' = {}
<1> DEFINE Goal == Unresolved(b)' = {}
<1>1. ASSUME journal'[b] \subseteq journal[b] PROVE Goal
  BY <1>1 DEF Unresolved
<1>2. ASSUME UNCHANGED journal PROVE Goal
  BY <1>1, <1>2
<1>3. ASSUME NEW n \in Tokens, journal'[b] = Abandoned(b, n) PROVE Goal
  <2>1. ASSUME busy[b][n] \in Operations PROVE busy[b][n] = "read_only"
    <3>1. Entry(n, busy[b][n]) \in journal[b]
      BY <2>1 DEF WriteAheadJournal
    <3> QED BY <3>1 DEF Unresolved, Entry
  <2> QED BY <1>3, <2>1 DEF Abandoned, Lost, Unresolved
<1> HIDE DEF Goal
<1>4. ASSUME Control PROVE Goal
  BY <1>2, <1>4, ControlFrame
<1>5. ASSUME NEW a \in Agents, NEW host, ClaimAttempt(a, host) \/ LeaseExpires(a) PROVE Goal
  BY <1>2, <1>5 DEF ClaimAttempt, LeaseExpires
<1>6. ASSUME NEW a \in Agents, NEW n \in Tokens, WorkerStep(a, n) PROVE Goal
  <2>1. ASSUME NEW kind, StartOperation(a, n, kind) PROVE Goal
    BY <1>1, <2>1 DEF StartOperation, Holds, TypeOK
  <2>2. ASSUME FinishOperation(a, n) PROVE Goal
    BY <1>1, <2>2 DEF FinishOperation, TypeOK
  <2>3. ASSUME MarkOutcomeUnknown(a, n) \/ DropResult(a, n) \/ CrashWorker(a, n) PROVE Goal
    <3>1. journal' = [journal EXCEPT ![a] = Abandoned(a, n)]
      BY <2>3 DEF MarkOutcomeUnknown, DropResult, CrashWorker
    <3>2. CASE a = b
      BY <1>3, <3>1, <3>2 DEF TypeOK
    <3>3. CASE a # b
      BY <1>1, <3>1, <3>3 DEF TypeOK
    <3> QED BY <3>2, <3>3
  <2>4. ASSUME NEW c, MessageAgent(a, n, c) PROVE Goal
    BY <1>2, <2>4 DEF MessageAgent
  <2>5. ASSUME NEW status, ReportDispatch(a, n, status) \/ FinalizeSettled(a, n, status) PROVE Goal
    BY <1>2, <2>5 DEF ReportDispatch, FinalizeSettled
  <2>6. ASSUME \/ CommitCheckpoint(a, n) \/ StopWorker(a, n) \/ HeartbeatStop(a, n)
               \/ DeadlineStop(a, n) \/ SettleAttempt(a, n) \/ RequeueAgent(a, n) \/ ExitWorker(a, n)
               \/ WriteDescriptor(a, n)
        PROVE  Goal
    BY <1>2, <2>6 DEF CommitCheckpoint, StopWorker, HeartbeatStop, DeadlineStop, Release,
                      SettleAttempt, RequeueAgent, ExitWorker, WriteDescriptor
  <2> QED BY <1>6, <2>1, <2>2, <2>3, <2>4, <2>5, <2>6 DEF WorkerStep
<1>7. ASSUME NEW n \in Tokens, MainStep(n) PROVE Goal
  BY <1>2, <1>7, MainFrame
<1>8. ASSUME NEW e \in Engines, Recovery(e) PROVE Goal
  BY <1>2, <1>8, RecoveryFrame
<1> QED BY <1>4, <1>5, <1>6, <1>7, <1>8 DEF Next, Goal
\* Nobody but a recovery engine moves a recovery engine.
LEMMA EngineFrame ==
  ASSUME Next, \A e \in Engines : ~Recovery(e)
  PROVE  UNCHANGED engine
<1>1. ASSUME NEW a \in Agents, NEW host, ClaimAttempt(a, host) \/ LeaseExpires(a) PROVE UNCHANGED engine
  BY <1>1 DEF ClaimAttempt, LeaseExpires
<1>2. ASSUME NEW a \in Agents, NEW n \in Tokens, WorkerStep(a, n) PROVE UNCHANGED engine
  BY <1>2
  DEF WorkerStep, StartOperation, FinishOperation, MarkOutcomeUnknown, DropResult, CommitCheckpoint,
      MessageAgent, ReportDispatch, FinalizeSettled, StopWorker, HeartbeatStop, DeadlineStop, Release,
      SettleAttempt, RequeueAgent, ExitWorker, CrashWorker, WriteDescriptor
<1> QED BY <1>1, <1>2, ControlFrame, MainFrame DEF Next

\* A step of one engine leaves the recover() calls of the others alone.
LEMMA EngineMoves ==
  ASSUME TypeOK, NEW e \in Engines, Recovery(e), NEW f \in Engines, f # e
  PROVE  engine'[f] = engine[f]
BY DEF Recovery, VerifyStopped, Stopped, BeginRecovery, FinishRecovery, CrashEngine, TypeOK

\* Every step keeps the verdicts of the engines that have begun a recovery true.
LEMMA VerdictNext ==
  ASSUME TypeOK, WriteAheadJournal, LeasePart, VerdictPart, [Next]_vars
  PROVE  VerdictPart'
<1>1. CASE UNCHANGED vars
  BY <1>1 DEF vars, VerdictPart, RecoveringIsRevoked, VerdictStands, Unresolved
<1>2. CASE Next
  <2>1. ASSUME NEW b \in Agents, agent'[b] = "recovering", agent[b] = "recovering"
        PROVE  lease'[b] = "revoked"
    <3>1. \A host : ~ClaimAttempt(b, host)
      BY <2>1 DEF ClaimAttempt, Claimable, TypeOK
    <3> QED BY <1>2, <2>1, <3>1, RevokedStays DEF VerdictPart, RecoveringIsRevoked
  <2>2. \A f \in Engines : engine[f].agent \in Agents
    BY DEF TypeOK
  <2>3. ASSUME NEW e \in Engines, BeginRecovery(e), lease[engine[e].agent] = "expired"
        PROVE  VerdictPart'
    <3> DEFINE a == engine[e].agent
    <3>1. /\ lease' = [lease EXCEPT ![a] = "revoked"]
          /\ agent' = [agent EXCEPT ![a] = "recovering"]
          /\ UNCHANGED journal
      BY <2>3 DEF BeginRecovery
    <3>2. engine'[e].agent = a /\ engine'[e].safe = RecoverySafe(a)
      BY <2>3 DEF BeginRecovery, TypeOK
    <3>3. RecoveringIsRevoked'
      BY <2>1, <2>2, <3>1 DEF RecoveringIsRevoked, TypeOK
    <3>4. engine'[e].safe => Unresolved(a) = {}
      BY <3>2 DEF RecoverySafe
    <3>5. ASSUME NEW f \in Engines, f # e, engine[f].phase = "begun"
          PROVE  engine'[f] = engine[f] /\ engine[f].agent # a
      <4>1. engine[f].agent # a
        BY <2>3, <3>5, StopProof DEF LeasePart, LateFindsNothing
      <4> QED BY <2>3, <3>5, <4>1, EngineMoves DEF Recovery
    <3>6. ASSUME NEW f \in Engines, f # e, engine'[f].phase = "begun"
          PROVE  engine'[f] = engine[f] /\ engine[f].agent # a /\ agent'[engine[f].agent] = agent[engine[f].agent]
      <4>1. engine'[f] = engine[f]
        BY <2>3, <3>6, EngineMoves DEF Recovery
      <4> QED BY <2>2, <3>1, <3>5, <3>6, <4>1 DEF TypeOK
    <3>7. VerdictStands'
      BY <3>1, <3>2, <3>4, <3>6 DEF VerdictPart, VerdictStands, Unresolved
    <3> QED BY <3>3, <3>7 DEF VerdictPart
  <2>4. CASE \A e \in Engines : BeginRecovery(e) => lease[engine[e].agent] # "expired"
    <3>1. \A b \in Agents : agent'[b] = "recovering" => agent[b] = "recovering"
      <4>1. CASE \E e \in Engines : BeginRecovery(e)
        BY <2>4, <4>1 DEF BeginRecovery
      <4>2. CASE ~(\E e \in Engines : BeginRecovery(e))
        BY <1>2, <4>2, OnlyBeginEnters
      <4> QED BY <4>1, <4>2
    <3>2. RecoveringIsRevoked'
      BY <2>1, <3>1 DEF RecoveringIsRevoked
    <3>3. ASSUME NEW f \in Engines, engine'[f].phase = "begun" PROVE engine'[f] = engine[f]
      <4>1. CASE \E e \in Engines : Recovery(e)
        <5>1. PICK e \in Engines : Recovery(e)
          BY <4>1
        <5>2. engine'[e].phase # "begun"
          BY <2>4, <5>1
          DEF Recovery, VerifyStopped, Stopped, BeginRecovery, FinishRecovery, CrashEngine, Idle, TypeOK
        <5> QED BY <3>3, <5>1, <5>2, EngineMoves
      <4>2. CASE \A e \in Engines : ~Recovery(e)
        BY <1>2, <4>2, EngineFrame
      <4> QED BY <4>1, <4>2
    <3>4. ASSUME NEW f \in Engines, engine'[f].phase = "begun", engine'[f].safe,
                 agent'[engine'[f].agent] = "recovering"
          PROVE  {op \in journal'[engine'[f].agent] : op.kind # "read_only"} = {}
      <4>1. engine'[f] = engine[f] /\ engine[f].agent \in Agents
        BY <2>2, <3>3, <3>4
      <4>2. agent[engine[f].agent] = "recovering"
        BY <3>1, <3>4, <4>1
      <4>3. lease[engine[f].agent] = "revoked" /\ Unresolved(engine[f].agent) = {}
        BY <3>4, <4>1, <4>2 DEF VerdictPart, RecoveringIsRevoked, VerdictStands
      <4>4. \A b \in Agents : lease[b] = "revoked" /\ Unresolved(b) = {} => Unresolved(b)' = {}
        BY <1>2, ResolvedStays
      <4> QED BY <4>1, <4>3, <4>4 DEF Unresolved
    <3>5. VerdictStands'
      BY <3>4 DEF VerdictStands, Unresolved
    <3> QED BY <3>2, <3>5 DEF VerdictPart
  <2> QED BY <2>3, <2>4
<1> QED BY <1>1, <1>2

\* No recovery has begun on a created Task.
LEMMA VerdictInit == Init => VerdictPart
BY DEF Init, VerdictPart, RecoveringIsRevoked, VerdictStands, Idle

\* When recover() calls are prompt, the verdict recover() reaches in beginRecovery is
\* still true when finishRecovery acts on it: no Agent goes back to the queue
\* with an unresolved side effect or provider request.
THEOREM RequeueIsSafe ==
  ASSUME Prompt
  PROVE  Spec => SafeRequeue
<1> DEFINE Step == \A e \in Engines :
             LET a == engine[e].agent IN
             engine[e].phase = "begun" /\ engine'[e].phase = "idle"
               /\ agent[a] = "recovering" /\ agent'[a] = "queued" => Unresolved(a) = {}
           Inv == TypeOK /\ WriteAheadJournal /\ LeasePart /\ VerdictPart
<1>1. Init => Inv
  BY InitType, LeaseInit, VerdictInit DEF Init, WriteAheadJournal, Operations, Tools
<1>2. Inv /\ [Next]_vars => Inv'
  BY Prompt, NextType, JournalNext, LeaseNext, VerdictNext
<1>3. Inv /\ [Next]_vars => [Step]_vars
  <2> SUFFICES ASSUME Inv, Next, NEW e \in Engines, engine[e].phase = "begun",
                      engine'[e].phase = "idle", agent[engine[e].agent] = "recovering",
                      agent'[engine[e].agent] = "queued"
               PROVE  Unresolved(engine[e].agent) = {}
    OBVIOUS
  <2> DEFINE a == engine[e].agent
  <2>1. a \in Agents
    BY DEF TypeOK
  <2>2. Recovery(e)
    <3>1. PICK f \in Engines : Recovery(f)
      BY EngineFrame
    <3>2. f = e
      BY <3>1, EngineMoves
    <3> QED BY <3>1, <3>2
  <2>3. FinishRecovery(e)
    BY <2>1, <2>2 DEF Recovery, VerifyStopped, Stopped, BeginRecovery, CrashEngine
  <2>4. engine[e].safe
    BY <2>1, <2>3 DEF FinishRecovery, TypeOK
  <2> QED BY <2>4 DEF VerdictPart, VerdictStands
<1> QED BY <1>1, <1>2, <1>3, PTL DEF Spec, SafeRequeue
-----------------------------------------------------------------------------
(* Dispatches and the end of the Task                                      *)

\* What one step may do to the Dispatch of an Agent: leave it, start it by a
\* claim, settle it while it is queued or running, or create it.
DispatchStep(a) ==
  \/ dispatch'[a] = dispatch[a] /\ token'[a] = token[a]
  \/ dispatch[a] \in {"queued", "running"} /\ task \notin Terminal
  \/ agent[a] = "absent" /\ task \notin Terminal /\ agent'[a] = "queued"

\* transitionTask starts from a Task that is not terminal.
LEMMA TransitionFromActive ==
  ASSUME TypeOK, NEW next, TransitionTask(next)
  PROVE  task \notin Terminal
<1>1. TaskTransitions["completed"] = {} /\ TaskTransitions["failed"] = {}
  BY DEF TaskTransitions
<1>2. TaskTransitions["cancelled"] = {}
  BY DEF TaskTransitions
<1> QED BY <1>1, <1>2 DEF TransitionTask, Terminal

\* What any step may do to a Dispatch: a settled one is left alone.
LEMMA EveryDispatchStep ==
  ASSUME TypeOK, TerminalTaskIsSettled, Next, NEW b \in Agents
  PROVE  DispatchStep(b)
<1>1. ASSUME UNCHANGED <<dispatch, token>> PROVE DispatchStep(b)
  BY <1>1 DEF DispatchStep
<1>2. ASSUME NEW next, TransitionTask(next), UNCHANGED token PROVE DispatchStep(b)
  BY <1>2, TransitionFromActive DEF DispatchStep, TransitionTask, TypeOK
<1>3. CASE Control
  <2>1. CASE Submit \/ Pause \/ Resume \/ Cancel \/ AskUser
    BY <1>2, <2>1 DEF Submit, Pause, Resume, Cancel, AskUser
  <2>2. ASSUME NEW a \in Agents, NEW next, ControlSubagent(a, next) PROVE DispatchStep(b)
    BY <2>2 DEF ControlSubagent, DispatchStep, TypeOK, TerminalTaskIsSettled
  <2>3. ASSUME NEW a, WorkerFailed(a) PROVE DispatchStep(b)
    BY <1>1, <2>3 DEF WorkerFailed
  <2>4. ASSUME NEW passed, RecordAcceptance(passed) PROVE DispatchStep(b)
    BY <1>1, <2>4 DEF RecordAcceptance
  <2>5. ASSUME NEW a, StartWorker(a) PROVE DispatchStep(b)
    BY <1>1, <2>5 DEF StartWorker
  <2> QED BY <1>3, <2>1, <2>2, <2>3, <2>4, <2>5 DEF Control
<1>4. ASSUME NEW a \in Agents, NEW host, ClaimAttempt(a, host) PROVE DispatchStep(b)
  BY <1>4 DEF ClaimAttempt, Claimable, DispatchStep, TypeOK, Terminal
<1>5. ASSUME NEW a \in Agents, LeaseExpires(a) PROVE DispatchStep(b)
  BY <1>1, <1>5 DEF LeaseExpires
<1>6. ASSUME NEW a \in Agents, NEW n \in Tokens, WorkerStep(a, n) PROVE DispatchStep(b)
  <2>1. ASSUME NEW kind, StartOperation(a, n, kind) PROVE DispatchStep(b)
    BY <1>1, <2>1 DEF StartOperation
  <2>2. ASSUME NEW c, MessageAgent(a, n, c) PROVE DispatchStep(b)
    BY <1>1, <2>2 DEF MessageAgent
  <2>3. ASSUME NEW status, ReportDispatch(a, n, status) \/ FinalizeSettled(a, n, status)
        PROVE  DispatchStep(b)
    BY <2>3 DEF ReportDispatch, FinalizeSettled, Finalizable, DispatchStep, TypeOK
  <2>4. CASE \/ FinishOperation(a, n) \/ MarkOutcomeUnknown(a, n) \/ DropResult(a, n)
             \/ CommitCheckpoint(a, n) \/ StopWorker(a, n) \/ HeartbeatStop(a, n)
             \/ DeadlineStop(a, n) \/ SettleAttempt(a, n) \/ RequeueAgent(a, n)
             \/ ExitWorker(a, n) \/ CrashWorker(a, n) \/ WriteDescriptor(a, n)
    BY <1>1, <2>4
    DEF FinishOperation, MarkOutcomeUnknown, DropResult, CommitCheckpoint, StopWorker, HeartbeatStop,
        DeadlineStop, Release, SettleAttempt, RequeueAgent, ExitWorker, CrashWorker, WriteDescriptor
  <2> QED BY <1>6, <2>1, <2>2, <2>3, <2>4 DEF WorkerStep
<1>7. ASSUME NEW n \in Tokens, MainStep(n) PROVE DispatchStep(b)
  <2>1. ASSUME NEW next, RecordDecision(n, next) PROVE DispatchStep(b)
    BY <1>1, <2>1 DEF RecordDecision
  <2>2. CASE ApplyDecision(n)
    BY <1>1, <1>2, <2>2 DEF ApplyDecision
  <2>3. ASSUME NEW next, TaskUpdate(n, next) PROVE DispatchStep(b)
    BY <1>2, <2>3 DEF TaskUpdate
  <2>4. ASSUME NEW a \in Agents, CreateDelegation(n, a) PROVE DispatchStep(b)
    BY <2>4 DEF CreateDelegation, DispatchStep, TypeOK
  <2> QED BY <1>7, <2>1, <2>2, <2>3, <2>4 DEF MainStep
<1>8. ASSUME NEW e \in Engines, Recovery(e) PROVE DispatchStep(b)
  BY <1>1, <1>8, RecoveryFrame
<1> QED BY <1>3, <1>4, <1>5, <1>6, <1>7, <1>8 DEF Next
\* A Task becomes terminal in transitionTask and nowhere else.
LEMMA OnlyTransitionEnds ==
  ASSUME TypeOK, Next
  PROVE  task' \notin Terminal \/ task' = task \/ \E next : TransitionTask(next)
<1> DEFINE Goal == task' \notin Terminal \/ task' = task \/ \E next : TransitionTask(next)
<1>1. ASSUME Control PROVE Goal
  BY <1>1 DEF Control, Submit, Pause, Resume, Cancel, AskUser, ControlSubagent, WorkerFailed,
              StartWorker, RecordAcceptance, Terminal
<1>2. ASSUME NEW a \in Agents, NEW host, ClaimAttempt(a, host) \/ LeaseExpires(a) PROVE Goal
  BY <1>2 DEF ClaimAttempt, LeaseExpires, Terminal
<1>3. ASSUME NEW a \in Agents, NEW n \in Tokens, WorkerStep(a, n) PROVE Goal
  <2>1. CASE MarkOutcomeUnknown(a, n)
    BY <2>1 DEF MarkOutcomeUnknown, Terminal
  <2>2. CASE ~MarkOutcomeUnknown(a, n)
    BY <1>3, <2>2
    DEF WorkerStep, StartOperation, FinishOperation, DropResult, CommitCheckpoint, MessageAgent,
        ReportDispatch, FinalizeSettled, StopWorker, HeartbeatStop, DeadlineStop, Release,
        SettleAttempt, RequeueAgent, ExitWorker, CrashWorker, WriteDescriptor
  <2> QED BY <2>1, <2>2
<1>4. ASSUME NEW n \in Tokens, MainStep(n) PROVE Goal
  BY <1>4 DEF MainStep, RecordDecision, ApplyDecision, TaskUpdate, CreateDelegation
<1>5. ASSUME NEW e \in Engines, Recovery(e) PROVE Goal
  BY <1>5 DEF Recovery, VerifyStopped, Stopped, BeginRecovery, FinishRecovery, CrashEngine, Terminal
<1> QED BY <1>1, <1>2, <1>3, <1>4, <1>5 DEF Next

\* Every step keeps a terminal Task settled.
LEMMA SettledNext == TypeOK /\ TerminalTaskIsSettled /\ [Next]_vars => TerminalTaskIsSettled'
<1> SUFFICES ASSUME TypeOK, TerminalTaskIsSettled, [Next]_vars PROVE TerminalTaskIsSettled'
  OBVIOUS
<1>1. CASE UNCHANGED vars
  BY <1>1 DEF vars, TerminalTaskIsSettled
<1>2. CASE Next
  <2>1. CASE task' \notin Terminal
    BY <2>1 DEF TerminalTaskIsSettled, Terminal
  <2>2. CASE task' = task /\ task \in Terminal
    <3>1. \A a \in Agents : dispatch'[a] = dispatch[a]
      BY <1>2, <2>2, EveryDispatchStep DEF DispatchStep, TerminalTaskIsSettled
    <3> QED BY <2>2, <3>1, RequiredAssumption DEF TerminalTaskIsSettled
  <2>3. ASSUME NEW next, TransitionTask(next) PROVE TerminalTaskIsSettled'
    BY <2>3, RequiredAssumption
    DEF TransitionTask, CompletionReady, TerminalTaskIsSettled, TypeOK, Terminal
  <2> QED BY <1>2, <2>1, <2>2, <2>3, OnlyTransitionEnds
<1> QED BY <1>1, <1>2

\* A created Task is not terminal.
LEMMA SettledInit == Init => TerminalTaskIsSettled /\ AbsentIsUndispatched
BY DEF Init, TerminalTaskIsSettled, AbsentIsUndispatched, Terminal

\* A completed Task has every required Delegation completed, and a terminal
\* Task has no Dispatch left that a Worker could claim.
THEOREM TaskEndSettles == Spec => []TerminalTaskIsSettled
BY InitType, NextType, SettledInit, SettledNext, PTL DEF Spec

\* Every step keeps an Agent that was not created without a Dispatch.
LEMMA AbsentNext ==
  TypeOK /\ TerminalTaskIsSettled /\ AbsentIsUndispatched /\ [Next]_vars => AbsentIsUndispatched'
<1> SUFFICES ASSUME TypeOK, TerminalTaskIsSettled, AbsentIsUndispatched, [Next]_vars
             PROVE  AbsentIsUndispatched'
  OBVIOUS
<1>1. CASE UNCHANGED vars
  BY <1>1 DEF vars, AbsentIsUndispatched
<1>2. CASE Next
  <2>1. ASSUME NEW a \in Agents, agent'[a] = "absent" PROVE dispatch'[a] = "absent"
    <3>1. agent[a] = "absent"
      BY <1>2, <2>1, OnlyBeginEnters
    <3> QED BY <1>2, <2>1, <3>1, EveryDispatchStep DEF DispatchStep, AbsentIsUndispatched
  <2> QED BY <2>1 DEF AbsentIsUndispatched
<1> QED BY <1>1, <1>2

\* Reports, settled Turns, cancellations and the end of the Task compete for a
\* Dispatch: the first one settles it, and it gets no further Attempt.
THEOREM DispatchSettledForGood == Spec => DispatchSettlesOnce
<1> DEFINE Inv == TypeOK /\ TerminalTaskIsSettled /\ AbsentIsUndispatched
           Step == \A a \in Agents : dispatch[a] \in Terminal =>
                     dispatch'[a] = dispatch[a] /\ token'[a] = token[a]
<1>1. Init => Inv
  BY InitType, SettledInit
<1>2. Inv /\ [Next]_vars => Inv'
  BY NextType, SettledNext, AbsentNext
<1>3. Inv /\ [Next]_vars => [Step]_vars
  BY EveryDispatchStep DEF DispatchStep, AbsentIsUndispatched, Terminal
<1> QED BY <1>1, <1>2, <1>3, PTL DEF Spec, DispatchSettlesOnce
-----------------------------------------------------------------------------
\* When recover() calls are prompt, the parts hold together in every reachable state.
THEOREM ExecutionInvariant ==
  ASSUME Prompt
  PROVE  Spec => []ExecutionInv
<1> DEFINE Inv == /\ TypeOK /\ WriteAheadJournal /\ LeasePart /\ VerdictPart
                  /\ TerminalTaskIsSettled /\ AbsentIsUndispatched
<1>1. Init => Inv
  BY InitType, LeaseInit, VerdictInit, SettledInit DEF Init, WriteAheadJournal, Operations, Tools
<1>2. Inv /\ [Next]_vars => Inv'
  BY Prompt, NextType, JournalNext, LeaseNext, VerdictNext, SettledNext, AbsentNext
<1>3. Inv => ExecutionInv
  BY DEF LeasePart, VerdictPart, ExecutionInv
<1> QED BY <1>1, <1>2, <1>3, PTL DEF Spec

-----------------------------------------------------------------------------
(* A lease that is lost                                                    *)

\* Nothing but beginRecovery ends the expiry of a lease: it is not renewed, not
\* released and not claimed, and it is revoked only once its process is gone.
ExpiryEnds(a) ==
  lease[a] = "expired" /\ lease'[a] # "expired" =>
    lease'[a] = "revoked" /\ pc[a][token[a]] = "exited"

\* Every step that touches a lease, seen from an expired one.
LEMMA ExpiryStep ==
  ASSUME TypeOK, LeasePart, [Next]_vars, NEW a \in Agents
  PROVE  ExpiryEnds(a)
<1>1. CASE UNCHANGED lease
  BY <1>1 DEF ExpiryEnds
<1>2. ASSUME NEW b \in Agents, NEW host, ClaimAttempt(b, host) \/ LeaseExpires(b) PROVE ExpiryEnds(a)
  BY <1>2 DEF ClaimAttempt, Claimable, LeaseExpires, ExpiryEnds, TypeOK
<1>3. ASSUME NEW b \in Agents, NEW n \in Tokens, Release(b, n) PROVE ExpiryEnds(a)
  BY <1>3 DEF Release, Holds, ExpiryEnds, TypeOK
<1>4. ASSUME NEW e \in Engines, BeginRecovery(e) PROVE ExpiryEnds(a)
  <2>1. CASE engine[e].agent = a /\ lease[a] = "expired"
    <3>1. pc[a][token[a]] = "exited"
      BY <1>4, <2>1, StopProof, SMT DEF BeginRecovery, LeasePart, LateFindsNothing
    <3> QED BY <1>4, <2>1, <3>1 DEF BeginRecovery, ExpiryEnds, TypeOK
  <2>2. CASE ~(engine[e].agent = a /\ lease[a] = "expired")
    BY <1>4, <2>2 DEF BeginRecovery, ExpiryEnds, TypeOK
  <2> QED BY <2>1, <2>2
<1>5. ASSUME NEW b \in Agents, NEW n \in Tokens, WorkerStep(b, n)
      PROVE  UNCHANGED lease \/ Release(b, n)
  BY <1>5
  DEF WorkerStep, StartOperation, FinishOperation, MarkOutcomeUnknown, DropResult, CommitCheckpoint,
      MessageAgent, ReportDispatch, FinalizeSettled, StopWorker, HeartbeatStop, DeadlineStop,
      SettleAttempt, RequeueAgent, ExitWorker, CrashWorker, WriteDescriptor
<1>6. ASSUME NEW n \in Tokens, MainStep(n) PROVE UNCHANGED lease
  BY <1>6, MainFrame
<1>7. ASSUME NEW e \in Engines, Recovery(e) PROVE UNCHANGED lease \/ BeginRecovery(e)
  BY <1>7 DEF Recovery, VerifyStopped, Stopped, FinishRecovery, CrashEngine
<1> QED BY <1>1, <1>2, <1>3, <1>4, <1>5, <1>6, <1>7, ControlFrame DEF Next, vars

\* recoverExpired and the heartbeat: an expired lease stays expired until
\* recovery revokes it, after the process that held it is gone, and a Worker
\* that has lost its lease never holds it again.  The safety half of
\* StaleWorkerStops and ExpiredLeaseIsRevoked.
THEOREM LostLeaseStaysLost ==
  ASSUME Prompt
  PROVE  Spec => [][/\ \A a \in Agents : ExpiryEnds(a)
                    /\ \A a \in Agents, n \in Tokens :
                         Attached(a, n) /\ ~Holds(a, n) => ~Holds(a, n)']_vars
<1> DEFINE Step == /\ \A a \in Agents : ExpiryEnds(a)
                   /\ \A a \in Agents, n \in Tokens :
                        Attached(a, n) /\ ~Holds(a, n) => ~Holds(a, n)'
<1>1. ASSUME ExecutionInv, [Next]_vars PROVE Step
  <2>1. \A a \in Agents : ExpiryEnds(a)
    BY <1>1, ExpiryStep DEF ExecutionInv, LeasePart
  <2>2. ASSUME NEW a \in Agents, NEW n \in Tokens, Attached(a, n), ~Holds(a, n)
        PROVE  ~Holds(a, n)'
    <3>1. lease[a] = "expired"
      BY <1>1, <2>2 DEF ExecutionInv, OnlyHolderAttached, Holds
    <3>2. lease'[a] # "live"
      BY <2>1, <3>1 DEF ExpiryEnds
    <3> QED BY <3>2 DEF Holds
  <2> QED BY <2>1, <2>2
<1>2. ExecutionInv /\ [Next]_vars => [Step]_vars
  BY <1>1
<1>3. Spec => []ExecutionInv
  BY Prompt, ExecutionInvariant
<1> QED BY <1>2, <1>3, PTL DEF Spec
=============================================================================
