--------------------------- MODULE TurnLoopProofs ---------------------------
(***************************************************************************)
(* Proofs about TurnLoop, for any criteria, policy and number of turns: a  *)
(* Task only completes when its completion was requested and everything    *)
(* assertCompletionReady asks for holds, the turns of the Task stay within *)
(* its budget and the automatic prompts of an Attempt within the policy,   *)
(* and an automatic Turn never ends with nothing to follow it.             *)
(*                                                                         *)
(* assertCompletionReady does not ask whether completion was requested.    *)
(* That rests on the decision (VerdictSound), which evaluate() takes from  *)
(* a Task state read two steps before the transition: a Task read as       *)
(* completed still is, because no transition leaves `completed`.           *)
(***************************************************************************)
EXTENDS TurnLoop, FiniteSetTheorems, TLAPS

-----------------------------------------------------------------------------
(* The inductive invariant                                                 *)

Types ==
  /\ task \in TaskStates
  /\ index \in 0..MaxIndex /\ turns \in 0..MaxTurns
  /\ checkpoint \in {None} \cup 0..MaxIndex
  /\ decisions \in [0..MaxIndex -> {None} \cup [action : Actions, print : Prints \cup {None}]]
  /\ progress \in Prints \cup {None} /\ reported \in Prints \cup {None}

\* Operations belong to a Turn, and a request in flight has its turn reserved.
OpSound ==
  /\ op # "none" => phase = "turn"
  /\ op = "request" => (turns < MaxTurns /\ index < MaxIndex)

\* What the handler of a settled Turn has read or recorded is still good.
VerdictSound ==
  /\ (phase = "read" /\ read = "completed") => task = "completed"
  /\ phase = "decided" => decisions[index].action \in Actions
  /\ (phase = "decided" /\ decisions[index].action = "complete") => (requested \/ task = "completed")

LoopInv == Types /\ OpSound /\ VerdictSound

-----------------------------------------------------------------------------
(* Transitions and decisions                                               *)

\* TASK_TRANSITIONS: nothing follows `completed`, and every target is a state.
LEMMA TransitionFacts ==
  ASSUME task \in TaskStates, NEW next, TransitionTask(next)
  PROVE  task # "completed" /\ task' = next /\ next \in TaskStates
<1>1. TaskTransitions[task] \subseteq TaskStates /\ TaskTransitions["completed"] = {}
  BY DEF TaskTransitions, TaskStates, Terminal
<1> QED BY <1>1 DEF TransitionTask, Legal

\* decideContinuation completes a Task only when asked to, or when it is completed.
LEMMA DecideFacts ==
  ASSUME NEW t
  PROVE  Decide(t) \in Actions /\ (Decide(t) = "complete" => (t = "completed" \/ requested))
BY DEF Decide, Actions

\* Steps after which no handler of a settled Turn is under way, or that leave it
\* alone while the Task is not completed by accident.
LEMMA VerdictKept ==
  ASSUME LoopInv,
         phase' \in {"read", "decided"} =>
           (phase' = phase /\ UNCHANGED <<read, decisions, index, requested>>),
         task = "completed" => task' = "completed"
  PROVE  VerdictSound'
BY DEF LoopInv, VerdictSound
-----------------------------------------------------------------------------
(* Steps                                                                   *)

LEMMA TurnKeeps ==
  ASSUME LoopInv, Turn
  PROVE  LoopInv'
<1>1. phase = "turn"
  BY DEF Turn, StartRequest, FinishRequest, RefuseRequest, EndRun, Compact, StartTool, FinishTool,
         ReportProgress, UpdateTask, RequestCompletion, CheckCriterion, Delegate, LoopInv, OpSound
<1>2. CASE StartRequest \/ EndRun \/ FinishTool \/ (\E kind \in {"read_only", "update"} : StartTool(kind))
           \/ Delegate \/ RequestCompletion \/ (\E c \in Criteria, ok \in BOOLEAN : CheckCriterion(c, ok))
  <2>1. Types'
    BY <1>2 DEF StartRequest, EndRun, FinishTool, StartTool, Delegate, RequestCompletion, CheckCriterion,
                store, LoopInv, Types
  <2>2. OpSound'
    BY <1>1, <1>2 DEF StartRequest, EndRun, FinishTool, StartTool, Delegate, RequestCompletion,
                      CheckCriterion, store, LoopInv, OpSound
  <2>3. phase' \notin {"read", "decided"} /\ task' = task
    BY <1>1, <1>2 DEF StartRequest, EndRun, FinishTool, StartTool, Delegate, RequestCompletion,
                      CheckCriterion
  <2> QED BY <2>1, <2>2, <2>3, VerdictKept DEF LoopInv
<1>3. CASE FinishRequest \/ RefuseRequest \/ (\E k \in 0..MaxIndex : Compact(k))
           \/ (\E p \in Prints : ReportProgress(p))
  <2>1. Types'
    <3>1. CASE FinishRequest
      <4>1. turns + 1 \in 0..MaxTurns /\ index + 1 \in 0..MaxIndex
        BY <3>1, PolicyAssumption, BoundAssumption DEF FinishRequest, LoopInv, Types, OpSound
      <4> QED BY <3>1, <4>1 DEF FinishRequest, LoopInv, Types
    <3>2. CASE RefuseRequest
      BY <3>2, BoundAssumption DEF RefuseRequest, store, LoopInv, Types
    <3>3. ASSUME NEW k \in 0..MaxIndex, Compact(k) PROVE Types'
      BY <3>3, PolicyAssumption DEF Compact, LoopInv, Types
    <3>4. ASSUME NEW p \in Prints, ReportProgress(p) PROVE Types'
      BY <3>4 DEF ReportProgress, LoopInv, Types
    <3> QED BY <1>3, <3>1, <3>2, <3>3, <3>4
  <2>2. OpSound'
    BY <1>1, <1>3 DEF FinishRequest, RefuseRequest, Compact, ReportProgress, LoopInv, OpSound
  <2>3. phase' \notin {"read", "decided"} /\ task' = task
    BY <1>1, <1>3 DEF FinishRequest, RefuseRequest, Compact, ReportProgress
  <2> QED BY <2>1, <2>2, <2>3, VerdictKept DEF LoopInv
<1>4. ASSUME NEW next, NEW w, UpdateTask(next, w) PROVE LoopInv'
  <2>1. UNCHANGED <<store, phase, index>> /\ op' = "updated"
    BY <1>4 DEF UpdateTask
  <2>2. task' = task \/ TransitionTask(next)
    BY <1>4 DEF UpdateTask
  <2>3. task' \in TaskStates /\ (task = "completed" => task' = "completed")
    BY <2>2, TransitionFacts DEF LoopInv, Types
  <2>4. Types'
    BY <2>1, <2>3 DEF LoopInv, Types, store
  <2>5. OpSound'
    BY <1>1, <2>1 DEF OpSound
  <2> QED BY <1>1, <2>1, <2>3, <2>4, <2>5, VerdictKept DEF LoopInv
<1> QED BY <1>2, <1>3, <1>4 DEF Turn

\* The three steps of the handler of a settled Turn.
LEMMA SettleKeeps ==
  ASSUME LoopInv, Settle
  PROVE  LoopInv'
<1>1. CASE ReadTask
  <2>1. op = "none"
    BY <1>1 DEF ReadTask, LoopInv, OpSound
  <2> QED BY <1>1, <2>1 DEF ReadTask, LoopInv, Types, OpSound, VerdictSound
<1>2. CASE RecordDecision
  <2> DEFINE d == [action |-> Decide(read), print |-> progress]
  <2>1. op = "none" /\ UNCHANGED <<task, turns, requested, checkpoint, reported, progress, op, index>>
    BY <1>2 DEF RecordDecision, LoopInv, OpSound
  <2>2. CASE phase' = "idle" /\ UNCHANGED decisions
    BY <2>1, <2>2 DEF LoopInv, Types, OpSound, VerdictSound
  <2>3. CASE phase' = "decided" /\ decisions' = [decisions EXCEPT ![index] = d]
    <3>1. /\ d \in [action : Actions, print : Prints \cup {None}]
          /\ d.action = "complete" => (read = "completed" \/ requested)
      BY DecideFacts DEF LoopInv, Types
    <3> HIDE DEF d
    <3>2. /\ decisions'[index] = d
          /\ decisions' \in [0..MaxIndex -> {None} \cup [action : Actions, print : Prints \cup {None}]]
      BY <2>3, <3>1 DEF LoopInv, Types
    <3>3. Types' /\ OpSound'
      BY <2>1, <3>2 DEF LoopInv, Types, OpSound
    <3>4. VerdictSound'
      BY <1>2, <2>1, <2>3, <3>1, <3>2 DEF RecordDecision, LoopInv, VerdictSound
    <3> QED BY <3>3, <3>4 DEF LoopInv
  <2> QED BY <1>2, <2>2, <2>3 DEF RecordDecision
<1>3. CASE ApplyDecision
  <2>1. op = "none" /\ phase' = "idle" /\ UNCHANGED <<store, op, index>>
    BY <1>3 DEF ApplyDecision, LoopInv, OpSound
  <2>2. task' = task \/ \E next : TransitionTask(next)
    BY <1>3 DEF ApplyDecision
  <2>3. task' \in TaskStates /\ (task = "completed" => task' = "completed")
    BY <2>2, TransitionFacts DEF LoopInv, Types
  <2>4. Types' /\ OpSound'
    BY <2>1, <2>3 DEF LoopInv, Types, OpSound, store
  <2> QED BY <2>1, <2>3, <2>4, VerdictKept DEF LoopInv
<1> QED BY <1>1, <1>2, <1>3 DEF Settle

\* Prompts, starts, stops, crashes and recovery.
LEMMA HostKeeps ==
  ASSUME LoopInv, Continuation \/ Daemon \/ HeartbeatStop \/ Crash
  PROVE  LoopInv'
<1>1. CASE PromptContinuation \/ ExitWorker \/ HeartbeatStop \/ Crash
  <2>1. /\ UNCHANGED <<task, store, index>>
        /\ phase' \in {"read", "decided"} => (phase' = phase /\ UNCHANGED read)
    BY <1>1 DEF PromptContinuation, ExitWorker, HeartbeatStop, Crash
  <2>2. Types'
    BY <2>1 DEF LoopInv, Types, store
  <2>3. OpSound'
    BY <1>1, <2>1 DEF PromptContinuation, ExitWorker, HeartbeatStop, Crash, LoopInv, OpSound, store
  <2> QED BY <2>1, <2>2, <2>3, VerdictKept DEF LoopInv, store
<1>2. CASE PromptFails \/ Recover
  <2>1. /\ UNCHANGED <<store, op, index, read>>
        /\ phase' \in {"read", "decided"} => phase' = phase
        /\ task' = task \/ \E next : TransitionTask(next)
        /\ op # "none" => phase' = phase
    BY <1>2 DEF PromptFails, Recover, LoopInv, OpSound
  <2>2. task' \in TaskStates /\ (task = "completed" => task' = "completed")
    BY <2>1, TransitionFacts DEF LoopInv, Types
  <2>3. Types' /\ OpSound'
    BY <2>1, <2>2 DEF LoopInv, Types, OpSound, store
  <2> QED BY <2>1, <2>2, <2>3, VerdictKept DEF LoopInv, store
<1>3. CASE StartWorker
  <2>1. Types'
    BY <1>3 DEF StartWorker, LoopInv, Types, TaskStates
  <2>2. OpSound'
    BY <1>3 DEF StartWorker, LoopInv, OpSound
  <2>3. phase' \notin {"read", "decided"} /\ task # "completed"
    BY <1>3 DEF StartWorker
  <2> QED BY <2>1, <2>2, <2>3, VerdictKept DEF LoopInv
<1>4. CASE StopWorker
  <2>1. turns' \in 0..MaxTurns /\ index' \in 0..MaxIndex
    BY <1>4, PolicyAssumption DEF StopWorker, LoopInv, Types, OpSound
  <2>2. Types'
    BY <1>4, <2>1 DEF StopWorker, LoopInv, Types
  <2>3. OpSound' /\ phase' \notin {"read", "decided"} /\ task' = task
    BY <1>4 DEF StopWorker, LoopInv, OpSound
  <2> QED BY <2>2, <2>3, VerdictKept DEF LoopInv
<1> QED BY <1>1, <1>2, <1>3, <1>4 DEF Continuation, Daemon

\* The user, the subagent and time.
LEMMA OthersKeep ==
  ASSUME LoopInv, User \/ TimePasses \/ Sub
  PROVE  LoopInv'
<1>1. ASSUME NEW next, UserTransitions(next) PROVE LoopInv'
  <2>1. /\ UNCHANGED <<store, op, index, read>> /\ TransitionTask(next)
        /\ phase' \in {"read", "decided"} => phase' = phase
        /\ op # "none" => phase' = phase
    BY <1>1 DEF UserTransitions, LoopInv, OpSound
  <2>2. task' \in TaskStates /\ (task = "completed" => task' = "completed")
    BY <2>1, TransitionFacts DEF LoopInv, Types
  <2>3. Types' /\ OpSound'
    BY <2>1, <2>2 DEF LoopInv, Types, OpSound, store
  <2> QED BY <2>1, <2>2, <2>3, VerdictKept DEF LoopInv, store
<1>2. CASE UserPrompts
  <2>1. UNCHANGED <<task, store, index>> /\ phase' = "turn" /\ op' = "prompt"
    BY <1>2 DEF UserPrompts
  <2>2. Types' /\ OpSound'
    BY <2>1 DEF LoopInv, Types, OpSound, store
  <2> QED BY <2>1, <2>2, VerdictKept DEF LoopInv
<1>3. ASSUME NEW c, UserAccepts(c) PROVE LoopInv'
  BY <1>3 DEF UserAccepts, host, LoopInv, Types, OpSound, VerdictSound
<1>4. CASE TimePasses \/ Sub
  <2>1. UNCHANGED <<store, host>> /\ (task' = task \/ (task \in {"queued", "running"} /\ task' = "running"))
    BY <1>4 DEF TimePasses, Sub, StartSub, FinishSubTool, StopSub, SubReports
  <2>2. task' \in TaskStates /\ (task = "completed" => task' = "completed")
    BY <2>1 DEF LoopInv, Types, TaskStates
  <2>3. Types' /\ OpSound'
    BY <2>1, <2>2 DEF LoopInv, Types, OpSound, store, host
  <2> QED BY <2>1, <2>2, <2>3, VerdictKept DEF LoopInv, store, host
<1> QED BY <1>1, <1>2, <1>3, <1>4 DEF User

LEMMA LoopInit == Init => LoopInv
BY PolicyAssumption, BoundAssumption DEF Init, LoopInv, Types, OpSound, VerdictSound, TaskStates

LEMMA LoopNext == LoopInv /\ [Next]_vars => LoopInv'
<1> SUFFICES ASSUME LoopInv, [Next]_vars PROVE LoopInv'
  OBVIOUS
<1>1. CASE UNCHANGED vars
  BY <1>1 DEF vars, LoopInv, Types, OpSound, VerdictSound
<1>2. CASE Next
  BY <1>2, TurnKeeps, SettleKeeps, HostKeeps, OthersKeep DEF Next
<1> QED BY <1>1, <1>2

-----------------------------------------------------------------------------
(* The theorems                                                            *)

\* The inductive invariant holds of the loop.
THEOREM LoopSound == Spec => []LoopInv
BY LoopInit, LoopNext, PTL DEF Spec

\* The completed requests of a Task, compactions included, never exceed its turn
\* budget (startProviderRequest, finishProviderRequest).
THEOREM TurnsWithinBudget == Spec => [](turns <= MaxTurns)
<1>1. LoopInv => turns <= MaxTurns
  BY PolicyAssumption DEF LoopInv, Types
<1> QED BY <1>1, LoopSound, PTL

\* A step that completes the Task is the transition of a "complete" decision.
LEMMA CompletingStep ==
  ASSUME LoopInv, [Next]_vars, task # "completed", task' = "completed"
  PROVE  requested /\ CompletionReady
<1>1. ASSUME NEW next, TransitionTask(next) PROVE next = "completed" /\ CompletionReady
  BY <1>1 DEF TransitionTask, Legal
<1>2. ApplyDecision
  <2>1. ~Turn
    BY <1>1 DEF Turn, StartRequest, FinishRequest, RefuseRequest, EndRun, Compact, StartTool, FinishTool,
         ReportProgress, UpdateTask, RequestCompletion, CheckCriterion, Delegate
  <2>2. ~(Continuation \/ Daemon \/ HeartbeatStop \/ Crash)
    BY <1>1 DEF Continuation, Daemon, HeartbeatStop, Crash, PromptContinuation, PromptFails, StartWorker,
         StopWorker, ExitWorker, Recover
  <2>3. ~(User \/ TimePasses \/ Sub)
    BY <1>1 DEF User, UserTransitions, UserPrompts, UserAccepts, TimePasses, Sub, StartSub, FinishSubTool,
         StopSub, SubReports
  <2>4. ~(ReadTask \/ RecordDecision \/ UNCHANGED vars)
    BY DEF ReadTask, RecordDecision, vars
  <2> QED BY <2>1, <2>2, <2>3, <2>4 DEF Next, Settle
<1>3. /\ phase = "decided" /\ decisions[index].action \in Actions \ Prompting
      /\ TransitionTask(Target(decisions[index].action))
  BY <1>1, <1>2 DEF ApplyDecision, LoopInv, VerdictSound
<1>4. Target(decisions[index].action) = "completed" /\ CompletionReady
  BY <1>1, <1>3
<1>5. decisions[index].action = "complete"
  BY <1>3, <1>4 DEF Target, Actions, Prompting
<1> QED BY <1>3, <1>4, <1>5 DEF LoopInv, VerdictSound

\* However evaluate(), the subagent, the user and the daemon interleave, a Task
\* only completes after its completion was requested and with everything
\* assertCompletionReady asks for (transitionTask).
THEOREM CompletedIsVerifiedAlways == Spec => CompletedIsVerified
<1>1. LoopInv /\ [Next]_vars =>
        [(task # "completed" /\ task' = "completed") =>
           /\ requested /\ passed = Criteria
           /\ sub \in {"none", "completed"} /\ ~subtool
           /\ stray \cap {"read_only", "effect"} = {}
           /\ checkpoint # None]_vars
  BY CompletingStep DEF CompletionReady
<1> QED BY <1>1, LoopSound, PTL DEF Spec, CompletedIsVerified

-----------------------------------------------------------------------------
(* The chain of automatic Turns                                            *)

Prompted == {i \in Decided : decisions[i].action \in Prompting}

\* The Attempt has had no more continuation prompts decided than the policy grants.
AutomaticTurnsLimited == Automatic <= MaxAutomatic

\* Only StartWorker, with the decisions of a new Attempt, and RecordDecision
\* change the decisions.
LEMMA DecisionsKept ==
  ASSUME [Next]_vars, ~StartWorker, ~RecordDecision
  PROVE  UNCHANGED decisions
<1>1. CASE Turn
  BY <1>1 DEF Turn, StartRequest, FinishRequest, RefuseRequest, EndRun, Compact, StartTool, FinishTool,
         ReportProgress, UpdateTask, RequestCompletion, CheckCriterion, Delegate, store
<1>2. CASE Settle
  BY <1>2 DEF Settle, ReadTask, ApplyDecision, store
<1>3. CASE Continuation \/ Daemon \/ HeartbeatStop \/ Crash
  BY <1>3 DEF Continuation, Daemon, HeartbeatStop, Crash, PromptContinuation, PromptFails,
         StopWorker, ExitWorker, Recover, store
<1>4. CASE User \/ TimePasses \/ Sub
  BY <1>4 DEF User, UserTransitions, UserPrompts, UserAccepts, TimePasses, Sub, StartSub, FinishSubTool,
         StopSub, SubReports, store
<1> QED BY <1>1, <1>2, <1>3, <1>4 DEF Next, vars

\* The indexes of the prompting decisions are finitely many.
LEMMA PromptedFinite ==
  ASSUME Types
  PROVE  IsFiniteSet(Prompted) /\ Automatic = Cardinality(Prompted) /\ Automatic \in Nat
<1>1. Prompted \subseteq 0..MaxIndex
  BY DEF Types, Prompted, Decided
<1>2. IsFiniteSet(0..MaxIndex)
  BY FS_Interval, BoundAssumption
<1>3. IsFiniteSet(Prompted) /\ Automatic = Cardinality(Prompted)
  BY <1>1, <1>2, FS_Subset DEF Automatic, Prompted
<1> QED BY <1>3, FS_CardinalityType

\* decideContinuation prompts again only within the limits.
LEMMA PromptingIsGranted ==
  ASSUME Types, NEW t, Decide(t) \in Prompting
  PROVE  Automatic < MaxAutomatic
<1>1. ~Exhausted
  BY DEF Decide, Prompting
<1> QED BY <1>1, PromptedFinite, PolicyAssumption DEF Exhausted

\* A recorded decision adds at most one prompt, and none once the limit is reached.
LEMMA RecordWithinLimit ==
  ASSUME LoopInv, AutomaticTurnsLimited, RecordDecision
  PROVE  AutomaticTurnsLimited'
<1> DEFINE d == [action |-> Decide(read), print |-> progress]
<1>1. IsFiniteSet(Prompted) /\ Automatic = Cardinality(Prompted) /\ Automatic \in Nat
  BY PromptedFinite DEF LoopInv
<1>2. Types'
  BY SettleKeeps DEF Settle, LoopInv
<1>3. IsFiniteSet(Prompted') /\ Automatic' = Cardinality(Prompted') /\ Automatic' \in Nat
  <2>1. Prompted' \subseteq 0..MaxIndex
    BY <1>2 DEF Types, Prompted, Decided
  <2>2. IsFiniteSet(0..MaxIndex)
    BY FS_Interval, BoundAssumption
  <2>3. IsFiniteSet(Prompted')
    BY <2>1, <2>2, FS_Subset
  <2>4. Automatic' = Cardinality(Prompted')
    BY DEF Automatic, Prompted
  <2> QED BY <2>3, <2>4, FS_CardinalityType
<1>4. CASE UNCHANGED decisions
  BY <1>4 DEF AutomaticTurnsLimited, Automatic, Decided
<1>5. CASE decisions[index] = None /\ decisions' = [decisions EXCEPT ![index] = d]
  <2>1. d.action = Decide(read)
    OBVIOUS
  <2> HIDE DEF d
  <2>2. \A i \in DOMAIN decisions' : i # index => decisions'[i] = decisions[i]
    BY <1>5 DEF LoopInv, Types
  <2>3. DOMAIN decisions' = DOMAIN decisions /\ decisions'[index] = d
    BY <1>5 DEF LoopInv, Types
  <2>4. Prompted' \subseteq Prompted \cup {index}
    BY <2>2, <2>3 DEF Prompted, Decided
  <2>5. Decide(read) \notin Prompting => Prompted' \subseteq Prompted
    BY <2>1, <2>2, <2>3 DEF Prompted, Decided
  <2>6. index \notin Prompted
    BY <1>5 DEF Prompted, Decided
  <2>7. CASE Decide(read) \notin Prompting
    BY <1>1, <1>3, <2>5, <2>7, FS_Subset, PolicyAssumption DEF AutomaticTurnsLimited
  <2>8. CASE Decide(read) \in Prompting
    <3>1. Automatic < MaxAutomatic
      BY <2>8, PromptingIsGranted DEF LoopInv
    <3>2. IsFiniteSet(Prompted \cup {index}) /\ Cardinality(Prompted \cup {index}) = Automatic + 1
      BY <1>1, <2>6, FS_AddElement
    <3>3. Cardinality(Prompted') <= Automatic + 1
      BY <2>4, <3>2, FS_Subset
    <3> QED BY <1>1, <1>3, <3>1, <3>3, PolicyAssumption DEF AutomaticTurnsLimited
  <2> QED BY <2>7, <2>8
<1> QED BY <1>4, <1>5 DEF RecordDecision

\* Whatever the user, the subagent and the compactions do to the indexes, an
\* Attempt gets at most maxAutomaticContinuationTurnsPerAttempt continuation
\* prompts (decideContinuation).  The safety half of AutomaticWorkStops.
THEOREM AutomaticTurnsLimitedAlways == Spec => []AutomaticTurnsLimited
<1>1. Init => AutomaticTurnsLimited
  <2> SUFFICES ASSUME Init PROVE AutomaticTurnsLimited
    OBVIOUS
  <2>1. {i \in Decided : decisions[i].action \in Prompting} = {}
    BY DEF Init, Decided
  <2>2. Automatic = 0
    BY ZenonT(60), <2>1, FS_EmptySet DEF Automatic
  <2> QED BY <2>2, PolicyAssumption DEF AutomaticTurnsLimited
<1>2. AutomaticTurnsLimited /\ StartWorker => AutomaticTurnsLimited'
  <2> SUFFICES ASSUME StartWorker PROVE AutomaticTurnsLimited'
    OBVIOUS
  <2>1. {i \in Decided' : decisions'[i].action \in Prompting} = {}
    BY DEF StartWorker, Decided
  <2>2. Automatic' = 0
    BY ZenonT(60), <2>1, FS_EmptySet DEF Automatic
  <2> QED BY <2>2, PolicyAssumption DEF AutomaticTurnsLimited
<1>3. UNCHANGED decisions /\ AutomaticTurnsLimited => AutomaticTurnsLimited'
  BY DEF AutomaticTurnsLimited, Automatic, Decided
<1>4. LoopInv /\ AutomaticTurnsLimited /\ [Next]_vars => AutomaticTurnsLimited'
  BY <1>2, <1>3, DecisionsKept, RecordWithinLimit
<1> QED BY <1>1, <1>4, LoopSound, PTL DEF Spec

-----------------------------------------------------------------------------
(* A settled Turn is followed up                                           *)

\* A Turn that has not been evaluated has a prompt that it came from.
OriginKnown ==
  phase \in {"turn", "settled", "read", "decided"} => origin \in {"first", "continuation", "user"}

LEMMA OriginNext ==
  ASSUME LoopInv, OriginKnown, [Next]_vars
  PROVE  OriginKnown'
<1>1. CASE Turn
  <2>1. phase = "turn"
    BY <1>1 DEF Turn, StartRequest, FinishRequest, RefuseRequest, EndRun, Compact, StartTool, FinishTool,
         ReportProgress, UpdateTask, RequestCompletion, CheckCriterion, Delegate, LoopInv, OpSound
  <2>2. UNCHANGED origin
    BY <1>1 DEF Turn, StartRequest, FinishRequest, RefuseRequest, EndRun, Compact, StartTool, FinishTool,
         ReportProgress, UpdateTask, RequestCompletion, CheckCriterion, Delegate
  <2> QED BY <2>1, <2>2 DEF OriginKnown
<1>2. CASE Settle
  BY <1>2 DEF Settle, ReadTask, RecordDecision, ApplyDecision, OriginKnown
<1>3. CASE Continuation \/ Daemon \/ HeartbeatStop \/ Crash
  BY <1>3 DEF Continuation, Daemon, HeartbeatStop, Crash, PromptContinuation, PromptFails, StartWorker,
         StopWorker, ExitWorker, Recover, OriginKnown
<1>4. CASE User \/ TimePasses \/ Sub
  BY <1>4 DEF User, UserTransitions, UserPrompts, UserAccepts, TimePasses, Sub, StartSub, FinishSubTool,
         StopSub, SubReports, OriginKnown, host
<1>5. CASE UNCHANGED vars
  BY <1>5 DEF vars, OriginKnown
<1> QED BY <1>1, <1>2, <1>3, <1>4, <1>5 DEF Next

\* The handler of a Turn that the loop prompted returns with the next prompt
\* timed, the Worker stopping or the Task out of `running`.
LoopGoesOn ==
  (phase = "decided" /\ phase' = "idle" /\ origin # "user") =>
    timer' \/ stopping' \/ task' # "running"

\* Of all steps only the rest of evaluate() takes a decided Turn to idle.
LEMMA LeavingDecided ==
  ASSUME LoopInv, [Next]_vars, phase = "decided", phase' = "idle"
  PROVE  ApplyDecision
<1>1. ~Turn
  BY DEF Turn, StartRequest, FinishRequest, RefuseRequest, EndRun, Compact, StartTool, FinishTool,
         ReportProgress, UpdateTask, RequestCompletion, CheckCriterion, Delegate, LoopInv, OpSound
<1>2. ~(ReadTask \/ RecordDecision \/ UNCHANGED vars)
  BY DEF ReadTask, RecordDecision, vars
<1>3. ~(Continuation \/ Daemon \/ HeartbeatStop \/ Crash)
  BY DEF Continuation, Daemon, HeartbeatStop, Crash, PromptContinuation, PromptFails, StartWorker,
         StopWorker, ExitWorker, Recover
<1>4. ~(User \/ TimePasses \/ Sub)
  BY DEF User, UserTransitions, UserPrompts, UserAccepts, TimePasses, Sub, StartSub, FinishSubTool,
         StopSub, SubReports, host
<1> QED BY <1>1, <1>2, <1>3, <1>4 DEF Next, Settle

\* Every way out of a recorded decision keeps the loop alive or takes the Task
\* out of `running`, the transition that the store refuses included (evaluate,
\* promptContinuation): an automatic Turn never ends with the Task running and
\* nothing to follow.  The safety half of SettledTurnIsFollowedUp.
THEOREM LoopGoesOnAlways == Spec => [][LoopGoesOn]_vars
<1>1. ASSUME LoopInv, OriginKnown, [Next]_vars, phase = "decided", phase' = "idle", origin # "user"
      PROVE  timer' \/ stopping' \/ task' # "running"
  <2> DEFINE action == decisions[index].action
  <2>1. ApplyDecision /\ action \in Actions /\ origin \in {"first", "continuation"}
    BY <1>1, LeavingDecided DEF LoopInv, VerdictSound, OriginKnown
  <2>2. action \notin Prompting => Target(action) # "running"
    BY <2>1 DEF Target, Actions, Prompting
  <2>3. ASSUME NEW next, TransitionTask(next) PROVE task' = next
    BY <2>3 DEF TransitionTask
  <2>4. CASE action \in Prompting
    BY <2>1, <2>4 DEF ApplyDecision
  <2>5. CASE action \notin Prompting /\ TransitionTask(Target(action))
    BY <2>2, <2>3, <2>5
  <2>6. CASE /\ stopping' = (stopping \/ origin = "first")
             /\ IF origin = "continuation" /\ task = "running"
                THEN TransitionTask("waiting_external")
                ELSE UNCHANGED <<task, sub>>
    BY <2>1, <2>3, <2>6
  <2> QED BY <2>1, <2>4, <2>5, <2>6 DEF ApplyDecision
<1>2. LoopInv /\ OriginKnown /\ [Next]_vars => [LoopGoesOn]_vars
  BY <1>1 DEF LoopGoesOn
<1>3. Init => OriginKnown
  BY DEF Init, OriginKnown
<1>4. LoopInv /\ OriginKnown /\ [Next]_vars => OriginKnown'
  BY OriginNext
<1> QED BY <1>2, <1>3, <1>4, LoopSound, PTL DEF Spec
=============================================================================
