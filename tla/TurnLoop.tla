------------------------------ MODULE TurnLoop ------------------------------
(***************************************************************************)
(* The automatic Turn loop of a Task's main Agent: its resident Worker     *)
(* runs a Turn, settles it with a checkpoint, the ContinuationController   *)
(* records a decision for the settled Turn and moves the Task or prompts   *)
(* the session again.  With it: the task_update tool, verified completion  *)
(* and its acceptance criteria, one required subagent, compaction, and the *)
(* user who pauses, resumes, cancels, prompts and accepts.                 *)
(*                                                                         *)
(* evaluate() reads the Task, then the other facts, records the decision   *)
(* and transitions the Task in separate transactions, and the daemon, the  *)
(* user and the subagent take steps in between; that is why a settled Turn *)
(* takes the three steps ReadTask, RecordDecision and ApplyDecision.       *)
(*                                                                         *)
(* Leases, claims and the recovery barrier are those of AgentExecution:    *)
(* at most one Worker of the Agent is attached, so one process is enough   *)
(* here, and a claim, a recovery and a stop are one step each.             *)
(***************************************************************************)
EXTENDS Naturals, FiniteSets

CONSTANTS
  Criteria,        \* acceptance criteria of the Task
  Manual,          \* those that only the user can accept
  Prints,          \* progress fingerprints the model can report
  None,
  MaxTurns,        \* task.budget.maxTurns
  MaxAutomatic,    \* maxAutomaticContinuationTurnsPerAttempt
  ReplanAfter,     \* maxIdenticalProgressTurns
  PauseAfter,      \* pauseAfterIdenticalProgressTurns
  MaxIndex,        \* bound: assistant messages in the session
  MaxAttempts,     \* bound: Attempts of the main Agent
  MaxEvents,       \* bound: interventions of the user and crashes
  MaxCompactions   \* bound: compactions of the session

ASSUME CriteriaAssumption == Manual \subseteq Criteria
ASSUME PolicyAssumption == {MaxTurns, MaxAutomatic, ReplanAfter, PauseAfter} \subseteq Nat
ASSUME BoundAssumption == {MaxIndex, MaxAttempts, MaxEvents, MaxCompactions} \subseteq Nat

VARIABLES
  task,       \* tasks.state
  wake,       \* tasks.next_wake_at: none, set or due
  turns,      \* tasks.total_turns
  requested,  \* an AcceptanceRequested event without a later TaskCompleted
  passed,     \* criteria whose latest acceptance event is AcceptancePassed
  sub,        \* the required subagent: its Agent state ("none" before agent_spawn)
  subup,      \* its Worker is attached
  subtool,    \* the tool call of its report is not finished yet
  stray,      \* unfinished operations that no process of the main Agent will finish
  decisions,  \* continuation_decisions of the Attempt, by settled_turn_index
  checkpoint, \* settledTurnIndex of the latest checkpoint of the Dispatch
  reported,   \* the progress last reported with task_update, None before
  progress,   \* the progress the latest checkpoint committed
  phase,      \* the Worker of the main Agent and its session
  op,         \* the operation in flight in its Turn
  origin,     \* who prompted the Turn: first, continuation or user; else None
  read,       \* the Task state evaluate() has read; else None
  timer,      \* setTimeout of a continuation prompt is pending
  stopping,   \* stopWorker has been called
  index,      \* assistant messages in the context of the session
  checking,   \* automated criteria the running completion request has to check
  count       \* bounded events so far

store == <<turns, requested, passed, decisions, checkpoint, reported, progress>>
subagent == <<sub, subup, subtool>>
host == <<phase, op, origin, read, timer, stopping, index, checking>>
vars == <<task, wake, turns, requested, passed, sub, subup, subtool, stray, decisions,
          checkpoint, reported, progress, phase, op, origin, read, timer, stopping,
          index, checking, count>>

-----------------------------------------------------------------------------
Terminal == {"completed", "failed", "cancelled"}

TaskStates == Terminal \cup
  {"queued", "running", "waiting_input", "waiting_external", "paused", "unknown_outcome"}

TaskTransitions == [
  queued           |-> {"running", "waiting_input", "paused", "cancelled"},
  running          |-> TaskStates \ {"queued", "running"},
  waiting_input    |-> {"queued", "cancelled"},
  waiting_external |-> {"queued", "paused", "cancelled"},
  paused           |-> {"queued", "cancelled"},
  unknown_outcome  |-> {"queued", "failed", "cancelled"},
  completed        |-> {},
  failed           |-> {},
  cancelled        |-> {}]

Actions == {"continue", "replan", "wait_user", "wait_external", "pause_budget",
  "pause_no_progress", "complete", "fail"}

Prompting == {"continue", "replan"}
Tools == {"read_only", "update", "updated", "checking"}  \* the last three: task_update
Attached == {"idle", "turn", "settled", "read", "decided"}

Automated == Criteria \ Manual

TypeOK ==
  /\ task \in TaskStates
  /\ wake \in {"none", "set", "due"}
  /\ turns \in 0..MaxTurns
  /\ passed \subseteq Criteria /\ checking \subseteq Automated
  /\ sub \in {"none", "queued", "running", "waiting", "paused"} \cup Terminal
  /\ {requested, subup, subtool, timer, stopping} \subseteq BOOLEAN
  /\ stray \subseteq {"read_only", "effect", "request"}
  /\ decisions \in [0..MaxIndex -> {None} \cup [action : Actions, print : Prints \cup {None}]]
  /\ checkpoint \in {None} \cup 0..MaxIndex
  /\ {reported, progress} \subseteq Prints \cup {None}
  /\ phase \in Attached \cup {"none", "lost", "blocked"}
  /\ op \in Tools \cup {"none", "prompt", "request", "answer"}
  /\ (phase = "turn") <=> (op # "none")
  /\ origin \in {"first", "continuation", "user", None}
  /\ read \in TaskStates \cup {None}
  /\ index \in 0..MaxIndex
  /\ count \in [attempts : 0..MaxAttempts, events : 0..MaxEvents,
                compactions : 0..MaxCompactions]

Init ==
  /\ task = "queued" /\ wake = "none" /\ turns = 0
  /\ requested = FALSE /\ passed = {}
  /\ sub = "none" /\ subup = FALSE /\ subtool = FALSE
  /\ stray = {}
  /\ decisions = [i \in 0..MaxIndex |-> None]
  /\ checkpoint = None
  /\ reported = None /\ progress = None
  /\ phase = "none" /\ op = "none" /\ origin = None /\ read = None
  /\ timer = FALSE /\ stopping = FALSE /\ index = 0 /\ checking = {}
  /\ count = [attempts |-> 0, events |-> 0, compactions |-> 0]

-----------------------------------------------------------------------------
(* Task transitions                                                        *)

\* Mutant: acceptance is not looked at again when the Task completes.
CompletionReadyAsDecided == checkpoint # None

\* assertCompletionReady; it counts the unfinished tools of every Agent.
CompletionReady ==
  /\ passed = Criteria
  /\ sub \in {"none", "completed"}
  /\ stray \cap {"read_only", "effect"} = {} /\ op \notin Tools /\ ~subtool
  /\ checkpoint # None

Legal(next) ==
  /\ next \in TaskTransitions[task]
  /\ next = "completed" => CompletionReady

\* What a transition of the Task does to the subagent.
Carried(next) ==
  CASE next = "queued" /\ sub \in {"waiting", "paused"} -> "queued"
    [] next \in {"waiting_input", "waiting_external"} /\ sub = "running" -> "waiting"
    [] next = "paused" /\ sub \notin Terminal \cup {"none"} -> "paused"
    [] next \in Terminal /\ sub \notin Terminal \cup {"none"} -> next
    [] OTHER -> sub

\* transitionTask, for the callers whose exception changes nothing else
TransitionTask(next) ==
  /\ Legal(next)
  /\ task' = next
  /\ sub' = Carried(next)

-----------------------------------------------------------------------------
(* The Worker                                                              *)

\* activateTaskRun and claimAttempt: the goal is the initial message only as
\* long as the Dispatch has no checkpoint; else the session starts idle.
StartWorker ==
  /\ phase = "none"
  /\ task \in {"queued", "running"} /\ wake # "set"
  /\ count.attempts < MaxAttempts
  /\ count' = [count EXCEPT !.attempts = @ + 1]
  /\ task' = "running"
  /\ decisions' = [i \in 0..MaxIndex |-> None]
  /\ IF checkpoint = None
     THEN phase' = "turn" /\ op' = "prompt" /\ origin' = "first" /\ UNCHANGED index
     ELSE phase' = "idle" /\ index' = checkpoint /\ UNCHANGED <<op, origin>>
  /\ UNCHANGED <<wake, turns, requested, passed, subagent, stray, checkpoint, reported,
                 progress, read, timer, stopping, checking>>

\* startProviderRequest; the reservation counts towards the limit.
StartRequest ==
  /\ op = "prompt"
  /\ turns < MaxTurns /\ index < MaxIndex
  /\ op' = "request"
  /\ UNCHANGED <<task, wake, store, subagent, stray, phase, origin, read, timer,
                 stopping, index, checking, count>>

\* finishProviderRequest
FinishRequest ==
  /\ op = "request"
  /\ op' = "answer"
  /\ turns' = turns + 1
  /\ index' = index + 1
  /\ UNCHANGED <<task, wake, requested, passed, decisions, checkpoint, reported, progress,
                 subagent, stray, phase, origin, read, timer, stopping, checking, count>>

\* A request the budget refuses becomes an error message and ends the run.
RefuseRequest ==
  /\ op = "prompt"
  /\ turns >= MaxTurns /\ index < MaxIndex
  /\ index' = index + 1
  /\ phase' = "settled" /\ op' = "none"
  /\ UNCHANGED <<task, wake, store, subagent, stray, origin, read, timer, stopping,
                 checking, count>>

\* The model ends its answer without a tool call.
EndRun ==
  /\ op = "answer"
  /\ phase' = "settled" /\ op' = "none"
  /\ UNCHANGED <<task, wake, store, subagent, stray, origin, read, timer, stopping,
                 index, checking, count>>

\* _runAutoCompaction after the run: a checkpoint, a summary request that
\* counts as a turn, and a context that keeps only the latest k messages.
Compact(k) ==
  /\ op = "answer" /\ k < index
  /\ turns < MaxTurns
  /\ count.compactions < MaxCompactions
  /\ count' = [count EXCEPT !.compactions = @ + 1]
  /\ checkpoint' = index /\ progress' = reported
  /\ turns' = turns + 1
  /\ index' = k
  /\ phase' = "settled" /\ op' = "none"
  /\ UNCHANGED <<task, wake, requested, passed, decisions, reported, subagent, stray, origin,
                 read, timer, stopping, checking>>

-----------------------------------------------------------------------------
(* Tools of the Turn                                                       *)

StartTool(kind) ==
  /\ op = "answer"
  /\ op' = kind
  /\ UNCHANGED <<task, wake, store, subagent, stray, phase, origin, read, timer, stopping,
                 index, checking, count>>

FinishTool ==
  /\ op \in {"read_only", "updated"} \/ (op = "checking" /\ checking = {})
  /\ op' = "prompt"
  /\ UNCHANGED <<task, wake, store, subagent, stray, phase, origin, read, timer, stopping,
                 index, checking, count>>

\* task_update checkpoint
ReportProgress(p) ==
  /\ op = "update" /\ op' = "updated"
  /\ reported' = p
  /\ UNCHANGED <<task, wake, turns, requested, passed, decisions, checkpoint, progress,
                 subagent, stray, phase, origin, read, timer, stopping, index, checking, count>>

\* task_update wait and fail; a refused transition is the tool's error.
UpdateTask(next, w) ==
  /\ op = "update" /\ op' = "updated"
  /\ wake' = IF task \notin Terminal THEN w ELSE wake
  /\ IF Legal(next) THEN TransitionTask(next) ELSE UNCHANGED <<task, sub>>
  /\ UNCHANGED <<store, subup, subtool, stray, phase, origin, read, timer, stopping, index,
                 checking, count>>

\* task_update complete: beginVerifiedCompletion ...
RequestCompletion ==
  /\ op = "update" /\ op' = "checking"
  /\ requested' = (requested \/ task # "completed")
  /\ checking' = Automated
  /\ UNCHANGED <<task, wake, turns, passed, decisions, checkpoint, reported, progress,
                 subagent, stray, phase, origin, read, timer, stopping, index, count>>

\* ... and the outcome of every automated criterion, in a transaction each
CheckCriterion(c, ok) ==
  /\ op = "checking" /\ c \in checking
  /\ checking' = checking \ {c}
  /\ passed' = IF ok THEN passed \cup {c} ELSE passed \ {c}
  /\ UNCHANGED <<task, wake, turns, requested, decisions, checkpoint, reported, progress,
                 subagent, stray, phase, op, origin, read, timer, stopping, index, count>>

\* agent_spawn of a required subagent
Delegate ==
  /\ op = "update" /\ op' = "updated"
  /\ sub = "none" /\ task \notin Terminal
  /\ sub' = "queued"
  /\ UNCHANGED <<task, wake, store, subup, subtool, stray, phase, origin, read, timer,
                 stopping, index, checking, count>>

-----------------------------------------------------------------------------
(* The settled Turn                                                        *)

\* The settled handler up to evaluate()'s requireTask: commitCheckpoint first.
ReadTask ==
  /\ phase = "settled"
  /\ phase' = "read"
  /\ checkpoint' = index /\ progress' = reported
  /\ read' = task
  /\ UNCHANGED <<task, wake, turns, requested, passed, decisions, reported, subagent, stray,
                 op, origin, timer, stopping, index, checking, count>>

Decided == {i \in DOMAIN decisions : decisions[i] # None}

Automatic == Cardinality({i \in Decided : decisions[i].action \in Prompting})

\* consecutiveMatches over listContinuationDecisions, which is ordered by
\* settled_turn_index, with the Turn at hand
IdenticalTurns ==
  1 + Cardinality({i \in Decided : \A j \in Decided : j >= i => decisions[j].print = progress})

\* Mutant: the limits are left to the requests of the next Turn.
NeverExhausted == FALSE

\* The turn budget of the Task and the automatic Turns of the Attempt.
Exhausted == turns >= MaxTurns \/ Automatic >= MaxAutomatic

\* decideContinuation for a Task read in state t: the first rule that applies.
\* progress.verification is never filled in production, so the rule about
\* repeated verification failures does not apply.
Decide(t) ==
  IF stray \cap {"read_only", "effect"} # {} THEN "wait_user"
  ELSE IF t = "completed" THEN "complete"
  ELSE IF t \in {"failed", "cancelled"} THEN "fail"
  ELSE IF t = "unknown_outcome" THEN "wait_user"
  ELSE IF Exhausted THEN "pause_budget"
  ELSE IF requested /\ passed = Criteria /\ sub \in {"none", "completed"} THEN "complete"
  ELSE IF requested /\ ~(Manual \subseteq passed) THEN "wait_user"
  ELSE IF requested /\ passed # Criteria THEN "replan"
  ELSE IF t \in {"waiting_input", "paused"} THEN "wait_user"
  ELSE IF t = "waiting_external" \/ sub \notin {"none", "completed"} THEN "wait_external"
  ELSE IF IdenticalTurns >= PauseAfter THEN "pause_no_progress"
  ELSE IF IdenticalTurns >= ReplanAfter THEN "replan"
  ELSE "continue"

\* recordContinuationDecision: one decision per settled_turn_index of the
\* Attempt; a duplicate ends the handler.
RecordDecision ==
  /\ phase = "read"
  /\ \/ /\ decisions[index] # None
        /\ phase' = "idle" /\ origin' = None
        /\ UNCHANGED decisions
     \/ /\ decisions[index] = None
        /\ decisions' = [decisions EXCEPT ![index] = [action |-> Decide(read), print |-> progress]]
        /\ phase' = "decided"
        /\ UNCHANGED origin
  /\ read' = None
  /\ UNCHANGED <<task, wake, turns, requested, passed, checkpoint, reported, progress,
                 subagent, stray, op, timer, stopping, index, checking, count>>

\* The Task state a decision asks for.
Target(action) ==
  CASE action = "complete" -> "completed"
    [] action = "fail" -> "failed"
    [] action \in {"pause_budget", "pause_no_progress"} -> "paused"
    [] action = "wait_user" -> "waiting_input"
    [] action = "wait_external" -> "waiting_external"

\* Mutant: the timer is not set for a Turn that has to replan.
ApplyDecisionContinue ==
  LET action == decisions[index].action IN
  /\ phase = "decided"
  /\ phase' = "idle" /\ origin' = None
  /\ IF action \in Prompting
     THEN timer' = (action = "continue") /\ UNCHANGED <<task, sub>>
     ELSE UNCHANGED timer /\ (TransitionTask(Target(action))
                              \/ (~Legal(Target(action)) /\ UNCHANGED <<task, sub>>))
  /\ UNCHANGED <<wake, store, subup, subtool, stray, op, read, stopping, index,
                 checking, count>>

\* The rest of evaluate(), and the timer of the next prompt.  A transition the
\* store refuses rejects the prompt that the Turn came from: the first prompt
\* takes its Worker down, a continuation prompt leaves the Task waiting, and a
\* user's is reported to the user.
ApplyDecision ==
  LET action == decisions[index].action IN
  /\ phase = "decided"
  /\ phase' = "idle" /\ origin' = None
  /\ \/ /\ action \in Prompting
        /\ timer' = TRUE
        /\ UNCHANGED <<task, sub, stopping>>
     \/ /\ action \notin Prompting
        /\ TransitionTask(Target(action))
        /\ UNCHANGED <<timer, stopping>>
     \/ /\ action \notin Prompting /\ ~Legal(Target(action))
        /\ stopping' = (stopping \/ origin = "first")
        /\ IF origin = "continuation" /\ task = "running"
           THEN TransitionTask("waiting_external")
           ELSE UNCHANGED <<task, sub>>
        /\ UNCHANGED timer
  /\ UNCHANGED <<wake, store, subup, subtool, stray, op, read, index, checking, count>>

\* The timer fires: it prompts an idle session, unless a Turn of the user's has
\* begun (ContinuationPromptDeferred) or the Worker is being stopped.
PromptContinuation ==
  /\ timer /\ timer' = FALSE
  /\ IF phase = "idle" /\ ~stopping
     THEN phase' = "turn" /\ op' = "prompt" /\ origin' = "continuation"
     ELSE UNCHANGED <<phase, op, origin>>
  /\ UNCHANGED <<task, wake, store, subagent, stray, read, stopping, index, checking, count>>

\* The prompt is rejected before its Turn begins (no credentials, the deadline).
PromptFails ==
  /\ timer /\ phase = "idle" /\ ~stopping
  /\ timer' = FALSE
  /\ IF task = "running" THEN TransitionTask("waiting_external") ELSE UNCHANGED <<task, sub>>
  /\ UNCHANGED <<wake, store, subup, subtool, stray, phase, op, origin, read, stopping,
                 index, checking, count>>

-----------------------------------------------------------------------------
(* Stops, crashes and recovery                                             *)

Event ==
  /\ count.events < MaxEvents
  /\ count' = [count EXCEPT !.events = @ + 1]

Left(o) == IF o \in Tools \ {"read_only"} THEN {"effect"} ELSE {o} \cap {"read_only", "request"}

\* The daemon stops the Worker of a Task that is not queued or running; the
\* aborted run still settles.  The checks of a completion request are
\* synchronous: no stop gets in between.
StopWorker ==
  /\ phase \in {"idle", "turn"} /\ op # "checking" /\ ~stopping
  /\ task \notin {"queued", "running"}
  /\ stopping' = TRUE
  /\ IF phase = "turn"
     THEN /\ phase' = "settled" /\ op' = "none"
          /\ index' \in {index, index + 1} \cap 0..MaxIndex
          /\ turns' = IF op = "request" THEN turns + 1 ELSE turns
     ELSE UNCHANGED <<phase, op, index, turns>>
  /\ UNCHANGED <<task, wake, requested, passed, decisions, checkpoint, reported, progress,
                 subagent, stray, origin, read, timer, checking, count>>

\* stopWorker has aborted the session: the process ends.
ExitWorker ==
  /\ stopping /\ phase = "idle"
  /\ phase' = "none" /\ timer' = FALSE /\ stopping' = FALSE
  /\ UNCHANGED <<task, wake, store, subagent, stray, op, origin, read, index, checking, count>>

\* The heartbeat finds its Agent paused or cancelled: the lifecycle is
\* uninstalled at once, so nothing records how the open operation ends.
HeartbeatStop ==
  /\ phase \in {"idle", "turn", "settled"} /\ op # "checking"
  /\ task \in {"paused", "cancelled"}
  /\ phase' = "none" /\ op' = "none" /\ origin' = None /\ timer' = FALSE /\ stopping' = FALSE
  /\ stray' = stray \cup Left(op)
  /\ UNCHANGED <<task, wake, store, subagent, read, index, checking, count>>

Crash ==
  /\ Event
  /\ phase \in Attached
  /\ phase' = "lost" /\ op' = "none" /\ origin' = None /\ timer' = FALSE /\ stopping' = FALSE
  /\ checking' = {} /\ read' = None
  /\ stray' = stray \cup Left(op)
  /\ UNCHANGED <<task, wake, store, subagent, index>>

\* recoverExpiredLongTaskExecutions, once the lease has expired: an open
\* request or an open tool with an effect is never replayed.
Recover ==
  /\ phase = "lost"
  /\ IF stray \subseteq {"read_only"}
     THEN phase' = "none" /\ UNCHANGED <<task, sub>>
     ELSE /\ phase' = "blocked"
          /\ IF task = "running" THEN TransitionTask("unknown_outcome") ELSE UNCHANGED <<task, sub>>
  /\ UNCHANGED <<wake, store, subup, subtool, stray, op, origin, read, timer, stopping, index,
                 checking, count>>

-----------------------------------------------------------------------------
(* The user                                                                *)

UserTransitions(next) ==
  /\ Event
  /\ next \in {"queued", "paused", "cancelled"}
  /\ TransitionTask(next)
  /\ phase' = IF phase = "blocked" /\ next = "queued" THEN "none" ELSE phase
  /\ UNCHANGED <<wake, store, subup, subtool, stray, op, origin, read, timer, stopping, index,
                 checking>>

UserPrompts ==
  /\ Event
  /\ phase = "idle" /\ ~stopping
  /\ phase' = "turn" /\ op' = "prompt" /\ origin' = "user"
  /\ UNCHANGED <<task, wake, store, subagent, stray, read, timer, stopping, index, checking>>

UserAccepts(c) ==
  /\ c \in Manual \ passed
  /\ passed' = passed \cup {c}
  /\ UNCHANGED <<task, wake, turns, requested, decisions, checkpoint, reported, progress,
                 subagent, stray, host, count>>

TimePasses ==
  /\ wake = "set" /\ wake' = "due"
  /\ UNCHANGED <<task, store, subagent, stray, host, count>>

-----------------------------------------------------------------------------
(* The required subagent                                                   *)

SubOpen == sub \notin Terminal \cup {"none"}

StartSub ==
  /\ sub = "queued" /\ ~subup
  /\ task \in {"queued", "running"} /\ wake # "set"
  /\ sub' = "running" /\ subup' = TRUE /\ task' = "running"
  /\ UNCHANGED <<wake, store, subtool, stray, host, count>>

\* The report to the parent, whose own tool call is still open.  Its earlier
\* tool calls do not matter here: they end before the required delegation does.
SubReports(outcome) ==
  /\ subup /\ SubOpen
  /\ sub' = outcome /\ subtool' = TRUE
  /\ UNCHANGED <<task, wake, store, subup, stray, host, count>>

FinishSubTool ==
  /\ subup /\ subtool
  /\ subtool' = FALSE
  /\ UNCHANGED <<task, wake, store, sub, subup, stray, host, count>>

\* The daemon's stop aborts the Turn, which settles the Dispatch as failed; the
\* heartbeat of a paused Agent only drops the lifecycle.
StopSub ==
  /\ subup
  /\ \/ /\ SubOpen /\ task \notin {"queued", "running"}
        /\ sub' = "failed"
     \/ sub \in {"paused", "cancelled"} /\ UNCHANGED sub
     \/ ~SubOpen /\ ~subtool /\ UNCHANGED sub
  /\ subup' = FALSE
  /\ UNCHANGED <<task, wake, store, subtool, stray, host, count>>

-----------------------------------------------------------------------------
Turn ==
  \/ StartRequest \/ FinishRequest \/ RefuseRequest \/ EndRun
  \/ \E k \in 0..MaxIndex : Compact(k)
  \/ \E kind \in {"read_only", "update"} : StartTool(kind)
  \/ FinishTool
  \/ \E p \in Prints : ReportProgress(p)
  \/ UpdateTask("waiting_input", wake) \/ UpdateTask("waiting_external", "set")
  \/ UpdateTask("failed", wake)
  \/ RequestCompletion
  \/ \E c \in Criteria, ok \in BOOLEAN : CheckCriterion(c, ok)
  \/ Delegate

Settle == ReadTask \/ RecordDecision \/ ApplyDecision

Continuation == PromptContinuation \/ PromptFails

Daemon == StartWorker \/ StopWorker \/ ExitWorker \/ Recover

User ==
  \/ \E next \in {"queued", "paused", "cancelled"} : UserTransitions(next)
  \/ UserPrompts
  \/ \E c \in Criteria : UserAccepts(c)

Sub ==
  \/ StartSub \/ FinishSubTool \/ StopSub
  \/ \E outcome \in {"completed", "failed"} : SubReports(outcome)

Next == Turn \/ Settle \/ Continuation \/ Daemon \/ HeartbeatStop \/ Crash
        \/ User \/ TimePasses \/ Sub

\* A process that runs takes its next step, the daemon's scheduling pass runs
\* every second, timers fire and time passes.  Nothing is assumed of the user.
Fairness ==
  /\ WF_vars(Turn) /\ WF_vars(Settle) /\ WF_vars(Continuation)
  /\ WF_vars(StartWorker) /\ WF_vars(StopWorker) /\ WF_vars(ExitWorker) /\ WF_vars(Recover)
  /\ WF_vars(StartSub) /\ WF_vars(StopSub) /\ WF_vars(TimePasses)

Spec == Init /\ [][Next]_vars /\ Fairness

-----------------------------------------------------------------------------
(* Properties                                                              *)

\* However evaluate(), the subagent, the user and the daemon interleave, a Task
\* only completes after its completion was requested, with every criterion
\* passed, the required subagent done, no tool of any Agent open and a
\* checkpoint of the Dispatch to resume from (transitionTask).
CompletedIsVerified ==
  [][(task # "completed" /\ task' = "completed") =>
     /\ requested /\ passed = Criteria
     /\ sub \in {"none", "completed"} /\ ~subtool
     /\ stray \cap {"read_only", "effect"} = {}
     /\ checkpoint # None]_vars

\* With finitely many interventions of the user the loop stops by itself: the
\* turn budget, the limit on automatic continuations and the limit on identical
\* progress leave no endless chain of Turns (decideContinuation).
AutomaticWorkStops == <>[](phase # "turn")

\* A Turn that the loop itself prompted and that settles while its Task runs is
\* followed by another Turn, or the Task leaves `running`, or the Worker ends;
\* unless compaction has led to an index that already has a decision, for then
\* recordContinuationDecision takes it for a duplicate.
SettledTurnIsFollowedUp ==
  (phase = "settled" /\ task = "running" /\ origin # "user" /\ decisions[index] = None)
    ~> (phase \in {"turn", "none", "lost"} \/ task # "running")

\* A Task that waits for a point in time is taken up again when it has come:
\* TECHNICAL_SPEC.md, "waiting_external" and the wait kind "time".
TimedWaitEnds == (task = "waiting_external" /\ wake = "due") ~> (task # "waiting_external")
=============================================================================
