---------------------------- MODULE BudgetLedger ----------------------------
(***************************************************************************)
(* The budget of one Task while the Workers of several Agents send         *)
(* provider requests for it: startProviderRequest reserves, before the     *)
(* request goes out, a turn and the worst-case cost; finishProviderRequest *)
(* settles the reservation with the actual cost.  Reviewer requests (the   *)
(* authorization compiler and the permission review) cost no turn but have *)
(* limits of their own: a number of requests, an absolute cap and a share  *)
(* of what the Agents have spent.                                          *)
(*                                                                         *)
(* A Worker may die, lose its lease or exit with a request in flight; the  *)
(* provider charges for it all the same.  `spent` is what the provider has *)
(* really charged, which no table of the program holds.  What the program  *)
(* settles is the usage the answer reports, and an answer that failed or   *)
(* was aborted reports what had come in when it ended, often nothing.      *)
(*                                                                         *)
(* Costs are integers in the unit of the configuration.                    *)
(***************************************************************************)
EXTENDS Integers, FiniteSets, FiniteSetsExt, Sums

CONSTANTS
  Agents,
  MaxTurns, MaxCost,  \* task.budget; MaxCost is the hard limit maxCostUsd
  Worst,              \* worst-case cost, by kind of request
  Charges,            \* what a request of the kind may really cost
  Partials,           \* what an answer that failed or was aborted may report
  CompilerLimit,      \* 32 authorization_compile requests of a Task
  ReviewerLimit,      \* 128 reviewer requests of a Task
  AttemptLimit,       \* 32 reviewer requests of an Attempt
  Cap,                \* 0.05 USD: reviewer cost of a Task
  Allowance,          \* 0.002 USD: reviewer cost before any other cost
  ShareOf,            \* 20: one part in ShareOf of the other cost goes on top
  MaxAttempts,        \* bound: Attempts of an Agent
  MaxRequests         \* bound: requests of an Agent

Kinds == {"agent", "authorization_compile", "permission_review"}
Reviewer == Kinds \ {"agent"}

ASSUME CostAssumption ==
  /\ {MaxTurns, MaxCost, CompilerLimit, ReviewerLimit, AttemptLimit, Cap, Allowance} \subseteq Nat
  /\ {MaxAttempts, MaxRequests} \subseteq Nat
  /\ ShareOf \in Nat \ {0}
  /\ Worst \in [Kinds -> Nat]
  /\ Charges \in [Kinds -> SUBSET Nat]
  /\ Partials \subseteq Nat

VARIABLES
  task,          \* tasks.state; waiting stands for waiting_input, waiting_external and paused
  total,         \* tasks.total_turns and total_cost_usd
  authorization, \* task_authorization_state
  tally,         \* turn_count, cost_usd and reviewer requests, by Agent and Attempt
  reservations,  \* the rows of budget_reservations that are active
  ordinal,       \* the current Attempt of an Agent
  worker,        \* an Agent and its Worker, see Phases
  requests,      \* requests of an Agent so far; they number its reservations
  requeued,      \* history: requests left behind when the Task was last queued, by a Worker's
                 \* exit, or by one that could not record that their outcome is unknown
  spent,         \* history: what the provider has charged
  overrun,       \* history: the part of it above the reservations
  unreported     \* history: the part of it that settled answers did not report

ledger == <<total, authorization, tally, reservations>>
money == <<spent, overrun, unreported>>
vars == <<task, ledger, ordinal, worker, requests, requeued, money>>

\* none: claimable, no Worker; ready, sent, answered: a Worker without a request,
\* with one on its way, with its answer; lost: the Worker died or lost its lease;
\* recovering: between beginRecovery and finishRecovery; held: unknown_outcome or
\* paused, no Worker, and not claimable before the Task is queued again.
Phases == {"none", "ready", "sent", "answered", "lost", "recovering", "held"}

Attempts == 1..MaxAttempts
NoRequest(phase) == [phase |-> phase, id |-> 0, cost |-> 0, usage |-> 0]

TurnsOf(r) == IF r.kind = "agent" THEN 1 ELSE 0
ReservedTurns(S) == SumOf([r \in S |-> TurnsOf(r)])
Reserved(S) == SumOf([r \in S |-> r.cost])

TypeOK ==
  /\ task \in {"queued", "running", "waiting", "unknown_outcome"}
  /\ total \in [turns : Nat, cost : Nat]
  /\ authorization \in [compilers : 0..CompilerLimit, reviewers : 0..ReviewerLimit,
                        cost : Nat, compiler : Nat, judge : Nat, reserved : Nat]
  /\ tally \in [Agents -> [Attempts -> [turns : Nat, cost : Nat, reviews : 0..AttemptLimit]]]
  /\ (reservations \cup requeued) \subseteq
       [id : 1..MaxRequests, agent : Agents, attempt : Attempts, kind : Kinds, cost : Nat]
  /\ ordinal \in [Agents -> 0..MaxAttempts]
  /\ worker \in [Agents -> [phase : Phases, id : 0..MaxRequests, cost : Nat, usage : Nat]]
  /\ requests \in [Agents -> 0..MaxRequests]
  /\ {spent, overrun, unreported} \subseteq Nat

Init ==
  /\ task = "queued"
  /\ total = [turns |-> 0, cost |-> 0]
  /\ authorization = [compilers |-> 0, reviewers |-> 0, cost |-> 0, compiler |-> 0,
                      judge |-> 0, reserved |-> 0]
  /\ tally = [a \in Agents |-> [n \in Attempts |-> [turns |-> 0, cost |-> 0, reviews |-> 0]]]
  /\ reservations = {} /\ requeued = {}
  /\ ordinal = [a \in Agents |-> 0]
  /\ worker = [a \in Agents |-> NoRequest("none")]
  /\ requests = [a \in Agents |-> 0]
  /\ spent = 0 /\ overrun = 0 /\ unreported = 0

-----------------------------------------------------------------------------
(* Attempts                                                                *)

\* claimAttempt: a claimable Agent of a Task that may run gets a new Attempt.
Claim(a) ==
  /\ worker[a].phase = "none" /\ task \in {"queued", "running"}
  /\ ordinal[a] < MaxAttempts
  /\ task' = "running"
  /\ ordinal' = [ordinal EXCEPT ![a] = @ + 1]
  /\ worker' = [worker EXCEPT ![a] = NoRequest("ready")]
  /\ UNCHANGED <<ledger, requests, requeued, money>>

-----------------------------------------------------------------------------
(* Requests                                                                *)

\* Mutant: the reservations of the other Workers are not counted.
WithinTaskBudgetAlone(kind) ==
  /\ kind = "agent" => total.turns + 1 <= MaxTurns
  /\ total.cost + Worst[kind] <= MaxCost

\* The checks of startProviderRequest that hold for every request.
WithinTaskBudget(kind) ==
  /\ kind = "agent" => total.turns + ReservedTurns(reservations) + 1 <= MaxTurns
  /\ total.cost + Reserved(reservations) + Worst[kind] <= MaxCost

MainSettled == Max({0, total.cost - authorization.cost})

Committed == authorization.cost + authorization.reserved

\* Its checks for reviewer requests.
WithinReviewerBudget(a, kind) ==
  /\ kind = "authorization_compile" => authorization.compilers < CompilerLimit
  /\ authorization.reviewers < ReviewerLimit
  /\ tally[a][ordinal[a]].reviews < AttemptLimit
  /\ Worst[kind] + Committed <= Cap
  /\ ShareOf * (Worst[kind] + Committed) <= ShareOf * Allowance + MainSettled

\* startProviderRequest by the Worker that holds the lease; a request that is
\* refused changes nothing.
StartRequest(a, kind) ==
  /\ worker[a].phase = "ready"
  /\ requests[a] < MaxRequests
  /\ WithinTaskBudget(kind)
  /\ kind \in Reviewer => WithinReviewerBudget(a, kind)
  /\ requests' = [requests EXCEPT ![a] = @ + 1]
  /\ reservations' = reservations \cup
       {[id |-> requests'[a], agent |-> a, attempt |-> ordinal[a], kind |-> kind,
         cost |-> Worst[kind]]}
  /\ IF kind \in Reviewer
     THEN /\ authorization' =
               [authorization EXCEPT
                 !.compilers = IF kind = "authorization_compile" THEN @ + 1 ELSE @,
                 !.reviewers = @ + 1,
                 !.reserved = @ + Worst[kind]]
          /\ tally' = [tally EXCEPT ![a][ordinal[a]].reviews = @ + 1]
     ELSE UNCHANGED <<authorization, tally>>
  /\ worker' = [worker EXCEPT ![a] = [phase |-> "sent", id |-> requests'[a], cost |-> 0, usage |-> 0]]
  /\ UNCHANGED <<task, total, ordinal, requeued, money>>

InFlight(a) == {r \in reservations : r.agent = a /\ r.id = worker[a].id}

Charge(r, c) ==
  /\ spent' = spent + c
  /\ overrun' = overrun + Max({0, c - r.cost})

\* What an answer that is charged c may report: c, or less when it failed or
\* was aborted before its end.
Reports(c) == {c} \cup {p \in Partials : p < c}

\* The end of the response stream, its message and the usage in it.
Answer(a) ==
  /\ worker[a].phase = "sent"
  /\ \E r \in InFlight(a) : \E c \in Charges[r.kind] : \E u \in Reports(c) :
       /\ Charge(r, c)
       /\ worker' = [worker EXCEPT ![a] = [phase |-> "answered", id |-> worker[a].id,
                                           cost |-> c, usage |-> u]]
  /\ UNCHANGED <<task, ledger, ordinal, requests, requeued, unreported>>

\* Mutant: what a review really cost is not compared with its reservation.
SettledAnyCost(r, c) == TRUE

\* finishProviderRequest accepts the cost c for reservation r.
Settled(r, c) == r.kind \in Reviewer => c <= r.cost

\* Mutant: a compiler request is settled like one of the Agent.
SettleCompilerAsAgent(r, c) ==
  /\ reservations' = reservations \ {r}
  /\ total' = [turns |-> total.turns + TurnsOf(r), cost |-> total.cost + c]
  /\ tally' = [tally EXCEPT ![r.agent][r.attempt].turns = @ + TurnsOf(r),
                            ![r.agent][r.attempt].cost = @ + c]
  /\ IF r.kind = "permission_review"
     THEN authorization' = [authorization EXCEPT !.cost = @ + c, !.judge = @ + c,
                                                 !.reserved = Max({0, @ - r.cost})]
     ELSE UNCHANGED authorization

\* The rows finishProviderRequest writes.
Settle(r, c) ==
  /\ reservations' = reservations \ {r}
  /\ total' = [turns |-> total.turns + TurnsOf(r), cost |-> total.cost + c]
  /\ tally' = [tally EXCEPT ![r.agent][r.attempt].turns = @ + TurnsOf(r),
                            ![r.agent][r.attempt].cost = @ + c]
  /\ IF r.kind \in Reviewer
     THEN authorization' =
            [authorization EXCEPT
              !.cost = @ + c,
              !.compiler = IF r.kind = "authorization_compile" THEN @ + c ELSE @,
              !.judge = IF r.kind = "permission_review" THEN @ + c ELSE @,
              !.reserved = Max({0, @ - r.cost})]
     ELSE UNCHANGED authorization

\* after_response: the request is settled at the usage its answer reports,
\* whether it ended well, failed or was aborted ...
FinishRequest(a) ==
  /\ worker[a].phase = "answered"
  /\ \E r \in InFlight(a) :
       /\ Settled(r, worker[a].usage)
       /\ Settle(r, worker[a].usage)
  /\ worker' = [worker EXCEPT ![a] = NoRequest("ready")]
  /\ unreported' = unreported + (worker[a].cost - worker[a].usage)
  /\ UNCHANGED <<task, ordinal, requests, requeued, spent, overrun>>

\* ... or its outcome is unknown: a reviewer request that failed, or any answer
\* finishProviderRequest does not accept or cannot write.  A failure of
\* markProviderOutcomeUnknown is ignored, and the Worker goes on.
OutcomeUnknown(a) ==
  /\ worker[a].phase = "answered"
  /\ \/ task' = "unknown_outcome" /\ UNCHANGED requeued
     \/ requeued' = requeued \cup InFlight(a) /\ UNCHANGED task
  /\ worker' = [worker EXCEPT ![a] = NoRequest("ready")]
  /\ UNCHANGED <<ledger, ordinal, requests, money>>

-----------------------------------------------------------------------------
(* Faults, exits and recovery                                              *)

\* A request nobody waits for any more is charged or not.
LateCharge(a) ==
  \/ UNCHANGED <<spent, overrun>>
  \/ /\ worker[a].phase = "sent"
     /\ \E r \in InFlight(a) : \E c \in Charges[r.kind] : Charge(r, c)

\* The Worker dies or loses its lease.
Lose(a) ==
  /\ worker[a].phase \in {"ready", "sent", "answered"}
  /\ worker' = [worker EXCEPT ![a] = NoRequest("lost")]
  /\ LateCharge(a)
  /\ UNCHANGED <<task, ledger, ordinal, requests, requeued, unreported>>

\* run() ends and releases the lease without waiting for a request in flight: its
\* user quits, its Task does not run any more, or its Agent was paused.  In the
\* last case the Agent stays paused, otherwise it can be claimed again.
Detach(a) ==
  /\ worker[a].phase \in {"ready", "sent", "answered"}
  /\ \/ /\ worker' = [worker EXCEPT ![a] = NoRequest("none")]
        /\ requeued' = requeued \cup InFlight(a)
     \/ /\ worker' = [worker EXCEPT ![a] = NoRequest("held")]
        /\ UNCHANGED requeued
  /\ LateCharge(a)
  /\ UNCHANGED <<task, ledger, ordinal, requests, unreported>>

\* beginRecovery, once the lease has expired.
BeginRecovery(a) ==
  /\ worker[a].phase = "lost"
  /\ worker' = [worker EXCEPT ![a] = NoRequest("recovering")]
  /\ UNCHANGED <<task, ledger, ordinal, requests, requeued, money>>

\* The active reservations of an Agent.
Unfinished(a) == {r \in reservations : r.agent = a}

\* Mutant: recovery asks for unfinished tools only.
FinishRecoveryOfTools(a) ==
  /\ worker[a].phase = "recovering"
  /\ worker' = [worker EXCEPT ![a] = NoRequest("none")]
  /\ UNCHANGED <<task, ledger, ordinal, requests, requeued, money>>

\* Mutant: recovery releases what the dead Worker had reserved.
FinishRecoveryReleasing(a) ==
  /\ worker[a].phase = "recovering"
  /\ worker' = [worker EXCEPT ![a] = NoRequest("none")]
  /\ reservations' = reservations \ Unfinished(a)
  /\ UNCHANGED <<task, total, authorization, tally, ordinal, requests, requeued, money>>

\* finishRecovery: an Agent with an active reservation does not become claimable,
\* and its Task is flagged if it is running just then.
FinishRecovery(a) ==
  /\ worker[a].phase = "recovering"
  /\ IF Unfinished(a) = {}
     THEN /\ worker' = [worker EXCEPT ![a] = NoRequest("none")]
          /\ UNCHANGED task
     ELSE /\ worker' = [worker EXCEPT ![a] = NoRequest("held")]
          /\ task' = IF task = "running" THEN "unknown_outcome" ELSE task
  /\ UNCHANGED <<ledger, ordinal, requests, requeued, money>>

-----------------------------------------------------------------------------
(* The Task (transitionTask)                                               *)

\* The Task waits for an input or for the outside world.
Wait ==
  /\ task \in {"queued", "running"}
  /\ task' = "waiting"
  /\ UNCHANGED <<ledger, ordinal, worker, requests, requeued, money>>

\* A pause takes the Agents with it, so that a finishRecovery in progress fails.
Pause ==
  /\ task \in {"queued", "running", "waiting"}
  /\ task' = "waiting"
  /\ worker' = [a \in Agents |-> IF worker[a].phase = "recovering" THEN NoRequest("held") ELSE worker[a]]
  /\ UNCHANGED <<ledger, ordinal, requests, requeued, money>>

\* The Task is queued again, by its user or by its wake-up; nothing settles the
\* reservations left behind.
Resume ==
  /\ task \in {"waiting", "unknown_outcome"}
  /\ task' = "queued"
  /\ worker' = [a \in Agents |-> IF worker[a].phase = "held" THEN NoRequest("none") ELSE worker[a]]
  /\ requeued' = {r \in reservations : r.id # worker[r.agent].id}
  /\ UNCHANGED <<ledger, ordinal, requests, money>>

Next ==
  \/ \E a \in Agents :
       \/ Claim(a)
       \/ \E kind \in Kinds : StartRequest(a, kind)
       \/ Answer(a) \/ FinishRequest(a) \/ OutcomeUnknown(a)
       \/ Lose(a) \/ Detach(a) \/ BeginRecovery(a) \/ FinishRecovery(a)
  \/ Wait \/ Pause \/ Resume

Spec == Init /\ [][Next]_vars

-----------------------------------------------------------------------------
(* Properties                                                              *)

\* However the Workers interleave, what is settled and what is reserved stay
\* within the turn budget and the hard cost budget of the Task, save for answers
\* that cost more than their worst case (startProviderRequest).
BudgetHeld ==
  /\ total.turns + ReservedTurns(reservations) <= MaxTurns
  /\ total.cost + Reserved(reservations) <= MaxCost + overrun

\* Through crashes, lost leases, exits and restarts, what the provider has really
\* charged is settled, reserved, or lost in one of two ways only: an answer cost
\* more than its worst case, or reported less than it cost.  A request in flight,
\* or whose outcome is unknown, keeps its reservation (finishRecovery, Resume).
SpendingIsAccounted == spent <= total.cost + Reserved(reservations) + overrun + unreported

\* The books cover what the provider has really charged: a request whose outcome
\* is unknown keeps its reservation.
SpendingIsCovered == spent <= total.cost + Reserved(reservations) + overrun

\* The totals of the Task, of its Attempts and of its reviewer agree, and
\* reviewer_reserved_usd is the sum of the active reviewer reservations.
LedgerAgrees ==
  /\ total.turns = SumOf([e \in Agents \X Attempts |-> tally[e[1]][e[2]].turns])
  /\ total.cost = SumOf([e \in Agents \X Attempts |-> tally[e[1]][e[2]].cost])
  /\ authorization.cost = authorization.compiler + authorization.judge
  /\ authorization.reserved = Reserved({r \in reservations : r.kind \in Reviewer})

\* The reviewer never takes more than its cap, nor more than its allowance and
\* its share of what the Agents have spent.
ReviewerShareHeld ==
  /\ Committed <= Cap
  /\ ShareOf * Committed <= ShareOf * Allowance + MainSettled

\* An Agent whose Worker was lost with a request unsettled gets no new Attempt
\* before its Task has been queued again, whatever state the Task was in while
\* finishRecovery ran.  A Worker that exits with a request in flight, or goes on
\* after one it could neither settle nor mark, is not lost.
LostRequestStopsAgent ==
  [][\A a \in Agents : ordinal'[a] # ordinal[a] => Unfinished(a) \subseteq requeued]_vars
=============================================================================
