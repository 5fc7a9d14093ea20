------------------------- MODULE BudgetLedgerProofs -------------------------
(***************************************************************************)
(* Proofs about BudgetLedger, for any number of Agents, Attempts and       *)
(* requests, any limits and any costs: the safety properties of the budget *)
(* run.                                                                    *)
(***************************************************************************)
EXTENDS BudgetLedger, FiniteSetTheorems, TLAPS

\* Most steps are first-order logic: Zenon is tried first, then SMT, then Zenon for longer.
USE ZenonT(5), SMTT(20), ZenonT(60)

-----------------------------------------------------------------------------
(* Sums *)

\* What x adds to the sum of g.
At(g, x) == IF x \in DOMAIN g THEN g[x] ELSE 0

\* The units of a sum.
LEMMA UnitsOf ==
  ASSUME NEW g, NEW u
  PROVE  u \in Units(g) <=> \E x \in DOMAIN g : \E i \in 1..g[x] : u = <<x, i>>
  BY DEF Units

\* A larger function has more units.
LEMMA UnitsGrow ==
  ASSUME NEW g, NEW h, \A x \in DOMAIN g : g[x] \in Nat, \A x \in DOMAIN h : h[x] \in Nat,
         \A x \in DOMAIN g : At(g, x) <= At(h, x)
  PROVE  Units(g) \subseteq Units(h)
<1> SUFFICES ASSUME NEW x \in DOMAIN g, NEW i \in 1..g[x] PROVE <<x, i>> \in Units(h)
  BY UnitsOf
<1>1. x \in DOMAIN h /\ i \in 1..h[x]
  BY DEF At
<1> QED BY <1>1, UnitsOf

\* Adding k to a sum at one place adds k to it.
LEMMA SumGrows ==
  ASSUME NEW g, NEW h, NEW x, NEW k \in Nat,
         \A y \in DOMAIN g : g[y] \in Nat, \A y \in DOMAIN h : h[y] \in Nat,
         \A y : y # x => At(h, y) = At(g, y),
         At(h, x) = At(g, x) + k,
         IsFiniteSet(Units(g))
  PROVE  IsFiniteSet(Units(h)) /\ SumOf(g) \in Nat /\ SumOf(h) = SumOf(g) + k
<1> DEFINE low == At(g, x)
           N == {x} \X ((low + 1)..(low + k))
<1>1. low \in Nat
  BY DEF At
<1>2. IsFiniteSet(N) /\ Cardinality(N) = k
  <2>1. IsFiniteSet((low + 1)..(low + k)) /\ Cardinality((low + 1)..(low + k)) = k
    <3> HIDE DEF low
    <3>1. low + 1 \in Int /\ low + k \in Int
      BY <1>1
    <3>2. /\ IsFiniteSet((low + 1)..(low + k))
          /\ Cardinality((low + 1)..(low + k)) =
               IF low + 1 > low + k THEN 0 ELSE (low + k) - (low + 1) + 1
      BY <3>1, FS_Interval
    <3> QED BY <1>1, <3>2
  <2>2. IsFiniteSet({x}) /\ Cardinality({x}) = 1
    BY FS_Singleton
  <2> HIDE DEF low
  <2>3. IsFiniteSet(N) /\ Cardinality(N) = Cardinality({x}) * Cardinality((low + 1)..(low + k))
    BY <2>1, <2>2, FS_Product
  <2> QED BY <2>1, <2>2, <2>3
<1>3. Units(h) = Units(g) \cup N
  <2>1. Units(h) \subseteq Units(g) \cup N
    <3> SUFFICES ASSUME NEW y \in DOMAIN h, NEW i \in 1..h[y], <<y, i>> \notin N
                 PROVE  <<y, i>> \in Units(g)
      BY UnitsOf
    <3>1. i \in 1..At(g, y)
      BY <1>1 DEF At
    <3>2. y \in DOMAIN g /\ i \in 1..g[y]
      BY <3>1 DEF At
    <3> QED BY <3>2, UnitsOf
  <2>2. N \subseteq Units(h)
    <3> SUFFICES ASSUME NEW i \in (low + 1)..(low + k) PROVE <<x, i>> \in Units(h)
      OBVIOUS
    <3>1. i \in 1..At(h, x)
      BY <1>1
    <3>2. x \in DOMAIN h /\ i \in 1..h[x]
      BY <3>1 DEF At
    <3> QED BY <3>2, UnitsOf
  <2>3. Units(g) \subseteq Units(h)
    <3>1. \A y \in DOMAIN g : At(g, y) <= At(h, y)
      BY <1>1 DEF At
    <3> QED BY <3>1, UnitsGrow
  <2> QED BY <2>1, <2>2, <2>3
<1>4. Units(g) \cap N = {}
  <2> SUFFICES ASSUME NEW y \in DOMAIN g, NEW i \in 1..g[y], <<y, i>> \in N PROVE FALSE
    BY UnitsOf
  <2>1. y = x /\ i > low
    BY <1>1
  <2> QED BY <1>1, <2>1 DEF At
<1> HIDE DEF N
<1>5. Cardinality(Units(g)) \in Nat
  BY FS_CardinalityType
<1>6. /\ IsFiniteSet(Units(g) \cup N)
      /\ Cardinality(Units(g) \cup N) = Cardinality(Units(g)) + Cardinality(N) - Cardinality(Units(g) \cap N)
  BY <1>2, FS_Union
<1>7. Cardinality(Units(g) \cap N) = 0
  BY <1>4, FS_EmptySet
<1> QED BY <1>2, <1>3, <1>5, <1>6, <1>7 DEF SumOf

\* Changing a function at one place changes its sum by as much.
LEMMA SumChanges ==
  ASSUME NEW g, NEW h, NEW x,
         \A y \in DOMAIN g : g[y] \in Nat, \A y \in DOMAIN h : h[y] \in Nat,
         \A y : y # x => At(h, y) = At(g, y),
         IsFiniteSet(Units(g))
  PROVE  /\ IsFiniteSet(Units(h)) /\ SumOf(g) \in Nat /\ SumOf(h) \in Nat
         /\ SumOf(h) = SumOf(g) + At(h, x) - At(g, x)
<1>1. At(g, x) \in Nat /\ At(h, x) \in Nat
  BY DEF At
<1>2. CASE At(g, x) <= At(h, x)
  <2>1. PICK k \in Nat : At(h, x) = At(g, x) + k
    <3>1. At(h, x) - At(g, x) \in Nat /\ At(h, x) = At(g, x) + (At(h, x) - At(g, x))
      BY <1>1, <1>2
    <3> QED BY <3>1
  <2>2. IsFiniteSet(Units(h)) /\ SumOf(g) \in Nat /\ SumOf(h) = SumOf(g) + k
    BY <2>1, SumGrows
  <2> QED BY <1>1, <2>1, <2>2
<1>3. CASE At(h, x) < At(g, x)
  <2>1. PICK k \in Nat : At(g, x) = At(h, x) + k
    <3>1. At(g, x) - At(h, x) \in Nat /\ At(g, x) = At(h, x) + (At(g, x) - At(h, x))
      BY <1>1, <1>3
    <3> QED BY <3>1
  <2>2. IsFiniteSet(Units(h))
    <3>1. \A y \in DOMAIN h : At(h, y) <= At(g, y)
      BY <1>1, <1>3 DEF At
    <3>2. Units(h) \in SUBSET Units(g)
      BY <3>1, UnitsGrow
    <3> QED BY <3>2, FS_Subset
  <2>3. SumOf(h) \in Nat /\ SumOf(g) = SumOf(h) + k
    <3>1. \A y : y # x => At(g, y) = At(h, y)
      OBVIOUS
    <3> QED BY <2>1, <2>2, <3>1, SumGrows
  <2> QED BY <1>1, <2>1, <2>2, <2>3
<1> QED BY <1>1, <1>2, <1>3

\* A function that is nowhere larger has no larger sum.
LEMMA SumIsMonotone ==
  ASSUME NEW g, NEW h,
         \A y \in DOMAIN g : g[y] \in Nat, \A y \in DOMAIN h : h[y] \in Nat,
         \A y \in DOMAIN g : At(g, y) <= At(h, y),
         IsFiniteSet(Units(h))
  PROVE  IsFiniteSet(Units(g)) /\ SumOf(g) \in Nat /\ SumOf(h) \in Nat /\ SumOf(g) <= SumOf(h)
<1>1. Units(g) \in SUBSET Units(h)
  BY UnitsGrow
<1>2. IsFiniteSet(Units(g)) /\ Cardinality(Units(g)) <= Cardinality(Units(h))
  BY <1>1, FS_Subset
<1> QED BY <1>2, FS_CardinalityType DEF SumOf

\* The sum of zeros is zero.
LEMMA SumOfZeros ==
  ASSUME NEW g, \A y \in DOMAIN g : g[y] = 0
  PROVE  IsFiniteSet(Units(g)) /\ SumOf(g) = 0
<1>1. Units(g) = {}
  BY UnitsOf
<1> QED BY <1>1, FS_EmptySet DEF SumOf

-----------------------------------------------------------------------------
(* The inductive invariant *)

\* The part of reservation r that the provider may have charged already: none
\* while the request is on its way, the cost of the answer once it is there,
\* and the whole of it when nobody waits for the answer any more.
Charged(r) ==
  IF worker[r.agent].id # r.id THEN r.cost
  ELSE IF worker[r.agent].phase = "sent" THEN 0
  ELSE IF worker[r.agent].cost <= r.cost THEN worker[r.agent].cost ELSE r.cost

\* What an answer that is not settled yet cost above its reservation.
Excess(r) ==
  IF worker[r.agent].id = r.id /\ worker[r.agent].phase = "answered" /\ worker[r.agent].cost > r.cost
  THEN worker[r.agent].cost - r.cost ELSE 0

Costs == [r \in reservations |-> r.cost]
Turns == [r \in reservations |-> TurnsOf(r)]
ReviewerCosts == [r \in {q \in reservations : q.kind \in Reviewer} |-> r.cost]
Bookings == [r \in reservations |-> Charged(r)]
Excesses == [r \in reservations |-> Excess(r)]
TallyTurns == [e \in Agents \X Attempts |-> tally[e[1]][e[2]].turns]
TallyCosts == [e \in Agents \X Attempts |-> tally[e[1]][e[2]].cost]

\* Every sum is a number.
Countable ==
  /\ IsFiniteSet(Units(Costs)) /\ IsFiniteSet(Units(Turns)) /\ IsFiniteSet(Units(ReviewerCosts))
  /\ IsFiniteSet(Units(Bookings)) /\ IsFiniteSet(Units(Excesses))
  /\ IsFiniteSet(Units(TallyTurns)) /\ IsFiniteSet(Units(TallyCosts))

\* A reservation is known by its Agent and its number, which are used once.
KeysAreUnique ==
  /\ \A r \in reservations : r.id <= requests[r.agent]
  /\ \A r, q \in reservations : r.agent = q.agent /\ r.id = q.id => r = q

\* A Worker has an Attempt, a number while it has a request, and an answer that
\* reports no more than it cost.
WorkersSound ==
  \A a \in Agents :
    /\ worker[a].phase \in {"ready", "sent", "answered"} => ordinal[a] >= 1
    /\ worker[a].phase \notin {"sent", "answered"} => worker[a].id = 0
    /\ worker[a].usage <= worker[a].cost

\* The budget has room for every answer that waits to be settled, and the
\* books have every charge that was reported.
MoneySound ==
  /\ total.turns + SumOf(Turns) <= MaxTurns
  /\ total.cost + SumOf(Costs) + SumOf(Excesses) <= MaxCost + overrun
  /\ SumOf(Excesses) <= overrun
  /\ spent <= total.cost + SumOf(Bookings) + overrun + unreported

BudgetInv ==
  /\ TypeOK /\ Countable /\ KeysAreUnique /\ WorkersSound /\ MoneySound
  /\ LedgerAgrees /\ ReviewerShareHeld

-----------------------------------------------------------------------------
(* Types and keys *)

\* Max({0, x}), as the source writes Math.max.
LEMMA MaxWithZero ==
  ASSUME NEW x \in Int
  PROVE  Max({0, x}) = IF x > 0 THEN x ELSE 0
<1> DEFINE m == IF x > 0 THEN x ELSE 0
<1>1. m \in {0, x} /\ \A y \in {0, x} : m >= y
  OBVIOUS
<1>2. \A z \in {0, x} : (\A y \in {0, x} : z >= y) => z = m
  OBVIOUS
<1> HIDE DEF m
<1>3. Max({0, x}) = m
  BY <1>1, <1>2 DEF Max
<1> QED BY <1>3 DEF m

\* What a reservation is worth in each of the sums.
ValuesSound ==
  \A r \in reservations :
    /\ r.cost \in Nat /\ TurnsOf(r) \in Nat /\ Charged(r) \in Nat /\ Excess(r) \in Nat
    /\ Charged(r) <= r.cost

\* These values follow from the types of the rows.
LEMMA Values == TypeOK => ValuesSound
<1> SUFFICES ASSUME TypeOK, NEW r \in reservations
             PROVE  /\ r.cost \in Nat /\ TurnsOf(r) \in Nat /\ Charged(r) \in Nat /\ Excess(r) \in Nat
                    /\ Charged(r) <= r.cost
  BY DEF ValuesSound
<1>1. r.cost \in Nat /\ r.agent \in Agents
  BY DEF TypeOK
<1>2. worker[r.agent].cost \in Nat
  BY <1>1 DEF TypeOK
<1> QED BY <1>1, <1>2 DEF TurnsOf, Charged, Excess

\* The same after a step.
LEMMA NextValues == TypeOK' => ValuesSound'
  BY Values, PTL

\* A request of an Agent in flight, if it has a reservation, has only one.
LEMMA OneInFlight ==
  ASSUME KeysAreUnique, NEW a, NEW r \in InFlight(a), NEW q \in InFlight(a)
  PROVE  r = q
  BY DEF KeysAreUnique, InFlight

WorkerRows == [phase : Phases, id : 0..MaxRequests, cost : Nat, usage : Nat]

ReservationRows == [id : 1..MaxRequests, agent : Agents, attempt : Attempts, kind : Kinds, cost : Nat]

TaskStates == {"queued", "running", "waiting", "unknown_outcome"}

\* An Agent without a request.
LEMMA NoRequestRows ==
  ASSUME NEW p \in Phases
  PROVE  /\ NoRequest(p) \in WorkerRows /\ NoRequest(p).phase = p /\ NoRequest(p).id = 0
         /\ NoRequest(p).usage <= NoRequest(p).cost
  BY CostAssumption DEF NoRequest, WorkerRows

\* What the books say is sound: types, Attempts and keys.
RowsSound == TypeOK /\ WorkersSound /\ KeysAreUnique

\* The charge of an answer is a natural number.
LEMMA ChargeType ==
  ASSUME TypeOK, NEW r \in reservations, NEW c \in Charges[r.kind], Charge(r, c)
  PROVE  /\ c \in Nat /\ {spent, overrun}' \subseteq Nat
         /\ spent' = spent + c
         /\ overrun' = overrun + (IF c > r.cost THEN c - r.cost ELSE 0)
<1>1. r.cost \in Nat /\ r.kind \in Kinds /\ spent \in Nat /\ overrun \in Nat
  BY DEF TypeOK
<1>2. c \in Nat
  BY <1>1, CostAssumption
<1>3. Max({0, c - r.cost}) = IF c - r.cost > 0 THEN c - r.cost ELSE 0
  BY <1>1, <1>2, MaxWithZero
<1> QED BY <1>1, <1>2, <1>3 DEF Charge

\* What the steps of a Worker that leave the ledger alone do to the rows.
LEMMA WorkerTypeStep ==
  ASSUME RowsSound, NEW a \in Agents, NEW w \in WorkerRows,
         worker' = [worker EXCEPT ![a] = w], UNCHANGED <<ledger, ordinal, requests>>,
         w.phase \in {"ready", "sent", "answered"} => ordinal[a] >= 1,
         w.phase \notin {"sent", "answered"} => w.id = 0,
         w.usage <= w.cost,
         task' \in TaskStates, requeued' \subseteq ReservationRows,
         spent' \in Nat, overrun' \in Nat, unreported' \in Nat
  PROVE  RowsSound'
<1>1. worker' \in [Agents -> WorkerRows]
  BY DEF RowsSound, TypeOK, WorkerRows
<1>2. TypeOK'
  BY <1>1 DEF RowsSound, TypeOK, WorkerRows, ReservationRows, TaskStates, ledger
<1>3. WorkersSound'
  BY DEF RowsSound, TypeOK, WorkersSound
<1>4. KeysAreUnique'
  BY DEF RowsSound, KeysAreUnique, ledger
<1> QED BY <1>2, <1>3, <1>4 DEF RowsSound

\* A new Attempt keeps the rows.
LEMMA ClaimTypeStep ==
  ASSUME RowsSound, NEW a \in Agents, Claim(a)
  PROVE  RowsSound'
<1>0. /\ NoRequest("ready") \in WorkerRows /\ NoRequest("ready").phase = "ready"
      /\ NoRequest("ready").usage <= NoRequest("ready").cost
  BY NoRequestRows DEF Phases
<1>1. ordinal[a] \in 0..MaxAttempts /\ MaxAttempts \in Nat
  BY CostAssumption DEF RowsSound, TypeOK
<1>2. ordinal' \in [Agents -> 0..MaxAttempts]
  BY <1>1 DEF RowsSound, TypeOK, Claim
<1>3. worker' \in [Agents -> WorkerRows]
  BY <1>0 DEF RowsSound, TypeOK, Claim, WorkerRows
<1>4. TypeOK'
  BY <1>2, <1>3 DEF RowsSound, TypeOK, Claim, WorkerRows, ledger, money
<1>5. WorkersSound'
  <2> SUFFICES ASSUME NEW b \in Agents
               PROVE  /\ worker'[b].phase \in {"ready", "sent", "answered"} => ordinal'[b] >= 1
                      /\ worker'[b].phase \notin {"sent", "answered"} => worker'[b].id = 0
                      /\ worker'[b].usage <= worker'[b].cost
    BY DEF WorkersSound
  <2>1. CASE b = a
    <3>1. worker'[b] = NoRequest("ready") /\ ordinal'[b] = ordinal[a] + 1
      BY <2>1 DEF RowsSound, TypeOK, Claim
    <3>2. NoRequest("ready").id = 0
      BY DEF NoRequest
    <3> QED BY <1>0, <1>1, <3>1, <3>2
  <2>2. CASE b # a
    <3>1. worker'[b] = worker[b] /\ ordinal'[b] = ordinal[b]
      BY <2>2 DEF RowsSound, TypeOK, Claim
    <3> QED BY <3>1 DEF RowsSound, WorkersSound
  <2> QED BY <2>1, <2>2
<1>6. KeysAreUnique'
  BY DEF RowsSound, Claim, KeysAreUnique, ledger
<1> QED BY <1>4, <1>5, <1>6 DEF RowsSound

\* The steps that take the request from an Agent, if it has one.
GiveUp(a) == OutcomeUnknown(a) \/ Lose(a) \/ Detach(a) \/ BeginRecovery(a) \/ FinishRecovery(a)

\* What these steps have in common.
LEMMA GiveUpShape ==
  ASSUME NEW a \in Agents, GiveUp(a)
  PROVE  /\ \E p \in Phases : /\ worker' = [worker EXCEPT ![a] = NoRequest(p)]
                              /\ p \in {"sent", "answered"} => FALSE
                              /\ p = "ready" => worker[a].phase = "answered"
         /\ UNCHANGED <<ledger, ordinal, requests, unreported>>
         /\ LateCharge(a)
         /\ task' \in {task, "unknown_outcome"}
         /\ requeued' \subseteq requeued \cup InFlight(a)
<1>1. CASE OutcomeUnknown(a)
  <2>1. "ready" \in Phases
    BY DEF Phases
  <2> QED BY <1>1, <2>1 DEF OutcomeUnknown, LateCharge, money
<1>2. CASE Lose(a)
  <2>1. "lost" \in Phases
    BY DEF Phases
  <2> QED BY <1>2, <2>1 DEF Lose
<1>3. CASE Detach(a)
  <2>1. "none" \in Phases /\ "held" \in Phases
    BY DEF Phases
  <2> QED BY <1>3, <2>1 DEF Detach
<1>4. CASE BeginRecovery(a)
  <2>1. "recovering" \in Phases
    BY DEF Phases
  <2> QED BY <1>4, <2>1 DEF BeginRecovery, LateCharge, money
<1>5. CASE FinishRecovery(a)
  <2>1. "none" \in Phases /\ "held" \in Phases
    BY DEF Phases
  <2> QED BY <1>5, <2>1 DEF FinishRecovery, LateCharge, money
<1> QED BY <1>1, <1>2, <1>3, <1>4, <1>5 DEF GiveUp

\* Giving up a request keeps the rows.
LEMMA GiveUpTypeStep ==
  ASSUME RowsSound, NEW a \in Agents, GiveUp(a)
  PROVE  RowsSound'
<1>1. PICK p \in Phases : /\ worker' = [worker EXCEPT ![a] = NoRequest(p)]
                          /\ p \in {"sent", "answered"} => FALSE
                          /\ p = "ready" => worker[a].phase = "answered"
  BY GiveUpShape
<1>2. /\ UNCHANGED <<ledger, ordinal, requests, unreported>> /\ LateCharge(a)
      /\ task' \in {task, "unknown_outcome"} /\ requeued' \subseteq requeued \cup InFlight(a)
  BY GiveUpShape
<1>3. /\ task \in TaskStates /\ spent \in Nat /\ overrun \in Nat /\ unreported \in Nat
      /\ requeued \subseteq ReservationRows /\ InFlight(a) \subseteq ReservationRows
  BY DEF RowsSound, TypeOK, TaskStates, ReservationRows, InFlight
<1>4. spent' \in Nat /\ overrun' \in Nat
  <2>1. CASE UNCHANGED <<spent, overrun>>
    BY <1>3, <2>1
  <2>2. ASSUME NEW r \in InFlight(a), NEW c \in Charges[r.kind], Charge(r, c)
        PROVE  spent' \in Nat /\ overrun' \in Nat
    BY <2>2, ChargeType DEF InFlight, RowsSound
  <2> QED BY <1>2, <2>1, <2>2 DEF LateCharge
<1>5. p = "ready" => ordinal[a] >= 1
  BY <1>1 DEF RowsSound, WorkersSound
<1>6. task' \in TaskStates /\ requeued' \subseteq ReservationRows /\ unreported' \in Nat
  BY <1>2, <1>3 DEF TaskStates
<1>7. /\ NoRequest(p) \in WorkerRows /\ NoRequest(p).phase = p /\ NoRequest(p).id = 0
      /\ NoRequest(p).usage <= NoRequest(p).cost
  BY NoRequestRows
<1> QED BY <1>1, <1>2, <1>4, <1>5, <1>6, <1>7, WorkerTypeStep

\* The steps of the Task.
TaskStep == Wait \/ Pause \/ Resume

\* They move only Agents that have no request.
LEMMA TaskStepShape ==
  ASSUME RowsSound, TaskStep
  PROVE  /\ worker' \in [Agents -> WorkerRows]
         /\ \A b \in Agents : worker'[b] # worker[b] =>
              /\ worker[b].phase \in {"recovering", "held"} /\ worker[b].id = 0
              /\ worker'[b] \in {NoRequest("none"), NoRequest("held")}
         /\ UNCHANGED <<ledger, ordinal, requests, money>>
         /\ task' \in TaskStates /\ requeued' \subseteq ReservationRows
<1>1. worker \in [Agents -> WorkerRows] /\ requeued \subseteq ReservationRows /\ reservations \subseteq ReservationRows
  BY DEF RowsSound, TypeOK, WorkerRows, ReservationRows
<1>2. NoRequest("none") \in WorkerRows /\ NoRequest("held") \in WorkerRows
  BY NoRequestRows DEF Phases
<1>3. \A b \in Agents : worker[b].phase \in {"recovering", "held"} => worker[b].id = 0
  BY DEF RowsSound, WorkersSound
<1>4. CASE Wait
  BY <1>1, <1>4 DEF Wait, TaskStates
<1>5. CASE Pause
  <2>1. worker' = [b \in Agents |-> IF worker[b].phase = "recovering" THEN NoRequest("held") ELSE worker[b]]
    BY <1>5 DEF Pause
  <2>2. /\ UNCHANGED <<ledger, ordinal, requests, money>> /\ task' \in TaskStates
        /\ requeued' \subseteq ReservationRows
    BY <1>1, <1>5 DEF Pause, TaskStates
  <2> QED BY <1>1, <1>2, <1>3, <2>1, <2>2
<1>6. CASE Resume
  <2>1. worker' = [b \in Agents |-> IF worker[b].phase = "held" THEN NoRequest("none") ELSE worker[b]]
    BY <1>6 DEF Resume
  <2>2. /\ UNCHANGED <<ledger, ordinal, requests, money>> /\ task' \in TaskStates
        /\ requeued' \subseteq ReservationRows
    BY <1>1, <1>6 DEF Resume, TaskStates
  <2> QED BY <1>1, <1>2, <1>3, <2>1, <2>2
<1> QED BY <1>4, <1>5, <1>6 DEF TaskStep

\* A step of the Task keeps the rows.
LEMMA TaskTypeStep ==
  ASSUME RowsSound, TaskStep
  PROVE  RowsSound'
<1>1. /\ worker' \in [Agents -> WorkerRows]
      /\ UNCHANGED <<ledger, ordinal, requests, money>>
      /\ task' \in TaskStates /\ requeued' \subseteq ReservationRows
  BY TaskStepShape
<1>2. TypeOK'
  BY <1>1 DEF RowsSound, TypeOK, WorkerRows, ReservationRows, TaskStates, ledger, money
<1>3. WorkersSound'
  <2> SUFFICES ASSUME NEW b \in Agents
               PROVE  /\ worker'[b].phase \in {"ready", "sent", "answered"} => ordinal'[b] >= 1
                      /\ worker'[b].phase \notin {"sent", "answered"} => worker'[b].id = 0
                      /\ worker'[b].usage <= worker'[b].cost
    BY DEF WorkersSound
  <2>1. CASE worker'[b] = worker[b]
    BY <1>1, <2>1 DEF RowsSound, WorkersSound
  <2>2. CASE worker'[b] # worker[b]
    <3>1. worker'[b] \in {NoRequest("none"), NoRequest("held")}
      BY <2>2, TaskStepShape
    <3>2. /\ worker'[b].phase \notin {"ready", "sent", "answered"} /\ worker'[b].id = 0
          /\ worker'[b].usage = 0 /\ worker'[b].cost = 0
      BY <3>1 DEF NoRequest
    <3> QED BY <3>2
  <2> QED BY <2>1, <2>2
<1>4. KeysAreUnique'
  BY <1>1 DEF RowsSound, KeysAreUnique, ledger
<1> QED BY <1>2, <1>3, <1>4 DEF RowsSound

\* A Worker with an answer.
Answered(a, c, u) == [phase |-> "answered", id |-> worker[a].id, cost |-> c, usage |-> u]

\* What an answer does, in that notation.
LEMMA AnswerShape ==
  ASSUME NEW a \in Agents, Answer(a)
  PROVE  \E r \in InFlight(a) : \E c \in Charges[r.kind] : \E u \in Reports(c) :
           /\ Charge(r, c)
           /\ worker' = [worker EXCEPT ![a] = Answered(a, c, u)]
  BY DEF Answer, Answered

\* An answer reports no more than it costs.
LEMMA ReportsLess ==
  ASSUME NEW c \in Nat, NEW u \in Reports(c)
  PROVE  u \in Nat /\ u <= c
  BY CostAssumption DEF Reports

\* An answer keeps the rows.
LEMMA AnswerTypeStep ==
  ASSUME RowsSound, NEW a \in Agents, Answer(a)
  PROVE  RowsSound'
<1>0. PICK r \in InFlight(a) : \E c \in Charges[r.kind] : \E u \in Reports(c) :
        /\ Charge(r, c)
        /\ worker' = [worker EXCEPT ![a] = Answered(a, c, u)]
  BY AnswerShape
<1>1. PICK c \in Charges[r.kind] : \E u \in Reports(c) :
        /\ Charge(r, c)
        /\ worker' = [worker EXCEPT ![a] = Answered(a, c, u)]
  BY <1>0
<1>1a. PICK u \in Reports(c) :
        /\ Charge(r, c)
        /\ worker' = [worker EXCEPT ![a] = Answered(a, c, u)]
  BY <1>1
<1>2. c \in Nat /\ spent' \in Nat /\ overrun' \in Nat
  BY <1>1a, ChargeType DEF InFlight, RowsSound
<1>3. u \in Nat /\ u <= c
  BY <1>2, ReportsLess
<1> DEFINE w == Answered(a, c, u)
<1>4. w \in WorkerRows /\ w.phase = "answered" /\ w.usage <= w.cost
  <2>1. worker[a].id \in 0..MaxRequests /\ "answered" \in Phases
    BY DEF RowsSound, TypeOK, Phases
  <2> QED BY <1>2, <1>3, <2>1 DEF Answered, WorkerRows
<1>5. worker' = [worker EXCEPT ![a] = w]
  BY <1>1a
<1>6. ordinal[a] >= 1
  BY DEF RowsSound, WorkersSound, Answer
<1>7. /\ UNCHANGED <<ledger, ordinal, requests>> /\ task' \in TaskStates
      /\ requeued' \subseteq ReservationRows /\ unreported' \in Nat
  BY DEF Answer, RowsSound, TypeOK, TaskStates, ReservationRows
<1> HIDE DEF w
<1> QED BY <1>2, <1>4, <1>5, <1>6, <1>7, WorkerTypeStep

\* The row of the reservation startProviderRequest writes.
NewRow(a, kind) == [id |-> requests[a] + 1, agent |-> a, attempt |-> ordinal[a], kind |-> kind,
                    cost |-> Worst[kind]]

\* A new request keeps the rows.
LEMMA StartTypeStep ==
  ASSUME RowsSound, NEW a \in Agents, NEW kind \in Kinds, StartRequest(a, kind)
  PROVE  /\ RowsSound'
         /\ NewRow(a, kind) \in ReservationRows /\ NewRow(a, kind) \notin reservations
         /\ reservations' = reservations \cup {NewRow(a, kind)}
<1> DEFINE n == NewRow(a, kind)
<1>1. /\ requests[a] \in 0..MaxRequests /\ requests[a] < MaxRequests /\ MaxRequests \in Nat
      /\ MaxAttempts \in Nat /\ ordinal[a] \in 0..MaxAttempts /\ ordinal[a] >= 1
      /\ Worst[kind] \in Nat
  BY CostAssumption DEF RowsSound, TypeOK, WorkersSound, StartRequest
<1>2. requests' \in [Agents -> 0..MaxRequests] /\ requests'[a] = requests[a] + 1
      /\ \A b \in Agents : b # a => requests'[b] = requests[b]
  BY <1>1 DEF RowsSound, TypeOK, StartRequest
<1>3. reservations' = reservations \cup {n}
  BY <1>2 DEF StartRequest, NewRow
<1>4. n \in ReservationRows
  BY <1>1 DEF NewRow, ReservationRows, Attempts
<1>5. reservations' \subseteq ReservationRows
  BY <1>3, <1>4 DEF RowsSound, TypeOK, ReservationRows
<1> DEFINE w == [phase |-> "sent", id |-> requests[a] + 1, cost |-> 0, usage |-> 0]
<1>6. worker' = [worker EXCEPT ![a] = w]
  BY <1>2 DEF StartRequest
<1>7. w \in WorkerRows /\ w.phase = "sent" /\ w.usage = 0 /\ w.cost = 0
  BY <1>1 DEF WorkerRows, Phases
<1>8. worker' \in [Agents -> WorkerRows]
  BY <1>6, <1>7 DEF RowsSound, TypeOK, WorkerRows
<1>9. /\ authorization' \in [compilers : 0..CompilerLimit, reviewers : 0..ReviewerLimit,
                             cost : Nat, compiler : Nat, judge : Nat, reserved : Nat]
      /\ tally' \in [Agents -> [Attempts -> [turns : Nat, cost : Nat, reviews : 0..AttemptLimit]]]
  <2>1. CASE kind \notin Reviewer
    BY <2>1 DEF StartRequest, RowsSound, TypeOK
  <2>2. CASE kind \in Reviewer
    <3>1. WithinReviewerBudget(a, kind)
      BY <2>2 DEF StartRequest
    <3>2. CompilerLimit \in Nat /\ ReviewerLimit \in Nat /\ AttemptLimit \in Nat
      BY CostAssumption
    <3>3. authorization' \in [compilers : 0..CompilerLimit, reviewers : 0..ReviewerLimit,
                              cost : Nat, compiler : Nat, judge : Nat, reserved : Nat]
      <4> DEFINE A == [compilers : 0..CompilerLimit, reviewers : 0..ReviewerLimit,
                       cost : Nat, compiler : Nat, judge : Nat, reserved : Nat]
                 k == IF kind = "authorization_compile" THEN authorization.compilers + 1
                      ELSE authorization.compilers
      <4>1. authorization \in A
        BY DEF RowsSound, TypeOK
      <4>2. k \in 0..CompilerLimit
        BY <3>1, <3>2, <4>1 DEF WithinReviewerBudget
      <4>3. authorization.reviewers + 1 \in 0..ReviewerLimit
        BY <3>1, <3>2, <4>1 DEF WithinReviewerBudget
      <4>4. authorization.reserved + Worst[kind] \in Nat
        BY <1>1, <4>1
      <4>5. authorization' = [authorization EXCEPT !.compilers = k,
                                !.reviewers = authorization.reviewers + 1,
                                !.reserved = authorization.reserved + Worst[kind]]
        BY <2>2, <4>1 DEF StartRequest
      <4> HIDE DEF k
      <4> QED BY <4>1, <4>2, <4>3, <4>4, <4>5
    <3> DEFINE T == [turns : Nat, cost : Nat, reviews : 0..AttemptLimit]
               t == [tally[a][ordinal[a]] EXCEPT !.reviews = @ + 1]
    <3>4. ordinal[a] \in Attempts
      BY <1>1 DEF Attempts
    <3>5. tally[a][ordinal[a]] \in T
      BY <3>4 DEF RowsSound, TypeOK
    <3>6. t \in T
      BY <3>1, <3>2, <3>5 DEF WithinReviewerBudget
    <3>7. tally' = [tally EXCEPT ![a] = [tally[a] EXCEPT ![ordinal[a]] = t]]
      BY <2>2, <3>4 DEF StartRequest, RowsSound, TypeOK
    <3>8. tally \in [Agents -> [Attempts -> T]]
      BY DEF RowsSound, TypeOK
    <3> HIDE DEF T, t
    <3>9. tally' \in [Agents -> [Attempts -> T]]
      BY <3>4, <3>6, <3>7, <3>8
    <3> QED BY <3>3, <3>9 DEF T
  <2> QED BY <2>1, <2>2
<1>10. TypeOK'
  BY <1>2, <1>5, <1>8, <1>9 DEF StartRequest, RowsSound, TypeOK, WorkerRows, ReservationRows, money
<1>11. WorkersSound'
  <2> HIDE DEF w
  <2> QED BY <1>1, <1>6, <1>7 DEF StartRequest, RowsSound, TypeOK, WorkersSound
<1>12. \A r \in reservations : r.id <= requests[r.agent] /\ r.id \in Nat /\ r.agent \in Agents
  BY DEF RowsSound, KeysAreUnique, TypeOK
<1>13. n.id = requests[a] + 1 /\ n.agent = a
  BY DEF NewRow
<1> HIDE DEF n
<1>14. \A r \in reservations : ~ (r.agent = n.agent /\ r.id = n.id)
  BY <1>1, <1>12, <1>13
<1>15. KeysAreUnique'
  <2>1. \A r \in reservations' : r.id <= requests'[r.agent]
    <3> SUFFICES ASSUME NEW r \in reservations' PROVE r.id <= requests'[r.agent]
      OBVIOUS
    <3>1. CASE r = n
      BY <1>1, <1>2, <1>13, <3>1
    <3>2. CASE r \in reservations
      <4>1. requests[r.agent] \in Nat
        BY <1>12, <3>2 DEF RowsSound, TypeOK
      <4> QED BY <1>2, <1>12, <3>2, <4>1
    <3> QED BY <1>3, <3>1, <3>2
  <2>2. \A r, q \in reservations' : r.agent = q.agent /\ r.id = q.id => r = q
    BY <1>3, <1>14 DEF RowsSound, KeysAreUnique
  <2> QED BY <2>1, <2>2 DEF KeysAreUnique
<1> QED BY <1>3, <1>4, <1>10, <1>11, <1>14, <1>15 DEF n, RowsSound

TallyRows == [turns : Nat, cost : Nat, reviews : 0..AttemptLimit]

\* Settling a reservation adds to the tally of its Attempt, and to no other.
LEMMA SettleTally ==
  ASSUME TypeOK, NEW r \in reservations, NEW c \in Nat, Settle(r, c)
  PROVE  /\ tally' \in [Agents -> [Attempts -> TallyRows]]
         /\ tally'[r.agent][r.attempt].turns = tally[r.agent][r.attempt].turns + TurnsOf(r)
         /\ tally'[r.agent][r.attempt].cost = tally[r.agent][r.attempt].cost + c
         /\ \A b \in Agents, n \in Attempts :
              ~ (b = r.agent /\ n = r.attempt) => tally'[b][n] = tally[b][n]
<1> DEFINE x == r.agent
           y == r.attempt
           t == [tally[x][y] EXCEPT !.turns = @ + TurnsOf(r), !.cost = @ + c]
<1>1. x \in Agents /\ y \in Attempts /\ TurnsOf(r) \in Nat
  BY DEF TypeOK, TurnsOf
<1>2. tally \in [Agents -> [Attempts -> TallyRows]]
  BY DEF TypeOK, TallyRows
<1>3. tally[x][y] \in TallyRows
  BY <1>1, <1>2
<1>4. /\ t \in TallyRows
      /\ t.turns = tally[x][y].turns + TurnsOf(r) /\ t.cost = tally[x][y].cost + c
  <2> DEFINE p == tally[x][y].turns + TurnsOf(r)
             q == tally[x][y].cost + c
             old == tally[x][y]
  <2>1. p \in Nat /\ q \in Nat
    BY <1>1, <1>3 DEF TallyRows
  <2>2. t = [old EXCEPT !.turns = p, !.cost = q]
    BY <1>3 DEF TallyRows
  <2>3. old \in TallyRows
    BY <1>3
  <2> HIDE DEF t, p, q, old
  <2>4. t \in TallyRows /\ t.turns = p /\ t.cost = q
    BY <2>1, <2>2, <2>3 DEF TallyRows
  <2> QED BY <2>4 DEF p, q
<1>5. tally' = [tally EXCEPT ![x] = [tally[x] EXCEPT ![y] = t]]
  <2>1. tally' = [tally EXCEPT ![x][y].turns = @ + TurnsOf(r), ![x][y].cost = @ + c]
    BY DEF Settle
  <2> QED BY <1>1, <1>2, <1>3, <2>1 DEF TallyRows
<1> HIDE DEF t, x, y
<1>6. /\ tally' \in [Agents -> [Attempts -> TallyRows]] /\ tally'[x][y] = t
      /\ \A b \in Agents, n \in Attempts : ~ (b = x /\ n = y) => tally'[b][n] = tally[b][n]
  BY <1>1, <1>2, <1>4, <1>5
<1> QED BY <1>4, <1>6 DEF x, y

AuthorizationRows == [compilers : 0..CompilerLimit, reviewers : 0..ReviewerLimit,
                      cost : Nat, compiler : Nat, judge : Nat, reserved : Nat]

\* Settling a reservation moves it, for the reviewer, from reserved to cost.
LEMMA SettleAuthorization ==
  ASSUME TypeOK, NEW r \in reservations, NEW c \in Nat, Settle(r, c)
  PROVE  /\ authorization' \in AuthorizationRows
         /\ r.kind = "agent" => authorization' = authorization
         /\ r.kind \in Reviewer =>
              /\ authorization'.cost = authorization.cost + c
              /\ authorization'.compiler + authorization'.judge =
                   authorization.compiler + authorization.judge + c
              /\ authorization'.reserved =
                   IF authorization.reserved > r.cost THEN authorization.reserved - r.cost ELSE 0
<1>1. authorization \in AuthorizationRows /\ r.cost \in Nat /\ r.kind \in Kinds
  BY DEF TypeOK, AuthorizationRows
<1>2. CASE r.kind \notin Reviewer
  BY <1>1, <1>2 DEF Settle
<1>3. CASE r.kind \in Reviewer
  <2> DEFINE k == IF r.kind = "authorization_compile" THEN authorization.compiler + c ELSE authorization.compiler
             j == IF r.kind = "permission_review" THEN authorization.judge + c ELSE authorization.judge
             v == Max({0, authorization.reserved - r.cost})
  <2>1. k \in Nat /\ j \in Nat
    BY <1>1 DEF AuthorizationRows
  <2>2. k + j = authorization.compiler + authorization.judge + c
    BY <1>1, <1>3 DEF AuthorizationRows, Reviewer, Kinds
  <2>3. authorization.reserved - r.cost \in Int
    BY <1>1 DEF AuthorizationRows
  <2>4. v = IF authorization.reserved - r.cost > 0 THEN authorization.reserved - r.cost ELSE 0
    BY <2>3, MaxWithZero
  <2>5. v \in Nat /\ v = IF authorization.reserved > r.cost THEN authorization.reserved - r.cost ELSE 0
    BY <1>1, <2>4 DEF AuthorizationRows
  <2>6. authorization' = [authorization EXCEPT !.cost = authorization.cost + c, !.compiler = k,
                                               !.judge = j, !.reserved = v]
    BY <1>1, <1>3 DEF Settle, AuthorizationRows
  <2>7. authorization.cost + c \in Nat
    BY <1>1 DEF AuthorizationRows
  <2>8. r.kind # "agent"
    BY <1>3 DEF Reviewer
  <2> HIDE DEF k, j, v
  <2>9. /\ authorization' \in AuthorizationRows
        /\ authorization'.cost = authorization.cost + c /\ authorization'.compiler = k
        /\ authorization'.judge = j /\ authorization'.reserved = v
    BY <1>1, <2>1, <2>5, <2>6, <2>7 DEF AuthorizationRows
  <2> QED BY <1>3, <2>2, <2>5, <2>8, <2>9
<1> QED BY <1>2, <1>3 DEF Reviewer

\* Settling a request keeps the rows.
LEMMA FinishTypeStep ==
  ASSUME RowsSound, NEW a \in Agents, FinishRequest(a)
  PROVE  RowsSound'
<1>1. PICK r \in InFlight(a) : Settle(r, worker[a].usage)
  BY DEF FinishRequest
<1> DEFINE c == worker[a].usage
<1>2. c \in Nat /\ r \in reservations /\ TypeOK
  BY DEF RowsSound, TypeOK, InFlight
<1>3. tally' \in [Agents -> [Attempts -> TallyRows]]
  BY <1>1, <1>2, SettleTally
<1>4. authorization' \in AuthorizationRows
  BY <1>1, <1>2, SettleAuthorization
<1>5. total' \in [turns : Nat, cost : Nat]
  BY <1>1, <1>2 DEF TypeOK, Settle, TurnsOf
<1>6. /\ NoRequest("ready") \in WorkerRows /\ NoRequest("ready").phase = "ready"
      /\ NoRequest("ready").id = 0 /\ NoRequest("ready").usage <= NoRequest("ready").cost
  BY NoRequestRows DEF Phases
<1>7. worker' = [worker EXCEPT ![a] = NoRequest("ready")] /\ worker' \in [Agents -> WorkerRows]
  BY <1>2, <1>6 DEF FinishRequest, TypeOK, WorkerRows
<1>8. reservations' \subseteq reservations /\ UNCHANGED <<task, ordinal, requests, requeued, spent, overrun>>
  BY <1>1 DEF FinishRequest, Settle
<1>9. unreported' \in Nat
  <2>1. /\ worker[a].cost \in Nat /\ worker[a].usage \in Nat /\ worker[a].usage <= worker[a].cost
        /\ unreported \in Nat
    BY DEF RowsSound, TypeOK, WorkersSound
  <2> QED BY <2>1 DEF FinishRequest
<1>10. TypeOK'
  BY <1>2, <1>3, <1>4, <1>5, <1>7, <1>8, <1>9 DEF TypeOK, WorkerRows, TallyRows, AuthorizationRows
<1>11. WorkersSound'
  BY <1>6, <1>7, <1>8 DEF FinishRequest, RowsSound, TypeOK, WorkersSound
<1>12. KeysAreUnique'
  BY <1>8 DEF RowsSound, KeysAreUnique
<1> QED BY <1>10, <1>11, <1>12 DEF RowsSound

\* Every step keeps the types, the Attempts of the Workers and the keys.
LEMMA RowsStep ==
  ASSUME RowsSound, [Next]_vars
  PROVE  RowsSound'
<1>1. CASE UNCHANGED vars
  BY <1>1 DEF vars, ledger, money, RowsSound, TypeOK, WorkersSound, KeysAreUnique
<1>2. CASE TaskStep
  BY <1>2, TaskTypeStep
<1>3. ASSUME NEW a \in Agents, Claim(a) PROVE RowsSound'
  BY <1>3, ClaimTypeStep
<1>4. ASSUME NEW a \in Agents, GiveUp(a) PROVE RowsSound'
  BY <1>4, GiveUpTypeStep
<1>5. ASSUME NEW a \in Agents, NEW kind \in Kinds, StartRequest(a, kind) PROVE RowsSound'
  BY <1>5, StartTypeStep
<1>6. ASSUME NEW a \in Agents, Answer(a) PROVE RowsSound'
  BY <1>6, AnswerTypeStep
<1>7. ASSUME NEW a \in Agents, FinishRequest(a) PROVE RowsSound'
  BY <1>7, FinishTypeStep
<1> QED BY <1>1, <1>2, <1>3, <1>4, <1>5, <1>6, <1>7 DEF Next, TaskStep, GiveUp

-----------------------------------------------------------------------------
(* Steps that leave the ledger alone *)

\* A sum with finitely many units is a number.
LEMMA SumType ==
  ASSUME NEW g, IsFiniteSet(Units(g))
  PROVE  SumOf(g) \in Nat
  BY FS_CardinalityType DEF SumOf

\* The numbers the proofs calculate with.
LEMMA Numbers ==
  ASSUME TypeOK, Countable
  PROVE  /\ total.turns \in Nat /\ total.cost \in Nat /\ {spent, overrun, unreported} \subseteq Nat
         /\ authorization.cost \in Nat /\ authorization.reserved \in Nat
         /\ SumOf(Costs) \in Nat /\ SumOf(Turns) \in Nat /\ SumOf(ReviewerCosts) \in Nat
         /\ SumOf(Bookings) \in Nat /\ SumOf(Excesses) \in Nat
         /\ SumOf(TallyTurns) \in Nat /\ SumOf(TallyCosts) \in Nat
         /\ MaxTurns \in Nat /\ MaxCost \in Nat
<1>1. /\ total.turns \in Nat /\ total.cost \in Nat /\ {spent, overrun, unreported} \subseteq Nat
      /\ authorization.cost \in Nat /\ authorization.reserved \in Nat
  BY DEF TypeOK
<1>2. MaxTurns \in Nat /\ MaxCost \in Nat
  BY CostAssumption
<1> QED BY <1>1, <1>2, SumType DEF Countable

\* When the ledger stays, what is left to show is about the charges.
LEMMA LedgerStays ==
  ASSUME BudgetInv, RowsSound', UNCHANGED ledger,
         IsFiniteSet(Units(Bookings')), IsFiniteSet(Units(Excesses')), MoneySound'
  PROVE  BudgetInv'
<1>1. /\ Costs' = Costs /\ Turns' = Turns /\ ReviewerCosts' = ReviewerCosts
      /\ TallyTurns' = TallyTurns /\ TallyCosts' = TallyCosts
  BY DEF ledger, Costs, Turns, ReviewerCosts, TallyTurns, TallyCosts
<1>2. Countable'
  BY <1>1 DEF BudgetInv, Countable
<1>3. LedgerAgrees'
  BY DEF BudgetInv, LedgerAgrees, ledger, Reserved
<1>4. ReviewerShareHeld'
  BY DEF BudgetInv, ReviewerShareHeld, Committed, MainSettled, ledger
<1> QED BY <1>2, <1>3, <1>4 DEF BudgetInv, RowsSound

\* When no charge changes either, nothing does.
LEMMA ChargesStay ==
  ASSUME BudgetInv, RowsSound', UNCHANGED <<ledger, money>>,
         \A q \in reservations : Charged(q)' = Charged(q) /\ Excess(q)' = Excess(q)
  PROVE  BudgetInv'
<1>1. Bookings' = Bookings /\ Excesses' = Excesses
  BY DEF ledger, Bookings, Excesses
<1>2. Costs' = Costs /\ Turns' = Turns /\ total' = total
  BY DEF ledger, Costs, Turns
<1>3. MoneySound'
  BY <1>1, <1>2 DEF BudgetInv, MoneySound, money
<1> QED BY <1>1, <1>3, LedgerStays DEF BudgetInv, Countable, ledger

\* When the charge of one reservation changes, the sums change with it.
LEMMA OneCharge ==
  ASSUME TypeOK, TypeOK', Countable, UNCHANGED ledger, NEW r \in reservations,
         \A q \in reservations \ {r} : Charged(q)' = Charged(q) /\ Excess(q)' = Excess(q)
  PROVE  /\ IsFiniteSet(Units(Bookings')) /\ IsFiniteSet(Units(Excesses'))
         /\ SumOf(Bookings)' = SumOf(Bookings) + Charged(r)' - Charged(r)
         /\ SumOf(Excesses)' = SumOf(Excesses) + Excess(r)' - Excess(r)
<1>1. ValuesSound /\ ValuesSound' /\ reservations' = reservations
  BY Values, NextValues DEF ledger
<1>2. /\ IsFiniteSet(Units(Bookings'))
      /\ SumOf(Bookings') = SumOf(Bookings) + Charged(r)' - Charged(r)
  <2> DEFINE g == Bookings
             h == Bookings'
  <2>1. DOMAIN g = reservations /\ DOMAIN h = reservations
        /\ \A q \in reservations : g[q] = Charged(q) /\ h[q] = Charged(q)'
    BY <1>1 DEF Bookings
  <2>2. (\A y \in DOMAIN g : g[y] \in Nat) /\ (\A y \in DOMAIN h : h[y] \in Nat)
    BY <1>1, <2>1 DEF ValuesSound
  <2>3. \A y : y # r => At(h, y) = At(g, y)
    BY <2>1 DEF At
  <2>4. IsFiniteSet(Units(g))
    BY DEF Countable
  <2>5. At(g, r) = Charged(r) /\ At(h, r) = Charged(r)'
    BY <2>1 DEF At
  <2> HIDE DEF g, h
  <2>6. IsFiniteSet(Units(h)) /\ SumOf(h) = SumOf(g) + At(h, r) - At(g, r)
    BY <2>2, <2>3, <2>4, SumChanges
  <2> QED BY <2>5, <2>6 DEF g, h
<1>3. /\ IsFiniteSet(Units(Excesses'))
      /\ SumOf(Excesses') = SumOf(Excesses) + Excess(r)' - Excess(r)
  <2> DEFINE g == Excesses
             h == Excesses'
  <2>1. DOMAIN g = reservations /\ DOMAIN h = reservations
        /\ \A q \in reservations : g[q] = Excess(q) /\ h[q] = Excess(q)'
    BY <1>1 DEF Excesses
  <2>2. (\A y \in DOMAIN g : g[y] \in Nat) /\ (\A y \in DOMAIN h : h[y] \in Nat)
    BY <1>1, <2>1 DEF ValuesSound
  <2>3. \A y : y # r => At(h, y) = At(g, y)
    BY <2>1 DEF At
  <2>4. IsFiniteSet(Units(g))
    BY DEF Countable
  <2>5. At(g, r) = Excess(r) /\ At(h, r) = Excess(r)'
    BY <2>1 DEF At
  <2> HIDE DEF g, h
  <2>6. IsFiniteSet(Units(h)) /\ SumOf(h) = SumOf(g) + At(h, r) - At(g, r)
    BY <2>2, <2>3, <2>4, SumChanges
  <2> QED BY <2>5, <2>6 DEF g, h
<1>4. SumOf(Bookings)' = SumOf(Bookings') /\ SumOf(Excesses)' = SumOf(Excesses')
  BY DEF SumOf, Units
<1> QED BY <1>2, <1>3, <1>4

\* A step of one Worker changes the charge of no reservation but the one it has
\* in flight.
LEMMA OtherCharges ==
  ASSUME RowsSound, NEW a \in Agents, NEW w, worker' = [worker EXCEPT ![a] = w],
         w.id = 0 \/ w.id = worker[a].id, NEW q \in reservations, q \notin InFlight(a)
  PROVE  Charged(q)' = Charged(q) /\ Excess(q)' = Excess(q)
<1>1. q.agent \in Agents /\ q.id \in 1..MaxRequests /\ worker[a].id \in Nat
  BY CostAssumption DEF RowsSound, TypeOK
<1>2. CASE q.agent # a
  <2>1. worker'[q.agent] = worker[q.agent]
    BY <1>1, <1>2 DEF RowsSound, TypeOK
  <2> QED BY <2>1 DEF Charged, Excess
<1>3. CASE q.agent = a
  <2>1. worker[a].id # q.id /\ w.id # q.id
    BY <1>1, <1>3 DEF InFlight
  <2>2. worker'[a] = w
    BY DEF RowsSound, TypeOK
  <2> QED BY <1>3, <2>1, <2>2 DEF Charged, Excess
<1> QED BY <1>2, <1>3

\* A Worker that gives up its request leaves the reservation behind, which from
\* then on stands for the charge; the charge may come with the same step.
LEMMA ReleaseStep ==
  ASSUME BudgetInv, RowsSound', UNCHANGED ledger, NEW a \in Agents, NEW w,
         worker' = [worker EXCEPT ![a] = w], w.id = 0, LateCharge(a), UNCHANGED unreported
  PROVE  BudgetInv'
<1>0. RowsSound /\ TypeOK /\ TypeOK' /\ Countable
  BY DEF BudgetInv, RowsSound
<1>1. \A q \in reservations : q \notin InFlight(a) => Charged(q)' = Charged(q) /\ Excess(q)' = Excess(q)
  BY <1>0, OtherCharges
<1>2. CASE InFlight(a) = {}
  BY <1>1, <1>2, ChargesStay DEF LateCharge, money
<1>3. ASSUME NEW r \in InFlight(a) PROVE BudgetInv'
  <2>1. r \in reservations /\ r.agent = a /\ r.id = worker[a].id /\ r.id \in 1..MaxRequests
    BY <1>0 DEF InFlight, TypeOK
  <2>2. \A q \in reservations \ {r} : Charged(q)' = Charged(q) /\ Excess(q)' = Excess(q)
    BY <1>0, <1>1, OneInFlight DEF RowsSound
  <2>3. Charged(r)' = r.cost /\ Excess(r)' = 0
    <3>1. worker'[a] = w /\ w.id # r.id
      BY <1>0, <2>1, CostAssumption DEF TypeOK
    <3> QED BY <2>1, <3>1 DEF Charged, Excess
  <2>4. r.cost \in Nat /\ Charged(r) \in Nat /\ Excess(r) \in Nat /\ Charged(r) <= r.cost
    BY <1>0, <2>1, Values DEF ValuesSound
  <2>5. /\ IsFiniteSet(Units(Bookings')) /\ IsFiniteSet(Units(Excesses'))
        /\ SumOf(Bookings)' = SumOf(Bookings) + r.cost - Charged(r)
        /\ SumOf(Excesses)' = SumOf(Excesses) - Excess(r)
    <3>1. /\ IsFiniteSet(Units(Bookings')) /\ IsFiniteSet(Units(Excesses'))
          /\ SumOf(Bookings)' = SumOf(Bookings) + Charged(r)' - Charged(r)
          /\ SumOf(Excesses)' = SumOf(Excesses) + Excess(r)' - Excess(r)
      BY <1>0, <2>1, <2>2, OneCharge
    <3>2. SumOf(Excesses) \in Nat
      BY <1>0, Numbers
    <3> QED BY <2>3, <2>4, <3>1, <3>2
  <2>6. /\ overrun' \in Nat /\ overrun <= overrun'
        /\ spent' <= spent + r.cost - Charged(r) + (overrun' - overrun)
    <3>1. spent \in Nat /\ overrun \in Nat
      BY <1>0, Numbers
    <3>2. CASE UNCHANGED <<spent, overrun>>
      BY <2>4, <3>1, <3>2
    <3>3. ASSUME worker[a].phase = "sent", NEW q \in InFlight(a), NEW c \in Charges[q.kind], Charge(q, c)
          PROVE  /\ overrun' \in Nat /\ overrun <= overrun'
                 /\ spent' <= spent + r.cost - Charged(r) + (overrun' - overrun)
      <4>1. q = r
        BY <1>0, <3>3, OneInFlight DEF RowsSound
      <4>2. c \in Nat /\ spent' = spent + c /\ overrun' = overrun + (IF c > r.cost THEN c - r.cost ELSE 0)
        BY <1>0, <2>1, <3>3, <4>1, ChargeType
      <4>3. Charged(r) = 0
        BY <2>1, <3>3 DEF Charged
      <4> QED BY <2>4, <3>1, <4>2, <4>3
    <3> QED BY <3>2, <3>3 DEF LateCharge
  <2>7. total' = total /\ SumOf(Turns)' = SumOf(Turns) /\ SumOf(Costs)' = SumOf(Costs)
    BY DEF ledger, Turns, Costs
  <2>8. MoneySound'
    <3>1. spent' \in Nat
      BY <1>0 DEF TypeOK
    <3>2. MoneySound
      BY DEF BudgetInv
    <3> QED BY <1>0, <2>4, <2>5, <2>6, <2>7, <3>1, <3>2, Numbers DEF MoneySound
  <2> QED BY <2>5, <2>8, LedgerStays
<1> QED BY <1>2, <1>3

\* A new Attempt, and giving up a request, keep the books.
LEMMA QuietStep ==
  ASSUME BudgetInv, RowsSound', NEW a \in Agents, Claim(a) \/ GiveUp(a)
  PROVE  BudgetInv'
<1>1. UNCHANGED <<ledger, unreported>> /\ LateCharge(a)
  <2>1. CASE Claim(a)
    BY <2>1 DEF Claim, LateCharge, money
  <2>2. CASE GiveUp(a)
    BY <2>2, GiveUpShape
  <2> QED BY <2>1, <2>2
<1>2. PICK p \in Phases : worker' = [worker EXCEPT ![a] = NoRequest(p)]
  <2>1. CASE Claim(a)
    BY <2>1 DEF Claim, Phases
  <2>2. CASE GiveUp(a)
    BY <2>2, GiveUpShape
  <2> QED BY <2>1, <2>2
<1>3. NoRequest(p).id = 0
  BY DEF NoRequest
<1> QED BY <1>1, <1>2, <1>3, ReleaseStep

\* A step of the Task keeps the books.
LEMMA TaskMoneyStep ==
  ASSUME BudgetInv, RowsSound', TaskStep
  PROVE  BudgetInv'
<1>0. RowsSound /\ TypeOK
  BY DEF BudgetInv, RowsSound
<1>1. UNCHANGED <<ledger, money>>
  BY <1>0, TaskStepShape
<1>2. \A q \in reservations : Charged(q)' = Charged(q) /\ Excess(q)' = Excess(q)
  <2> SUFFICES ASSUME NEW q \in reservations PROVE Charged(q)' = Charged(q) /\ Excess(q)' = Excess(q)
    OBVIOUS
  <2>1. q.agent \in Agents /\ q.id # 0
    BY <1>0, CostAssumption DEF TypeOK
  <2>2. CASE worker'[q.agent] = worker[q.agent]
    BY <2>2 DEF Charged, Excess
  <2>3. CASE worker'[q.agent] # worker[q.agent]
    <3>1. worker[q.agent].id = 0 /\ worker'[q.agent] \in {NoRequest("none"), NoRequest("held")}
      BY <1>0, <2>1, <2>3, TaskStepShape
    <3>2. worker'[q.agent].id = 0
      BY <3>1 DEF NoRequest
    <3> QED BY <2>1, <3>1, <3>2 DEF Charged, Excess
  <2> QED BY <2>2, <2>3
<1> QED BY <1>1, <1>2, ChargesStay

\* The answer of the provider turns the reservation into a charge.
LEMMA AnswerStep ==
  ASSUME BudgetInv, RowsSound', NEW a \in Agents, Answer(a)
  PROVE  BudgetInv'
<1>0. RowsSound /\ TypeOK /\ TypeOK' /\ Countable /\ MoneySound /\ UNCHANGED <<ledger, unreported>>
  BY DEF BudgetInv, RowsSound, Answer
<1>1. PICK r \in InFlight(a) : \E c \in Charges[r.kind] : \E u \in Reports(c) :
        /\ Charge(r, c)
        /\ worker' = [worker EXCEPT ![a] = Answered(a, c, u)]
  BY AnswerShape
<1>1a. PICK c \in Charges[r.kind] : \E u \in Reports(c) :
        /\ Charge(r, c)
        /\ worker' = [worker EXCEPT ![a] = Answered(a, c, u)]
  BY <1>1
<1>2. PICK u \in Reports(c) :
        /\ Charge(r, c)
        /\ worker' = [worker EXCEPT ![a] = Answered(a, c, u)]
  BY <1>1a
<1>3. r \in reservations /\ r.agent = a /\ r.id = worker[a].id
  BY DEF InFlight
<1>4. c \in Nat /\ spent' = spent + c /\ overrun' = overrun + (IF c > r.cost THEN c - r.cost ELSE 0)
  BY <1>0, <1>2, <1>3, ChargeType
<1> DEFINE w == Answered(a, c, u)
<1>5. /\ worker' = [worker EXCEPT ![a] = w] /\ worker'[a] = w
      /\ w.id = worker[a].id /\ w.phase = "answered" /\ w.cost = c
  BY <1>0, <1>2 DEF TypeOK, Answered
<1> HIDE DEF w
<1>6. \A q \in reservations \ {r} : Charged(q)' = Charged(q) /\ Excess(q)' = Excess(q)
  <2>1. \A q \in reservations : q \notin InFlight(a) => Charged(q)' = Charged(q) /\ Excess(q)' = Excess(q)
    BY <1>0, <1>5, OtherCharges
  <2> QED BY <1>0, <2>1, OneInFlight DEF RowsSound
<1>7. Charged(r) = 0 /\ Excess(r) = 0
  BY <1>3 DEF Charged, Excess, Answer
<1>8. /\ Charged(r)' = IF c <= r.cost THEN c ELSE r.cost
      /\ Excess(r)' = IF c > r.cost THEN c - r.cost ELSE 0
  BY <1>3, <1>5 DEF Charged, Excess
<1>9. /\ IsFiniteSet(Units(Bookings')) /\ IsFiniteSet(Units(Excesses'))
      /\ SumOf(Bookings)' = SumOf(Bookings) + Charged(r)' - Charged(r)
      /\ SumOf(Excesses)' = SumOf(Excesses) + Excess(r)' - Excess(r)
  BY <1>0, <1>3, <1>6, OneCharge
<1>10. total' = total /\ SumOf(Turns)' = SumOf(Turns) /\ SumOf(Costs)' = SumOf(Costs)
  BY <1>0 DEF ledger, Turns, Costs
<1>11. r.cost \in Nat
  BY <1>0, <1>3 DEF TypeOK
<1>12. MoneySound'
  BY <1>0, <1>4, <1>7, <1>8, <1>9, <1>10, <1>11, Numbers DEF MoneySound
<1> QED BY <1>0, <1>9, <1>12, LedgerStays

-----------------------------------------------------------------------------
(* A new request *)

\* A row added to a table adds its value to the sum.
LEMMA RowAdded ==
  ASSUME NEW g, NEW h, NEW n, n \notin DOMAIN g, DOMAIN h = DOMAIN g \cup {n},
         \A y \in DOMAIN g : g[y] \in Nat /\ h[y] = g[y], h[n] \in Nat, IsFiniteSet(Units(g))
  PROVE  IsFiniteSet(Units(h)) /\ SumOf(h) = SumOf(g) + h[n]
<1>1. \A y : y # n => At(h, y) = At(g, y)
  BY DEF At
<1>2. At(g, n) = 0 /\ At(h, n) = h[n]
  BY DEF At
<1>3. (\A y \in DOMAIN g : g[y] \in Nat) /\ (\A y \in DOMAIN h : h[y] \in Nat)
  OBVIOUS
<1>4. /\ IsFiniteSet(Units(h)) /\ SumOf(g) \in Nat
      /\ SumOf(h) = SumOf(g) + At(h, n) - At(g, n)
  BY <1>1, <1>3, SumChanges
<1> QED BY <1>2, <1>4

\* A row deleted from a table takes its value from the sum.
LEMMA RowDeleted ==
  ASSUME NEW g, NEW h, NEW n, n \in DOMAIN g, DOMAIN h = DOMAIN g \ {n},
         \A y \in DOMAIN g : g[y] \in Nat, \A y \in DOMAIN h : h[y] = g[y], IsFiniteSet(Units(g))
  PROVE  IsFiniteSet(Units(h)) /\ SumOf(h) \in Nat /\ SumOf(g) = SumOf(h) + g[n]
<1>1. \A y : y # n => At(h, y) = At(g, y)
  BY DEF At
<1>2. At(g, n) = g[n] /\ At(h, n) = 0
  BY DEF At
<1>3. (\A y \in DOMAIN g : g[y] \in Nat) /\ (\A y \in DOMAIN h : h[y] \in Nat)
  OBVIOUS
<1>4. /\ IsFiniteSet(Units(h)) /\ SumOf(g) \in Nat /\ SumOf(h) \in Nat
      /\ SumOf(h) = SumOf(g) + At(h, n) - At(g, n)
  BY <1>1, <1>3, SumChanges
<1> QED BY <1>2, <1>4

\* What a reservation of the kind counts as for the reviewer.
ForReviewer(r) == IF r.kind \in Reviewer THEN r.cost ELSE 0

\* The sums after startProviderRequest: the new row has its worst case in the
\* reserved costs, its turn in the reserved turns, and no charge yet.
LEMMA StartSums ==
  ASSUME BudgetInv, RowsSound', NEW a \in Agents, NEW kind \in Kinds, StartRequest(a, kind)
  PROVE  /\ IsFiniteSet(Units(Costs')) /\ SumOf(Costs)' = SumOf(Costs) + Worst[kind]
         /\ IsFiniteSet(Units(Turns')) /\ SumOf(Turns)' = SumOf(Turns) + TurnsOf(NewRow(a, kind))
         /\ IsFiniteSet(Units(ReviewerCosts'))
         /\ SumOf(ReviewerCosts)' = SumOf(ReviewerCosts) + ForReviewer(NewRow(a, kind))
         /\ IsFiniteSet(Units(Bookings')) /\ SumOf(Bookings)' = SumOf(Bookings)
         /\ IsFiniteSet(Units(Excesses')) /\ SumOf(Excesses)' = SumOf(Excesses)
<1>n. PICK n : n = NewRow(a, kind)
  OBVIOUS
<1>0. RowsSound /\ TypeOK /\ TypeOK' /\ Countable
  BY DEF BudgetInv, RowsSound
<1>1. n \in ReservationRows /\ n \notin reservations /\ reservations' = reservations \cup {n}
  BY <1>0, <1>n, StartTypeStep
<1>2. n.cost = Worst[kind] /\ n.id = requests[a] + 1 /\ n.agent = a /\ n.kind = kind
  BY <1>n DEF NewRow
<1>3. worker'[a] = [phase |-> "sent", id |-> requests[a] + 1, cost |-> 0, usage |-> 0]
      /\ \A b \in Agents : b # a => worker'[b] = worker[b]
  BY <1>0 DEF TypeOK, StartRequest
<1>4. worker[a].id = 0 /\ requests[a] \in Nat
  <2>1. worker[a].phase = "ready"
    BY DEF StartRequest
  <2>2. worker[a].id = 0
    BY <1>0, <2>1 DEF RowsSound, WorkersSound
  <2> QED BY <1>0, <2>2, CostAssumption DEF TypeOK
<1>5. \A q \in reservations : Charged(q)' = Charged(q) /\ Excess(q)' = Excess(q)
  <2> SUFFICES ASSUME NEW q \in reservations PROVE Charged(q)' = Charged(q) /\ Excess(q)' = Excess(q)
    OBVIOUS
  <2>1. q.agent \in Agents /\ q.id \in 1..MaxRequests /\ q.id <= requests[q.agent]
    BY <1>0 DEF RowsSound, TypeOK, KeysAreUnique
  <2>2. CASE q.agent # a
    <3>1. worker'[q.agent] = worker[q.agent]
      BY <1>3, <2>1, <2>2
    <3> QED BY <3>1 DEF Charged, Excess
  <2>3. CASE q.agent = a
    <3>1. worker[a].id # q.id /\ worker'[a].id # q.id
      BY <1>3, <1>4, <2>1, <2>3, CostAssumption
    <3> QED BY <2>3, <3>1 DEF Charged, Excess
  <2> QED BY <2>2, <2>3
<1>6. Charged(n)' = 0 /\ Excess(n)' = 0
  BY <1>2, <1>3 DEF Charged, Excess
<1>7. ValuesSound /\ ValuesSound'
  BY <1>0, Values, NextValues
<1>8. IsFiniteSet(Units(Costs')) /\ SumOf(Costs') = SumOf(Costs) + Worst[kind]
  <2> DEFINE g == Costs
             h == Costs'
  <2>1. /\ DOMAIN g = reservations /\ DOMAIN h = DOMAIN g \cup {n} /\ IsFiniteSet(Units(g))
        /\ h[n] = Worst[kind] /\ h[n] \in Nat /\ \A y \in DOMAIN g : g[y] \in Nat /\ h[y] = g[y]
    BY <1>0, <1>1, <1>2, <1>7 DEF Costs, ValuesSound, Countable
  <2> HIDE DEF g, h
  <2>2. IsFiniteSet(Units(h)) /\ SumOf(h) = SumOf(g) + h[n]
    BY <1>1, <2>1, RowAdded
  <2> QED BY <2>1, <2>2 DEF g, h
<1>9. IsFiniteSet(Units(Turns')) /\ SumOf(Turns') = SumOf(Turns) + TurnsOf(n)
  <2> DEFINE g == Turns
             h == Turns'
  <2>1. /\ DOMAIN g = reservations /\ DOMAIN h = DOMAIN g \cup {n} /\ IsFiniteSet(Units(g))
        /\ h[n] = TurnsOf(n) /\ h[n] \in Nat /\ \A y \in DOMAIN g : g[y] \in Nat /\ h[y] = g[y]
    BY <1>0, <1>1 DEF Turns, TurnsOf, Countable
  <2> HIDE DEF g, h
  <2>2. IsFiniteSet(Units(h)) /\ SumOf(h) = SumOf(g) + h[n]
    BY <1>1, <2>1, RowAdded
  <2> QED BY <2>1, <2>2 DEF g, h
<1>10. IsFiniteSet(Units(Bookings')) /\ SumOf(Bookings') = SumOf(Bookings)
  <2> DEFINE g == Bookings
             h == Bookings'
  <2>1. /\ DOMAIN g = reservations /\ DOMAIN h = DOMAIN g \cup {n} /\ IsFiniteSet(Units(g))
        /\ h[n] = 0 /\ \A y \in DOMAIN g : g[y] \in Nat /\ h[y] = g[y]
    BY <1>0, <1>1, <1>5, <1>6, <1>7 DEF Bookings, ValuesSound, Countable
  <2> HIDE DEF g, h
  <2>2. IsFiniteSet(Units(h)) /\ SumOf(h) = SumOf(g) + h[n]
    BY <1>1, <2>1, RowAdded
  <2>3. SumOf(g) \in Nat
    BY <2>1, SumType
  <2> QED BY <2>1, <2>2, <2>3 DEF g, h
<1>11. IsFiniteSet(Units(Excesses')) /\ SumOf(Excesses') = SumOf(Excesses)
  <2> DEFINE g == Excesses
             h == Excesses'
  <2>1. /\ DOMAIN g = reservations /\ DOMAIN h = DOMAIN g \cup {n} /\ IsFiniteSet(Units(g))
        /\ h[n] = 0 /\ \A y \in DOMAIN g : g[y] \in Nat /\ h[y] = g[y]
    BY <1>0, <1>1, <1>5, <1>6, <1>7 DEF Excesses, ValuesSound, Countable
  <2> HIDE DEF g, h
  <2>2. IsFiniteSet(Units(h)) /\ SumOf(h) = SumOf(g) + h[n]
    BY <1>1, <2>1, RowAdded
  <2>3. SumOf(g) \in Nat
    BY <2>1, SumType
  <2> QED BY <2>1, <2>2, <2>3 DEF g, h
<1>12. /\ IsFiniteSet(Units(ReviewerCosts'))
       /\ SumOf(ReviewerCosts') = SumOf(ReviewerCosts) + ForReviewer(n)
  <2> DEFINE g == ReviewerCosts
             h == ReviewerCosts'
  <2>0. IsFiniteSet(Units(g)) /\ SumOf(g) \in Nat
    BY <1>0, SumType DEF Countable
  <2>1. CASE kind \in Reviewer
    <3>1. /\ n \notin DOMAIN g /\ DOMAIN h = DOMAIN g \cup {n}
          /\ h[n] = ForReviewer(n) /\ h[n] \in Nat /\ \A y \in DOMAIN g : g[y] \in Nat /\ h[y] = g[y]
      BY <1>0, <1>1, <1>2, <1>7, <2>1 DEF ReviewerCosts, ForReviewer, ValuesSound
    <3> HIDE DEF g, h
    <3>2. IsFiniteSet(Units(h)) /\ SumOf(h) = SumOf(g) + h[n]
      BY <2>0, <3>1, RowAdded
    <3> QED BY <3>1, <3>2 DEF g, h
  <2>2. CASE kind \notin Reviewer
    <3>1. h = g /\ ForReviewer(n) = 0
      BY <1>1, <1>2, <2>2 DEF ReviewerCosts, ForReviewer
    <3> QED BY <2>0, <3>1
  <2> QED BY <2>1, <2>2
<1>13. /\ SumOf(Costs)' = SumOf(Costs') /\ SumOf(Turns)' = SumOf(Turns')
       /\ SumOf(ReviewerCosts)' = SumOf(ReviewerCosts') /\ SumOf(Bookings)' = SumOf(Bookings')
       /\ SumOf(Excesses)' = SumOf(Excesses')
  BY DEF SumOf, Units
<1> QED BY <1>8, <1>9, <1>10, <1>11, <1>12, <1>13, <1>n

\* A new request counts as a review at most: no turn and no cost is settled.
LEMMA StartTally ==
  ASSUME RowsSound, NEW a \in Agents, NEW kind \in Kinds, StartRequest(a, kind)
  PROVE  TallyTurns' = TallyTurns /\ TallyCosts' = TallyCosts
<1>1. CASE kind \notin Reviewer
  BY <1>1 DEF StartRequest, TallyTurns, TallyCosts
<1>2. CASE kind \in Reviewer
  <2> DEFINE n == ordinal[a]
             t == [tally[a][n] EXCEPT !.reviews = @ + 1]
  <2>1. ordinal[a] \in 0..MaxAttempts /\ ordinal[a] >= 1 /\ MaxAttempts \in Nat
    BY CostAssumption DEF RowsSound, TypeOK, WorkersSound, StartRequest
  <2>2. n \in Attempts
    BY <2>1 DEF Attempts
  <2>3. tally \in [Agents -> [Attempts -> TallyRows]]
    BY DEF RowsSound, TypeOK, TallyRows
  <2>4. tally[a][n] \in TallyRows
    BY <2>2, <2>3
  <2>5. t.turns = tally[a][n].turns /\ t.cost = tally[a][n].cost
    BY <2>4 DEF TallyRows
  <2>6. tally' = [tally EXCEPT ![a] = [tally[a] EXCEPT ![n] = t]]
    BY <1>2, <2>2, <2>3 DEF StartRequest
  <2> HIDE DEF t, n
  <2>7. \A b \in Agents, m \in Attempts : /\ tally'[b][m].turns = tally[b][m].turns
                                          /\ tally'[b][m].cost = tally[b][m].cost
    BY <2>2, <2>3, <2>5, <2>6
  <2>8. \A e \in Agents \X Attempts : /\ tally'[e[1]][e[2]].turns = tally[e[1]][e[2]].turns
                                      /\ tally'[e[1]][e[2]].cost = tally[e[1]][e[2]].cost
    BY <2>7
  <2> QED BY <2>8 DEF TallyTurns, TallyCosts
<1> QED BY <1>1, <1>2

\* The ledger invariant, in the sums of this module.
LEMMA LedgerSums ==
  LedgerAgrees <=> /\ total.turns = SumOf(TallyTurns) /\ total.cost = SumOf(TallyCosts)
                   /\ authorization.cost = authorization.compiler + authorization.judge
                   /\ authorization.reserved = SumOf(ReviewerCosts)
  BY DEF LedgerAgrees, TallyTurns, TallyCosts, Reserved, ReviewerCosts

\* The same after a step.
LEMMA NextLedgerSums ==
  LedgerAgrees' <=> /\ total'.turns = SumOf(TallyTurns') /\ total'.cost = SumOf(TallyCosts')
                    /\ authorization'.cost = authorization'.compiler + authorization'.judge
                    /\ authorization'.reserved = SumOf(ReviewerCosts')
  BY DEF LedgerAgrees, TallyTurns, TallyCosts, Reserved, ReviewerCosts

\* startProviderRequest checks the budgets with everything that is reserved, so
\* the new reservation fits.
LEMMA StartStep ==
  ASSUME BudgetInv, RowsSound', NEW a \in Agents, NEW kind \in Kinds, StartRequest(a, kind)
  PROVE  BudgetInv'
<1> DEFINE n == NewRow(a, kind)
<1>0. RowsSound /\ TypeOK /\ TypeOK' /\ Countable /\ MoneySound /\ LedgerAgrees /\ ReviewerShareHeld
  BY DEF BudgetInv, RowsSound
<1>1. /\ IsFiniteSet(Units(Costs')) /\ SumOf(Costs)' = SumOf(Costs) + Worst[kind]
      /\ IsFiniteSet(Units(Turns')) /\ SumOf(Turns)' = SumOf(Turns) + TurnsOf(n)
      /\ IsFiniteSet(Units(ReviewerCosts'))
      /\ SumOf(ReviewerCosts)' = SumOf(ReviewerCosts) + ForReviewer(n)
      /\ IsFiniteSet(Units(Bookings')) /\ SumOf(Bookings)' = SumOf(Bookings)
      /\ IsFiniteSet(Units(Excesses')) /\ SumOf(Excesses)' = SumOf(Excesses)
  BY StartSums
<1>2. TallyTurns' = TallyTurns /\ TallyCosts' = TallyCosts
  BY <1>0, StartTally
<1>3. Countable'
  BY <1>0, <1>1, <1>2 DEF Countable
<1>4. total' = total /\ spent' = spent /\ overrun' = overrun /\ unreported' = unreported
  BY DEF StartRequest, money
<1>5. /\ TurnsOf(n) = IF kind = "agent" THEN 1 ELSE 0
      /\ ForReviewer(n) = IF kind \in Reviewer THEN Worst[kind] ELSE 0
      /\ Worst[kind] \in Nat
  BY CostAssumption DEF NewRow, TurnsOf, ForReviewer
<1> HIDE DEF n
<1>6. MoneySound'
  <2>1. /\ kind = "agent" => total.turns + SumOf(Turns) + 1 <= MaxTurns
        /\ total.cost + SumOf(Costs) + Worst[kind] <= MaxCost
    BY DEF StartRequest, WithinTaskBudget, ReservedTurns, Reserved, Turns, Costs
  <2> QED BY <1>0, <1>1, <1>4, <1>5, <2>1, Numbers DEF MoneySound
<1>7. /\ authorization'.cost = authorization.cost
      /\ authorization'.compiler = authorization.compiler /\ authorization'.judge = authorization.judge
      /\ authorization'.reserved = authorization.reserved + ForReviewer(n)
  <2>1. CASE kind \in Reviewer
    <3> DEFINE k == IF kind = "authorization_compile" THEN authorization.compilers + 1
                    ELSE authorization.compilers
    <3>1. authorization \in AuthorizationRows
      BY <1>0 DEF TypeOK, AuthorizationRows
    <3>2. authorization' = [authorization EXCEPT !.compilers = k,
                              !.reviewers = authorization.reviewers + 1,
                              !.reserved = authorization.reserved + Worst[kind]]
      BY <2>1, <3>1 DEF StartRequest, AuthorizationRows
    <3> HIDE DEF k
    <3> QED BY <1>5, <2>1, <3>1, <3>2 DEF AuthorizationRows
  <2>2. CASE kind \notin Reviewer
    <3>1. authorization' = authorization /\ ForReviewer(n) = 0 /\ authorization.reserved \in Nat
      BY <1>0, <1>5, <2>2 DEF StartRequest, TypeOK
    <3> QED BY <3>1
  <2> QED BY <2>1, <2>2
<1>8. LedgerAgrees'
  <2>1. SumOf(ReviewerCosts') = SumOf(ReviewerCosts) + ForReviewer(n)
    BY <1>1
  <2> QED BY <1>0, <1>2, <1>4, <1>7, <2>1, LedgerSums, NextLedgerSums
<1>9. ReviewerShareHeld'
  <2>1. MainSettled' = MainSettled
    BY <1>4, <1>7 DEF MainSettled
  <2>2. Committed' = Committed + ForReviewer(n) /\ Committed \in Nat
    BY <1>0, <1>5, <1>7, Numbers DEF Committed
  <2>3. CASE kind \in Reviewer
    <3>1. Committed' = Worst[kind] + Committed
      BY <1>5, <2>2, <2>3
    <3>2. WithinReviewerBudget(a, kind)
      BY <2>3 DEF StartRequest
    <3> QED BY <2>1, <3>1, <3>2 DEF WithinReviewerBudget, ReviewerShareHeld
  <2>4. CASE kind \notin Reviewer
    <3>1. Committed' = Committed
      BY <1>5, <2>2, <2>4
    <3> QED BY <1>0, <2>1, <3>1 DEF ReviewerShareHeld
  <2> QED BY <2>3, <2>4
<1> QED BY <1>3, <1>6, <1>8, <1>9 DEF BudgetInv, RowsSound

-----------------------------------------------------------------------------
(* A settled request *)

\* The sums after finishProviderRequest: the row is gone from all of them.
LEMMA FinishSums ==
  ASSUME BudgetInv, RowsSound', NEW a \in Agents, FinishRequest(a),
         NEW r \in InFlight(a), reservations' = reservations \ {r}
  PROVE  /\ IsFiniteSet(Units(TallyTurns')) /\ IsFiniteSet(Units(TallyCosts')) => Countable'
         /\ SumOf(Costs') \in Nat /\ SumOf(Costs) = SumOf(Costs') + r.cost
         /\ SumOf(Turns') \in Nat /\ SumOf(Turns) = SumOf(Turns') + TurnsOf(r)
         /\ SumOf(ReviewerCosts') \in Nat
         /\ SumOf(ReviewerCosts) = SumOf(ReviewerCosts') + ForReviewer(r)
         /\ SumOf(Bookings') \in Nat /\ SumOf(Bookings) = SumOf(Bookings') + Charged(r)
         /\ SumOf(Excesses') \in Nat /\ SumOf(Excesses) = SumOf(Excesses') + Excess(r)
<1>0. RowsSound /\ TypeOK /\ TypeOK' /\ Countable /\ ValuesSound /\ r \in reservations
  BY Values DEF BudgetInv, RowsSound, InFlight
<1>1. \A q \in reservations' : Charged(q)' = Charged(q) /\ Excess(q)' = Excess(q)
  <2>1. worker' = [worker EXCEPT ![a] = NoRequest("ready")] /\ NoRequest("ready").id = 0
    BY DEF FinishRequest, NoRequest
  <2>2. \A q \in reservations : q \notin InFlight(a) => Charged(q)' = Charged(q) /\ Excess(q)' = Excess(q)
    BY <1>0, <2>1, OtherCharges
  <2> QED BY <1>0, <2>2, OneInFlight DEF RowsSound
<1>2. /\ IsFiniteSet(Units(Costs')) /\ SumOf(Costs') \in Nat
      /\ SumOf(Costs) = SumOf(Costs') + r.cost
  <2> DEFINE g == Costs
             h == Costs'
  <2>1. /\ r \in DOMAIN g /\ DOMAIN h = DOMAIN g \ {r} /\ IsFiniteSet(Units(g)) /\ g[r] = r.cost
        /\ (\A y \in DOMAIN g : g[y] \in Nat) /\ (\A y \in DOMAIN h : h[y] = g[y])
    BY <1>0 DEF Costs, ValuesSound, Countable
  <2> HIDE DEF g, h
  <2> QED BY <2>1, RowDeleted DEF g, h
<1>3. /\ IsFiniteSet(Units(Turns')) /\ SumOf(Turns') \in Nat
      /\ SumOf(Turns) = SumOf(Turns') + TurnsOf(r)
  <2> DEFINE g == Turns
             h == Turns'
  <2>1. /\ r \in DOMAIN g /\ DOMAIN h = DOMAIN g \ {r} /\ IsFiniteSet(Units(g)) /\ g[r] = TurnsOf(r)
        /\ (\A y \in DOMAIN g : g[y] \in Nat) /\ (\A y \in DOMAIN h : h[y] = g[y])
    BY <1>0 DEF Turns, ValuesSound, Countable
  <2> HIDE DEF g, h
  <2> QED BY <2>1, RowDeleted DEF g, h
<1>4. /\ IsFiniteSet(Units(Bookings')) /\ SumOf(Bookings') \in Nat
      /\ SumOf(Bookings) = SumOf(Bookings') + Charged(r)
  <2> DEFINE g == Bookings
             h == Bookings'
  <2>1. /\ r \in DOMAIN g /\ DOMAIN h = DOMAIN g \ {r} /\ IsFiniteSet(Units(g)) /\ g[r] = Charged(r)
        /\ (\A y \in DOMAIN g : g[y] \in Nat) /\ (\A y \in DOMAIN h : h[y] = g[y])
    BY <1>0, <1>1 DEF Bookings, ValuesSound, Countable
  <2> HIDE DEF g, h
  <2> QED BY <2>1, RowDeleted DEF g, h
<1>5. /\ IsFiniteSet(Units(Excesses')) /\ SumOf(Excesses') \in Nat
      /\ SumOf(Excesses) = SumOf(Excesses') + Excess(r)
  <2> DEFINE g == Excesses
             h == Excesses'
  <2>1. /\ r \in DOMAIN g /\ DOMAIN h = DOMAIN g \ {r} /\ IsFiniteSet(Units(g)) /\ g[r] = Excess(r)
        /\ (\A y \in DOMAIN g : g[y] \in Nat) /\ (\A y \in DOMAIN h : h[y] = g[y])
    BY <1>0, <1>1 DEF Excesses, ValuesSound, Countable
  <2> HIDE DEF g, h
  <2> QED BY <2>1, RowDeleted DEF g, h
<1>6. /\ IsFiniteSet(Units(ReviewerCosts')) /\ SumOf(ReviewerCosts') \in Nat
      /\ SumOf(ReviewerCosts) = SumOf(ReviewerCosts') + ForReviewer(r)
  <2> DEFINE g == ReviewerCosts
             h == ReviewerCosts'
  <2>0. IsFiniteSet(Units(g)) /\ SumOf(g) \in Nat
    BY <1>0, SumType DEF Countable
  <2>1. CASE r.kind \in Reviewer
    <3>1. /\ r \in DOMAIN g /\ DOMAIN h = DOMAIN g \ {r} /\ g[r] = ForReviewer(r)
          /\ (\A y \in DOMAIN g : g[y] \in Nat) /\ (\A y \in DOMAIN h : h[y] = g[y])
      BY <1>0, <2>1 DEF ReviewerCosts, ForReviewer, ValuesSound
    <3> HIDE DEF g, h
    <3> QED BY <2>0, <3>1, RowDeleted DEF g, h
  <2>2. CASE r.kind \notin Reviewer
    <3>1. h = g /\ ForReviewer(r) = 0
      BY <2>2 DEF ReviewerCosts, ForReviewer
    <3> QED BY <2>0, <3>1
  <2> QED BY <2>1, <2>2
<1> QED BY <1>2, <1>3, <1>4, <1>5, <1>6 DEF Countable

\* The tallies grow by what is settled.
LEMMA FinishTally ==
  ASSUME TypeOK, TypeOK', Countable, NEW r \in reservations, NEW c \in Nat, Settle(r, c)
  PROVE  /\ IsFiniteSet(Units(TallyTurns')) /\ SumOf(TallyTurns') = SumOf(TallyTurns) + TurnsOf(r)
         /\ IsFiniteSet(Units(TallyCosts')) /\ SumOf(TallyCosts') = SumOf(TallyCosts) + c
<1> DEFINE e == <<r.agent, r.attempt>>
           P == Agents \X Attempts
<1>1. /\ tally' \in [Agents -> [Attempts -> TallyRows]]
      /\ tally'[r.agent][r.attempt].turns = tally[r.agent][r.attempt].turns + TurnsOf(r)
      /\ tally'[r.agent][r.attempt].cost = tally[r.agent][r.attempt].cost + c
      /\ \A b \in Agents, n \in Attempts :
           ~ (b = r.agent /\ n = r.attempt) => tally'[b][n] = tally[b][n]
  BY SettleTally
<1>2. e \in P /\ TurnsOf(r) \in Nat
  BY DEF TypeOK, TurnsOf
<1>3. \A y \in P : /\ tally[y[1]][y[2]] \in TallyRows /\ tally'[y[1]][y[2]] \in TallyRows
                   /\ y # e => tally'[y[1]][y[2]] = tally[y[1]][y[2]]
  BY <1>1 DEF TypeOK, TallyRows
<1>4. IsFiniteSet(Units(TallyTurns')) /\ SumOf(TallyTurns') = SumOf(TallyTurns) + TurnsOf(r)
  <2> DEFINE g == TallyTurns
             h == TallyTurns'
  <2>1. /\ DOMAIN g = P /\ DOMAIN h = P /\ h[e] = g[e] + TurnsOf(r)
        /\ \A y \in P : g[y] \in Nat /\ h[y] \in Nat /\ (y # e => h[y] = g[y])
    BY <1>1, <1>2, <1>3 DEF TallyTurns, TallyRows
  <2>2. IsFiniteSet(Units(g))
    BY DEF Countable
  <2> HIDE DEF g, h, e, P
  <2>3. (\A y \in DOMAIN g : g[y] \in Nat) /\ (\A y \in DOMAIN h : h[y] \in Nat)
    BY <2>1
  <2>4. \A y : y # e => At(h, y) = At(g, y)
    BY <2>1 DEF At
  <2>5. At(h, e) = At(g, e) + TurnsOf(r)
    BY <1>2, <2>1 DEF At
  <2>6. IsFiniteSet(Units(h)) /\ SumOf(h) = SumOf(g) + TurnsOf(r)
    BY <1>2, <2>2, <2>3, <2>4, <2>5, SumGrows
  <2> QED BY <2>6 DEF g, h
<1>5. IsFiniteSet(Units(TallyCosts')) /\ SumOf(TallyCosts') = SumOf(TallyCosts) + c
  <2> DEFINE g == TallyCosts
             h == TallyCosts'
  <2>1. /\ DOMAIN g = P /\ DOMAIN h = P /\ h[e] = g[e] + c
        /\ \A y \in P : g[y] \in Nat /\ h[y] \in Nat /\ (y # e => h[y] = g[y])
    BY <1>1, <1>2, <1>3 DEF TallyCosts, TallyRows
  <2>2. IsFiniteSet(Units(g))
    BY DEF Countable
  <2> HIDE DEF g, h, e, P
  <2>3. (\A y \in DOMAIN g : g[y] \in Nat) /\ (\A y \in DOMAIN h : h[y] \in Nat)
    BY <2>1
  <2>4. \A y : y # e => At(h, y) = At(g, y)
    BY <2>1 DEF At
  <2>5. At(h, e) = At(g, e) + c
    BY <1>2, <2>1 DEF At
  <2>6. IsFiniteSet(Units(h)) /\ SumOf(h) = SumOf(g) + c
    BY <1>2, <2>2, <2>3, <2>4, <2>5, SumGrows
  <2> QED BY <2>6 DEF g, h
<1> QED BY <1>4, <1>5

\* A product with a natural number is monotone.
LEMMA ProductIsMonotone ==
  ASSUME NEW s \in Nat, NEW x \in Nat, NEW y \in Nat, x <= y
  PROVE  s * x <= s * y /\ s * x \in Nat /\ s * y \in Nat
<1>1. y - x \in Nat /\ s * (y - x) \in Nat
  OBVIOUS
<1>2. s * y = s * x + s * (y - x)
  OBVIOUS
<1>3. s * x \in Nat /\ s * y \in Nat
  OBVIOUS
<1> QED BY <1>1, <1>2, <1>3

\* finishProviderRequest keeps the reviewer within its share: a review costs at
\* most what was reserved for it, and a request of the Agent only adds to what
\* the share is a part of.
LEMMA FinishShare ==
  ASSUME BudgetInv, NEW r \in reservations, NEW c \in Nat, Settled(r, c), Settle(r, c)
  PROVE  ReviewerShareHeld'
<1>0. TypeOK /\ Countable /\ LedgerAgrees /\ ReviewerShareHeld /\ r.cost \in Nat /\ r.kind \in Kinds
  BY DEF BudgetInv, TypeOK
<1>1. /\ total'.cost = total.cost + c
      /\ total.cost \in Nat /\ authorization.cost \in Nat /\ authorization.reserved \in Nat
  BY <1>0, Numbers DEF Settle
<1>2. /\ authorization' \in AuthorizationRows
      /\ r.kind = "agent" => authorization' = authorization
      /\ r.kind \in Reviewer =>
           /\ authorization'.cost = authorization.cost + c
           /\ authorization'.reserved =
                IF authorization.reserved > r.cost THEN authorization.reserved - r.cost ELSE 0
  BY <1>0, SettleAuthorization
<1>3. Committed \in Nat /\ Committed' \in Nat /\ Cap \in Nat /\ ShareOf \in Nat /\ Allowance \in Nat
  BY <1>1, <1>2, CostAssumption DEF Committed, AuthorizationRows
<1>4. MainSettled = IF total.cost - authorization.cost > 0 THEN total.cost - authorization.cost ELSE 0
  BY <1>1, MaxWithZero DEF MainSettled
<1>5. CASE r.kind = "agent"
  <2>1. authorization' = authorization
    BY <1>2, <1>5
  <2>2. MainSettled' = Max({0, (total.cost + c) - authorization.cost})
    BY <1>1, <2>1 DEF MainSettled
  <2>3. MainSettled' = IF (total.cost + c) - authorization.cost > 0
                       THEN (total.cost + c) - authorization.cost ELSE 0
    BY <1>1, <2>2, MaxWithZero
  <2>4. MainSettled \in Nat /\ MainSettled' \in Nat /\ MainSettled <= MainSettled'
    BY <1>1, <1>4, <2>3
  <2>5. Committed' = Committed
    BY <2>1 DEF Committed
  <2>6. ShareOf * Committed \in Nat /\ ShareOf * Allowance \in Nat
    BY <1>3
  <2>7. Committed <= Cap /\ ShareOf * Committed <= ShareOf * Allowance + MainSettled
    BY <1>0 DEF ReviewerShareHeld
  <2>8. ShareOf * Committed <= ShareOf * Allowance + MainSettled'
    BY <2>4, <2>6, <2>7
  <2> QED BY <2>5, <2>7, <2>8 DEF ReviewerShareHeld
<1>6. CASE r.kind \in Reviewer
  <2>1. c <= r.cost
    BY <1>6 DEF Settled
  <2>2. r.cost <= authorization.reserved
    <3> DEFINE g == ReviewerCosts
               h == [q \in DOMAIN g \ {r} |-> g[q]]
    <3>1. /\ r \in DOMAIN g /\ g[r] = r.cost /\ IsFiniteSet(Units(g)) /\ \A y \in DOMAIN g : g[y] \in Nat
      BY <1>0, <1>6 DEF ReviewerCosts, Countable, TypeOK
    <3>2. DOMAIN h = DOMAIN g \ {r} /\ \A y \in DOMAIN h : h[y] = g[y]
      OBVIOUS
    <3>3. authorization.reserved = SumOf(g)
      BY <1>0, LedgerSums
    <3> HIDE DEF g, h
    <3>4. SumOf(h) \in Nat /\ SumOf(g) = SumOf(h) + g[r]
      BY <3>1, <3>2, RowDeleted
    <3> QED BY <1>0, <3>1, <3>3, <3>4
  <2>3. /\ authorization'.cost = authorization.cost + c
        /\ authorization'.reserved = authorization.reserved - r.cost
    BY <1>0, <1>1, <1>2, <1>6, <2>2
  <2>4. Committed' <= Committed
    BY <1>0, <1>1, <2>1, <2>3 DEF Committed
  <2>5. total'.cost - authorization'.cost = total.cost - authorization.cost
    BY <1>1, <2>3
  <2>6. MainSettled' = MainSettled /\ MainSettled \in Nat
    <3>1. MainSettled' = MainSettled
      BY <2>5 DEF MainSettled
    <3>2. MainSettled \in Nat
      BY <1>1, <1>4
    <3> QED BY <3>1, <3>2
  <2>7. /\ ShareOf * Committed' <= ShareOf * Committed
        /\ ShareOf * Committed' \in Nat /\ ShareOf * Committed \in Nat
    BY <1>3, <2>4, ProductIsMonotone
  <2>8. ShareOf * Allowance \in Nat
    BY <1>3
  <2>9. Committed <= Cap /\ ShareOf * Committed <= ShareOf * Allowance + MainSettled
    BY <1>0 DEF ReviewerShareHeld
  <2>10. Committed' <= Cap
    BY <1>3, <2>4, <2>9
  <2>11. ShareOf * Committed' <= ShareOf * Allowance + MainSettled
    BY <2>6, <2>7, <2>8, <2>9
  <2> QED BY <2>6, <2>10, <2>11 DEF ReviewerShareHeld
<1> QED BY <1>0, <1>5, <1>6 DEF Kinds, Reviewer

\* What is settled was reserved: the books stay within the budget, and have the
\* charge of the answer before and after, save for what it did not report.
LEMMA FinishStep ==
  ASSUME BudgetInv, RowsSound', NEW a \in Agents, FinishRequest(a)
  PROVE  BudgetInv'
<1> DEFINE c == worker[a].cost
           u == worker[a].usage
<1>1. PICK r \in InFlight(a) : Settled(r, u) /\ Settle(r, u)
  BY DEF FinishRequest
<1>2. r \in reservations /\ r.agent = a /\ r.id = worker[a].id /\ worker[a].phase = "answered"
  BY DEF InFlight, FinishRequest
<1>3. /\ TypeOK /\ TypeOK' /\ Countable /\ LedgerAgrees /\ MoneySound
      /\ c \in Nat /\ u \in Nat /\ u <= c
  BY DEF BudgetInv, RowsSound, TypeOK, WorkersSound
<1>4. r.cost \in Nat /\ TurnsOf(r) \in Nat /\ r.kind \in Kinds
  BY <1>2, <1>3 DEF TypeOK, TurnsOf
<1>5. /\ Charged(r) = IF c <= r.cost THEN c ELSE r.cost
      /\ Excess(r) = IF c > r.cost THEN c - r.cost ELSE 0
  BY <1>2 DEF Charged, Excess
<1>6. /\ reservations' = reservations \ {r} /\ total'.turns = total.turns + TurnsOf(r)
      /\ total'.cost = total.cost + u /\ spent' = spent /\ overrun' = overrun
      /\ unreported' = unreported + (c - u)
  BY <1>1 DEF Settle, FinishRequest
<1>7. /\ IsFiniteSet(Units(TallyTurns')) /\ IsFiniteSet(Units(TallyCosts')) => Countable'
      /\ SumOf(Costs') \in Nat /\ SumOf(Costs) = SumOf(Costs') + r.cost
      /\ SumOf(Turns') \in Nat /\ SumOf(Turns) = SumOf(Turns') + TurnsOf(r)
      /\ SumOf(ReviewerCosts') \in Nat /\ SumOf(ReviewerCosts) = SumOf(ReviewerCosts') + ForReviewer(r)
      /\ SumOf(Bookings') \in Nat /\ SumOf(Bookings) = SumOf(Bookings') + Charged(r)
      /\ SumOf(Excesses') \in Nat /\ SumOf(Excesses) = SumOf(Excesses') + Excess(r)
  BY <1>6, FinishSums
<1>8. /\ IsFiniteSet(Units(TallyTurns')) /\ SumOf(TallyTurns') = SumOf(TallyTurns) + TurnsOf(r)
      /\ IsFiniteSet(Units(TallyCosts')) /\ SumOf(TallyCosts') = SumOf(TallyCosts) + u
  BY <1>1, <1>2, <1>3, FinishTally
<1>9. Countable'
  BY <1>7, <1>8
<1>10. ReviewerShareHeld'
  BY <1>1, <1>2, <1>3, FinishShare
<1>11. MoneySound'
  <2> HIDE DEF c, u
  <2> QED BY <1>3, <1>4, <1>5, <1>6, <1>7, Numbers DEF MoneySound
<1>12. LedgerAgrees'
  <2>1. /\ r.kind = "agent" => authorization' = authorization
        /\ r.kind \in Reviewer =>
             /\ authorization'.cost = authorization.cost + u
             /\ authorization'.compiler + authorization'.judge =
                  authorization.compiler + authorization.judge + u
             /\ authorization'.reserved =
                  IF authorization.reserved > r.cost THEN authorization.reserved - r.cost ELSE 0
    BY <1>1, <1>2, <1>3, SettleAuthorization
  <2>2. /\ total.turns = SumOf(TallyTurns) /\ total.cost = SumOf(TallyCosts)
        /\ authorization.cost = authorization.compiler + authorization.judge
        /\ authorization.reserved = SumOf(ReviewerCosts)
    BY <1>3, LedgerSums
  <2>3. /\ authorization'.cost = authorization'.compiler + authorization'.judge
        /\ authorization'.reserved = SumOf(ReviewerCosts')
    <3>1. CASE r.kind = "agent"
      <4>1. ForReviewer(r) = 0
        BY <3>1 DEF ForReviewer, Reviewer
      <4> QED BY <1>7, <2>1, <2>2, <3>1, <4>1
    <3>2. CASE r.kind \in Reviewer
      <4>1. ForReviewer(r) = r.cost
        BY <3>2 DEF ForReviewer
      <4> QED BY <1>4, <1>7, <2>1, <2>2, <3>2, <4>1
    <3> QED BY <1>4, <3>1, <3>2 DEF Kinds, Reviewer
  <2> QED BY <1>6, <1>8, <2>2, <2>3, NextLedgerSums
<1> QED BY <1>9, <1>10, <1>11, <1>12 DEF BudgetInv, RowsSound

-----------------------------------------------------------------------------
(* Theorems *)

\* The empty books are sound.
LEMMA InitStep ==
  ASSUME Init
  PROVE  BudgetInv
<1>1. TypeOK
  <2>1. NoRequest("none") \in WorkerRows
    BY NoRequestRows DEF Phases
  <2>2. worker \in [Agents -> WorkerRows]
    BY <2>1 DEF Init
  <2>3. 0 \in 0..CompilerLimit /\ 0 \in 0..ReviewerLimit /\ 0 \in 0..AttemptLimit
        /\ 0 \in 0..MaxAttempts /\ 0 \in 0..MaxRequests
    BY CostAssumption
  <2>4. tally \in [Agents -> [Attempts -> [turns : Nat, cost : Nat, reviews : 0..AttemptLimit]]]
    BY <2>3 DEF Init
  <2>5. authorization \in [compilers : 0..CompilerLimit, reviewers : 0..ReviewerLimit,
                           cost : Nat, compiler : Nat, judge : Nat, reserved : Nat]
    BY <2>3 DEF Init
  <2> QED BY <2>2, <2>3, <2>4, <2>5 DEF Init, TypeOK, WorkerRows
<1>2. KeysAreUnique /\ WorkersSound
  BY DEF Init, KeysAreUnique, WorkersSound, NoRequest
<1>3. /\ \A y \in DOMAIN Costs : Costs[y] = 0
      /\ \A y \in DOMAIN Turns : Turns[y] = 0
      /\ \A y \in DOMAIN ReviewerCosts : ReviewerCosts[y] = 0
      /\ \A y \in DOMAIN Bookings : Bookings[y] = 0
      /\ \A y \in DOMAIN Excesses : Excesses[y] = 0
  BY DEF Init, Costs, Turns, ReviewerCosts, Bookings, Excesses
<1>4. /\ \A y \in DOMAIN TallyTurns : TallyTurns[y] = 0
      /\ \A y \in DOMAIN TallyCosts : TallyCosts[y] = 0
  BY DEF Init, TallyTurns, TallyCosts
<1>5. Countable
  BY <1>3, <1>4, SumOfZeros DEF Countable
<1>6. /\ SumOf(Costs) = 0 /\ SumOf(Turns) = 0 /\ SumOf(ReviewerCosts) = 0 /\ SumOf(Bookings) = 0
      /\ SumOf(Excesses) = 0 /\ SumOf(TallyTurns) = 0 /\ SumOf(TallyCosts) = 0
  BY <1>3, <1>4, SumOfZeros
<1>7. MaxTurns \in Nat /\ MaxCost \in Nat /\ Cap \in Nat /\ ShareOf \in Nat /\ Allowance \in Nat
  BY CostAssumption
<1>8. MoneySound
  BY <1>6, <1>7 DEF Init, MoneySound
<1>9. LedgerAgrees
  BY <1>6, LedgerSums DEF Init
<1>10. ReviewerShareHeld
  <2>1. total.cost - authorization.cost = 0
    BY DEF Init
  <2>2. MainSettled = 0
    BY <2>1, MaxWithZero DEF MainSettled
  <2>3. Committed = 0
    BY DEF Init, Committed
  <2>4. ShareOf * Allowance \in Nat /\ ShareOf * 0 = 0
    BY <1>7
  <2> QED BY <1>7, <2>2, <2>3, <2>4 DEF ReviewerShareHeld
<1> QED BY <1>1, <1>2, <1>5, <1>8, <1>9, <1>10 DEF BudgetInv

\* Every step keeps the books sound.
LEMMA BudgetStep ==
  ASSUME BudgetInv, [Next]_vars
  PROVE  BudgetInv'
<1>0. RowsSound'
  BY RowsStep DEF BudgetInv, RowsSound
<1>1. CASE UNCHANGED vars
  <2>1. UNCHANGED <<ledger, worker, money>>
    BY <1>1 DEF vars
  <2>2. \A q \in reservations : Charged(q)' = Charged(q) /\ Excess(q)' = Excess(q)
    BY <2>1 DEF Charged, Excess
  <2> QED BY <1>0, <2>1, <2>2, ChargesStay
<1>2. CASE TaskStep
  BY <1>0, <1>2, TaskMoneyStep
<1>3. ASSUME NEW a \in Agents, Claim(a) \/ GiveUp(a) PROVE BudgetInv'
  BY <1>0, <1>3, QuietStep
<1>4. ASSUME NEW a \in Agents, NEW kind \in Kinds, StartRequest(a, kind) PROVE BudgetInv'
  BY <1>0, <1>4, StartStep
<1>5. ASSUME NEW a \in Agents, Answer(a) PROVE BudgetInv'
  BY <1>0, <1>5, AnswerStep
<1>6. ASSUME NEW a \in Agents, FinishRequest(a) PROVE BudgetInv'
  BY <1>0, <1>6, FinishStep
<1> QED BY <1>1, <1>2, <1>3, <1>4, <1>5, <1>6 DEF Next, TaskStep, GiveUp

\* The books are sound for ever.
THEOREM LedgerSound == Spec => []BudgetInv
  BY InitStep, BudgetStep, PTL DEF Spec

\* However many Workers send requests, what startProviderRequest has reserved
\* and finishProviderRequest has settled stays within the Task's budget, save
\* for what answers have cost above their worst case.
THEOREM BudgetHeldAlways == Spec => []BudgetHeld
<1>1. BudgetInv => BudgetHeld
  <2> SUFFICES ASSUME BudgetInv PROVE BudgetHeld
    OBVIOUS
  <2>1. /\ total.turns + SumOf(Turns) <= MaxTurns
        /\ total.cost + SumOf(Costs) <= MaxCost + overrun
    BY Numbers DEF BudgetInv, MoneySound
  <2> QED BY <2>1 DEF BudgetHeld, ReservedTurns, Reserved, Turns, Costs
<1> QED BY <1>1, LedgerSound, PTL

\* Through crashes, lost leases, exits and resumed Tasks, the settled and reserved
\* costs cover what the provider has charged, save for what answers cost above
\* their worst case and for what they did not report.
THEOREM SpendingIsAccountedAlways == Spec => []SpendingIsAccounted
<1>1. BudgetInv => SpendingIsAccounted
  <2> SUFFICES ASSUME BudgetInv PROVE SpendingIsAccounted
    OBVIOUS
  <2>1. TypeOK /\ Countable /\ ValuesSound /\ MoneySound
    BY Values DEF BudgetInv
  <2>2. SumOf(Bookings) <= SumOf(Costs)
    <3>1. (\A y \in DOMAIN Bookings : Bookings[y] \in Nat) /\ (\A y \in DOMAIN Costs : Costs[y] \in Nat)
      BY <2>1 DEF Bookings, Costs, ValuesSound
    <3>2. \A y \in DOMAIN Bookings : At(Bookings, y) <= At(Costs, y)
      BY <2>1 DEF Bookings, Costs, ValuesSound, At
    <3>3. IsFiniteSet(Units(Costs))
      BY <2>1 DEF Countable
    <3> QED BY <3>1, <3>2, <3>3, SumIsMonotone
  <2>3. spent <= total.cost + SumOf(Costs) + overrun + unreported
    BY <2>1, <2>2, Numbers DEF MoneySound
  <2> QED BY <2>3 DEF SpendingIsAccounted, Reserved, Costs
<1> QED BY <1>1, LedgerSound, PTL

\* The totals of the Task, its Attempts and its reviewer always agree.
THEOREM LedgerAgreesAlways == Spec => []LedgerAgrees
<1>1. BudgetInv => LedgerAgrees
  BY DEF BudgetInv
<1> QED BY <1>1, LedgerSound, PTL

\* The reviewer always stays within its cap, its allowance and its share.
THEOREM ReviewerShareHeldAlways == Spec => []ReviewerShareHeld
<1>1. BudgetInv => ReviewerShareHeld
  BY DEF BudgetInv
<1> QED BY <1>1, LedgerSound, PTL

-----------------------------------------------------------------------------
(* A request that is lost                                                  *)

\* While the Task may run, every request left behind by an Agent that is
\* claimable or has a Worker was there when the Task was queued, was left by the
\* exit of its Worker, or could not be marked.
LostSound ==
  task \in {"queued", "running"} =>
    \A a \in Agents : worker[a].phase \notin {"lost", "recovering", "held"} =>
      \A r \in reservations : r.agent = a /\ r.id # worker[a].id => r \in requeued

\* Recovery sets an Agent with such a request apart, in whatever state its Task
\* is, and only a Task that is queued again brings it back.
LEMMA LostStep ==
  ASSUME RowsSound, LostSound, [Next]_vars
  PROVE  LostSound'
<1> SUFFICES ASSUME task' \in {"queued", "running"}, NEW a \in Agents,
                    worker'[a].phase \notin {"lost", "recovering", "held"},
                    NEW r \in reservations', r.agent = a, r.id # worker'[a].id
             PROVE  r \in requeued'
  BY DEF LostSound
<1>0. /\ worker \in [Agents -> WorkerRows] /\ TypeOK
      /\ \A p \in Phases : NoRequest(p).phase = p /\ NoRequest(p).id = 0
  BY NoRequestRows DEF RowsSound, TypeOK, WorkerRows
<1>1. ASSUME task \in {"queued", "running"}, worker[a].phase \notin {"lost", "recovering", "held"},
             r \in reservations, r.id # worker[a].id, requeued \subseteq requeued'
      PROVE  r \in requeued'
  BY <1>1 DEF LostSound
<1>2. CASE UNCHANGED vars \/ Wait
  BY <1>1, <1>2 DEF vars, ledger, Wait
<1>3. CASE Pause
  BY <1>3 DEF Pause
<1>4. CASE Resume
  <2>1. r \in reservations
    BY <1>4 DEF Resume, ledger
  <2>2. r.id # worker[r.agent].id
    <3>1. CASE worker[a].phase = "held"
      <4>1. worker[a].id = 0 /\ r.id # 0
        BY <2>1, <3>1, CostAssumption DEF RowsSound, WorkersSound, TypeOK
      <4> QED BY <4>1
    <3>2. CASE worker[a].phase # "held"
      <4>1. worker'[a] = worker[a]
        BY <1>4, <3>2 DEF Resume
      <4> QED BY <4>1
    <3> QED BY <3>1, <3>2
  <2> QED BY <1>4, <2>1, <2>2 DEF Resume
<1>5. ASSUME NEW b \in Agents, Claim(b) PROVE r \in requeued'
  <2>1. /\ task \in {"queued", "running"} /\ requeued' = requeued /\ reservations' = reservations
        /\ worker' = [worker EXCEPT ![b] = NoRequest("ready")] /\ worker[b].phase = "none"
    BY <1>5 DEF Claim, ledger
  <2>2. CASE b = a
    <3>1. worker[a].id = 0
      BY <2>1, <2>2 DEF RowsSound, WorkersSound
    <3>2. r.id # 0
      BY <2>1, CostAssumption DEF RowsSound, TypeOK
    <3> QED BY <1>1, <2>1, <2>2, <3>1, <3>2
  <2>3. CASE b # a
    <3>1. worker'[a] = worker[a]
      BY <2>1, <2>3
    <3> QED BY <1>1, <2>1, <3>1
  <2> QED BY <2>2, <2>3
<1>6. ASSUME NEW b \in Agents, NEW kind \in Kinds, StartRequest(b, kind) PROVE r \in requeued'
  <2>1. /\ task' = task /\ requeued' = requeued
        /\ reservations' = reservations \cup {NewRow(b, kind)}
    BY <1>6, StartTypeStep DEF StartRequest
  <2>2. /\ worker[b].phase = "ready" /\ worker[b].id = 0
        /\ worker' = [worker EXCEPT ![b] = [phase |-> "sent", id |-> requests[b] + 1, cost |-> 0, usage |-> 0]]
    BY <1>6 DEF StartRequest, RowsSound, TypeOK, WorkersSound
  <2>3. CASE b = a
    <3>1. worker'[a].id = requests[a] + 1
      BY <1>0, <2>2, <2>3
    <3>2. NewRow(a, kind).id = requests[a] + 1
      BY DEF NewRow
    <3>3. r \in reservations
      BY <2>1, <2>3, <3>1, <3>2
    <3>4. r.id # 0
      BY <3>3, CostAssumption DEF RowsSound, TypeOK
    <3> QED BY <1>1, <2>1, <2>2, <2>3, <3>3, <3>4
  <2>4. CASE b # a
    <3>1. worker'[a] = worker[a]
      BY <1>0, <2>2, <2>4
    <3>2. NewRow(b, kind).agent = b
      BY DEF NewRow
    <3>3. r \in reservations
      BY <2>1, <2>4, <3>2
    <3> QED BY <1>1, <2>1, <3>1, <3>3
  <2> QED BY <2>3, <2>4
<1>7. ASSUME NEW b \in Agents, Answer(b) PROVE r \in requeued'
  <2>1. \E c, u : worker' = [worker EXCEPT ![b] = Answered(b, c, u)]
    BY <1>7, AnswerShape
  <2>2. PICK c, u : worker' = [worker EXCEPT ![b] = Answered(b, c, u)]
    BY <2>1
  <2>3. /\ task' = task /\ requeued' = requeued /\ reservations' = reservations
        /\ worker[b].phase = "sent"
    BY <1>7 DEF Answer, ledger
  <2>4. worker'[a].id = worker[a].id /\ worker[a].phase \notin {"lost", "recovering", "held"}
    <3>1. CASE b = a
      BY <1>0, <2>2, <2>3, <3>1 DEF Answered
    <3>2. CASE b # a
      BY <1>0, <2>2, <3>2
    <3> QED BY <3>1, <3>2
  <2> QED BY <1>1, <2>3, <2>4
<1>8. ASSUME NEW b \in Agents, FinishRequest(b) PROVE r \in requeued'
  <2>1. PICK q \in InFlight(b) : Settle(q, worker[b].usage)
    BY <1>8 DEF FinishRequest
  <2>2. q \in reservations /\ q.agent = b /\ q.id = worker[b].id /\ reservations' = reservations \ {q}
    BY <2>1 DEF Settle, InFlight
  <2>3. /\ task' = task /\ requeued' = requeued /\ worker[b].phase = "answered"
        /\ worker' = [worker EXCEPT ![b] = NoRequest("ready")]
    BY <1>8 DEF FinishRequest
  <2>4. worker[a].phase \notin {"lost", "recovering", "held"} /\ r.id # worker[a].id
    <3>1. CASE b = a
      BY <2>2, <2>3, <3>1 DEF RowsSound, KeysAreUnique
    <3>2. CASE b # a
      BY <1>0, <2>3, <3>2
    <3> QED BY <3>1, <3>2
  <2> QED BY <1>1, <2>2, <2>3, <2>4
<1>9. ASSUME NEW b \in Agents, OutcomeUnknown(b) PROVE r \in requeued'
  <2>1. /\ task' = task /\ reservations' = reservations /\ worker[b].phase = "answered"
        /\ requeued' = requeued \cup InFlight(b)
        /\ worker' = [worker EXCEPT ![b] = NoRequest("ready")]
    BY <1>9 DEF OutcomeUnknown, ledger
  <2>2. worker[a].phase \notin {"lost", "recovering", "held"}
    BY <1>0, <2>1
  <2>3. CASE r.id = worker[a].id
    <3>1. b = a
      BY <1>0, <2>1, <2>3
    <3> QED BY <2>1, <2>3, <3>1 DEF InFlight
  <2>4. CASE r.id # worker[a].id
    BY <1>1, <2>1, <2>2, <2>4
  <2> QED BY <2>3, <2>4
<1>10. ASSUME NEW b \in Agents, b # a, GiveUp(b), ~OutcomeUnknown(b) PROVE r \in requeued'
  <2>1. PICK p \in Phases : worker' = [worker EXCEPT ![b] = NoRequest(p)]
    BY <1>10, GiveUpShape
  <2>2. worker'[a] = worker[a]
    BY <1>0, <1>10, <2>1
  <2>3. task \in {"queued", "running"} /\ reservations' = reservations /\ requeued \subseteq requeued'
    BY <1>10 DEF GiveUp, Lose, Detach, BeginRecovery, FinishRecovery, ledger
  <2> QED BY <1>1, <2>2, <2>3
<1>11. CASE Lose(a) \/ BeginRecovery(a)
  <2>1. worker'[a] \in {NoRequest("lost"), NoRequest("recovering")}
    BY <1>0, <1>11 DEF Lose, BeginRecovery
  <2> QED BY <2>1 DEF NoRequest
<1>12. CASE FinishRecovery(a)
  <2>1. CASE Unfinished(a) = {}
    BY <1>12, <2>1 DEF FinishRecovery, Unfinished, ledger
  <2>2. CASE Unfinished(a) # {}
    <3>1. worker'[a] = NoRequest("held")
      BY <1>0, <1>12, <2>2 DEF FinishRecovery
    <3> QED BY <3>1 DEF NoRequest
  <2> QED BY <2>1, <2>2
<1>13. CASE Detach(a)
  <2>1. task' = task /\ reservations' = reservations /\ worker[a].phase \in {"ready", "sent", "answered"}
    BY <1>13 DEF Detach, ledger
  <2>2. requeued' = requeued \cup InFlight(a)
    <3>1. CASE worker' = [worker EXCEPT ![a] = NoRequest("held")]
      <4>1. worker'[a] = NoRequest("held")
        BY <1>0, <3>1
      <4> QED BY <4>1 DEF NoRequest
    <3> QED BY <1>13, <3>1 DEF Detach
  <2>3. CASE r.id = worker[a].id
    BY <2>1, <2>2, <2>3 DEF InFlight
  <2>4. CASE r.id # worker[a].id
    BY <1>1, <2>1, <2>2, <2>4
  <2> QED BY <2>3, <2>4
<1> QED
  BY <1>2, <1>3, <1>4, <1>5, <1>6, <1>7, <1>8, <1>9, <1>10, <1>11, <1>12, <1>13 DEF Next, GiveUp

\* Whatever state its Task was in while finishRecovery ran, an Agent whose Worker
\* was lost with a request unsettled gets no new Attempt before the Task has been
\* queued again.  Requests that a Worker left by its exit, or could not mark, are
\* the exception.
THEOREM LostRequestStopsAgentAlways == Spec => LostRequestStopsAgent
<1>1. Init => RowsSound /\ LostSound
  BY InitStep DEF BudgetInv, RowsSound, Init, LostSound
<1>2. RowsSound /\ LostSound /\ [Next]_vars => (RowsSound /\ LostSound)'
  BY RowsStep, LostStep
<1>3. RowsSound /\ LostSound /\ [Next]_vars =>
        [\A a \in Agents : ordinal'[a] # ordinal[a] => Unfinished(a) \subseteq requeued]_vars
  <2> SUFFICES ASSUME RowsSound, LostSound, [Next]_vars, NEW a \in Agents, ordinal'[a] # ordinal[a]
               PROVE  Unfinished(a) \subseteq requeued
    OBVIOUS
  <2>1. Claim(a)
    <3>1. ASSUME NEW b \in Agents, b # a, Claim(b) PROVE FALSE
      BY <3>1 DEF Claim, RowsSound, TypeOK
    <3>2. UNCHANGED vars \/ TaskStep => FALSE
      BY DEF vars, TaskStep, Wait, Pause, Resume
    <3>3. ASSUME NEW b \in Agents, GiveUp(b) \/ Answer(b) \/ FinishRequest(b) PROVE FALSE
      BY <3>3, GiveUpShape DEF Answer, FinishRequest
    <3>4. ASSUME NEW b \in Agents, NEW kind \in Kinds, StartRequest(b, kind) PROVE FALSE
      BY <3>4 DEF StartRequest
    <3> QED BY <3>1, <3>2, <3>3, <3>4 DEF Next, TaskStep, GiveUp
  <2>2. task \in {"queued", "running"} /\ worker[a].phase = "none" /\ worker[a].id = 0
    BY <2>1 DEF Claim, RowsSound, WorkersSound
  <2>3. \A r \in reservations : r.id # 0
    BY CostAssumption DEF RowsSound, TypeOK
  <2> QED BY <2>2, <2>3 DEF LostSound, Unfinished
<1> QED BY <1>1, <1>2, <1>3, PTL DEF Spec, LostRequestStopsAgent
=============================================================================
