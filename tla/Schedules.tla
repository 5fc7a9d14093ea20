----------------------------- MODULE Schedules ------------------------------
(***************************************************************************)
(* The schedules of Tasks and the ScheduleEngine.  An engine lists what is *)
(* due, claims each tick in a transaction of its own, which advances the   *)
(* schedule, and only then delivers the claims one after the other and     *)
(* marks what was delivered.  Engines of several processes share the       *)
(* store, die between any two steps, and list with a clock read before.    *)
(* The user pauses, resumes and cancels in a read and a separate write.    *)
(* A process may read the clock for an event some time before the          *)
(* transaction that gives the event its place in the log.                  *)
(*                                                                         *)
(* Times are integers.  Cron schedules differ from intervals only in the   *)
(* calendar library that gives the next time, and are left out.            *)
(***************************************************************************)
EXTENDS Integers, Sequences, Sums

CONSTANTS
  Onces,      \* schedules of kind once, due at time 1
  Intervals,  \* schedules of kind interval
  Events,     \* schedules of kind event, for one Task and event type
  Period,     \* parseScheduleInterval of the expression
  Engines,
  Users,      \* processes that call transitionSchedule
  None,
  MaxTime,    \* bound: the clock
  MaxLog,     \* bound: matching Task events
  MaxStamp,   \* bound: different created_at of Task events
  MaxCalls,   \* bound: deliverDue and deliverEvents calls
  MaxChanges  \* bound: calls of transitionSchedule

ASSUME PeriodAssumption == Period \in Nat \ {0}
ASSUME KindsAssumption ==
  Onces \cap Intervals = {} /\ Onces \cap Events = {} /\ Intervals \cap Events = {}
ASSUME NoneAssumption == None \notin Nat

Timed == Onces \cup Intervals
Schedules == Timed \cup Events

VARIABLES
  clock,
  log,        \* created_at of the matching Task events, by seq
  row,        \* the schedules table
  claims,     \* ScheduleClaimed and ScheduleEventClaimed; the index is the claim id
  sent,       \* claims whose delivery was accepted
  refused,    \* history: events whose claim found the schedule not active
  engine,     \* an engine's call: its clock, what it listed, what it claimed
  calls,
  user,       \* a transitionSchedule between its read and its write
  changes

vars == <<clock, log, row, claims, sent, refused, engine, calls, user, changes>>

States == {"active", "paused", "cancelled", "completed"}
NoCall == [now |-> 0, listed |-> {}, claimed |-> <<>>, accepted |-> FALSE]

TypeOK ==
  /\ clock \in 0..MaxTime /\ log \in Seq(1..MaxStamp) /\ Len(log) <= MaxLog
  /\ row \in [Schedules ->
       [state : States, next : {None} \cup 0..(MaxTime + Period), cursor : 0..MaxLog,
        claim : 0..Len(claims), delivered : BOOLEAN]]
  /\ \A i \in 1..Len(claims) : claims[i].schedule \in Schedules /\ claims[i].missed \in 1..(MaxTime + 1)
  /\ sent \subseteq 1..Len(claims)
  /\ refused \subseteq [schedule : Events, at : 1..MaxLog]
  /\ \A e \in Engines : engine[e].now <= clock /\ \A i \in 1..Len(engine[e].claimed) :
       engine[e].claimed[i] \in 1..Len(claims)
  /\ calls \in 0..MaxCalls
  /\ user \in [Users -> {None} \cup [schedule : Schedules, to : {"active", "paused", "cancelled"}]]
  /\ changes \in 0..MaxChanges

\* firstScheduleRun, createSchedule
Init ==
  /\ clock = 0 /\ log = <<>>
  /\ row = [s \in Schedules |->
       [state |-> "active", cursor |-> 0, claim |-> 0, delivered |-> FALSE,
        next |-> IF s \in Onces THEN 1 ELSE IF s \in Intervals THEN Period ELSE None]]
  /\ claims = <<>> /\ sent = {} /\ refused = {}
  /\ engine = [e \in Engines |-> NoCall] /\ calls = 0
  /\ user = [u \in Users |-> None] /\ changes = 0

-----------------------------------------------------------------------------
(* Time, Task events, and the user                                         *)

Tick ==
  /\ clock < MaxTime
  /\ clock' = clock + 1
  /\ UNCHANGED <<log, row, claims, sent, refused, engine, calls, user, changes>>

\* appendEventInternal takes the next seq, and a created_at its caller may have
\* read long before the transaction (as setNextWakeAt does).  Of these times only
\* the order matters, which need not be that of the log.
AppendEvent ==
  /\ Events # {} /\ Len(log) < MaxLog
  /\ \E createdAt \in 1..MaxStamp : log' = Append(log, createdAt)
  /\ UNCHANGED <<clock, row, claims, sent, refused, engine, calls, user, changes>>

\* transitionSchedule reads and checks the state ...
ReadSchedule(u, s, to) ==
  /\ user[u] = None /\ changes < MaxChanges
  /\ row[s].state \notin {"completed", "cancelled"}
  /\ user' = [user EXCEPT ![u] = [schedule |-> s, to |-> to]]
  /\ changes' = changes + 1
  /\ UNCHANGED <<clock, log, row, claims, sent, refused, engine, calls>>

\* ... and writes the new one, whatever the row holds by then.
WriteSchedule(u) ==
  /\ user[u] # None
  /\ row' = [row EXCEPT ![user[u].schedule].state = user[u].to]
  /\ user' = [user EXCEPT ![u] = None]
  /\ UNCHANGED <<clock, log, claims, sent, refused, engine, calls, changes>>

-----------------------------------------------------------------------------
(* The engine                                                              *)

\* listDueSchedules
Due == {[schedule |-> s, at |-> row[s].next] :
          s \in {t \in Timed : row[t].state = "active" /\ row[t].next # None /\ row[t].next <= clock}}

\* Mutant: the newest event is listed alone.
TriggersNewest ==
  {x \in [schedule : Events, at : 1..Len(log)] :
     row[x.schedule].state = "active" /\ x.at > row[x.schedule].cursor /\ x.at = Len(log)}

\* listPendingEventScheduleTriggers
Triggers ==
  {x \in [schedule : Events, at : 1..Len(log)] :
     row[x.schedule].state = "active" /\ x.at > row[x.schedule].cursor}

\* Their ORDER BY: due times by time, events by created_at and then by seq.
Before(x, y) ==
  IF x.schedule \in Events
  THEN log[x.at] < log[y.at] \/ (log[x.at] = log[y.at] /\ x.at < y.at)
  ELSE x.at < y.at

\* deliverDue and deliverEvents read the clock and list.
List(e, listed) ==
  /\ engine[e] = NoCall /\ calls < MaxCalls
  /\ listed # {}
  /\ engine' = [engine EXCEPT ![e].now = clock, ![e].listed = listed]
  /\ calls' = calls + 1
  /\ UNCHANGED <<clock, log, row, claims, sent, refused, user, changes>>

\* nextAfterClaim: the ticks merged into one claim ...
Missed(s, due, now) == IF s \in Intervals THEN (now - due) \div Period + 1 ELSE 1

\* Mutant: the next run is counted from the time of the claim.
NextRunFromNow(s, due, now) == IF s \in Intervals THEN now + Period ELSE None

\* ... and the next time of the schedule
NextRun(s, due, now) ==
  IF s \in Intervals THEN due + Missed(s, due, now) * Period ELSE None

\* Mutant: the claim does not look at the time the tick was listed for.
ClaimableActive(x) == row[x.schedule].state = "active"

\* The condition of claimSchedule and claimEventSchedule
Claimable(x) ==
  /\ row[x.schedule].state = "active"
  /\ IF x.schedule \in Events THEN row[x.schedule].cursor < x.at ELSE row[x.schedule].next = x.at

\* What is left of a call when the store refuses a claim
Without(call, x) ==
  IF call.listed = {x} /\ call.claimed = <<>> THEN NoCall
  ELSE [call EXCEPT !.listed = @ \ {x}]

\* claimDue and claimEvents claim in the order of the list, of an event schedule
\* one tick per call.
ClaimNext(e, x) ==
  LET s == x.schedule
      timed == s \in Timed
  IN
  /\ x \in engine[e].listed /\ \A y \in engine[e].listed : ~Before(y, x)
  /\ IF Claimable(x)
     THEN /\ claims' = Append(claims, [schedule |-> s, at |-> x.at,
                                       missed |-> Missed(s, x.at, engine[e].now)])
          /\ row' = [row EXCEPT ![s] =
               [state |-> IF s \in Onces THEN "completed" ELSE "active",
                next |-> IF timed THEN NextRun(s, x.at, engine[e].now) ELSE None,
                cursor |-> IF timed THEN 0 ELSE x.at,
                claim |-> Len(claims) + 1,
                delivered |-> FALSE]]
          /\ engine' = [engine EXCEPT ![e].listed = {y \in @ : y.schedule # s},
                                      ![e].claimed = Append(@, Len(claims) + 1)]
          /\ UNCHANGED refused
     ELSE /\ engine' = [engine EXCEPT ![e] = Without(@, x)]
          /\ refused' = IF s \in Events /\ row[s].state # "active" THEN refused \cup {x} ELSE refused
          /\ UNCHANGED <<claims, row>>
  /\ UNCHANGED <<clock, log, sent, calls, user, changes>>

Delivering(e) == engine[e].listed = {} /\ engine[e].claimed # <<>>

\* What is left of a call once its first claim is done with
Rest(call) ==
  IF Len(call.claimed) = 1 THEN NoCall
  ELSE [call EXCEPT !.claimed = Tail(@), !.accepted = FALSE]

\* deliver(claim) returns true or false, or throws, which ends the call.
Deliver(e) ==
  /\ Delivering(e) /\ ~engine[e].accepted
  /\ \/ /\ sent' = sent \cup {Head(engine[e].claimed)}
        /\ engine' = [engine EXCEPT ![e].accepted = TRUE]
     \/ /\ engine' \in {[engine EXCEPT ![e] = Rest(@)], [engine EXCEPT ![e] = NoCall]}
        /\ UNCHANGED sent
  /\ UNCHANGED <<clock, log, row, claims, refused, calls, user, changes>>

\* Mutant: whichever claim is the current one is marked.
CurrentAny(id) == TRUE

Current(id) == row[claims[id].schedule].claim = id

\* markScheduleDelivered; for a claim that is no longer current it throws,
\* and the claims after it are given up.
MarkDelivered(e) ==
  LET id == Head(engine[e].claimed) IN
  /\ Delivering(e) /\ engine[e].accepted
  /\ IF Current(id)
     THEN /\ row' = [row EXCEPT ![claims[id].schedule].delivered = TRUE]
          /\ engine' = [engine EXCEPT ![e] = Rest(@)]
     ELSE /\ engine' = [engine EXCEPT ![e] = NoCall]
          /\ UNCHANGED row
  /\ UNCHANGED <<clock, log, claims, sent, refused, calls, user, changes>>

\* The process of the engine dies; another one calls anew.
Crash(e) ==
  /\ engine[e] # NoCall
  /\ engine' = [engine EXCEPT ![e] = NoCall]
  /\ UNCHANGED <<clock, log, row, claims, sent, refused, calls, user, changes>>

-----------------------------------------------------------------------------
Next ==
  \/ Tick \/ AppendEvent
  \/ \E u \in Users :
       \/ \E s \in Schedules, to \in {"active", "paused", "cancelled"} : ReadSchedule(u, s, to)
       \/ WriteSchedule(u)
  \/ \E e \in Engines :
       \/ List(e, Due) \/ List(e, Triggers)
       \/ \E x \in engine[e].listed : ClaimNext(e, x)
       \/ Deliver(e) \/ MarkDelivered(e) \/ Crash(e)

Spec == Init /\ [][Next]_vars

-----------------------------------------------------------------------------
(* Properties                                                              *)

ClaimsOf(s) == {i \in 1..Len(claims) : claims[i].schedule = s}

\* A tick is claimed once: whatever engines, crashes and the user's racing
\* changes do (even one that makes a completed schedule active again), no due
\* time or event of a schedule is claimed twice, and later claims are for later
\* ticks.
NoTickTwice ==
  \A s \in Schedules : \A i, j \in ClaimsOf(s) : i < j => claims[i].at < claims[j].at

\* Missed ticks are merged, and none is lost or counted twice: the counts in the
\* claims of an interval schedule add up to the ticks before its next run.
MissedTicksAreCounted ==
  \A s \in Intervals :
    row[s].next = Period * (SumOf([i \in ClaimsOf(s) |-> claims[i].missed]) + 1)

\* An event is passed over in two cases only, and every other one up to the
\* cursor is claimed.  Its claim found the schedule paused or cancelled:
\* claimEvents goes on to the next event it has listed then, and when the user has
\* resumed the schedule by that time, the cursor moves past the refused one.  Or a
\* later event that was created earlier was listed, and claimed, before it.
EventsInOrder ==
  \A s \in Events :
    LET claimed == {claims[i].at : i \in ClaimsOf(s)} IN
    /\ claimed \subseteq 1..row[s].cursor
    /\ \A n \in (1..row[s].cursor) \ claimed :
         \/ [schedule |-> s, at |-> n] \in refused
         \/ \E m \in claimed : n < m /\ log[m] < log[n]

\* A schedule marked delivered says so of its latest claim, and that claim was
\* accepted by whom it was delivered to.
DeliveredWasSent ==
  \A s \in Schedules : row[s].delivered => row[s].claim \in sent
=============================================================================
