-------------------------- MODULE SchedulesProofs ---------------------------
(***************************************************************************)
(* Proofs about Schedules, for any schedules, engines and users, and with  *)
(* no bound on time, events, calls or changes: no tick is claimed twice,   *)
(* the ticks of an interval are counted exactly, no event is passed over   *)
(* unless its claim was refused or a later one was created before it, and  *)
(* what is marked delivered was delivered.                                 *)
(*                                                                         *)
(* An engine works on a list it made earlier.  The argument relates that   *)
(* list to the row as it is now (ListSound): a listed time is not in the   *)
(* future of the engine's own clock, and between the cursor and a listed   *)
(* event there is nothing but events still listed, or refused before.      *)
(***************************************************************************)
EXTENDS Schedules, TLAPS

\* Most steps are first-order logic: Zenon is tried first, then SMT, then Zenon for longer.
USE ZenonT(5), SMTT(20), ZenonT(60)

-----------------------------------------------------------------------------
(* The inductive invariant                                                 *)

Rows == [state : States, next : {None} \cup Nat, cursor : Nat, claim : Nat, delivered : BOOLEAN]
Ticks == [schedule : Schedules, at : Nat]
Claims == [schedule : Schedules, at : Nat, missed : Nat]
EngineCalls == [now : Nat, listed : SUBSET Ticks, claimed : Seq(Nat), accepted : BOOLEAN]
Changes == [schedule : Schedules, to : {"active", "paused", "cancelled"}]

Types ==
  /\ clock \in Nat /\ log \in Seq(Nat)
  /\ row \in [Schedules -> Rows]
  /\ claims \in Seq(Claims)
  /\ engine \in [Engines -> EngineCalls]
  /\ user \in [Users -> {None} \cup Changes]

\* What an engine has listed, seen from the rows as they are now
ListSound(e) ==
  \A x \in engine[e].listed :
    /\ x.schedule \in Timed => x.at <= engine[e].now
    /\ x.schedule \in Events => x.at \in 1..Len(log)
    /\ x.schedule \in Events =>
         \A n \in Nat : (row[x.schedule].cursor < n /\ n < x.at) =>
           [schedule |-> x.schedule, at |-> n] \in engine[e].listed \cup refused

\* What an engine has claimed and delivered
CallSound(e) ==
  /\ \A i \in 1..Len(engine[e].claimed) : engine[e].claimed[i] \in 1..Len(claims)
  /\ engine[e].accepted => (engine[e].claimed # <<>> /\ engine[e].claimed[1] \in sent)

\* A schedule is past everything it was claimed for.
PastClaims ==
  \A i \in 1..Len(claims) :
    LET s == claims[i].schedule IN
    /\ s \in Intervals => (row[s].next \in Nat /\ claims[i].at < row[s].next)
    /\ s \in Onces => row[s].next = None
    /\ s \in Events => (0 < claims[i].at /\ claims[i].at <= row[s].cursor)

\* Claimed events are in the log.
ClaimsLogged ==
  \A i \in 1..Len(claims) : claims[i].schedule \in Events => claims[i].at \in 1..Len(log)

\* An event with a later seq and an earlier created_at was claimed.
Overtaken(s, n) ==
  \E i \in 1..Len(claims) :
    claims[i].schedule = s /\ n < claims[i].at /\ log[claims[i].at] < log[n]

\* Events up to the cursor are claimed, refused or overtaken.
Accounted ==
  \A s \in Events : \A n \in Nat : (0 < n /\ n <= row[s].cursor) =>
    \/ \E i \in 1..Len(claims) : claims[i].schedule = s /\ claims[i].at = n
    \/ [schedule |-> s, at |-> n] \in refused
    \/ Overtaken(s, n)

ScheduleInv ==
  /\ Types
  /\ \A e \in Engines : ListSound(e) /\ CallSound(e)
  /\ PastClaims /\ ClaimsLogged /\ Accounted /\ NoTickTwice /\ DeliveredWasSent
  /\ sent \subseteq 1..Len(claims)

-----------------------------------------------------------------------------
(* Sequences, arithmetic and records                                       *)

\* What appending does to a sequence.
LEMMA AppendFacts ==
  ASSUME NEW S, NEW q \in Seq(S), NEW c \in S
  PROVE  /\ Append(q, c) \in Seq(S) /\ Len(q) \in Nat /\ Len(Append(q, c)) = Len(q) + 1
         /\ \A i \in 1..Len(q) : Append(q, c)[i] = q[i]
         /\ Append(q, c)[Len(q) + 1] = c
OBVIOUS

\* nextAfterClaim moves an interval schedule past the tick it claims.
LEMMA NextRunIsLater ==
  ASSUME NEW s \in Intervals, NEW due \in Nat, NEW now \in Nat, due <= now
  PROVE  /\ Missed(s, due, now) \in Nat
         /\ NextRun(s, due, now) \in Nat /\ due < NextRun(s, due, now)
<1> DEFINE q == (now - due) \div Period
<1>1. q \in Nat
  BY PeriodAssumption
<1>2. Missed(s, due, now) = q + 1 /\ NextRun(s, due, now) = due + (q + 1) * Period
  BY DEF Missed, NextRun
<1> HIDE DEF q
<1>3. (q + 1) * Period = q * Period + Period /\ q * Period \in Nat
  BY <1>1, PeriodAssumption
<1> QED BY <1>1, <1>2, <1>3, PeriodAssumption

\* The empty call.
LEMMA NoCallType ==
  /\ NoCall \in EngineCalls /\ NoCall.listed = {} /\ NoCall.claimed = <<>>
  /\ NoCall.accepted = FALSE /\ NoCall.now = 0
BY DEF NoCall, EngineCalls

\* A claim is for a time or an event of a schedule.
LEMMA ClaimType ==
  ASSUME Types, NEW i \in 1..Len(claims)
  PROVE  claims[i].schedule \in Schedules /\ claims[i].at \in Nat /\ Len(claims) \in Nat
<1>1. claims[i] \in Claims /\ Len(claims) \in Nat
  BY DEF Types
<1> QED BY <1>1 DEF Claims

\* Kinds do not overlap.
LEMMA KindsApart ==
  /\ \A s \in Events : s \in Schedules /\ s \notin Timed /\ s \notin Onces /\ s \notin Intervals
  /\ \A s \in Intervals : s \in Schedules /\ s \in Timed /\ s \notin Events /\ s \notin Onces
  /\ \A s \in Onces : s \in Schedules /\ s \in Timed /\ s \notin Events /\ s \notin Intervals
BY KindsAssumption DEF Schedules, Timed

\* A step that replaces the call of one engine leaves those of the others.
LEMMA CallReplaced ==
  ASSUME Types, NEW e \in Engines, NEW c \in EngineCalls, engine' = [engine EXCEPT ![e] = c]
  PROVE  /\ engine' \in [Engines -> EngineCalls] /\ engine'[e] = c
         /\ \A f \in Engines : f # e => engine'[f] = engine[f]
BY DEF Types

-----------------------------------------------------------------------------
(* What steps leave in place                                               *)

\* Time, due times and cursors as the invariant needs them: a step that writes
\* other fields of a row only.
RowsKept ==
  \A s \in Schedules : row'[s].next = row[s].next /\ row'[s].cursor = row[s].cursor

\* The log grows at its end.
LogKept ==
  Len(log) <= Len(log') /\ \A n \in 1..Len(log) : log'[n] = log[n]

\* Steps that append no event.
LEMMA LogStays ==
  ASSUME Types, log' = log
  PROVE  LogKept
<1>1. Len(log) \in Nat
  BY DEF Types
<1> QED BY <1>1 DEF LogKept

\* Another engine's list stays sound while cursors advance and events are refused.
LEMMA ListKept ==
  ASSUME Types, Types', LogKept, NEW e \in Engines, ListSound(e), engine'[e] = engine[e],
         refused \subseteq refused', \A s \in Events : row[s].cursor <= row'[s].cursor
  PROVE  ListSound(e)'
<1> SUFFICES ASSUME NEW x \in engine'[e].listed
             PROVE  /\ x.schedule \in Timed => x.at <= engine'[e].now
                    /\ x.schedule \in Events => x.at \in 1..Len(log')
                    /\ x.schedule \in Events =>
                         \A n \in Nat : (row'[x.schedule].cursor < n /\ n < x.at) =>
                           [schedule |-> x.schedule, at |-> n] \in engine'[e].listed \cup refused'
  BY DEF ListSound
<1>1. x \in engine[e].listed
  OBVIOUS
<1>2. x.schedule \in Timed => x.at <= engine'[e].now
  BY <1>1 DEF ListSound
<1>2a. x.schedule \in Events => x.at \in 1..Len(log')
  <2>1. x.schedule \in Events => x.at \in 1..Len(log)
    BY <1>1 DEF ListSound
  <2>2. Len(log) \in Nat /\ Len(log') \in Nat /\ Len(log) <= Len(log')
    BY DEF Types, LogKept
  <2> QED BY <2>1, <2>2
<1>3. ASSUME x.schedule \in Events, NEW n \in Nat, row'[x.schedule].cursor < n, n < x.at
      PROVE  [schedule |-> x.schedule, at |-> n] \in engine'[e].listed \cup refused'
  <2>1. row[x.schedule].cursor \in Nat /\ row'[x.schedule].cursor \in Nat
    BY <1>3, KindsApart DEF Types, Rows
  <2>2. row[x.schedule].cursor < n
    BY <1>3, <2>1
  <2> QED BY <1>1, <1>3, <2>2 DEF ListSound
<1> QED BY <1>2, <1>2a, <1>3

\* Another engine's claims stay what they are.
LEMMA CallKept ==
  ASSUME Types, NEW e \in Engines, CallSound(e), engine'[e] = engine[e],
         sent \subseteq sent', Len(claims') \in Nat, Len(claims) <= Len(claims')
  PROVE  CallSound(e)'
<1>1. Len(claims) \in Nat
  BY DEF Types
<1> QED BY <1>1 DEF CallSound

\* Steps that claim nothing: the facts about claims stay.
LEMMA ClaimsKept ==
  ASSUME ScheduleInv, Types', LogKept, RowsKept, claims' = claims, refused \subseteq refused'
  PROVE  PastClaims' /\ ClaimsLogged' /\ Accounted' /\ NoTickTwice'
<1>1. \A i \in 1..Len(claims) : claims[i].schedule \in Schedules
  BY ClaimType DEF ScheduleInv
<1>2. PastClaims'
  BY <1>1 DEF ScheduleInv, PastClaims, RowsKept
<1>2a. Len(log) \in Nat /\ Len(log') \in Nat /\ Len(log) <= Len(log')
  BY DEF ScheduleInv, Types, LogKept
<1>2b. ClaimsLogged'
  BY <1>2a DEF ScheduleInv, ClaimsLogged
<1>3. Accounted'
  <2> SUFFICES ASSUME NEW s \in Events, NEW n \in Nat, 0 < n, n <= row'[s].cursor
               PROVE  \/ \E i \in 1..Len(claims') : claims'[i].schedule = s /\ claims'[i].at = n
                      \/ [schedule |-> s, at |-> n] \in refused'
                      \/ Overtaken(s, n)'
    BY DEF Accounted
  <2>1. n <= row[s].cursor
    BY KindsApart DEF RowsKept
  <2>2. CASE Overtaken(s, n)
    <3>1. PICK i \in 1..Len(claims) :
            claims[i].schedule = s /\ n < claims[i].at /\ log[claims[i].at] < log[n]
      BY <2>2 DEF Overtaken
    <3>2. claims[i].at \in 1..Len(log)
      BY <3>1 DEF ScheduleInv, ClaimsLogged
    <3>3. n \in 1..Len(log)
      BY <1>2a, <3>1, <3>2
    <3>4. log'[claims[i].at] < log'[n]
      BY <3>1, <3>2, <3>3 DEF LogKept
    <3> QED BY <3>1, <3>4 DEF Overtaken
  <2>3. \/ \E i \in 1..Len(claims) : claims[i].schedule = s /\ claims[i].at = n
        \/ [schedule |-> s, at |-> n] \in refused
        \/ Overtaken(s, n)
    BY <2>1 DEF ScheduleInv, Accounted
  <2> QED BY <2>2, <2>3
<1>4. NoTickTwice'
  BY DEF ScheduleInv, NoTickTwice, ClaimsOf
<1> QED BY <1>2, <1>2b, <1>3, <1>4

\* Steps outside the engines.
LEMMA OutsideKeeps ==
  ASSUME ScheduleInv, Types', LogKept, RowsKept, UNCHANGED <<claims, sent, refused, engine>>,
         \A s \in Schedules : row'[s].delivered = row[s].delivered /\ row'[s].claim = row[s].claim
  PROVE  ScheduleInv'
<1>1. \A s \in Events : row[s].cursor <= row'[s].cursor
  BY KindsApart DEF RowsKept, ScheduleInv, Types, Rows
<1>2. \A e \in Engines : ListSound(e)'
  BY <1>1, ListKept DEF ScheduleInv
<1>3. \A e \in Engines : CallSound(e)'
  BY DEF ScheduleInv, CallSound
<1>4. PastClaims' /\ ClaimsLogged' /\ Accounted' /\ NoTickTwice'
  BY ClaimsKept
<1>5. DeliveredWasSent'
  BY DEF ScheduleInv, DeliveredWasSent
<1>6. (sent \subseteq 1..Len(claims))'
  BY DEF ScheduleInv
<1> QED BY <1>2, <1>3, <1>4, <1>5, <1>6 DEF ScheduleInv

-----------------------------------------------------------------------------
(* Steps outside the engines                                               *)

LEMMA TickKeeps ==
  ASSUME ScheduleInv, Tick \/ AppendEvent PROVE ScheduleInv'
<1>1. RowsKept
  BY DEF Tick, AppendEvent, RowsKept
<1>2. CASE Tick
  <2>1. Types' /\ LogKept
    BY <1>2, LogStays DEF Tick, ScheduleInv, Types
  <2> QED BY <1>1, <1>2, <2>1, OutsideKeeps DEF Tick
<1>3. CASE AppendEvent
  <2>1. PICK t \in 1..MaxStamp : log' = Append(log, t)
    BY <1>3 DEF AppendEvent
  <2>2. t \in Nat /\ log \in Seq(Nat)
    BY DEF ScheduleInv, Types
  <2>3. log' \in Seq(Nat) /\ LogKept
    BY <2>1, <2>2, AppendFacts DEF LogKept
  <2>4. Types'
    BY <1>3, <2>3 DEF AppendEvent, ScheduleInv, Types
  <2> QED BY <1>1, <1>3, <2>3, <2>4, OutsideKeeps DEF AppendEvent
<1> QED BY <1>2, <1>3

LEMMA ReadKeeps ==
  ASSUME ScheduleInv, NEW u \in Users, NEW s \in Schedules,
         NEW to \in {"active", "paused", "cancelled"}, ReadSchedule(u, s, to)
  PROVE  ScheduleInv'
<1>1. [schedule |-> s, to |-> to] \in Changes
  BY DEF Changes
<1>2. Types' /\ LogKept /\ RowsKept
  BY <1>1, LogStays DEF ReadSchedule, ScheduleInv, Types, RowsKept
<1> QED BY <1>2, OutsideKeeps DEF ReadSchedule

\* The write of transitionSchedule touches the state only.
LEMMA WriteKeeps ==
  ASSUME ScheduleInv, NEW u \in Users, WriteSchedule(u)
  PROVE  ScheduleInv'
<1> DEFINE s == user[u].schedule
           n == [row[s] EXCEPT !.state = user[u].to]
<1>1. user[u] \in Changes
  BY DEF WriteSchedule, ScheduleInv, Types
<1>2. s \in Schedules /\ user[u].to \in States
  BY <1>1 DEF Changes, States
<1>3. row[s] \in Rows
  BY <1>2 DEF ScheduleInv, Types
<1>4. /\ n \in Rows /\ n.next = row[s].next /\ n.cursor = row[s].cursor /\ n.claim = row[s].claim
      /\ n.delivered = row[s].delivered
  BY <1>2, <1>3 DEF Rows
<1>5. row' = [row EXCEPT ![s] = n]
  BY <1>2 DEF WriteSchedule, ScheduleInv, Types
<1> HIDE DEF n
<1>6. row' \in [Schedules -> Rows] /\ row'[s] = n /\ \A t \in Schedules : t # s => row'[t] = row[t]
  BY <1>2, <1>4, <1>5 DEF ScheduleInv, Types
<1>7. RowsKept
  BY <1>4, <1>6 DEF RowsKept
<1>8. user' \in [Users -> {None} \cup Changes]
  BY DEF WriteSchedule, ScheduleInv, Types
<1>9. Types' /\ LogKept
  BY <1>6, <1>8, LogStays DEF WriteSchedule, ScheduleInv, Types
<1>10. \A t \in Schedules : row'[t].delivered = row[t].delivered /\ row'[t].claim = row[t].claim
  BY <1>4, <1>6
<1> QED BY <1>7, <1>9, <1>10, OutsideKeeps DEF WriteSchedule

-----------------------------------------------------------------------------
(* Steps of an engine                                                      *)

\* Steps of an engine that claim nothing and write no due time or cursor.
LEMMA EngineKeeps ==
  ASSUME ScheduleInv, NEW e \in Engines, NEW c \in EngineCalls, engine' = [engine EXCEPT ![e] = c],
         UNCHANGED <<clock, log, claims, user>>, row' \in [Schedules -> Rows], RowsKept,
         sent \subseteq sent', sent' \subseteq 1..Len(claims), refused \subseteq refused',
         ListSound(e)', CallSound(e)', DeliveredWasSent'
  PROVE  ScheduleInv'
<1>1. /\ engine' \in [Engines -> EngineCalls]
      /\ \A f \in Engines : f # e => engine'[f] = engine[f]
  BY CallReplaced DEF ScheduleInv
<1>2. Types' /\ LogKept
  BY <1>1, LogStays DEF ScheduleInv, Types
<1>3. \A s \in Events : row[s].cursor <= row'[s].cursor
  BY KindsApart DEF RowsKept, ScheduleInv, Types, Rows
<1>4. \A f \in Engines : ListSound(f)'
  BY <1>1, <1>2, <1>3, ListKept DEF ScheduleInv
<1>5. Len(claims') \in Nat /\ Len(claims) <= Len(claims')
  BY DEF ScheduleInv, Types
<1>6. \A f \in Engines : CallSound(f)'
  BY <1>1, <1>5, CallKept DEF ScheduleInv
<1>7. PastClaims' /\ ClaimsLogged' /\ Accounted' /\ NoTickTwice'
  BY <1>2, ClaimsKept
<1> QED BY <1>2, <1>4, <1>6, <1>7 DEF ScheduleInv

\* What listDueSchedules and listPendingEventScheduleTriggers return.
LEMMA ListedFacts ==
  ASSUME Types
  PROVE  /\ Due \subseteq Ticks /\ Triggers \subseteq Ticks
         /\ \A x \in Due : x.schedule \in Timed /\ x.at <= clock
         /\ \A x \in Triggers : x.schedule \in Events /\ x.at \in 1..Len(log) /\
              \A n \in Nat : (row[x.schedule].cursor < n /\ n < x.at) =>
                [schedule |-> x.schedule, at |-> n] \in Triggers
<1>1. ASSUME NEW x \in Due PROVE x \in Ticks /\ x.schedule \in Timed /\ x.at <= clock
  <2>1. PICK s \in Timed : row[s].next # None /\ row[s].next <= clock
                           /\ x = [schedule |-> s, at |-> row[s].next]
    BY <1>1 DEF Due
  <2>2. s \in Schedules /\ row[s].next \in Nat
    BY <2>1 DEF Types, Rows, Schedules
  <2> QED BY <2>1, <2>2 DEF Ticks
<1>2. ASSUME NEW x \in Triggers
      PROVE  /\ x \in Ticks /\ x.schedule \in Events /\ x.at \in 1..Len(log)
             /\ \A n \in Nat : (row[x.schedule].cursor < n /\ n < x.at) =>
                  [schedule |-> x.schedule, at |-> n] \in Triggers
  <2>1. /\ x \in [schedule : Events, at : 1..Len(log)] /\ row[x.schedule].state = "active"
        /\ x.schedule \in Events /\ x.at \in 1..Len(log)
    BY <1>2 DEF Triggers
  <2>2. x \in Ticks
    BY <2>1 DEF Ticks, Schedules, Types
  <2>3. ASSUME NEW n \in Nat, row[x.schedule].cursor < n, n < x.at
        PROVE  [schedule |-> x.schedule, at |-> n] \in Triggers
    <3>1. row[x.schedule].cursor \in Nat
      BY <2>1, KindsApart DEF Types, Rows
    <3>2. n \in 1..Len(log)
      BY <2>1, <2>3, <3>1 DEF Types
    <3> QED BY <2>1, <2>3, <3>2 DEF Triggers
  <2> QED BY <2>1, <2>2, <2>3
<1> QED BY <1>1, <1>2

LEMMA ListKeeps ==
  ASSUME ScheduleInv, NEW e \in Engines, List(e, Due) \/ List(e, Triggers)
  PROVE  ScheduleInv'
<1>1. PICK listed \in {Due, Triggers} : List(e, listed)
  OBVIOUS
<1> DEFINE c == [engine[e] EXCEPT !.now = clock, !.listed = listed]
<1>2. /\ listed \subseteq Ticks
      /\ \A x \in listed : x.schedule \in Timed => x.at <= clock
      /\ \A x \in listed : x.schedule \in Events => x.at \in 1..Len(log) /\
           \A n \in Nat : (row[x.schedule].cursor < n /\ n < x.at) =>
             [schedule |-> x.schedule, at |-> n] \in listed
  BY <1>1, ListedFacts, KindsApart DEF ScheduleInv
<1>3. engine[e] = NoCall /\ clock \in Nat
  BY <1>1 DEF List, ScheduleInv, Types
<1>4. /\ c \in EngineCalls /\ c.now = clock /\ c.listed = listed /\ c.claimed = <<>>
      /\ c.accepted = FALSE
  <2>1. engine[e] \in EngineCalls
    BY DEF ScheduleInv, Types
  <2>2. /\ c \in EngineCalls /\ c.now = clock /\ c.listed = listed
        /\ c.claimed = engine[e].claimed
    BY <1>2, <1>3, <2>1 DEF EngineCalls
  <2>3. c.accepted = engine[e].accepted
    BY <2>1 DEF EngineCalls
  <2> QED BY <1>3, <2>2, <2>3, NoCallType
<1>5. engine' = [engine EXCEPT ![e] = c]
  BY <1>1 DEF List, ScheduleInv, Types
<1> HIDE DEF c
<1>6. engine'[e] = c
  BY <1>4, <1>5, CallReplaced DEF ScheduleInv
<1>7. UNCHANGED <<clock, log, row, claims, sent, refused, user>>
  BY <1>1 DEF List
<1>8. ListSound(e)'
  BY <1>2, <1>4, <1>6, <1>7 DEF ListSound
<1>9. CallSound(e)'
  BY <1>4, <1>6 DEF CallSound
<1>10. RowsKept /\ DeliveredWasSent'
  BY <1>7 DEF RowsKept, ScheduleInv, DeliveredWasSent
<1> QED BY <1>4, <1>5, <1>7, <1>8, <1>9, <1>10, EngineKeeps DEF ScheduleInv, Types

\* A call that is given up leaves nothing to be sound about.
LEMMA GivenUp ==
  ASSUME ScheduleInv, NEW e \in Engines, engine' = [engine EXCEPT ![e] = NoCall]
  PROVE  NoCall \in EngineCalls /\ ListSound(e)' /\ CallSound(e)'
<1>1. engine'[e] = NoCall
  BY NoCallType, CallReplaced DEF ScheduleInv
<1>2. ListSound(e)'
  BY <1>1, NoCallType DEF ListSound
<1>3. CallSound(e)'
  BY <1>1, NoCallType DEF CallSound
<1> QED BY <1>2, <1>3, NoCallType

LEMMA CrashKeeps ==
  ASSUME ScheduleInv, NEW e \in Engines, Crash(e)
  PROVE  ScheduleInv'
<1>1. RowsKept /\ DeliveredWasSent'
  BY DEF Crash, RowsKept, ScheduleInv, DeliveredWasSent
<1> QED BY <1>1, GivenUp, EngineKeeps DEF Crash, ScheduleInv, Types

\* The rest of a call, after its first claim is done with.
LEMMA RestSound ==
  ASSUME ScheduleInv, NEW e \in Engines, Delivering(e), engine' = [engine EXCEPT ![e] = Rest(engine[e])],
         UNCHANGED <<claims, refused>>
  PROVE  Rest(engine[e]) \in EngineCalls /\ ListSound(e)' /\ CallSound(e)'
<1>1. engine[e] \in EngineCalls
  BY DEF ScheduleInv, Types
<1>2. CASE Len(engine[e].claimed) = 1
  BY <1>2, GivenUp DEF Rest
<1>3. CASE Len(engine[e].claimed) # 1
  <2> DEFINE c == [engine[e] EXCEPT !.claimed = Tail(@), !.accepted = FALSE]
             q == engine[e].claimed
  <2>1. q \in Seq(Nat) /\ q # <<>> /\ engine[e].listed = {}
    BY <1>1 DEF Delivering, EngineCalls
  <2>2. /\ Tail(q) \in Seq(Nat) /\ Len(q) \in Nat /\ Len(Tail(q)) = Len(q) - 1
        /\ \A i \in 1..Len(Tail(q)) : Tail(q)[i] = q[i + 1] /\ i + 1 \in 1..Len(q)
    BY <2>1
  <2>3. /\ c \in EngineCalls /\ c.listed = engine[e].listed /\ c.claimed = Tail(q)
        /\ c.accepted = FALSE
    BY <1>1, <2>2 DEF EngineCalls
  <2>4. Rest(engine[e]) = c
    BY <1>3 DEF Rest
  <2> HIDE DEF c
  <2>5. engine'[e] = c
    BY <2>3, <2>4, CallReplaced DEF ScheduleInv
  <2>6. ListSound(e)'
    BY <2>1, <2>3, <2>5 DEF ListSound
  <2>7. CallSound(e)'
    <3>1. \A i \in 1..Len(q) : q[i] \in 1..Len(claims)
      BY DEF ScheduleInv, CallSound
    <3>2. \A i \in 1..Len(c.claimed) : c.claimed[i] \in 1..Len(claims)
      BY <2>2, <2>3, <3>1
    <3> QED BY <2>3, <2>5, <3>2 DEF CallSound
  <2> QED BY <2>3, <2>4, <2>6, <2>7
<1> QED BY <1>2, <1>3

LEMMA DeliverKeeps ==
  ASSUME ScheduleInv, NEW e \in Engines, Deliver(e)
  PROVE  ScheduleInv'
<1>1. /\ UNCHANGED <<clock, log, row, claims, refused, user>> /\ RowsKept
      /\ Delivering(e) /\ engine[e] \in EngineCalls /\ row' \in [Schedules -> Rows]
  BY DEF Deliver, RowsKept, ScheduleInv, Types
<1>2. CASE sent' = sent \cup {Head(engine[e].claimed)} /\ engine' = [engine EXCEPT ![e].accepted = TRUE]
  <2> DEFINE c == [engine[e] EXCEPT !.accepted = TRUE]
             q == engine[e].claimed
  <2>1. q \in Seq(Nat) /\ q # <<>> /\ engine[e].listed = {}
    BY <1>1 DEF Delivering, EngineCalls
  <2>2. Head(q) = q[1] /\ 1 \in 1..Len(q)
    BY <2>1
  <2>3. /\ c \in EngineCalls /\ c.listed = engine[e].listed /\ c.claimed = q
    BY <1>1 DEF EngineCalls
  <2>4. engine' = [engine EXCEPT ![e] = c]
    BY <1>2 DEF ScheduleInv, Types
  <2> HIDE DEF c
  <2>5. engine'[e] = c
    BY <2>3, <2>4, CallReplaced DEF ScheduleInv
  <2>6. ListSound(e)'
    BY <2>1, <2>3, <2>5 DEF ListSound
  <2>7. \A i \in 1..Len(q) : q[i] \in 1..Len(claims)
    BY DEF ScheduleInv, CallSound
  <2>8. sent \subseteq sent' /\ sent' \subseteq 1..Len(claims) /\ q[1] \in sent'
    BY <1>2, <2>2, <2>7 DEF ScheduleInv
  <2>9. CallSound(e)'
    BY <1>1, <2>1, <2>3, <2>5, <2>7, <2>8 DEF CallSound
  <2>10. DeliveredWasSent'
    BY <1>1, <2>8 DEF ScheduleInv, DeliveredWasSent
  <2> QED BY <1>1, <2>3, <2>4, <2>6, <2>8, <2>9, <2>10, EngineKeeps
<1>3. CASE UNCHANGED sent /\ engine' = [engine EXCEPT ![e] = Rest(engine[e])]
  <2>1. DeliveredWasSent' /\ sent' \subseteq 1..Len(claims)
    BY <1>1, <1>3 DEF ScheduleInv, DeliveredWasSent
  <2> QED BY <1>1, <1>3, <2>1, RestSound, EngineKeeps
<1>4. CASE UNCHANGED sent /\ engine' = [engine EXCEPT ![e] = NoCall]
  <2>1. DeliveredWasSent' /\ sent' \subseteq 1..Len(claims)
    BY <1>1, <1>4 DEF ScheduleInv, DeliveredWasSent
  <2> QED BY <1>1, <1>4, <2>1, GivenUp, EngineKeeps
<1>5. engine \in [Engines -> EngineCalls]
  BY DEF ScheduleInv, Types
<1> QED BY <1>2, <1>3, <1>4, <1>5 DEF Deliver

\* markScheduleDelivered only marks the claim that is still current.
LEMMA MarkKeeps ==
  ASSUME ScheduleInv, NEW e \in Engines, MarkDelivered(e)
  PROVE  ScheduleInv'
<1> DEFINE id == Head(engine[e].claimed)
           s == claims[id].schedule
<1>1. /\ UNCHANGED <<clock, log, claims, sent, refused, user>>
      /\ Delivering(e) /\ engine[e].accepted /\ engine[e] \in EngineCalls
      /\ sent' \subseteq 1..Len(claims)
  BY DEF MarkDelivered, ScheduleInv, Types
<1>2. id \in sent /\ id \in 1..Len(claims)
  <2>1. engine[e].claimed \in Seq(Nat) /\ engine[e].claimed # <<>>
    BY <1>1 DEF Delivering, EngineCalls
  <2>2. id = engine[e].claimed[1]
    BY <2>1
  <2> QED BY <1>1, <2>2 DEF ScheduleInv, CallSound
<1>3. s \in Schedules
  BY <1>2, ClaimType DEF ScheduleInv
<1> HIDE DEF id
<1>4. CASE Current(id)
  <2> DEFINE n == [row[s] EXCEPT !.delivered = TRUE]
  <2>1. row' = [row EXCEPT ![s].delivered = TRUE] /\ engine' = [engine EXCEPT ![e] = Rest(engine[e])]
    BY <1>4 DEF MarkDelivered, id, ScheduleInv, Types
  <2>2. row[s] \in Rows
    BY <1>3 DEF ScheduleInv, Types
  <2>3. n \in Rows /\ n.next = row[s].next /\ n.cursor = row[s].cursor /\ n.claim = row[s].claim
    BY <2>2 DEF Rows
  <2>4. row' = [row EXCEPT ![s] = n]
    BY <1>3, <2>1 DEF ScheduleInv, Types
  <2> HIDE DEF n
  <2>5. /\ row' \in [Schedules -> Rows] /\ row'[s] = n
        /\ \A t \in Schedules : t # s => row'[t] = row[t]
    BY <1>3, <2>3, <2>4 DEF ScheduleInv, Types
  <2>6. RowsKept
    BY <2>3, <2>5 DEF RowsKept
  <2>7. DeliveredWasSent'
    <3>1. row'[s].claim \in sent'
      BY <1>1, <1>2, <1>4, <2>3, <2>5 DEF Current
    <3> QED BY <1>1, <2>5, <3>1 DEF ScheduleInv, DeliveredWasSent
  <2> QED BY <1>1, <2>1, <2>5, <2>6, <2>7, RestSound, EngineKeeps
<1>5. CASE ~Current(id)
  <2>1. row' = row /\ engine' = [engine EXCEPT ![e] = NoCall]
    BY <1>5 DEF MarkDelivered, id
  <2>2. RowsKept /\ DeliveredWasSent' /\ row' \in [Schedules -> Rows]
    BY <1>1, <2>1 DEF RowsKept, ScheduleInv, DeliveredWasSent, Types
  <2> QED BY <1>1, <2>1, <2>2, GivenUp, EngineKeeps
<1> QED BY <1>4, <1>5

\* A claim that the store refuses: the engine goes on with its list.
LEMMA RefusedKeeps ==
  ASSUME ScheduleInv, NEW e \in Engines, NEW x \in engine[e].listed, ClaimNext(e, x), ~Claimable(x)
  PROVE  ScheduleInv'
<1>1. /\ UNCHANGED <<clock, log, row, claims, sent, user>> /\ RowsKept /\ DeliveredWasSent'
      /\ row' \in [Schedules -> Rows] /\ sent' \subseteq 1..Len(claims)
      /\ refused' = IF x.schedule \in Events /\ row[x.schedule].state # "active"
                    THEN refused \cup {x} ELSE refused
  BY DEF ClaimNext, RowsKept, DeliveredWasSent, ScheduleInv, Types
<1>2. engine' = [engine EXCEPT ![e] = NoCall]
      \/ engine' = [engine EXCEPT ![e] = [engine[e] EXCEPT !.listed = @ \ {x}]]
  BY DEF ClaimNext, Without, ScheduleInv, Types
<1>3. CASE engine' = [engine EXCEPT ![e] = NoCall]
  BY <1>1, <1>3, GivenUp, EngineKeeps
<1>4. CASE engine' = [engine EXCEPT ![e] = [engine[e] EXCEPT !.listed = @ \ {x}]]
  <2> DEFINE c == [engine[e] EXCEPT !.listed = @ \ {x}]
  <2>1. engine[e] \in EngineCalls /\ engine[e].listed \subseteq Ticks
    BY DEF ScheduleInv, Types, EngineCalls
  <2>2. /\ c \in EngineCalls /\ c.now = engine[e].now /\ c.listed = engine[e].listed \ {x}
        /\ c.claimed = engine[e].claimed
    BY <2>1 DEF EngineCalls
  <2>3. c.accepted = engine[e].accepted
    BY <2>1 DEF EngineCalls
  <2>4. engine' = [engine EXCEPT ![e] = c]
    BY <1>4
  <2> HIDE DEF c
  <2>5. engine'[e] = c
    BY <2>2, <2>4, CallReplaced DEF ScheduleInv
  <2>6. ListSound(e)'
    <3>1. ASSUME NEW y \in c.listed, y.schedule \in Timed PROVE y.at <= c.now
      BY <2>2, <3>1 DEF ScheduleInv, ListSound
    <3>1a. ASSUME NEW y \in c.listed, y.schedule \in Events PROVE y.at \in 1..Len(log)
      BY <2>2, <3>1a DEF ScheduleInv, ListSound
    <3>2. ASSUME NEW y \in c.listed, y.schedule \in Events, NEW n \in Nat,
                 row[y.schedule].cursor < n, n < y.at
          PROVE  [schedule |-> y.schedule, at |-> n] \in c.listed \cup refused'
      <4> DEFINE z == [schedule |-> y.schedule, at |-> n]
      <4>1. z \in engine[e].listed \cup refused
        BY <2>2, <3>2 DEF ScheduleInv, ListSound
      <4>2. CASE z = x
        <5>1. x.schedule = y.schedule /\ x.at = n
          BY <4>2
        <5>2. row[x.schedule].state # "active"
          BY <3>2, <5>1 DEF Claimable
        <5> QED BY <1>1, <3>2, <4>2, <5>1, <5>2
      <4> QED BY <1>1, <2>2, <4>1, <4>2
    <3> QED BY <1>1, <2>5, <3>1, <3>1a, <3>2 DEF ListSound
  <2>7. CallSound(e)'
    BY <1>1, <2>2, <2>3, <2>5 DEF ScheduleInv, CallSound
  <2> QED BY <1>1, <2>2, <2>4, <2>6, <2>7, EngineKeeps
<1> QED BY <1>2, <1>3, <1>4

\* What a successful claim writes.
LEMMA ClaimWrites ==
  ASSUME ScheduleInv, NEW e \in Engines, NEW x \in engine[e].listed, ClaimNext(e, x), Claimable(x)
  PROVE  /\ x.schedule \in Schedules /\ x.at \in Nat
         /\ x.schedule \in Timed => x.at <= engine[e].now
         /\ row' \in [Schedules -> Rows]
         /\ \A t \in Schedules : t # x.schedule => row'[t] = row[t]
         /\ x.schedule \in Intervals =>
              (row'[x.schedule].next \in Nat /\ x.at < row'[x.schedule].next)
         /\ x.schedule \in Onces => row'[x.schedule].next = None
         /\ x.schedule \in Events => row'[x.schedule].cursor = x.at
         /\ row'[x.schedule].delivered = FALSE
         /\ claims' \in Seq(Claims) /\ Len(claims) \in Nat /\ Len(claims') = Len(claims) + 1
         /\ \A i \in 1..Len(claims) : claims'[i] = claims[i]
         /\ claims'[Len(claims) + 1].schedule = x.schedule
         /\ claims'[Len(claims) + 1].at = x.at
<1> DEFINE s == x.schedule
           now == engine[e].now
           n == [state |-> IF s \in Onces THEN "completed" ELSE "active",
                 next |-> IF s \in Timed THEN NextRun(s, x.at, now) ELSE None,
                 cursor |-> IF s \in Timed THEN 0 ELSE x.at,
                 claim |-> Len(claims) + 1,
                 delivered |-> FALSE]
           c == [schedule |-> s, at |-> x.at, missed |-> Missed(s, x.at, now)]
<1>1. engine[e] \in EngineCalls /\ claims \in Seq(Claims) /\ row \in [Schedules -> Rows]
  BY DEF ScheduleInv, Types
<1>2. x \in Ticks /\ now \in Nat
  BY <1>1 DEF EngineCalls
<1>3. s \in Schedules /\ x.at \in Nat /\ (s \in Timed => x.at <= now)
  BY <1>2 DEF Ticks, ScheduleInv, ListSound
<1>4. Missed(s, x.at, now) \in Nat /\ NextRun(s, x.at, now) \in {None} \cup Nat
      /\ (s \in Intervals => NextRun(s, x.at, now) \in Nat /\ x.at < NextRun(s, x.at, now))
      /\ (s \notin Intervals => NextRun(s, x.at, now) = None)
  <2>1. CASE s \in Intervals
    <3>1. x.at <= now
      BY <1>3, <2>1 DEF Timed
    <3> QED BY <1>2, <1>3, <2>1, <3>1, NextRunIsLater
  <2>2. CASE s \notin Intervals
    BY <2>2 DEF Missed, NextRun
  <2> QED BY <2>1, <2>2
<1>5. /\ row' = [row EXCEPT ![s] = n] /\ claims' = Append(claims, c)
  BY DEF ClaimNext
<1>6. Len(claims) \in Nat
  BY <1>1
<1>7. c \in Claims /\ c.schedule = s /\ c.at = x.at
  BY <1>3, <1>4 DEF Claims
<1>8. n \in Rows
  <2>1. (IF s \in Onces THEN "completed" ELSE "active") \in States
    BY DEF States
  <2>2. (IF s \in Timed THEN NextRun(s, x.at, now) ELSE None) \in {None} \cup Nat
    BY <1>4
  <2>3. (IF s \in Timed THEN 0 ELSE x.at) \in Nat
    BY <1>3
  <2> QED BY <1>6, <2>1, <2>2, <2>3 DEF Rows
<1>9. /\ s \in Timed => n.next = NextRun(s, x.at, now)
      /\ s \notin Timed => n.cursor = x.at
  OBVIOUS
<1>10. n.delivered = FALSE
  OBVIOUS
<1> HIDE DEF n, c
<1>11. row' \in [Schedules -> Rows] /\ row'[s] = n /\ \A t \in Schedules : t # s => row'[t] = row[t]
  BY <1>1, <1>3, <1>5, <1>8
<1>12. /\ claims' \in Seq(Claims) /\ Len(claims') = Len(claims) + 1
       /\ \A i \in 1..Len(claims) : claims'[i] = claims[i]
       /\ claims'[Len(claims) + 1] = c
  BY <1>1, <1>5, <1>7, AppendFacts
<1>13. s \in Intervals => (row'[s].next \in Nat /\ x.at < row'[s].next)
  BY <1>4, <1>9, <1>11, KindsApart
<1>14. s \in Onces => row'[s].next = None
  BY <1>4, <1>9, <1>11, KindsApart
<1>15. s \in Events => row'[s].cursor = x.at
  BY <1>9, <1>11, KindsApart
<1>16. row'[s].delivered = FALSE
  BY <1>10, <1>11
<1> QED BY <1>3, <1>6, <1>7, <1>11, <1>12, <1>13, <1>14, <1>15, <1>16

\* A claim that succeeds: the earliest of the list, and later than every claim of
\* the schedule before it.
LEMMA ClaimedKeeps ==
  ASSUME ScheduleInv, NEW e \in Engines, NEW x \in engine[e].listed, ClaimNext(e, x), Claimable(x)
  PROVE  ScheduleInv'
<1> DEFINE s == x.schedule
           k == Len(claims) + 1
           c == [engine[e] EXCEPT !.listed = {y \in @ : y.schedule # s}, !.claimed = Append(@, k)]
<1>1. /\ s \in Schedules /\ x.at \in Nat /\ (s \in Timed => x.at <= engine[e].now)
      /\ row' \in [Schedules -> Rows]
      /\ \A t \in Schedules : t # s => row'[t] = row[t]
      /\ s \in Intervals => (row'[s].next \in Nat /\ x.at < row'[s].next)
      /\ s \in Onces => row'[s].next = None
      /\ s \in Events => row'[s].cursor = x.at
      /\ claims' \in Seq(Claims) /\ Len(claims) \in Nat /\ Len(claims') = k
      /\ \A i \in 1..Len(claims) : claims'[i] = claims[i]
      /\ claims'[k].schedule = s /\ claims'[k].at = x.at
  BY ClaimWrites
<1>2. /\ UNCHANGED <<clock, log, sent, refused, user>> /\ row'[s].delivered = FALSE
      /\ \A y \in engine[e].listed : ~Before(y, x)
  BY ClaimWrites DEF ClaimNext
<1>3. engine[e] \in EngineCalls /\ engine[e].claimed \in Seq(Nat) /\ engine[e].listed \subseteq Ticks
  BY DEF ScheduleInv, Types, EngineCalls
<1>4. /\ Append(engine[e].claimed, k) \in Seq(Nat)
      /\ Len(engine[e].claimed) \in Nat
      /\ Len(Append(engine[e].claimed, k)) = Len(engine[e].claimed) + 1
      /\ \A i \in 1..Len(engine[e].claimed) : Append(engine[e].claimed, k)[i] = engine[e].claimed[i]
      /\ Append(engine[e].claimed, k)[Len(engine[e].claimed) + 1] = k
  <2>1. k \in Nat
    BY <1>1
  <2> QED BY <1>3, <2>1, AppendFacts
<1>5. /\ c \in EngineCalls /\ c.now = engine[e].now
      /\ c.listed = {y \in engine[e].listed : y.schedule # s}
      /\ c.claimed = Append(engine[e].claimed, k)
  BY <1>3, <1>4 DEF EngineCalls
<1>6. c.accepted = engine[e].accepted
  BY <1>3 DEF EngineCalls
<1>7. engine' = [engine EXCEPT ![e] = c]
  BY DEF ClaimNext, ScheduleInv, Types
<1> HIDE DEF c
<1>8. /\ engine' \in [Engines -> EngineCalls] /\ engine'[e] = c
      /\ \A f \in Engines : f # e => engine'[f] = engine[f]
  BY <1>5, <1>7, CallReplaced DEF ScheduleInv
<1>9. Types' /\ LogKept
  BY <1>1, <1>2, <1>8, LogStays DEF ScheduleInv, Types
<1>10. s \in Events => row[s].cursor < x.at
  BY DEF Claimable
<1>11. \A t \in Events : row[t].cursor <= row'[t].cursor
  <2> SUFFICES ASSUME NEW t \in Events PROVE row[t].cursor <= row'[t].cursor
    OBVIOUS
  <2>1. row[t].cursor \in Nat /\ t \in Schedules
    BY KindsApart DEF ScheduleInv, Types, Rows
  <2> QED BY <1>1, <1>10, <2>1
<1>12. ASSUME NEW f \in Engines PROVE ListSound(f)'
  <2>1. CASE f # e
    BY <1>2, <1>8, <1>9, <1>11, <2>1, ListKept DEF ScheduleInv
  <2>2. CASE f = e
    <3>1. ASSUME NEW y \in c.listed, y.schedule \in Timed PROVE y.at <= c.now
      BY <1>5, <3>1 DEF ScheduleInv, ListSound
    <3>1a. ASSUME NEW y \in c.listed, y.schedule \in Events PROVE y.at \in 1..Len(log')
      BY <1>2, <1>5, <3>1a DEF ScheduleInv, ListSound
    <3>2. ASSUME NEW y \in c.listed, y.schedule \in Events, NEW n \in Nat,
                 row'[y.schedule].cursor < n, n < y.at
          PROVE  [schedule |-> y.schedule, at |-> n] \in c.listed \cup refused'
      <4>1. y \in engine[e].listed /\ y.schedule # s /\ y.schedule \in Schedules
        BY <1>5, <3>2, KindsApart
      <4>2. row'[y.schedule] = row[y.schedule]
        BY <1>1, <4>1
      <4>3. [schedule |-> y.schedule, at |-> n] \in engine[e].listed \cup refused
        BY <3>2, <4>1, <4>2 DEF ScheduleInv, ListSound
      <4> QED BY <1>2, <1>5, <4>1, <4>3
    <3> QED BY <1>8, <2>2, <3>1, <3>1a, <3>2 DEF ListSound
  <2> QED BY <2>1, <2>2
<1>13. ASSUME NEW f \in Engines PROVE CallSound(f)'
  <2>1. CASE f # e
    BY <1>1, <1>2, <1>8, <2>1, CallKept DEF ScheduleInv
  <2>2. CASE f = e
    <3>1. /\ \A i \in 1..Len(engine[e].claimed) : engine[e].claimed[i] \in 1..Len(claims)
          /\ engine[e].accepted => (engine[e].claimed # <<>> /\ engine[e].claimed[1] \in sent)
      BY DEF ScheduleInv, CallSound
    <3>2. \A i \in 1..Len(c.claimed) : c.claimed[i] \in 1..Len(claims')
      BY <1>1, <1>4, <1>5, <3>1
    <3>3. engine[e].claimed # <<>> => (c.claimed # <<>> /\ c.claimed[1] = engine[e].claimed[1])
      <4>1. engine[e].claimed # <<>> => 1 \in 1..Len(engine[e].claimed)
        BY <1>3
      <4>2. Len(c.claimed) # 0
        BY <1>4, <1>5
      <4> QED BY <1>4, <1>5, <4>1, <4>2
    <3> QED BY <1>2, <1>6, <1>8, <2>2, <3>1, <3>2, <3>3 DEF CallSound
  <2> QED BY <2>1, <2>2
<1>14. PastClaims'
  <2> SUFFICES ASSUME NEW i \in 1..Len(claims')
               PROVE  LET t == claims'[i].schedule IN
                      /\ t \in Intervals => (row'[t].next \in Nat /\ claims'[i].at < row'[t].next)
                      /\ t \in Onces => row'[t].next = None
                      /\ t \in Events => (0 < claims'[i].at /\ claims'[i].at <= row'[t].cursor)
    BY DEF PastClaims
  <2>1. CASE i = k
    <3>1. s \in Events => row[s].cursor \in Nat
      BY <1>1 DEF ScheduleInv, Types, Rows
    <3> QED BY <1>1, <1>10, <2>1, <3>1
  <2>2. CASE i \in 1..Len(claims)
    <3> DEFINE t == claims[i].schedule
    <3>1. claims'[i] = claims[i] /\ t \in Schedules /\ claims[i].at \in Nat
      BY <1>1, <2>2, ClaimType DEF ScheduleInv
    <3>2. /\ t \in Intervals => (row[t].next \in Nat /\ claims[i].at < row[t].next)
          /\ t \in Onces => row[t].next = None
          /\ t \in Events => (0 < claims[i].at /\ claims[i].at <= row[t].cursor)
      BY <2>2 DEF ScheduleInv, PastClaims
    <3>3. CASE t # s
      <4>1. row'[t] = row[t]
        BY <1>1, <3>1, <3>3
      <4> QED BY <3>1, <3>2, <4>1
    <3>4. CASE t = s
      <4>1. s \in Intervals => row[s].next = x.at
        BY KindsApart DEF Claimable
      <4>2. s \in Events => row[s].cursor \in Nat
        BY <1>1 DEF ScheduleInv, Types, Rows
      <4> QED BY <1>1, <1>10, <3>1, <3>2, <3>4, <4>1, <4>2
    <3> QED BY <3>3, <3>4
  <2> QED BY <1>1, <2>1, <2>2
<1>14a. s \in Events => x.at \in 1..Len(log)
  BY DEF ScheduleInv, ListSound
<1>14b. ClaimsLogged'
  BY <1>1, <1>2, <1>14a DEF ScheduleInv, ClaimsLogged
<1>15. Accounted'
  <2> SUFFICES ASSUME NEW t \in Events, NEW n \in Nat, 0 < n, n <= row'[t].cursor
               PROVE  \/ \E i \in 1..Len(claims') : claims'[i].schedule = t /\ claims'[i].at = n
                      \/ [schedule |-> t, at |-> n] \in refused'
                      \/ Overtaken(t, n)'
    BY DEF Accounted
  <2>1. CASE n <= row[t].cursor
    <3>1. \/ \E i \in 1..Len(claims) : claims[i].schedule = t /\ claims[i].at = n
          \/ [schedule |-> t, at |-> n] \in refused
          \/ Overtaken(t, n)
      BY <2>1 DEF ScheduleInv, Accounted
    <3>2. Overtaken(t, n) => Overtaken(t, n)'
      BY <1>1, <1>2 DEF Overtaken
    <3> QED BY <1>1, <1>2, <3>1, <3>2
  <2>2. CASE ~(n <= row[t].cursor)
    <3>1. row[t].cursor \in Nat /\ t \in Schedules
      BY KindsApart DEF ScheduleInv, Types, Rows
    <3>2. t = s /\ n <= x.at /\ row[s].cursor < n
      BY <1>1, <2>2, <3>1
    <3>3. CASE n = x.at
      BY <1>1, <3>2, <3>3
    <3>4. CASE n < x.at
      <4> DEFINE y == [schedule |-> s, at |-> n]
      <4>1. y \in engine[e].listed \cup refused
        BY <3>2, <3>4 DEF ScheduleInv, ListSound
      <4>2. CASE y \in engine[e].listed
        <5>1. ~Before(y, x) /\ y.schedule \in Events /\ y.at = n
          BY <1>2, <3>2, <4>2
        <5>2. ~(log[n] < log[x.at]) /\ ~(log[n] = log[x.at])
          BY <3>4, <5>1 DEF Before
        <5>3. x.at \in 1..Len(log) /\ n \in 1..Len(log)
          BY <1>1, <1>14a, <3>2, <3>4 DEF ScheduleInv, Types
        <5>4. log[n] \in Nat /\ log[x.at] \in Nat
          BY <5>3 DEF ScheduleInv, Types
        <5>5. log[x.at] < log[n]
          BY <5>2, <5>4
        <5>6. k \in 1..Len(claims') /\ claims'[k].schedule = t /\ claims'[k].at = x.at
          BY <1>1, <3>2
        <5> QED BY <1>2, <3>4, <5>5, <5>6 DEF Overtaken
      <4> QED BY <1>2, <3>2, <4>1, <4>2
    <3> QED BY <1>1, <3>2, <3>3, <3>4
  <2> QED BY <2>1, <2>2
<1>16. NoTickTwice'
  <2> SUFFICES ASSUME NEW i \in 1..Len(claims'), NEW j \in 1..Len(claims'), i < j,
                      claims'[i].schedule = claims'[j].schedule
               PROVE  claims'[i].at < claims'[j].at
    BY DEF NoTickTwice, ClaimsOf
  <2>1. i \in 1..Len(claims) /\ claims'[i] = claims[i]
    BY <1>1
  <2>2. CASE j \in 1..Len(claims)
    <3>1. claims'[j] = claims[j] /\ claims[i].schedule \in Schedules
      BY <1>1, <2>1, <2>2, ClaimType DEF ScheduleInv
    <3> QED BY <2>1, <2>2, <3>1 DEF ScheduleInv, NoTickTwice, ClaimsOf
  <2>3. CASE j = k
    <3>1. claims[i].schedule = s /\ claims'[j].at = x.at /\ claims[i].at \in Nat
      BY <1>1, <2>1, <2>3, ClaimType DEF ScheduleInv
    <3>2. /\ s \in Intervals => claims[i].at < row[s].next
          /\ s \in Onces => row[s].next = None
          /\ s \in Events => claims[i].at <= row[s].cursor
      BY <2>1, <3>1 DEF ScheduleInv, PastClaims
    <3>3. CASE s \in Events
      <4>1. row[s].cursor \in Nat
        BY <1>1 DEF ScheduleInv, Types, Rows
      <4> QED BY <1>1, <1>10, <2>1, <3>1, <3>2, <3>3, <4>1
    <3>4. CASE s \in Timed
      <4>1. row[s].next = x.at
        BY <3>4, KindsApart DEF Claimable, Timed
      <4> QED BY <1>1, <2>1, <3>1, <3>2, <3>4, <4>1, NoneAssumption DEF Timed
    <3> QED BY <1>1, <3>3, <3>4 DEF Schedules
  <2> QED BY <1>1, <2>2, <2>3
<1>17. DeliveredWasSent'
  BY <1>1, <1>2 DEF ScheduleInv, DeliveredWasSent
<1>18. sent' \subseteq 1..Len(claims')
  BY <1>1, <1>2 DEF ScheduleInv
<1> QED BY <1>9, <1>12, <1>13, <1>14, <1>14b, <1>15, <1>16, <1>17, <1>18 DEF ScheduleInv

-----------------------------------------------------------------------------
(* The theorems                                                            *)

LEMMA ScheduleInit == Init => ScheduleInv
<1> SUFFICES ASSUME Init PROVE ScheduleInv
  OBVIOUS
<1> DEFINE r(s) == [state |-> "active", cursor |-> 0, claim |-> 0, delivered |-> FALSE,
                    next |-> IF s \in Onces THEN 1 ELSE IF s \in Intervals THEN Period ELSE None]
<1>1. \A s \in Schedules : r(s) \in Rows
  BY PeriodAssumption DEF Rows, States
<1>2. \A s \in Schedules : row[s].cursor = 0
  BY DEF Init
<1>3. \A s \in Schedules : row[s].delivered = FALSE
  BY DEF Init
<1>4. claims = <<>> /\ Len(claims) = 0 /\ claims \in Seq(Claims)
  BY DEF Init
<1>5. engine = [e \in Engines |-> NoCall] /\ \A e \in Engines : engine[e] = NoCall
  BY DEF Init
<1>6. row \in [Schedules -> Rows]
  BY <1>1 DEF Init
<1>7. Types
  BY <1>4, <1>5, <1>6, NoCallType DEF Init, Types
<1>8. \A e \in Engines : ListSound(e)
  BY <1>5, NoCallType DEF ListSound
<1>9. \A e \in Engines : CallSound(e)
  BY <1>5, NoCallType DEF CallSound
<1>10. PastClaims /\ ClaimsLogged /\ NoTickTwice
  BY <1>4 DEF PastClaims, ClaimsLogged, NoTickTwice, ClaimsOf
<1>11. Accounted
  BY <1>2, KindsApart DEF Accounted
<1>12. DeliveredWasSent
  BY <1>3 DEF DeliveredWasSent
<1>13. sent \subseteq 1..Len(claims)
  BY DEF Init
<1> QED BY <1>7, <1>8, <1>9, <1>10, <1>11, <1>12, <1>13 DEF ScheduleInv

LEMMA ScheduleNext == ScheduleInv /\ [Next]_vars => ScheduleInv'
<1> SUFFICES ASSUME ScheduleInv, [Next]_vars PROVE ScheduleInv'
  OBVIOUS
<1>1. CASE UNCHANGED vars
  <2>1. Types' /\ LogKept /\ RowsKept /\ UNCHANGED <<claims, sent, refused, engine, row>>
    BY <1>1, LogStays DEF vars, ScheduleInv, Types, RowsKept
  <2> QED BY <2>1, OutsideKeeps
<1>2. CASE Next
  BY <1>2, TickKeeps, ReadKeeps, WriteKeeps, ListKeeps, RefusedKeeps, ClaimedKeeps, DeliverKeeps,
     MarkKeeps, CrashKeeps DEF Next
<1> QED BY <1>1, <1>2

\* Rows, lists and claims fit together in every state (claimSchedule,
\* claimEventSchedule, markScheduleDelivered).
THEOREM ScheduleSound == Spec => []ScheduleInv
BY ScheduleInit, ScheduleNext, PTL DEF Spec

\* No due time and no event of a schedule is claimed twice, and later claims are
\* for later ticks, whatever engines, crashes and racing changes of the user do.
THEOREM NoTickTwiceAlways == Spec => []NoTickTwice
<1>1. ScheduleInv => NoTickTwice
  BY DEF ScheduleInv
<1> QED BY <1>1, ScheduleSound, PTL

\* claimEvents passes over an event only when its claim found the schedule paused
\* or cancelled, or when one with a later seq was created before it and claimed.
THEOREM EventsInOrderAlways == Spec => []EventsInOrder
<1>1. ScheduleInv => EventsInOrder
  <2> SUFFICES ASSUME ScheduleInv, NEW s \in Events
               PROVE  LET claimed == {claims[i].at : i \in ClaimsOf(s)} IN
                      /\ claimed \subseteq 1..row[s].cursor
                      /\ \A n \in (1..row[s].cursor) \ claimed :
                           \/ [schedule |-> s, at |-> n] \in refused
                           \/ \E m \in claimed : n < m /\ log[m] < log[n]
    BY DEF EventsInOrder
  <2>1. row[s].cursor \in Nat
    BY KindsApart DEF ScheduleInv, Types, Rows
  <2>2. ASSUME NEW i \in ClaimsOf(s) PROVE claims[i].at \in 1..row[s].cursor
    <3>1. i \in 1..Len(claims) /\ claims[i].schedule = s /\ claims[i].at \in Nat
      BY <2>2, ClaimType DEF ClaimsOf, ScheduleInv
    <3> QED BY <2>1, <3>1 DEF ScheduleInv, PastClaims
  <2>3. ASSUME NEW n \in 1..row[s].cursor, n \notin {claims[i].at : i \in ClaimsOf(s)}
        PROVE  \/ [schedule |-> s, at |-> n] \in refused
               \/ \E m \in {claims[i].at : i \in ClaimsOf(s)} : n < m /\ log[m] < log[n]
    <3>1. n \in Nat /\ 0 < n /\ n <= row[s].cursor
      BY <2>1
    <3>2. [schedule |-> s, at |-> n] \in refused \/ Overtaken(s, n)
      BY <2>3, <3>1 DEF ScheduleInv, Accounted, ClaimsOf
    <3> QED BY <3>2 DEF Overtaken, ClaimsOf
  <2> QED BY <2>2, <2>3
<1> QED BY <1>1, ScheduleSound, PTL

\* A schedule marked delivered says so of its latest claim, which was accepted:
\* markScheduleDelivered never marks a claim that another engine has superseded.
THEOREM DeliveredWasSentAlways == Spec => []DeliveredWasSent
<1>1. ScheduleInv => DeliveredWasSent
  BY DEF ScheduleInv
<1> QED BY <1>1, ScheduleSound, PTL

-----------------------------------------------------------------------------
(* Missed ticks                                                            *)

INSTANCE FiniteSetTheorems

MissedIn(s) == [i \in ClaimsOf(s) |-> claims[i].missed]

\* The property, with the sum known to be a number.
TicksCounted ==
  \A s \in Intervals :
    IsFiniteSet(Units(MissedIn(s))) /\ row[s].next = Period * (SumOf(MissedIn(s)) + 1)

\* A new entry of a function adds its value to the sum.
LEMMA EntryAdded ==
  ASSUME NEW g, NEW h, NEW n, n \notin DOMAIN g, DOMAIN h = DOMAIN g \cup {n},
         \A y \in DOMAIN g : h[y] = g[y], h[n] \in Nat, IsFiniteSet(Units(g))
  PROVE  IsFiniteSet(Units(h)) /\ SumOf(g) \in Nat /\ SumOf(h) = SumOf(g) + h[n]
<1> DEFINE N == {n} \X (1..h[n])
<1>1. IsFiniteSet(N) /\ Cardinality(N) = h[n]
  <2>1. IsFiniteSet(1..h[n]) /\ Cardinality(1..h[n]) = IF 1 > h[n] THEN 0 ELSE h[n] - 1 + 1
    BY FS_Interval
  <2>2. IsFiniteSet({n}) /\ Cardinality({n}) = 1
    BY FS_Singleton
  <2>3. IsFiniteSet(N) /\ Cardinality(N) = Cardinality({n}) * Cardinality(1..h[n])
    BY <2>1, <2>2, FS_Product
  <2> QED BY <2>1, <2>2, <2>3
<1>2. Units(h) = Units(g) \cup N
  BY DEF Units
<1>3. Units(g) \cap N = {}
  BY DEF Units
<1> HIDE DEF N
<1>4. Cardinality(Units(g)) \in Nat
  BY FS_CardinalityType
<1>5. /\ IsFiniteSet(Units(g) \cup N)
      /\ Cardinality(Units(g) \cup N) = Cardinality(Units(g)) + Cardinality(N) - Cardinality(Units(g) \cap N)
  BY <1>1, FS_Union
<1>6. Cardinality(Units(g) \cap N) = 0
  BY <1>3, FS_EmptySet
<1> QED BY <1>1, <1>2, <1>4, <1>5, <1>6 DEF SumOf

\* A step that neither claims nor moves a due time.
LEMMA CountKept ==
  ASSUME TicksCounted, UNCHANGED claims, \A s \in Schedules : row'[s].next = row[s].next
  PROVE  TicksCounted'
<1>1. \A s : MissedIn(s)' = MissedIn(s)
  BY DEF MissedIn, ClaimsOf
<1> QED BY <1>1, KindsApart DEF TicksCounted

\* nextAfterClaim moves the next run by as many periods as it counts ticks.
LEMMA ClaimCounts ==
  ASSUME ScheduleInv, TicksCounted,
         NEW e \in Engines, NEW x \in engine[e].listed, ClaimNext(e, x), Claimable(x)
  PROVE  TicksCounted'
<1> DEFINE k == Len(claims) + 1
           m == Missed(x.schedule, x.at, engine[e].now)
<1>1. /\ x.schedule \in Schedules /\ x.at \in Nat
      /\ x.schedule \in Timed => x.at <= engine[e].now
      /\ \A t \in Schedules : t # x.schedule => row'[t] = row[t]
      /\ Len(claims) \in Nat /\ Len(claims') = k
      /\ \A i \in 1..Len(claims) : claims'[i] = claims[i]
      /\ claims'[k].schedule = x.schedule
  BY ClaimWrites
<1>2. claims'[k].missed = m
  <2> DEFINE c == [schedule |-> x.schedule, at |-> x.at, missed |-> m]
  <2>1. claims' = Append(claims, c)
    BY DEF ClaimNext
  <2>2. claims' [k] = c
    BY <1>1, <2>1 DEF ScheduleInv, Types
  <2> QED BY <2>2
<1>3. SUFFICES ASSUME NEW s \in Intervals
               PROVE  /\ IsFiniteSet(Units(MissedIn(s)'))
                      /\ row'[s].next = Period * (SumOf(MissedIn(s)') + 1)
  <2>1. \A s : SumOf(MissedIn(s))' = SumOf(MissedIn(s)') /\ Units(MissedIn(s))' = Units(MissedIn(s)')
    BY DEF SumOf, Units
  <2> QED BY <1>3, <2>1 DEF TicksCounted
<1>4. /\ IsFiniteSet(Units(MissedIn(s))) /\ row[s].next = Period * (SumOf(MissedIn(s)) + 1)
      /\ s \in Schedules /\ s \in Timed
  BY KindsApart DEF TicksCounted
<1>5. CASE s # x.schedule
  <2>1. ClaimsOf(s)' = ClaimsOf(s)
    BY <1>1, <1>5 DEF ClaimsOf
  <2>2. MissedIn(s)' = MissedIn(s)
    BY <1>1, <2>1 DEF MissedIn, ClaimsOf
  <2> QED BY <1>1, <1>4, <1>5, <2>2
<1>6. CASE s = x.schedule
  <2> DEFINE g == MissedIn(s)
             h == MissedIn(s)'
             now == engine[e].now
  <2>1. now \in Nat
    BY DEF ScheduleInv, Types, EngineCalls
  <2>2. m \in Nat
    BY <1>1, <1>4, <1>6, <2>1, NextRunIsLater
  <2>3. ClaimsOf(s)' = ClaimsOf(s) \cup {k} /\ k \notin ClaimsOf(s)
    BY <1>1, <1>6 DEF ClaimsOf
  <2>4. /\ k \notin DOMAIN g /\ DOMAIN h = DOMAIN g \cup {k} /\ h[k] = m
        /\ \A y \in DOMAIN g : h[y] = g[y]
    BY <1>1, <1>2, <2>3 DEF MissedIn, ClaimsOf
  <2>5. row'[s].next = row[s].next + m * Period
    <3>1. row[s].next = x.at
      BY <1>4, <1>6, KindsApart DEF Claimable
    <3> DEFINE r == [state |-> IF s \in Onces THEN "completed" ELSE "active",
                     next |-> IF s \in Timed THEN NextRun(s, x.at, now) ELSE None,
                     cursor |-> IF s \in Timed THEN 0 ELSE x.at,
                     claim |-> Len(claims) + 1,
                     delivered |-> FALSE]
    <3>2. row' = [row EXCEPT ![s] = r]
      BY <1>6 DEF ClaimNext
    <3>3. row'[s].next = NextRun(s, x.at, now)
      BY <1>4, <3>2 DEF ScheduleInv, Types
    <3>4. NextRun(s, x.at, now) = x.at + m * Period
      BY <1>6 DEF NextRun
    <3> QED BY <3>1, <3>3, <3>4
  <2> HIDE DEF g, h, m, k
  <2>6. IsFiniteSet(Units(h)) /\ SumOf(g) \in Nat /\ SumOf(h) = SumOf(g) + m
    BY <1>4, <2>2, <2>4, EntryAdded DEF g
  <2>7. row'[s].next = Period * (SumOf(g) + 1) + m * Period
    BY <1>4, <2>5 DEF g
  <2>8. Period * (SumOf(g) + 1) + m * Period = Period * (SumOf(g) + m + 1)
    BY <2>2, <2>6, PeriodAssumption
  <2>9. SumOf(g) + m + 1 = SumOf(h) + 1
    BY <2>6
  <2> QED BY <2>6, <2>7, <2>8, <2>9 DEF h
<1> QED BY <1>5, <1>6

\* The first run is one period away, and nothing is claimed.
LEMMA CountInit ==
  ASSUME Init
  PROVE  TicksCounted
<1> SUFFICES ASSUME NEW s \in Intervals
             PROVE  IsFiniteSet(Units(MissedIn(s))) /\ row[s].next = Period * (SumOf(MissedIn(s)) + 1)
  BY DEF TicksCounted
<1>1. DOMAIN MissedIn(s) = {}
  BY DEF Init, MissedIn, ClaimsOf
<1>2. Units(MissedIn(s)) = {}
  BY <1>1 DEF Units
<1>3. IsFiniteSet(Units(MissedIn(s))) /\ SumOf(MissedIn(s)) = 0
  BY <1>2, FS_EmptySet DEF SumOf
<1>4. row[s].next = Period
  BY KindsApart DEF Init
<1> QED BY <1>3, <1>4, PeriodAssumption

\* Every step keeps the count.
LEMMA CountNext ==
  ASSUME ScheduleInv, TicksCounted, [Next]_vars
  PROVE  TicksCounted'
<1>1. CASE UNCHANGED <<claims, row>>
  BY <1>1, CountKept
<1>2. ASSUME NEW u \in Users, WriteSchedule(u) PROVE TicksCounted'
  <2> DEFINE t == user[u].schedule
  <2>1. t \in Schedules /\ row \in [Schedules -> Rows] /\ UNCHANGED claims
    BY <1>2 DEF WriteSchedule, ScheduleInv, Types, Changes
  <2>2. row' = [row EXCEPT ![t].state = user[u].to]
    BY <1>2 DEF WriteSchedule
  <2>3. \A s \in Schedules : row'[s].next = row[s].next
    BY <2>1, <2>2 DEF Rows
  <2> QED BY <2>1, <2>3, CountKept
<1>3. ASSUME NEW e \in Engines, MarkDelivered(e) PROVE TicksCounted'
  <2> DEFINE t == claims[Head(engine[e].claimed)].schedule
  <2>1. row \in [Schedules -> Rows] /\ UNCHANGED claims
    BY <1>3 DEF MarkDelivered, ScheduleInv, Types
  <2>2. row' = row \/ row' = [row EXCEPT ![t].delivered = TRUE]
    BY <1>3 DEF MarkDelivered
  <2> HIDE DEF t
  <2>3. \A s \in Schedules : row'[s].next = row[s].next
    BY <2>1, <2>2 DEF Rows
  <2> QED BY <2>1, <2>3, CountKept
<1>4. ASSUME NEW e \in Engines, NEW x \in engine[e].listed, ClaimNext(e, x) PROVE TicksCounted'
  <2>1. CASE Claimable(x)
    BY <1>4, <2>1, ClaimCounts
  <2>2. CASE ~Claimable(x)
    BY <1>1, <1>4, <2>2 DEF ClaimNext
  <2> QED BY <2>1, <2>2
<1>5. CASE UNCHANGED vars \/ Tick \/ AppendEvent
  BY <1>1, <1>5 DEF vars, Tick, AppendEvent
<1>6. ASSUME NEW u \in Users, NEW s, NEW to, ReadSchedule(u, s, to) PROVE TicksCounted'
  BY <1>1, <1>6 DEF ReadSchedule
<1>7. ASSUME NEW e \in Engines, List(e, Due) \/ List(e, Triggers) \/ Deliver(e) \/ Crash(e)
      PROVE  TicksCounted'
  BY <1>1, <1>7 DEF List, Deliver, Crash
<1> QED BY <1>2, <1>3, <1>4, <1>5, <1>6, <1>7 DEF Next

\* No tick of an interval schedule is lost or counted twice, for any number of
\* engines, late lists and crashes: the counts in its claims add up to the ticks
\* before its next run (nextAfterClaim).
THEOREM MissedTicksAreCountedAlways == Spec => []MissedTicksAreCounted
<1>1. Init => TicksCounted
  BY CountInit
<1>2. ScheduleInv /\ TicksCounted /\ [Next]_vars => TicksCounted'
  BY CountNext
<1>3. TicksCounted => MissedTicksAreCounted
  BY DEF TicksCounted, MissedTicksAreCounted, MissedIn
<1> QED BY <1>1, <1>2, <1>3, ScheduleSound, PTL DEF Spec
=============================================================================
