------------------------ MODULE DaemonCommandsProofs ------------------------
(***************************************************************************)
(* Proofs about DaemonCommands, for any number of daemon processes,        *)
(* commands, payloads and prunings: type correctness, at-most-once         *)
(* execution, and the truth and finality of the answers.                   *)
(*                                                                         *)
(* At-most-once rests on the journal, not on the pid file: two daemons may *)
(* serve at the same time, and the row of a command still has at most one  *)
(* handler, because only the transaction that inserts the row creates one. *)
(***************************************************************************)
EXTENDS DaemonCommands, TLAPS

\* Most steps are first-order logic: Zenon is tried first, then SMT, then Zenon for longer.
USE ZenonT(5), SMTT(20), ZenonT(60)

-----------------------------------------------------------------------------
(* The inductive invariant                                                 *)

\* How often a request was or may still be acted on without its handler.
Load(q) == effects[q] + late[q]

\* The request the row of a command stands for.
RowRequest(c) == <<c, row[c].payload, pruned[c]>>

\* A row has a payload, and a result once it is completed.
RowsSound ==
  \A c \in Commands :
    /\ row[c].state # "none" => row[c].payload \in Payloads
    /\ row[c].state \notin {"completed", "acknowledged"} => row[c].result = None

\* A handler works on the row it inserted, and no other handler does.
HandlersSound ==
  \A d \in Daemons, c \in Commands : handler[d][c].pc # "idle" =>
    /\ row[c].state # "none"
    /\ Request(d, c) = RowRequest(c)
    /\ \A e \in Daemons : handler[e][c].pc # "idle" => e = d

\* A row that may be pruned has no handler.
OldIsIdle ==
  \A c \in old : /\ row[c].state # "none" /\ pruned[c] < MaxPrunes
                 /\ \A d \in Daemons : handler[d][c].pc = "idle"

\* A request is acted on at most once, and only one that was journaled: it is
\* the row's or that of a row pruned since.
LoadsSound ==
  \A q \in Requests :
    /\ Load(q) <= 1
    /\ Load(q) > 0 =>
         \/ q[3] < pruned[q[1]]
         \/ row[q[1]].state # "none" /\ q = RowRequest(q[1])

\* Two payloads of one identity are never both acted on in one generation.
OnePayload ==
  \A q, r \in Requests :
    (q[1] = r[1] /\ q[3] = r[3] /\ Load(q) > 0 /\ Load(r) > 0) => q = r

\* Until its Worker has acted nothing was done for a handler's request.
HandlersFresh ==
  \A d \in Daemons, c \in Commands :
    /\ handler[d][c].pc \in {"journaled", "dispatched", "forwarded", "refused"} =>
         Load(RowRequest(c)) = 0
    /\ handler[d][c].pc = "applied" => effects[RowRequest(c)] = 1

\* A row says "ok" only of a request that was acted on.
ResultsReal ==
  \A c \in Commands : row[c].result = "ok" => effects[RowRequest(c)] > 0

\* What a row with this result is answered.
Verdict(c) == IF row[c].result = None THEN "uncertain" ELSE row[c].result

\* Before the first pruning every conclusive answer was the row's.
AnswersAgree ==
  \A c \in Commands, p \in Payloads : (pruned[c] = 0 /\ told[c][p] # {}) =>
    /\ row[c].payload = p /\ row[c].state \in Settled
    /\ told[c][p] \subseteq {Verdict(c)}

JournalInv ==
  /\ TypeOK /\ RowsSound /\ HandlersSound /\ OldIsIdle /\ LoadsSound /\ OnePayload
  /\ HandlersFresh /\ ResultsReal /\ SuccessIsReal /\ AnswersAgree

-----------------------------------------------------------------------------
(* Type correctness                                                        *)

RowType == [state : RowStates, payload : Payloads \cup {None}, result : Results \cup {None}]
HandlerType == [pc : Steps, payload : Payloads \cup {None}, gen : Gens]

\* A request is a command, a payload and a generation.
LEMMA RequestParts ==
  /\ \A q \in Requests :
       /\ q[1] \in Commands /\ q[2] \in Payloads /\ q[3] \in Gens
       /\ q = <<q[1], q[2], q[3]>>
  /\ \A c \in Commands, p \in Payloads, g \in Gens : <<c, p, g>> \in Requests
BY DEF Requests

\* markInterruptedDaemonCommandsUncertain changes the state of a row alone.
LEMMA InterruptedRow ==
  ASSUME NEW r \in RowType
  PROVE  /\ Interrupted(r) \in RowType
         /\ Interrupted(r).state =
              IF r.state \in {"received", "dispatched"} THEN "uncertain" ELSE r.state
         /\ Interrupted(r).payload = r.payload
         /\ Interrupted(r).result = r.result
BY DEF Interrupted, RowType, RowStates, Settled

\* No daemon, no files, an empty journal.
LEMMA InitType == Init => TypeOK
BY MaxPrunesAssumption
DEF Init, TypeOK, Phases, RowStates, Settled, Results, Steps, Gens, NoRow, Idle

\* Starting and ending a daemon.
LEMMA StartType ==
  ASSUME TypeOK, OldIsIdle, NEW d \in Daemons, Start(d) \/ Shutdown(d) \/ Crash(d)
  PROVE  TypeOK'
<1>1. CASE CheckPid(d) \/ ClaimPid(d) \/ Listen(d) \/ ListenFails(d) \/ Shutdown(d)
  BY <1>1 DEF CheckPid, ClaimPid, Listen, ListenFails, Shutdown, files, journal, TypeOK, Phases
<1>2. CASE OpenJournal(d)
  <2>1. \A c \in Commands : Interrupted(row[c]) \in RowType /\ NoRow \in RowType
    BY InterruptedRow DEF TypeOK, RowType, NoRow, RowStates
  <2>2. row' \in [Commands -> RowType]
    BY <1>2, <2>1 DEF OpenJournal
  <2>3. pruned' \in [Commands -> Gens]
    BY <1>2, MaxPrunesAssumption DEF OpenJournal, TypeOK, OldIsIdle, Prunable, Gens
  <2>4. old' \subseteq Commands
    BY <1>2 DEF OpenJournal, TypeOK
  <2>5. daemon' \in [Daemons -> Phases]
    BY <1>2 DEF OpenJournal, TypeOK, Phases
  <2> QED BY <1>2, <2>2, <2>3, <2>4, <2>5 DEF OpenJournal, TypeOK, files, RowType
<1>3. CASE Crash(d)
  <2>1. handler' \in [Daemons -> [Commands -> HandlerType]]
    BY <1>3, MaxPrunesAssumption DEF Crash, TypeOK, Idle, HandlerType, Steps, Gens
  <2>2. late' \in [Requests -> Nat]
    BY <1>3 DEF Crash, TypeOK
  <2>3. daemon' \in [Daemons -> Phases]
    BY <1>3 DEF Crash, TypeOK, Phases
  <2> QED BY <1>3, <2>1, <2>2, <2>3 DEF Crash, TypeOK, files, journal, HandlerType
<1> QED BY <1>1, <1>2, <1>3 DEF Start

\* An UPDATE of the state of a row, or of its state and result.
LEMMA RowUpdate ==
  ASSUME TypeOK, NEW c \in Commands, NEW s \in RowStates, NEW r \in Results,
         \/ row' = [row EXCEPT ![c].state = s]
         \/ row' = [row EXCEPT ![c].state = s, ![c].result = r]
  PROVE  /\ row' \in [Commands -> RowType]
         /\ row'[c].state = s /\ row'[c].payload = row[c].payload
         /\ row' = [row EXCEPT ![c].state = s] => row'[c].result = row[c].result
         /\ row' = [row EXCEPT ![c].state = s, ![c].result = r] => row'[c].result = r
         /\ \A b \in Commands : b # c => row'[b] = row[b]
<1>1. row \in [Commands -> RowType] /\ row[c] \in RowType
  BY DEF TypeOK, RowType
<1> DEFINE u == [row[c] EXCEPT !.state = s]
           v == [row[c] EXCEPT !.state = s, !.result = r]
<1>2. u \in RowType /\ u.state = s /\ u.payload = row[c].payload /\ u.result = row[c].result
  BY <1>1 DEF RowType
<1>3. v \in RowType /\ v.state = s /\ v.payload = row[c].payload /\ v.result = r
  BY <1>1 DEF RowType
<1>4. [row EXCEPT ![c].state = s] = [row EXCEPT ![c] = u]
  BY <1>1
<1>5. [row EXCEPT ![c].state = s, ![c].result = r] = [row EXCEPT ![c] = v]
  BY <1>1
<1> HIDE DEF u, v
<1>6. CASE row' = [row EXCEPT ![c] = u]
  BY <1>1, <1>2, <1>3, <1>4, <1>5, <1>6
<1>7. CASE row' = [row EXCEPT ![c] = v]
  BY <1>1, <1>2, <1>3, <1>4, <1>5, <1>7
<1> QED BY <1>4, <1>5, <1>6, <1>7

\* A handler moves on to another of its steps.
LEMMA AdvanceType ==
  ASSUME TypeOK, NEW d \in Daemons, NEW c \in Commands, NEW step \in Steps, Advance(d, c, step)
  PROVE  /\ handler' \in [Daemons -> [Commands -> HandlerType]]
         /\ handler'[d][c].pc = step
         /\ handler'[d][c].payload = handler[d][c].payload
         /\ handler'[d][c].gen = handler[d][c].gen
         /\ \A e \in Daemons, b \in Commands :
              (e # d \/ b # c) => handler'[e][b] = handler[e][b]
<1>1. handler[d][c] \in HandlerType /\ handler[d] \in [Commands -> HandlerType]
  BY DEF TypeOK, HandlerType
<1> DEFINE h == [handler[d][c] EXCEPT !.pc = step]
<1>2. h \in HandlerType /\ h.pc = step
      /\ h.payload = handler[d][c].payload /\ h.gen = handler[d][c].gen
  BY <1>1 DEF HandlerType
<1>3. handler' = [handler EXCEPT ![d][c] = h]
  BY DEF Advance
<1> HIDE DEF h
<1> QED BY <1>2, <1>3 DEF TypeOK, HandlerType

\* A handler ends.
LEMMA IdleType ==
  ASSUME TypeOK, NEW d \in Daemons, NEW c \in Commands,
         handler' = [handler EXCEPT ![d][c] = Idle]
  PROVE  /\ handler' \in [Daemons -> [Commands -> HandlerType]]
         /\ handler'[d][c].pc = "idle"
         /\ \A e \in Daemons, b \in Commands :
              (e # d \/ b # c) => handler'[e][b] = handler[e][b]
BY MaxPrunesAssumption DEF TypeOK, HandlerType, Idle, Steps, Gens

\* An answer, conclusive or not, is kept with its request.
LEMMA TellType ==
  ASSUME TypeOK, NEW c \in Commands, NEW p \in Payloads, NEW answer, Tell(c, p, answer)
  PROVE  /\ told' \in [Commands -> [Payloads -> SUBSET Conclusive]]
         /\ told'[c][p] = told[c][p] \cup ({answer} \cap Conclusive)
         /\ \A b \in Commands, o \in Payloads :
              (b # c \/ o # p) => told'[b][o] = told[b][o]
BY DEF Tell, TypeOK

\* The steps of a handler.
LEMMA HandleType ==
  ASSUME TypeOK, RowsSound, HandlersSound,
         NEW d \in Daemons, NEW c \in Commands, Handle(d, c) \/ Acknowledge(d, c)
  PROVE  TypeOK'
<1>0. handler[d][c].pc # "idle" =>
        /\ Request(d, c) \in Requests /\ handler[d][c].payload \in Payloads
  BY RequestParts DEF HandlersSound, RowsSound, Request, RowRequest, TypeOK
<1>1. CASE Acknowledge(d, c)
  BY ZenonT(60), <1>1 DEF Acknowledge, files, TypeOK, RowStates, Settled
<1>2. CASE MarkDispatched(d, c)
  <2>1. row' \in [Commands -> RowType]
    BY <1>2, RowUpdate DEF MarkDispatched, RowStates, Results
  <2> QED
    BY <1>2, <2>1, AdvanceType DEF MarkDispatched, files, TypeOK, Steps, HandlerType, RowType
<1>3. CASE Forward(d, c) \/ WorkerRefuses(d, c)
  BY <1>3, AdvanceType
  DEF Forward, WorkerRefuses, files, journal, TypeOK, Steps, HandlerType
<1>4. CASE WorkerActs(d, c)
  <2>1. effects' \in [Requests -> Nat]
    BY <1>4, <1>0 DEF WorkerActs, TypeOK
  <2> QED
    BY <1>4, <2>1, AdvanceType DEF WorkerActs, files, journal, TypeOK, Steps, HandlerType
<1>5. CASE Complete(d, c)
  <2>1. row' \in [Commands -> RowType]
    BY <1>5, RowUpdate DEF Complete, Outcome, RowStates, Settled, Results
  <2>2. handler' \in [Daemons -> [Commands -> HandlerType]]
    BY <1>5, IdleType DEF Complete
  <2>3. told' \in [Commands -> [Payloads -> SUBSET Conclusive]]
    BY <1>5, <1>0, TellType DEF Complete
  <2>4. daemon' \in [Daemons -> Phases]
    BY <1>5 DEF Complete, TypeOK, Phases
  <2> QED
    BY <1>5, <2>1, <2>2, <2>3, <2>4 DEF Complete, files, TypeOK, RowType, HandlerType
<1>6. CASE Fail(d, c)
  <2>1. row' \in [Commands -> RowType]
    BY <1>6, InterruptedRow DEF Fail, TypeOK, RowType
  <2>2. handler' \in [Daemons -> [Commands -> HandlerType]]
    BY <1>6, IdleType DEF Fail
  <2>3. told' \in [Commands -> [Payloads -> SUBSET Conclusive]]
    BY <1>6, <1>0, TellType DEF Fail, Throws
  <2>4. late' \in [Requests -> Nat]
    BY <1>6, <1>0 DEF Fail, TypeOK
  <2> QED
    BY <1>6, <2>1, <2>2, <2>3, <2>4 DEF Fail, files, TypeOK, RowType, HandlerType
<1> QED BY <1>1, <1>2, <1>3, <1>4, <1>5, <1>6 DEF Handle

\* Every step keeps the types, given what the journal says of its handlers.
LEMMA StepType ==
  ASSUME TypeOK, RowsSound, HandlersSound, OldIsIdle, [Next]_vars
  PROVE  TypeOK'
<1>1. ASSUME NEW d \in Daemons, NEW c \in Commands, NEW p \in Payloads, ReceiveNew(d, c, p)
      PROVE  TypeOK'
  <2>1. row' \in [Commands -> RowType]
    BY <1>1 DEF ReceiveNew, TypeOK, RowType, RowStates
  <2>2. handler' \in [Daemons -> [Commands -> HandlerType]]
    BY <1>1 DEF ReceiveNew, TypeOK, HandlerType, Steps
  <2> QED BY <1>1, <2>1, <2>2 DEF ReceiveNew, files, TypeOK, RowType, HandlerType
<1>2. ASSUME NEW d \in Daemons, NEW c \in Commands, NEW p \in Payloads, ReceiveDuplicate(d, c, p)
      PROVE  TypeOK'
  BY <1>2, TellType DEF ReceiveDuplicate, files, journal, TypeOK
<1>3. ASSUME NEW c \in Commands, Age(c) PROVE TypeOK'
  BY <1>3 DEF Age, files, TypeOK
<1>4. ASSUME NEW q \in Requests, LateAct(q) PROVE TypeOK'
  BY <1>4 DEF LateAct, files, journal, TypeOK
<1>5. CASE UNCHANGED vars
  BY <1>5 DEF vars, TypeOK
<1> QED BY <1>1, <1>2, <1>3, <1>4, <1>5, StartType, HandleType DEF Next

-----------------------------------------------------------------------------
(* The steps preserve the invariant                                        *)

Rest ==
  /\ RowsSound /\ HandlersSound /\ OldIsIdle /\ LoadsSound /\ OnePayload
  /\ HandlersFresh /\ ResultsReal /\ SuccessIsReal /\ AnswersAgree

\* Starting and stopping a daemon leaves the journal and the handlers alone.
LEMMA UntouchedKeeps ==
  ASSUME Rest, UNCHANGED <<row, old, pruned, handler, late, effects, told>>
  PROVE  Rest'
BY DEF Rest, RowsSound, HandlersSound, OldIsIdle, LoadsSound, OnePayload, HandlersFresh,
       ResultsReal, SuccessIsReal, AnswersAgree, Load, Request, RowRequest, Verdict

\* markInterruptedDaemonCommandsUncertain and pruneDaemonCommands: a row with a
\* handler is not old, so it is not pruned from under it.
LEMMA OpenJournalKeeps ==
  ASSUME JournalInv, NEW d \in Daemons, OpenJournal(d)
  PROVE  Rest'
<1>1. \A c \in Commands : Prunable(c) => c \in old
  BY DEF Prunable
<1>2. \A c \in Commands : pruned'[c] = IF Prunable(c) THEN pruned[c] + 1 ELSE pruned[c]
  BY DEF OpenJournal
<1>3. \A c \in Commands : Prunable(c) => row'[c] = NoRow
  BY DEF OpenJournal
<1>4. \A c \in Commands : ~Prunable(c) =>
        /\ row'[c].state = IF row[c].state \in {"received", "dispatched"}
                           THEN "uncertain" ELSE row[c].state
        /\ row'[c].payload = row[c].payload /\ row'[c].result = row[c].result
  BY InterruptedRow DEF OpenJournal, JournalInv, TypeOK, RowType
<1>5. UNCHANGED <<handler, late, effects, told>> /\ old' \subseteq old
      /\ \A c \in old' : ~Prunable(c)
  BY DEF OpenJournal
<1> HIDE DEF Prunable
<1>6. /\ pruned \in [Commands -> Nat] /\ old \subseteq Commands
      /\ \A q \in Requests : q[1] \in Commands /\ q[3] \in Nat
  BY RequestParts, MaxPrunesAssumption DEF JournalInv, TypeOK, Gens
<1>7. RowsSound'
  BY <1>3, <1>4 DEF JournalInv, RowsSound, NoRow
<1>8. HandlersSound'
  BY <1>1, <1>2, <1>4, <1>5, <1>6
  DEF JournalInv, HandlersSound, OldIsIdle, Request, RowRequest
<1>9. OldIsIdle'
  BY <1>2, <1>4, <1>5, <1>6 DEF JournalInv, OldIsIdle
<1>10. LoadsSound'
  BY <1>2, <1>4, <1>5, <1>6 DEF JournalInv, LoadsSound, Load, RowRequest
<1>11. OnePayload'
  BY <1>5 DEF JournalInv, OnePayload, Load
<1>12. HandlersFresh'
  <2> SUFFICES ASSUME NEW e \in Daemons, NEW c \in Commands, handler[e][c].pc # "idle"
               PROVE  RowRequest(c)' = RowRequest(c)
    BY <1>5 DEF JournalInv, HandlersFresh, Load
  <2> QED BY <1>1, <1>2, <1>4, <1>6 DEF JournalInv, OldIsIdle, RowRequest
<1>13. ResultsReal'
  BY <1>2, <1>3, <1>4, <1>5, NoneAssumption DEF JournalInv, ResultsReal, RowRequest, NoRow
<1>14. SuccessIsReal'
  BY <1>5 DEF JournalInv, SuccessIsReal
<1>15. AnswersAgree'
  BY <1>2, <1>4, <1>5, <1>6 DEF JournalInv, AnswersAgree, Verdict, Settled
<1> QED BY <1>7, <1>8, <1>9, <1>10, <1>11, <1>12, <1>13, <1>14, <1>15 DEF Rest

\* What a Worker does on a request leaves the books in order when it is the
\* row's request and nothing was done for it before.
LEMMA LoadsKeep ==
  ASSUME JournalInv, UNCHANGED pruned,
         \A c \in Commands : row[c].state # "none" =>
           row'[c].state # "none" /\ row'[c].payload = row[c].payload,
         \A q \in Requests :
           \/ Load(q)' = Load(q)
           \/ /\ Load(q) = 0 /\ Load(q)' = 1
              /\ row[q[1]].state # "none" /\ q = RowRequest(q[1])
  PROVE  LoadsSound' /\ OnePayload'
<1>1. /\ pruned \in [Commands -> Nat]
      /\ \A q \in Requests : q[1] \in Commands /\ q[3] \in Nat /\ Load(q) \in Nat
  BY RequestParts, MaxPrunesAssumption DEF JournalInv, TypeOK, Gens, Load
<1>2. \A c \in Commands : row[c].state # "none" => RowRequest(c)' = RowRequest(c)
  BY DEF RowRequest
<1>3. \A c \in Commands : RowRequest(c)[3] = pruned[c]
  BY DEF RowRequest
<1> HIDE DEF RowRequest, Load
<1>4. LoadsSound'
  BY <1>1, <1>2 DEF JournalInv, LoadsSound
<1>5. OnePayload'
  <2> SUFFICES ASSUME NEW q \in Requests, NEW r \in Requests, q[1] = r[1], q[3] = r[3],
                      Load(q)' > 0, Load(r)' > 0
               PROVE  q = r
    BY DEF OnePayload
  <2>1. CASE Load(q)' = Load(q) /\ Load(r)' = Load(r)
    BY <2>1 DEF JournalInv, OnePayload
  <2>2. CASE Load(q)' # Load(q) /\ Load(r)' # Load(r)
    BY <2>2
  <2>3. CASE Load(q)' # Load(q) /\ Load(r)' = Load(r)
    BY <2>3, <1>1, <1>3 DEF JournalInv, LoadsSound
  <2>4. CASE Load(q)' = Load(q) /\ Load(r)' # Load(r)
    BY <2>4, <1>1, <1>3 DEF JournalInv, LoadsSound
  <2> QED BY <2>1, <2>2, <2>3, <2>4
<1> QED BY <1>4, <1>5

\* Requests of a handler are requests of its row.
LEMMA HandlerRequest ==
  ASSUME JournalInv, NEW d \in Daemons, NEW c \in Commands, handler[d][c].pc # "idle"
  PROVE  /\ row[c].state # "none" /\ Request(d, c) = RowRequest(c)
         /\ RowRequest(c) \in Requests /\ RowRequest(c)[1] = c
         /\ handler[d][c].payload = row[c].payload /\ row[c].payload \in Payloads
         /\ c \notin old
         /\ \A e \in Daemons : e # d => handler[e][c].pc = "idle"
BY RequestParts
DEF JournalInv, HandlersSound, RowsSound, OldIsIdle, Request, RowRequest, TypeOK

\* A killed daemon drops its handlers; what it had forwarded may still be done.
LEMMA CrashKeeps ==
  ASSUME JournalInv, NEW d \in Daemons, Crash(d)
  PROVE  Rest'
<1>1. UNCHANGED <<row, old, pruned, effects, told>>
  BY DEF Crash, journal
<1>2. /\ \A c \in Commands : handler'[d][c].pc = "idle"
      /\ \A e \in Daemons, c \in Commands : e # d => handler'[e][c] = handler[e][c]
  BY DEF Crash, JournalInv, TypeOK, Idle
<1>3. \A q \in Requests :
        late'[q] = IF handler[d][q[1]].pc = "forwarded" /\ Request(d, q[1]) = q
                   THEN late[q] + 1 ELSE late[q]
  BY DEF Crash
<1>4. \A q \in Requests : q[1] \in Commands /\ late[q] \in Nat /\ effects[q] \in Nat
  BY RequestParts DEF JournalInv, TypeOK
<1>5. \A q \in Requests :
        \/ Load(q)' = Load(q)
        \/ /\ Load(q) = 0 /\ Load(q)' = 1
           /\ row[q[1]].state # "none" /\ q = RowRequest(q[1])
  BY <1>1, <1>3, <1>4, HandlerRequest DEF JournalInv, HandlersFresh, Load
<1>6. LoadsSound' /\ OnePayload'
  BY <1>1, <1>5, LoadsKeep
<1>7. HandlersSound' /\ OldIsIdle' /\ RowsSound'
  <2>1. HandlersSound'
    BY <1>1, <1>2 DEF JournalInv, HandlersSound, Request, RowRequest
  <2>2. OldIsIdle'
    <3>1. old \subseteq Commands
      BY DEF JournalInv, TypeOK
    <3>2. \A c \in old, e \in Daemons : handler'[e][c].pc = "idle"
      BY <1>2, <3>1 DEF JournalInv, OldIsIdle
    <3> QED BY <1>1, <3>2 DEF JournalInv, OldIsIdle
  <2>3. RowsSound'
    BY <1>1 DEF JournalInv, RowsSound
  <2> QED BY <2>1, <2>2, <2>3
<1>8. HandlersFresh'
  <2> SUFFICES ASSUME NEW e \in Daemons, NEW c \in Commands, handler'[e][c].pc # "idle"
               PROVE  Load(RowRequest(c))' = Load(RowRequest(c))
    BY <1>1, <1>2 DEF JournalInv, HandlersFresh, RowRequest
  <2>1. e # d /\ handler[e][c].pc # "idle" /\ handler[d][c].pc = "idle"
    BY <1>2, HandlerRequest
  <2>2. RowRequest(c) \in Requests /\ RowRequest(c)[1] = c
    BY <2>1, HandlerRequest
  <2>3. late'[RowRequest(c)] = late[RowRequest(c)]
    BY <2>1, <2>2, <1>3
  <2> QED BY <1>1, <2>3 DEF Load, RowRequest
<1>9. ResultsReal' /\ SuccessIsReal' /\ AnswersAgree'
  BY <1>1 DEF JournalInv, ResultsReal, SuccessIsReal, AnswersAgree, RowRequest, Verdict
<1> QED BY <1>6, <1>7, <1>8, <1>9 DEF Rest

\* receiveDaemonCommand inserts a row: nothing was done yet in its generation.
LEMMA ReceiveNewKeeps ==
  ASSUME JournalInv, NEW d \in Daemons, NEW c \in Commands, NEW p \in Payloads,
         ReceiveNew(d, c, p)
  PROVE  Rest'
<1>1. UNCHANGED <<old, pruned, late, effects, told>> /\ row[c].state = "none"
  BY DEF ReceiveNew
<1>2. /\ row'[c] = [state |-> "received", payload |-> p, result |-> None]
      /\ \A b \in Commands : b # c => row'[b] = row[b]
  BY DEF ReceiveNew, JournalInv, TypeOK
<1>3. /\ handler'[d][c] = [pc |-> "journaled", payload |-> p, gen |-> pruned[c]]
      /\ \A e \in Daemons, b \in Commands :
           (e # d \/ b # c) => handler'[e][b] = handler[e][b]
  BY DEF ReceiveNew, JournalInv, TypeOK
<1>4. c \notin old /\ \A e \in Daemons : handler[e][c].pc = "idle"
  BY <1>1, HandlerRequest DEF JournalInv, OldIsIdle
<1>5. RowsSound'
  BY <1>2 DEF JournalInv, RowsSound
<1>6. HandlersSound'
  BY <1>1, <1>2, <1>3, <1>4 DEF JournalInv, HandlersSound, Request, RowRequest
<1>7. OldIsIdle'
  BY <1>1, <1>2, <1>3, <1>4 DEF JournalInv, OldIsIdle, TypeOK
<1>8. LoadsSound' /\ OnePayload'
  BY <1>1, <1>2, LoadsKeep DEF Load
<1>9. Load(RowRequest(c))' = 0
  <2>1. RowRequest(c)' = <<c, p, pruned[c]>> /\ <<c, p, pruned[c]>> \in Requests
    BY <1>1, <1>2, RequestParts DEF RowRequest, JournalInv, TypeOK
  <2> DEFINE q == <<c, p, pruned[c]>>
  <2>2. q \in Requests /\ q[1] = c /\ q[3] = pruned[c] /\ pruned[c] \in Nat
    BY <2>1, MaxPrunesAssumption DEF JournalInv, TypeOK, Gens
  <2>3. Load(q) \in Nat
    BY <2>1 DEF Load, JournalInv, TypeOK
  <2>4. RowRequest(c)' = q
    BY <2>1
  <2> HIDE DEF q
  <2>5. ~(Load(q) > 0)
    BY <1>1, <2>2 DEF JournalInv, LoadsSound
  <2>6. effects[q] + late[q] = 0
    BY <2>3, <2>5 DEF Load
  <2> QED BY <1>1, <2>4, <2>6 DEF Load
<1>10. HandlersFresh'
  <2>1. \A b \in Commands : b # c => RowRequest(b)' = RowRequest(b)
    BY <1>1, <1>2 DEF RowRequest
  <2> QED BY <1>1, <1>3, <1>4, <1>9, <2>1 DEF JournalInv, HandlersFresh, Load
<1>11. ResultsReal'
  BY <1>1, <1>2, NoneAssumption DEF JournalInv, ResultsReal, RowRequest
<1>12. SuccessIsReal'
  BY <1>1 DEF JournalInv, SuccessIsReal
<1>13. AnswersAgree'
  BY <1>1, <1>2 DEF JournalInv, AnswersAgree, Verdict, Settled
<1> QED BY <1>5, <1>6, <1>7, <1>8, <1>10, <1>11, <1>12, <1>13 DEF Rest

\* The duplicate branch: a conclusive answer is the verdict of the row.
LEMMA DuplicateVerdict ==
  ASSUME JournalInv, NEW c \in Commands, NEW p \in Payloads, DuplicateAnswer(c, p) \in Conclusive
  PROVE  /\ row[c].payload = p /\ row[c].state \in Settled
         /\ DuplicateAnswer(c, p) = Verdict(c)
<1>1. "rejected" \notin Conclusive /\ "in_progress" \notin Conclusive
  BY DEF Conclusive, Results
<1>2. CASE row[c].payload = p /\ row[c].state \in {"completed", "acknowledged"}
  BY <1>1, <1>2 DEF DuplicateAnswer, Verdict, Settled
<1>3. CASE row[c].payload = p /\ row[c].state = "uncertain"
  BY <1>1, <1>3 DEF DuplicateAnswer, Verdict, Settled, JournalInv, RowsSound
<1>4. CASE row[c].payload # p
  BY <1>1, <1>4 DEF DuplicateAnswer
<1>5. CASE row[c].payload = p /\ row[c].state \notin {"completed", "acknowledged", "uncertain"}
  BY <1>1, <1>5 DEF DuplicateAnswer
<1> QED BY <1>2, <1>3, <1>4, <1>5

\* A duplicate is answered from the row and changes nothing else.
LEMMA ReceiveDuplicateKeeps ==
  ASSUME JournalInv, NEW d \in Daemons, NEW c \in Commands, NEW p \in Payloads,
         ReceiveDuplicate(d, c, p)
  PROVE  Rest'
<1>1. UNCHANGED <<row, old, pruned, handler, late, effects>>
  BY DEF ReceiveDuplicate, journal
<1>2. /\ told'[c][p] = told[c][p] \cup ({DuplicateAnswer(c, p)} \cap Conclusive)
      /\ \A b \in Commands, o \in Payloads : (b # c \/ o # p) => told'[b][o] = told[b][o]
  BY TellType DEF ReceiveDuplicate, JournalInv
<1>3. /\ RowsSound' /\ HandlersSound' /\ OldIsIdle' /\ LoadsSound' /\ OnePayload'
      /\ HandlersFresh' /\ ResultsReal'
  BY <1>1
  DEF JournalInv, RowsSound, HandlersSound, OldIsIdle, LoadsSound, OnePayload, HandlersFresh,
      ResultsReal, Load, Request, RowRequest
<1> HIDE DEF DuplicateAnswer, Conclusive
<1>4. SuccessIsReal'
  <2>1. "ok" \in told'[c][p] \ told[c][p] => effects[<<c, p, pruned[c]>>] > 0
    BY <1>2, DuplicateVerdict, NoneAssumption
    DEF JournalInv, ResultsReal, RowRequest, Verdict
  <2>2. pruned[c] \in Gens
    BY DEF JournalInv, TypeOK
  <2> QED BY <1>1, <1>2, <2>1, <2>2 DEF JournalInv, SuccessIsReal
<1>5. AnswersAgree'
  BY <1>1, <1>2, DuplicateVerdict DEF JournalInv, AnswersAgree, Verdict
<1> QED BY <1>3, <1>4, <1>5 DEF Rest

\* Acknowledging, dispatching or giving up a row keeps its request, and a
\* handler that moves to a step before its Worker acts has nothing done yet.
LEMMA AcknowledgeKeeps ==
  ASSUME JournalInv, NEW d \in Daemons, NEW c \in Commands, Acknowledge(d, c)
  PROVE  Rest'
<1>1. UNCHANGED <<pruned, handler, late, effects, told>> /\ old' = old \ {c}
      /\ row[c].state \in {"completed", "uncertain"}
  BY DEF Acknowledge
<1>2. /\ row'[c].state = "acknowledged" /\ row'[c].payload = row[c].payload
      /\ row'[c].result = row[c].result
      /\ \A b \in Commands : b # c => row'[b] = row[b]
  BY RowUpdate DEF Acknowledge, JournalInv, RowStates, Settled, Results
<1>3. RowsSound'
  BY <1>1, <1>2 DEF JournalInv, RowsSound
<1>4. HandlersSound'
  BY <1>1, <1>2 DEF JournalInv, HandlersSound, Request, RowRequest
<1>5. OldIsIdle'
  BY <1>1, <1>2 DEF JournalInv, OldIsIdle, TypeOK
<1>6. LoadsSound' /\ OnePayload'
  BY <1>1, <1>2, LoadsKeep DEF Load
<1>7. \A b \in Commands : RowRequest(b)' = RowRequest(b)
  BY <1>1, <1>2 DEF RowRequest
<1>8. HandlersFresh' /\ ResultsReal' /\ SuccessIsReal'
  BY <1>1, <1>2, <1>7
  DEF JournalInv, HandlersFresh, ResultsReal, SuccessIsReal, Load
<1>9. AnswersAgree'
  BY <1>1, <1>2 DEF JournalInv, AnswersAgree, Verdict, Settled
<1> QED BY <1>3, <1>4, <1>5, <1>6, <1>8, <1>9 DEF Rest

\* markDaemonCommandDispatched, requestWorker and a Worker that refuses.
LEMMA AdvanceKeeps ==
  ASSUME JournalInv, NEW d \in Daemons, NEW c \in Commands,
         MarkDispatched(d, c) \/ Forward(d, c) \/ WorkerRefuses(d, c)
  PROVE  Rest'
<1>1. UNCHANGED <<old, pruned, late, effects, told>>
  BY DEF MarkDispatched, Forward, WorkerRefuses, journal
<1>2. /\ handler[d][c].pc \in {"journaled", "dispatched", "forwarded"}
      /\ handler'[d][c].pc \in {"dispatched", "forwarded", "refused"}
      /\ handler'[d][c].payload = handler[d][c].payload
      /\ handler'[d][c].gen = handler[d][c].gen
      /\ \A e \in Daemons, b \in Commands :
           (e # d \/ b # c) => handler'[e][b] = handler[e][b]
  BY AdvanceType DEF MarkDispatched, Forward, WorkerRefuses, JournalInv, Steps
<1>3. /\ \/ row'[c] = row[c]
         \/ row[c].state = "received" /\ row'[c].state = "dispatched"
      /\ row'[c].payload = row[c].payload /\ row'[c].result = row[c].result
      /\ \A b \in Commands : b # c => row'[b] = row[b]
  BY RowUpdate
  DEF MarkDispatched, Forward, WorkerRefuses, journal, JournalInv, RowStates, Results
<1>4. \A b \in Commands : RowRequest(b)' = RowRequest(b)
  BY <1>1, <1>3 DEF RowRequest
<1>5. \A b \in Commands : row[b].state # "none" => row'[b].state # "none"
  BY <1>3
<1>6. RowsSound'
  BY <1>3 DEF JournalInv, RowsSound
<1>7. HandlersSound'
  BY <1>2, <1>4, <1>5 DEF JournalInv, HandlersSound, Request
<1>8. OldIsIdle'
  <2>1. c \notin old /\ old \subseteq Commands
    BY <1>2, HandlerRequest DEF JournalInv, TypeOK
  <2> QED BY <1>1, <1>2, <1>5, <2>1 DEF JournalInv, OldIsIdle
<1>9. LoadsSound' /\ OnePayload'
  BY <1>1, <1>3, LoadsKeep DEF Load
<1>10. HandlersFresh'
  BY <1>1, <1>2, <1>4 DEF JournalInv, HandlersFresh, Load
<1>11. ResultsReal' /\ SuccessIsReal'
  BY <1>1, <1>3, <1>4 DEF JournalInv, ResultsReal, SuccessIsReal
<1>12. AnswersAgree'
  BY <1>1, <1>3 DEF JournalInv, AnswersAgree, Verdict, Settled
<1> QED BY <1>6, <1>7, <1>8, <1>9, <1>10, <1>11, <1>12 DEF Rest

\* The Worker acts on the request, which nobody has acted on before.
LEMMA WorkerActsKeeps ==
  ASSUME JournalInv, NEW d \in Daemons, NEW c \in Commands, WorkerActs(d, c)
  PROVE  Rest'
<1>1. UNCHANGED <<row, old, pruned, late, told>> /\ handler[d][c].pc = "forwarded"
  BY DEF WorkerActs, journal
<1>2. /\ handler'[d][c].pc = "applied"
      /\ handler'[d][c].payload = handler[d][c].payload
      /\ handler'[d][c].gen = handler[d][c].gen
      /\ \A e \in Daemons, b \in Commands :
           (e # d \/ b # c) => handler'[e][b] = handler[e][b]
  BY AdvanceType DEF WorkerActs, JournalInv, Steps
<1>3. /\ row[c].state # "none" /\ RowRequest(c) \in Requests /\ RowRequest(c)[1] = c
      /\ Request(d, c) = RowRequest(c) /\ c \notin old
      /\ \A e \in Daemons : e # d => handler[e][c].pc = "idle"
  BY <1>1, HandlerRequest
<1>4. Load(RowRequest(c)) = 0 /\ effects[RowRequest(c)] = 0
  BY <1>1, <1>3 DEF JournalInv, HandlersFresh, Load, TypeOK
<1>5. /\ effects'[RowRequest(c)] = 1
      /\ \A q \in Requests : q # RowRequest(c) => effects'[q] = effects[q]
  BY <1>3, <1>4 DEF WorkerActs, JournalInv, TypeOK
<1>6. \A b \in Commands : RowRequest(b)' = RowRequest(b) /\ RowRequest(b)[1] = b
  BY <1>1 DEF RowRequest
<1>7. RowsSound' /\ AnswersAgree'
  BY <1>1 DEF JournalInv, RowsSound, AnswersAgree, Verdict
<1>8. HandlersSound'
  BY <1>1, <1>2, <1>6 DEF JournalInv, HandlersSound, Request
<1>9. OldIsIdle'
  BY <1>1, <1>2, <1>3 DEF JournalInv, OldIsIdle, TypeOK
<1>10. LoadsSound' /\ OnePayload'
  <2>1. \A q \in Requests : q # RowRequest(c) => Load(q)' = Load(q)
    BY <1>1, <1>5 DEF Load
  <2>2. \A q \in Requests : q = RowRequest(c) => Load(q) = 0 /\ Load(q)' = 1
    BY <1>1, <1>4, <1>5 DEF Load, JournalInv, TypeOK
  <2> QED BY <1>1, <1>3, <2>1, <2>2, LoadsKeep
<1>11. HandlersFresh'
  <2> SUFFICES ASSUME NEW e \in Daemons, NEW b \in Commands
               PROVE  /\ handler'[e][b].pc \in {"journaled", "dispatched", "forwarded", "refused"}
                           => effects'[RowRequest(b)] + late[RowRequest(b)] = 0
                      /\ handler'[e][b].pc = "applied" => effects'[RowRequest(b)] = 1
    BY <1>1, <1>6 DEF HandlersFresh, Load
  <2>1. CASE b = c
    BY <2>1, <1>2, <1>3, <1>5
  <2>2. CASE b # c /\ handler[e][b].pc # "idle"
    <3>1. RowRequest(b) \in Requests /\ RowRequest(b) # RowRequest(c)
      BY <2>2, <1>6, HandlerRequest
    <3> QED BY <2>2, <3>1, <1>2, <1>5 DEF JournalInv, HandlersFresh, Load
  <2>3. CASE b # c /\ handler[e][b].pc = "idle"
    BY <2>3, <1>2
  <2> QED BY <2>1, <2>2, <2>3
<1>12. \A q \in Requests : effects[q] > 0 => effects'[q] > 0
  BY <1>5
<1>13. ResultsReal'
  <2>1. \A b \in Commands : row[b].result = "ok" => RowRequest(b) \in Requests
    BY RequestParts, NoneAssumption DEF JournalInv, RowsSound, RowRequest, TypeOK
  <2> QED BY <1>1, <1>6, <1>12, <2>1 DEF JournalInv, ResultsReal
<1>14. SuccessIsReal'
  BY <1>1, <1>12, RequestParts DEF JournalInv, SuccessIsReal
<1> QED BY <1>7, <1>8, <1>9, <1>10, <1>11, <1>13, <1>14 DEF Rest

\* completeDaemonCommand: the row was dispatched, so nobody was told anything.
LEMMA CompleteKeeps ==
  ASSUME JournalInv, NEW d \in Daemons, NEW c \in Commands, Complete(d, c)
  PROVE  Rest'
<1> DEFINE p == handler[d][c].payload
           r == Outcome(handler[d][c].pc)
<1>1. UNCHANGED <<pruned, late, effects>> /\ old' = old \ {c} /\ row[c].state = "dispatched"
      /\ handler[d][c].pc \in {"applied", "refused"}
  BY DEF Complete
<1>2. /\ row[c].payload = p /\ p \in Payloads /\ RowRequest(c) \in Requests
      /\ \A e \in Daemons : e # d => handler[e][c].pc = "idle"
  BY <1>1, HandlerRequest
<1>3. r \in Results /\ (r = "ok" => handler[d][c].pc = "applied") /\ r \in Conclusive
  BY <1>1 DEF Outcome, Results, Conclusive
<1>4. /\ row'[c].state = "completed" /\ row'[c].payload = p /\ row'[c].result = r
      /\ \A b \in Commands : b # c => row'[b] = row[b]
  <2>1. row' = [row EXCEPT ![c].state = "completed", ![c].result = r]
    BY DEF Complete
  <2>2. "completed" \in RowStates /\ TypeOK
    BY DEF RowStates, Settled, JournalInv
  <2> HIDE DEF r
  <2> QED BY ZenonT(60), <1>2, <1>3, <2>1, <2>2, RowUpdate
<1>5. /\ handler'[d][c].pc = "idle"
      /\ \A e \in Daemons, b \in Commands :
           (e # d \/ b # c) => handler'[e][b] = handler[e][b]
  BY IdleType DEF Complete, JournalInv
<1>6. /\ told'[c][p] = told[c][p] \cup {r}
      /\ \A b \in Commands, o \in Payloads : (b # c \/ o # p) => told'[b][o] = told[b][o]
  BY <1>2, <1>3, TellType DEF Complete, JournalInv
<1> HIDE DEF p, r
<1>7. \A b \in Commands : RowRequest(b)' = RowRequest(b)
  BY <1>1, <1>2, <1>4 DEF RowRequest
<1>8. RowsSound'
  BY <1>2, <1>4 DEF JournalInv, RowsSound
<1>9. HandlersSound'
  BY <1>4, <1>5, <1>7 DEF JournalInv, HandlersSound, Request
<1>10. OldIsIdle'
  BY <1>1, <1>4, <1>5 DEF JournalInv, OldIsIdle, TypeOK
<1>11. LoadsSound' /\ OnePayload'
  BY <1>1, <1>2, <1>4, LoadsKeep DEF Load
<1>12. HandlersFresh'
  BY <1>1, <1>5, <1>7 DEF JournalInv, HandlersFresh, Load
<1>13. r = "ok" => effects[RowRequest(c)] > 0
  BY <1>3 DEF JournalInv, HandlersFresh
<1>14. ResultsReal'
  BY <1>1, <1>4, <1>7, <1>13 DEF JournalInv, ResultsReal
<1>15. SuccessIsReal'
  <2>1. RowRequest(c) = <<c, p, pruned[c]>> /\ pruned[c] \in Gens
    BY <1>2 DEF RowRequest, JournalInv, TypeOK
  <2> QED BY <1>1, <1>6, <1>13, <2>1 DEF JournalInv, SuccessIsReal
<1>16. AnswersAgree'
  <2>1. \A o \in Payloads : pruned[c] = 0 => told[c][o] = {}
    BY <1>1 DEF JournalInv, AnswersAgree, Settled
  <2>2. r # None
    BY <1>3, NoneAssumption DEF Results
  <2> QED
    BY <1>1, <1>4, <1>6, <2>1, <2>2 DEF JournalInv, AnswersAgree, Verdict, Settled
<1> QED BY <1>8, <1>9, <1>10, <1>11, <1>12, <1>14, <1>15, <1>16 DEF Rest

\* The catch block: the row becomes uncertain, and a request that was forwarded
\* may still be acted on once.
LEMMA FailKeeps ==
  ASSUME JournalInv, NEW d \in Daemons, NEW c \in Commands, Fail(d, c)
  PROVE  Rest'
<1>1. UNCHANGED <<old, pruned, effects>> /\ handler[d][c].pc # "idle"
  BY DEF Fail, Throws
<1>2. /\ row[c].state # "none" /\ c \notin old
      /\ Request(d, c) = RowRequest(c) /\ RowRequest(c) \in Requests /\ RowRequest(c)[1] = c
      /\ handler[d][c].payload \in Payloads
      /\ \A e \in Daemons : e # d => handler[e][c].pc = "idle"
  BY <1>1, HandlerRequest
<1>3. /\ row'[c].state = IF row[c].state \in {"received", "dispatched"}
                        THEN "uncertain" ELSE row[c].state
      /\ row'[c].payload = row[c].payload /\ row'[c].result = row[c].result
      /\ \A b \in Commands : b # c => row'[b] = row[b]
  <2>1. row[c] \in RowType /\ row \in [Commands -> RowType]
    BY DEF JournalInv, TypeOK, RowType
  <2>2. row' = [row EXCEPT ![c] = Interrupted(row[c])]
    BY DEF Fail
  <2> QED BY <2>1, <2>2, InterruptedRow
<1>4. /\ handler'[d][c].pc = "idle"
      /\ \A e \in Daemons, b \in Commands :
           (e # d \/ b # c) => handler'[e][b] = handler[e][b]
  BY ZenonT(60), IdleType DEF Fail, JournalInv
<1>5. \A b \in Commands, o \in Payloads : told'[b][o] = told[b][o]
  BY <1>2, TellType DEF Fail, JournalInv, Conclusive, Results
<1>6. \A q \in Requests :
        late'[q] = IF handler[d][c].pc = "forwarded" /\ q = RowRequest(c)
                   THEN late[q] + 1 ELSE late[q]
  BY <1>2 DEF Fail, JournalInv, TypeOK
<1>7. \A b \in Commands : RowRequest(b)' = RowRequest(b) /\ RowRequest(b)[1] = b
  BY <1>1, <1>3 DEF RowRequest
<1>8. \A q \in Requests :
        \/ Load(q)' = Load(q)
        \/ /\ Load(q) = 0 /\ Load(q)' = 1
           /\ row[q[1]].state # "none" /\ q = RowRequest(q[1])
  <2>1. handler[d][c].pc = "forwarded" => effects[RowRequest(c)] + late[RowRequest(c)] = 0
    BY DEF JournalInv, HandlersFresh, Load
  <2>2. \A q \in Requests : late[q] \in Nat /\ effects[q] \in Nat
    BY DEF JournalInv, TypeOK
  <2> QED BY <1>1, <1>2, <1>6, <2>1, <2>2 DEF Load
<1>9. RowsSound'
  BY <1>3 DEF JournalInv, RowsSound
<1>10. HandlersSound'
  BY <1>3, <1>4, <1>7 DEF JournalInv, HandlersSound, Request
<1>11. OldIsIdle'
  <2>1. old \subseteq Commands
    BY DEF JournalInv, TypeOK
  <2>2. \A b \in old : b # c /\ row'[b] = row[b] /\ \A e \in Daemons : handler'[e][b] = handler[e][b]
    BY <1>2, <1>3, <1>4, <2>1
  <2> QED BY <1>1, <2>2 DEF JournalInv, OldIsIdle
<1>12. LoadsSound' /\ OnePayload'
  BY <1>1, <1>2, <1>3, <1>8, LoadsKeep
<1>13. HandlersFresh'
  <2> SUFFICES ASSUME NEW e \in Daemons, NEW b \in Commands, handler'[e][b].pc # "idle"
               PROVE  /\ handler'[e][b].pc \in {"journaled", "dispatched", "forwarded", "refused"}
                           => effects[RowRequest(b)] + late'[RowRequest(b)] = 0
                      /\ handler'[e][b].pc = "applied" => effects[RowRequest(b)] = 1
    BY <1>1, <1>7 DEF HandlersFresh, Load
  <2>1. b # c /\ handler'[e][b] = handler[e][b]
    BY <1>2, <1>4
  <2>2. RowRequest(b) \in Requests /\ RowRequest(b) # RowRequest(c)
    BY <2>1, <1>7, HandlerRequest
  <2> QED BY <2>1, <2>2, <1>6 DEF JournalInv, HandlersFresh, Load
<1>14. ResultsReal'
  BY <1>1, <1>3, <1>7 DEF JournalInv, ResultsReal
<1>15. SuccessIsReal'
  BY <1>1, <1>5 DEF JournalInv, SuccessIsReal
<1>16. AnswersAgree'
  BY <1>1, <1>3, <1>5 DEF JournalInv, AnswersAgree, Verdict, Settled
<1> QED BY <1>9, <1>10, <1>11, <1>12, <1>13, <1>14, <1>15, <1>16 DEF Rest

\* A late effect was counted when its handler ended.
LEMMA LateActKeeps ==
  ASSUME JournalInv, NEW q \in Requests, LateAct(q)
  PROVE  Rest'
<1>1. UNCHANGED <<row, old, pruned, handler, told>> /\ late[q] > 0
  BY DEF LateAct, journal
<1>2. \A r \in Requests :
        /\ late'[r] = IF r = q THEN late[r] - 1 ELSE late[r]
        /\ effects'[r] = IF r = q THEN effects[r] + 1 ELSE effects[r]
        /\ late[r] \in Nat /\ effects[r] \in Nat
  BY DEF LateAct, JournalInv, TypeOK
<1>3. \A r \in Requests : Load(r)' = Load(r)
  BY <1>2 DEF Load
<1>4. LoadsSound' /\ OnePayload'
  BY <1>1, <1>3, LoadsKeep
<1>5. RowsSound' /\ HandlersSound' /\ OldIsIdle' /\ AnswersAgree'
  BY <1>1
  DEF JournalInv, RowsSound, HandlersSound, OldIsIdle, AnswersAgree, Request, RowRequest, Verdict
<1>6. HandlersFresh'
  <2> SUFFICES ASSUME NEW e \in Daemons, NEW b \in Commands, handler[e][b].pc # "idle"
               PROVE  /\ handler[e][b].pc \in {"journaled", "dispatched", "forwarded", "refused"}
                           => effects'[RowRequest(b)] + late'[RowRequest(b)] = 0
                      /\ handler[e][b].pc = "applied" => effects'[RowRequest(b)] = 1
    BY <1>1 DEF HandlersFresh, Load, RowRequest
  <2>1. RowRequest(b) \in Requests
    BY HandlerRequest
  <2> QED BY <1>1, <1>2, <2>1 DEF JournalInv, HandlersFresh, LoadsSound, Load
<1>7. \A r \in Requests : effects[r] > 0 => effects'[r] > 0
  BY <1>2
<1>8. ResultsReal'
  <2>1. \A b \in Commands : row[b].result = "ok" => RowRequest(b) \in Requests
    BY RequestParts, NoneAssumption DEF JournalInv, RowsSound, RowRequest, TypeOK
  <2>2. \A b \in Commands : RowRequest(b)' = RowRequest(b)
    BY <1>1 DEF RowRequest
  <2> QED BY <1>1, <1>7, <2>1, <2>2 DEF JournalInv, ResultsReal
<1>9. SuccessIsReal'
  BY <1>1, <1>7, RequestParts DEF JournalInv, SuccessIsReal
<1> QED BY <1>4, <1>5, <1>6, <1>8, <1>9 DEF Rest

\* The retention period passes for a row without a handler.
LEMMA AgeKeeps ==
  ASSUME JournalInv, NEW c \in Commands, Age(c)
  PROVE  Rest'
<1>1. UNCHANGED <<row, pruned, handler, late, effects, told>>
  BY DEF Age
<1>2. OldIsIdle'
  BY DEF Age, JournalInv, OldIsIdle, Idle
<1> QED
  BY <1>1, <1>2
  DEF Rest, JournalInv, RowsSound, HandlersSound, LoadsSound, OnePayload, HandlersFresh,
      ResultsReal, SuccessIsReal, AnswersAgree, Load, Request, RowRequest, Verdict

-----------------------------------------------------------------------------
(* Theorems                                                                *)

\* The invariant holds of an empty journal.
LEMMA InitJournal == Init => JournalInv
<1> SUFFICES ASSUME Init PROVE JournalInv
  OBVIOUS
<1>1. TypeOK
  BY InitType
<1>2. \A q \in Requests : Load(q) = 0
  BY DEF Init, Load
<1>3. \A d \in Daemons, c \in Commands : handler[d][c].pc = "idle"
  BY DEF Init, Idle
<1>4. \A c \in Commands : row[c].state = "none" /\ row[c].result = None
  BY DEF Init, NoRow
<1>5. \A c \in Commands, p \in Payloads : told[c][p] = {}
  BY DEF Init
<1>6. old = {}
  BY DEF Init
<1> QED
  BY <1>1, <1>2, <1>3, <1>4, <1>5, <1>6, NoneAssumption
  DEF JournalInv, RowsSound, HandlersSound, OldIsIdle, LoadsSound, OnePayload, HandlersFresh,
      ResultsReal, SuccessIsReal, AnswersAgree

\* Every step of every daemon, Worker and client keeps it.
LEMMA StepJournal == JournalInv /\ [Next]_vars => JournalInv'
<1> SUFFICES ASSUME JournalInv, [Next]_vars PROVE JournalInv'
  OBVIOUS
<1>1. TypeOK'
  BY StepType DEF JournalInv
<1>2. Rest
  BY DEF JournalInv, Rest
<1>3. CASE UNCHANGED vars
  <2>1. Rest'
    BY <1>2, <1>3, UntouchedKeeps DEF vars
  <2> QED BY <1>1, <2>1 DEF JournalInv, Rest
<1>4. ASSUME NEW d \in Daemons, Start(d) \/ Shutdown(d) \/ Crash(d)
      PROVE  Rest'
  <2>1. CASE CheckPid(d) \/ ClaimPid(d) \/ Listen(d) \/ ListenFails(d) \/ Shutdown(d)
    BY <1>2, <2>1, UntouchedKeeps
    DEF CheckPid, ClaimPid, Listen, ListenFails, Shutdown, journal
  <2> QED BY <1>4, <2>1, OpenJournalKeeps, CrashKeeps DEF Start
<1>5. ASSUME NEW d \in Daemons, NEW c \in Commands, Handle(d, c) \/ Acknowledge(d, c)
      PROVE  Rest'
  BY <1>5, AdvanceKeeps, WorkerActsKeeps, CompleteKeeps, FailKeeps, AcknowledgeKeeps DEF Handle
<1>6. ASSUME NEW d \in Daemons, NEW c \in Commands, NEW p \in Payloads,
             ReceiveNew(d, c, p) \/ ReceiveDuplicate(d, c, p)
      PROVE  Rest'
  BY <1>6, ReceiveNewKeeps, ReceiveDuplicateKeeps
<1>7. CASE Next
  <2>1. Rest'
    BY <1>4, <1>5, <1>6, <1>7, LateActKeeps, AgeKeeps DEF Next
  <2> QED BY <1>1, <2>1 DEF JournalInv, Rest
<1> QED BY <1>3, <1>7

\* The journal invariant holds in every reachable state.
THEOREM JournalSound == Spec => []JournalInv
BY InitJournal, StepJournal, PTL DEF Spec

\* receiveDaemonCommand and markDaemonCommandDispatched: however many daemons,
\* retries, crashes and restarts there are, a command is acted on at most once
\* per journal row, and with one payload.
THEOREM ExecutedAtMostOnceAlways == Spec => []ExecutedAtMostOnce
<1>1. JournalInv => ExecutedAtMostOnce
  <2> SUFFICES ASSUME JournalInv, NEW q \in Requests, effects[q] > 0
               PROVE  /\ effects[q] = 1 /\ late[q] = 0
                      /\ \A r \in Requests : (r[1] = q[1] /\ r[3] = q[3] /\ r # q) =>
                           effects[r] + late[r] = 0
    BY DEF ExecutedAtMostOnce
  <2>1. \A r \in Requests : effects[r] \in Nat /\ late[r] \in Nat
    BY DEF JournalInv, TypeOK
  <2>2. effects[q] = 1 /\ late[q] = 0
    BY <2>1 DEF JournalInv, LoadsSound, Load
  <2>3. \A r \in Requests : (r[1] = q[1] /\ r[3] = q[3] /\ r # q) => ~(Load(r) > 0)
    BY <2>1, <2>2 DEF JournalInv, OnePayload, Load
  <2> QED BY <2>1, <2>2, <2>3 DEF Load
<1> QED BY <1>1, JournalSound, PTL

\* completeDaemonCommand and the duplicate branch: an "ok" is told only for a
\* payload that a Worker acted on.
THEOREM SuccessIsRealAlways == Spec => []SuccessIsReal
<1>1. JournalInv => SuccessIsReal
  BY DEF JournalInv
<1> QED BY <1>1, JournalSound, PTL

INSTANCE FiniteSetTheorems

\* Until a row is pruned its request is given one conclusive answer, whichever
\* daemon gives it and however often.
THEOREM ConclusiveAnswerIsFinalAlways == Spec => []ConclusiveAnswerIsFinal
<1>1. JournalInv => ConclusiveAnswerIsFinal
  <2> SUFFICES ASSUME JournalInv, NEW c \in Commands, NEW p \in Payloads, pruned[c] = 0
               PROVE  Cardinality(told[c][p]) <= 1
    BY DEF ConclusiveAnswerIsFinal
  <2>1. CASE told[c][p] = {}
    BY <2>1, FS_EmptySet
  <2>2. CASE told[c][p] # {}
    <3>1. told[c][p] = {Verdict(c)}
      BY <2>2 DEF JournalInv, AnswersAgree
    <3> QED BY <3>1, FS_Singleton
  <2> QED BY <2>1, <2>2
<1> QED BY <1>1, JournalSound, PTL

-----------------------------------------------------------------------------
(* How a handler ends                                                      *)

\* A handler that ends has settled its row, or its daemon was killed.
HandlerSettlesRow(d, c) ==
  handler[d][c].pc # "idle" /\ handler'[d][c].pc = "idle" =>
    row'[c].state \in Settled \/ daemon'[d] = "down"

\* Of all steps only Complete, Fail and the death of its daemon end a handler.
LEMMA EndingStep ==
  ASSUME JournalInv, [Next]_vars, NEW d \in Daemons, NEW c \in Commands,
         handler[d][c].pc # "idle", handler'[d][c].pc = "idle"
  PROVE  Complete(d, c) \/ Fail(d, c) \/ Crash(d)
<1>1. ASSUME NEW e \in Daemons, NEW b \in Commands, NEW step \in Steps \ {"idle"}, Advance(e, b, step)
      PROVE  FALSE
  BY <1>1, AdvanceType DEF JournalInv
<1>2. ASSUME NEW e \in Daemons, NEW b \in Commands, Handle(e, b)
      PROVE  Complete(d, c) \/ Fail(d, c)
  <2>1. Complete(e, b) \/ Fail(e, b)
    BY <1>1, <1>2 DEF Handle, MarkDispatched, Forward, WorkerActs, WorkerRefuses, Steps
  <2>2. handler' = [handler EXCEPT ![e][b] = Idle]
    BY <2>1 DEF Complete, Fail
  <2>3. e = d /\ b = c
    BY <2>2, IdleType DEF JournalInv
  <2> QED BY <2>1, <2>3
<1>3. ASSUME NEW e \in Daemons, Crash(e) PROVE Crash(d)
  <2>1. e # d => handler'[d] = handler[d]
    BY <1>3 DEF Crash, JournalInv, TypeOK
  <2> QED BY <1>3, <2>1
<1>4. ASSUME NEW e \in Daemons, NEW b \in Commands, NEW p \in Payloads, ReceiveNew(e, b, p) PROVE FALSE
  <2>1. handler[e][b] = Idle /\ Idle.pc = "idle"
    BY <1>4 DEF ReceiveNew, Idle
  <2>2. e # d \/ b # c
    BY <2>1
  <2>3. handler'[d][c] = handler[d][c]
    BY <1>4, <2>2 DEF ReceiveNew, JournalInv, TypeOK
  <2> QED BY <2>3
<1>5. ~UNCHANGED handler
  OBVIOUS
<1>6. /\ \A e \in Daemons : ~(Start(e) \/ Shutdown(e))
      /\ \A e \in Daemons, b \in Commands : ~Acknowledge(e, b)
      /\ \A e \in Daemons, b \in Commands, p \in Payloads : ~ReceiveDuplicate(e, b, p)
      /\ \A b \in Commands : ~Age(b)
      /\ \A q \in Requests : ~LateAct(q)
      /\ ~UNCHANGED vars
  BY <1>5
  DEF Start, CheckPid, ClaimPid, OpenJournal, Listen, ListenFails, Shutdown, Acknowledge,
      ReceiveDuplicate, Age, LateAct, vars
<1> QED BY <1>2, <1>3, <1>4, <1>6 DEF Next

\* completeDaemonCommand and the catch block around the handler: no path out of
\* a handler leaves its row received or dispatched, so that only the rows of a
\* killed daemon wait for the next start.  The safety half of NoHangingCommand.
THEOREM HandlerSettlesRowAlways ==
  Spec => [][\A d \in Daemons, c \in Commands : HandlerSettlesRow(d, c)]_vars
<1>1. ASSUME JournalInv, [Next]_vars, NEW d \in Daemons, NEW c \in Commands,
             handler[d][c].pc # "idle", handler'[d][c].pc = "idle"
      PROVE  row'[c].state \in Settled \/ daemon'[d] = "down"
  <2>1. row[c] \in RowType /\ row \in [Commands -> RowType] /\ row[c].state # "none"
    BY <1>1 DEF JournalInv, TypeOK, RowType, HandlersSound
  <2>2. CASE Complete(d, c)
    <3>1. PICK s \in Results : row' = [row EXCEPT ![c].state = "completed", ![c].result = s]
      BY <2>2 DEF Complete, Outcome, Results
    <3>2. "completed" \in RowStates /\ "completed" \in Settled
      BY DEF RowStates, Settled
    <3>3. TypeOK
      BY <1>1 DEF JournalInv
    <3>4. row'[c].state = "completed"
      BY <3>1, <3>2, <3>3, RowUpdate
    <3> QED BY <3>2, <3>4
  <2>3. CASE Fail(d, c)
    <3>1. row'[c] = Interrupted(row[c])
      BY <2>1, <2>3 DEF Fail
    <3> QED BY <2>1, <3>1, InterruptedRow DEF RowType, RowStates, Settled
  <2>4. CASE Crash(d)
    BY <1>1, <2>4 DEF Crash, JournalInv, TypeOK
  <2> QED BY <1>1, <2>2, <2>3, <2>4, EndingStep
<1>2. JournalInv /\ [Next]_vars =>
        [\A d \in Daemons, c \in Commands : HandlerSettlesRow(d, c)]_vars
  BY <1>1 DEF HandlerSettlesRow
<1> QED BY <1>2, JournalSound, PTL DEF Spec
=============================================================================
