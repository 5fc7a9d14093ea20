--------------------------- MODULE DaemonCommands ---------------------------
(***************************************************************************)
(* The daemon's command journal: how a command sent over the daemon's      *)
(* socket is journaled, forwarded to a resident Worker, completed and      *)
(* answered, across retries of the client, lost answers of the Worker,     *)
(* crashes and restarts of the daemon, and pruning of old journal rows.    *)
(* The start of the daemon is included, with the pid file and the socket   *)
(* file that are meant to keep a second daemon out.                        *)
(*                                                                         *)
(* A command is a (clientId, commandId) pair and a payload stands for its  *)
(* type and SHA-256.  The clock is abstracted to Age: a row older than the *)
(* retention period.  A client that times out and asks again is a second   *)
(* request with the same identity; "told" collects the conclusive answers  *)
(* the daemon sends, whether or not they arrive ("in progress" and a       *)
(* rejection settle nothing: the client may ask again).                    *)
(***************************************************************************)
EXTENDS Naturals, FiniteSets

CONSTANTS
  Daemons,       \* processes that run `ever daemon serve`
  Commands,      \* (clientId, commandId) pairs
  Payloads,      \* what a request with that identity asks for
  StopPayloads,  \* the payloads of type "stop"
  None,          \* no file, no payload, no result
  MaxPrunes      \* bound: times a row of a command is pruned

ASSUME StopAssumption == StopPayloads \subseteq Payloads
ASSUME MaxPrunesAssumption == MaxPrunes \in Nat
ASSUME NoneAssumption == None \notin Payloads \cup {"ok", "refused"}

VARIABLES
  daemon,   \* the phase of DaemonSupervisor.run in every process
  pid,      \* owner of the pid file
  sock,     \* owner of the socket file
  row,      \* the daemon_commands table
  old,      \* commands whose row is older than the retention period
  pruned,   \* how often the row of a command was pruned
  handler,  \* the request handlers in flight in every daemon
  late,     \* requests a Worker may still act on though no handler waits
  effects,  \* how often a Worker acted on a request
  told      \* the conclusive answers sent for every request

files == <<pid, sock>>
journal == <<row, old, pruned>>
vars == <<daemon, pid, sock, row, old, pruned, handler, late, effects, told>>

-----------------------------------------------------------------------------
Phases == {"down", "claiming", "opening", "starting", "serving", "closing"}
Results == {"ok", "refused"}
Settled == {"completed", "uncertain", "acknowledged"}
RowStates == {"none", "received", "dispatched"} \cup Settled
Conclusive == Results \cup {"uncertain"}
Steps == {"idle", "journaled", "dispatched", "forwarded", "applied", "refused"}

NoRow == [state |-> "none", payload |-> None, result |-> None]
Idle == [pc |-> "idle", payload |-> None, gen |-> 0]

\* A request is told apart by the generation of the row it was journaled in.
Gens == 0..MaxPrunes
Requests == Commands \X Payloads \X Gens

TypeOK ==
  /\ daemon \in [Daemons -> Phases]
  /\ {pid, sock} \subseteq Daemons \cup {None}
  /\ row \in [Commands -> [state : RowStates, payload : Payloads \cup {None},
                           result : Results \cup {None}]]
  /\ old \subseteq Commands
  /\ pruned \in [Commands -> Gens]
  /\ handler \in [Daemons -> [Commands ->
                   [pc : Steps, payload : Payloads \cup {None}, gen : Gens]]]
  /\ late \in [Requests -> Nat]
  /\ effects \in [Requests -> Nat]
  /\ told \in [Commands -> [Payloads -> SUBSET Conclusive]]

Init ==
  /\ daemon = [d \in Daemons |-> "down"]
  /\ pid = None
  /\ sock = None
  /\ row = [c \in Commands |-> NoRow]
  /\ old = {}
  /\ pruned = [c \in Commands |-> 0]
  /\ handler = [d \in Daemons |-> [c \in Commands |-> Idle]]
  /\ late = [q \in Requests |-> 0]
  /\ effects = [q \in Requests |-> 0]
  /\ told = [c \in Commands |-> [p \in Payloads |-> {}]]

-----------------------------------------------------------------------------
(* Start and end of a daemon.                                              *)

\* A daemon whose pid is in the file and still alive keeps another one out.
CheckPid(d) ==
  /\ daemon[d] = "down"
  /\ pid # None => daemon[pid] = "down"
  /\ daemon' = [daemon EXCEPT ![d] = "claiming"]
  /\ UNCHANGED <<files, journal, handler, late, effects, told>>

\* Both files are removed, whoever they belong to, and the pid file created.
ClaimPid(d) ==
  /\ daemon[d] = "claiming"
  /\ daemon' = [daemon EXCEPT ![d] = "opening"]
  /\ pid' = d
  /\ sock' = None
  /\ UNCHANGED <<journal, handler, late, effects, told>>

\* Mutant of Interrupted: interrupted rows are forgotten, to be tried again.
InterruptedForgotten(r) == IF r.state \in {"received", "dispatched"} THEN NoRow ELSE r

\* markInterruptedDaemonCommandsUncertain, then pruneDaemonCommands
Interrupted(r) ==
  IF r.state \in {"received", "dispatched"} THEN [r EXCEPT !.state = "uncertain"] ELSE r

Prunable(c) == c \in old /\ Interrupted(row[c]).state \in Settled

\* Mutant of OpenJournal: a start that leaves interrupted rows as they are.
OpenJournalAsFound(d) ==
  /\ daemon[d] = "opening"
  /\ daemon' = [daemon EXCEPT ![d] = "starting"]
  /\ UNCHANGED <<files, journal, handler, late, effects, told>>

OpenJournal(d) ==
  /\ daemon[d] = "opening"
  /\ daemon' = [daemon EXCEPT ![d] = "starting"]
  /\ row' = [c \in Commands |-> IF Prunable(c) THEN NoRow ELSE Interrupted(row[c])]
  /\ pruned' = [c \in Commands |-> IF Prunable(c) THEN pruned[c] + 1 ELSE pruned[c]]
  /\ old' = {c \in old : ~Prunable(c)}
  /\ UNCHANGED <<files, handler, late, effects, told>>

Listen(d) ==
  /\ daemon[d] = "starting"
  /\ sock = None
  /\ sock' = d
  /\ daemon' = [daemon EXCEPT ![d] = "serving"]
  /\ UNCHANGED <<pid, journal, handler, late, effects, told>>

\* The socket path is taken: listen fails and the finally block removes both files.
ListenFails(d) ==
  /\ daemon[d] = "starting"
  /\ sock # None
  /\ daemon' = [daemon EXCEPT ![d] = "down"]
  /\ pid' = None
  /\ sock' = None
  /\ UNCHANGED <<journal, handler, late, effects, told>>

\* server.close() waits for the open connections; then both files are removed.
Shutdown(d) ==
  /\ daemon[d] = "closing"
  /\ \A c \in Commands : handler[d][c] = Idle
  /\ daemon' = [daemon EXCEPT ![d] = "down"]
  /\ pid' = None
  /\ sock' = None
  /\ UNCHANGED <<journal, handler, late, effects, told>>

\* The request a handler is working on.
Request(d, c) == <<c, handler[d][c].payload, handler[d][c].gen>>

\* A killed daemon leaves its files and its rows; a forwarded request may still be acted on.
Crash(d) ==
  /\ daemon[d] # "down"
  /\ daemon' = [daemon EXCEPT ![d] = "down"]
  /\ handler' = [handler EXCEPT ![d] = [c \in Commands |-> Idle]]
  /\ late' = [q \in Requests |->
               IF handler[d][q[1]].pc = "forwarded" /\ Request(d, q[1]) = q
               THEN late[q] + 1 ELSE late[q]]
  /\ UNCHANGED <<files, journal, effects, told>>

-----------------------------------------------------------------------------
(* A request on the socket.                                                *)

Tell(c, p, answer) == told' = [told EXCEPT ![c][p] = @ \cup ({answer} \cap Conclusive)]

Advance(d, c, step) == handler' = [handler EXCEPT ![d][c].pc = step]

\* receiveDaemonCommand inserts the row of a command it has not seen.
ReceiveNew(d, c, p) ==
  /\ daemon[d] = "serving" /\ sock = d
  /\ row[c].state = "none"
  /\ handler[d][c] = Idle
  /\ row' = [row EXCEPT ![c] = [state |-> "received", payload |-> p, result |-> None]]
  /\ handler' = [handler EXCEPT ![d][c] = [pc |-> "journaled", payload |-> p,
                                           gen |-> pruned[c]]]
  /\ UNCHANGED <<daemon, files, old, pruned, late, effects, told>>

\* Mutant of DuplicateAnswer: the payload of the duplicate is not compared.
DuplicateAnswerOfAny(c, p) ==
  CASE row[c].state \in {"completed", "acknowledged"} ->
         IF row[c].result = None THEN "rejected" ELSE row[c].result
    [] row[c].state = "uncertain" -> "uncertain"
    [] OTHER -> "in_progress"

\* What a request is answered when the journal already has its identity.
DuplicateAnswer(c, p) ==
  CASE row[c].payload # p -> "rejected"
    [] row[c].payload = p /\ row[c].state \in {"completed", "acknowledged"} ->
         IF row[c].result = None THEN "rejected" ELSE row[c].result
    [] row[c].payload = p /\ row[c].state = "uncertain" -> "uncertain"
    [] OTHER -> "in_progress"

ReceiveDuplicate(d, c, p) ==
  /\ daemon[d] = "serving" /\ sock = d
  /\ row[c].state # "none"
  /\ Tell(c, p, DuplicateAnswer(c, p))
  /\ UNCHANGED <<daemon, files, journal, handler, late, effects>>

Acknowledge(d, c) ==
  /\ daemon[d] = "serving" /\ sock = d
  /\ row[c].state \in {"completed", "uncertain"}
  /\ row' = [row EXCEPT ![c].state = "acknowledged"]
  /\ old' = old \ {c}
  /\ UNCHANGED <<daemon, files, pruned, handler, late, effects, told>>

MarkDispatched(d, c) ==
  /\ handler[d][c].pc = "journaled"
  /\ row[c].state = "received"
  /\ row' = [row EXCEPT ![c].state = "dispatched"]
  /\ Advance(d, c, "dispatched")
  /\ UNCHANGED <<daemon, files, old, pruned, late, effects, told>>

\* requestWorker writes the request to the Worker's socket.
Forward(d, c) ==
  /\ handler[d][c].pc = "dispatched"
  /\ Advance(d, c, "forwarded")
  /\ UNCHANGED <<daemon, files, journal, late, effects, told>>

WorkerActs(d, c) ==
  /\ handler[d][c].pc = "forwarded"
  /\ Advance(d, c, "applied")
  /\ effects' = [effects EXCEPT ![Request(d, c)] = @ + 1]
  /\ UNCHANGED <<daemon, files, journal, late, told>>

\* The Worker answers ok: false; the answers to "stop" are not looked at.
WorkerRefuses(d, c) ==
  /\ handler[d][c].pc = "forwarded"
  /\ handler[d][c].payload \notin StopPayloads
  /\ Advance(d, c, "refused")
  /\ UNCHANGED <<daemon, files, journal, late, effects, told>>

Outcome(step) == IF step = "applied" THEN "ok" ELSE "refused"

\* Mutant of Complete: the UPDATE is not restricted to dispatched rows.
CompleteAnyRow(d, c) ==
  LET h == handler[d][c] IN
  /\ h.pc \in {"applied", "refused"}
  /\ row' = [row EXCEPT ![c].state = "completed", ![c].result = Outcome(h.pc)]
  /\ old' = old \ {c}
  /\ Tell(c, h.payload, Outcome(h.pc))
  /\ handler' = [handler EXCEPT ![d][c] = Idle]
  /\ UNCHANGED <<daemon, files, pruned, late, effects>>

\* completeDaemonCommand, the answer, and server.close() after "stop"
Complete(d, c) ==
  LET h == handler[d][c] IN
  /\ h.pc \in {"applied", "refused"}
  /\ row[c].state = "dispatched"
  /\ row' = [row EXCEPT ![c].state = "completed", ![c].result = Outcome(h.pc)]
  /\ old' = old \ {c}
  /\ Tell(c, h.payload, Outcome(h.pc))
  /\ handler' = [handler EXCEPT ![d][c] = Idle]
  /\ daemon' = [daemon EXCEPT ![d] = IF h.payload \in StopPayloads THEN "closing" ELSE @]
  /\ UNCHANGED <<files, pruned, late, effects>>

\* What makes a handler throw: no Worker or a lost answer of the Worker, and
\* a row that another daemon has moved on.
Throws(d, c) ==
  \/ handler[d][c].pc \in {"dispatched", "forwarded", "applied"}
  \/ handler[d][c].pc = "journaled" /\ row[c].state # "received"
  \/ handler[d][c].pc = "refused" /\ row[c].state # "dispatched"

\* The catch block: the row becomes uncertain and the request is rejected.
Fail(d, c) ==
  LET h == handler[d][c] IN
  /\ Throws(d, c)
  /\ row' = [row EXCEPT ![c] = Interrupted(@)]
  /\ Tell(c, h.payload, "rejected")
  /\ handler' = [handler EXCEPT ![d][c] = Idle]
  /\ late' = IF h.pc = "forwarded" THEN [late EXCEPT ![Request(d, c)] = @ + 1] ELSE late
  /\ UNCHANGED <<daemon, files, old, pruned, effects>>

\* A Worker acts on a request whose sender has timed out or died.
LateAct(q) ==
  /\ late[q] > 0
  /\ late' = [late EXCEPT ![q] = @ - 1]
  /\ effects' = [effects EXCEPT ![q] = @ + 1]
  /\ UNCHANGED <<daemon, files, journal, handler, told>>

\* The retention period passes; every handler ends long before (its Worker
\* request times out within 31 minutes, retention is at least a day).
Age(c) ==
  /\ row[c].state # "none" /\ c \notin old
  /\ \A d \in Daemons : handler[d][c] = Idle
  /\ pruned[c] < MaxPrunes
  /\ old' = old \cup {c}
  /\ UNCHANGED <<daemon, files, row, pruned, handler, late, effects, told>>

-----------------------------------------------------------------------------
Start(d) == CheckPid(d) \/ ClaimPid(d) \/ OpenJournal(d) \/ Listen(d) \/ ListenFails(d)

Handle(d, c) ==
  \/ MarkDispatched(d, c)
  \/ Forward(d, c)
  \/ WorkerActs(d, c)
  \/ WorkerRefuses(d, c)
  \/ Complete(d, c)
  \/ Fail(d, c)

Next ==
  \/ \E d \in Daemons : Start(d) \/ Shutdown(d) \/ Crash(d)
  \/ \E d \in Daemons, c \in Commands : Handle(d, c) \/ Acknowledge(d, c)
  \/ \E d \in Daemons, c \in Commands, p \in Payloads :
       ReceiveNew(d, c, p) \/ ReceiveDuplicate(d, c, p)
  \/ \E c \in Commands : Age(c)
  \/ \E q \in Requests : LateAct(q)

Spec == Init /\ [][Next]_vars

\* The service manager keeps the daemon running (KeepAlive, Restart=on-failure),
\* not every start is killed before it has opened the journal (from the pid
\* check to there run() does not wait), and every handler takes its next step
\* or times out.
FairSpec ==
  /\ Spec
  /\ \A d \in Daemons : WF_vars(Start(d)) /\ SF_vars(ClaimPid(d)) /\ SF_vars(OpenJournal(d))
  /\ \A d \in Daemons, c \in Commands : WF_vars(Handle(d, c))

-----------------------------------------------------------------------------
(* Properties.                                                             *)

\* A command is executed at most once for as long as its journal row is kept:
\* no retry of the client, lost answer, crash, restart or second daemon makes
\* the daemon forward it again, and two payloads under one identity are not
\* both executed (receiveDaemonCommand, markDaemonCommandDispatched).
ExecutedAtMostOnce ==
  \A q \in Requests : effects[q] > 0 =>
    /\ effects[q] = 1 /\ late[q] = 0
    /\ \A r \in Requests : (r[1] = q[1] /\ r[3] = q[3] /\ r # q) => effects[r] + late[r] = 0

\* A request is answered with a successful result only when a Worker acted on
\* that very payload, also when the answer comes from the row another request
\* or another daemon completed (duplicate branch, completeDaemonCommand).
SuccessIsReal ==
  \A c \in Commands, p \in Payloads :
    "ok" \in told[c][p] => \E g \in Gens : effects[<<c, p, g>>] > 0

\* Until its row is pruned a request gets one conclusive answer however often
\* it asks: never a result from one daemon and "uncertain" from the next, and
\* never two results.
ConclusiveAnswerIsFinal ==
  \A c \in Commands, p \in Payloads :
    pruned[c] = 0 => Cardinality(told[c][p]) <= 1

\* No journal row stays received or dispatched for ever: its handler settles it,
\* or the next start of the daemon marks it uncertain.
NoHangingCommand ==
  \A c \in Commands :
    (row[c].state \in {"received", "dispatched"}) ~> (row[c].state \in Settled \cup {"none"})

=============================================================================
