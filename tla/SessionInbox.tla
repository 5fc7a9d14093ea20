---------------------------- MODULE SessionInbox ----------------------------
(***************************************************************************)
(* Durable messages to an Agent that runs as an interactive Session.       *)
(*                                                                         *)
(* Senders queue a message, claim it for live delivery and, since no       *)
(* resident Worker runs a Session's Agent, put it back when the daemon     *)
(* cannot steer.  The Session's agent-coordination extension is woken by a *)
(* watch on the database directory, schedules what is queued as follow-up  *)
(* messages, records a receipt once a provider request that contained them *)
(* succeeded, and settles the receipts when the turn settles.  The model   *)
(* may also read and acknowledge its inbox with the agent_inbox tool.      *)
(* Senders and the Session crash and come back at any point.               *)
(*                                                                         *)
(* Every provider request has an id of its own, so a receipt conflicts     *)
(* with every later request that presents it as new.  The clock of a claim *)
(* is abstracted to ClaimAges.                                             *)
(***************************************************************************)
EXTENDS Naturals

CONSTANTS
  Messages,
  Senders,
  MaxClaims  \* bound: claims for live delivery, the retries included

ASSUME MaxClaimsAssumption == MaxClaims \in Nat

VARIABLES
  msg,         \* agent_messages.state
  stale,       \* claimed messages whose claim is older than 35 minutes
  receipt,     \* agent_message_receipts: none, open or settled
  claims,      \* how often senders claimed
  sender,      \* senders that hold a live-delivery claim and await the daemon
  up,          \* the Session is open
  watching,    \* its watch on the database directory works
  scan,        \* a scan of the inbox is scheduled
  turn,        \* a turn is running
  scheduled,   \* message ids the extension has handed to the Session
  recovering,  \* those of them that had an open receipt at session_start
  visible,     \* those in a request of this turn whose receipt is durable
  pending,     \* follow-up messages that are not in the transcript yet
  transcript,  \* messages in the Session's durable transcript
  seen         \* history: messages the model has been shown

table == <<msg, stale, receipt, claims>>
memory == <<scheduled, recovering, visible, pending>>
vars == <<msg, stale, receipt, claims, sender, up, watching, scan, turn, scheduled,
          recovering, visible, pending, transcript, seen>>

-----------------------------------------------------------------------------
MessageStates == {"absent", "queued", "delivering", "delivered", "acknowledged"}

TypeOK ==
  /\ msg \in [Messages -> MessageStates]
  /\ receipt \in [Messages -> {"none", "open", "settled"}]
  /\ sender \in [Senders -> SUBSET Messages]
  /\ {up, watching, scan, turn} \subseteq BOOLEAN
  /\ stale \subseteq {m \in Messages : msg[m] = "delivering"}
  /\ recovering \subseteq scheduled
  /\ visible \subseteq scheduled
  /\ UNION {scheduled, pending, transcript, seen} \subseteq Messages
  /\ claims \in 0..MaxClaims

Init ==
  /\ msg = [m \in Messages |-> "absent"]
  /\ stale = {}
  /\ receipt = [m \in Messages |-> "none"]
  /\ claims = 0
  /\ sender = [s \in Senders |-> {}]
  /\ up = FALSE /\ watching = FALSE /\ scan = FALSE /\ turn = FALSE
  /\ scheduled = {} /\ recovering = {} /\ visible = {} /\ pending = {}
  /\ transcript = {} /\ seen = {}

\* The watch turns a change of the database into a scheduled scan.
Notice == scan' = (scan \/ (up /\ watching))

-----------------------------------------------------------------------------
(* Senders.                                                                *)

\* coordinate and queueMessage; a retry with the same key returns the same message.
QueueMessage(m) ==
  /\ msg[m] = "absent"
  /\ msg' = [msg EXCEPT ![m] = "queued"]
  /\ Notice
  /\ UNCHANGED <<stale, receipt, claims, sender, up, watching, turn, memory, transcript, seen>>

\* claimAgentMessageForLiveDelivery, also of a claim that has gone stale
ClaimMessage(s, m) ==
  /\ m \notin sender[s] /\ claims < MaxClaims
  /\ claims' = claims + 1
  /\ msg[m] = "queued" \/ m \in stale
  /\ msg' = [msg EXCEPT ![m] = "delivering"]
  /\ stale' = stale \ {m}
  /\ sender' = [sender EXCEPT ![s] = @ \cup {m}]
  /\ Notice
  /\ UNCHANGED <<receipt, up, watching, turn, memory, transcript, seen>>

\* Mutant of DeferDelivery: the message is put back whatever its state.
DeferAnyDelivery(s, m) ==
  /\ m \in sender[s]
  /\ sender' = [sender EXCEPT ![s] = @ \ {m}]
  /\ msg' = [msg EXCEPT ![m] = "queued"]
  /\ stale' = stale \ {m}
  /\ Notice
  /\ UNCHANGED <<receipt, claims, up, watching, turn, memory, transcript, seen>>

\* The daemon has no Worker for a Session: completeAgentMessageLiveDelivery(false).
\* A message that is no longer claimed stays as it is.
DeferDelivery(s, m) ==
  /\ m \in sender[s]
  /\ sender' = [sender EXCEPT ![s] = @ \ {m}]
  /\ msg' = [msg EXCEPT ![m] = IF @ = "delivering" THEN "queued" ELSE @]
  /\ stale' = stale \ {m}
  /\ Notice
  /\ UNCHANGED <<receipt, claims, up, watching, turn, memory, transcript, seen>>

SenderCrash(s) ==
  /\ sender[s] # {}
  /\ sender' = [sender EXCEPT ![s] = {}]
  /\ UNCHANGED <<table, up, watching, scan, turn, memory, transcript, seen>>

\* 35 minutes pass; the claimant has died or its machine was asleep.
ClaimAges(m) ==
  /\ msg[m] = "delivering" /\ m \notin stale
  /\ stale' = stale \cup {m}
  /\ UNCHANGED <<msg, receipt, claims, sender, up, watching, scan, turn, memory, transcript, seen>>

-----------------------------------------------------------------------------
(* The Session.                                                            *)

\* session_start: unsettled receipts are scheduled and recovering, then a scan.
StartSession ==
  /\ ~up
  /\ up' = TRUE /\ watching' = TRUE /\ scan' = TRUE
  /\ scheduled' = {m \in Messages : receipt[m] = "open"}
  /\ recovering' = scheduled'
  /\ UNCHANGED <<table, sender, turn, visible, pending, transcript, seen>>

EndSession ==
  /\ up
  /\ up' = FALSE /\ watching' = FALSE /\ scan' = FALSE /\ turn' = FALSE
  /\ scheduled' = {} /\ recovering' = {} /\ visible' = {} /\ pending' = {}
  /\ UNCHANGED <<table, sender, transcript, seen>>

\* A failed watch schedules a scan at once; it is set up again later, without one.
WatchFails ==
  /\ up /\ watching
  /\ watching' = FALSE
  /\ scan' = TRUE
  /\ UNCHANGED <<table, sender, up, turn, memory, transcript, seen>>

WatchRestarts ==
  /\ up /\ ~watching
  /\ watching' = TRUE
  /\ UNCHANGED <<table, sender, up, scan, turn, memory, transcript, seen>>

\* Mutant of Recovered: claims never go stale.
RecoveredNever == msg

\* recoverStaleAgentMessageDeliveries
Recovered == [m \in Messages |-> IF m \in stale THEN "queued" ELSE msg[m]]

\* deliver: peekAgentInbox, and one follow-up message for what is not scheduled yet
Deliver ==
  LET fresh == {m \in Messages : Recovered[m] = "queued"} \ scheduled IN
  /\ up /\ scan
  /\ scan' = FALSE
  /\ msg' = Recovered
  /\ stale' = {}
  /\ scheduled' = scheduled \cup fresh
  /\ pending' = pending \cup fresh
  /\ UNCHANGED <<receipt, claims, sender, up, watching, turn, recovering, visible, transcript, seen>>

\* agent_start, of a turn of the user's or of a follow-up message's
BeginTurn ==
  /\ up /\ ~turn
  /\ turn' = TRUE
  /\ visible' = {}
  /\ scan' = TRUE /\ watching' = TRUE
  /\ UNCHANGED <<table, sender, up, scheduled, recovering, pending, transcript, seen>>

TakeFollowUp ==
  /\ turn /\ pending # {}
  /\ transcript' = transcript \cup pending
  /\ pending' = {}
  /\ UNCHANGED <<table, sender, up, watching, scan, turn, scheduled, recovering, visible, seen>>

\* markAgentMessagesModelVisible throws for the whole batch if one message has
\* a receipt of an earlier request or has been acknowledged.
Receivable(new) ==
  \A m \in new : receipt[m] = "none" /\ msg[m] \in {"queued", "delivering", "delivered"}

\* Mutant of ProviderRequest: everything scheduled counts as part of the request.
ProviderRequestOfScheduled ==
  LET new == scheduled \ recovering IN
  /\ turn
  /\ seen' = seen \cup transcript
  /\ Receivable(new)
  /\ msg' = [m \in Messages |-> IF m \in new THEN "delivered" ELSE msg[m]]
  /\ stale' = stale \ new
  /\ receipt' = [m \in Messages |-> IF m \in new THEN "open" ELSE receipt[m]]
  /\ visible' = visible \cup scheduled
  /\ Notice
  /\ UNCHANGED <<claims, sender, up, watching, turn, scheduled, recovering, pending, transcript>>

\* provider_request_prepared and a successful after_provider_response
ProviderRequest ==
  LET ids == transcript \cap scheduled
      new == ids \ recovering IN
  /\ turn
  /\ transcript # {}
  /\ seen' = seen \cup transcript
  /\ \/ /\ Receivable(new)
        /\ msg' = [m \in Messages |-> IF m \in new THEN "delivered" ELSE msg[m]]
        /\ stale' = stale \ new
        /\ receipt' = [m \in Messages |-> IF m \in new THEN "open" ELSE receipt[m]]
        /\ visible' = visible \cup ids
        /\ Notice
     \/ /\ ~Receivable(new)
        /\ UNCHANGED <<msg, stale, receipt, visible, scan>>
  /\ UNCHANGED <<claims, sender, up, watching, turn, scheduled, recovering, pending, transcript>>

\* agent_inbox read: what was queued is delivered by showing it
ReadInbox ==
  LET shown == {m \in Messages : Recovered[m] \in {"queued", "delivered"}} IN
  /\ turn /\ shown # {}
  /\ msg' = [m \in Messages |-> IF m \in shown THEN "delivered" ELSE msg[m]]
  /\ stale' = {}
  /\ seen' = seen \cup shown
  /\ Notice
  /\ UNCHANGED <<receipt, claims, sender, up, watching, turn, memory, transcript>>

\* agent_inbox acknowledge, of messages the model knows: the receipt is not touched
AcknowledgeInbox(ms) ==
  /\ turn /\ ms # {}
  /\ ms \subseteq seen
  /\ \A m \in ms : msg[m] = "delivered"
  /\ msg' = [m \in Messages |-> IF m \in ms THEN "acknowledged" ELSE msg[m]]
  /\ Notice
  /\ UNCHANGED <<stale, receipt, claims, sender, up, watching, turn, memory, transcript, seen>>

\* What settleAgentMessages accepts; one message it refuses rolls the batch back.
Settleable(m) ==
  \/ msg[m] = "acknowledged" /\ receipt[m] = "settled"
  \/ msg[m] = "delivered" /\ receipt[m] = "open"

\* agent_settled
SettleTurn ==
  /\ turn
  /\ turn' = FALSE
  /\ scan' = TRUE /\ watching' = TRUE
  /\ visible' = {}
  /\ \/ /\ \A m \in visible : Settleable(m)
        /\ msg' = [m \in Messages |-> IF m \in visible THEN "acknowledged" ELSE msg[m]]
        /\ receipt' = [m \in Messages |-> IF m \in visible THEN "settled" ELSE receipt[m]]
        /\ scheduled' = scheduled \ visible
        /\ recovering' = recovering \ visible
     \/ /\ \E m \in visible : ~Settleable(m)
        /\ UNCHANGED <<msg, receipt, scheduled, recovering>>
  /\ UNCHANGED <<stale, claims, sender, up, pending, transcript, seen>>

-----------------------------------------------------------------------------
Sending(s, m) == ClaimMessage(s, m) \/ DeferDelivery(s, m)

Next ==
  \/ \E m \in Messages : QueueMessage(m) \/ ClaimAges(m)
  \/ \E s \in Senders : SenderCrash(s) \/ \E m \in Messages : Sending(s, m)
  \/ StartSession \/ EndSession \/ WatchFails \/ WatchRestarts \/ Deliver
  \/ BeginTurn \/ TakeFollowUp \/ ProviderRequest \/ ReadInbox \/ SettleTurn
  \/ \E ms \in SUBSET Messages : AcknowledgeInbox(ms)

Spec == Init /\ [][Next]_vars

\* Claims end or age, a scheduled scan runs, the Session is reopened and used,
\* and not every turn is aborted before it takes its follow-up messages and
\* completes a request.
FairSpec ==
  /\ Spec
  /\ WF_vars(StartSession) /\ WF_vars(WatchRestarts) /\ WF_vars(Deliver)
  /\ SF_vars(BeginTurn) /\ SF_vars(TakeFollowUp) /\ SF_vars(ProviderRequest)
  /\ SF_vars(SettleTurn)
  /\ \A m \in Messages :
       /\ WF_vars(ClaimAges(m))
       /\ \A s \in Senders : WF_vars(DeferDelivery(s, m))

-----------------------------------------------------------------------------
(* Properties.                                                             *)

\* A message is acknowledged only when the model has been shown it, in a
\* provider request that succeeded or by agent_inbox: not because it was
\* scheduled, nor because a receipt of an earlier life of the Session is open
\* (settleAgentMessages, acknowledgeAgentInbox).
AcknowledgedWasSeen ==
  \A m \in Messages : msg[m] = "acknowledged" => m \in seen

\* A message with an open receipt is in the transcript, or the model
\* acknowledged it itself, so a reopened Session that schedules it as
\* recovering presents it again without delivering it a second time.
ReceiptIsInTranscript ==
  \A m \in Messages : receipt[m] # "none" => m \in transcript /\ msg[m] \in {"delivered", "acknowledged"}

\* As long as the Session stays open and is used, a queued message is shown to
\* the model, whatever happened to the sender that had claimed it, to the watch
\* or to the Session before (recoverStaleAgentMessageDeliveries, deliver).
QueuedMessageIsSeen ==
  (<>[]up) => \A m \in Messages : (msg[m] = "queued") ~> (m \in seen)

=============================================================================
