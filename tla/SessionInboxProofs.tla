------------------------- MODULE SessionInboxProofs -------------------------
(***************************************************************************)
(* Proofs about SessionInbox, for any messages, any senders and any number *)
(* of claims: type correctness, and that acknowledgements and receipts     *)
(* tell the truth about what the model was shown.                          *)
(***************************************************************************)
EXTENDS SessionInbox, TLAPS

-----------------------------------------------------------------------------
(* Type correctness                                                        *)

\* Nothing is queued, claimed, scheduled or shown before the first message.
LEMMA InitType == Init => TypeOK
<1> SUFFICES ASSUME Init PROVE TypeOK
  OBVIOUS
<1>1. {up, watching, scan, turn} \subseteq BOOLEAN
  BY Zenon DEF Init
<1>2. UNION {scheduled, pending, transcript, seen} \subseteq Messages
  BY Zenon DEF Init
<1> HIDE DEF Init
<1>3. /\ msg \in [Messages -> MessageStates]
      /\ receipt \in [Messages -> {"none", "open", "settled"}]
      /\ sender \in [Senders -> SUBSET Messages]
      /\ claims \in 0..MaxClaims
  BY MaxClaimsAssumption DEF Init, MessageStates
<1>4. /\ stale \subseteq {m \in Messages : msg[m] = "delivering"}
      /\ recovering \subseteq scheduled
      /\ visible \subseteq scheduled
  BY Zenon DEF Init
<1> QED BY <1>1, <1>2, <1>3, <1>4 DEF TypeOK

\* The flags of the Session, the watch among them, stay Boolean.
LEMMA FlagsType ==
  ASSUME TypeOK, [Next]_vars
  PROVE  {up, watching, scan, turn}' \subseteq BOOLEAN
<1>1. CASE UNCHANGED vars
  BY <1>1 DEF vars, TypeOK
<1>2. CASE \E m \in Messages : QueueMessage(m) \/ ClaimAges(m)
  BY <1>2, Zenon DEF QueueMessage, ClaimAges, Notice, TypeOK
<1>3. CASE \E s \in Senders : SenderCrash(s) \/ \E m \in Messages : Sending(s, m)
  BY <1>3, Zenon DEF SenderCrash, Sending, ClaimMessage, DeferDelivery, Notice, TypeOK
<1>4. CASE StartSession \/ EndSession \/ WatchFails \/ WatchRestarts \/ Deliver
  BY <1>4, Zenon DEF StartSession, EndSession, WatchFails, WatchRestarts, Deliver, TypeOK
<1>5. CASE BeginTurn \/ TakeFollowUp \/ ProviderRequest \/ ReadInbox \/ SettleTurn
  BY <1>5, Zenon
  DEF BeginTurn, TakeFollowUp, ProviderRequest, ReadInbox, SettleTurn, Notice, TypeOK
<1>6. CASE \E ms \in SUBSET Messages : AcknowledgeInbox(ms)
  BY <1>6, Zenon DEF AcknowledgeInbox, Notice, TypeOK
<1> QED BY <1>1, <1>2, <1>3, <1>4, <1>5, <1>6 DEF Next

\* The tables: message states, receipts, and claims that have gone stale.
TableType ==
  /\ msg \in [Messages -> MessageStates]
  /\ receipt \in [Messages -> {"none", "open", "settled"}]
  /\ sender \in [Senders -> SUBSET Messages]
  /\ stale \subseteq {m \in Messages : msg[m] = "delivering"}
  /\ claims \in 0..MaxClaims

\* What the Session remembers of its messages.
MemoryType ==
  /\ recovering \subseteq scheduled
  /\ visible \subseteq scheduled
  /\ scheduled \subseteq Messages /\ pending \subseteq Messages
  /\ transcript \subseteq Messages /\ seen \subseteq Messages

\* A closed Session has no turn, and no request of a turn to settle: TypeOK
\* alone is not inductive, for session_start replaces the scheduled messages.
ClosedIsQuiet == ~up => (~turn /\ visible = {})

\* Sets of messages, all at once or one by one.
LEMMA UnionOfFour ==
  ASSUME NEW S, NEW A, NEW B, NEW C, NEW D
  PROVE  UNION {A, B, C, D} \subseteq S <=>
           A \subseteq S /\ B \subseteq S /\ C \subseteq S /\ D \subseteq S
BY Zenon

\* The type invariant, taken apart.
LEMMA TypeParts ==
  TypeOK => TableType /\ MemoryType
BY UnionOfFour, Zenon DEF TypeOK, TableType, MemoryType

\* Senders write the tables.
LEMMA SenderType ==
  ASSUME TableType, MemoryType, NEW m \in Messages
  PROVE  /\ QueueMessage(m) \/ ClaimAges(m) => TableType' /\ MemoryType'
         /\ \A s \in Senders : SenderCrash(s) \/ Sending(s, m) => TableType' /\ MemoryType'
<1>1. QueueMessage(m) => TableType' /\ MemoryType'
  BY DEF QueueMessage, TableType, MemoryType, memory, MessageStates
<1>2. ClaimAges(m) => TableType' /\ MemoryType'
  BY DEF ClaimAges, TableType, MemoryType, memory, MessageStates
<1>3. ASSUME NEW s \in Senders, SenderCrash(s) PROVE TableType' /\ MemoryType'
  BY <1>3 DEF SenderCrash, TableType, MemoryType, table, memory
<1>4. ASSUME NEW s \in Senders, ClaimMessage(s, m) PROVE TableType' /\ MemoryType'
  BY <1>4, MaxClaimsAssumption DEF ClaimMessage, TableType, MemoryType, memory, MessageStates
<1>5. ASSUME NEW s \in Senders, DeferDelivery(s, m) PROVE TableType' /\ MemoryType'
  BY <1>5 DEF DeferDelivery, TableType, MemoryType, memory, MessageStates
<1> QED BY <1>1, <1>2, <1>3, <1>4, <1>5 DEF Sending

\* The Session reads and writes them in its scans, requests and settlements.
LEMMA SessionType ==
  ASSUME TableType, MemoryType, ClosedIsQuiet
  PROVE  /\ StartSession \/ EndSession \/ WatchFails \/ WatchRestarts \/ Deliver
              => TableType' /\ MemoryType'
         /\ BeginTurn \/ TakeFollowUp \/ ProviderRequest \/ ReadInbox \/ SettleTurn
              => TableType' /\ MemoryType'
         /\ \A ms \in SUBSET Messages : AcknowledgeInbox(ms) => TableType' /\ MemoryType'
<1>1. StartSession \/ EndSession \/ WatchFails \/ WatchRestarts => TableType' /\ MemoryType'
  <2>1. StartSession => visible = {}
    BY Zenon DEF StartSession, ClosedIsQuiet
  <2> QED
    BY <2>1
    DEF StartSession, EndSession, WatchFails, WatchRestarts, TableType, MemoryType, table, memory
<1>2. Deliver => TableType' /\ MemoryType'
  BY DEF Deliver, Recovered, TableType, MemoryType, MessageStates
<1>3. BeginTurn \/ TakeFollowUp => TableType' /\ MemoryType'
  BY DEF BeginTurn, TakeFollowUp, TableType, MemoryType, table
<1>4. ProviderRequest => TableType' /\ MemoryType'
  BY DEF ProviderRequest, TableType, MemoryType, MessageStates
<1>5. ReadInbox => TableType' /\ MemoryType'
  BY DEF ReadInbox, Recovered, TableType, MemoryType, memory, MessageStates
<1>6. SettleTurn => TableType' /\ MemoryType'
  BY DEF SettleTurn, Settleable, TableType, MemoryType, MessageStates
<1>7. ASSUME NEW ms \in SUBSET Messages, AcknowledgeInbox(ms) PROVE TableType' /\ MemoryType'
  BY <1>7 DEF AcknowledgeInbox, TableType, MemoryType, memory, MessageStates
<1> QED BY <1>1, <1>2, <1>3, <1>4, <1>5, <1>6, <1>7

\* Turns run, and requests are made, only in an open Session.
LEMMA StepQuiet == ClosedIsQuiet /\ [Next]_vars => ClosedIsQuiet'
<1> SUFFICES ASSUME ClosedIsQuiet, [Next]_vars PROVE ClosedIsQuiet'
  OBVIOUS
<1>1. CASE UNCHANGED vars
  BY <1>1, Zenon DEF vars, ClosedIsQuiet
<1>2. CASE \E m \in Messages : QueueMessage(m) \/ ClaimAges(m)
  <2>1. UNCHANGED <<up, turn, visible>>
    BY <1>2 DEF QueueMessage, ClaimAges, memory
  <2> QED BY <2>1, Zenon DEF ClosedIsQuiet
<1>3. CASE \E s \in Senders : SenderCrash(s) \/ \E m \in Messages : Sending(s, m)
  <2>1. UNCHANGED <<up, turn, visible>>
    BY <1>3 DEF SenderCrash, Sending, ClaimMessage, DeferDelivery, memory
  <2> QED BY <2>1, Zenon DEF ClosedIsQuiet
<1>4. CASE StartSession \/ EndSession \/ WatchFails \/ WatchRestarts \/ Deliver
  BY <1>4, Zenon
  DEF StartSession, EndSession, WatchFails, WatchRestarts, Deliver, memory, ClosedIsQuiet
<1>5. CASE BeginTurn \/ TakeFollowUp \/ ProviderRequest \/ ReadInbox \/ SettleTurn
  BY <1>5, Zenon
  DEF BeginTurn, TakeFollowUp, ProviderRequest, ReadInbox, SettleTurn, memory, ClosedIsQuiet
<1>6. CASE \E ms \in SUBSET Messages : AcknowledgeInbox(ms)
  <2>1. UNCHANGED <<up, turn, visible>>
    BY <1>6 DEF AcknowledgeInbox, memory
  <2> QED BY <2>1, Zenon DEF ClosedIsQuiet
<1> QED BY <1>1, <1>2, <1>3, <1>4, <1>5, <1>6 DEF Next

\* Every step keeps the types.
LEMMA StepType == TypeOK /\ ClosedIsQuiet /\ [Next]_vars => TypeOK'
<1> SUFFICES ASSUME TypeOK, ClosedIsQuiet, [Next]_vars PROVE TypeOK'
  OBVIOUS
<1>1. {up, watching, scan, turn}' \subseteq BOOLEAN
  BY FlagsType
<1>2. TableType /\ MemoryType
  BY TypeParts
<1>3. TableType' /\ MemoryType'
  <2>1. CASE UNCHANGED vars
    BY <2>1, <1>2 DEF vars, TableType, MemoryType
  <2>2. ASSUME NEW s \in Senders, SenderCrash(s) PROVE TableType' /\ MemoryType'
    BY <2>2, <1>2 DEF SenderCrash, TableType, MemoryType, table, memory
  <2> QED BY <1>2, <2>1, <2>2, SenderType, SessionType DEF Next
<1>4. UNION {scheduled, pending, transcript, seen}' \subseteq Messages
  BY <1>3 DEF MemoryType
<1> QED BY <1>1, <1>3, <1>4, Zenon DEF TypeOK, TableType, MemoryType

\* Every row and every set of message ids has its type in every reachable state.
THEOREM TypeCorrect == Spec => []TypeOK
<1>1. Init => TypeOK /\ ClosedIsQuiet
  BY InitType, Zenon DEF Init, ClosedIsQuiet
<1>2. TypeOK /\ ClosedIsQuiet /\ [Next]_vars => TypeOK' /\ ClosedIsQuiet'
  BY StepType, StepQuiet
<1> QED BY <1>1, <1>2, PTL DEF Spec

-----------------------------------------------------------------------------
(* What acknowledgements and receipts say                                  *)

\* A receipt is written for messages of a request that succeeded, so they are
\* in the transcript, the model has seen them, and they count as delivered.
ReceiptIsEarned ==
  \A m \in Messages : receipt[m] # "none" =>
    m \in transcript /\ m \in seen /\ msg[m] \in {"delivered", "acknowledged"}

InboxInv == TableType /\ MemoryType /\ ReceiptIsEarned /\ AcknowledgedWasSeen

\* Senders only touch messages that are queued or claimed, which have no receipt.
LEMMA SenderKeepsReceipts ==
  ASSUME InboxInv, NEW m \in Messages,
         \/ QueueMessage(m) \/ ClaimAges(m)
         \/ \E s \in Senders : SenderCrash(s) \/ Sending(s, m)
  PROVE  ReceiptIsEarned' /\ AcknowledgedWasSeen'
<1>1. CASE QueueMessage(m)
  BY <1>1 DEF QueueMessage, InboxInv, TableType, ReceiptIsEarned, AcknowledgedWasSeen
<1>2. CASE ClaimAges(m)
  BY <1>2 DEF ClaimAges, InboxInv, ReceiptIsEarned, AcknowledgedWasSeen
<1>3. ASSUME NEW s \in Senders, SenderCrash(s) PROVE ReceiptIsEarned' /\ AcknowledgedWasSeen'
  BY <1>3 DEF SenderCrash, table, InboxInv, ReceiptIsEarned, AcknowledgedWasSeen
<1>4. ASSUME NEW s \in Senders, ClaimMessage(s, m) PROVE ReceiptIsEarned' /\ AcknowledgedWasSeen'
  BY <1>4 DEF ClaimMessage, InboxInv, TableType, ReceiptIsEarned, AcknowledgedWasSeen
<1>5. ASSUME NEW s \in Senders, DeferDelivery(s, m) PROVE ReceiptIsEarned' /\ AcknowledgedWasSeen'
  BY <1>5 DEF DeferDelivery, InboxInv, TableType, ReceiptIsEarned, AcknowledgedWasSeen
<1> QED BY <1>1, <1>2, <1>3, <1>4, <1>5 DEF Sending

\* A scan puts back only stale claims; a request shows its whole transcript
\* before it writes receipts; a settlement acknowledges what has a receipt.
LEMMA SessionKeepsReceipts ==
  ASSUME InboxInv,
         \/ StartSession \/ EndSession \/ WatchFails \/ WatchRestarts \/ Deliver
         \/ BeginTurn \/ TakeFollowUp \/ ProviderRequest \/ ReadInbox \/ SettleTurn
         \/ \E ms \in SUBSET Messages : AcknowledgeInbox(ms)
  PROVE  ReceiptIsEarned' /\ AcknowledgedWasSeen'
<1>1. CASE StartSession \/ EndSession \/ WatchFails \/ WatchRestarts \/ BeginTurn
  BY <1>1
  DEF StartSession, EndSession, WatchFails, WatchRestarts, BeginTurn, table, InboxInv,
      ReceiptIsEarned, AcknowledgedWasSeen
<1>2. CASE Deliver
  BY <1>2 DEF Deliver, Recovered, InboxInv, TableType, ReceiptIsEarned, AcknowledgedWasSeen
<1>3. CASE TakeFollowUp
  BY <1>3 DEF TakeFollowUp, table, InboxInv, ReceiptIsEarned, AcknowledgedWasSeen
<1>4. CASE ProviderRequest
  BY <1>4
  DEF ProviderRequest, Receivable, InboxInv, TableType, MemoryType, ReceiptIsEarned,
      AcknowledgedWasSeen
<1>5. CASE ReadInbox
  BY <1>5
  DEF ReadInbox, Recovered, InboxInv, TableType, ReceiptIsEarned, AcknowledgedWasSeen
<1>6. CASE SettleTurn
  BY <1>6 DEF SettleTurn, Settleable, InboxInv, TableType, ReceiptIsEarned, AcknowledgedWasSeen
<1>7. ASSUME NEW ms \in SUBSET Messages, AcknowledgeInbox(ms)
      PROVE  ReceiptIsEarned' /\ AcknowledgedWasSeen'
  BY <1>7 DEF AcknowledgeInbox, memory, InboxInv, TableType, ReceiptIsEarned, AcknowledgedWasSeen
<1> QED BY <1>1, <1>2, <1>3, <1>4, <1>5, <1>6, <1>7

\* Both together are inductive.
LEMMA ReceiptsInductive ==
  Spec => [](ReceiptIsEarned /\ AcknowledgedWasSeen)
<1> DEFINE Truth == ReceiptIsEarned /\ AcknowledgedWasSeen
<1>1. Init => Truth
  BY DEF Init, ReceiptIsEarned, AcknowledgedWasSeen
<1>2. ASSUME TypeOK, Truth, [Next]_vars PROVE Truth'
  <2>1. InboxInv
    BY <1>2, TypeParts DEF InboxInv
  <2>2. CASE UNCHANGED vars
    BY <2>2, <1>2 DEF vars, ReceiptIsEarned, AcknowledgedWasSeen
  <2>3. ASSUME NEW s \in Senders, SenderCrash(s) PROVE Truth'
    BY <2>3, <1>2 DEF SenderCrash, table, ReceiptIsEarned, AcknowledgedWasSeen
  <2> QED BY <1>2, <2>1, <2>2, <2>3, SenderKeepsReceipts, SessionKeepsReceipts DEF Next
<1>3. TypeOK /\ Truth /\ [Next]_vars => Truth'
  BY <1>2
<1> QED BY <1>1, <1>3, TypeCorrect, PTL DEF Spec

\* settleAgentMessages and acknowledgeAgentInbox: a message is acknowledged only
\* when the model has been shown it, through any crashes of senders and Session.
THEOREM AcknowledgedWasSeenAlways == Spec => []AcknowledgedWasSeen
BY ReceiptsInductive, PTL

\* markAgentMessagesModelVisible: a message with a receipt is in the transcript
\* and never goes back to the inbox.
THEOREM ReceiptIsInTranscriptAlways == Spec => []ReceiptIsInTranscript
<1>1. ReceiptIsEarned => ReceiptIsInTranscript
  BY DEF ReceiptIsEarned, ReceiptIsInTranscript
<1> QED BY <1>1, ReceiptsInductive, PTL

-----------------------------------------------------------------------------
(* No message gets lost                                                    *)

\* A message leaves the queue for good only by being shown, and what counts as
\* scheduled, which no later scan hands over again, is a follow-up message that
\* waits or is in the transcript.
InboxLosesNothing ==
  /\ \A m \in Messages : msg[m] \in {"delivered", "acknowledged"} => m \in seen
  /\ scheduled \subseteq pending \cup transcript

\* Senders do not deliver, and leave the Session alone.
LEMMA SenderLosesNothing ==
  ASSUME InboxInv, InboxLosesNothing, NEW m \in Messages,
         QueueMessage(m) \/ ClaimAges(m) \/ \E s \in Senders : Sending(s, m)
  PROVE  InboxLosesNothing'
<1>1. UNCHANGED <<scheduled, pending, transcript, seen>>
  BY DEF QueueMessage, ClaimAges, Sending, ClaimMessage, DeferDelivery, memory
<1>2. \A k \in Messages : msg'[k] \in {"delivered", "acknowledged"} => msg[k] = msg'[k]
  BY DEF QueueMessage, ClaimAges, Sending, ClaimMessage, DeferDelivery, InboxInv, TableType
<1> QED BY <1>1, <1>2 DEF InboxLosesNothing

\* A Session that starts counts only messages with an open receipt as scheduled,
\* and these are in the transcript; one that ends forgets both its lists; a
\* settlement acknowledges what was delivered.
LEMMA SessionLosesNothing ==
  ASSUME InboxInv, InboxLosesNothing,
         \/ StartSession \/ EndSession \/ WatchFails \/ WatchRestarts \/ Deliver
         \/ BeginTurn \/ TakeFollowUp \/ ProviderRequest \/ ReadInbox \/ SettleTurn
         \/ \E ms \in SUBSET Messages : AcknowledgeInbox(ms)
  PROVE  InboxLosesNothing'
<1>1. CASE StartSession
  BY <1>1 DEF StartSession, table, InboxInv, ReceiptIsEarned, InboxLosesNothing
<1>2. CASE EndSession \/ WatchFails \/ WatchRestarts \/ BeginTurn
  BY <1>2
  DEF EndSession, WatchFails, WatchRestarts, BeginTurn, table, memory, InboxLosesNothing
<1>3. CASE Deliver
  BY <1>3 DEF Deliver, Recovered, InboxInv, TableType, InboxLosesNothing
<1>4. CASE TakeFollowUp
  BY <1>4 DEF TakeFollowUp, table, InboxLosesNothing
<1>5. CASE ProviderRequest
  BY <1>5 DEF ProviderRequest, InboxInv, TableType, MemoryType, InboxLosesNothing
<1>6. CASE ReadInbox
  BY <1>6 DEF ReadInbox, memory, InboxInv, TableType, InboxLosesNothing
<1>7. CASE SettleTurn
  BY <1>7 DEF SettleTurn, Settleable, InboxInv, TableType, MemoryType, InboxLosesNothing
<1>8. ASSUME NEW ms \in SUBSET Messages, AcknowledgeInbox(ms) PROVE InboxLosesNothing'
  BY <1>8 DEF AcknowledgeInbox, memory, InboxInv, TableType, InboxLosesNothing
<1> QED BY <1>1, <1>2, <1>3, <1>4, <1>5, <1>6, <1>7, <1>8

\* The safety half of QueuedMessageIsSeen, through any crashes of senders and
\* Session: deliver and recoverStaleAgentMessageDeliveries never drop a message
\* between the queue and the transcript.
THEOREM InboxLosesNothingAlways == Spec => []InboxLosesNothing
<1> DEFINE Truth == TypeOK /\ ReceiptIsEarned /\ AcknowledgedWasSeen
<1>1. Init => InboxLosesNothing
  BY DEF Init, InboxLosesNothing
<1>2. ASSUME Truth, InboxLosesNothing, [Next]_vars PROVE InboxLosesNothing'
  <2>1. InboxInv
    BY <1>2, TypeParts DEF InboxInv
  <2>2. CASE UNCHANGED vars
    BY <2>2, <1>2 DEF vars, InboxLosesNothing
  <2>3. ASSUME NEW s \in Senders, SenderCrash(s) PROVE InboxLosesNothing'
    BY <2>3, <1>2 DEF SenderCrash, table, memory, InboxLosesNothing
  <2> QED BY <1>2, <2>1, <2>2, <2>3, SenderLosesNothing, SessionLosesNothing DEF Next
<1>3. Truth /\ InboxLosesNothing /\ [Next]_vars => InboxLosesNothing'
  BY <1>2
<1> QED BY <1>1, <1>3, TypeCorrect, ReceiptsInductive, PTL DEF Spec

=============================================================================
