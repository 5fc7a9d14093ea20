\* Two messages, and two senders that crash and retry.
SPECIFICATION FairSpec
CONSTANTS
  Messages = {m1, m2}
  Senders = {s1, s2}
  MaxClaims = 2
INVARIANTS
  AcknowledgedWasSeen
  ReceiptIsInTranscript
PROPERTY QueuedMessageIsSeen
