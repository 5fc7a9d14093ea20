\* Two daemons, one command identity, a stop and another payload, one pruning.
SPECIFICATION FairSpec
CONSTANTS
  Daemons = {d1, d2}
  Commands = {c1}
  Payloads = {steer, stop}
  StopPayloads = {stop}
  None = None
  MaxPrunes = 1
INVARIANTS
  ExecutedAtMostOnce
  SuccessIsReal
  ConclusiveAnswerIsFinal
PROPERTY NoHangingCommand
