SPECIFICATION Spec
CONSTANTS
  Agents = {main}
  MaxTurns = 2
  MaxCost = 8
  Worst <- MCWorst
  Charges <- MCCharges
  Partials = {0}
  CompilerLimit = 1
  ReviewerLimit = 2
  AttemptLimit = 1
  Cap = 2
  Allowance = 1
  ShareOf = 3
  MaxAttempts = 1
  MaxRequests = 1
CHECK_DEADLOCK FALSE
INVARIANT SpendingIsCovered
