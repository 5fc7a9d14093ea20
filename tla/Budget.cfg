SPECIFICATION Spec
CONSTANTS
  Agents = {main, sub}
  MaxTurns = 2
  MaxCost = 5
  Worst <- MCWorst
  Charges <- MCCharges
  Partials = {0, 2}
  CompilerLimit = 1
  ReviewerLimit = 2
  AttemptLimit = 1
  Cap = 2
  Allowance = 1
  ShareOf = 3
  MaxAttempts = 2
  MaxRequests = 2
SYMMETRY AgentSymmetry
CHECK_DEADLOCK FALSE
INVARIANTS BudgetHeld SpendingIsAccounted LedgerAgrees ReviewerShareHeld
PROPERTY LostRequestStopsAgent
