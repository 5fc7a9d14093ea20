SPECIFICATION Spec
CONSTANTS
  Agents = {a1, a2}
  Messages = {m1}
  None = None
  Reviewer = Reviewer
  MaxUses = 2
  MaxGrants = 2
  MaxRestarts = 1
  MaxCalls = 3
CHECK_DEADLOCK FALSE
INVARIANTS UsesAreLimited ConfirmedByUser RevisionCounts
PROPERTIES SpentIsFinal DenialHolds
