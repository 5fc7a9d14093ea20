SPECIFICATION Spec
CONSTANTS
  None = None
  Criteria = {c1, c2}
  Manual = {c2}
  Prints = {p1}
  MaxTurns = 4
  MaxAutomatic = 3
  ReplanAfter = 2
  PauseAfter = 3
  MaxIndex = 7
  MaxAttempts = 2
  MaxEvents = 0
  MaxCompactions = 0
CHECK_DEADLOCK FALSE

PROPERTY TimedWaitEnds
