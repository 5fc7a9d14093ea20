SPECIFICATION Spec
CONSTANTS
  Onces = {once}
  Intervals = {every}
  Events = {event}
  Period = 2
  Engines = {e1, e2}
  Users = {u1}
  None = None
  MaxTime = 4
  MaxLog = 2
  MaxStamp = 2
  MaxCalls = 2
  MaxChanges = 2
SYMMETRY EngineSymmetry
CHECK_DEADLOCK FALSE
INVARIANTS NoTickTwice MissedTicksAreCounted EventsInOrder DeliveredWasSent
