\* Three nodes, two graphs and a cycle; one further Dispatch per Agent.
SPECIFICATION FairSpec
CONSTANTS
  a = a
  b = b
  c = c
  Nodes = {a, b, c}
  Required = {a, c}
  Definitions <- Shapes
  MaxDispatches = 2
  MaxAgain = 1
  MaxConcurrent = 3
  MainWorkers = 1
  MaxCrashes = 1
  MaxControls = 1
INVARIANTS NodeFollowsDispatch DispatchesInOrder FlowVerdict
PROPERTIES ImplementsFlowPlan FlowSettles
CHECK_DEADLOCK FALSE
