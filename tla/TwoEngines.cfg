\* The daemon and the attach of a resident Worker, three Attempts; a recover()
\* call may outlast a lease.
SPECIFICATION Spec
CONSTANTS
  Agents = {main}
  Main = main
  Required = {}
  Engines = {daemon, worker}
  RegistryEngines = {daemon, worker}
  Daemon = daemon
  Prompt = FALSE
  MaxToken = 3
  HostInputs = {"resident"}
  OperationInputs = {"request"}
  DecisionInputs = {}
  AcceptanceInputs = {}
INVARIANT RecoveryBarrier
CHECK_DEADLOCK FALSE
