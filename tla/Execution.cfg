\* One Agent, two Attempts in resident and foreground processes, the daemon and
\* the attaches of both kinds of processes; recover() calls are prompt.
SPECIFICATION FairSpec
CONSTANTS
  Agents = {main}
  Main = main
  Required = {}
  Engines = {daemon, worker, attach}
  RegistryEngines = {daemon, worker}
  Daemon = daemon
  Prompt = TRUE
  MaxToken = 2
  HostInputs = {"resident", "foreground"}
  OperationInputs = {"request"}
  DecisionInputs = {"failed"}
  AcceptanceInputs = {}
INVARIANTS TypeOK RecoveryBarrier WriteAheadJournal ExecutionInv
PROPERTIES SafeRequeue ImplementsExecutionRight StaleWorkerStops ExpiredLeaseIsRevoked TerminalTaskDrains
CHECK_DEADLOCK FALSE
