\* The main Agent and one required subagent, one Attempt each.
SPECIFICATION Spec
CONSTANTS
  Agents = {main, sub}
  Main = main
  Required = {sub}
  Engines = {daemon, attach}
  RegistryEngines = {daemon}
  Daemon = daemon
  Prompt = TRUE
  MaxToken = 1
  HostInputs = {"foreground"}
  OperationInputs = {"side_effect"}
  DecisionInputs = {"completed"}
  AcceptanceInputs = {TRUE, FALSE}
INVARIANT TerminalTaskIsSettled
PROPERTY DispatchSettlesOnce
CHECK_DEADLOCK FALSE
