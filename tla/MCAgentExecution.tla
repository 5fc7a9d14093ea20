-------------------------- MODULE MCAgentExecution --------------------------
(* Instances of AgentExecution for model checking. *)
EXTENDS AgentExecution
=============================================================================
