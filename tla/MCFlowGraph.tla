---------------------------- MODULE MCFlowGraph ----------------------------
(***************************************************************************)
(* Instances of FlowGraph.                                                 *)
(***************************************************************************)
EXTENDS FlowGraph, TLC

CONSTANTS a, b, c

\* A chain, a join, and a cycle that must be refused.
Shapes == {{<<a, b>>, <<b, c>>}, {<<a, c>>, <<b, c>>}, {<<a, b>>, <<b, c>>, <<c, b>>}}
=============================================================================
