--------------------------- MODULE MCBudgetLedger ---------------------------
(* A main Agent and a subagent of one Task.                                *)
EXTENDS BudgetLedger, TLC

MCWorst == [k \in Kinds |-> IF k = "agent" THEN 3 ELSE 1]
\* A request of an Agent costs more than its worst case, a review just that or more;
\* with the smaller usages that failed answers report, all of them may be settled at less.
MCCharges == [k \in Kinds |-> IF k = "agent" THEN {4} ELSE {1, 2}]
\* The Agents do the same things.
AgentSymmetry == Permutations(Agents)
=============================================================================
