------------------------------ MODULE FlowPlan ------------------------------
(***************************************************************************)
(* What a Flow promises its Orchestrator, whatever Workers, pauses and     *)
(* crashes do underneath: a node is started only when all its sources are  *)
(* done, the failure of a node drops exactly the open nodes downstream of  *)
(* it, and what is decided stays decided.                                  *)
(***************************************************************************)
EXTENDS FiniteSets

CONSTANT Nodes

VARIABLES
  edges,   \* dependencies <<source, target>>
  status   \* node -> "none", "open", "started", "done", "failed", "dropped", "cancelled"

planVars == <<edges, status>>

Sources(n) == {e[1] : e \in {f \in edges : f[2] = n}}

PlanInit == edges = {} /\ status = [n \in Nodes |-> "none"]

\* No set of nodes waits for itself.
Acyclic(g) == \A S \in (SUBSET Nodes) \ {{}} : \E n \in S : \A s \in S : <<s, n>> \notin g

Define == /\ \A n \in Nodes : status[n] = "none"
          /\ edges' \in SUBSET (Nodes \X Nodes) /\ Acyclic(edges')
          /\ status' = [n \in Nodes |-> "open"]

Start(n) == /\ status[n] = "open"
            /\ \A s \in Sources(n) : status[s] = "done"
            /\ status' = [status EXCEPT ![n] = "started"]
            /\ UNCHANGED edges

Finish(n) == /\ status[n] = "started"
             /\ status' = [status EXCEPT ![n] = "done"]
             /\ UNCHANGED edges

\* The open nodes that cannot start any more: each has a source that failed
\* or is itself one of them.
Downstream(n) ==
  CHOOSE S \in SUBSET {m \in Nodes : status[m] = "open"} :
    \A m \in Nodes : status[m] = "open" =>
      (m \in S <=> \E s \in Sources(m) : s = n \/ s \in S)

Fail(n) == /\ status[n] = "started"
           /\ status' = [m \in Nodes |->
                IF m = n THEN "failed" ELSE IF m \in Downstream(n) THEN "dropped" ELSE status[m]]
           /\ UNCHANGED edges

\* A user cancels one node, or the Task ends and takes the open nodes along.
Withdraw(S, how) == /\ \A n \in S : status[n] \in {"open", "started"}
                    /\ status' = [n \in Nodes |-> IF n \in S THEN how ELSE status[n]]
                    /\ UNCHANGED edges

PlanNext == \/ Define
            \/ \E n \in Nodes : Start(n) \/ Finish(n) \/ Fail(n)
            \/ \E S \in SUBSET Nodes, how \in {"cancelled", "failed"} : Withdraw(S, how)

PlanSpec == PlanInit /\ [][PlanNext]_planVars
=============================================================================
