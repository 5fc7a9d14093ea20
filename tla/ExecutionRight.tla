--------------------------- MODULE ExecutionRight ---------------------------
(***************************************************************************)
(* What the lease, the fencing token and the recovery barrier promise      *)
(* together: the right to execute an Agent is granted to one Worker at a   *)
(* time, in increasing epochs, and never while an earlier Worker executes. *)
(***************************************************************************)
EXTENDS Naturals

CONSTANT Agents

VARIABLES
  epoch,    \* the number of grants so far, for every Agent
  workers   \* the epochs whose Workers execute the Agent

Init == /\ epoch = [a \in Agents |-> 0]
        /\ workers = [a \in Agents |-> {}]

Grant(a) ==
  /\ workers[a] = {}
  /\ epoch' = [epoch EXCEPT ![a] = @ + 1]
  /\ workers' = [workers EXCEPT ![a] = {epoch[a] + 1}]

Depart(a) ==
  /\ workers' = [workers EXCEPT ![a] = {}]
  /\ UNCHANGED epoch

Next == \E a \in Agents : Grant(a) \/ Depart(a)

Spec == Init /\ [][Next]_<<epoch, workers>>
=============================================================================
