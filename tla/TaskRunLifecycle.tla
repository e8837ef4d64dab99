-------------------------- MODULE TaskRunLifecycle --------------------------
(***************************************************************************)
(* What the daemon promises of the reports of task runs: each walks through *)
(* dispatched and running to one outcome, may leave stages out, and never   *)
(* goes back.                                                               *)
(***************************************************************************)
EXTENDS Naturals

CONSTANT Runs

VARIABLE status

Rank == [none |-> 0, dispatched |-> 1, running |-> 2, completed |-> 3, failed |-> 3, cancelled |-> 3]

Init == status = [r \in Runs |-> "none"]

Next ==
    /\ status' \in [Runs -> DOMAIN Rank]
    /\ \A r \in Runs : status'[r] = status[r] \/ Rank[status[r]] < Rank[status'[r]]

Spec == Init /\ [][Next]_status
=============================================================================
