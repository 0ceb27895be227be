--------------------------- MODULE MCProvisioning ---------------------------
(* Provisioning on a small instance. *)
EXTENDS Provisioning

CONSTANTS p1, k1

MCMembers == [k \in Clusters |-> {p1}]

\* At most six calls, faults (failed requests, dropped calls, restarts of CARL), setups
\* and restarts of EDGAR together; only operators, faults and restarts are held back.
MCNext == Next /\ started' + faults' + runs'.restarts + runs'.setups <= 6
MCFairSpec == Init /\ [][MCNext]_vars /\ Fairness
=============================================================================
