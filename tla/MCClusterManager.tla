-------------------------- MODULE MCClusterManager --------------------------
(* ClusterManager on small instances. *)
EXTENDS ClusterManager, TLC

CONSTANTS p1, d1, d2

\* One peer, with one or two devices, each of which can be in a cluster.
MCTwoDevices == [p \in Peers |-> {{d1}, {d1, d2}}]
MCEitherDevice == {[leader |-> p1, devices |-> {d}] : d \in Devices}

\* Two peers with a device each, and a cluster with both.
MCDeviceEach == [p \in Peers |-> IF p = p1 THEN {{d1}} ELSE {{d2}}]
MCBothDevices == {[leader |-> p1, devices |-> Devices]}

\* For the run with two peers: only the leader's entry outlives its state.
MCFairSpec ==
    Init /\ [][Next /\ \A p \in Peers \ {p1} : online'[p] = "no" => p \notin reachable']_vars
         /\ Fairness

\* Nothing tells clusters apart but what operators do with them.
MCSymmetry == Permutations(Clusters)

\* No guard and, but for its type, no safety property reads failed or lagged.
MCView == <<resources, stored, events, mgr, counter, waiting, alive, links, edited, moved>>
=============================================================================
