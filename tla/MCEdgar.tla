------------------------------- MODULE MCEdgar -------------------------------
(* Edgar on small instances. *)
EXTENDS Edgar

CONSTANTS p1, p2, p3, b1, b2, e1, e2, k1, x1

\* The configurations of one behaviour are about one of three parts: Ethernet,
\* CAN or test execution.
Desc(b, devices, executors) == [bridge |-> b, devices |-> devices, executors |-> executors]
EthernetPart  == {Desc(b1, {e1}, {}), Desc(b2, {e2}, {})}
CanPart       == {Desc(b1, {k1}, {})}
ExecutionPart == {Desc(b1, {}, {x1})}
MCDescriptors == EthernetPart \cup CanPart \cup ExecutionPart

Pair(leader, port) == [leader |-> leader, port |-> (p1 :> port @@ p2 :> 3 - port)]
Triple == [leader |-> p1, port |-> (p1 :> 3 @@ p2 :> 2 @@ p3 :> 1)]
Lone   == [leader |-> p1, port |-> (p1 :> 1)]
MCAssignments == {Pair(p1, 1), Pair(p1, 2), Pair(p2, 1), Triple, Lone}

Part(d) == CASE d \in EthernetPart -> 1 [] d \in CanPart -> 2 [] OTHER -> 3
AssignmentsOf ==
    << {Pair(p2, 1), Triple, Lone}, {Pair(p1, 2), Pair(p2, 1), Triple}, {Lone} >>

MCInit == Init /\ (Part(carl.desc) # 2 => ~root)

\* Only what operators, faults and the rest of the environment do is held back.
MCNext ==
    /\ Next
    /\ Part(carl'.desc) = Part(carl.desc)
    /\ carl'.stored # carl.stored =>
          carl'.stored.assignment \in AssignmentsOf[Part(carl.desc)] \cup {None}
    /\ Part(carl.desc) = 3 => carl'.made + restarts' <= MaxManagers
    /\ faults' + crashes' + restarts' <= IF Part(carl.desc) = 3 THEN 1 ELSE 2

MCFairSpec == MCInit /\ [][MCNext]_vars /\ Fairness
=============================================================================
