------------------------------ MODULE MCBroker ------------------------------
(* PeerMessagingBroker on small instances. *)
EXTENDS PeerMessagingBroker, TLC

\* Every session belongs to one peer.
MCOnePeer == [s \in Sessions |-> SomePeer]

\* The calls of one peer are interchangeable.
MCSymmetry == Permutations(Sessions)

\* For the safety run: once a descriptor was removed, an assignment begins only
\* before the second call of open, one that has begun goes on; and after the second
\* call a descriptor that was removed may be stored again, but not removed again.
MCSpec ==
    Init /\ [][Next /\ (everRemoved # {} /\ (\A s \in Sessions : pc[s] # "idle") =>
                         version' = version /\ descriptors \subseteq descriptors')]_vars

\* For the liveness run: the calls being interchangeable, First is the first of
\* them.  When there is a second, a descriptor is removed only if nothing is assigned,
\* CARL is not restarted, which would end both, and its client falls silent but does
\* not close its direction.  Nothing that is held back by this is subject to fairness.
First == CHOOSE s \in Sessions : TRUE
Second == {s \in Sessions \ {First} : pc'[s] # "idle"}
MCNext ==
    /\ Next
    /\ Second # {} => pc'[First] # "idle" /\ (everRemoved' = {} \/ version' = 0) /\ ~Restart
    /\ Second # {} /\ everRemoved # {} => \A p \in Peers : ~StorePeerDescriptor(p) /\ ~DeletePeerDescriptor(p)
    /\ \A s \in Second : ~DropInbound(s)

MCFairSpec == Init /\ [][MCNext]_vars /\ Fairness
=============================================================================
