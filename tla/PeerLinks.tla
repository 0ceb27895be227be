------------------------------ MODULE PeerLinks ------------------------------
(***************************************************************************)
(* What the PeerMessagingBroker promises those who send to peers through   *)
(* it: how a peer's PeerConnectionState and the entry it is sent through   *)
(* change, as long as the peer's descriptor is not removed.  The two do    *)
(* not change together.  PeerMessagingBroker implements this with its      *)
(* sessions; ClusterManager relies on it.                                  *)
(***************************************************************************)
CONSTANT Peers

VARIABLES
    online,    \* what PeerConnectionState says of each peer, see Online
    reachable, \* peers with an entry whose stream is still there
    removed    \* peers whose descriptor was removed at least once

linkVars == <<online, reachable, removed>>

\* "opening": Online, by a call that has yet to register the entry of its stream.
Online == {"no", "opening", "yes"}

LinksOK == online \in [Peers -> Online] /\ reachable \subseteq Peers /\ removed \subseteq Peers

LinksInit ==
    /\ online = [p \in Peers |-> "no"]
    /\ reachable = {}
    /\ removed = {}

\* The entry of the peer's previous stream may still be there.
GoOnline(p) ==
    /\ online[p] = "no"
    /\ online' = [online EXCEPT ![p] = "opening"]
    /\ UNCHANGED <<reachable, removed>>

Register(p) ==
    /\ online[p] = "opening"
    /\ online' = [online EXCEPT ![p] = "yes"]
    /\ reachable' = reachable \cup {p}
    /\ UNCHANGED removed

\* The call ends before it registers; Online stays.
Abandon(p) ==
    /\ online[p] = "opening"
    /\ online' = [online EXCEPT ![p] = "yes"]
    /\ UNCHANGED <<reachable, removed>>

\* The stream's other end goes, or an entry is removed, whosever it is.
Lose(p) ==
    /\ p \in reachable
    /\ reachable' = reachable \ {p}
    /\ UNCHANGED <<online, removed>>

\* Never while a call is about to register.
GoOffline(p) ==
    /\ online[p] = "yes"
    /\ online' = [online EXCEPT ![p] = "no"]
    /\ UNCHANGED <<reachable, removed>>

RemoveDescriptor(p) ==
    /\ removed' = removed \cup {p}
    /\ UNCHANGED <<online, reachable>>

\* Removing a descriptor takes the state away under the streams of its peer,
\* so that several of them may be served; nothing is promised from then on.
Disturb(p) ==
    /\ p \in removed
    /\ online' \in [Peers -> Online] /\ reachable' \subseteq Peers
    /\ \A q \in Peers \ {p} : online'[q] = online[q] /\ (q \in reachable' <=> q \in reachable)
    /\ UNCHANGED removed

Forget ==
    /\ online' = [p \in Peers |-> "no"]
    /\ reachable' = {}
    /\ UNCHANGED removed

LinksNext ==
    \/ \E p \in Peers :
        \/ GoOnline(p)
        \/ Register(p)
        \/ Abandon(p)
        \/ Lose(p)
        \/ GoOffline(p)
        \/ RemoveDescriptor(p)
        \/ Disturb(p)
    \/ Forget

LinksSpec == LinksInit /\ [][LinksNext]_linkVars
=============================================================================
