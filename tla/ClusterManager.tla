---------------------------- MODULE ClusterManager ----------------------------
(***************************************************************************)
(* CARL's ClusterManager: storing a deployment, the effect that redeploys  *)
(* clusters when a peer comes online, rolling a cluster out to its         *)
(* members, and the operations on cluster configurations and peer          *)
(* descriptors that run beside it.                                         *)
(*                                                                         *)
(* The manager is behind one mutex, held for a whole call; mgr is the call *)
(* that holds it.  The resources are behind a lock of their own, taken     *)
(* anew for every step of that call, so that everybody else can change     *)
(* them between two steps.  Of the peers' streams only what PeerLinks      *)
(* promises is known; PeerMessagingBroker implements that.                 *)
(***************************************************************************)
EXTENDS Integers, Sequences, FiniteSets

CONSTANTS
    Peers, Devices, Clusters,
    Removable,        \* peers whose descriptor operators may delete
    Topologies,       \* for each peer, the sets of devices its descriptor may list
    Configs,          \* the cluster configurations operators create
    None,
    DatabaseEnabled,  \* resources are persisted, rather than only kept in memory
    PortStart, PortEnd, \* range of the CAN server ports, end exclusive
    VpnEnabled,       \* a VPN service is asked to create a group for each cluster
    EventCapacity     \* capacity of the PeerConnectionState broadcast channel

ASSUME InputsAssumption ==
    /\ IsFiniteSet(Peers) /\ Removable \subseteq Peers
    /\ Topologies \in [Peers -> SUBSET (SUBSET Devices)]
    /\ Configs \subseteq [leader : Peers, devices : SUBSET Devices]
    /\ None \notin Peers \cup Clusters \cup Configs
    /\ DatabaseEnabled \in BOOLEAN /\ VpnEnabled \in BOOLEAN
    /\ PortStart \in Nat /\ PortEnd \in Nat /\ PortStart <= PortEnd
    /\ EventCapacity \in Nat \ {0}

\* Ports and their sums are u16: the range ends far enough below its end that
\* none of the sums of determine_can_server_ports overflows.
ASSUME WidthAssumption == PortEnd + 2 * Cardinality(Peers) < 65536

VARIABLES
    \* resource manager
    peers,        \* peers with a PeerDescriptor
    topology,     \* the devices each PeerDescriptor lists, {} without one
    config,       \* ClusterConfiguration of each cluster, or None
    deployments,  \* clusters with a ClusterDeployment
    stored,       \* ClusterAssignment in each peer's OldPeerConfiguration (volatile)
    events,       \* PeerConnectionState events the effect has not received
    \* ClusterManager
    mgr,          \* the call that holds the mutex, see Call
    counter,      \* can_server_port_counter
    waiting,      \* the effect's peer while it waits for the mutex, or None
    alive,        \* the effect's task has not panicked
    \* peers' streams
    online,       \* PeerConnectionState, see PeerLinks
    reachable,    \* peers the broker can send to
    \* history, read by no guard
    edited,       \* clusters configured anew since their peers were checked
    moved,        \* peers given a device that a deployment was already using
    failed,       \* why the last attempt to deploy each cluster was given up, or "no"
    lagged        \* the effect's channel has overflown

resources == <<peers, topology, config, deployments>>
history   == <<edited, moved, failed, lagged>>
links     == <<online, reachable>>
vars == <<resources, stored, events, mgr, counter, waiting, alive, links, history>>

----------------------------------------------------------------------------
\* What becomes of a peer's streams once its descriptor was removed is left out.
Links == INSTANCE PeerLinks WITH removed <- {}

Outcome == {"no", "refused", "unreachable", "cancelled"}

\* CAN server ports of a cluster's members.
PortMap == UNION {[members -> PortStart .. PortEnd - 1] : members \in SUBSET Peers}

Assignment == [cluster : Clusters, leader : Peers,
               port : PortMap]

Call == [pc : {"idle", "insert", "check", "config", "members", "states", "assign"},
         by : {"grpc", "effect"},
         cluster : Clusters \cup {None},
         queue   : SUBSET Clusters,          \* clusters the effect deploys after this one
         config  : Configs \cup {None},      \* the configuration read
         port    : PortMap,
         todo    : SUBSET Peers]             \* members still to be read, or assigned

NoPorts == [p \in {} |-> 0]
Idle == [pc |-> "idle", by |-> "grpc", cluster |-> None, queue |-> {},
         config |-> None, port |-> NoPorts, todo |-> {}]

\* Types; the CAN server ports of the stored assignments stay within the
\* configured range, also when can_server_port_counter wraps around.
TypeOK ==
    /\ peers \subseteq Peers
    /\ topology \in [Peers -> SUBSET Devices]
    /\ config \in [Clusters -> Configs \cup {None}]
    /\ deployments \subseteq Clusters
    /\ stored \in [Peers -> Assignment \cup {None}]
    /\ events \in Seq([peer : Peers, online : BOOLEAN]) /\ Len(events) <= EventCapacity
    /\ mgr \in Call
    /\ counter \in PortStart .. PortEnd
    /\ waiting \in Peers \cup {None}
    /\ alive \in BOOLEAN
    /\ Links!LinksOK
    /\ edited \subseteq Clusters /\ moved \subseteq Peers
    /\ failed \in [Clusters -> Outcome]
    /\ lagged \in BOOLEAN

Init ==
    /\ peers = {}
    /\ topology = [p \in Peers |-> {}]
    /\ config = [c \in Clusters |-> None]
    /\ deployments = {}
    /\ stored = [p \in Peers |-> None]
    /\ events = <<>>
    /\ mgr = Idle
    /\ counter = PortStart
    /\ waiting = None
    /\ alive = TRUE
    /\ Links!LinksInit
    /\ edited = {} /\ moved = {} /\ lagged = FALSE
    /\ failed = [c \in Clusters |-> "no"]

----------------------------------------------------------------------------
(* What a reader of the resources sees.                                     *)

\* The assignment transaction keeps the lock from its first member on.
LockFree == ~ (mgr.pc = "assign" /\ mgr.todo # DOMAIN mgr.port)

ListDeployedClusters == {c \in deployments : config[c] # None}

ListClusterPeers(c) == {p \in peers : topology[p] \cap config[c].devices # {}}

\* list_peer_member_states attributes each device in use to one of the
\* deployed clusters that list it, whichever the map kept.
DeployedDevices ==
    LET clusters == ListDeployedClusters
        used     == UNION {config[c].devices : c \in clusters}
    IN  {f \in [used -> clusters] : \A d \in used : d \in config[f[d]].devices}

\* Its assertion that the devices of a peer belong to one cluster.
AssertionFails(f) ==
    \E p \in peers : \E d, e \in topology[p] \cap DOMAIN f : f[d] # f[e]

BlockedPeers(f) == {p \in peers : topology[p] \cap DOMAIN f # {}}

BlockedByAnother(f, c) ==
    {p \in ListClusterPeers(c) : \E d \in topology[p] \cap DOMAIN f : f[d] # c}

Online(p) == online[p] # "no"
OfflinePeers(c) == {p \in ListClusterPeers(c) : ~ Online(p)}

Uses(c, p) == config[c] # None /\ topology[p] \cap config[c].devices # {}

----------------------------------------------------------------------------
(* How a call ends.                                                         *)

\* An error is logged; the effect gives up its other clusters with this one.
GiveUp(why) ==
    /\ mgr' = Idle
    /\ failed' = [c \in Clusters |-> IF c \in {mgr.cluster} \cup mgr.queue
                                    THEN why ELSE failed[c]]
    /\ UNCHANGED <<edited, moved, lagged>>

\* A panic ends the gRPC call, but also the effect's task, for good.
Panic ==
    /\ GiveUp("refused")
    /\ alive' = (alive /\ mgr.by = "grpc")

\* The effect goes on with the next cluster.
Proceed ==
    IF mgr.queue = {}
    THEN mgr' = Idle
    ELSE \E c \in mgr.queue :
            mgr' = [Idle EXCEPT !.pc = "check", !.by = "effect", !.cluster = c,
                                !.queue = mgr.queue \ {c}]

----------------------------------------------------------------------------
(* store_cluster_deployment.                                                *)

\* Mutant: peers blocked by another deployment are not looked for.
StoreUnchecked(c) ==
    /\ mgr = Idle /\ config[c] # None
    /\ mgr' = [Idle EXCEPT !.pc = "insert", !.cluster = c]
    /\ edited' = edited \ {c}
    /\ UNCHANGED <<resources, stored, events, counter, waiting, alive, links,
                   moved, failed, lagged>>

\* A call for an unknown cluster, or one whose peers another cluster blocks,
\* returns its error and changes nothing; neither does a panic here.
StoreClusterDeployment(c) ==
    /\ mgr = Idle /\ config[c] # None
    /\ \E f \in DeployedDevices :
        /\ ~ AssertionFails(f)
        /\ BlockedByAnother(f, c) = {}
        /\ IF ListClusterPeers(c) \cap BlockedPeers(f) = {}
           THEN /\ mgr' = [Idle EXCEPT !.pc = "insert", !.cluster = c]
                /\ edited' = edited \ {c}
           ELSE /\ mgr' = [Idle EXCEPT !.pc = "check", !.cluster = c]
                /\ UNCHANGED edited
    /\ UNCHANGED <<resources, stored, events, counter, waiting, alive, links,
                   moved, failed, lagged>>

\* Mutant: a stored deployment waits for the next peer to come online.
InsertWithoutDeploying ==
    /\ mgr.pc = "insert"
    /\ deployments' = deployments \cup {mgr.cluster}
    /\ mgr' = Idle
    /\ UNCHANGED <<peers, topology, config, stored, events, counter, waiting, alive,
                   links, history>>

\* The configuration may be gone by now; the deployment is stored all the same.
InsertClusterDeployment ==
    /\ mgr.pc = "insert"
    /\ deployments' = deployments \cup {mgr.cluster}
    /\ mgr' = [mgr EXCEPT !.pc = "check"]
    /\ UNCHANGED <<peers, topology, config, stored, events, counter, waiting, alive,
                   links, history>>

----------------------------------------------------------------------------
(* deploy_cluster_if_all_peers_available and deploy_cluster.                *)

CheckClusterDeployable ==
    LET c == mgr.cluster IN
    /\ mgr.pc = "check"
    /\ IF config[c] = None
       THEN GiveUp("refused") /\ UNCHANGED alive
       ELSE \E f \in DeployedDevices :
              IF AssertionFails(f)
              THEN Panic
              ELSE /\ IF BlockedByAnother(f, c) = {} /\ OfflinePeers(c) = {}
                      THEN mgr' = [mgr EXCEPT !.pc = "config"]
                      ELSE Proceed
                   /\ failed' = [failed EXCEPT ![c] = "no"]
                   /\ UNCHANGED <<alive, edited, moved, lagged>>
    /\ UNCHANGED <<resources, stored, events, counter, waiting, links>>

GetClusterConfiguration ==
    /\ mgr.pc = "config"
    /\ IF config[mgr.cluster] = None
       THEN GiveUp("refused")
       ELSE /\ mgr' = [mgr EXCEPT !.pc = "members", !.config = config[mgr.cluster]]
            /\ UNCHANGED history
    /\ UNCHANGED <<resources, stored, events, counter, waiting, alive, links>>

\* Each device of the configuration, with a peer that lists it.
DeviceOwners(k) ==
    {owner \in [k.devices -> peers] : \A d \in k.devices : d \in topology[owner[d]]}

\* Mutant: the counter is not set back at the end of the range.
DeterminePortsUnwrapped(n) == counter

\* The first of n consecutive ports.
DetermineCanServerPorts(n) == IF counter + n >= PortEnd THEN PortStart ELSE counter

\* The members are the leader, with or without devices, and the devices' owners.
DetermineMemberInterfaceMapping ==
    /\ mgr.pc = "members"
    /\ \/ /\ \/ VpnEnabled     \* its service may refuse to create the cluster
             \/ DeviceOwners(mgr.config) = {}
          /\ GiveUp("refused")
          /\ UNCHANGED counter
       \/ \E owner \in DeviceOwners(mgr.config) :
            LET members == {mgr.config.leader} \cup {owner[d] : d \in mgr.config.devices}
                n       == Cardinality(members)
                first   == DetermineCanServerPorts(n)
            IN  IF PortStart + n >= PortEnd
                THEN GiveUp("refused") /\ UNCHANGED counter
                ELSE /\ \E port \in [members -> first .. first + n - 1] :
                          /\ \A p, q \in members : port[p] = port[q] => p = q
                          /\ mgr' = [mgr EXCEPT !.pc = "states", !.port = port,
                                                !.todo = members]
                     /\ counter' = first + n
                     /\ UNCHANGED history
    /\ UNCHANGED <<resources, stored, events, waiting, alive, links>>

GetPeerConnectionState(p) ==
    /\ mgr.pc = "states" /\ p \in mgr.todo
    /\ \/ ~ Online(p) /\ GiveUp("unreachable")
       \/ /\ Online(p)
          /\ mgr' = IF mgr.todo = {p}
                    THEN [mgr EXCEPT !.pc = "assign", !.todo = DOMAIN mgr.port]
                    ELSE [mgr EXCEPT !.todo = @ \ {p}]
          /\ UNCHANGED history
    /\ UNCHANGED <<resources, stored, events, counter, waiting, alive, links>>

AssignmentOf(call) ==
    [cluster |-> call.cluster, leader |-> call.config.leader, port |-> call.port]

\* Mutant: the assignment of each member stays, whatever becomes of the others.
AssignWithoutTransaction(p) ==
    /\ mgr.pc = "assign" /\ p \in mgr.todo
    /\ \/ /\ p \notin peers \cap reachable
          /\ GiveUp("unreachable")
          /\ UNCHANGED stored
       \/ /\ p \in peers \cap reachable
          /\ stored' = [stored EXCEPT ![p] = AssignmentOf(mgr)]
          /\ IF mgr.todo = {p} THEN Proceed ELSE mgr' = [mgr EXCEPT !.todo = @ \ {p}]
          /\ UNCHANGED history
    /\ UNCHANGED <<resources, events, counter, waiting, alive, links>>

\* One transaction for all members: the assignment is sent to each in turn and
\* stored for all of them after the last, or for none.
AssignCluster(p) ==
    /\ mgr.pc = "assign" /\ p \in mgr.todo
    /\ \/ /\ p \notin peers \cap reachable
          /\ GiveUp("unreachable")
          /\ UNCHANGED stored
       \/ /\ p \in peers \cap reachable
          /\ IF mgr.todo = {p}
             THEN /\ stored' = [q \in Peers |-> IF q \in DOMAIN mgr.port
                                              THEN AssignmentOf(mgr) ELSE stored[q]]
                  /\ Proceed
             ELSE /\ mgr' = [mgr EXCEPT !.todo = @ \ {p}]
                  /\ UNCHANGED stored
          /\ UNCHANGED history
    /\ UNCHANGED <<resources, events, counter, waiting, alive, links>>

\* The gRPC server drops a call whose client is gone, and with it the mutex
\* and the transaction.
CancelCall ==
    /\ mgr # Idle /\ mgr.by = "grpc"
    /\ GiveUp("cancelled")
    /\ UNCHANGED <<resources, stored, events, counter, waiting, alive, links>>

----------------------------------------------------------------------------
(* schedule_redeploying_clusters_when_all_peers_become_available.           *)

EffectReceive ==
    /\ alive /\ waiting = None /\ ~ (mgr # Idle /\ mgr.by = "effect")
    /\ events # <<>>
    /\ events' = Tail(events)
    /\ waiting' = IF Head(events).online THEN Head(events).peer ELSE None
    /\ UNCHANGED <<resources, stored, mgr, counter, alive, links, history>>

DeployAllClustersContainingNewlyAvailablePeer ==
    LET clusters == {c \in ListDeployedClusters :
                        waiting \in peers /\ topology[waiting] \cap config[c].devices # {}}
    IN  /\ waiting # None /\ mgr = Idle
        /\ IF clusters = {}
           THEN UNCHANGED mgr
           ELSE \E c \in clusters :
                   mgr' = [Idle EXCEPT !.pc = "check", !.by = "effect", !.cluster = c,
                                       !.queue = clusters \ {c}]
        /\ waiting' = None
        /\ UNCHANGED <<resources, stored, events, counter, alive, links, history>>

----------------------------------------------------------------------------
(* What operators do beside it.                                             *)

BeingDeployed(c) == mgr # Idle /\ mgr.cluster = c
InUse(c) == c \in deployments \/ BeingDeployed(c)

CreateClusterConfiguration(c, k) ==
    /\ LockFree
    /\ config' = [config EXCEPT ![c] = k]
    /\ edited' = IF InUse(c) /\ config[c] # k THEN edited \cup {c} ELSE edited
    /\ UNCHANGED <<peers, topology, deployments, stored, events, mgr, counter, waiting,
                   alive, links, moved, failed, lagged>>

\* Mutant: the configuration of a deployed cluster can be deleted.
DeleteDeployedConfiguration(c) ==
    /\ LockFree /\ config[c] # None
    /\ config' = [config EXCEPT ![c] = None]
    /\ edited' = IF BeingDeployed(c) THEN edited \cup {c} ELSE edited
    /\ UNCHANGED <<peers, topology, deployments, stored, events, mgr, counter, waiting,
                   alive, links, moved, failed, lagged>>

DeleteClusterConfiguration(c) ==
    /\ LockFree /\ config[c] # None
    /\ c \notin deployments
    /\ config' = [config EXCEPT ![c] = None]
    /\ edited' = IF BeingDeployed(c) THEN edited \cup {c} ELSE edited
    /\ UNCHANGED <<peers, topology, deployments, stored, events, mgr, counter, waiting,
                   alive, links, moved, failed, lagged>>

\* The members keep their assignments.
DeleteClusterDeployment(c) ==
    /\ LockFree /\ c \in deployments
    /\ deployments' = deployments \ {c}
    /\ UNCHANGED <<peers, topology, config, stored, events, mgr, counter, waiting,
                   alive, links, history>>

StorePeerDescriptor(p, devices) ==
    /\ LockFree
    /\ peers' = peers \cup {p}
    /\ topology' = [topology EXCEPT ![p] = devices]
    /\ moved' = IF \E c \in Clusters : /\ InUse(c) /\ config[c] # None
                                      /\ (devices \ topology[p]) \cap config[c].devices # {}
                THEN moved \cup {p} ELSE moved
    /\ UNCHANGED <<config, deployments, stored, events, mgr, counter, waiting, alive,
                   links, edited, failed, lagged>>

DeletePeerDescriptor(p) ==
    /\ LockFree /\ p \in peers \cap Removable
    /\ \E f \in DeployedDevices : ~ AssertionFails(f) /\ p \notin BlockedPeers(f)
    /\ peers' = peers \ {p}
    /\ topology' = [topology EXCEPT ![p] = {}]
    /\ moved' = moved \ {p}
    /\ UNCHANGED <<config, deployments, stored, events, mgr, counter, waiting, alive,
                   links, edited, failed, lagged>>

----------------------------------------------------------------------------
(* The peers' streams, as PeerMessagingBroker serves them.                  *)

\* tokio broadcast: a full channel forgets its oldest event.
Notify(p, up) ==
    LET full == Len(events) = EventCapacity IN
    /\ events' = Append(IF full THEN Tail(events) ELSE events, [peer |-> p, online |-> up])
    /\ lagged' = (lagged \/ full)

UpdatePeerConnectionState(p) ==
    /\ LockFree /\ p \in peers
    /\ Links!GoOnline(p)
    /\ Notify(p, TRUE)
    /\ UNCHANGED <<resources, stored, mgr, counter, waiting, alive, edited, moved, failed>>

RegisterPeer(p) ==
    /\ Links!Register(p)
    /\ UNCHANGED <<resources, stored, events, mgr, counter, waiting, alive, history>>

CancelOpen(p) ==
    /\ Links!Abandon(p)
    /\ UNCHANGED <<resources, stored, events, mgr, counter, waiting, alive, history>>

\* Its client is gone, or its entry was removed.
StreamBreaks(p) ==
    /\ Links!Lose(p)
    /\ UNCHANGED <<resources, stored, events, mgr, counter, waiting, alive, history>>

RemovePeer(p) ==
    /\ LockFree
    /\ Links!GoOffline(p)
    /\ Notify(p, FALSE)
    /\ UNCHANGED <<resources, stored, mgr, counter, waiting, alive, edited, moved, failed>>

Restart ==
    /\ stored' = [p \in Peers |-> None]
    /\ events' = <<>>
    /\ mgr' = Idle
    /\ counter' = PortStart
    /\ waiting' = None
    /\ alive' = TRUE
    /\ Links!Forget
    /\ IF DatabaseEnabled
       THEN UNCHANGED <<resources, edited, moved>>
       ELSE /\ peers' = {} /\ topology' = [p \in Peers |-> {}]
            /\ config' = [c \in Clusters |-> None] /\ deployments' = {}
            /\ edited' = {} /\ moved' = {}
    /\ failed' = [c \in Clusters |-> "no"]
    /\ lagged' = FALSE

----------------------------------------------------------------------------
Manager ==
    \/ InsertClusterDeployment
    \/ CheckClusterDeployable
    \/ GetClusterConfiguration
    \/ DetermineMemberInterfaceMapping
    \/ \E p \in Peers : GetPeerConnectionState(p) \/ AssignCluster(p)

Operator ==
    \/ \E c \in Clusters :
        \/ StoreClusterDeployment(c)
        \/ \E k \in Configs : CreateClusterConfiguration(c, k)
        \/ DeleteClusterConfiguration(c)
        \/ DeleteClusterDeployment(c)
    \/ \E p \in Peers :
        \/ \E devices \in Topologies[p] : StorePeerDescriptor(p, devices)
        \/ DeletePeerDescriptor(p)

Stream ==
    \E p \in Peers :
        \/ UpdatePeerConnectionState(p)
        \/ RegisterPeer(p)
        \/ CancelOpen(p)
        \/ StreamBreaks(p)
        \/ RemovePeer(p)

Next ==
    \/ Manager
    \/ CancelCall
    \/ EffectReceive
    \/ DeployAllClustersContainingNewlyAvailablePeer
    \/ Operator
    \/ Stream
    \/ Restart

Spec == Init /\ [][Next]_vars

\* Tokio runs every task that can run, and its mutex is fair: the effect gets
\* it although gRPC calls keep taking it.
Fairness ==
    /\ WF_vars(Manager)
    /\ WF_vars(EffectReceive)
    /\ SF_vars(DeployAllClustersContainingNewlyAvailablePeer)
    /\ \A p \in Peers : WF_vars(RegisterPeer(p))

FairSpec == Spec /\ Fairness

----------------------------------------------------------------------------
(* Safety.                                                                  *)

\* No peer is used by two deployments.  store_cluster_deployment looks for
\* blocked peers in one access to the resources and stores the deployment in
\* another; what lies between is safe as long as nobody reconfigures a cluster,
\* or gives a peer one of its devices, while it is being deployed or deployed.
DeployedClustersDisjoint ==
    \A c1, c2 \in deployments \ edited : \A p \in Peers \ moved :
        Uses(c1, p) /\ Uses(c2, p) => c1 = c2

\* A deployed cluster has a configuration: delete_cluster_configuration refuses
\* as long as there is a deployment, and only a call of it between
\* store_cluster_deployment's check and its insert, or a cluster that went
\* through one, leaves a deployment on its own.
DeployedClustersConfigured == \A c \in deployments \ edited : config[c] # None

\* Two peers that take each other for members of their cluster agree on that
\* cluster, its leader and all ports: a deployment that fails half-way is
\* stored for none of its members.
MutualMembersAgree ==
    \A p, q \in Peers :
        /\ stored[p] # None /\ stored[q] # None
        /\ q \in DOMAIN stored[p].port /\ p \in DOMAIN stored[q].port
        => stored[p] = stored[q]

----------------------------------------------------------------------------
(* Liveness.                                                                *)

Members(c) == {config[c].leader} \cup ListClusterPeers(c)

\* Deployed, nothing changed since, no other deployment in its way, and every
\* member can be sent to.
Ready(c) ==
    /\ c \in deployments \ edited /\ config[c] # None
    /\ DeviceOwners(config[c]) # {}
    /\ \A p \in Members(c) :
        /\ p \in (peers \cap reachable) \ moved /\ online[p] = "yes"
        /\ \A other \in deployments \ {c} : ~ Uses(other, p)
    /\ alive /\ ~ lagged

Assigned(c) ==
    \A p \in Members(c) : stored[p] # None /\ stored[p].cluster = c

\* No wake-up is lost between storing a deployment, which deploys at once if
\* all peers are online, and the effect, which deploys when the last of them
\* comes online: a cluster does not stay ready for ever without having been
\* assigned to its members, unless the last attempt ended in an error.
NoLostWakeup ==
    \A c \in Clusters : []<> ~ (Ready(c) /\ ~ Assigned(c) /\ failed[c] = "no")
=============================================================================
