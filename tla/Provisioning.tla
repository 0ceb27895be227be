---------------------------- MODULE Provisioning ----------------------------
(***************************************************************************)
(* How a peer comes into being and goes: CARL stores and deletes its       *)
(* descriptor, generates a setup for it (a NetBird setup key and an OIDC   *)
(* client), EDGAR's setup uses that on a host, and deploying a cluster     *)
(* joins the hosts of its peers in the VPN.  Three systems hold a part of  *)
(* this (the store, NetBird, the OIDC provider) and no transaction spans   *)
(* them.                                                                   *)
(*                                                                         *)
(* store, delete and undeploy run inside a write transaction of the store, *)
(* generate under its read lock, deploy under the ClusterManager's mutex   *)
(* and, while it talks to NetBird, no lock of the store.                   *)
(*                                                                         *)
(* A call is dropped between any two of its requests when its gRPC client  *)
(* goes, and all of them end when CARL does: the transaction is rolled     *)
(* back, what NetBird and the provider were asked for stays.  A request    *)
(* under way at that moment takes effect before the call ends or never.    *)
(***************************************************************************)
EXTENDS NetbirdManagementClient

CONSTANTS
    Hosts,      \* machines EDGAR is set up on
    NoSetup,
    MaxCalls,   \* bound on the calls of a behaviour
    MaxSetups,  \* bound on the setups run
    MaxRestarts \* bound on the restarts of EDGAR's service by systemd

ASSUME ProvisioningAssumption == {MaxCalls, MaxSetups, MaxRestarts} \subseteq Nat

VARIABLES
    descriptors, \* peers with a stored PeerDescriptor
    deployments, \* clusters with a stored ClusterDeployment
    clients,     \* OIDC provider: [peer, id]
    handed,      \* setups that operators have been given: [peer, key, client]
    pending,     \* clusters to be deployed again because a member came online
    hosts,       \* per host: the setup run on it and what it has changed
    started,     \* calls begun
    runs,        \* setups run and services restarted
    \* history
    last,        \* per peer, the setup of the generate that ended last, if it succeeded
    overtaken,   \* clusters undeployed while a deployment of them was running
    hurt         \* clusters whose deployment a failed request or a drop has cut short
                 \* since they were deployed last

prVars == <<descriptors, deployments, clients, handed, pending, hosts, started, runs,
            last, overtaken, hurt>>
vars == <<nbVars, prVars>>

\* task: the next task of the setup that runs; conf: the PeerId in the
\* configuration file; vpn: the NetBird peer the machine believes to be;
\* service: EDGAR's service has been started; online: the peer as which it is
\* connected to CARL.
FreshHost == [task |-> "none", setup |-> NoSetup, installed |-> FALSE, conf |-> NoName,
              vpn |-> 0, service |-> FALSE, online |-> NoName]

Init ==
    /\ NBInit
    /\ descriptors = {} /\ deployments = {} /\ clients = {} /\ handed = {} /\ pending = {}
    /\ hosts = [h \in Hosts |-> FreshHost]
    /\ started = 0 /\ runs = [setups |-> 0, restarts |-> 0]
    /\ last = [p \in Peers |-> NoSetup] /\ overtaken = {} /\ hurt = {}

\* The store's lock, held by a call from its first access until it ends, and the
\* ClusterManager's mutex.
Writing(c)   == calls[c].op \in {"store", "delete", "undeploy"} /\ calls[c].pc # "waiting"
WriteLocked  == \E c \in Calls : Writing(c)
ReadLocked   == \E c \in Calls : calls[c].op = "generate"
\* As a bug would have it: readers do not keep writers out.
WritersOnly  == ~WriteLocked
LockFree     == ~WriteLocked /\ ~ReadLocked
MutexFree    == \A c \in Calls : calls[c].op # "deploy"
Online(p)    == \E h \in Hosts : hosts[h].online = p
Deployable(k) == \A p \in Members[k] : p \in descriptors /\ Online(p)

\* Names of groups, keys and members refer to what exists, ids are unique and
\* nobody holds the store for writing beside anybody else.
TypeOK ==
    /\ NBTypeOK
    /\ descriptors \subseteq Peers /\ deployments \subseteq Clusters
    /\ \A x \in clients : x.peer \in Peers /\ x.id \in 1 .. fresh - 1
    /\ \A h \in Hosts : hosts[h].conf \in Peers \cup {NoName} /\ hosts[h].vpn \in 0 .. fresh - 1
    /\ \A c, d \in Calls : c # d =>
        /\ Writing(c) => ~Writing(d) /\ calls[d].op # "generate"
        /\ calls[c].op = "deploy" => calls[d].op # "deploy"

----------------------------------------------------------------------------
Called(op, n, pc, todo) == [Idle EXCEPT !.op = op, !.on = n, !.pc = pc, !.todo = todo,
                                        !.client = TRUE, !.since = faults]

\* A call takes the first free slot: slots are alike.
Free(c) == calls[c] = Idle /\ c = CHOOSE d \in Calls : calls[d] = Idle
Begin(c, call) ==
    /\ Free(c) /\ started < MaxCalls
    /\ calls' = [calls EXCEPT ![c] = call]
    /\ started' = started + 1

\* store_peer_descriptor: only a new peer is created in the VPN.
StorePeerDescriptor(c, p) ==
    /\ LockFree
    /\ Begin(c, Called("store", p, IF p \in descriptors THEN "commit" ELSE "createGroup", {}))
    /\ UNCHANGED <<serverVars, faults, unclean, descriptors, deployments, clients, handed,
                   pending, hosts, runs, last, overtaken, hurt>>

\* delete_peer_descriptor, unless a deployed cluster blocks the peer.
DeletePeerDescriptor(c, p) ==
    /\ LockFree /\ p \in descriptors
    /\ \A k \in deployments : p \notin Members[k]
    /\ Begin(c, Called("delete", p, "listClients", {}))
    /\ last' = [last EXCEPT ![p] = NoSetup]
    /\ UNCHANGED <<serverVars, faults, unclean, descriptors, deployments, clients, handed,
                   pending, hosts, runs, overtaken, hurt>>

\* generate_peer_setup reads the store, so that several run side by side.
GeneratePeerSetup(c, p) ==
    /\ ~WriteLocked /\ p \in descriptors
    /\ Begin(c, Called("generate", p, "getGroup", {}))
    /\ UNCHANGED <<serverVars, faults, unclean, descriptors, deployments, clients, handed,
                   pending, hosts, runs, last, overtaken, hurt>>

\* store_cluster_deployment: stored, then deployed if all peers are online,
\* under the mutex all the time.
StoreClusterDeployment(c, k) ==
    /\ LockFree /\ MutexFree
    /\ k \notin deployments /\ Members[k] \subseteq descriptors
    /\ Free(c) /\ started < MaxCalls
    /\ deployments' = deployments \cup {k}
    /\ IF Deployable(k)
       THEN Begin(c, Called("deploy", k, "getPolicy", Members[k]))
       ELSE started' = started + 1 /\ UNCHANGED calls
    /\ UNCHANGED <<serverVars, faults, unclean, descriptors, clients, handed, pending, hosts,
                   runs, last, overtaken, hurt>>

\* A member came online: deploy_all_clusters_containing_newly_available_peer.
DeployPending(c, k) ==
    /\ Free(c)
    /\ ~WriteLocked /\ MutexFree /\ k \in pending
    /\ pending' = pending \ {k}
    /\ IF k \in deployments /\ Deployable(k)
       THEN calls' = [calls EXCEPT ![c] =
                      [Called("deploy", k, "getPolicy", Members[k]) EXCEPT !.client = FALSE]]
       ELSE UNCHANGED calls
    /\ UNCHANGED <<serverVars, faults, unclean, descriptors, deployments, clients, handed,
                   hosts, started, runs, last, overtaken, hurt>>

\* delete_cluster_deployment: the facade passes the mutex to copy the VPN
\* client and only then waits for the store.
RequestUndeploy(c, k) ==
    /\ MutexFree /\ k \in deployments
    /\ Begin(c, Called("undeploy", k, "waiting", {}))
    /\ UNCHANGED <<serverVars, faults, unclean, descriptors, deployments, clients, handed,
                   pending, hosts, runs, last, overtaken, hurt>>

DeleteClusterDeployment(c) ==
    /\ At(c, {"undeploy"}, "waiting") /\ LockFree
    /\ Goto(c, IF calls[c].on \in deployments THEN "getPolicy" ELSE "failed")
    /\ overtaken' = IF MutexFree THEN overtaken ELSE overtaken \cup {calls[c].on}
    /\ UNCHANGED <<serverVars, faults, unclean, descriptors, deployments, clients, handed,
                   pending, hosts, started, runs, last, hurt>>

----------------------------------------------------------------------------
\* As a bug would have it: a failed insertion just fails.
InsertWithoutUndo(c) ==
    /\ At(c, {"store"}, "insert")
    /\ \E o \in ReadOutcomes :
        /\ Charge(o)
        /\ Goto(c, IF o = "ok" THEN "commit" ELSE "failed")
    /\ UNCHANGED <<serverVars, unclean, prVars>>

\* store: after the group the descriptor is inserted; when that fails the VPN
\* peer is deleted again, whatever comes of it.
InsertDescriptor(c) ==
    /\ At(c, {"store"}, "insert")
    /\ \E o \in ReadOutcomes :
        /\ Charge(o)
        /\ calls' = [calls EXCEPT ![c].pc = IF o = "ok" THEN "commit" ELSE "deletePeer",
                                  ![c].todo = IF o = "ok" THEN {} ELSE {calls[c].on}]
    /\ UNCHANGED <<serverVars, unclean, prVars>>

\* delete_client_by_resource_id: lists the clients and deletes those of this
\* resource, all of them, before a failed deletion counts.
ListClients(c) ==
    /\ \/ At(c, {"delete"}, "listClients")
       \/ At(c, {"generate"}, "vpnDone")
    /\ \E o \in ReadOutcomes :
        /\ Charge(o)
        /\ IF o = "ok"
           THEN GotoWith(c, "deleteClients",
                         {x.id : x \in {y \in clients : y.peer = calls[c].on}}, calls[c].got)
           ELSE Goto(c, "failed")
    /\ UNCHANGED <<serverVars, unclean, prVars>>

DeleteClients(c) ==
    /\ At(c, {"delete", "generate"}, "deleteClients")
    /\ IF calls[c].seen = {}
       THEN /\ Goto(c, CASE calls[c].todo # {}     -> "failed"
                         [] calls[c].todo = {} /\ calls[c].op = "delete" -> "deletePeer"
                         [] OTHER -> "register")
            /\ UNCHANGED <<faults, clients>>
       ELSE \E i \in calls[c].seen, o \in DeleteOutcomes :
            /\ Charge(o)
            /\ clients' = Deleted(clients, i, o)
            /\ calls' = [calls EXCEPT ![c].seen = @ \ {i},
                                      ![c].todo = IF o = "ok" /\ \E x \in clients : x.id = i
                                                  THEN @ ELSE {calls[c].on}]
    /\ UNCHANGED <<serverVars, unclean, descriptors, deployments, handed, pending, hosts,
                   started, runs, last, overtaken, hurt>>

\* As a bug would have it: the credentials of an older client are handed out.
RegisterOnce(c) ==
    /\ At(c, {"generate"}, "register")
    /\ \E i \in {x.client : x \in handed} \cup {fresh} :
        LET setup == [peer |-> calls[c].on, key |-> calls[c].key, client |-> i] IN
        /\ clients' = clients \cup {[peer |-> calls[c].on, id |-> fresh]}
        /\ fresh' = fresh + 1
        /\ handed' = handed \cup {setup}
        /\ last' = [last EXCEPT ![calls[c].on] = setup]
    /\ calls' = [calls EXCEPT ![c] = Idle]
    /\ UNCHANGED <<groups, policies, keys, machines, faults, unclean, descriptors, deployments,
                   pending, hosts, started, runs, overtaken, hurt>>

\* register_new_client_for_user, the last request of generate_peer_setup.
RegisterClient(c) ==
    /\ At(c, {"generate"}, "register")
    /\ \E o \in DeleteOutcomes :
        LET setup == [peer |-> calls[c].on, key |-> calls[c].key, client |-> fresh] IN
        /\ Charge(o)
        /\ clients' = IF o = "refused" THEN clients
                      ELSE clients \cup {[peer |-> calls[c].on, id |-> fresh]}
        /\ fresh' = IF o = "refused" THEN fresh ELSE fresh + 1
        /\ handed' = IF o = "ok" THEN handed \cup {setup} ELSE handed
        /\ last' = [last EXCEPT ![calls[c].on] = IF o = "ok" THEN setup ELSE NoSetup]
    /\ calls' = [calls EXCEPT ![c] = Idle]
    /\ UNCHANGED <<groups, policies, keys, machines, unclean, descriptors, deployments, pending,
                   hosts, started, runs, overtaken, hurt>>

\* The write transaction is committed, or the database refuses.
Commit(c) ==
    /\ \/ At(c, {"store"}, "commit")
       \/ At(c, {"delete", "undeploy"}, "vpnDone")
    /\ \E o \in ReadOutcomes :
        LET op == IF o = "ok" THEN calls[c].op ELSE "rolled back" IN
        /\ Charge(o)
        /\ descriptors' = CASE op = "store"  -> descriptors \cup {calls[c].on}
                            [] op = "delete" -> descriptors \ {calls[c].on}
                            [] OTHER         -> descriptors
        /\ deployments' = IF op = "undeploy" THEN deployments \ {calls[c].on} ELSE deployments
        /\ unclean' = IF o # "ok" THEN unclean \cup {calls[c].on} ELSE unclean
        /\ hurt' = IF o # "ok" /\ calls[c].op = "undeploy" THEN hurt \cup {calls[c].on} ELSE hurt
    /\ calls' = [calls EXCEPT ![c] = Idle]
    /\ UNCHANGED <<serverVars, clients, handed, pending, hosts, started, runs, last, overtaken>>

\* The group that a store has created is there, and the descriptor is not.
GroupMade(c) ==
    /\ calls[c].op = "store" /\ calls[c].on \notin descriptors
    /\ calls[c].pc \notin {"createGroup", "vpnDone"}
    /\ calls[c].pc = "failed" => calls[c].todo # {}

\* An error ends the call, and with it the transaction; a store that could not
\* undo its group, and one that could, end here too.
Fail(c) ==
    /\ \/ calls[c].pc = "failed"
       \/ At(c, {"store"}, "vpnDone")
    /\ calls' = [calls EXCEPT ![c] = Idle]
    /\ unclean' = IF GroupMade(c) THEN unclean \cup {calls[c].on} ELSE unclean
    /\ last' = IF calls[c].op = "generate" THEN [last EXCEPT ![calls[c].on] = NoSetup] ELSE last
    /\ hurt' = IF calls[c].op \in {"deploy", "undeploy"} /\ faults > calls[c].since
               THEN hurt \cup {calls[c].on} ELSE hurt
    /\ UNCHANGED <<serverVars, faults, descriptors, deployments, clients, handed, pending,
                   hosts, started, runs, overtaken>>

\* The VPN is set up; the members are assigned in a transaction of their own,
\* which is ClusterManager's part.
Assign(c) ==
    /\ At(c, {"deploy"}, "vpnDone") /\ LockFree
    /\ calls' = [calls EXCEPT ![c] = Idle]
    /\ hurt' = hurt \ ({calls[c].on} \ overtaken)
    /\ UNCHANGED <<serverVars, faults, unclean, descriptors, deployments, clients, handed,
                   pending, hosts, started, runs, last, overtaken>>

----------------------------------------------------------------------------
\* Calls that end where they are: locks are released, transactions rolled back.
Drop(dropped) ==
    /\ faults < MaxFaults
    /\ faults' = faults + 1
    /\ calls' = [c \in Calls |-> IF c \in dropped THEN Idle ELSE calls[c]]
    /\ unclean' = unclean \cup {calls[c].on : c \in {d \in dropped : GroupMade(d)}}
    /\ last' = [p \in Peers |-> IF \E c \in dropped : calls[c].op = "generate" /\ calls[c].on = p
                               THEN NoSetup ELSE last[p]]
    /\ UNCHANGED <<serverVars, descriptors, deployments, clients, handed, started, runs,
                   overtaken>>

\* tonic drops the future of a call whose client is gone.
DropCall(c) ==
    /\ calls[c].client
    /\ Drop({c})
    /\ hurt' = IF calls[c].op \in {"deploy", "undeploy"} THEN hurt \cup {calls[c].on} ELSE hurt
    /\ UNCHANGED <<pending, hosts>>

\* CARL goes down and comes up again on its database; every service loses its
\* connection.
CarlRestart ==
    /\ Drop(Calls)
    /\ pending' = {}
    /\ hosts' = [h \in Hosts |-> [hosts[h] EXCEPT !.online = NoName]]
    /\ UNCHANGED hurt

----------------------------------------------------------------------------
\* EDGAR's setup.  The runner takes one task after the other, skips a task that
\* is fulfilled already and stops at the first that fails; its tasks, grouped:
NextTask(t) == CASE t = "checkCarl" -> "install" [] t = "install" -> "connect"
                 [] t = "connect" -> "restart" [] OTHER -> "none"
Stop(h) == hosts' = [hosts EXCEPT ![h].task = "none", ![h].setup = NoSetup]

hostFrame == <<calls, faults, unclean, descriptors, deployments, clients, handed, started,
               last, overtaken, hurt>>

\* `edgar setup managed`: WriteConfiguration comes first.  A configuration file
\* of another setup is replaced only if the operator confirms that.
Managed(h, s) ==
    /\ hosts[h].task = "none" /\ runs.setups < MaxSetups
    /\ runs' = [runs EXCEPT !.setups = @ + 1]
    /\ \/ hosts' = [hosts EXCEPT ![h].task = "checkCarl", ![h].setup = s, ![h].conf = s.peer]
       \/ hosts[h].conf \notin {NoName, s.peer} /\ UNCHANGED hosts
    /\ UNCHANGED <<serverVars, hostFrame, pending>>

\* CheckCarlReachable connects with the credentials of the setup.
CheckCarlReachable(h) ==
    /\ hosts[h].task = "checkCarl"
    /\ IF \E x \in clients : x.id = hosts[h].setup.client
       THEN hosts' = [hosts EXCEPT ![h].task = NextTask(@)]
       ELSE Stop(h)
    /\ UNCHANGED <<serverVars, hostFrame, pending, runs>>

\* The executable, certificates, kernel modules, NetBird and the service file:
\* fulfilled for good once they are done.
Install(h) ==
    /\ hosts[h].task = "install"
    /\ \/ hosts' = [hosts EXCEPT ![h].task = NextTask(@), ![h].installed = TRUE] /\ UNCHANGED faults
       \/ /\ ~hosts[h].installed /\ faults < MaxFaults
          /\ faults' = faults + 1
          /\ Stop(h)
    /\ UNCHANGED <<serverVars, calls, unclean, descriptors, deployments, clients, handed,
                   started, last, overtaken, hurt, pending, runs>>

\* netbird::Connect logs in, unless NetBird is up already.
Connect(h) ==
    /\ hosts[h].task = "connect"
    /\ IF hosts[h].vpn \in machines
       THEN hosts' = [hosts EXCEPT ![h].task = NextTask(@)] /\ UNCHANGED serverVars
       ELSE \/ /\ Login(hosts[h].setup.key, fresh)
               /\ hosts' = [hosts EXCEPT ![h].task = NextTask(@), ![h].vpn = fresh]
            \/ /\ \A k \in keys : k.id # hosts[h].setup.key
               /\ Stop(h)
               /\ UNCHANGED serverVars
    /\ UNCHANGED <<hostFrame, pending, runs>>

\* EDGAR's service starts and connects to CARL as the peer it is configured to be.
Comes(h, task) ==
    /\ hosts' = [hosts EXCEPT ![h].online = hosts[h].conf, ![h].service = TRUE,
                              ![h].task = task,
                              ![h].setup = IF task = "none" THEN NoSetup ELSE @]
    /\ pending' = pending \cup {k \in Clusters : hosts[h].conf \in Members[k]}

\* As a bug would have it: a service that runs is left alone.
LeaveRunning(h) ==
    /\ hosts[h].task = "restart"
    /\ IF hosts[h].online = hosts[h].conf THEN Stop(h) /\ UNCHANGED pending ELSE Comes(h, "none")
    /\ UNCHANGED <<serverVars, hostFrame, runs>>

RestartService(h) ==
    /\ hosts[h].task = "restart"
    /\ Comes(h, "none")
    /\ UNCHANGED <<serverVars, hostFrame, runs>>

\* systemd starts the service again at any time (a reboot, Restart=always),
\* also while a setup is under way.
ServiceRestarts(h) ==
    /\ hosts[h].installed /\ hosts[h].service /\ runs.restarts < MaxRestarts
    /\ Comes(h, hosts[h].task)
    /\ runs' = [runs EXCEPT !.restarts = @ + 1]
    /\ UNCHANGED <<serverVars, hostFrame>>

\* A service that has lost its connection ends, and systemd starts it until CARL
\* is there.
Reconnect(h) ==
    /\ hosts[h].service /\ hosts[h].online = NoName
    /\ Comes(h, hosts[h].task)
    /\ UNCHANGED <<serverVars, hostFrame, runs>>

----------------------------------------------------------------------------
Operator(c) ==
    \/ \E p \in Peers : StorePeerDescriptor(c, p) \/ DeletePeerDescriptor(c, p)
                        \/ GeneratePeerSetup(c, p)
    \/ \E k \in Clusters : StoreClusterDeployment(c, k) \/ RequestUndeploy(c, k)

Serve(c) ==
    \/ Request(c) /\ UNCHANGED prVars
    \/ DeleteClusterDeployment(c) \/ InsertDescriptor(c) \/ ListClients(c) \/ DeleteClients(c)
    \/ RegisterClient(c) \/ Commit(c) \/ Fail(c) \/ Assign(c)
    \/ \E k \in Clusters : DeployPending(c, k)

Setup(h) == CheckCarlReachable(h) \/ Install(h) \/ Connect(h) \/ RestartService(h)
            \/ Reconnect(h)

Next ==
    \/ \E c \in Calls : Operator(c) \/ Serve(c) \/ DropCall(c)
    \/ CarlRestart
    \/ \E h \in Hosts : Setup(h) \/ ServiceRestarts(h) \/ \E s \in handed : Managed(h, s)

Fairness == /\ \A c \in Calls : WF_vars(Serve(c))
            /\ \A h \in Hosts : WF_vars(Setup(h))

FairSpec == Init /\ [][Next]_vars /\ Fairness

----------------------------------------------------------------------------
Busy(n) == \E c \in Calls : calls[c].on = n

\* store and delete keep the three systems together although no transaction
\* spans them: a peer without a descriptor never has a valid setup key or an
\* OIDC client, whatever request failed on the way, and, once its calls have
\* ended, no group, unless an answer about its group was lost, its commit was
\* refused, the undo failed as well, or its store was dropped, or CARL went down,
\* between the creation of the group and the end of the call.
NothingLeftBehind ==
    \A p \in Peers \ descriptors :
        /\ \A k \in keys : k.peer # p
        /\ \A x \in clients : x.peer # p
        /\ p \notin unclean /\ ~Busy(p) => Named(groups, p) = {}

\* Generates for one peer run side by side and delete each other's OIDC
\* clients; still, when the last of them to end has succeeded, the setup it
\* handed out works: its client exists and its key is valid.  A generate that is
\* dropped has ended without success.
LastSetupUsable ==
    \A p \in Peers : last[p] # NoSetup /\ ~Busy(p) =>
        /\ [peer |-> p, id |-> last[p].client] \in clients
        /\ \E k \in keys : k.id = last[p].key /\ k.peer = p

\* Undeploying takes the members' access to each other away: a cluster without
\* a deployment has neither policy nor group, whatever request failed or was
\* repeated and whichever call was dropped, unless a deployment of it ran while
\* it was undeployed.
PolicyOnlyWhileDeployed ==
    \A k \in Clusters \ (deployments \cup overtaken) :
        Named(policies, k) = {} /\ Named(groups, k) = {}

\* The machines of a cluster's peers, once each is set up and online.  A name that
\* stands twice in NetBird, which a repeated POST or a group left behind brings
\* about, can be neither found nor deleted any more.
MachineOf(p) == {hosts[h].vpn : h \in {x \in Hosts : hosts[x].online = p /\ hosts[x].conf = p}}
Unique(n) == Cardinality(Named(groups, n)) <= 1 /\ Cardinality(Named(policies, n)) <= 1
SetUp(k) ==
    /\ k \in deployments \ hurt
    /\ \A n \in Members[k] \cup {k} : Unique(n)
    /\ \A h \in Hosts : hosts[h].task = "none"
    /\ \A p \in Members[k] : \E g \in Named(groups, p) :
          g.peers # {} /\ g.peers = MachineOf(p)
Connected(k) ==
    \E g \in Named(groups, k), x \in Named(policies, k) :
        x.group = g.id /\ \A p \in Members[k] : MachineOf(p) \subseteq g.peers

\* Whatever setups, new deployments, failed undeployments, lost answers and
\* restarts of CARL come in between: a cluster that stays deployed, with every peer
\* set up and online, ends with its machines, as they are now, in a group with a
\* policy, unless its name or a member's stands twice in NetBird, or a request of
\* its own has failed or its call was dropped and no deployment has succeeded since.
ClusterConnects == \A k \in Clusters : <>[]SetUp(k) => <>[]Connected(k)
=============================================================================
