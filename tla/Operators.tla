----------------------------- MODULE Operators -----------------------------
(***************************************************************************)
(* The operators' clients: commands of CLEO and pages of LEA. CARL offers  *)
(* them whole peer descriptors and whole cluster configurations to read    *)
(* and to store; a command that adds or deletes one interface, device or   *)
(* executor reads, edits its copy and stores it. What must not be deleted  *)
(* because something else refers to it is checked by the clients, with     *)
(* what they read before. Each action is one call of CARL or one edit of a *)
(* form.                                                                   *)
(***************************************************************************)
EXTENDS Naturals, Sequences, SequencesExt, PeerDescriptors

CONSTANTS
    Peers,
    Clusters,
    Clients,    \* commands and pages that run at the same time
    Files,      \* the specification files that may be applied, each a
                \* sequence of documents, at least one
    MaxOps      \* bound: commands and edits

VARIABLES
    descriptors,    \* [Peers -> the stored descriptor or None]
    configurations, \* [Clusters -> the set of its devices or None]
    deployed,       \* the clusters with a deployment
    clients,        \* [Clients -> what a client holds]
    ops,            \* commands and edits begun
    misapplied,     \* history: peers stored from a document that names an
                    \* interface it does not have
    excused         \* history: devices a cluster lost to a client that
                    \* could not know or did not look

vars == <<descriptors, configurations, deployed, clients, ops, misapplied,
          excused>>

Document == [peer : Peers, spec : Specification]
            \cup [cluster : Clusters, devices : SUBSET DeviceIds]

ASSUME OperatorsAssumption ==
    /\ MaxOps \in Nat
    /\ None \notin Peers \cup Clusters \cup DeviceIds
    /\ None \notin Descriptor /\ \A devices \in SUBSET DeviceIds : None # devices
    /\ Files \subseteq Seq(Document) \ {<<>>}

Commands ==
    {"create device", "create interface", "delete interface",
     "create executor", "delete executor"}

Ats == Commands \cup
    {"idle", "delete peer", "delete peer checked", "delete device",
     "delete device checked", "create cluster", "create cluster listed",
     "delete cluster", "apply", "form loading", "form", "cluster loading",
     "cluster form"}

\* copy: the descriptor it edits; target: the peer, cluster or device it is
\* about; used: the devices it takes to be in clusters; known: the devices it
\* has listed; stale: others have stored something since it first read;
\* unchecked: it runs without what its checks need.
Client ==
    [at : Ats, peer : Peers \cup {None}, target : DeviceIds \cup Clusters \cup {None},
     copy : Descriptor \cup {None}, used : SUBSET DeviceIds,
     known : SUBSET DeviceIds, file : Seq(UNION {Range(f) : f \in Files}),
     stale : BOOLEAN, unchecked : BOOLEAN]

Idle ==
    [at |-> "idle", peer |-> None, target |-> None, copy |-> None, used |-> {},
     known |-> {}, file |-> <<>>, stale |-> FALSE, unchecked |-> FALSE]

Init ==
    /\ descriptors = [p \in Peers |-> None]
    /\ configurations = [k \in Clusters |-> None]
    /\ deployed = {}
    /\ clients = [c \in Clients |-> Idle]
    /\ ops = 0
    /\ misapplied = {}
    /\ excused = {}

-----------------------------------------------------------------------------
(* What CARL holds. *)

Stored == {p \in Peers : descriptors[p] # None}

DevicesOf(ds) == UNION {DOMAIN ds[p].devices : p \in {q \in Peers : ds[q] # None}}

\* The devices of the configured clusters.
InClusters(cs) == UNION {cs[k] : k \in {j \in Clusters : cs[j] # None}}

Missing(ds, cs) == InClusters(cs) \ DevicesOf(ds)

\* The interfaces that exist anywhere: a random identifier is none of them.
TakenIds(f(_)) ==
    UNION ({f(descriptors[p]) : p \in Stored}
           \cup {f(clients[c].copy) : c \in {b \in Clients : clients[b].copy # None}})

FreshInterfaces ==
    LET Of(d) == DOMAIN d.interfaces IN InterfaceIds \ TakenIds(Of)

FreshDevices ==
    LET Of(d) == DOMAIN d.devices IN DeviceIds \ TakenIds(Of)

FreshExecutors ==
    LET Of(d) == DOMAIN d.executors IN ExecutorIds \ TakenIds(Of)

Begin == ops < MaxOps /\ ops' = ops + 1

Frame == UNCHANGED <<descriptors, configurations, deployed, misapplied, excused>>

\* Client c goes on as next; after a store, all the others that hold
\* something hold what was read before it.
Holds(c, next) == clients' = [clients EXCEPT ![c] = next]

HoldsAfterStore(c, next) ==
    clients' = [b \in Clients |->
        IF b = c THEN next
        ELSE IF clients[b].at = "idle" THEN clients[b]
        ELSE [clients[b] EXCEPT !.stale = TRUE]]

\* The client stores what rests on a check it did not make, or on one that
\* others have overtaken.
OutOfDate(c) == clients[c].stale \/ clients[c].unchecked

Excuse(excuse) ==
    excused' = excused \cup
        IF excuse THEN Missing(descriptors', configurations') ELSE {}

StorePeerDescriptor(c, p, d, next, excuse) ==
    /\ descriptors' = [descriptors EXCEPT ![p] = Wire(d)]
    /\ HoldsAfterStore(c, next)
    /\ UNCHANGED <<configurations, deployed>>
    /\ Excuse(excuse)

\* Deleting a peer that is not there is an error, and changes nothing.
DeletePeerDescriptor(c, p) ==
    /\ descriptors' = [descriptors EXCEPT ![p] = None]
    /\ HoldsAfterStore(c, Idle)
    /\ UNCHANGED <<configurations, deployed, ops, misapplied>>
    /\ Excuse(OutOfDate(c))

StoreClusterConfiguration(c, k, devices, next, excuse) ==
    /\ configurations' = [configurations EXCEPT ![k] = devices]
    /\ HoldsAfterStore(c, next)
    /\ UNCHANGED <<descriptors, deployed>>
    /\ Excuse(excuse)

\* CARL itself refuses to delete the configuration of a deployed cluster.
DeleteClusterConfiguration(c, k) ==
    /\ configurations' =
           IF k \in deployed THEN configurations
           ELSE [configurations EXCEPT ![k] = None]
    /\ HoldsAfterStore(c, Idle)
    /\ UNCHANGED <<descriptors, deployed, ops, misapplied, excused>>

-----------------------------------------------------------------------------
(* CLEO: commands that edit one descriptor. *)

\* The peer is replaced by an empty one if it exists.
CreatePeer(c, p) ==
    /\ clients[c].at = "idle"
    /\ Begin
    /\ \E location \in Optional :
           StorePeerDescriptor(c, p, EmptyDescriptor(location, None), Idle, TRUE)
    /\ UNCHANGED misapplied

GetPeerDescriptor(c, p) ==
    /\ clients[c].at = "idle"
    /\ Begin
    /\ p \in Stored
    /\ \E command \in Commands :
           Holds(c, [Idle EXCEPT !.at = command, !.peer = p,
                                 !.copy = Wire(descriptors[p])])
    /\ Frame

\* The end of a command that edits one descriptor.
StoreEdited(c, edited) ==
    /\ StorePeerDescriptor(c, clients[c].peer, edited, Idle, OutOfDate(c))
    /\ UNCHANGED <<ops, misapplied>>

\* A device that exists is changed: the description is replaced also by none.
CreateDevice(c) ==
    LET copy == clients[c].copy
    IN /\ clients[c].at = "create device"
       /\ \E id \in DeviceIds, description \in Optional, tags \in SUBSET Texts :
          \E interface \in DOMAIN copy.interfaces
                 \cup {copy.devices[d].interface : d \in DOMAIN copy.devices \cap {id}} :
              StoreEdited(c, [copy EXCEPT !.devices =
                  With(@, id, [interface |-> interface, description |-> description,
                               tags |-> tags])])

CreateNetworkInterface(c) ==
    LET copy == clients[c].copy
    IN /\ clients[c].at = "create interface"
       /\ \E id \in FreshInterfaces, interface \in Interface :
              /\ interface.name \notin InterfaceNames(copy)
              /\ StoreEdited(c, [copy EXCEPT !.interfaces = With(@, id, interface)])

\* The mutant forgets the devices of its copy.
DeleteUsedInterface(c) ==
    LET copy == clients[c].copy
    IN /\ clients[c].at = "delete interface"
       /\ \E id \in DOMAIN copy.interfaces :
              StoreEdited(c, [copy EXCEPT !.interfaces = Without(@, {id})])

DeleteNetworkInterface(c) ==
    LET copy == clients[c].copy
    IN /\ clients[c].at = "delete interface"
       /\ \E id \in DOMAIN copy.interfaces \ UsedInterfaces(copy) :
              StoreEdited(c, [copy EXCEPT !.interfaces = Without(@, {id})])

CreateExecutor(c) ==
    /\ clients[c].at = "create executor"
    /\ \E id \in FreshExecutors, executor \in Executor :
           /\ executor.image # None
           /\ StoreEdited(c, [clients[c].copy EXCEPT !.executors = With(@, id, executor)])

\* All executors with the image are deleted; Executables have none.
DeleteExecutor(c) ==
    /\ clients[c].at = "delete executor"
    /\ \E image \in Images :
           StoreEdited(c, [clients[c].copy EXCEPT !.executors =
               Without(@, {id \in DOMAIN @ : @[id].image = image})])

-----------------------------------------------------------------------------
(* CLEO: commands that look at the clusters first. *)

BeginDeletePeer(c, p) ==
    /\ clients[c].at = "idle"
    /\ Begin
    /\ p \in Stored
    /\ Holds(c, [Idle EXCEPT !.at = "delete peer", !.peer = p,
                             !.copy = Wire(descriptors[p])])
    /\ Frame

BeginDeleteDevice(c, p) ==
    /\ clients[c].at = "idle"
    /\ Begin
    /\ p \in Stored
    /\ \E id \in DOMAIN descriptors[p].devices :
           Holds(c, [Idle EXCEPT !.at = "delete device", !.peer = p,
                                 !.target = id, !.copy = Wire(descriptors[p])])
    /\ Frame

\* The mutant lists the clusters and does not look at their devices.
ListWithoutLooking(c) ==
    /\ clients[c].at \in {"delete peer", "delete device"}
    /\ Holds(c, [clients[c] EXCEPT !.at = IF @ = "delete peer" THEN "delete peer checked"
                                           ELSE "delete device checked"])
    /\ UNCHANGED ops
    /\ Frame

ListClusterConfigurations(c) ==
    LET client == clients[c]
        concerned == IF client.at = "delete peer"
                     THEN DOMAIN client.copy.devices ELSE {client.target}
    IN /\ client.at \in {"delete peer", "delete device"}
       /\ Holds(c, IF concerned \cap InClusters(configurations) # {} THEN Idle
                   ELSE [client EXCEPT !.at =
                       IF @ = "delete peer" THEN "delete peer checked"
                       ELSE "delete device checked"])
       /\ UNCHANGED ops
       /\ Frame

DeletePeer(c) ==
    /\ clients[c].at = "delete peer checked"
    /\ DeletePeerDescriptor(c, clients[c].peer)

DeleteDevice(c) ==
    /\ clients[c].at = "delete device checked"
    /\ StoreEdited(c, [clients[c].copy EXCEPT
                          !.devices = Without(@, {clients[c].target})])

-----------------------------------------------------------------------------
(* CLEO: clusters and specification files. *)

\* The mutant asks for the deployments and goes on in any case.
ListDeploymentsUnheeded(c, k) ==
    /\ clients[c].at = "idle"
    /\ Begin
    /\ \E command \in {"create cluster", "delete cluster"} :
           Holds(c, [Idle EXCEPT !.at = command, !.target = k])
    /\ Frame

ListClusterDeployments(c, k) ==
    /\ clients[c].at = "idle"
    /\ Begin
    /\ k \notin deployed
    /\ \E command \in {"create cluster", "delete cluster"} :
           Holds(c, [Idle EXCEPT !.at = command, !.target = k])
    /\ Frame

ListDevices(c) ==
    /\ clients[c].at = "create cluster"
    /\ Holds(c, [clients[c] EXCEPT !.at = "create cluster listed",
                                   !.known = DevicesOf(descriptors)])
    /\ UNCHANGED ops
    /\ Frame

CreateCluster(c) ==
    /\ clients[c].at = "create cluster listed"
    /\ \E devices \in SUBSET clients[c].known :
           /\ Cardinality(devices) >= 2
           /\ StoreClusterConfiguration(c, clients[c].target, devices, Idle,
                                        OutOfDate(c))
    /\ UNCHANGED <<ops, misapplied>>

DeleteCluster(c) ==
    /\ clients[c].at = "delete cluster"
    /\ DeleteClusterConfiguration(c, clients[c].target)

\* All documents are converted before the first is stored: a file with one
\* that cannot be converted is not applied at all.
BeginApply(c) ==
    /\ clients[c].at = "idle"
    /\ Begin
    /\ \E file \in Files :
           /\ \A i \in DOMAIN file :
                  "spec" \in DOMAIN file[i] => Convertible(file[i].spec)
           /\ Holds(c, [Idle EXCEPT !.at = "apply", !.file = file])
    /\ Frame

\* Neither the interfaces nor the devices a document names are looked up.
ApplyDocument(c) ==
    LET file == clients[c].file
        next == IF Len(file) = 1 THEN Idle ELSE [clients[c] EXCEPT !.file = Tail(file)]
    IN /\ clients[c].at = "apply"
       /\ \/ /\ "spec" \in DOMAIN Head(file)
             /\ StorePeerDescriptor(c, Head(file).peer,
                                    ConvertDocument(Head(file).spec), next, TRUE)
             /\ misapplied' = misapplied \cup
                    IF Resolves(Head(file).spec) THEN {} ELSE {Head(file).peer}
          \/ /\ "cluster" \in DOMAIN Head(file)
             /\ StoreClusterConfiguration(c, Head(file).cluster,
                                          Head(file).devices, next, TRUE)
             /\ UNCHANGED misapplied
       /\ UNCHANGED ops

\* A call fails, or the operator gives up: the command or page ends.
Abort(c) ==
    /\ clients[c].at # "idle"
    /\ Holds(c, Idle)
    /\ UNCHANGED ops
    /\ Frame

-----------------------------------------------------------------------------
(* LEA: the page of a peer. *)

\* A peer that cannot be read, for whatever reason, is shown as a new one; a
\* peer with an Executable ends the page.
LeaOpenPeer(c, p) ==
    /\ clients[c].at = "idle"
    /\ Begin
    /\ \/ /\ p \in Stored
          /\ Loadable(descriptors[p])
          /\ Holds(c, [Idle EXCEPT !.at = "form loading", !.peer = p,
                                   !.copy = Form(Wire(descriptors[p]))])
       \/ Holds(c, [Idle EXCEPT !.at = "form", !.peer = p,
                                !.copy = EmptyDescriptor("", None),
                                !.unchecked = p \in Stored])
    /\ Frame

\* A list that cannot be read counts as an empty one.
LeaListClusters(c) ==
    /\ clients[c].at = "form loading"
    /\ \/ Holds(c, [clients[c] EXCEPT !.at = "form",
                                      !.used = InClusters(configurations)])
       \/ Holds(c, [clients[c] EXCEPT !.at = "form", !.unchecked = TRUE])
    /\ UNCHANGED ops
    /\ Frame

LeaEdit(c, edited) ==
    /\ Begin
    /\ Holds(c, [clients[c] EXCEPT !.copy = edited])
    /\ Frame

LeaEditGeneral(c) ==
    \E text \in Texts \cup {""} :
        \/ LeaEdit(c, [clients[c].copy EXCEPT !.location = text])
        \/ LeaEdit(c, [clients[c].copy EXCEPT !.bridge = IF text = "" THEN None ELSE text])

LeaEditInterfaces(c) ==
    LET copy == clients[c].copy
    IN \/ \E id \in FreshInterfaces, interface \in Interface :
              /\ interface.name \notin InterfaceNames(copy)
              /\ LeaEdit(c, [copy EXCEPT !.interfaces = With(@, id, interface)])
       \/ \E id \in DOMAIN copy.interfaces \ UsedInterfaces(copy) :
              LeaEdit(c, [copy EXCEPT !.interfaces = Without(@, {id})])

\* A device is deleted unless it was in a cluster when the page was loaded.
LeaEditDevices(c) ==
    LET copy == clients[c].copy
    IN \/ \E id \in DOMAIN copy.devices \cup FreshDevices,
            interface \in DOMAIN copy.interfaces, text \in Texts \cup {""} :
              LeaEdit(c, [copy EXCEPT !.devices =
                  With(@, id, [interface |-> interface, description |-> text,
                               tags |-> {}])])
       \/ \E id \in DOMAIN copy.devices \ clients[c].used :
              LeaEdit(c, [copy EXCEPT !.devices = Without(@, {id})])

LeaEditExecutors(c) ==
    LET copy == clients[c].copy
    IN \/ \E id \in DOMAIN copy.executors \cup FreshExecutors, executor \in Executor :
              /\ executor.image # None
              /\ LeaEdit(c, [copy EXCEPT !.executors = With(@, id, executor)])
       \/ \E id \in DOMAIN copy.executors :
              LeaEdit(c, [copy EXCEPT !.executors = Without(@, {id})])

LeaEdits(c) ==
    /\ clients[c].at = "form"
    /\ \/ LeaEditGeneral(c) \/ LeaEditInterfaces(c)
       \/ LeaEditDevices(c) \/ LeaEditExecutors(c)

\* The page stays open, with the copy it has.
LeaSavePeer(c) ==
    /\ clients[c].at = "form"
    /\ StorePeerDescriptor(c, clients[c].peer, clients[c].copy, clients[c],
                           OutOfDate(c))
    /\ UNCHANGED <<ops, misapplied>>

LeaDeletePeer(c) ==
    /\ clients[c].at = "form"
    /\ DOMAIN clients[c].copy.devices \cap clients[c].used = {}
    /\ DeletePeerDescriptor(c, clients[c].peer)

-----------------------------------------------------------------------------
(* LEA: the page of a cluster, and the overview that deploys clusters. *)

\* A peer with an unknown interface ends the page. The page can be used
\* before it knows whether the cluster is deployed.
LeaOpenCluster(c, k) ==
    /\ clients[c].at = "idle"
    /\ Begin
    /\ \A p \in Stored : Resolves(descriptors[p])
    /\ Holds(c, [Idle EXCEPT !.at = "cluster loading", !.target = k,
                             !.used = IF configurations[k] = None THEN {}
                                      ELSE configurations[k],
                             !.known = DevicesOf(descriptors),
                             !.unchecked = TRUE])
    /\ Frame

\* The page of a deployed cluster is disabled.
LeaListDeployments(c) ==
    /\ clients[c].at = "cluster loading"
    /\ Holds(c, IF clients[c].target \in deployed THEN Idle
                ELSE [clients[c] EXCEPT !.at = "cluster form", !.unchecked = FALSE])
    /\ UNCHANGED ops
    /\ Frame

\* What can be selected. Devices that were selected and are not listed cannot
\* be taken back.
DeviceSelector(client) ==
    {listed \cup (client.used \ client.known) : listed \in SUBSET client.known}

ValidSelection(devices) == Cardinality(devices) >= 2

LeaSaveCluster(c) ==
    LET client == clients[c]
    IN /\ client.at \in {"cluster loading", "cluster form"}
       /\ \E devices \in DeviceSelector(client) :
             /\ ValidSelection(devices)
             /\ StoreClusterConfiguration(c, client.target, devices,
                    [client EXCEPT !.used = devices], OutOfDate(c))
       /\ UNCHANGED <<ops, misapplied>>

LeaDeleteCluster(c) ==
    /\ clients[c].at \in {"cluster loading", "cluster form"}
    /\ DeleteClusterConfiguration(c, clients[c].target)

Deploy(c, k) ==
    /\ clients[c].at = "idle"
    /\ Begin
    /\ configurations[k] # None
    /\ deployed' = IF k \in deployed THEN deployed \ {k} ELSE deployed \cup {k}
    /\ HoldsAfterStore(c, Idle)
    /\ UNCHANGED <<descriptors, configurations, misapplied, excused>>

-----------------------------------------------------------------------------
CleoEdits(c) ==
    \/ CreateDevice(c) \/ CreateNetworkInterface(c) \/ DeleteNetworkInterface(c)
    \/ CreateExecutor(c) \/ DeleteExecutor(c)

Cleo(c) ==
    \/ \E p \in Peers : CreatePeer(c, p) \/ GetPeerDescriptor(c, p)
                        \/ BeginDeletePeer(c, p) \/ BeginDeleteDevice(c, p)
    \/ CleoEdits(c)
    \/ ListClusterConfigurations(c) \/ DeletePeer(c) \/ DeleteDevice(c)
    \/ \E k \in Clusters : ListClusterDeployments(c, k)
    \/ ListDevices(c) \/ CreateCluster(c) \/ DeleteCluster(c)
    \/ BeginApply(c) \/ ApplyDocument(c)
    \/ Abort(c)

Lea(c) ==
    \/ \E p \in Peers : LeaOpenPeer(c, p)
    \/ LeaListClusters(c)
    \/ LeaEdits(c)
    \/ LeaSavePeer(c) \/ LeaDeletePeer(c)
    \/ \E k \in Clusters : LeaOpenCluster(c, k) \/ Deploy(c, k)
    \/ LeaListDeployments(c) \/ LeaSaveCluster(c) \/ LeaDeleteCluster(c)

Next == \E c \in Clients : Cleo(c) \/ Lea(c)

Spec == Init /\ [][Next]_vars

-----------------------------------------------------------------------------
(* Properties. *)

\* Everything has its type, and what CARL stores and the clients hold
\* survives any further conversion to the wire and back: only the first one
\* may turn a missing text into an empty one.
TypeOK ==
    /\ \A p \in Stored : descriptors[p] \in Descriptor
                         /\ Wire(descriptors[p]) = descriptors[p]
    /\ \A k \in Clusters : configurations[k] = None
                           \/ configurations[k] \subseteq DeviceIds
    /\ deployed \subseteq Clusters
    /\ \A c \in Clients : clients[c].at \in Ats
    /\ ops \in 0..MaxOps

\* Every device names an interface of its own descriptor, which
\* interfaces_zipped_with_devices takes for granted and panics without: no
\* interleaving of commands and pages, each with its own copy, loses an
\* interface that a device still names. Only an applied document can. The
\* state is well typed throughout, and the wire changes no stored descriptor.
InterfacesResolve ==
    /\ TypeOK
    /\ \A p \in Stored \ misapplied : Resolves(descriptors[p])

\* The devices of a configured cluster exist, unless a client that had not
\* looked, or whose look was out of date, took them away: the checks of CLEO
\* and LEA together leave no other gap, in any sequence of their calls.
ClusterDevicesExist == Missing(descriptors, configurations) \subseteq excused

\* The configuration of a deployed cluster changes only by a client that
\* others had overtaken, that did not know the deployments yet, or that
\* applies a file.
DeployedConfigurationKept ==
    [][\A k \in deployed :
           configurations'[k] # configurations[k] =>
               \E c \in Clients : \/ OutOfDate(c)
                                  \/ clients[c].at = "apply"]_vars
=============================================================================
