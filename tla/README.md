# TLA+ verification of openDuT

openDuT manages test benches that are spread over many sites.  One server,
**CARL**, keeps the inventory (peers with their devices, cluster configurations,
deployments); an agent, **EDGAR**, runs at every peer, keeps one bidirectional
gRPC stream open to CARL and applies the configurations it receives; operators
use **LEA** (web) or **CLEO** (command line).  A NetBird service connects the
peers' machines, an OIDC provider issues everyone's tokens.

What can go wrong without a test noticing lies between these parts.  In CARL
independent tokio tasks share a resource store and a map of streams, take a lock
for one access at a time, and pass each other events through bounded channels.
EDGAR applies configurations step by step on a kernel that outlives it.  NetBird
and the OIDC provider take part in no transaction.  Operators edit copies.

This directory holds the models of these parts, the TLC configurations that check
them on small instances, and machine-checked proofs, for instances of any size, of
all the safety properties that the runs check.

| module | models | instance |
|---|---|---|
| `PeerMessagingBroker` | the peers' streams, their connection states, their disconnection | `MCBroker` |
| `PeerMessagingBrokerProofs` | theorems about it | |
| `PeerLinks` | abstract: what the broker promises those who send to peers | |
| `ClusterManager` | configurations, deployments, redeployment, roll-out of a cluster | `MCClusterManager` |
| `ClusterManagerProofs` | theorems about it | |
| `ResourceStore` | abstract: what the resource manager promises | |
| `ResourceManager` | lock, transactions, relayed and bounded subscriptions, restart | in `MCObserver` |
| `ObserverMessagingBroker` | "wait until these peers are online", over `ResourceManager` | `MCObserver` |
| `ObserverMessagingBrokerProofs` | theorems about the three, the refinement included | |
| `CannelloniManager`, `ContainerManager` | EDGAR's CAN tunnels; its test executions | in `MCEdgar` |
| `Edgar` | stream, queue and handler of configurations, over the two above | `MCEdgar` |
| `EdgarSetup` | `edgar setup`: configuration files and tasks, cut anywhere | `MCEdgarSetup` |
| `EdgarProofs` | theorems about the four | |
| `NetbirdManagementClient` | requests to the VPN management service | in `MCProvisioning` |
| `Provisioning` | peers, setups and deployments over store, VPN and OIDC provider | `MCProvisioning` |
| `ProvisioningProofs` | theorems about the two | |
| `PeerDescriptors` | descriptors and their conversions, as far as references go | in `MCOperators` |
| `Operators` | commands of CLEO and pages of LEA, each with its copy | `MCOperators` |
| `OperatorsProofs` | theorems about the two | |
| `CarlApi` | errors and results on their way over gRPC and back | in `MCApiCalls` |
| `ApiCalls` | calls of the client library, tokens and keys, CARL's facades | `MCApiCalls` |
| `ApiCallsProofs` | theorems about the two | |
| `ValidatedTexts`, `PeerConversions` | validated types; form, descriptor and message | in `MCPeerForm` |
| `PeerForm` | LEA's page of a peer | `MCPeerForm` |
| `PeerFormProofs` | theorems about the three | |

`PROJECT.json` lists components, runs, mutants, the map from definitions to source
lines, findings, hazards and theorems.

## 1. Inventory

### CARL

**Resource manager** (`opendut-carl/src/resource/`).  State: tables of peer
descriptors, cluster configurations and deployments (persistent, redb, when the
database is enabled) and of connection states and peer configurations (always
volatile); one relay channel per subscribed type.  Operations: `insert`, `get`,
`list`, `remove`, each under one lock; `resources_mut`, a transaction that keeps
the lock across a whole async closure and commits or rolls back.  Committed
changes are broadcast to subscribers through channels that forget their oldest
event when full.  Hard: what other tasks do between two accesses; events lost at
the channel's limit; what a restart keeps.  Correct: a transaction is applied in
full or not at all; a subscriber sees committed changes in order or learns that
it lagged.

**PeerMessagingBroker** (`manager/peer_messaging_broker/`).  State: a map from
peer to the sender of its downstream channel and a `disconnected` flag; per
stream the upstream and the downstream channel.  Operations: `open` (check the
descriptor, store `Online`, register, send the initial configuration, spawn the
stream task), the stream task (pong for ping, time-out, `disconnected` flag,
clean-up after a grace time), `send_to_peer`, and an effect that disconnects a
peer when its descriptor is removed.  Hard: two calls of `open` of one peer and
the clean-up of an earlier one interleave freely; the future of `open` may be
dropped at any await; a send waits for room while the receiver may be gone.
Correct: one stream per peer; the stored state agrees with the streams; a dead
stream is cleaned up; a removed peer is disconnected and forgotten.

**ClusterManager** (`manager/cluster_manager/`).  State: one mutex around the
manager, the counter of CAN server ports, one effect that waits for peers to
come online.  Operations: store and delete configurations and deployments;
deploy a cluster if all its peers are online (read the configuration, determine
the members and ports, read their states, assign the cluster to all of them in
one transaction).  Hard: the mutex protects the manager and not the resources,
so that every step of a deployment can find them changed; a deployment and the
event of a peer coming online can miss each other; an error or a panic half-way.
Correct: no peer serves two deployments; members agree on their cluster; ports
are in range; a cluster whose peers are all online is deployed.

**PeerManager operations** (`manager/peer_manager/`): store and delete
descriptors together with the VPN peer, generate setups with an OIDC client and a
setup key, assign a cluster, derive which peers are available or blocked.  No
state of their own.  Hard: three systems, no common transaction, requests whose
answer is lost.

**ObserverMessagingBroker** (`manager/observer_messaging_broker/`): answers
"wait until these peers are online" with a stream; lists the states first and
subscribes afterwards.  Correct: what it reports was true at one moment; the wait
ends.

**VPN client** (`opendut-vpn-netbird`), **OIDC registration and tokens**
(`opendut-auth`, `carl/src/auth/`), **gRPC facades and client library**
(`manager/grpc/`, `opendut-carl-api`).  Correct: a caller is told what happened,
with a token that is still valid; nothing is left in the VPN or at the provider
for a peer that no longer exists.

### EDGAR

The **stream client** (`service/start.rs`, `common/carl.rs`) answers pongs with
pings and queues configurations for the **peer configuration** task
(`service/peer_configuration.rs`, `service/cluster_assignment.rs`,
`common/task/runner.rs`), which applies them with idempotent tasks; the **CAN and
cannelloni managers** keep one restart loop per remote peer; the **test
executor** runs containers; **metrics** measure the remote peers.  State outside of
the process: bridges, tunnels, CAN routes, containers.  Hard: each configuration
is applied over what the last one, a failed task or a former run of EDGAR left.
**Setup** (`setup/`) installs EDGAR with tasks that judge for themselves whether
they were executed.  Hard: it may be cut anywhere, and be run again with another
setup string.

### Clients

**CLEO** reads, edits and stores whole descriptors and configurations, or applies
files of specifications.  **LEA** does so with forms that stay open for as long
as the operator likes.  Hard: nothing tells a client that its copy is out of date,
and what must not be deleted is checked by the clients, not by CARL.

### Interactions

EDGAR's stream → `open` → `PeerConnectionState` in the resource manager →
broadcast event → ClusterManager's effect → `deploy_cluster` → VPN group and policy
→ transaction of `assign_cluster` → `send_to_peer` through the broker's map → EDGAR
→ bridge, tunnels, cannelloni, containers.  In the other direction an operator
deletes a descriptor → event → the broker's effect → notice and `disconnected` flag
→ the stream task closes → clean-up.  `generate_peer_setup` → setup key and OIDC
client → setup string → `edgar setup` on a host → VPN login → stream.

## 2. Plan

Order: what decides whether peers can be used at all comes first.

1. *Done.*  `PeerMessagingBroker`; its invariants proved.
2. *Done.*  `ClusterManager`; its invariants proved.
3. *Done.*  `ResourceManager` and `ResourceStore`, refinement checked;
   `ObserverMessagingBroker` over it.
4. *Done.*  EDGAR: stream, queue, handler, cannelloni, containers; its setup.
5. *Done.*  `Provisioning`: the VPN and the OIDC provider, hosts being set up.
6. *Done.*  Clients: `Operators`, `PeerForm`; the API between: `ApiCalls`.
7. *Done.*  Theorems about everything above: each module's safety properties with the
   inductive invariant they need, and that `ResourceManager` implements
   `ResourceStore`.
8. *Done.*  The same for `PeerForm`.
9. *Done.*  `PeerLinks`, which joins the first two: the broker implements it, as checked
   and proved, and the streams of `ClusterManager` are made of its actions.

## 3. PeerMessagingBroker

A *session* is one call of `open` with the task it spawns.  `pc[s]` is the next
section that runs under a lock; no lock is held across two sections, so that each
is one action:

| code | actions |
|---|---|
| `open`: descriptor check, `Online`, map entry | `ExpectKnownPeerDescriptor`, `UpdatePeerConnectionState` or `RejectConnected`, `RegisterPeer` |
| `send_initial_peer_configuration` | `ReadOldPeerConfiguration`, `ReadPeerConfiguration`, `LookupDownstream`, `SendInitialPeerConfiguration` |
| the future of `open` is dropped | `CancelOpen` |
| the stream task's loop | `ReceiveMessage`, `HandleStreamMessage`, `ReceiveNone`, `ReceiveTimeout`, `CheckDisconnected` |
| `remove_peer` after the loop | `ChannelCloseGraceTime`, `GetConnectionState`, `GetPeerDescriptor`, `StoreConnectionState`, `UnregisterPeer`; `CleanUpFails` when the database does |
| `disconnect_peer_when_removed` | `EffectReceive`, `EffectGetState`, `EffectRemoveState`, `EffectLookup`, `EffectSendNotice`, `EffectMark`; `EffectFails` |
| `assign_cluster` for one peer | `AssignBegin`, `AssignLookup`, `AssignSend`, `AssignCommit`, `AssignRollback` |
| descriptors | `StorePeerDescriptor`, `DeletePeerDescriptor` |
| EDGAR, and the gRPC facade | `ClientPing`, `ClientReceive`, `DropInbound`, `DropOutbound` |
| CARL restarts | `Restart` |

Messages are what the broker tells apart: `apply`, `pong`, `notice`; the upstream
channel carries pings only and is a count.  A configuration is a version number;
the two tables it is stored in are read in two steps, which is why `seen` is a
pair.  `version`, `lastCfg`, `unsettled` and `everRemoved` are history.

### Runs

* `broker_safety` - two sessions of one peer, an assignment, cancelled calls,
  lost directions, a database that fails, restarts, and a descriptor that is deleted and
  stored again at any moment (once it was, an assignment begins only before the second
  call, and after the second call a descriptor may be stored again but not removed again).
  `ExclusiveSession`, `OnlineIffOwned`, `StoredConfigurationReachedStream`,
  types; and `LinksImplemented`, the refinement of `PeerLinks`.
* `broker_liveness` - `OnlyPingingStreamsSurvive`: nothing, an assignment blocked
  on a full channel included, keeps a stream alive whose client stopped pinging;
  `DisconnectHonoured`: a stream marked disconnected ends although its client
  keeps pinging; with two calls of the peer, `disconnect` may mark the entry of one
  that has ended or was replaced.  The calls being interchangeable, one is the first;
  when there is a second, the descriptor is removed only if nothing is assigned, and is
  left alone after that, CARL is not restarted, and the second client falls silent but
  does not close its direction.  This holds back operators, CARL's restarts and clients,
  of which no fairness is assumed.
* `broker_reachable` - the violation of section 11.

Bounds: two sessions are the fewest that can race, and the clean-up of a third
touches the same three pieces of state; the theorems lift the bound for the
properties that need it.  Capacity 1 makes every send meet a full channel and the
event channel overflow.  Sessions of one peer are interchangeable, hence the
symmetry in the safety run; the liveness run uses none but the order of calls.  Deadlock is not checked
where every session may have ended.

Fairness: `WF` for the open call once it has begun, for the stream task, for the
effect and for the transaction, because tokio polls every runnable task; and for
"the client reads, or its connection is given up", because HTTP/2 keep-alive or
TCP end a connection that does not move.  Nothing is assumed of clients' pings,
of operators or of restarts.

### Proved, for every number of peers, sessions and every capacity

`TypeCorrect`, `Exclusive`, `OnlineOwned`, `OfflineAfterLoop` and
`ConfigurationsDelivered` in `PeerMessagingBrokerProofs`, from `SessionsAssumption` and `BoundsAssumption`
alone.  The inductive invariant is

    Inv == TypeOK /\ RemovedKnown /\ DescriptorKnown /\ ExclusiveSession /\ OnlineIffOwned

`ExclusiveSession` is not inductive on its own: that a second call is rejected
where `Online` is stored needs to know that an owned peer *is* stored as Online.
`OnlineIffOwned` in turn needs `ExclusiveSession` where `Offline` is stored: the
session that cleans up is the only owner.  `RemovedKnown` says that removal
events and the effect only ever concern peers whose descriptor was removed, and
`DescriptorKnown` that a session of any other peer which got past the check
still finds the descriptor, so that its clean-up stores `Offline` and does not
delete the state.  A clean-up that the database ends (`CleanUpFails`) leaves its peer
owned, as a failed `open` does.  `OfflineOnlyAfterLoop`, which is about steps, follows from the
invariant; as `OnlineIffOwned` after a step says as much, it has no run of its own.

`ConfigurationsDelivered` (`StoredConfigurationReachedStream`) needs, on top of it,

    Delivery == TargetsFit /\ DeliversOwn /\ Settled /\ Assigning

because what was sent is compared with what is stored only once a call is in its
loop, and both change in several sections of several tasks.  `Settled` says what a
call under way has read and that this is still what is stored; `Assigning` that a
call which an assignment did not find reading was sent the assignment's
configuration before it is stored; `DeliversOwn` that a call of a peer that was never
removed finds its own sender, or none, in the map, so that what it sends arrives in
its own stream; `TargetsFit` that a sender taken out of the map is one of the peer it
was taken for.

`BrokerImplementsLinks` (`LinksImplemented`) is about the broker as those who send to
peers see it.  `PeerLinks` has two things per peer, `online` and whether it is
`reachable`, and says what may become of them: a call stores `Online` (`GoOnline`), puts a
working entry into the map (`Register`) or ends before it does (`Abandon`); the entry is
lost with the client or removed (`Lose`); `Online` is taken back (`GoOffline`), but never
under a call that is about to register.  Sections of the code that do none of these are
stutters: two calls, their clean-ups and the entries they leave behind look like one link.
The refinement mapping is `OnlineOf` and `Reachable`, which are functions of the broker's
own variables.  Once the descriptor of a peer was removed, nothing is promised of that
peer's link (`Disturb`), for the reason given below.  Beyond `Inv` and `Delivery` the proof
needs

    LinkInv == StreamsOpen /\ EntriesRegistered

by which a call that has not registered yet still has both directions of its stream, so
that registering makes the peer reachable, and the map has no entry of a call that has
not registered, so that nothing else does.  The proof takes the actions of a call one
by one (`OwnStep`: what such a step leaves alone) and shows for each which step of
`PeerLinks` it is; `Restart` is `Forget`.

### What the model does not promise

`OnlineIffOwned` counts a call that failed after it stored `Online` as the owner:
nothing takes the state back (`mod.rs:145`), and every later call is answered with
"already has a connected stream" until CARL restarts or the descriptor is removed.
The same holds of a clean-up whose database access fails (`mod.rs:274`, `281`, `290`): its
error is only logged.
And the clean-up reads the descriptor and stores `Offline` in two sections
(`mod.rs:281`, `288`): a deletion in between leaves a state that nothing removes,
which is why the properties except peers whose descriptor was ever removed.

## 4. ClusterManager

`mgr` is the call that holds the mutex; its `pc` is the next access to the
resources.

| code | actions |
|---|---|
| `store_cluster_deployment` | `StoreClusterDeployment` (check), `InsertClusterDeployment` |
| `deploy_cluster_if_all_peers_available` | `CheckClusterDeployable` |
| `deploy_cluster` | `GetClusterConfiguration`, `DetermineMemberInterfaceMapping`, `GetPeerConnectionState`, `AssignCluster` |
| `determine_can_server_ports` | `DetermineCanServerPorts` |
| the effect | `EffectReceive`, `DeployAllClustersContainingNewlyAvailablePeer` |
| a gRPC call is dropped | `CancelCall` |
| configurations, deployments, descriptors | `CreateClusterConfiguration`, `DeleteClusterConfiguration`, `DeleteClusterDeployment`, `StorePeerDescriptor`, `DeletePeerDescriptor` |
| streams, made of the actions of `PeerLinks` | `UpdatePeerConnectionState`, `RegisterPeer`, `CancelOpen`, `StreamBreaks`, `RemovePeer` |
| CARL restarts | `Restart` |

`list_peer_member_states` builds a map from device to cluster whose content
depends on iteration order when two deployments share a device; `DeployedDevices`
is the set of all maps it can build.  Its assertion is `AssertionFails`, which ends
a gRPC call, and in the effect ends the task for good (`alive`).  Devices are
given to members by `DeviceOwners`, any peer that lists the device; ports to
members in any order, as the code iterates a hash map.  The
broker is known only by what `PeerLinks` promises, with `online` and `reachable` as
variables of this module: listings and `GetPeerConnectionState` see the first,
`send_to_peer` in `AssignCluster` only the second.  They disagree while a call has stored
`Online` and not registered yet, while a stream is dead and not cleaned up, and when
`Offline` is stored before the entry is removed, so that a peer that has just gone offline
can still be sent to and its next stream begins with the entry of the last.  What happens
to the streams of a peer after its descriptor was removed (`Disturb`) is left out here.
The VPN service may refuse.  Store operations under redb have no foreign keys, so that inserting a
deployment does not depend on its configuration.

`edited`, `moved`, `failed` and `lagged` are history.  `NoLostWakeup` promises nothing
for a cluster in `failed` nor once the effect has `lagged`: the code does lose these
wake-ups (hazards at `peer_messaging_broker/mod.rs:143` and `subscription.rs:98`).  `edited` holds the
clusters configured anew while deployed or being deployed, `moved` the peers
given a device that was in use; they name exactly the changes against which CARL
has no check, so that the invariants say that nothing else breaks disjointness.
(Once two deployments do share a peer, `list_peer_member_states` panics in every
later listing; `Operators` shows how far the clients prevent it.)  `failed` holds
the clusters a deployment gave up.  One way to get there is a deployment that
meets a peer between its Online event and its map entry: it is not tried again
while the peers stay online.

### Runs

* `cluster_safety` - one peer with one or two devices, two clusters that want
  either: checks, inserts, edits, deletions, cancellations and a VPN service that
  refuses.  `DeployedClustersDisjoint`, `DeployedClustersConfigured`, and types,
  which bound the ports: with the range 10..12 the counter wraps around at the
  third deployment.
* `cluster_wakeup` - one cluster over two peers that come and go.  No wake-up is
  lost between the deployment and the effect (`NoLostWakeup`), and members never
  disagree (`MutualMembersAgree`).

Bounds: two clusters and one peer are the fewest that can conflict; two peers the
fewest for a partial roll-out.  `EventCapacity = 1` makes the effect lag, from
where on `NoLostWakeup` promises nothing until the restart.  In `cluster_wakeup` only
the leader's entry may outlive its `Online` (`MCFairSpec`); `cluster_safety` has no such
bound.  `MCSymmetry`
permutes the clusters, which no constant tells apart.  `MCView` leaves out
`failed` and `lagged`, which no guard reads and of the checked invariants only
TypeOK, proved below, mentions.  Deadlock is checked, and says little: operators
can always act.

Fairness: `WF` for the steps of a call under way and of the effect's receive;
`SF` for the effect's acquisition of the mutex, because tokio's mutex is FIFO:
a waiting effect gets it although gRPC calls keep taking it in between; `WF` for
the step of `open` that inserts the map entry.  A stream need not be cleaned up,
and operators need not act.

### Proved, for every set of peers, devices, clusters, configurations and ports

In `ClusterManagerProofs`, from `InputsAssumption`:

* `TypeCorrect` - with `CallOK` (a call knows its cluster, and later its
  configuration) as strengthening.  The interesting case is
  `DetermineMemberInterfaceMapping`: the members are finitely many, and both
  branches of the wrap-around leave room for all ports (`PortsInRange`).
* `DisjointDeployments`, `ConfiguredDeployments` - with `DisjointInv`:
  disjointness survives the insert only because `InsertDisjoint`, the result of
  the check restated for the state in which the insert happens, is itself kept by
  every step anyone takes in between; `UnknownPeersBare` links the check, which
  sees peers with a descriptor, to the property, which is about all peers.
* `MembersAgree` - inductive on its own: the transaction gives all members of a
  cluster the assignment that names exactly them, so that a peer outside of it
  that still names one of them is not named in return.

`WidthAssumption` says that the u16 sums of the port computation do not overflow;
ranges that end within twice the number of peers of 65535 are outside the model.

## 5. Resource manager and observer

`ResourceStore` is the promise: tables of several kinds that change in atomic
steps, and per kind a stream of events that explains every change (`After`) and
never announces as removed what was not stored (`Truthful`).  It also says what the
code does at its limits: a kind may be `lost`, a subscriber may jump forward.

`ResourceManager` is the code: `Begin`, `Insert`, `Remove`, `Commit`, `Rollback` of
the transaction that holds the lock (`resources_mut`); its events wait in a relay,
a broadcast channel of the same capacity, which `Commit` drains into the
subscribers' channels; the drain loop stops at the first `Lagged`, so that an
overflowing relay loses all events of its kind (`Drained`, `lost`).  `Subscribe`,
`Received` are a receiver's position in a bounded channel.  `Restart` keeps the
persistent kinds and runs the one-time migration from PostgreSQL (`Migrated`).
`RMWrite` is any user of the store.

`ObserverMessagingBroker` runs calls of CLEO's `await` over it: the bounds of the
duration (`Wait`), `ListStates`, then `SubscribeStates` in a second access, the
`FirstResponse`, the loop `Observe`/`Respond`, and how it is left (`Leave`); CLEO's
side is `CleoReceive`, `CleoDisconnected`, `CleoStopped`.

Run `store_observer`:

* `StoreImplemented` - the refinement `Store!AbstractSpec`, with `store <- tables`
  and `cursor <- next`: uncommitted changes are invisible, a failed, cancelled or
  uncommittable transaction leaves no trace, committed changes are announced in
  full and in order, or the kind is lost as a whole.
* `ObserverFollowsStore` - unless the observer `missed` something (the states
  changed between the listing and the subscription, or its receiver lagged) or a
  relay overflowed, its view of all its peers is the store's at one single moment.
* `AwaitEnds` - `await` returns.  That it returns with the truth is not promised:
  a peer that comes online between listing and subscription is not seen
  (`observe_peers_online.rs:36`), and the wait ends with a failure.

Bounds: channels of capacity 1 overflow at the second event; two peers, of which
a call asks for none, one or both; two connection-state events and one descriptor
event between restarts; durations on both sides of 30 s and 3600 s.  `MCNext` lets
descriptors, which only the beginning of a call reads, change before the first
call only, and begins no transaction once CLEO is gone.  Fairness: `WF` for
the end of a transaction (a closure holding the lock returns), for the observer's
and CLEO's steps and for time; `SF` for the observer's two accesses to the store,
because tokio's RwLock is fair to those who wait.

### Proved, for every set of kinds, identifiers, subscribers and every capacity

In `ObserverMessagingBrokerProofs`:

* `ResourceManagerImplementsStore` - `Store!AbstractSpec` from `Spec`: the initial
  states map to initial states, a commit maps to one atomic step of the store, a
  subscriber's receiving and a restart to themselves, everything else stutters.
  `Explained` is the invariant behind it: a volatile table is what the events that
  were published for it make of an empty one.  A commit appends the events of the
  whole transaction in order, and `After` of the longer sequence is the table with the
  transaction's writes.
* `ViewsFollowTheStore` (`ObserverFollowsStore`) - `Follows` says at which event a view
  stands: what the listing returned is the table of the moment of the subscription,
  unless the call `missed` a change in between, and every event that is received brings
  the view one event further.

## 6. EDGAR

`Edgar` composes the stream (`Connect`, `Receive`, `StreamEnds`, `CarlRestart`), the
bounded queue (`ReceiveWithoutRoom` is the reader that waits for room), and the
handler, one action per step it can fail at:

| code | actions |
|---|---|
| take the next configuration | `Take` |
| `setup_cluster` | `RecreateBridges`, `SetupEthernetGreInterfaces`, `JoinEthernetInterfacesToBridge`, `SetupLocalRouting`, `PanicWithoutRoot`, `SetupRemote` |
| executors, metrics | `CreateNewExecutors`, `SetupClusterMetrics` |
| `CannelloniManager` loop | `Spawn`, `RestartExited`, `KillCannelloniProcess`, and the processes' `Start`, `Crash` |
| `ContainerManager` | `CreateResultsDir`, `DetermineName`, `StartContainer`, `StopIfTold`, `UploadIfReady`, `Inspect`, `CleanupResultsDir`, `CommandFails`, and the containers' `Started`, `Running`, `Signal`, `Exit` |

`kernel` (bridges and what is joined to them, CAN) and `containers` outlive EDGAR.
A failing task ends the list, and its caller goes on, as in `runner.rs:59` and
`peer_configuration.rs:78`, where the error of `setup_cluster` is only logged.
CARL appears as what it sends.  EDGAR with its network interface management
disabled is left out.

Run `edgar`: `BridgeIsolated` (what a former configuration left on the bridge never
meets the tunnels of the one that was last set up, whatever failed since),
`Converges` (EDGAR comes to rest with the last configuration applied, although the
cannelloni processes of successive assignments compete for ports),
`ToldContainersStop`, `ResultsKept`, types.  `ToldContainersStop` counts the end of
EDGAR as an end: containers are started detached (`container_manager.rs:136`), and
after a restart nobody manages the ones that still run.

Bounds: two assignments, queue of 1, two faults, crashes or restarts together (one
in test execution); the configurations of one behaviour are about one of three
parts, Ethernet, CAN or execution, which share no state but the handler's order.
Fairness: `WF` for tokio's tasks, for systemd's restart and for connecting at last;
`SF` for `KillCannelloniProcess`, because `monitor_process` looks at the exit before
it looks at the token, and a process that exits at every single look is not
something the machine does.  Crashes, faults and operators are not fair.

### Proved, for every set of peers, devices, bridges and executors

In `EdgarProofs`, from `EdgarAssumption`, `CannelloniAssumption` and
`ExecutorAssumption`: `EdgarTyped`, `BridgeStaysIsolated`, `ResultsNeverLost`, with

    IInv == ServiceInv /\ HandlerInv /\ KernelInv /\ TunnelInv /\ ExecutionInv

`KernelInv` is what `BridgeIsolated` lacks: while the handler is between the recreation
of the bridges and the last join, the bridge on record is the one that is being set
up, and the interfaces wanted on it include what the remaining steps join; a failed
task leaves it short of some, never with others.  For that, `HandlerInv` says that
those steps run only with an assignment and a bridge, `KernelOK` that interfaces are
joined only to bridges that exist, and `ServiceInv` that everything on its way to the
handler is a configuration CARL can have sent.  `ExecutionInv` keeps, per execution,
that a directory is done with only after its container exited and, with a URL, its
results were received.  The assumptions name what the tasks rely on: the descriptor's
bridge is one, an assignment's ports belong to its members, an Ethernet interface is
no CAN interface.

### Setup

`EdgarSetup` is `edgar setup`: `Configure` with the file's `Create`,
`SetPermissions`, `Write`; then the list of tasks of the mode (`Managed`, `Unmanaged`, `UserTasks`), per
task `Skip` if `Fulfilled`, or `Execute` in the steps between which it can be cut.
`Interrupt` is an error, a signal or the power going; `LeftHost` and `LeftFiles` are what
it leaves, half-written files included; `Reboot` starts what is enabled.

Run `edgar_setup`, from four command lines (two setup strings that differ in
everything, a dry run, an unmanaged setup), two interruptions: `InstalledAsRequested`,
`SecretStaysPrivate` (at no step is the client secret readable by others),
`DryRunChangesNothing`, `RetriesSucceed`.  The restrictions of the instance are in the
header of `MCEdgarSetup`.  The only fairness is that a setup under way goes on;
`RetriesSucceed` is conditional on an operator who starts it again and again, and is about
the setup's success only; what a success is worth is `InstalledAsRequested`.
`InstalledAsRequested` excuses the tasks that judge by existence, if a setup was cut
inside them, and those that an attempt with other contents left half executed:
`write_ca_certificate.rs:64` compares checksums that are written after the files, so
that an attempt with another certificate that is cut before them leaves its file
behind, and the first setup, run again, takes its own for installed.  The third excuse is
the trust store (`host.trust`, what `update-ca-certificates` has made of the files): a
setup that ends between the copy and the command leaves both files and no second
checksum, whereupon the task compares the files, finds them equal and is skipped
(`JudgedByFiles`): the first setup fails for want of the command, the second succeeds, and
the machine does not trust the certificate (section 11).

Proved in `EdgarProofs` too, from `SetupAssumption`: `SecretNeverReadable`
(`SecretStaysPrivate`) with `FilesInv`, by which a file that is about to be written is
already private, and `DryRunIsDry`.  `Installed` (`InstalledAsRequested`) takes the
tasks one by one.  `Owner` and `MayTouch` say which task may change which field of the
host; `Rank` gives the order of the tasks, which the lists of both modes follow
(`TasksInOrder`).  Of the task under way `TaskBegun` says what its steps so far have done,
of the tasks before it `Post` what they have left, and of the last setup that succeeded
`Left` what of that a reboot leaves.  A later task undoes none of it (`PostElsewhere`),
and a task that is skipped as fulfilled has been done (`SkipPost`): that needs
`Fits`, by which a checksum vouches for what is installed, except where an attempt with
another content was cut, the setup under way included (`Cuts`, `Undone`), and, of the
trust store, where the task judged by the files.
`SetupInv` is the conjunction; `RunInv`, `HostInv` and `TextsInv` in it are the types.  The
assumption that `Absent` is not `Partial` is needed here: a file that is missing differs
from one that a write has left incomplete.

## 7. Provisioning

`NetbirdManagementClient` is CARL's VPN client, one action per HTTP request.  A
request is answered, refused, or takes effect without its answer arriving; then it
fails, or the retrying middleware repeats it: a second DELETE finds nothing, a
second POST creates a second resource (`Outcomes`).  The service is external.

`Provisioning` runs the calls over it: storing and deleting a peer and undeploying
a cluster inside a write transaction, generating a setup under the read lock,
deploying under the ClusterManager's mutex only; the OIDC provider's `ListClients`,
`DeleteClients`, `RegisterClient`; and hosts that are set up with any of the setups
handed out (`Managed`, `CheckCarlReachable`, `Install`, `Connect`, `RestartService`).
Between any two of its requests a call whose gRPC client is gone is dropped
(`DropCall`; a deployment that the effect began has no client), and CARL may go down and
come up again (`CarlRestart`): locks are released, transactions rolled back, and what
NetBird and the provider were asked for stays.  EDGAR's services then lose their stream,
end, and are started again by systemd until they are connected (`Reconnect`).

Run `provisioning`, one peer, one cluster, one host, two calls at a time, six calls,
faults, setups and restarts of EDGAR together, of which one fault (a failed request, a
dropped call or a restart of CARL):

* `NothingLeftBehind` - store and delete keep the three systems together: without a
  descriptor no key and no client at any step, no group once the calls have ended.
  `unclean` names what no client of these interfaces can know: an answer about a
  group that was lost, a refused commit or undo, or a store that was dropped, or
  ended with CARL, after it had created the group (`GroupMade`).  That such a group stays
  is the code's behaviour (`store_peer_descriptor.rs:30`): nothing looks for it later.
* `LastSetupUsable` - concurrent generates delete each other's OIDC clients; the
  last to end, if it succeeded, handed out a setup that works; one that is dropped ended
  without success.
* `PolicyOnlyWhileDeployed` - except for a deployment `overtaken` by its undeployment,
  which nothing prevents (`delete_cluster_deployment.rs:34` is not under the mutex, which the facade releases at
  `grpc/cluster_manager.rs:182`).
* `ClusterConnects` - a cluster that stays deployed with its peers set up and
  online ends with their present machines in a group with a policy, although generating
  a setup logs a machine out of the VPN, requests of other calls are lost and CARL
  restarts.  Excepted are clusters in `hurt`: a deployment or an undeployment of their own met a
  failed request or was dropped, which CARL does not repeat by itself
  (`grpc/cluster_manager.rs:159`), and none has succeeded since; and names that stand twice in
  NetBird (`Unique`), after a repeated POST or over a group left behind: CARL refuses
  those for good.

Fairness: `WF` of each call's next step (requests time out), of a setup under way, and of
a service that reconnects, because systemd restarts it for ever
(`create_service.rs:36`).

Left out: a request that takes effect after the call which sent it was dropped, a CARL
that stays down while hosts are set up, and a CARL without a database, which forgets its
peers (`ResourceManager` has both kinds of restart).

### Proved, for every number of peers, clusters, hosts, calls and faults

In `ProvisioningProofs`, from `NetbirdAssumption` and `ProvisioningAssumption`:
`ProvisioningTyped`, `StoreAndVpnAgree` (`NothingLeftBehind`), `SetupHandedOutWorks`
(`LastSetupUsable`) and `UndeployedHasNoAccess` (`PolicyOnlyWhileDeployed`), with

    IInv == DataInv /\ CallsInv /\ NamesInv /\ LocksInv

None of the three is inductive: each is the work of calls of many requests, of which
every one may be lost, refused or sent twice.  `CallsInv` says, for a call at each of its steps, what NetBird
and the OIDC provider hold for its own name: that a deletion which has come to the
keys has dealt with the clients, that an id it is about to delete is of its own name.
`NamesInv` says what they hold for a name no matter who works on it, `LocksInv` which
calls can be about one name at a time, so that a step of one call leaves true what is
said of another; of a call that is dropped nothing is left to say, but that a group it
has made makes its name `unclean`: two writers never are, two generates may be, and a deployment meets
an undeployment only of a cluster that is `overtaken`.  `DataInv` keeps ids unique,
which is why a step on one name touches no other.

## 8. Operators

`Operators` models every changing command of CLEO and LEA's pages of peers and
clusters: each action is one call of CARL or one edit; between them the other
client acts.  `PeerDescriptors` has the descriptor as far as its parts refer to each
other, and its conversions to messages, to LEA's form and from specification files.

Run `operators`, two clients, five commands and edits, four files:

* `InterfacesResolve` - every device names an interface of its own descriptor
  (`interfaces_zipped_with_devices` panics otherwise).  Copies undo each other's
  changes, but always as a whole.  Only `apply` stores what it does not check
  (`apply.rs:45`, history `misapplied`), and, as its documents are stored one by one,
  may store some of them.
* `ClusterDevicesExist`, `DeployedConfigurationKept` - the clients' checks leave no
  gap but the ones named: a look that was out of date, a list that LEA could not
  read and takes for empty, a page that has not loaded yet, an applied file.

### Proved, for every number of clients, peers, devices and clusters

In `OperatorsProofs`, from `OperatorsAssumption` and `TextAssumption`:
`DevicesFindTheirInterfaces` (`InterfacesResolve`), `ClusterDevicesStayKnown`
(`ClusterDevicesExist`) and `DeployedConfigurationsKept`, with

    IInv == StoredOK(...) /\ ops \in 0 .. MaxOps /\ ClientsInv

`StoredOK` has the two invariants for what is stored, and that its descriptors come
through the conversion to messages unchanged (`Wire`); a form that is opened and saved
would otherwise store another descriptor than the one that was looked at.  `ClientsInv`
says what a client holds (`Holding`: a copy that resolves, so that storing it cannot
break anything but what others stored since) and, as long as nobody has overtaken it,
how this agrees with what is stored (`Current`: the devices it has looked at are not in
use, the ones it knows exist).  A store makes every other client stale, and a stale
client's changes are among the exceptions; what has to be shown is that everything else
is caught by `Current`.

### Bounds

The clients are interchangeable (symmetry).  Two are the fewest that can overtake each other; the longest scenario, two
reads, a deletion and two stores, takes five operations.

## 9. API calls

`ApiCalls` follows a call from a method of the client library through the token
storage (`GetToken`, `IssueToken`, `UpdateStorageToken`) or LEA's session, CARL's
interceptor (`AuthInterceptor`, keys fetched from the provider), the facade and its
manager (`Execute`, one action per method), the reply and its conversion (`Receive`).
`CloneVpn` is the moment for which an undeployment needs the ClusterManager's mutex.
Connections break (`LoseConnection`), CARL drops requests (`DropRequest`), keys rotate
and retire, time passes.  `CarlApi` has the two chains of error conversions.  The key
cache is cloned with the interceptor for every request, so that in effect every
request asks the provider (the test `test_authorize_user_jwk_already_cached` uses one
cache); the model has no cache.

Run `api_calls`, two callers, two clusters:

* `ReportedAsHappened` - Ok carries the handler's value; a usage error is the
  manager's own and its call changed nothing; no reply CARL forms is invalid for the
  client.  "Changed" is about CARL's store: what a failed call has already asked of
  NetBird is `Provisioning`.  (The text "Peer {peer} deleted with internal errors",
  `carl/peer.rs:54`, is shown although that call was rolled back; see section 11.)
* `FreshToken` - the grace period covers the time a token was under way.
* `EveryCallEnds`.

The instance lets time pass, keys change and LEA's user sign in only while nothing is
stored, and then only `version` is called.  A caller that has its outcome is
forgotten first.  Fairness: `SF` of each call's next step: tokio runs what is ready, the
provider answers in the end, and the mutex is FIFO.

### Proved, for every number of callers, clusters and keys, and all lifetimes

In `ApiCallsProofs`, from `CallsAssumption`: `CallsReportedAsHappened`
(`ReportedAsHappened`) and `StoredTokensFresh` (`FreshToken`).  The inductive invariant
is `SharedOK` (the token storage, the keys, the stores), `CallOK` for every call and
`OneHolder`: at most one call is between the check and the insert of
`store_cluster_deployment`.  `CallOK` follows a call through its steps on both ends: what
the handler did is what its reply says, and what the reply says survives both chains of
conversions (`Agrees`), which is shown method by method and error by error; without
`OneHolder` a usage error could be reported of a call that changed something.
`FreshToken` is about steps and follows from the ranges the invariant gives the clock
and the stored expiry.

## 10. Peer form

`PeerForm` is LEA's page of a peer: every input with its validation (texts reach the
form after a pause of 300 ms: `TypeText`, `Settle`), lists, the draft of a new
interface, the check behind the Save button, `Save`, CARL's `StorePeerDescriptor`, the
Delete button (`Delete`, `DeletePeerDescriptor`), which does not wait for a save, another
client's deletion (`DeletedElsewhere`), `Load` and `Reload`.  `ValidatedTexts` has the types that accept a text by length and
characters; a text is a length and a class of characters.  `PeerConversions` has form
to descriptor to message and back.

Run `peer_form`: `SaveAnswered`, `ReloadShowsSaved`, `UntouchedSaveKeeps`,
`DistinctInterfaceNames`, `PanicsExplained`.  What the exceptions they name amount to:

* a description or a bridge name that is not valid lets the button be clicked, and
  the click is dropped with a log line (`configurator/mod.rs:173`, `controls.rs:75`);
* Save within the pause stores the former text (`user_input.rs:37`);
* LEA drops the tags of devices;
* names are compared trimmed and stored as typed (`network_interface_input.rs:39`);
* adding a CAN interface unwraps hidden inputs (`:224`), and its bitrate times 1000 may
  overflow (`:229`); loading an executor that is no container is a `todo!()`
  (`configurator/mod.rs:104`);
* also in the model: deleting an entry of a list deletes all equal ones
  (`vector_user_input.rs:20`), a results URL once typed cannot be cleared
  (`executor_panel.rs:719`), and a peer that cannot be read is shown as a new one
  (`configurator/mod.rs:65`).

`SaveAnswered` also says that a page which offers the setup of its peer has a stored one,
unless another client deleted it, and that a page left after a deletion leaves no peer
behind, unless a save that was under way came later.

Bounds: texts on both sides of each limit; sample points below zero (for which a NaN
stands too: the cast makes it 0, and no range contains it) and on both sides of the
rounding to 1; at most five edits, two of them outside
the network tab, which is used on an otherwise unedited page, as its inputs are read
nowhere else; one request in flight.  TLC's integers have 32 bits, so that `U32` is
scaled to 2^24, just below the product of the instance's one bitrate.  The order of
interfaces is left out; clusters of devices are in `Operators`.

### Proved, for every set of texts, numbers, interfaces, devices and executors

In `PeerFormProofs`, from `NoneIsNoValue` and `PeerFormAssumption`:
`PageSaveAnswered` (`SaveAnswered`), `PageReloadShowsSaved` (`ReloadShowsSaved`),
`PageUntouchedSaveKeeps` (`UntouchedSaveKeeps`), `PageDistinctInterfaceNames`
(`DistinctInterfaceNames`) and `PagePanicsExplained` (`PanicsExplained`).  The run
enumerates a handful of texts on either side of each limit; the theorems are about
texts of any length.

Three lemmas carry them, each built up from texts over devices and executors to peers.
`PagePeerSaved`: a form that passes the button and its conversion is made into a
descriptor, without a panic, and that is shown as the form again but for the printing of
URLs.  `PagePeerRoundTrip`: a descriptor's message is accepted and read back as a
descriptor with the same message (not always as the same one: a missing description
comes back as an empty one).  `PagePeerShown`: a descriptor is shown as a form that can
be saved and gives back the same message but for the tags.  The inductive invariant is

    IInv == SaveAnswered /\ DistinctInterfaceNames /\ DistinctMessageNames
            /\ TypingOK /\ RightNumbers /\ RightNameFree /\ LoadingUntouched
            /\ RequestIsClicked /\ StoredIsKept /\ StoredReadable /\ OriginShown

split in the proofs into what an edit changes (`PageInv`) and what a save changes
(`CarlInv`).  `OriginShown` and `StoredIsKept` say where the form and the stored message
came from, which is what `ReloadShowsSaved` and `UntouchedSaveKeeps` follow from with the
three lemmas; `RequestIsClicked` and `StoredReadable` are what makes CARL accept, and the
page load.  `RightNumbers` is what `AddInterface` unwraps.  `RightNameFree`: a name
marked right was free when it was checked, adding an interface empties the draft, and a
page is loaded only before anything was typed (`LoadingUntouched`).  `DistinctMessageNames`: what this page stored is loaded again.

The assumptions are what the code's types give: the fields of a `PeerDescriptor` are
newtypes that only `try_from` builds, so that another client's descriptor has none but
accepted texts (`IsDescriptor`); a results URL is a `url::Url`, which prints as it is
read; `NotANumber` and `None` stand for what is no number and no value.

## 11. Findings

*An old stream's clean-up unregisters its successor* (`broker_reachable`).
`remove_peer_impl` stores `Offline`, and only in a later section removes the map
entry, whoever's it is.  A peer that reconnects in between runs a stream that CARL
cannot send to.

*A repeated setup takes an untrusted certificate for installed* (no run of its own; it is
the excuse `JudgedByFiles` of `InstalledAsRequested`, without which the run `edgar_setup`
fails).  A setup that ends between the copy of the certificate and
`update-ca-certificates` (it is cut, or the command is missing,
`write_ca_certificate.rs:136`) leaves two files that agree.  The next setup with the same certificate compares them (`:51`), skips the task and succeeds;
the machine's trust store was never updated, which NetBird and the upload of results rely
on (`:140`), although `TaskFulfilled::Yes` is to mean that the task "does not need to be
executed, or successfully changed the host system" (`common/task/mod.rs:20`).

One message describes what did not happen: `DeletePeerDescriptorError::Internal` reads
"Peer {peer} deleted with internal errors" (`carl/peer.rs:54`), and CARL sends it for a
deletion it has rolled back.  No property is about texts, so that it has no run.

The other weaknesses named in sections 3 to 10 contradict no statement of the
repository that we know of; they are the exceptions in the properties, kept as history
variables where a property has to know of them.

## 12. Only model-checked

* All liveness: the prover does not handle fairness.  `OnlyPingingStreamsSurvive`,
  `DisconnectHonoured`, `NoLostWakeup`, `AwaitEnds`, `Converges`, `ToldContainersStop`,
  `RetriesSucceed`, `ClusterConnects`, `EveryCallEnds`.

Every other checked property of a passing run is a theorem.  Each inductive invariant was
an invariant of a TLC run on the module's instance before it was proved.  Where a module has no run of its own
for its type invariant, it is the first conjunct of the main invariant
(`ObserverFollowsStore`, `InterfacesResolve`, `InstalledAsRequested`,
`ReportedAsHappened`, `SaveAnswered`).  That guards and exceptions are not too strong
is shown by the mutants in `PROJECT.json`: for each checked property a plausible fault
in one mapped definition, under which TLC finds the property violated.

## 13. Not modelled, and why

* Postgres queries: SQL, read only by the one-time migration, whose effect is in
  `ResourceManager`.
* EDGAR's restbus simulation: a parser of ARXML and a replayer that EDGAR does not
  call.
* The ping and rperf processes of the network metrics: their numbers go to a metrics
  service.  (`rperf/server.rs:30` drops the handle of the server it has just started.)
* LEA's dashboards, downloads, routing and layout; CLEO's listing and describing
  commands; setup plugins; the encoding of setup strings: they print, render or
  convert, and no state depends on them.
* A leader without devices does not trigger a deployment when it comes online
  (it is not among the cluster's peers); the instances of the liveness run give
  every leader a device.
* The effect goes through its clusters one after the other and stops at the first
  error; `failed` records it, and `NoLostWakeup` makes no promise for the clusters
  given up with another.
* NetBird, the OIDC provider, netlink, the container engine, systemd: external,
  modelled by what the code relies on.
* THEO, CI and the build: tooling.
