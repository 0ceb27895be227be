-------------------------------- MODULE Edgar --------------------------------
(***************************************************************************)
(* EDGAR, the agent on a peer: the stream to CARL, the queue of            *)
(* configurations, the task that applies them one after the other, and     *)
(* what it changes: the kernel's bridge, GRE tunnels and CAN routes, the   *)
(* cannelloni processes, the containers and the network metrics.           *)
(*                                                                         *)
(* CARL appears as it is seen from here: it stores the descriptor of this  *)
(* peer, adds to its PeerConfiguration with every assignment and sends it, *)
(* and sends what it has stored when the stream is opened.                 *)
(***************************************************************************)
EXTENDS CannelloniManager, ContainerManager

CONSTANTS
    Self,          \* this EDGAR's PeerId
    Bridges,       \* names of Ethernet bridges
    Ethernet,      \* Ethernet interfaces of devices
    Can,           \* CAN interfaces of devices
    Descriptors,   \* what operators store: [bridge, devices, executors]
    Assignments,   \* cluster assignments: [leader, port], members are DOMAIN port
    None,          \* no bridge, no assignment
    QueueCapacity, \* capacity of tx_peer_configuration
    MaxAssignments, MaxRestarts, MaxFaults

ASSUME EdgarAssumption ==
    /\ Self \in Peers /\ Ethernet \cap Can = {}
    /\ None \notin Bridges /\ None \notin Assignments /\ "absent" \notin Bridges
    /\ Descriptors \subseteq [bridge : Bridges, devices : SUBSET (Ethernet \cup Can),
                              executors : SUBSET Executors]
    /\ \A a \in Assignments :
        /\ DOMAIN a.port \subseteq Peers /\ {Self, a.leader} \subseteq DOMAIN a.port
        /\ \A p \in DOMAIN a.port : a.port[p] \in Ports
    /\ QueueCapacity \in Nat \ {0}
    /\ {MaxAssignments, MaxRestarts, MaxFaults} \subseteq Nat

VARIABLES
    carl,       \* this peer in CARL: descriptor, stored configuration, assignments made
    service,    \* "up" while the stream is open
    inbox,      \* configurations in the stream
    queue,      \* tx_peer_configuration
    handler,    \* the task that applies configurations: its step and what it applies
    kernel,     \* interfaces of this machine, see Kernel
    metrics,    \* peers measured by the network metrics tasks
    root,       \* EDGAR runs as root
    faults, restarts,
    \* history
    faulty,     \* applying the current or last configuration met an error
    isolated    \* bridge of the last successful recreation, with the interfaces wanted on it

edVars == <<carl, service, inbox, queue, handler, kernel, metrics, root, faults, restarts,
            faulty, isolated>>
vars == <<edVars, caVars, exVars>>

Configuration == [assignment : Assignments \cup {None},
                  devices    : SUBSET (Ethernet \cup Can),
                  bridges    : Seq(Bridges),
                  executors  : SUBSET Executors]
NoConfiguration == [assignment |-> None, devices |-> {}, bridges |-> <<>>, executors |-> {}]

Joined == Bridges \cup {None}
Kernel == [bridges : SUBSET Bridges,
           device  : [Ethernet -> Joined],               \* the bridge it is joined to
           tunnel  : [Peers -> Joined \cup {"absent"}],  \* GRE tunnel to the peer
           vcan    : BOOLEAN,                            \* the CAN bridge exists
           routed  : SUBSET Can]                         \* CAN interfaces with routes

Idle == [pc |-> "idle", conf |-> NoConfiguration]

Init ==
    /\ CAInit /\ EXInit
    /\ \E d \in Descriptors : carl = [desc |-> d, stored |-> NoConfiguration, made |-> 0]
    /\ service = "down" /\ inbox = <<>> /\ queue = <<>> /\ handler = Idle
    /\ kernel = [bridges |-> {}, device |-> [i \in Ethernet |-> None],
                 tunnel |-> [p \in Peers |-> "absent"], vcan |-> FALSE, routed |-> {}]
    /\ metrics = {} /\ root \in BOOLEAN
    /\ faults = 0 /\ restarts = 0
    /\ faulty = FALSE /\ isolated = [bridge |-> None, wanted |-> {}]

TypeOK ==
    /\ CATypeOK /\ EXTypeOK
    /\ carl \in [desc : Descriptors, stored : Configuration, made : 0 .. MaxAssignments]
    /\ service \in {"down", "up"}
    /\ inbox \in Seq(Configuration) /\ queue \in Seq(Configuration)
    /\ Len(queue) <= QueueCapacity
    /\ handler \in [pc : {"idle", "bridge", "gre", "join", "can", "remote", "executors",
                          "metrics", "panicked"}, conf : Configuration]
    /\ kernel \in Kernel
    /\ \A i \in Ethernet : kernel.device[i] \in kernel.bridges \cup {None}
    /\ \A p \in Peers : kernel.tunnel[p] \in kernel.bridges \cup {None, "absent"}
    /\ metrics \subseteq Peers \ {Self} /\ root \in BOOLEAN
    /\ faults \in 0 .. MaxFaults /\ restarts \in 0 .. MaxRestarts /\ faulty \in BOOLEAN
    /\ isolated.bridge \in Joined /\ isolated.wanted \subseteq Ethernet \cup Peers

----------------------------------------------------------------------------
(* CARL: store_peer_descriptor and assign_cluster.                          *)

StorePeerDescriptor(d) ==
    /\ carl.made < MaxAssignments /\ carl.desc # d
    /\ carl' = [carl EXCEPT !.desc = d]
    /\ UNCHANGED <<caVars, exVars, service, inbox, queue, handler, kernel, metrics, root, faults,
                   restarts, faulty, isolated>>

\* PeerConfiguration::set drops the parameter of the same id, of which there is
\* at most one since nothing else adds any, and appends; nothing is ever set to
\* Absent, so that what a descriptor had stays Present.
SetParameter(bridges, b) == Append(RemoveFirst(bridges, b), b)

AssignCluster(a) ==
    /\ service = "up" /\ carl.made < MaxAssignments
    /\ LET old == carl.stored
           new == [assignment |-> a,
                   devices    |-> old.devices \cup carl.desc.devices,
                   bridges    |-> SetParameter(old.bridges, carl.desc.bridge),
                   executors  |-> old.executors \cup carl.desc.executors]
       IN  /\ carl' = [carl EXCEPT !.stored = new, !.made = @ + 1]
           /\ inbox' = Append(inbox, new)
    /\ UNCHANGED <<caVars, exVars, service, queue, handler, kernel, metrics, root, faults,
                   restarts, faulty, isolated>>

----------------------------------------------------------------------------
(* The service: run_stream_receiver.                                        *)

\* Connecting is retried, by EDGAR and then by systemd; the broker sends the
\* stored configuration, or an empty one, on opening.
Connect ==
    /\ service = "down"
    /\ service' = "up" /\ inbox' = <<carl.stored>>
    /\ UNCHANGED <<caVars, exVars, carl, queue, handler, kernel, metrics, root, faults, restarts,
                   faulty, isolated>>

\* The process ends and with it all its tasks and the processes of its
\* service; the kernel's interfaces and the containers stay.
Ends ==
    /\ service' = "down" /\ inbox' = <<>> /\ queue' = <<>> /\ handler' = Idle /\ metrics' = {}
    /\ CannelloniKilled /\ ManagersLost
    /\ UNCHANGED <<kernel, root, faults, isolated>>

\* No message in time, a closed stream, a disconnect notice, a bad status.
StreamEnds ==
    /\ service = "up" /\ restarts < MaxRestarts
    /\ restarts' = restarts + 1 /\ UNCHANGED <<carl, faulty>>
    /\ Ends

\* CARL keeps configurations in memory only.
CarlRestart ==
    /\ service = "up" /\ restarts < MaxRestarts
    /\ restarts' = restarts + 1 /\ UNCHANGED faulty
    /\ carl' = [carl EXCEPT !.stored = NoConfiguration]
    /\ Ends

\* A mutant: a configuration is sent without waiting for room.
ReceiveWithoutRoom ==
    /\ service = "up" /\ inbox # <<>> /\ handler.pc # "panicked"
    /\ queue' = Append(queue, Head(inbox)) /\ inbox' = Tail(inbox)
    /\ UNCHANGED <<caVars, exVars, carl, service, handler, kernel, metrics, root, faults,
                   restarts, faulty, isolated>>

\* apply_peer_configuration_raw: sending waits for room, and fails once the
\* handler is gone, which ends the service.
Receive ==
    /\ service = "up" /\ inbox # <<>>
    /\ \/ /\ handler.pc # "panicked" /\ Len(queue) < QueueCapacity
          /\ queue' = Append(queue, Head(inbox)) /\ inbox' = Tail(inbox)
          /\ UNCHANGED <<caVars, exVars, carl, service, handler, kernel, metrics, root, faults,
                         restarts, faulty, isolated>>
       \/ /\ handler.pc = "panicked"
          /\ UNCHANGED <<carl, restarts, faulty>>
          /\ Ends

----------------------------------------------------------------------------
(* The handler: apply_peer_configuration, a step per part.                  *)

Doing(pc) == service = "up" /\ handler.pc = pc
Proceed(pc) == handler' = [handler EXCEPT !.pc = pc]
OutsideHandler == <<carl, service, inbox, root, restarts>>

\* An error is possible as long as the bound allows for one.
Fault == /\ faults < MaxFaults
         /\ faults' = faults + 1
         /\ faulty' = TRUE
NoFault == UNCHANGED <<faults, faulty>>

Take ==
    /\ Doing("idle") /\ queue # <<>>
    /\ handler' = [pc |-> "bridge", conf |-> Head(queue)]
    /\ queue' = Tail(queue) /\ faulty' = FALSE
    /\ UNCHANGED <<caVars, exVars, carl, service, inbox, kernel, metrics, root, faults, restarts,
                   isolated>>

Conf == handler.conf
Members == DOMAIN Conf.assignment.port
IsLeader == Conf.assignment.leader = Self
\* determine_remote_assignments
Remotes == IF IsLeader THEN Members \ {Self} ELSE {Conf.assignment.leader}
\* The first bridge that is Present; setup_cluster runs for it alone.
Bridge == Head(Conf.bridges)
\* filter_ethernet_interfaces and filter_can_interfaces
EthernetOf(c) == c.devices \cap Ethernet
CanOf(c) == c.devices \cap Can

\* Deleting a bridge releases what is joined to it.
Released(x, bs) == IF x \in bs THEN None ELSE x
DeleteBridges(k, bs) ==
    [k EXCEPT !.bridges = @ \ bs,
              !.device  = [i \in Ethernet |-> Released(@[i], bs)],
              !.tunnel  = [p \in Peers |-> Released(@[p], bs)]]

SetupCluster == Conf.bridges # <<>> /\ Conf.assignment # None
AfterBridges == IF SetupCluster THEN "gre" ELSE "executors"

CreateEmptyBridges(k, bs) == [k EXCEPT !.bridges = @ \cup bs]

\* A mutant: an existing bridge is kept as it is.
KeepExisting(k, bs) == CreateEmptyBridges(k, bs)

\* An existing bridge is deleted first.
Recreated(k, bs) == CreateEmptyBridges(DeleteBridges(k, bs), bs)

\* The runner stops at the first bridge that cannot be recreated, which may
\* then be deleted or not, and reports no error.
RecreateBridges ==
    /\ Doing("bridge")
    /\ \E n \in 0 .. Len(Conf.bridges) :
        LET done == {Conf.bridges[i] : i \in 1 .. n}
            recreated == Recreated(kernel, done)
        IN  \/ /\ n = Len(Conf.bridges) /\ NoFault
               /\ kernel' = recreated
               /\ isolated' = IF n = 0 THEN isolated
                              ELSE [bridge |-> Bridge,
                                    wanted |-> IF Conf.assignment = None THEN {}
                                               ELSE EthernetOf(Conf) \cup Remotes]
            \/ /\ n < Len(Conf.bridges) /\ Fault
               /\ kernel' \in {recreated, DeleteBridges(recreated, {Conf.bridges[n + 1]})}
               /\ isolated' = [bridge |-> None, wanted |-> {}]
    /\ Proceed(AfterBridges)
    /\ UNCHANGED <<caVars, exVars, OutsideHandler, queue, metrics>>

\* setup_ethernet_gre_interfaces: all GRE interfaces are removed, then one is
\* created for each remote peer and joined to the bridge, which must exist.
Tunnels(left, joined) ==
    [p \in Peers |-> IF p \in joined THEN Bridge ELSE IF p \in left THEN None ELSE "absent"]

SetupEthernetGreInterfaces ==
    /\ Doing("gre")
    /\ \/ /\ NoFault
          /\ Bridge \in kernel.bridges \/ Remotes = {}
          /\ kernel' = [kernel EXCEPT !.tunnel = Tunnels({}, Remotes)]
          /\ Proceed("join")
       \/ /\ Fault \/ (Bridge \notin kernel.bridges /\ Remotes # {} /\ NoFault)
          /\ \/ \E left \in SUBSET {p \in Peers : kernel.tunnel[p] # "absent"} :
                  kernel' = [kernel EXCEPT !.tunnel =
                      [p \in Peers |-> IF p \in left THEN @[p] ELSE "absent"]]
             \/ \E joined \in SUBSET Remotes :
                  /\ joined # {} => Bridge \in kernel.bridges
                  /\ \E p \in Remotes \ joined :
                        kernel' = [kernel EXCEPT !.tunnel = Tunnels({p}, joined)]
          /\ Proceed("executors")
    /\ UNCHANGED <<caVars, exVars, OutsideHandler, queue, metrics, isolated>>

JoinDeviceInterfaces(joined) ==
    [kernel EXCEPT !.device = [i \in Ethernet |-> IF i \in joined THEN Bridge ELSE @[i]]]

\* join_ethernet_interfaces_to_bridge: an interface that is not there is an error.
JoinEthernetInterfacesToBridge ==
    /\ Doing("join")
    /\ \E joined \in SUBSET EthernetOf(Conf) :
        /\ IF joined = EthernetOf(Conf) /\ Bridge \in kernel.bridges
           THEN NoFault /\ Proceed("can")
           ELSE /\ IF Bridge \in kernel.bridges THEN Fault ELSE joined = {} /\ NoFault
                /\ Proceed("executors")
        /\ kernel' = JoinDeviceInterfaces(joined)
    /\ UNCHANGED <<caVars, exVars, OutsideHandler, queue, metrics, isolated>>

CreateVcanInterface(k) == [k EXCEPT !.vcan = TRUE]

\* A CAN interface is taken down, given its bitrates, set up again and routed.
UpdateInterfaces(k, cs) == [k EXCEPT !.routed = cs]

\* setup_can_interfaces up to the local routing.
SetupLocalRouting ==
    /\ Doing("can")
    /\ \/ /\ ~root /\ CanOf(Conf) = {} /\ NoFault /\ UNCHANGED kernel
          /\ Proceed("executors")
       \/ /\ root /\ NoFault
          /\ kernel' = UpdateInterfaces(CreateVcanInterface(kernel), CanOf(Conf))
          /\ Proceed("remote")
       \/ /\ root /\ Fault
          /\ \/ UNCHANGED kernel
             \/ \E routed \in SUBSET CanOf(Conf) :
                  kernel' = UpdateInterfaces(CreateVcanInterface(kernel), routed)
          /\ Proceed("executors")
    /\ UNCHANGED <<caVars, exVars, OutsideHandler, queue, metrics, isolated>>

\* CAN interfaces without root: the panic takes the handler, its receiver and
\* what was still in the queue with it; the service goes on.
PanicWithoutRoot ==
    /\ Doing("can") /\ ~root /\ CanOf(Conf) # {}
    /\ Proceed("panicked") /\ queue' = <<>>
    /\ UNCHANGED <<caVars, exVars, OutsideHandler, kernel, metrics, faults, faulty, isolated>>

\* The rest of setup_can_interfaces: the leader serves every other member at
\* that member's port, a member connects to the leader at its own port.
Endpoints == IF IsLeader THEN [p \in Remotes |-> Conf.assignment.port[p]]
             ELSE [p \in Remotes |-> Conf.assignment.port[Self]]

SetupRemote ==
    /\ Doing("remote")
    /\ SetupRemoteRouting(IsLeader, Endpoints)
    /\ Proceed("executors")
    /\ UNCHANGED <<exVars, OutsideHandler, queue, kernel, metrics, faults, faulty, isolated>>

CreateNewExecutors ==
    /\ Doing("executors")
    /\ ReplaceExecutors(Conf.executors)
    /\ Proceed("metrics")
    /\ UNCHANGED <<caVars, OutsideHandler, queue, kernel, metrics, faults, faulty, isolated>>

\* The tasks of the previous peers are shut down and tasks for the new ones
\* spawned, unless they are the same.
SetRemotePeers(peers) == metrics' = peers

\* Without an assignment nothing changes.
SetupClusterMetrics ==
    /\ Doing("metrics")
    /\ SetRemotePeers(IF Conf.assignment = None THEN metrics ELSE Members \ {Self})
    /\ handler' = [handler EXCEPT !.pc = "idle"]
    /\ UNCHANGED <<caVars, exVars, OutsideHandler, queue, kernel, faults, faulty, isolated>>

Handler ==
    \/ Take \/ RecreateBridges \/ SetupEthernetGreInterfaces \/ JoinEthernetInterfacesToBridge
    \/ SetupLocalRouting \/ PanicWithoutRoot \/ SetupRemote \/ CreateNewExecutors \/ SetupClusterMetrics

Cannelloni(m) == service = "up" /\ CannelloniNext(m) /\ UNCHANGED <<edVars, exVars>>
Containers(x) == ManagerStep(x) /\ UNCHANGED <<edVars, caVars>>
Environment(x) == (Signal(x) \/ Exit(x) \/ CommandFails(x)) /\ UNCHANGED <<edVars, caVars>>

Next ==
    \/ \E d \in Descriptors : StorePeerDescriptor(d)
    \/ \E a \in Assignments : AssignCluster(a)
    \/ Connect \/ StreamEnds \/ CarlRestart \/ Receive
    \/ Handler
    \/ \E m \in DOMAIN cannelloni : Cannelloni(m)
    \/ \E x \in DOMAIN executions : Containers(x) \/ Environment(x)

Spec == Init /\ [][Next]_vars

\* Tokio runs every task that can run, systemd restarts the service, and
\* connecting succeeds at last.  A process that exits is only missed by its
\* manager if it does so between being spawned and being looked at, at once:
\* hence strong fairness of the kill.
Fairness ==
    /\ WF_vars(Connect) /\ WF_vars(Receive) /\ WF_vars(Handler)
    /\ \A m \in (1 .. MaxGeneration) \X (Peers \ {Self}) :
        /\ WF_vars((Spawn(m) \/ RestartExited(m) \/ Start(m)) /\ UNCHANGED <<edVars, exVars>>)
        /\ SF_vars(KillCannelloniProcess(m) /\ UNCHANGED <<edVars, exVars>>)
    /\ \A x \in 1 .. MaxManagers : WF_vars(Containers(x))

FairSpec == Spec /\ Fairness

----------------------------------------------------------------------------
(* Properties.                                                              *)

\* On the bridge of the last configuration whose bridges could be recreated
\* there is no interface of an earlier configuration, whatever failed since
\* and however often EDGAR was restarted.
BridgeIsolated ==
    LET b == isolated.bridge
    IN  b # None => /\ \A i \in Ethernet : kernel.device[i] = b => i \in isolated.wanted
                    /\ \A p \in Peers : kernel.tunnel[p] = b => p \in isolated.wanted

\* The machine is as the configuration that CARL has stored says.
Applied ==
    LET c == carl.stored
        b == Head(c.bridges)
        remotes == IF c.assignment.leader = Self THEN DOMAIN c.assignment.port \ {Self}
                   ELSE {c.assignment.leader}
    IN  /\ {executions[x].executor : x \in channels} = c.executors
        /\ c.assignment # None =>
            /\ kernel.tunnel = [p \in Peers |-> IF p \in remotes THEN b ELSE "absent"]
            /\ \A i \in EthernetOf(c) : kernel.device[i] = b
            /\ metrics = DOMAIN c.assignment.port \ {Self}
            /\ root =>
                /\ kernel.routed = CanOf(c)
                /\ \A m \in DOMAIN cannelloni :
                    /\ Serving(m) => m[1] = generation
                    /\ m[1] = generation => Serving(m) \/ cannelloni[m].pc = "failed"

\* Once CARL stops sending, EDGAR comes to rest with the last configuration
\* applied and every CAN tunnel of it, and no other, being served, although
\* the processes of successive assignments compete for the same ports; the
\* exceptions are an error while that configuration was applied, and a
\* handler that panicked.
Converges ==
    <>[](/\ service = "up" /\ inbox = <<>> /\ queue = <<>>
         /\ handler.pc \in {"idle", "panicked"}
         /\ handler.pc = "idle" /\ ~faulty => Applied)

=============================================================================
