------------------------ MODULE ClusterManagerProofs ------------------------
(***************************************************************************)
(* Theorems about ClusterManager, for any number of peers, devices,        *)
(* clusters, configurations and ports.                                     *)
(***************************************************************************)
EXTENDS ClusterManager, TLAPS, FiniteSetTheorems

----------------------------------------------------------------------------
(* Type correctness.  A call knows its cluster, and from the step on that   *)
(* read it, the cluster's configuration; the steps that use them need that. *)

CallOK ==
    /\ mgr.pc # "idle" => mgr.cluster \in Clusters
    /\ mgr.pc \in {"members", "states", "assign"} => mgr.config \in Configs

TypeInv == TypeOK /\ CallOK

PCs == {"idle", "insert", "check", "config", "members", "states", "assign"}

\* A step that moves no stream.
LEMMA LinksKept == TypeInv /\ UNCHANGED links => Links!LinksOK'
BY DEF TypeInv, TypeOK, links, Links!LinksOK

\* A call that begins.
LEMMA NoPortsFact == NoPorts \in PortMap
BY DEF NoPorts, PortMap

LEMMA IdleFact == Idle \in Call
BY NoPortsFact, Zenon DEF Idle, Call

LEMMA IdlePc == Idle.pc = "idle"
BY DEF Idle

LEMMA GrpcCall ==
    ASSUME NEW pc \in PCs, NEW c \in Clusters
    PROVE  LET m == [Idle EXCEPT !.pc = pc, !.cluster = c]
           IN  m \in Call /\ m.pc = pc /\ m.cluster = c
<1>1. [Idle EXCEPT !.pc = pc, !.cluster = c] \in Call
  BY IdleFact, Zenon DEF Call, PCs
<1>2. /\ [Idle EXCEPT !.pc = pc, !.cluster = c].pc = pc
      /\ [Idle EXCEPT !.pc = pc, !.cluster = c].cluster = c
  BY IdleFact DEF Call
<1> QED BY <1>1, <1>2

LEMMA EffectCall ==
    ASSUME NEW c \in Clusters, NEW queue \in SUBSET Clusters
    PROVE  LET m == [Idle EXCEPT !.pc = "check", !.by = "effect", !.cluster = c,
                                 !.queue = queue]
           IN  m \in Call /\ m.pc = "check" /\ m.cluster = c
<1>1. [Idle EXCEPT !.pc = "check", !.by = "effect", !.cluster = c, !.queue = queue] \in Call
  <2>1. "check" \in PCs /\ "effect" \in {"grpc", "effect"}  BY DEF PCs
  <2> QED BY <2>1, IdleFact, Zenon DEF Call, PCs
<1>2. /\ [Idle EXCEPT !.pc = "check", !.by = "effect", !.cluster = c, !.queue = queue].pc
          = "check"
      /\ [Idle EXCEPT !.pc = "check", !.by = "effect", !.cluster = c, !.queue = queue].cluster
          = c
  BY IdleFact DEF Call
<1> QED BY <1>1, <1>2

\* The steps of a call.
LEMMA CallPc ==
    ASSUME NEW m \in Call, NEW pc \in PCs
    PROVE  LET n == [m EXCEPT !.pc = pc]
           IN  n \in Call /\ n.pc = pc /\ n.cluster = m.cluster /\ n.config = m.config
<1>1. [m EXCEPT !.pc = pc] \in Call  BY Zenon DEF Call, PCs
<1> QED BY <1>1 DEF Call

LEMMA CallConfig ==
    ASSUME NEW m \in Call, NEW k \in Configs
    PROVE  LET n == [m EXCEPT !.pc = "members", !.config = k]
           IN  n \in Call /\ n.pc = "members" /\ n.cluster = m.cluster /\ n.config = k
<1>1. [m EXCEPT !.pc = "members", !.config = k] \in Call
  <2>1. "members" \in PCs  BY DEF PCs
  <2> QED BY <2>1, Zenon DEF Call, PCs
<1> QED BY <1>1 DEF Call

LEMMA CallPort ==
    ASSUME mgr \in Call, NEW port \in PortMap, NEW todo \in SUBSET Peers,
           mgr' = [mgr EXCEPT !.pc = "states", !.port = port, !.todo = todo]
    PROVE  /\ mgr' \in Call /\ mgr'.pc = "states" /\ mgr'.cluster = mgr.cluster
           /\ mgr'.config = mgr.config
<1>1. mgr' \in Call
  <2>1. "states" \in PCs  BY DEF PCs
  <2> QED BY <2>1, Zenon DEF Call, PCs
<1> QED BY <1>1 DEF Call

LEMMA CallAssign ==
    ASSUME NEW m \in Call, NEW todo \in SUBSET Peers
    PROVE  LET n == [m EXCEPT !.pc = "assign", !.todo = todo]
           IN  /\ n \in Call /\ n.pc = "assign" /\ n.cluster = m.cluster
               /\ n.config = m.config
<1>1. [m EXCEPT !.pc = "assign", !.todo = todo] \in Call
  <2>1. "assign" \in PCs  BY DEF PCs
  <2> QED BY <2>1, Zenon DEF Call, PCs
<1> QED BY <1>1 DEF Call

LEMMA CallTodo ==
    ASSUME NEW m \in Call, NEW p
    PROVE  LET n == [m EXCEPT !.todo = @ \ {p}]
           IN  n \in Call /\ n.pc = m.pc /\ n.cluster = m.cluster /\ n.config = m.config
<1>1. [m EXCEPT !.todo = @ \ {p}] \in Call
  <2>1. m.todo \ {p} \in SUBSET Peers  BY DEF Call
  <2> QED BY <2>1, Zenon DEF Call
<1> QED BY <1>1 DEF Call

LEMMA PortMapDomain ==
    ASSUME NEW port \in PortMap
    PROVE  DOMAIN port \in SUBSET Peers
BY DEF PortMap

LEMMA CallFields ==
    ASSUME NEW m \in Call
    PROVE  /\ m.pc \in PCs /\ m.by \in {"grpc", "effect"}
           /\ m.cluster \in Clusters \cup {None} /\ m.queue \in SUBSET Clusters
           /\ m.config \in Configs \cup {None} /\ m.port \in PortMap
           /\ m.todo \in SUBSET Peers
BY DEF Call, PCs

----------------------------------------------------------------------------
\* How a call ends, and how the effect goes on with another cluster.
LEMMA GiveUpType ==
    ASSUME TypeInv, NEW why \in Outcome, GiveUp(why)
    PROVE  /\ mgr' \in Call /\ CallOK'
           /\ failed' \in [Clusters -> Outcome]
           /\ UNCHANGED <<edited, moved, lagged>>
<1>1. mgr' \in Call /\ mgr'.pc = "idle"
  BY IdleFact, IdlePc DEF GiveUp
<1>2. failed \in [Clusters -> Outcome]
  BY DEF TypeInv, TypeOK
<1>3. failed' \in [Clusters -> Outcome]
  BY <1>2 DEF GiveUp
<1> QED BY <1>1, <1>3 DEF GiveUp, CallOK

LEMMA ProceedType ==
    ASSUME TypeInv, Proceed
    PROVE  mgr' \in Call /\ CallOK'
<1>0. mgr \in Call  BY DEF TypeInv, TypeOK
<1>1. mgr.queue \in SUBSET Clusters  BY <1>0, CallFields
<1>2. CASE mgr.queue = {}
  <2>1. mgr' \in Call /\ mgr'.pc = "idle"
    BY <1>2, IdleFact, IdlePc DEF Proceed
  <2> QED BY <2>1 DEF CallOK
<1>3. CASE mgr.queue # {}
  <2>1. PICK c \in mgr.queue :
           mgr' = [Idle EXCEPT !.pc = "check", !.by = "effect", !.cluster = c,
                               !.queue = mgr.queue \ {c}]
    BY <1>3 DEF Proceed
  <2>2. c \in Clusters /\ mgr.queue \ {c} \in SUBSET Clusters
    BY <1>1
  <2>3. mgr' \in Call /\ mgr'.pc = "check" /\ mgr'.cluster = c
    BY <2>1, <2>2, EffectCall, ZenonT(60)
  <2> QED BY <2>2, <2>3 DEF CallOK
<1> QED BY <1>2, <1>3

----------------------------------------------------------------------------
\* store_cluster_deployment.
LEMMA StoreClusterDeploymentType ==
    ASSUME TypeInv, NEW c \in Clusters, StoreClusterDeployment(c)
    PROVE  TypeInv'
<1>1. PICK pc \in {"insert", "check"} : mgr' = [Idle EXCEPT !.pc = pc, !.cluster = c]
  BY DEF StoreClusterDeployment
<1>2. pc \in PCs  BY DEF PCs
<1>3. mgr' \in Call /\ mgr'.pc = pc /\ mgr'.cluster = c
  BY <1>1, <1>2, GrpcCall
<1>4. edited' \subseteq Clusters
  BY DEF StoreClusterDeployment, TypeInv, TypeOK
<1> QED BY <1>3, <1>4, LinksKept DEF StoreClusterDeployment, resources, TypeInv, TypeOK, CallOK

LEMMA InsertClusterDeploymentType ==
    ASSUME TypeInv, InsertClusterDeployment
    PROVE  TypeInv'
<1>1. mgr \in Call /\ "check" \in PCs  BY DEF TypeInv, TypeOK, PCs
<1>2. mgr' = [mgr EXCEPT !.pc = "check"]  BY DEF InsertClusterDeployment
<1>3. mgr' \in Call /\ mgr'.pc = "check" /\ mgr'.cluster = mgr.cluster
  BY <1>1, <1>2, CallPc
<1>4. mgr.cluster \in Clusters
  BY DEF TypeInv, CallOK, InsertClusterDeployment
<1>5. deployments' \subseteq Clusters
  BY <1>4 DEF InsertClusterDeployment, TypeInv, TypeOK
<1> QED BY <1>3, <1>4, <1>5, LinksKept DEF InsertClusterDeployment, history, TypeInv, TypeOK, CallOK

\* deploy_cluster_if_all_peers_available.
LEMMA CheckClusterDeployableType ==
    ASSUME TypeInv, CheckClusterDeployable
    PROVE  TypeInv'
<1>0. mgr \in Call /\ "config" \in PCs /\ mgr.cluster \in Clusters
  BY DEF TypeInv, TypeOK, CallOK, PCs, CheckClusterDeployable
<1>1. /\ mgr' \in Call /\ CallOK'
      /\ failed' \in [Clusters -> Outcome]
      /\ UNCHANGED <<edited, moved, lagged>>
      /\ alive' \in BOOLEAN
  <2>1. alive \in BOOLEAN /\ failed \in [Clusters -> Outcome]
    BY DEF TypeInv, TypeOK
  <2>2. "refused" \in Outcome /\ "no" \in Outcome
    BY DEF Outcome
  <2>3. CASE config[mgr.cluster] = None
    <3>1. GiveUp("refused") /\ alive' = alive
      BY <2>3 DEF CheckClusterDeployable
    <3> QED BY <2>1, <2>2, <3>1, GiveUpType
  <2>4. CASE config[mgr.cluster] # None
    <3>1. PICK f \in DeployedDevices :
             IF AssertionFails(f)
             THEN Panic
             ELSE /\ IF BlockedByAnother(f, mgr.cluster) = {} /\ OfflinePeers(mgr.cluster) = {}
                     THEN mgr' = [mgr EXCEPT !.pc = "config"]
                     ELSE Proceed
                  /\ failed' = [failed EXCEPT ![mgr.cluster] = "no"]
                  /\ UNCHANGED <<alive, edited, moved, lagged>>
      BY <2>4 DEF CheckClusterDeployable
    <3>2. CASE AssertionFails(f)
      <4>1. GiveUp("refused") /\ alive' = (alive /\ mgr.by = "grpc")
        BY <3>1, <3>2 DEF Panic
      <4>2. alive' \in BOOLEAN
        BY <4>1, Zenon
      <4> QED BY <2>2, <4>1, <4>2, GiveUpType
    <3>3. CASE ~ AssertionFails(f)
      <4>1. /\ failed' = [failed EXCEPT ![mgr.cluster] = "no"]
            /\ UNCHANGED <<alive, edited, moved, lagged>>
            /\ mgr' = [mgr EXCEPT !.pc = "config"] \/ Proceed
        BY <3>1, <3>3
      <4>2. failed' \in [Clusters -> Outcome]
        BY <2>1, <2>2, <4>1
      <4>3. CASE mgr' = [mgr EXCEPT !.pc = "config"]
        <5>1. mgr' \in Call /\ mgr'.pc = "config" /\ mgr'.cluster = mgr.cluster
          BY <1>0, <4>3, CallPc
        <5> QED BY <1>0, <2>1, <4>1, <4>2, <5>1 DEF CallOK
      <4>4. CASE Proceed
        BY <2>1, <4>1, <4>2, <4>4, ProceedType
      <4> QED BY <4>1, <4>3, <4>4
    <3> QED BY <3>2, <3>3
  <2> QED BY <2>3, <2>4
<1>2. UNCHANGED <<peers, topology, config, deployments, stored, events, counter, waiting, links>>
  BY DEF CheckClusterDeployable, resources
<1> QED BY <1>1, <1>2, LinksKept DEF TypeInv, TypeOK

\* deploy_cluster.
LEMMA GetClusterConfigurationType ==
    ASSUME TypeInv, GetClusterConfiguration
    PROVE  TypeInv'
<1>0. mgr \in Call /\ "members" \in PCs /\ mgr.cluster \in Clusters
  BY DEF TypeInv, TypeOK, CallOK, PCs, GetClusterConfiguration
<1>1. /\ mgr' \in Call /\ CallOK'
      /\ failed' \in [Clusters -> Outcome]
      /\ UNCHANGED <<edited, moved, lagged>>
  <2>1. CASE config[mgr.cluster] = None
    <3>1. GiveUp("refused") /\ "refused" \in Outcome
      BY <2>1 DEF GetClusterConfiguration, Outcome
    <3> QED BY <3>1, GiveUpType
  <2>2. CASE config[mgr.cluster] # None
    <3>1. config[mgr.cluster] \in Configs
      BY <1>0, <2>2 DEF TypeInv, TypeOK
    <3>2. PICK k \in Configs :
             /\ mgr' = [mgr EXCEPT !.pc = "members", !.config = k]
             /\ UNCHANGED <<edited, moved, failed, lagged>>
      BY <2>2, <3>1 DEF GetClusterConfiguration, history
    <3>3. /\ mgr' \in Call /\ mgr'.pc = "members" /\ mgr'.cluster = mgr.cluster
          /\ mgr'.config = k
      BY <1>0, <3>2, CallConfig
    <3> QED BY <1>0, <3>1, <3>2, <3>3 DEF CallOK, TypeInv, TypeOK
  <2> QED BY <2>1, <2>2
<1>2. UNCHANGED <<peers, topology, config, deployments, stored, events, counter, waiting,
                  alive, links>>
  BY DEF GetClusterConfiguration, resources
<1> QED BY <1>1, <1>2, LinksKept DEF TypeInv, TypeOK

\* The ports of the members: n of them from DetermineCanServerPorts(n) on are
\* within the range when the range has more than n.
LEMMA PortsInRange ==
    ASSUME counter \in PortStart .. PortEnd, NEW n \in Nat, PortStart + n < PortEnd
    PROVE  /\ DetermineCanServerPorts(n) \in PortStart .. PortEnd
           /\ DetermineCanServerPorts(n) + n \in PortStart .. PortEnd
           /\ DetermineCanServerPorts(n) .. DetermineCanServerPorts(n) + n - 1
                 \subseteq PortStart .. PortEnd - 1
BY InputsAssumption DEF DetermineCanServerPorts

LEMMA MembersFinite ==
    ASSUME NEW members \in SUBSET Peers
    PROVE  Cardinality(members) \in Nat
BY InputsAssumption, FS_Subset, FS_CardinalityType

LEMMA PortMapFact ==
    ASSUME NEW members \in SUBSET Peers, NEW lo, NEW hi,
           lo .. hi \subseteq PortStart .. PortEnd - 1, NEW port \in [members -> lo .. hi]
    PROVE  port \in PortMap
<1>1. port \in [members -> PortStart .. PortEnd - 1]  OBVIOUS
<1> QED BY <1>1 DEF PortMap

LEMMA DetermineMemberInterfaceMappingType ==
    ASSUME TypeInv, DetermineMemberInterfaceMapping
    PROVE  TypeInv'
<1>0. /\ mgr \in Call /\ "states" \in PCs /\ mgr.cluster \in Clusters
      /\ mgr.config \in Configs
      /\ mgr.config.leader \in Peers /\ peers \subseteq Peers
      /\ counter \in PortStart .. PortEnd
  BY InputsAssumption DEF TypeInv, TypeOK, CallOK, PCs, DetermineMemberInterfaceMapping
<1>1. /\ mgr' \in Call /\ CallOK'
      /\ failed' \in [Clusters -> Outcome]
      /\ UNCHANGED <<edited, moved, lagged>>
      /\ counter' \in PortStart .. PortEnd
  <2>1. CASE GiveUp("refused") /\ UNCHANGED counter
    <3>1. "refused" \in Outcome  BY DEF Outcome
    <3> QED BY <1>0, <2>1, <3>1, GiveUpType
  <2>2. ASSUME NEW owner \in DeviceOwners(mgr.config),
               NEW members,
               members = {mgr.config.leader} \cup {owner[d] : d \in mgr.config.devices},
               NEW n, n = Cardinality(members),
               NEW first, first = DetermineCanServerPorts(n),
               ~ (PortStart + n >= PortEnd),
               NEW port \in [members -> first .. first + n - 1],
               mgr' = [mgr EXCEPT !.pc = "states", !.port = port, !.todo = members],
               counter' = first + n,
               UNCHANGED history
        PROVE  /\ mgr' \in Call /\ CallOK'
               /\ failed' \in [Clusters -> Outcome]
               /\ UNCHANGED <<edited, moved, lagged>>
               /\ counter' \in PortStart .. PortEnd
    <3>1. members \in SUBSET Peers
      BY <1>0, <2>2 DEF DeviceOwners
    <3>2. n \in Nat /\ PortStart + n < PortEnd
      BY <2>2, <3>1, MembersFinite, InputsAssumption
    <3>3. /\ first + n \in PortStart .. PortEnd
          /\ first .. first + n - 1 \subseteq PortStart .. PortEnd - 1
      BY <1>0, <2>2, <3>2, PortsInRange
    <3>4. port \in PortMap
      BY <2>2, <3>1, <3>3, PortMapFact
    <3>5. /\ mgr' \in Call /\ mgr'.pc = "states" /\ mgr'.cluster = mgr.cluster
          /\ mgr'.config = mgr.config
      <4>1. mgr' = [mgr EXCEPT !.pc = "states", !.port = port, !.todo = members]
        BY <2>2
      <4>2. mgr \in Call
        BY <1>0
      <4> QED BY <3>1, <3>4, <4>1, <4>2, CallPort
    <3> QED BY <1>0, <2>2, <3>3, <3>5 DEF CallOK, history, TypeInv, TypeOK
  <2> QED BY <2>1, <2>2 DEF DetermineMemberInterfaceMapping
<1>2. UNCHANGED <<peers, topology, config, deployments, stored, events, waiting, alive, links>>
  BY DEF DetermineMemberInterfaceMapping, resources
<1> QED BY <1>1, <1>2, LinksKept DEF TypeInv, TypeOK

LEMMA GetPeerConnectionStateType ==
    ASSUME TypeInv, NEW p \in Peers, GetPeerConnectionState(p)
    PROVE  TypeInv'
<1>0. /\ mgr \in Call /\ mgr.cluster \in Clusters /\ mgr.config \in Configs
      /\ mgr.pc = "states" /\ failed \in [Clusters -> Outcome]
  BY DEF TypeInv, TypeOK, CallOK, GetPeerConnectionState
<1>1. /\ mgr' \in Call /\ CallOK'
      /\ failed' \in [Clusters -> Outcome]
      /\ UNCHANGED <<edited, moved, lagged>>
  <2>1. CASE ~ Online(p)
    <3>1. GiveUp("unreachable") /\ "unreachable" \in Outcome
      BY <2>1 DEF GetPeerConnectionState, Outcome
    <3> QED BY <3>1, GiveUpType
  <2>2. CASE Online(p) /\ mgr.todo = {p}
    <3>1. /\ mgr' = [mgr EXCEPT !.pc = "assign", !.todo = DOMAIN mgr.port]
          /\ UNCHANGED history
      BY <2>2 DEF GetPeerConnectionState
    <3>2. DOMAIN mgr.port \in SUBSET Peers
      BY <1>0, CallFields, PortMapDomain
    <3>3. PICK todo \in SUBSET Peers : mgr' = [mgr EXCEPT !.pc = "assign", !.todo = todo]
      BY <3>1, <3>2
    <3>4. /\ mgr' \in Call /\ mgr'.pc = "assign" /\ mgr'.cluster = mgr.cluster
          /\ mgr'.config = mgr.config
      BY <1>0, <3>3, CallAssign
    <3> QED BY <1>0, <3>1, <3>4 DEF history, CallOK
  <2>3. CASE Online(p) /\ mgr.todo # {p}
    <3>1. mgr' = [mgr EXCEPT !.todo = @ \ {p}] /\ UNCHANGED history
      BY <2>3 DEF GetPeerConnectionState
    <3>2. /\ mgr' \in Call /\ mgr'.pc = mgr.pc /\ mgr'.cluster = mgr.cluster
          /\ mgr'.config = mgr.config
      BY <1>0, <3>1, CallTodo
    <3> QED BY <1>0, <3>1, <3>2 DEF history, CallOK
  <2> QED BY <2>1, <2>2, <2>3
<1>2. UNCHANGED <<peers, topology, config, deployments, stored, events, counter, waiting,
                  alive, links>>
  BY DEF GetPeerConnectionState, resources
<1> QED BY <1>1, <1>2, LinksKept DEF TypeInv, TypeOK

LEMMA AssignmentFact ==
    ASSUME NEW m \in Call, m.cluster \in Clusters, m.config \in Configs
    PROVE  AssignmentOf(m) \in Assignment
<1>1. m.port \in PortMap  BY CallFields
<1>2. m.config.leader \in Peers  BY InputsAssumption
<1> QED BY <1>1, <1>2 DEF AssignmentOf, Assignment

LEMMA AssignClusterType ==
    ASSUME TypeInv, NEW p \in Peers, AssignCluster(p)
    PROVE  TypeInv'
<1>0. /\ mgr \in Call /\ mgr.cluster \in Clusters /\ mgr.config \in Configs
      /\ mgr.pc = "assign" /\ failed \in [Clusters -> Outcome]
      /\ stored \in [Peers -> Assignment \cup {None}]
  BY DEF TypeInv, TypeOK, CallOK, AssignCluster
<1>1. /\ mgr' \in Call /\ CallOK'
      /\ failed' \in [Clusters -> Outcome]
      /\ UNCHANGED <<edited, moved, lagged>>
      /\ stored' \in [Peers -> Assignment \cup {None}]
  <2>1. CASE ~ (p \in peers \cap reachable)
    <3>1. GiveUp("unreachable") /\ "unreachable" \in Outcome /\ UNCHANGED stored
      BY <2>1 DEF AssignCluster, Outcome
    <3> QED BY <1>0, <3>1, GiveUpType
  <2>2. CASE p \in peers \cap reachable /\ mgr.todo = {p}
    <3>1. /\ stored' = [q \in Peers |-> IF q \in DOMAIN mgr.port
                                      THEN AssignmentOf(mgr) ELSE stored[q]]
          /\ Proceed
          /\ UNCHANGED history
      BY <2>2 DEF AssignCluster
    <3>2. mgr' \in Call /\ CallOK'
      BY <3>1, ProceedType
    <3>3. AssignmentOf(mgr) \in Assignment
      BY <1>0, AssignmentFact
    <3>4. stored' \in [Peers -> Assignment \cup {None}]
      BY <1>0, <3>1, <3>3
    <3> QED BY <1>0, <3>1, <3>2, <3>4 DEF history
  <2>3. CASE p \in peers \cap reachable /\ mgr.todo # {p}
    <3>1. mgr' = [mgr EXCEPT !.todo = @ \ {p}] /\ UNCHANGED history /\ UNCHANGED stored
      BY <2>3 DEF AssignCluster
    <3>2. /\ mgr' \in Call /\ mgr'.pc = mgr.pc /\ mgr'.cluster = mgr.cluster
          /\ mgr'.config = mgr.config
      BY <1>0, <3>1, CallTodo
    <3> QED BY <1>0, <3>1, <3>2 DEF history, CallOK
  <2> QED BY <2>1, <2>2, <2>3
<1>2. UNCHANGED <<peers, topology, config, deployments, events, counter, waiting, alive, links>>
  BY DEF AssignCluster, resources
<1> QED BY <1>1, <1>2, LinksKept DEF TypeInv, TypeOK

LEMMA CancelCallType ==
    ASSUME TypeInv, CancelCall
    PROVE  TypeInv'
<1>1. GiveUp("cancelled") /\ "cancelled" \in Outcome
  BY DEF CancelCall, Outcome
<1>2. /\ mgr' \in Call /\ CallOK' /\ failed' \in [Clusters -> Outcome]
      /\ UNCHANGED <<edited, moved, lagged>>
  BY <1>1, GiveUpType
<1> QED BY <1>2, LinksKept DEF CancelCall, resources, TypeInv, TypeOK

\* The effect, the streams and their events.
ConnectionEvent == [peer : Peers, online : BOOLEAN]

LEMMA AppendFact ==
    ASSUME NEW S, NEW q \in Seq(S), NEW e \in S
    PROVE  Append(q, e) \in Seq(S) /\ Len(Append(q, e)) = Len(q) + 1 /\ Len(q) \in Nat
OBVIOUS

LEMMA TailFact ==
    ASSUME NEW S, NEW q \in Seq(S), q # <<>>
    PROVE  /\ Tail(q) \in Seq(S) /\ Len(Tail(q)) = Len(q) - 1
           /\ Len(q) \in Nat \ {0} /\ Head(q) \in S
OBVIOUS

LEMMA NotifyFact ==
    ASSUME TypeInv, NEW p \in Peers, NEW up \in BOOLEAN, Notify(p, up)
    PROVE  events' \in Seq(ConnectionEvent) /\ Len(events') <= EventCapacity /\ lagged' \in BOOLEAN
<1> DEFINE e == [peer |-> p, online |-> up]
<1>1. e \in ConnectionEvent  BY DEF ConnectionEvent
<1>2. events \in Seq(ConnectionEvent) /\ Len(events) \in Nat /\ Len(events) <= EventCapacity
  BY DEF TypeInv, TypeOK, ConnectionEvent
<1>3. lagged' \in BOOLEAN
  BY Zenon DEF Notify
<1>4. CASE Len(events) = EventCapacity
  <2>1. events' = Append(Tail(events), e)  BY <1>4 DEF Notify
  <2>2. events # <<>>  BY <1>2, <1>4, InputsAssumption
  <2> HIDE DEF e
  <2>3. Tail(events) \in Seq(ConnectionEvent) /\ Len(Tail(events)) = Len(events) - 1
    BY <1>2, <2>2, TailFact
  <2> QED BY <1>1, <1>2, <1>3, <1>4, <2>1, <2>3, AppendFact
<1>5. CASE Len(events) # EventCapacity
  <2>1. events' = Append(events, e)  BY <1>5 DEF Notify
  <2> HIDE DEF e
  <2> QED BY <1>1, <1>2, <1>3, <1>5, <2>1, AppendFact, InputsAssumption
<1> QED BY <1>4, <1>5

LEMMA EffectReceiveType ==
    ASSUME TypeInv, EffectReceive
    PROVE  TypeInv'
<1>1. events \in Seq(ConnectionEvent) /\ Len(events) <= EventCapacity /\ events # <<>>
  BY DEF TypeInv, TypeOK, ConnectionEvent, EffectReceive
<1>2. /\ Tail(events) \in Seq(ConnectionEvent) /\ Len(Tail(events)) = Len(events) - 1
      /\ Len(events) \in Nat /\ Head(events) \in ConnectionEvent
  BY <1>1, TailFact
<1>3. events' \in Seq(ConnectionEvent) /\ Len(events') <= EventCapacity
  BY <1>1, <1>2, InputsAssumption DEF EffectReceive
<1>4. waiting' \in Peers \cup {None}
  BY <1>2 DEF EffectReceive, ConnectionEvent
<1>5. UNCHANGED <<peers, topology, config, deployments, stored, mgr, counter, alive, links,
                  edited, moved, failed, lagged>>
  BY DEF EffectReceive, resources, history
<1> QED BY <1>3, <1>4, <1>5, LinksKept DEF TypeInv, TypeOK, CallOK, ConnectionEvent

LEMMA DeployAllType ==
    ASSUME TypeInv, DeployAllClustersContainingNewlyAvailablePeer
    PROVE  TypeInv'
<1> DEFINE clusters == {c \in ListDeployedClusters :
                           waiting \in peers /\ topology[waiting] \cap config[c].devices # {}}
<1>1. /\ waiting' = None
      /\ IF clusters = {}
         THEN UNCHANGED mgr
         ELSE \E c \in clusters :
                 mgr' = [Idle EXCEPT !.pc = "check", !.by = "effect", !.cluster = c,
                                     !.queue = clusters \ {c}]
  BY DEF DeployAllClustersContainingNewlyAvailablePeer
<1>2. clusters \in SUBSET Clusters
  BY DEF ListDeployedClusters, TypeInv, TypeOK
<1> HIDE DEF clusters
<1>3. mgr' \in Call /\ CallOK'
  <2>1. CASE clusters = {}
    BY <1>1, <2>1 DEF TypeInv, TypeOK, CallOK
  <2>2. CASE clusters # {}
    <3>1. PICK c \in clusters :
             mgr' = [Idle EXCEPT !.pc = "check", !.by = "effect", !.cluster = c,
                                 !.queue = clusters \ {c}]
      BY <1>1, <2>2
    <3>2. c \in Clusters /\ clusters \ {c} \in SUBSET Clusters
      BY <1>2
    <3>3. mgr' \in Call /\ mgr'.pc = "check" /\ mgr'.cluster = c
      BY <3>1, <3>2, EffectCall
    <3> QED BY <3>2, <3>3 DEF CallOK
  <2> QED BY <2>1, <2>2
<1>4. UNCHANGED <<peers, topology, config, deployments, stored, events, counter, alive, links,
                  edited, moved, failed, lagged>>
  BY DEF DeployAllClustersContainingNewlyAvailablePeer, resources, history
<1> QED BY <1>1, <1>3, <1>4, LinksKept DEF TypeInv, TypeOK

LEMMA StreamType ==
    ASSUME TypeInv, Stream
    PROVE  TypeInv'
<1>1. PICK p \in Peers : \/ UpdatePeerConnectionState(p)
                         \/ RegisterPeer(p)
                         \/ CancelOpen(p)
                         \/ StreamBreaks(p)
                         \/ RemovePeer(p)
  BY DEF Stream
<1>2. UNCHANGED <<peers, topology, config, deployments, stored, mgr, counter, waiting, alive,
                  edited, moved, failed>>
  BY <1>1 DEF UpdatePeerConnectionState, RegisterPeer, CancelOpen, StreamBreaks, RemovePeer,
              resources, history
<1>3. Links!LinksOK  BY DEF TypeInv, TypeOK
<1>4. Links!LinksOK'
  BY <1>1, <1>3 DEF UpdatePeerConnectionState, RegisterPeer, CancelOpen, StreamBreaks, RemovePeer,
     Links!LinksOK, Links!Online, Links!GoOnline, Links!Register, Links!Abandon, Links!Lose,
     Links!GoOffline
<1>5. events' \in Seq(ConnectionEvent) /\ Len(events') <= EventCapacity /\ lagged' \in BOOLEAN
  <2>1. CASE UpdatePeerConnectionState(p) \/ RemovePeer(p)
    <3>1. PICK up \in BOOLEAN : Notify(p, up)
      BY <2>1 DEF UpdatePeerConnectionState, RemovePeer
    <3> QED BY <3>1, NotifyFact
  <2>2. CASE RegisterPeer(p) \/ CancelOpen(p) \/ StreamBreaks(p)
    BY <2>2 DEF RegisterPeer, CancelOpen, StreamBreaks, history, TypeInv, TypeOK, ConnectionEvent
  <2> QED BY <1>1, <2>1, <2>2
<1> QED BY <1>2, <1>4, <1>5 DEF TypeInv, TypeOK, CallOK, ConnectionEvent

\* What operators do beside the manager.
LEMMA OperatorType ==
    ASSUME TypeInv, Operator
    PROVE  TypeInv'
<1>0. /\ peers \subseteq Peers /\ topology \in [Peers -> SUBSET Devices]
      /\ config \in [Clusters -> Configs \cup {None}] /\ deployments \subseteq Clusters
      /\ edited \subseteq Clusters /\ moved \subseteq Peers
  BY DEF TypeInv, TypeOK
<1>1. ASSUME NEW c \in Clusters, NEW k \in Configs, CreateClusterConfiguration(c, k)
      PROVE  TypeInv'
  <2>1. config' \in [Clusters -> Configs \cup {None}] /\ edited' \subseteq Clusters
    BY <1>0, <1>1 DEF CreateClusterConfiguration
  <2> QED BY <1>1, <2>1, LinksKept DEF CreateClusterConfiguration, TypeInv, TypeOK, CallOK
<1>2. ASSUME NEW c \in Clusters, DeleteClusterConfiguration(c)
      PROVE  TypeInv'
  <2>1. config' \in [Clusters -> Configs \cup {None}] /\ edited' \subseteq Clusters
    BY <1>0, <1>2 DEF DeleteClusterConfiguration
  <2> QED BY <1>2, <2>1, LinksKept DEF DeleteClusterConfiguration, TypeInv, TypeOK, CallOK
<1>3. ASSUME NEW c \in Clusters, DeleteClusterDeployment(c)
      PROVE  TypeInv'
  <2>1. deployments' \subseteq Clusters
    BY <1>0, <1>3 DEF DeleteClusterDeployment
  <2> QED BY <1>3, <2>1, LinksKept DEF DeleteClusterDeployment, history, TypeInv, TypeOK, CallOK
<1>4. ASSUME NEW p \in Peers, NEW devices \in Topologies[p], StorePeerDescriptor(p, devices)
      PROVE  TypeInv'
  <2>1. devices \in SUBSET Devices
    BY InputsAssumption
  <2>2. /\ peers' \subseteq Peers /\ topology' \in [Peers -> SUBSET Devices]
        /\ moved' \subseteq Peers
    BY <1>0, <1>4, <2>1 DEF StorePeerDescriptor
  <2> QED BY <1>4, <2>2, LinksKept DEF StorePeerDescriptor, TypeInv, TypeOK, CallOK
<1>5. ASSUME NEW p \in Peers, DeletePeerDescriptor(p)
      PROVE  TypeInv'
  <2>1. /\ peers' \subseteq Peers /\ topology' \in [Peers -> SUBSET Devices]
        /\ moved' \subseteq Peers
    BY <1>0, <1>5 DEF DeletePeerDescriptor
  <2> QED BY <1>5, <2>1, LinksKept DEF DeletePeerDescriptor, TypeInv, TypeOK, CallOK
<1> QED BY <1>1, <1>2, <1>3, <1>4, <1>5, StoreClusterDeploymentType DEF Operator

LEMMA EmptyFact == ASSUME NEW S PROVE <<>> \in Seq(S) /\ Len(<<>>) = 0
OBVIOUS

LEMMA RestartType ==
    ASSUME TypeInv, Restart
    PROVE  TypeInv'
<1>1. mgr' \in Call /\ CallOK'
  BY IdleFact, IdlePc DEF Restart, CallOK
<1>2. events' \in Seq(ConnectionEvent) /\ Len(events') <= EventCapacity
  BY EmptyFact, InputsAssumption DEF Restart
<1>3. /\ peers' \subseteq Peers /\ topology' \in [Peers -> SUBSET Devices]
      /\ config' \in [Clusters -> Configs \cup {None}] /\ deployments' \subseteq Clusters
      /\ edited' \subseteq Clusters /\ moved' \subseteq Peers
  <2>1. CASE DatabaseEnabled
    BY <2>1 DEF Restart, resources, TypeInv, TypeOK
  <2>2. CASE ~ DatabaseEnabled
    BY <2>2 DEF Restart
  <2> QED BY <2>1, <2>2
<1>4. /\ stored' \in [Peers -> Assignment \cup {None}]
      /\ Links!LinksOK'
      /\ failed' \in [Clusters -> Outcome]
  BY DEF Restart, Links!Forget, Links!LinksOK, Links!Online, Outcome
<1>5. counter' \in PortStart .. PortEnd
  BY InputsAssumption DEF Restart
<1>6. waiting' \in Peers \cup {None} /\ alive' \in BOOLEAN /\ lagged' \in BOOLEAN
  BY Zenon DEF Restart
<1> QED BY <1>1, <1>2, <1>3, <1>4, <1>5, <1>6 DEF TypeInv, TypeOK, ConnectionEvent

LEMMA InitType == Init => TypeInv
<1> SUFFICES ASSUME Init PROVE TypeInv
  OBVIOUS
<1>1. mgr \in Call /\ CallOK
  BY IdleFact, IdlePc DEF Init, CallOK
<1>2. events \in Seq(ConnectionEvent) /\ Len(events) <= EventCapacity
  BY EmptyFact, InputsAssumption DEF Init
<1>3. /\ stored \in [Peers -> Assignment \cup {None}]
      /\ Links!LinksOK
      /\ failed \in [Clusters -> Outcome]
  BY DEF Init, Links!LinksInit, Links!LinksOK, Links!Online, Outcome
<1>4. counter \in PortStart .. PortEnd
  BY InputsAssumption DEF Init
<1>6. waiting \in Peers \cup {None} /\ alive \in BOOLEAN /\ lagged \in BOOLEAN
  BY Zenon DEF Init
<1>5. /\ peers \subseteq Peers /\ topology \in [Peers -> SUBSET Devices]
      /\ config \in [Clusters -> Configs \cup {None}] /\ deployments \subseteq Clusters
      /\ edited \subseteq Clusters /\ moved \subseteq Peers
  BY DEF Init
<1> QED BY <1>1, <1>2, <1>3, <1>4, <1>5, <1>6 DEF TypeInv, TypeOK, ConnectionEvent

LEMMA ManagerType ==
    ASSUME TypeInv, Manager
    PROVE  TypeInv'
BY InsertClusterDeploymentType, CheckClusterDeployableType, GetClusterConfigurationType,
   DetermineMemberInterfaceMappingType, GetPeerConnectionStateType, AssignClusterType
   DEF Manager

LEMMA TypeStep ==
    ASSUME TypeInv, [Next]_vars
    PROVE  TypeInv'
<1>1. CASE UNCHANGED vars
  BY <1>1, LinksKept DEF vars, resources, history, TypeInv, TypeOK, CallOK
<1>2. CASE Next
  BY <1>2, ManagerType, CancelCallType, EffectReceiveType, DeployAllType, OperatorType,
     StreamType, RestartType DEF Next
<1> QED BY <1>1, <1>2

\* TypeOK: every variable keeps its type in every behaviour; in particular all
\* CAN server ports that determine_can_server_ports hands out, across its
\* wrap-around, are within the configured range.
THEOREM TypeCorrect == Spec => []TypeOK
<1>1. TypeInv /\ [Next]_vars => TypeInv'
  BY TypeStep
<1>2. TypeInv => TypeOK
  BY DEF TypeInv
<1> QED BY InitType, <1>1, <1>2, PTL DEF Spec

----------------------------------------------------------------------------
(* No peer is used by two deployments.                                      *)

\* A peer without a descriptor has no devices.
UnknownPeersBare == \A p \in Peers \ peers : topology[p] = {}

\* What the check of store_cluster_deployment found still holds when the
\* deployment is inserted, although the resources were unlocked in between.
Inserting == mgr.pc = "insert" /\ mgr.cluster \notin edited

InsertDisjoint ==
    Inserting => /\ config[mgr.cluster] # None
                 /\ \A c \in deployments \ edited : \A p \in Peers \ moved :
                       Uses(c, p) /\ Uses(mgr.cluster, p) => c = mgr.cluster

DisjointInv ==
    /\ UnknownPeersBare
    /\ InsertDisjoint
    /\ DeployedClustersDisjoint
    /\ DeployedClustersConfigured

\* Most steps neither change what the invariant is about nor begin an insert.
LEMMA QuietDisjoint ==
    ASSUME DisjointInv,
           UNCHANGED <<peers, topology, config, deployments, edited, moved>>,
           mgr'.pc # "insert" \/ mgr' = mgr
    PROVE  DisjointInv'
<1>1. UnknownPeersBare'
  BY DEF DisjointInv, UnknownPeersBare
<1>2. DeployedClustersDisjoint' /\ DeployedClustersConfigured'
  BY DEF DisjointInv, DeployedClustersDisjoint, DeployedClustersConfigured, Uses
<1>3. InsertDisjoint'
  <2>1. CASE mgr'.pc # "insert"
    BY <2>1 DEF InsertDisjoint, Inserting
  <2>2. CASE mgr' = mgr
    BY <2>2 DEF DisjointInv, InsertDisjoint, Inserting, Uses
  <2> QED BY <2>1, <2>2
<1> QED BY <1>1, <1>2, <1>3 DEF DisjointInv

LEMMA GiveUpPc == ASSUME NEW why, GiveUp(why) PROVE mgr'.pc = "idle"
BY IdlePc DEF GiveUp

LEMMA ProceedPc == ASSUME TypeInv, Proceed PROVE mgr'.pc # "insert"
<1>0. mgr.queue \in SUBSET Clusters  BY CallFields DEF TypeInv, TypeOK
<1>1. CASE mgr.queue = {}
  BY <1>1, IdlePc DEF Proceed
<1>2. CASE mgr.queue # {}
  <2>1. PICK c \in mgr.queue :
           mgr' = [Idle EXCEPT !.pc = "check", !.by = "effect", !.cluster = c,
                               !.queue = mgr.queue \ {c}]
    BY <1>2 DEF Proceed
  <2>2. c \in Clusters /\ mgr.queue \ {c} \in SUBSET Clusters
    BY <1>0
  <2>3. mgr'.pc = "check"
    BY <2>1, <2>2, EffectCall, ZenonT(60)
  <2> QED BY <2>3
<1> QED BY <1>1, <1>2

\* The check: no peer of the cluster has a device that a deployment uses.
LEMMA StoreClusterDeploymentDisjoint ==
    ASSUME TypeInv, DisjointInv, NEW c \in Clusters, StoreClusterDeployment(c)
    PROVE  DisjointInv'
<1>0. UNCHANGED <<peers, topology, config, deployments, moved>> /\ config[c] # None
  BY DEF StoreClusterDeployment, resources
<1>1. PICK f \in DeployedDevices :
         IF ListClusterPeers(c) \cap BlockedPeers(f) = {}
         THEN /\ mgr' = [Idle EXCEPT !.pc = "insert", !.cluster = c]
              /\ edited' = edited \ {c}
         ELSE /\ mgr' = [Idle EXCEPT !.pc = "check", !.cluster = c]
              /\ UNCHANGED edited
  BY DEF StoreClusterDeployment
<1>2. CASE ListClusterPeers(c) \cap BlockedPeers(f) = {}
  <2>0. "insert" \in PCs  BY DEF PCs
  <2>1. mgr' = [Idle EXCEPT !.pc = "insert", !.cluster = c] /\ edited' = edited \ {c}
    BY <1>1, <1>2
  <2>2. mgr'.pc = "insert" /\ mgr'.cluster = c
    BY <2>0, <2>1, GrpcCall
  <2>3. ASSUME NEW other \in deployments, NEW p \in Peers, Uses(c, p), Uses(other, p)
        PROVE  FALSE
    <3>1. p \in peers
      BY <2>3 DEF DisjointInv, UnknownPeersBare, Uses
    <3>2. p \in ListClusterPeers(c)
      BY <2>3, <3>1 DEF Uses, ListClusterPeers
    <3>3. DOMAIN f = UNION {config[x].devices : x \in ListDeployedClusters}
      BY DEF DeployedDevices
    <3>4. config[other].devices \subseteq DOMAIN f
      BY <2>3, <3>3 DEF ListDeployedClusters, Uses
    <3>5. p \in BlockedPeers(f)
      BY <2>3, <3>1, <3>4 DEF Uses, BlockedPeers
    <3> QED BY <1>2, <3>2, <3>5
  <2>4. UnknownPeersBare'
    BY <1>0 DEF DisjointInv, UnknownPeersBare
  <2>5. InsertDisjoint'
    BY <1>0, <2>1, <2>2, <2>3 DEF InsertDisjoint, Inserting, Uses
  <2>6. DeployedClustersDisjoint'
    BY <1>0, <2>1, <2>3 DEF DisjointInv, DeployedClustersDisjoint, Uses
  <2>7. DeployedClustersConfigured'
    BY <1>0, <2>1 DEF DisjointInv, DeployedClustersConfigured
  <2> QED BY <2>4, <2>5, <2>6, <2>7 DEF DisjointInv
<1>3. CASE ListClusterPeers(c) \cap BlockedPeers(f) # {}
  <2>0. "check" \in PCs  BY DEF PCs
  <2>1. mgr' = [Idle EXCEPT !.pc = "check", !.cluster = c] /\ UNCHANGED edited
    BY <1>1, <1>3
  <2>2. mgr'.pc = "check"
    BY <2>0, <2>1, GrpcCall
  <2> QED BY <1>0, <2>1, <2>2, QuietDisjoint
<1> QED BY <1>2, <1>3

LEMMA InsertClusterDeploymentDisjoint ==
    ASSUME TypeInv, DisjointInv, InsertClusterDeployment
    PROVE  DisjointInv'
<1>0. /\ UNCHANGED <<peers, topology, config, edited, moved>>
      /\ deployments' = deployments \cup {mgr.cluster}
      /\ mgr.pc = "insert" /\ mgr' = [mgr EXCEPT !.pc = "check"]
  BY DEF InsertClusterDeployment, history
<1>1. mgr \in Call /\ "check" \in PCs  BY DEF TypeInv, TypeOK, PCs
<1>2. mgr'.pc = "check"  BY <1>0, <1>1, CallPc
<1>3. UnknownPeersBare'
  BY <1>0 DEF DisjointInv, UnknownPeersBare
<1>4. InsertDisjoint'
  BY <1>2 DEF InsertDisjoint, Inserting
<1>5. DeployedClustersDisjoint'
  BY <1>0 DEF DisjointInv, InsertDisjoint, Inserting, DeployedClustersDisjoint, Uses
<1>6. DeployedClustersConfigured'
  BY <1>0 DEF DisjointInv, InsertDisjoint, Inserting, DeployedClustersConfigured
<1> QED BY <1>3, <1>4, <1>5, <1>6 DEF DisjointInv

\* The rest of a call.
LEMMA ManagerDisjoint ==
    ASSUME TypeInv, DisjointInv, Manager
    PROVE  DisjointInv'
<1>0. mgr \in Call /\ {"config", "members", "states", "assign"} \subseteq PCs
  BY DEF TypeInv, TypeOK, PCs
<1>1. CASE InsertClusterDeployment
  BY <1>1, InsertClusterDeploymentDisjoint
<1>2. CASE CheckClusterDeployable
  <2>1. UNCHANGED <<peers, topology, config, deployments, edited, moved>>
    BY <1>2 DEF CheckClusterDeployable, GiveUp, Panic, resources
  <2>2. \/ \E why : GiveUp(why)
        \/ Proceed
        \/ mgr' = [mgr EXCEPT !.pc = "config"]
    BY <1>2 DEF CheckClusterDeployable, Panic
  <2>3. mgr'.pc # "insert"
    <3>1. CASE \E why : GiveUp(why)  BY <3>1, GiveUpPc
    <3>2. CASE Proceed  BY <3>2, ProceedPc
    <3>3. CASE mgr' = [mgr EXCEPT !.pc = "config"]  BY <1>0, <3>3, CallPc
    <3> QED BY <2>2, <3>1, <3>2, <3>3
  <2> QED BY <2>1, <2>3, QuietDisjoint
<1>3. CASE GetClusterConfiguration
  <2>1. UNCHANGED <<peers, topology, config, deployments, edited, moved>>
    BY <1>3 DEF GetClusterConfiguration, GiveUp, resources, history
  <2>2. \/ GiveUp("refused")
        \/ mgr' = [mgr EXCEPT !.pc = "members", !.config = config[mgr.cluster]]
    BY <1>3 DEF GetClusterConfiguration
  <2>3. mgr'.pc # "insert"
    <3>1. CASE GiveUp("refused")  BY <3>1, GiveUpPc
    <3>2. CASE mgr' = [mgr EXCEPT !.pc = "members", !.config = config[mgr.cluster]]
      BY <1>0, <3>2 DEF Call
    <3> QED BY <2>2, <3>1, <3>2
  <2> QED BY <2>1, <2>3, QuietDisjoint
<1>4. CASE DetermineMemberInterfaceMapping
  <2>1. UNCHANGED <<peers, topology, config, deployments, edited, moved>>
    BY <1>4 DEF DetermineMemberInterfaceMapping, GiveUp, resources, history
  <2>2. \/ GiveUp("refused")
        \/ \E port, todo : mgr' = [mgr EXCEPT !.pc = "states", !.port = port, !.todo = todo]
    BY <1>4 DEF DetermineMemberInterfaceMapping
  <2>3. mgr'.pc # "insert"
    <3>1. CASE GiveUp("refused")  BY <3>1, GiveUpPc
    <3>2. CASE \E port, todo : mgr' = [mgr EXCEPT !.pc = "states", !.port = port, !.todo = todo]
      BY <1>0, <3>2 DEF Call
    <3> QED BY <2>2, <3>1, <3>2
  <2> QED BY <2>1, <2>3, QuietDisjoint
<1>5. CASE \E p \in Peers : GetPeerConnectionState(p)
  <2>1. UNCHANGED <<peers, topology, config, deployments, edited, moved>>
    BY <1>5 DEF GetPeerConnectionState, GiveUp, resources, history
  <2>2. \/ GiveUp("unreachable")
        \/ \E todo : mgr' = [mgr EXCEPT !.pc = "assign", !.todo = todo]
        \/ mgr.pc = "states" /\ \E p : mgr' = [mgr EXCEPT !.todo = @ \ {p}]
    BY <1>5 DEF GetPeerConnectionState
  <2>3. mgr'.pc # "insert"
    <3>1. CASE GiveUp("unreachable")  BY <3>1, GiveUpPc
    <3>2. CASE \E todo : mgr' = [mgr EXCEPT !.pc = "assign", !.todo = todo]
      BY <1>0, <3>2 DEF Call
    <3>3. CASE mgr.pc = "states" /\ \E p : mgr' = [mgr EXCEPT !.todo = @ \ {p}]
      BY <1>0, <3>3, CallTodo
    <3> QED BY <2>2, <3>1, <3>2, <3>3
  <2> QED BY <2>1, <2>3, QuietDisjoint
<1>6. CASE \E p \in Peers : AssignCluster(p)
  <2>1. UNCHANGED <<peers, topology, config, deployments, edited, moved>>
    BY <1>6 DEF AssignCluster, GiveUp, resources, history
  <2>2. \/ GiveUp("unreachable")
        \/ Proceed
        \/ mgr.pc = "assign" /\ \E p : mgr' = [mgr EXCEPT !.todo = @ \ {p}]
    BY <1>6 DEF AssignCluster
  <2>3. mgr'.pc # "insert"
    <3>1. CASE GiveUp("unreachable")  BY <3>1, GiveUpPc
    <3>2. CASE Proceed  BY <3>2, ProceedPc
    <3>3. CASE mgr.pc = "assign" /\ \E p : mgr' = [mgr EXCEPT !.todo = @ \ {p}]
      BY <1>0, <3>3, CallTodo
    <3> QED BY <2>2, <3>1, <3>2, <3>3
  <2> QED BY <2>1, <2>3, QuietDisjoint
<1> QED BY <1>1, <1>2, <1>3, <1>4, <1>5, <1>6 DEF Manager

LEMMA DeployAllDisjoint ==
    ASSUME TypeInv, DisjointInv, DeployAllClustersContainingNewlyAvailablePeer
    PROVE  DisjointInv'
<1>1. UNCHANGED <<peers, topology, config, deployments, edited, moved>>
  BY DEF DeployAllClustersContainingNewlyAvailablePeer, resources, history
<1>2. \/ mgr' = mgr
      \/ \E c, queue : mgr' = [Idle EXCEPT !.pc = "check", !.by = "effect", !.cluster = c,
                                           !.queue = queue]
  BY DEF DeployAllClustersContainingNewlyAvailablePeer
<1>3. mgr' = mgr \/ mgr'.pc # "insert"
  BY <1>2, IdleFact DEF Call
<1> QED BY <1>1, <1>3, QuietDisjoint

\* Operators.  A configuration stored for a cluster in use is edited; a peer
\* given a device in use has moved; every other change leaves Uses as it was,
\* or only takes peers from the clusters.
LEMMA ConfigureDisjoint ==
    ASSUME TypeInv, DisjointInv, UNCHANGED <<peers, topology, deployments, moved, mgr>>,
           \A x \in Clusters \ edited' :
              x \in deployments \/ (mgr.pc = "insert" /\ mgr.cluster = x)
              => x \notin edited /\ config'[x] = config[x]
    PROVE  DisjointInv'
<1>1. UnknownPeersBare'
  BY DEF DisjointInv, UnknownPeersBare
<1>2. \A x \in deployments \ edited' : x \in deployments \ edited /\ config'[x] = config[x]
  BY DEF TypeInv, TypeOK
<1>3. InsertDisjoint'
  <2>1. mgr.pc = "insert" => mgr.cluster \in Clusters  BY DEF TypeInv, CallOK
  <2> QED BY <1>2, <2>1 DEF DisjointInv, InsertDisjoint, Inserting, Uses
<1>4. DeployedClustersDisjoint'
  BY <1>2 DEF DisjointInv, DeployedClustersDisjoint, Uses
<1>5. DeployedClustersConfigured'
  BY <1>2 DEF DisjointInv, DeployedClustersConfigured
<1> QED BY <1>1, <1>3, <1>4, <1>5 DEF DisjointInv

LEMMA CreateClusterConfigurationDisjoint ==
    ASSUME TypeInv, DisjointInv, NEW c \in Clusters, NEW k \in Configs,
           CreateClusterConfiguration(c, k)
    PROVE  DisjointInv'
<1>0. /\ UNCHANGED <<peers, topology, deployments, moved, mgr>>
      /\ config' = [config EXCEPT ![c] = k]
      /\ config \in [Clusters -> Configs \cup {None}]
      /\ edited' = IF InUse(c) /\ config[c] # k THEN edited \cup {c} ELSE edited
  BY DEF CreateClusterConfiguration, TypeInv, TypeOK
<1>1. ASSUME NEW x \in Clusters \ edited',
             x \in deployments \/ (mgr.pc = "insert" /\ mgr.cluster = x)
      PROVE  x \notin edited /\ config'[x] = config[x]
  <2>1. mgr.pc = "insert" => mgr # Idle  BY IdlePc
  <2>2. InUse(x)  BY <1>1, <2>1 DEF InUse, BeingDeployed
  <2>3. x = c => config[c] = k  BY <1>0, <1>1, <2>2
  <2> QED BY <1>0, <1>1, <2>3
<1> QED BY <1>0, <1>1, ConfigureDisjoint

LEMMA DeleteClusterConfigurationDisjoint ==
    ASSUME TypeInv, DisjointInv, NEW c \in Clusters, DeleteClusterConfiguration(c)
    PROVE  DisjointInv'
<1>0. /\ UNCHANGED <<peers, topology, deployments, moved, mgr>>
      /\ config' = [config EXCEPT ![c] = None] /\ c \notin deployments
      /\ config \in [Clusters -> Configs \cup {None}]
      /\ edited' = IF BeingDeployed(c) THEN edited \cup {c} ELSE edited
  BY DEF DeleteClusterConfiguration, TypeInv, TypeOK
<1>1. ASSUME NEW x \in Clusters \ edited',
             x \in deployments \/ (mgr.pc = "insert" /\ mgr.cluster = x)
      PROVE  x \notin edited /\ config'[x] = config[x]
  <2>1. mgr.pc = "insert" => mgr # Idle  BY IdlePc
  <2>2. x \in deployments \/ BeingDeployed(x)  BY <1>1, <2>1 DEF BeingDeployed
  <2>3. x # c  BY <1>0, <1>1, <2>2
  <2> QED BY <1>0, <1>1, <2>3
<1> QED BY <1>0, <1>1, ConfigureDisjoint

LEMMA DeleteClusterDeploymentDisjoint ==
    ASSUME TypeInv, DisjointInv, NEW c \in Clusters, DeleteClusterDeployment(c)
    PROVE  DisjointInv'
<1>0. /\ UNCHANGED <<peers, topology, config, edited, moved, mgr>>
      /\ deployments' = deployments \ {c}
  BY DEF DeleteClusterDeployment, history
<1>1. UnknownPeersBare'
  BY <1>0 DEF DisjointInv, UnknownPeersBare
<1>2. InsertDisjoint'
  BY <1>0 DEF DisjointInv, InsertDisjoint, Inserting, Uses
<1>3. DeployedClustersDisjoint'
  BY <1>0 DEF DisjointInv, DeployedClustersDisjoint, Uses
<1>4. DeployedClustersConfigured'
  BY <1>0 DEF DisjointInv, DeployedClustersConfigured
<1> QED BY <1>1, <1>2, <1>3, <1>4 DEF DisjointInv

LEMMA StorePeerDescriptorDisjoint ==
    ASSUME TypeInv, DisjointInv, NEW p \in Peers, NEW devices, StorePeerDescriptor(p, devices)
    PROVE  DisjointInv'
<1>0. /\ UNCHANGED <<config, deployments, edited, mgr>> /\ peers' = peers \cup {p}
      /\ topology' = [topology EXCEPT ![p] = devices]
      /\ topology \in [Peers -> SUBSET Devices] /\ deployments \subseteq Clusters
      /\ moved \subseteq moved'
  BY DEF StorePeerDescriptor, TypeInv, TypeOK
<1>1. ASSUME NEW c \in Clusters, InUse(c), NEW q \in Peers \ moved', Uses(c, q)'
      PROVE  Uses(c, q)
  <2>1. CASE q = p
    <3>1. config[c] # None /\ devices \cap config[c].devices # {}
      BY <1>0, <1>1, <2>1 DEF Uses
    <3>2. (devices \ topology[p]) \cap config[c].devices = {}
      BY <1>1, <2>1, <3>1 DEF StorePeerDescriptor
    <3> QED BY <2>1, <3>1, <3>2 DEF Uses
  <2>2. CASE q # p
    BY <1>0, <1>1, <2>2 DEF Uses
  <2> QED BY <2>1, <2>2
<1>2. UnknownPeersBare'
  BY <1>0 DEF DisjointInv, UnknownPeersBare
<1>3. InsertDisjoint'
  <2>1. mgr.pc = "insert" => InUse(mgr.cluster) /\ mgr.cluster \in Clusters
    BY IdlePc DEF TypeInv, CallOK, InUse, BeingDeployed
  <2>2. \A c \in deployments : InUse(c)  BY DEF InUse, BeingDeployed
  <2>3. SUFFICES ASSUME Inserting
                 PROVE  \A c \in deployments \ edited : \A q \in Peers \ moved' :
                           Uses(c, q)' /\ Uses(mgr.cluster, q)' => c = mgr.cluster
    BY <1>0 DEF DisjointInv, InsertDisjoint, Inserting, Uses
  <2> QED BY <1>0, <1>1, <2>1, <2>2, <2>3 DEF DisjointInv, InsertDisjoint, Inserting
<1>4. DeployedClustersDisjoint'
  <2>1. \A c \in deployments : InUse(c)  BY DEF InUse, BeingDeployed
  <2> QED BY <1>0, <1>1, <2>1 DEF DisjointInv, DeployedClustersDisjoint
<1>5. DeployedClustersConfigured'
  BY <1>0 DEF DisjointInv, DeployedClustersConfigured
<1> QED BY <1>2, <1>3, <1>4, <1>5 DEF DisjointInv

LEMMA DeletePeerDescriptorDisjoint ==
    ASSUME TypeInv, DisjointInv, NEW p \in Peers, DeletePeerDescriptor(p)
    PROVE  DisjointInv'
<1>0. /\ UNCHANGED <<config, deployments, edited, mgr>> /\ peers' = peers \ {p}
      /\ topology' = [topology EXCEPT ![p] = {}]
      /\ topology \in [Peers -> SUBSET Devices]
      /\ moved' = moved \ {p}
  BY DEF DeletePeerDescriptor, TypeInv, TypeOK
<1>1. ASSUME NEW c, NEW q \in Peers \ moved', Uses(c, q)'
      PROVE  Uses(c, q) /\ q \notin moved
  BY <1>0, <1>1 DEF Uses
<1>2. UnknownPeersBare'
  BY <1>0 DEF DisjointInv, UnknownPeersBare
<1>3. InsertDisjoint'
  <2>1. SUFFICES ASSUME Inserting
                 PROVE  \A c \in deployments \ edited : \A q \in Peers \ moved' :
                           Uses(c, q)' /\ Uses(mgr.cluster, q)' => c = mgr.cluster
    BY <1>0 DEF DisjointInv, InsertDisjoint, Inserting, Uses
  <2> QED BY <1>0, <1>1, <2>1 DEF DisjointInv, InsertDisjoint, Inserting
<1>4. DeployedClustersDisjoint'
  BY <1>0, <1>1 DEF DisjointInv, DeployedClustersDisjoint
<1>5. DeployedClustersConfigured'
  BY <1>0 DEF DisjointInv, DeployedClustersConfigured
<1> QED BY <1>2, <1>3, <1>4, <1>5 DEF DisjointInv

LEMMA RestartDisjoint ==
    ASSUME DisjointInv, Restart
    PROVE  DisjointInv'
<1>0. mgr'.pc # "insert"
  BY IdlePc DEF Restart
<1>1. CASE DatabaseEnabled
  <2>1. UNCHANGED <<peers, topology, config, deployments, edited, moved>>
    BY <1>1 DEF Restart, resources
  <2> QED BY <1>0, <2>1, QuietDisjoint
<1>2. CASE ~ DatabaseEnabled
  <2>1. peers' = {} /\ topology' = [p \in Peers |-> {}] /\ deployments' = {}
    BY <1>2 DEF Restart
  <2> QED BY <1>0, <2>1 DEF DisjointInv, UnknownPeersBare, InsertDisjoint, Inserting,
                            DeployedClustersDisjoint, DeployedClustersConfigured
<1> QED BY <1>1, <1>2

LEMMA InitDisjoint == Init => DisjointInv
BY IdlePc DEF Init, DisjointInv, UnknownPeersBare, InsertDisjoint, Inserting,
              DeployedClustersDisjoint, DeployedClustersConfigured

LEMMA DisjointStep ==
    ASSUME TypeInv, DisjointInv, [Next]_vars
    PROVE  DisjointInv'
<1>1. CASE UNCHANGED vars
  <2>1. UNCHANGED <<peers, topology, config, deployments, edited, moved>> /\ mgr' = mgr
    BY <1>1 DEF vars, resources, history
  <2> QED BY <2>1, QuietDisjoint
<1>2. CASE Manager
  BY <1>2, ManagerDisjoint
<1>3. CASE CancelCall
  <2>1. UNCHANGED <<peers, topology, config, deployments, edited, moved>> /\ mgr'.pc # "insert"
    BY <1>3, GiveUpPc DEF CancelCall, GiveUp, resources
  <2> QED BY <2>1, QuietDisjoint
<1>4. CASE EffectReceive
  <2>1. UNCHANGED <<peers, topology, config, deployments, edited, moved>> /\ mgr' = mgr
    BY <1>4 DEF EffectReceive, resources, history
  <2> QED BY <2>1, QuietDisjoint
<1>5. CASE DeployAllClustersContainingNewlyAvailablePeer
  BY <1>5, DeployAllDisjoint
<1>6. CASE Operator
  BY <1>6, StoreClusterDeploymentDisjoint, CreateClusterConfigurationDisjoint,
     DeleteClusterConfigurationDisjoint, DeleteClusterDeploymentDisjoint,
     StorePeerDescriptorDisjoint, DeletePeerDescriptorDisjoint DEF Operator
<1>7. CASE Stream
  <2>1. UNCHANGED <<peers, topology, config, deployments, edited, moved>> /\ mgr' = mgr
    BY <1>7 DEF Stream, UpdatePeerConnectionState, RegisterPeer, CancelOpen, StreamBreaks, RemovePeer,
                resources, history
  <2> QED BY <2>1, QuietDisjoint
<1>8. CASE Restart
  BY <1>8, RestartDisjoint
<1> QED BY <1>1, <1>2, <1>3, <1>4, <1>5, <1>6, <1>7, <1>8 DEF Next

\* No peer is used by two deployments, unless an operator reconfigured one of
\* the clusters, or gave the peer one of their devices, meanwhile: between
\* store_cluster_deployment's check and its insert, with the resources unlocked,
\* nothing else can make the check's result wrong.
THEOREM DisjointDeployments == Spec => []DeployedClustersDisjoint
<1>1. TypeInv /\ DisjointInv /\ [Next]_vars => TypeInv' /\ DisjointInv'
  BY TypeStep, DisjointStep
<1>2. DisjointInv => DeployedClustersDisjoint
  BY DEF DisjointInv
<1> QED BY InitType, InitDisjoint, <1>1, <1>2, PTL DEF Spec

\* A deployed cluster has a configuration: delete_cluster_configuration cannot
\* take it away from under a deployment, except from under one being stored.
THEOREM ConfiguredDeployments == Spec => []DeployedClustersConfigured
<1>1. TypeInv /\ DisjointInv /\ [Next]_vars => TypeInv' /\ DisjointInv'
  BY TypeStep, DisjointStep
<1>2. DisjointInv => DeployedClustersConfigured
  BY DEF DisjointInv
<1> QED BY InitType, InitDisjoint, <1>1, <1>2, PTL DEF Spec

----------------------------------------------------------------------------
(* The members' assignments.                                                *)

\* The transaction replaces the assignments of all members of a cluster by one
\* that names exactly these members.
LEMMA AssignAgree ==
    ASSUME TypeInv, MutualMembersAgree,
           stored' = [q \in Peers |-> IF q \in DOMAIN mgr.port
                                     THEN AssignmentOf(mgr) ELSE stored[q]]
    PROVE  MutualMembersAgree'
<1>1. AssignmentOf(mgr).port = mgr.port
  BY DEF AssignmentOf
<1>2. \A q \in Peers : stored'[q] = IF q \in DOMAIN mgr.port
                                    THEN AssignmentOf(mgr) ELSE stored[q]
  OBVIOUS
<1>3. ASSUME NEW p \in Peers, NEW q \in Peers,
             stored'[p] # None, stored'[q] # None,
             q \in DOMAIN stored'[p].port, p \in DOMAIN stored'[q].port
      PROVE  stored'[p] = stored'[q]
  <2>1. CASE p \in DOMAIN mgr.port
    BY <1>1, <1>2, <1>3, <2>1
  <2>2. CASE p \notin DOMAIN mgr.port /\ q \in DOMAIN mgr.port
    BY <1>1, <1>2, <1>3, <2>2
  <2>3. CASE p \notin DOMAIN mgr.port /\ q \notin DOMAIN mgr.port
    BY <1>2, <1>3, <2>3 DEF MutualMembersAgree
  <2> QED BY <2>1, <2>2, <2>3
<1> QED BY <1>3 DEF MutualMembersAgree

LEMMA AgreeStep ==
    ASSUME TypeInv, MutualMembersAgree, [Next]_vars
    PROVE  MutualMembersAgree'
<1>1. CASE UNCHANGED stored
  BY <1>1 DEF MutualMembersAgree
<1>2. CASE \E p \in Peers : AssignCluster(p)
  <2>1. \/ UNCHANGED stored
        \/ stored' = [q \in Peers |-> IF q \in DOMAIN mgr.port
                                     THEN AssignmentOf(mgr) ELSE stored[q]]
    BY <1>2 DEF AssignCluster
  <2> QED BY <1>1, <2>1, AssignAgree
<1>3. CASE Restart
  BY <1>3 DEF Restart, MutualMembersAgree
<1>4. CASE Next
  <2>1. Manager => UNCHANGED stored \/ \E p \in Peers : AssignCluster(p)
    BY DEF Manager, InsertClusterDeployment, CheckClusterDeployable, GetClusterConfiguration,
           DetermineMemberInterfaceMapping, GetPeerConnectionState
  <2>2. Operator => UNCHANGED stored
    BY DEF Operator, StoreClusterDeployment, CreateClusterConfiguration,
           DeleteClusterConfiguration, DeleteClusterDeployment, StorePeerDescriptor,
           DeletePeerDescriptor
  <2>3. Stream => UNCHANGED stored
    BY DEF Stream, UpdatePeerConnectionState, RegisterPeer, CancelOpen, StreamBreaks, RemovePeer
  <2>4. CancelCall \/ EffectReceive \/ DeployAllClustersContainingNewlyAvailablePeer
        => UNCHANGED stored
    BY DEF CancelCall, EffectReceive, DeployAllClustersContainingNewlyAvailablePeer
  <2> QED BY <1>1, <1>2, <1>3, <1>4, <2>1, <2>2, <2>3, <2>4 DEF Next
<1>5. CASE UNCHANGED vars
  BY <1>1, <1>5 DEF vars
<1> QED BY <1>4, <1>5

\* Two peers that take each other for members of their cluster agree on its
\* leader and on all ports, whichever deployments failed, were cancelled, or
\* were overtaken by another one.
THEOREM MembersAgree == Spec => []MutualMembersAgree
<1>1. Init => MutualMembersAgree
  BY DEF Init, MutualMembersAgree
<1>2. TypeInv /\ MutualMembersAgree /\ [Next]_vars => TypeInv' /\ MutualMembersAgree'
  BY TypeStep, AgreeStep
<1> QED BY InitType, <1>1, <1>2, PTL DEF Spec
=============================================================================
