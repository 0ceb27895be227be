------------------------------ MODULE CarlApi ------------------------------
(***************************************************************************)
(* What a call of CARL looks like on its way: an error of a manager        *)
(* becomes an error of the API, the API's error a protobuf failure, and    *)
(* the client library makes an API error of it again. Two of the variants  *)
(* have another name on the wire. A name of a peer or cluster is known or  *)
(* not where the error's field is optional; where a conversion requires a  *)
(* field that was not set, the client sees an invalid response. Ids and    *)
(* causes are always set and are left out.                                 *)
(***************************************************************************)

None == "none"

\* An error of a manager or of the API: its variant, and whether it knows the
\* name of what it is about.
Error(variant, named) == [variant |-> variant, named |-> named]

ConversionError == Error("ConversionError", FALSE)

Renamed(variant, names) == IF variant \in DOMAIN names THEN names[variant] ELSE variant

AsInternal(error, variants) ==
    IF error.variant \in variants THEN Error("Internal", error.named) ELSE error

\* The protobuf failure of an API error: its "oneof" and its optional name.
Failure(error, names) ==
    [error |-> Renamed(error.variant, names), name |-> error.named]

\* The API error of a failure. The variants in required refuse a missing name.
TryFrom(failure, names, required) ==
    IF failure.error \in required /\ ~failure.name THEN ConversionError
    ELSE Error(Renamed(failure.error, names), failure.name)

Same == <<>>

-----------------------------------------------------------------------------
(* Errors of the managers as errors of the API.                            *)

CreateClusterConfigurationErrorOf(error) == AsInternal(error, {"Persistence"})

DeleteClusterConfigurationErrorOf(error) == AsInternal(error, {"Persistence"})

StoreClusterDeploymentErrorOf(error) ==
    IF error.variant = "ListClusterPeerStates" THEN Error("Internal", FALSE)
    ELSE AsInternal(error, {"Persistence"})

DeleteClusterDeploymentErrorOf(error) == AsInternal(error, {"Persistence", "VpnClient"})

StorePeerDescriptorErrorOf(error) == AsInternal(error, {"Persistence", "VpnClient"})

DeletePeerDescriptorErrorOf(error) ==
    AsInternal(error, {"Persistence", "AuthRegistration", "VpnClient"})

GetPeerStateErrorOf(error) == AsInternal(error, {"Persistence"})

ListPeerStatesErrorOf(error) == AsInternal(error, {"Persistence"})

-----------------------------------------------------------------------------
(* Errors of the API as protobuf failures, and back.                       *)

StorePeerDescriptorFailure(error) == Failure(error, Same)

StorePeerDescriptorError(failure) ==
    TryFrom(failure, Same, {"IllegalPeerState", "IllegalDevices", "Internal"})

DeletePeerDescriptorFailure(error) ==
    Failure(error, [ClusterDeploymentExists |-> "DeploymentExists"])

DeletePeerDescriptorError(failure) ==
    TryFrom(failure, [DeploymentExists |-> "ClusterDeploymentExists"], {"IllegalPeerState"})

GetPeerDescriptorFailure(error) == Failure(error, Same)

GetPeerDescriptorError(failure) == TryFrom(failure, Same, {})

ListPeerDescriptorsFailure(error) == Failure(error, Same)

ListPeerDescriptorsError(failure) == TryFrom(failure, Same, {})

GetPeerStateFailure(error) == Failure(error, Same)

GetPeerStateError(failure) == TryFrom(failure, Same, {})

ListPeerStatesFailure(error) == Failure(error, Same)

ListPeerStatesError(failure) == TryFrom(failure, Same, {})

CreateClusterConfigurationFailure(error) == Failure(error, Same)

CreateClusterConfigurationError(failure) == TryFrom(failure, Same, {"Internal"})

DeleteClusterConfigurationFailure(error) ==
    Failure(error, [ClusterDeploymentFound |-> "ClusterDeploymentExists"])

DeleteClusterConfigurationError(failure) ==
    TryFrom(failure, [ClusterDeploymentExists |-> "ClusterDeploymentFound"],
            {"IllegalClusterState"})

StoreClusterDeploymentFailure(error) == Failure(error, Same)

StoreClusterDeploymentError(failure) == TryFrom(failure, Same, {})

DeleteClusterDeploymentFailure(error) == Failure(error, Same)

\* The name required wherever there is one: as StorePeerDescriptorError does.
NameRequired(failure) == TryFrom(failure, Same, {"IllegalClusterState", "Internal"})

DeleteClusterDeploymentError(failure) == TryFrom(failure, Same, {"IllegalClusterState"})

-----------------------------------------------------------------------------
(* The state of a peer: connection Offline or Online, member None or the   *)
(* cluster it is blocked by; on the wire, two messages with a "oneof".     *)

PeerConnectionStateProto(connection) == [state |-> connection]

PeerMemberStateProto(member) ==
    IF member = None THEN [state |-> "Available"]
    ELSE [state |-> "Blocked", by_cluster |-> member]

PeerStateProto(state) ==
    [connection |-> PeerConnectionStateProto(state.connection),
     member |-> PeerMemberStateProto(state.member)]

PeerConnectionState(proto) == proto.state

PeerMemberState(proto) == IF proto.state = "Available" THEN None ELSE proto.by_cluster

PeerState(proto) ==
    [connection |-> PeerConnectionState(proto.connection),
     member |-> PeerMemberState(proto.member)]

-----------------------------------------------------------------------------
(* Replies of a facade and what the methods of the client library return.  *)
(* A value is a set: of one element, except where the reply is a list.     *)

Status(code) == [kind |-> "status", code |-> code]
Success(value) == [kind |-> "success", value |-> value]
Refusal(failure) == [kind |-> "failure", failure |-> failure]

Outcome(result, error, value) == [result |-> result, error |-> error, value |-> value]
NoError == Error(None, FALSE)

FromStatus(code) ==
    Outcome(IF code = "InvalidArgument" THEN "InvalidRequest" ELSE "TransportError", NoError, {})

\* Methods that return a ClientError.
Replied(reply, FromFailure(_), FromValue(_)) ==
    CASE reply.kind = "status"  -> FromStatus(reply.code)
      [] reply.kind = "success" -> Outcome("Ok", NoError, FromValue(reply.value))
      [] reply.kind = "failure" ->
           LET error == FromFailure(reply.failure) IN
           IF error = ConversionError THEN Outcome("InvalidResponse", NoError, {})
           ELSE Outcome("UsageError", error, {})

\* Methods that fold whatever went wrong into one error with a message.
Plain(reply, FromValue(_)) ==
    IF reply.kind = "success" THEN Outcome("Ok", NoError, FromValue(reply.value))
    ELSE Outcome("Failed", NoError, {})

Itself(value) == value

PeerStates(protos) == {PeerState(proto) : proto \in protos}

store_peer_descriptor(reply) == Replied(reply, StorePeerDescriptorError, Itself)
delete_peer_descriptor(reply) == Replied(reply, DeletePeerDescriptorError, Itself)
get_peer_descriptor(reply) == Replied(reply, GetPeerDescriptorError, Itself)
list_peer_descriptors(reply) == Replied(reply, ListPeerDescriptorsError, Itself)
get_peer_state(reply) == Replied(reply, GetPeerStateError, PeerStates)
list_peer_states(reply) == Replied(reply, ListPeerStatesError, PeerStates)
create_peer_setup(reply) == Plain(reply, Itself)
create_cleo_setup(reply) == Plain(reply, Itself)
list_devices(reply) == Plain(reply, Itself)
store_cluster_configuration(reply) == Replied(reply, CreateClusterConfigurationError, Itself)
delete_cluster_configuration(reply) == Replied(reply, DeleteClusterConfigurationError, Itself)
get_cluster_configuration(reply) == Plain(reply, Itself)
list_cluster_configurations(reply) == Plain(reply, Itself)
store_cluster_deployment(reply) == Replied(reply, StoreClusterDeploymentError, Itself)
delete_cluster_deployment(reply) == Replied(reply, DeleteClusterDeploymentError, Itself)
get_cluster_deployment(reply) == Plain(reply, Itself)
list_cluster_deployments(reply) == Plain(reply, Itself)
list_cluster_peer_states(reply) == Plain(reply, PeerStates)
version(reply) == Plain(reply, Itself)

Methods ==
    {"store_peer_descriptor", "delete_peer_descriptor", "get_peer_descriptor",
     "list_peer_descriptors", "get_peer_state", "list_peer_states",
     "create_peer_setup", "create_cleo_setup", "list_devices",
     "store_cluster_configuration", "delete_cluster_configuration",
     "get_cluster_configuration", "list_cluster_configurations",
     "store_cluster_deployment", "delete_cluster_deployment",
     "get_cluster_deployment", "list_cluster_deployments",
     "list_cluster_peer_states", "version"}

Returned(method, reply) ==
    CASE method = "store_peer_descriptor" -> store_peer_descriptor(reply)
      [] method = "delete_peer_descriptor" -> delete_peer_descriptor(reply)
      [] method = "get_peer_descriptor" -> get_peer_descriptor(reply)
      [] method = "list_peer_descriptors" -> list_peer_descriptors(reply)
      [] method = "get_peer_state" -> get_peer_state(reply)
      [] method = "list_peer_states" -> list_peer_states(reply)
      [] method = "create_peer_setup" -> create_peer_setup(reply)
      [] method = "create_cleo_setup" -> create_cleo_setup(reply)
      [] method = "list_devices" -> list_devices(reply)
      [] method = "store_cluster_configuration" -> store_cluster_configuration(reply)
      [] method = "delete_cluster_configuration" -> delete_cluster_configuration(reply)
      [] method = "get_cluster_configuration" -> get_cluster_configuration(reply)
      [] method = "list_cluster_configurations" -> list_cluster_configurations(reply)
      [] method = "store_cluster_deployment" -> store_cluster_deployment(reply)
      [] method = "delete_cluster_deployment" -> delete_cluster_deployment(reply)
      [] method = "get_cluster_deployment" -> get_cluster_deployment(reply)
      [] method = "list_cluster_deployments" -> list_cluster_deployments(reply)
      [] method = "list_cluster_peer_states" -> list_cluster_peer_states(reply)
      [] method = "version" -> version(reply)
=============================================================================
