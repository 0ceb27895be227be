--------------------------- MODULE ApiCallsProofs ---------------------------
(***************************************************************************)
(* Theorems about ApiCalls: for any number of callers, clusters and tokens *)
(* under way at a time, what a method of the client library returns is     *)
(* what its handler in CARL did, and no request carries a token that was   *)
(* known to be expired.                                                    *)
(*                                                                         *)
(* The callers share the stored token, the keys, and the mutex around it   *)
(* (SharedOK, OneHolder); everything else is said of each call at each of  *)
(* its steps (CallOK), and no step of one changes another's.               *)
(***************************************************************************)
EXTENDS ApiCalls, FiniteSetTheorems, TLAPS

-----------------------------------------------------------------------------
(* The conversions: what the client library makes of a reply.              *)

\* The outcome of a call agrees with what its handler did: the part of
\* ReportedAsHappened about one call that has ended.
Agrees(outcome, lost, did) ==
    /\ outcome.result = "Ok" =>
         did.ran = TRUE /\ did.error = NoError /\ outcome.value = did.value
    /\ outcome.result = "UsageError" =>
         /\ did.ran = TRUE /\ did.error # NoError
         /\ outcome.error = AsSeen(did.error) /\ did.changed = FALSE
    /\ outcome.result \in {"TransportError", "Failed"} /\ lost = FALSE =>
         did.error # NoError \/ did.ran = FALSE
    /\ outcome.result \notin {"InvalidRequest", "InvalidResponse"}

Results ==
    {None, "Ok", "UsageError", "TransportError", "InvalidRequest", "InvalidResponse", "Failed"}

Faithful(method, reply, did) ==
    /\ Returned(method, reply).result \in Results
    /\ Agrees(Returned(method, reply), FALSE, did)

LEMMA ReturnedByMethod ==
    ASSUME NEW r
    PROVE  /\ Returned("store_peer_descriptor", r) = store_peer_descriptor(r)
           /\ Returned("delete_peer_descriptor", r) = delete_peer_descriptor(r)
           /\ Returned("get_peer_descriptor", r) = get_peer_descriptor(r)
           /\ Returned("list_peer_descriptors", r) = list_peer_descriptors(r)
           /\ Returned("get_peer_state", r) = get_peer_state(r)
           /\ Returned("list_peer_states", r) = list_peer_states(r)
           /\ Returned("create_peer_setup", r) = create_peer_setup(r)
           /\ Returned("create_cleo_setup", r) = create_cleo_setup(r)
           /\ Returned("list_devices", r) = list_devices(r)
           /\ Returned("store_cluster_configuration", r) = store_cluster_configuration(r)
           /\ Returned("delete_cluster_configuration", r) = delete_cluster_configuration(r)
           /\ Returned("get_cluster_configuration", r) = get_cluster_configuration(r)
           /\ Returned("list_cluster_configurations", r) = list_cluster_configurations(r)
           /\ Returned("store_cluster_deployment", r) = store_cluster_deployment(r)
           /\ Returned("delete_cluster_deployment", r) = delete_cluster_deployment(r)
           /\ Returned("get_cluster_deployment", r) = get_cluster_deployment(r)
           /\ Returned("list_cluster_deployments", r) = list_cluster_deployments(r)
           /\ Returned("list_cluster_peer_states", r) = list_cluster_peer_states(r)
           /\ Returned("version", r) = version(r)
  BY DEF Returned

\* What the methods make of a status: an error of the transport, or a failure.
LEMMA StatusByMethod ==
    ASSUME NEW r, r.kind = "status"
    PROVE
        /\ store_peer_descriptor(r) = FromStatus(r.code)
        /\ delete_peer_descriptor(r) = FromStatus(r.code)
        /\ get_peer_descriptor(r) = FromStatus(r.code)
        /\ list_peer_descriptors(r) = FromStatus(r.code)
        /\ get_peer_state(r) = FromStatus(r.code)
        /\ list_peer_states(r) = FromStatus(r.code)
        /\ store_cluster_configuration(r) = FromStatus(r.code)
        /\ delete_cluster_configuration(r) = FromStatus(r.code)
        /\ store_cluster_deployment(r) = FromStatus(r.code)
        /\ delete_cluster_deployment(r) = FromStatus(r.code)
        /\ create_peer_setup(r) = Outcome("Failed", NoError, {})
        /\ create_cleo_setup(r) = Outcome("Failed", NoError, {})
        /\ list_devices(r) = Outcome("Failed", NoError, {})
        /\ get_cluster_configuration(r) = Outcome("Failed", NoError, {})
        /\ list_cluster_configurations(r) = Outcome("Failed", NoError, {})
        /\ get_cluster_deployment(r) = Outcome("Failed", NoError, {})
        /\ list_cluster_deployments(r) = Outcome("Failed", NoError, {})
        /\ list_cluster_peer_states(r) = Outcome("Failed", NoError, {})
        /\ version(r) = Outcome("Failed", NoError, {})
  <1>1. /\ r.kind # "success"
        /\ r.kind # "failure"
    OBVIOUS
  <1> QED
    BY <1>1 DEF Replied, Plain,
        store_peer_descriptor, delete_peer_descriptor, get_peer_descriptor,
        list_peer_descriptors, get_peer_state, list_peer_states,
        store_cluster_configuration, delete_cluster_configuration,
        store_cluster_deployment, delete_cluster_deployment, create_peer_setup,
        create_cleo_setup, list_devices, get_cluster_configuration,
        list_cluster_configurations, get_cluster_deployment, list_cluster_deployments,
        list_cluster_peer_states, version

\* What the methods make of a value.
LEMMA ValueByMethod ==
    ASSUME NEW r, r.kind = "success"
    PROVE
        /\ store_peer_descriptor(r) = Outcome("Ok", NoError, r.value)
        /\ delete_peer_descriptor(r) = Outcome("Ok", NoError, r.value)
        /\ get_peer_descriptor(r) = Outcome("Ok", NoError, r.value)
        /\ list_peer_descriptors(r) = Outcome("Ok", NoError, r.value)
        /\ store_cluster_configuration(r) = Outcome("Ok", NoError, r.value)
        /\ delete_cluster_configuration(r) = Outcome("Ok", NoError, r.value)
        /\ store_cluster_deployment(r) = Outcome("Ok", NoError, r.value)
        /\ delete_cluster_deployment(r) = Outcome("Ok", NoError, r.value)
        /\ create_peer_setup(r) = Outcome("Ok", NoError, r.value)
        /\ create_cleo_setup(r) = Outcome("Ok", NoError, r.value)
        /\ list_devices(r) = Outcome("Ok", NoError, r.value)
        /\ get_cluster_configuration(r) = Outcome("Ok", NoError, r.value)
        /\ list_cluster_configurations(r) = Outcome("Ok", NoError, r.value)
        /\ get_cluster_deployment(r) = Outcome("Ok", NoError, r.value)
        /\ list_cluster_deployments(r) = Outcome("Ok", NoError, r.value)
        /\ version(r) = Outcome("Ok", NoError, r.value)
        /\ get_peer_state(r) = Outcome("Ok", NoError, PeerStates(r.value))
        /\ list_peer_states(r) = Outcome("Ok", NoError, PeerStates(r.value))
        /\ list_cluster_peer_states(r) = Outcome("Ok", NoError, PeerStates(r.value))
  <1>1. r.kind # "status" /\ r.kind # "failure"
    OBVIOUS
  <1> QED
    BY <1>1 DEF Replied, Plain, Itself,
        store_peer_descriptor, delete_peer_descriptor, get_peer_descriptor,
        list_peer_descriptors, get_peer_state, list_peer_states,
        store_cluster_configuration, delete_cluster_configuration,
        store_cluster_deployment, delete_cluster_deployment, create_peer_setup,
        create_cleo_setup, list_devices, get_cluster_configuration,
        list_cluster_configurations, get_cluster_deployment, list_cluster_deployments,
        list_cluster_peer_states, version

Did(error, value, changed) ==
    [error |-> error, value |-> value, changed |-> changed, ran |-> TRUE]

StateMethods == {"get_peer_state", "list_peer_states", "list_cluster_peer_states"}

\* A status, of whatever kind the interceptor, the transport or the facades
\* give, is faithful where the handler failed or was not run.
LEMMA StatusFaithful ==
    ASSUME NEW m \in Methods, NEW code, code # "InvalidArgument"
    PROVE  /\ Returned(m, Status(code)).result \in {"TransportError", "Failed"}
           /\ \A did : did.error # NoError \/ did.ran = FALSE => Faithful(m, Status(code), did)
  <1> DEFINE r == Status(code)
  <1>1. r.kind = "status" /\ r.code = code
    BY DEF Status
  <1> HIDE DEF r
  <1>2. FromStatus(r.code).result = "TransportError"
    BY <1>1 DEF FromStatus, Outcome
  <1>3. Outcome("Failed", NoError, {}).result = "Failed"
    BY DEF Outcome
  <1>4. Returned(m, r) \in {FromStatus(r.code), Outcome("Failed", NoError, {})}
    BY <1>1, ReturnedByMethod, StatusByMethod DEF Methods
  <1>5. Returned(m, r).result \in {"TransportError", "Failed"}
    BY <1>2, <1>3, <1>4
  <1>6. ASSUME NEW did, did.error # NoError \/ did.ran = FALSE
        PROVE  Faithful(m, r, did)
    BY <1>5, <1>6 DEF Faithful, Agrees, Results
  <1> QED
    BY <1>5, <1>6 DEF r

\* The reply with a value is faithful.
LEMMA OkFaithful ==
    ASSUME NEW m \in Methods \ StateMethods, NEW v, NEW ch
    PROVE  Faithful(m, Success(v), Did(NoError, v, ch))
  <1> DEFINE r == Success(v)
             o == Outcome("Ok", NoError, v)
             did == Did(NoError, v, ch)
  <1>1. r.kind = "success" /\ r.value = v
    BY DEF Success
  <1>2. o.result = "Ok" /\ o.value = v
    BY DEF Outcome
  <1>3. did.error = NoError /\ did.value = v /\ did.ran = TRUE
    BY DEF Did
  <1>4. Returned(m, r) = o
    <2> HIDE DEF r
    <2> QED
      BY <1>1, ReturnedByMethod, ValueByMethod DEF Methods, StateMethods
  <1> HIDE DEF r, o, did
  <1>5. Faithful(m, r, did)
    BY <1>2, <1>3, <1>4 DEF Faithful, Agrees, Results
  <1> QED
    BY <1>5 DEF r, did

\* The state of a peer survives the wire.
LEMMA PeerStateRoundTrip ==
    ASSUME NEW conn, NEW member
    PROVE  LET s == [connection |-> conn, member |-> member]
           IN  PeerState(PeerStateProto(s)) = s
  BY DEF PeerState, PeerStateProto, PeerConnectionState, PeerConnectionStateProto,
         PeerMemberState, PeerMemberStateProto

LEMMA StatesFaithful ==
    ASSUME NEW m \in StateMethods, NEW S,
           \A s \in S : \E conn, member : s = [connection |-> conn, member |-> member]
    PROVE  Faithful(m, Success({PeerStateProto(s) : s \in S}), Did(NoError, S, FALSE))
  <1> DEFINE v == {PeerStateProto(s) : s \in S}
             r == Success(v)
             o == Outcome("Ok", NoError, S)
             did == Did(NoError, S, FALSE)
  <1>1. r.kind = "success" /\ r.value = v
    BY DEF Success
  <1>2. o.result = "Ok" /\ o.value = S
    BY DEF Outcome
  <1>3. did.error = NoError /\ did.value = S /\ did.ran = TRUE
    BY DEF Did
  <1>4. \A s \in S : PeerState(PeerStateProto(s)) = s
    BY PeerStateRoundTrip
  <1>5. PeerStates(v) = S
    BY <1>4 DEF PeerStates
  <1>6. Returned(m, r) = o
    <2> HIDE DEF r, v
    <2> QED
      BY <1>1, <1>5, ReturnedByMethod, ValueByMethod DEF StateMethods
  <1> HIDE DEF r, o, did
  <1>7. Faithful(m, r, did)
    BY <1>2, <1>3, <1>6 DEF Faithful, Agrees, Results
  <1> QED
    BY <1>7 DEF r, did, v

\* What a client makes of an error it has converted back.
Refused(error) ==
    IF error = ConversionError THEN Outcome("InvalidResponse", NoError, {})
    ELSE Outcome("UsageError", error, {})

\* What the methods make of a failure.
LEMMA FailureByMethod ==
    ASSUME NEW r, r.kind = "failure"
    PROVE
        /\ store_peer_descriptor(r) = Refused(StorePeerDescriptorError(r.failure))
        /\ delete_peer_descriptor(r) = Refused(DeletePeerDescriptorError(r.failure))
        /\ get_peer_descriptor(r) = Refused(GetPeerDescriptorError(r.failure))
        /\ list_peer_descriptors(r) = Refused(ListPeerDescriptorsError(r.failure))
        /\ get_peer_state(r) = Refused(GetPeerStateError(r.failure))
        /\ list_peer_states(r) = Refused(ListPeerStatesError(r.failure))
        /\ store_cluster_configuration(r) = Refused(CreateClusterConfigurationError(r.failure))
        /\ delete_cluster_configuration(r) = Refused(DeleteClusterConfigurationError(r.failure))
        /\ store_cluster_deployment(r) = Refused(StoreClusterDeploymentError(r.failure))
        /\ delete_cluster_deployment(r) = Refused(DeleteClusterDeploymentError(r.failure))
        /\ get_cluster_configuration(r) = Outcome("Failed", NoError, {})
        /\ get_cluster_deployment(r) = Outcome("Failed", NoError, {})
  <1>1. r.kind # "status" /\ r.kind # "success"
    OBVIOUS
  <1> QED
    BY <1>1 DEF Replied, Plain, Refused,
        store_peer_descriptor, delete_peer_descriptor, get_peer_descriptor,
        list_peer_descriptors, get_peer_state, list_peer_states,
        store_cluster_configuration, delete_cluster_configuration,
        store_cluster_deployment, delete_cluster_deployment, get_cluster_configuration,
        get_cluster_deployment

\* A usage error is faithful when it is the manager's error as the caller
\* should see it.
LEMMA RefusalFaithful ==
    ASSUME NEW m, NEW r, NEW error, error # NoError, AsSeen(error) # ConversionError,
           Returned(m, r) = Refused(AsSeen(error))
    PROVE  Faithful(m, r, Did(error, {}, FALSE))
  <1> DEFINE o == Refused(AsSeen(error))
             did == Did(error, {}, FALSE)
  <1>1. o.result = "UsageError" /\ o.error = AsSeen(error)
    BY DEF Refused, Outcome
  <1>2. did.error = error /\ did.changed = FALSE /\ did.ran = TRUE
    BY DEF Did
  <1> HIDE DEF o, did
  <1>3. Faithful(m, r, did)
    BY <1>1, <1>2 DEF Faithful, Agrees, Results, o
  <1> QED
    BY <1>3 DEF did

\* The errors of the managers are errors, and stay so for the caller.
LEMMA SeenErrors ==
    ASSUME NEW v \in Variants \ {None}, NEW n
    PROVE  Error(v, n) # NoError /\ AsSeen(Error(v, n)) # ConversionError
  <1> DEFINE e == Error(v, n)
  <1>1. e.variant = v /\ NoError.variant = None /\ ConversionError.variant = "ConversionError"
    BY DEF Error, NoError, ConversionError
  <1>2. AsSeen(e).variant \in {v, "Internal"}
    BY DEF AsSeen, AsInternal, Error
  <1>3. v # None /\ v # "ConversionError"
    BY DEF Variants, None
  <1> HIDE DEF e
  <1>4. e # NoError /\ AsSeen(e) # ConversionError
    BY <1>1, <1>2, <1>3
  <1> QED
    BY <1>4 DEF e

LEMMA StorePeerDescriptorRefused ==
    ASSUME NEW v \in {"Persistence", "VpnClient"}, NEW n \in {TRUE}
    PROVE  LET e == Error(v, n)
           IN  Faithful("store_peer_descriptor", Refusal(StorePeerDescriptorFailure(StorePeerDescriptorErrorOf(e))),
                        Did(e, {}, FALSE))
  <1> DEFINE e == Error(v, n)
             f == StorePeerDescriptorFailure(StorePeerDescriptorErrorOf(e))
             r == Refusal(f)
  <1>1. StorePeerDescriptorError(f) = AsSeen(e)
    <2>1. CASE v = "Persistence"
      BY <2>1 DEF StorePeerDescriptorError, StorePeerDescriptorFailure, StorePeerDescriptorErrorOf, AsSeen,
           AsInternal, TryFrom, Failure, Renamed, Same, Error, ConversionError
    <2>2. CASE v = "VpnClient"
      BY <2>2 DEF StorePeerDescriptorError, StorePeerDescriptorFailure, StorePeerDescriptorErrorOf, AsSeen,
           AsInternal, TryFrom, Failure, Renamed, Same, Error, ConversionError
    <2> QED
      BY <2>1, <2>2
  <1>2. r.kind = "failure" /\ r.failure = f
    BY DEF Refusal
  <1>3. v \in Variants \ {None}
    BY DEF Variants, None
  <1>4. e # NoError /\ AsSeen(e) # ConversionError
    BY <1>3, SeenErrors
  <1> HIDE DEF e, f, r
  <1>5. Returned("store_peer_descriptor", r) = Refused(AsSeen(e))
    BY <1>1, <1>2, FailureByMethod, ReturnedByMethod
  <1>6. Faithful("store_peer_descriptor", r, Did(e, {}, FALSE))
    BY <1>4, <1>5, RefusalFaithful
  <1> QED
    BY <1>6 DEF r, f, e

LEMMA DeletePeerDescriptorRefused ==
    ASSUME NEW v \in {"Persistence", "ClusterDeploymentExists", "PeerNotFound", "AuthRegistration",
                     "VpnClient"}, NEW n \in BOOLEAN
    PROVE  LET e == Error(v, n)
           IN  Faithful("delete_peer_descriptor", Refusal(DeletePeerDescriptorFailure(DeletePeerDescriptorErrorOf(e))),
                        Did(e, {}, FALSE))
  <1> DEFINE e == Error(v, n)
             f == DeletePeerDescriptorFailure(DeletePeerDescriptorErrorOf(e))
             r == Refusal(f)
  <1>1. DeletePeerDescriptorError(f) = AsSeen(e)
    <2>1. CASE v = "Persistence"
      BY <2>1 DEF DeletePeerDescriptorError, DeletePeerDescriptorFailure, DeletePeerDescriptorErrorOf, AsSeen,
           AsInternal, TryFrom, Failure, Renamed, Same, Error, ConversionError
    <2>2. CASE v = "ClusterDeploymentExists"
      BY <2>2 DEF DeletePeerDescriptorError, DeletePeerDescriptorFailure, DeletePeerDescriptorErrorOf, AsSeen,
           AsInternal, TryFrom, Failure, Renamed, Same, Error, ConversionError
    <2>3. CASE v = "PeerNotFound"
      BY <2>3 DEF DeletePeerDescriptorError, DeletePeerDescriptorFailure, DeletePeerDescriptorErrorOf, AsSeen,
           AsInternal, TryFrom, Failure, Renamed, Same, Error, ConversionError
    <2>4. CASE v = "AuthRegistration"
      BY <2>4 DEF DeletePeerDescriptorError, DeletePeerDescriptorFailure, DeletePeerDescriptorErrorOf, AsSeen,
           AsInternal, TryFrom, Failure, Renamed, Same, Error, ConversionError
    <2>5. CASE v = "VpnClient"
      BY <2>5 DEF DeletePeerDescriptorError, DeletePeerDescriptorFailure, DeletePeerDescriptorErrorOf, AsSeen,
           AsInternal, TryFrom, Failure, Renamed, Same, Error, ConversionError
    <2> QED
      BY <2>1, <2>2, <2>3, <2>4, <2>5
  <1>2. r.kind = "failure" /\ r.failure = f
    BY DEF Refusal
  <1>3. v \in Variants \ {None}
    BY DEF Variants, None
  <1>4. e # NoError /\ AsSeen(e) # ConversionError
    BY <1>3, SeenErrors
  <1> HIDE DEF e, f, r
  <1>5. Returned("delete_peer_descriptor", r) = Refused(AsSeen(e))
    BY <1>1, <1>2, FailureByMethod, ReturnedByMethod
  <1>6. Faithful("delete_peer_descriptor", r, Did(e, {}, FALSE))
    BY <1>4, <1>5, RefusalFaithful
  <1> QED
    BY <1>6 DEF r, f, e

LEMMA GetPeerDescriptorRefused ==
    ASSUME NEW v \in {"Internal", "PeerNotFound"}, NEW n \in {FALSE}
    PROVE  LET e == Error(v, n)
           IN  Faithful("get_peer_descriptor", Refusal(GetPeerDescriptorFailure(Itself(e))),
                        Did(e, {}, FALSE))
  <1> DEFINE e == Error(v, n)
             f == GetPeerDescriptorFailure(Itself(e))
             r == Refusal(f)
  <1>1. GetPeerDescriptorError(f) = AsSeen(e)
    <2>1. CASE v = "Internal"
      BY <2>1 DEF GetPeerDescriptorError, GetPeerDescriptorFailure, Itself, AsSeen,
           AsInternal, TryFrom, Failure, Renamed, Same, Error, ConversionError
    <2>2. CASE v = "PeerNotFound"
      BY <2>2 DEF GetPeerDescriptorError, GetPeerDescriptorFailure, Itself, AsSeen,
           AsInternal, TryFrom, Failure, Renamed, Same, Error, ConversionError
    <2> QED
      BY <2>1, <2>2
  <1>2. r.kind = "failure" /\ r.failure = f
    BY DEF Refusal
  <1>3. v \in Variants \ {None}
    BY DEF Variants, None
  <1>4. e # NoError /\ AsSeen(e) # ConversionError
    BY <1>3, SeenErrors
  <1> HIDE DEF e, f, r
  <1>5. Returned("get_peer_descriptor", r) = Refused(AsSeen(e))
    BY <1>1, <1>2, FailureByMethod, ReturnedByMethod
  <1>6. Faithful("get_peer_descriptor", r, Did(e, {}, FALSE))
    BY <1>4, <1>5, RefusalFaithful
  <1> QED
    BY <1>6 DEF r, f, e

LEMMA ListPeerDescriptorsRefused ==
    ASSUME NEW v \in {"Internal"}, NEW n \in {FALSE}
    PROVE  LET e == Error(v, n)
           IN  Faithful("list_peer_descriptors", Refusal(ListPeerDescriptorsFailure(Itself(e))),
                        Did(e, {}, FALSE))
  <1> DEFINE e == Error(v, n)
             f == ListPeerDescriptorsFailure(Itself(e))
             r == Refusal(f)
  <1>1. ListPeerDescriptorsError(f) = AsSeen(e)
    BY DEF ListPeerDescriptorsError, ListPeerDescriptorsFailure, Itself, AsSeen,
           AsInternal, TryFrom, Failure, Renamed, Same, Error, ConversionError
  <1>2. r.kind = "failure" /\ r.failure = f
    BY DEF Refusal
  <1>3. v \in Variants \ {None}
    BY DEF Variants, None
  <1>4. e # NoError /\ AsSeen(e) # ConversionError
    BY <1>3, SeenErrors
  <1> HIDE DEF e, f, r
  <1>5. Returned("list_peer_descriptors", r) = Refused(AsSeen(e))
    BY <1>1, <1>2, FailureByMethod, ReturnedByMethod
  <1>6. Faithful("list_peer_descriptors", r, Did(e, {}, FALSE))
    BY <1>4, <1>5, RefusalFaithful
  <1> QED
    BY <1>6 DEF r, f, e

LEMMA GetPeerStateRefused ==
    ASSUME NEW v \in {"Persistence", "PeerNotFound"}, NEW n \in {FALSE}
    PROVE  LET e == Error(v, n)
           IN  Faithful("get_peer_state", Refusal(GetPeerStateFailure(GetPeerStateErrorOf(e))),
                        Did(e, {}, FALSE))
  <1> DEFINE e == Error(v, n)
             f == GetPeerStateFailure(GetPeerStateErrorOf(e))
             r == Refusal(f)
  <1>1. GetPeerStateError(f) = AsSeen(e)
    <2>1. CASE v = "Persistence"
      BY <2>1 DEF GetPeerStateError, GetPeerStateFailure, GetPeerStateErrorOf, AsSeen,
           AsInternal, TryFrom, Failure, Renamed, Same, Error, ConversionError
    <2>2. CASE v = "PeerNotFound"
      BY <2>2 DEF GetPeerStateError, GetPeerStateFailure, GetPeerStateErrorOf, AsSeen,
           AsInternal, TryFrom, Failure, Renamed, Same, Error, ConversionError
    <2> QED
      BY <2>1, <2>2
  <1>2. r.kind = "failure" /\ r.failure = f
    BY DEF Refusal
  <1>3. v \in Variants \ {None}
    BY DEF Variants, None
  <1>4. e # NoError /\ AsSeen(e) # ConversionError
    BY <1>3, SeenErrors
  <1> HIDE DEF e, f, r
  <1>5. Returned("get_peer_state", r) = Refused(AsSeen(e))
    BY <1>1, <1>2, FailureByMethod, ReturnedByMethod
  <1>6. Faithful("get_peer_state", r, Did(e, {}, FALSE))
    BY <1>4, <1>5, RefusalFaithful
  <1> QED
    BY <1>6 DEF r, f, e

LEMMA ListPeerStatesRefused ==
    ASSUME NEW v \in {"Persistence"}, NEW n \in {FALSE}
    PROVE  LET e == Error(v, n)
           IN  Faithful("list_peer_states", Refusal(ListPeerStatesFailure(ListPeerStatesErrorOf(e))),
                        Did(e, {}, FALSE))
  <1> DEFINE e == Error(v, n)
             f == ListPeerStatesFailure(ListPeerStatesErrorOf(e))
             r == Refusal(f)
  <1>1. ListPeerStatesError(f) = AsSeen(e)
    BY DEF ListPeerStatesError, ListPeerStatesFailure, ListPeerStatesErrorOf, AsSeen,
           AsInternal, TryFrom, Failure, Renamed, Same, Error, ConversionError
  <1>2. r.kind = "failure" /\ r.failure = f
    BY DEF Refusal
  <1>3. v \in Variants \ {None}
    BY DEF Variants, None
  <1>4. e # NoError /\ AsSeen(e) # ConversionError
    BY <1>3, SeenErrors
  <1> HIDE DEF e, f, r
  <1>5. Returned("list_peer_states", r) = Refused(AsSeen(e))
    BY <1>1, <1>2, FailureByMethod, ReturnedByMethod
  <1>6. Faithful("list_peer_states", r, Did(e, {}, FALSE))
    BY <1>4, <1>5, RefusalFaithful
  <1> QED
    BY <1>6 DEF r, f, e

LEMMA CreateClusterConfigurationRefused ==
    ASSUME NEW v \in {"Persistence"}, NEW n \in {TRUE}
    PROVE  LET e == Error(v, n)
           IN  Faithful("store_cluster_configuration", Refusal(CreateClusterConfigurationFailure(CreateClusterConfigurationErrorOf(e))),
                        Did(e, {}, FALSE))
  <1> DEFINE e == Error(v, n)
             f == CreateClusterConfigurationFailure(CreateClusterConfigurationErrorOf(e))
             r == Refusal(f)
  <1>1. CreateClusterConfigurationError(f) = AsSeen(e)
    BY DEF CreateClusterConfigurationError, CreateClusterConfigurationFailure, CreateClusterConfigurationErrorOf, AsSeen,
           AsInternal, TryFrom, Failure, Renamed, Same, Error, ConversionError
  <1>2. r.kind = "failure" /\ r.failure = f
    BY DEF Refusal
  <1>3. v \in Variants \ {None}
    BY DEF Variants, None
  <1>4. e # NoError /\ AsSeen(e) # ConversionError
    BY <1>3, SeenErrors
  <1> HIDE DEF e, f, r
  <1>5. Returned("store_cluster_configuration", r) = Refused(AsSeen(e))
    BY <1>1, <1>2, FailureByMethod, ReturnedByMethod
  <1>6. Faithful("store_cluster_configuration", r, Did(e, {}, FALSE))
    BY <1>4, <1>5, RefusalFaithful
  <1> QED
    BY <1>6 DEF r, f, e

LEMMA DeleteClusterConfigurationRefused ==
    ASSUME NEW v \in {"Persistence", "ClusterDeploymentFound", "ClusterConfigurationNotFound"}, NEW n \in {FALSE}
    PROVE  LET e == Error(v, n)
           IN  Faithful("delete_cluster_configuration", Refusal(DeleteClusterConfigurationFailure(DeleteClusterConfigurationErrorOf(e))),
                        Did(e, {}, FALSE))
  <1> DEFINE e == Error(v, n)
             f == DeleteClusterConfigurationFailure(DeleteClusterConfigurationErrorOf(e))
             r == Refusal(f)
  <1>1. DeleteClusterConfigurationError(f) = AsSeen(e)
    <2>1. CASE v = "Persistence"
      BY <2>1 DEF DeleteClusterConfigurationError, DeleteClusterConfigurationFailure, DeleteClusterConfigurationErrorOf, AsSeen,
           AsInternal, TryFrom, Failure, Renamed, Same, Error, ConversionError
    <2>2. CASE v = "ClusterDeploymentFound"
      BY <2>2 DEF DeleteClusterConfigurationError, DeleteClusterConfigurationFailure, DeleteClusterConfigurationErrorOf, AsSeen,
           AsInternal, TryFrom, Failure, Renamed, Same, Error, ConversionError
    <2>3. CASE v = "ClusterConfigurationNotFound"
      BY <2>3 DEF DeleteClusterConfigurationError, DeleteClusterConfigurationFailure, DeleteClusterConfigurationErrorOf, AsSeen,
           AsInternal, TryFrom, Failure, Renamed, Same, Error, ConversionError
    <2> QED
      BY <2>1, <2>2, <2>3
  <1>2. r.kind = "failure" /\ r.failure = f
    BY DEF Refusal
  <1>3. v \in Variants \ {None}
    BY DEF Variants, None
  <1>4. e # NoError /\ AsSeen(e) # ConversionError
    BY <1>3, SeenErrors
  <1> HIDE DEF e, f, r
  <1>5. Returned("delete_cluster_configuration", r) = Refused(AsSeen(e))
    BY <1>1, <1>2, FailureByMethod, ReturnedByMethod
  <1>6. Faithful("delete_cluster_configuration", r, Did(e, {}, FALSE))
    BY <1>4, <1>5, RefusalFaithful
  <1> QED
    BY <1>6 DEF r, f, e

LEMMA StoreClusterDeploymentRefused ==
    ASSUME NEW v \in {"IllegalPeerState", "Persistence", "ListClusterPeerStates"}, NEW n \in BOOLEAN,
           v = "ListClusterPeerStates" => n = FALSE
    PROVE  LET e == Error(v, n)
           IN  Faithful("store_cluster_deployment", Refusal(StoreClusterDeploymentFailure(StoreClusterDeploymentErrorOf(e))),
                        Did(e, {}, FALSE))
  <1> DEFINE e == Error(v, n)
             f == StoreClusterDeploymentFailure(StoreClusterDeploymentErrorOf(e))
             r == Refusal(f)
  <1>1. StoreClusterDeploymentError(f) = AsSeen(e)
    <2>1. CASE v = "IllegalPeerState"
      BY <2>1 DEF StoreClusterDeploymentError, StoreClusterDeploymentFailure, StoreClusterDeploymentErrorOf, AsSeen,
           AsInternal, TryFrom, Failure, Renamed, Same, Error, ConversionError
    <2>2. CASE v = "Persistence"
      BY <2>2 DEF StoreClusterDeploymentError, StoreClusterDeploymentFailure, StoreClusterDeploymentErrorOf, AsSeen,
           AsInternal, TryFrom, Failure, Renamed, Same, Error, ConversionError
    <2>3. CASE v = "ListClusterPeerStates"
      <3>1. e = Error("ListClusterPeerStates", FALSE)
        BY <2>3
      <3>2. AsSeen(e) = Error("Internal", FALSE)
        BY <3>1 DEF AsSeen, AsInternal, Error
      <3>3. f = StoreClusterDeploymentFailure(Error("Internal", FALSE))
        BY <2>3 DEF StoreClusterDeploymentErrorOf, Error
      <3>4. StoreClusterDeploymentError(f) = Error("Internal", FALSE)
        <4>1. f.error = "Internal" /\ f.name = FALSE
          BY <3>3 DEF StoreClusterDeploymentFailure, Failure, Renamed, Same, Error
        <4>2. Renamed(f.error, Same) = "Internal"
          BY <4>1 DEF Renamed, Same
        <4> QED
          BY <4>1, <4>2 DEF StoreClusterDeploymentError, TryFrom
      <3> QED
        BY <3>2, <3>4
    <2> QED
      BY <2>1, <2>2, <2>3
  <1>2. r.kind = "failure" /\ r.failure = f
    BY DEF Refusal
  <1>3. v \in Variants \ {None}
    BY DEF Variants, None
  <1>4. e # NoError /\ AsSeen(e) # ConversionError
    BY <1>3, SeenErrors
  <1> HIDE DEF e, f, r
  <1>5. Returned("store_cluster_deployment", r) = Refused(AsSeen(e))
    BY <1>1, <1>2, FailureByMethod, ReturnedByMethod
  <1>6. Faithful("store_cluster_deployment", r, Did(e, {}, FALSE))
    BY <1>4, <1>5, RefusalFaithful
  <1> QED
    BY <1>6 DEF r, f, e

LEMMA DeleteClusterDeploymentRefused ==
    ASSUME NEW v \in {"Persistence", "ClusterDeploymentNotFound", "VpnClient"}, NEW n \in BOOLEAN
    PROVE  LET e == Error(v, n)
           IN  Faithful("delete_cluster_deployment", Refusal(DeleteClusterDeploymentFailure(DeleteClusterDeploymentErrorOf(e))),
                        Did(e, {}, FALSE))
  <1> DEFINE e == Error(v, n)
             f == DeleteClusterDeploymentFailure(DeleteClusterDeploymentErrorOf(e))
             r == Refusal(f)
  <1>1. DeleteClusterDeploymentError(f) = AsSeen(e)
    <2>1. CASE v = "Persistence"
      BY <2>1 DEF DeleteClusterDeploymentError, DeleteClusterDeploymentFailure, DeleteClusterDeploymentErrorOf, AsSeen,
           AsInternal, TryFrom, Failure, Renamed, Same, Error, ConversionError
    <2>2. CASE v = "ClusterDeploymentNotFound"
      BY <2>2 DEF DeleteClusterDeploymentError, DeleteClusterDeploymentFailure, DeleteClusterDeploymentErrorOf, AsSeen,
           AsInternal, TryFrom, Failure, Renamed, Same, Error, ConversionError
    <2>3. CASE v = "VpnClient"
      BY <2>3 DEF DeleteClusterDeploymentError, DeleteClusterDeploymentFailure, DeleteClusterDeploymentErrorOf, AsSeen,
           AsInternal, TryFrom, Failure, Renamed, Same, Error, ConversionError
    <2> QED
      BY <2>1, <2>2, <2>3
  <1>2. r.kind = "failure" /\ r.failure = f
    BY DEF Refusal
  <1>3. v \in Variants \ {None}
    BY DEF Variants, None
  <1>4. e # NoError /\ AsSeen(e) # ConversionError
    BY <1>3, SeenErrors
  <1> HIDE DEF e, f, r
  <1>5. Returned("delete_cluster_deployment", r) = Refused(AsSeen(e))
    BY <1>1, <1>2, FailureByMethod, ReturnedByMethod
  <1>6. Faithful("delete_cluster_deployment", r, Did(e, {}, FALSE))
    BY <1>4, <1>5, RefusalFaithful
  <1> QED
    BY <1>6 DEF r, f, e

-----------------------------------------------------------------------------
(* The inductive invariant.                                                *)

ClientFields == {"pc", "lea", "method", "cluster", "token", "lost", "outcome"}
ServerFields == {"pc", "kid", "reply", "did"}

Tokens(t) == [kid : Keys \cup {None}, issued : 0 .. t]

\* Both ends of one call at time t. A request exists only once the token is
\* there; a reply is faithful to what its handler did from the moment it is
\* formed, for the method that was called; and while a caller that has not lost
\* its connection looks at its outcome, nothing is done for it any more.
CallOK(cl, sv, t) ==
    /\ DOMAIN cl = ClientFields /\ DOMAIN sv = ServerFields
    /\ cl.pc \in {"idle", "get_token", "fetch", "issued", "wait", "done"}
    /\ cl.lea \in BOOLEAN /\ cl.method \in Methods /\ cl.cluster \in Clusters \cup {None}
    /\ cl.token \in Tokens(t)
    /\ cl.lost \in BOOLEAN
    /\ cl.outcome.result \in Results
    /\ sv.pc \in {"none", "auth", "execute", "insert", "cloned", "replied"}
    /\ sv.did.error.variant \in Variants
    /\ cl.pc # "idle" => cl.cluster \in Clusters
    /\ cl.pc # "done" => cl.lost = FALSE
    /\ cl.pc \in {"idle", "get_token", "fetch", "issued"} => sv.pc = "none"
    /\ sv.pc = "insert" => cl.method = "store_cluster_deployment"
    /\ sv.pc = "cloned" => cl.method = "delete_cluster_deployment"
    /\ sv.pc # "replied" => sv.did.ran = FALSE
    /\ sv.pc = "replied" => Faithful(cl.method, sv.reply, sv.did)
    /\ cl.pc = "done" =>
         /\ Agrees(cl.outcome, cl.lost, sv.did)
         /\ cl.lost = FALSE => sv.pc \in {"none", "replied"}
         /\ cl.lost = TRUE => cl.outcome.result \in {"TransportError", "Failed"}

SharedOK ==
    /\ now \in 0 .. MaxTime
    /\ signing \in published /\ published \subseteq Keys
    /\ storage \in [token : Tokens(now), expires_in : 0 .. MaxTime + Lifetime]
    /\ session \in Keys \cup {None}
    /\ peer \in BOOLEAN /\ configured \subseteq Clusters /\ deployed \subseteq Clusters

OneHolder == \A c, d \in Calls : server[c].pc = "insert" /\ server[d].pc = "insert" => c = d

IInv ==
    /\ SharedOK
    /\ DOMAIN client = Calls /\ DOMAIN server = Calls
    /\ \A c \in Calls : CallOK(client[c], server[c], now)
    /\ OneHolder

\* The invariant gives what ReportedAsHappened asks for.
LEMMA IInvImplies == IInv => ReportedAsHappened
  <1> SUFFICES ASSUME IInv PROVE ReportedAsHappened
    OBVIOUS
  <1>1. Cardinality({c \in Calls : server[c].pc = "insert"}) <= 1
    <2> DEFINE S == {c \in Calls : server[c].pc = "insert"}
    <2>1. CASE S = {}
      BY <2>1, FS_EmptySet
    <2>2. ASSUME NEW c \in S PROVE S = {c}
      BY DEF IInv, OneHolder
    <2>3. ASSUME NEW c \in S PROVE Cardinality(S) <= 1
      <3>1. S = {c}
        BY <2>2
      <3>2. Cardinality({c}) = 1
        BY FS_Singleton
      <3> HIDE DEF S
      <3> QED
        BY <3>1, <3>2
    <2> QED
      BY <2>1, <2>3
  <1>2. TypeOK
    <2>1. /\ storage.token.kid \in Keys \cup {None} /\ storage.token.issued \in 0 .. now
          /\ storage.expires_in \in 0 .. MaxTime + Lifetime
      BY DEF IInv, SharedOK, Tokens
    <2>2. ASSUME NEW c \in Calls
          PROVE  /\ client[c].pc \in {"idle", "get_token", "fetch", "issued", "wait", "done"}
                 /\ client[c].lea \in BOOLEAN /\ client[c].method \in Methods
                 /\ client[c].cluster \in Clusters \cup {None}
                 /\ client[c].token.kid \in Keys \cup {None}
                 /\ client[c].outcome.result \in Results
                 /\ server[c].pc \in {"none", "auth", "execute", "insert", "cloned", "replied"}
                 /\ server[c].did.error.variant \in Variants
      BY DEF IInv, CallOK, Tokens
    <2> QED
      BY <1>1, <2>1, <2>2 DEF IInv, SharedOK, TypeOK, Results
  <1>3. ASSUME NEW c \in Calls, client[c].pc = "done"
        PROVE  /\ Agrees(client[c].outcome, client[c].lost, server[c].did)
               /\ client[c].lost \in BOOLEAN
    BY <1>3 DEF IInv, CallOK
  <1> QED
    BY <1>2, <1>3 DEF ReportedAsHappened, Agrees

LEMMA InitialCalls == Init => IInv
  <1> SUFFICES ASSUME Init PROVE IInv
    OBVIOUS
  <1>1. SharedOK
    <2>1. NoToken \in Tokens(0)
      BY DEF Tokens, NoToken
    <2>2. now = 0 /\ storage = [token |-> NoToken, expires_in |-> 0]
      BY DEF Init
    <2>3. 0 \in 0 .. MaxTime /\ 0 \in 0 .. MaxTime + Lifetime
      BY CallsAssumption
    <2>4. storage \in [token : Tokens(now), expires_in : 0 .. MaxTime + Lifetime]
      BY <2>1, <2>2, <2>3
    <2> QED
      BY <2>2, <2>3, <2>4 DEF Init, SharedOK
  <1>2. DOMAIN client = Calls /\ DOMAIN server = Calls
    BY DEF Init
  <1>3. ASSUME NEW c \in Calls PROVE CallOK(client[c], server[c], now)
    <2>1. client[c] = IdleClient /\ server[c] = NoRequest /\ now = 0
      BY DEF Init
    <2>2. IdleClient.token \in Tokens(0)
      BY DEF IdleClient, NoToken, Tokens
    <2>3. /\ DOMAIN IdleClient = ClientFields /\ DOMAIN NoRequest = ServerFields
          /\ IdleClient.pc = "idle" /\ IdleClient.lea = FALSE /\ IdleClient.method \in Methods
          /\ IdleClient.cluster = None /\ IdleClient.lost = FALSE
          /\ IdleClient.outcome.result = None
      BY DEF IdleClient, NoRequest, ClientFields, ServerFields, Methods, Outcome
    <2>4. NoRequest.pc = "none" /\ NoRequest.did.error.variant = None /\ NoRequest.did.ran = FALSE
      BY DEF NoRequest, NotDone, NoError, Error
    <2> QED
      BY <2>1, <2>2, <2>3, <2>4 DEF CallOK, Results, Variants
  <1>4. OneHolder
    BY DEF Init, OneHolder, NoRequest
  <1> QED
    BY <1>1, <1>2, <1>3, <1>4 DEF IInv

-----------------------------------------------------------------------------
(* Steps of one call.                                                      *)

Others(c) == \A d \in Calls \ {c} : client'[d] = client[d] /\ server'[d] = server[d]

\* A step of call c, as far as the other calls can tell.
LEMMA CallStep ==
    ASSUME IInv, NEW c \in Calls, now' = now, SharedOK', Others(c),
           DOMAIN client' = Calls, DOMAIN server' = Calls,
           CallOK(client'[c], server'[c], now),
           server'[c].pc = "insert" => MutexFree
    PROVE  IInv'
  <1>1. ASSUME NEW d \in Calls PROVE CallOK(client'[d], server'[d], now')
    BY DEF IInv, Others
  <1>2. ASSUME NEW d \in Calls, NEW e \in Calls,
               server'[d].pc = "insert", server'[e].pc = "insert"
        PROVE  d = e
    BY <1>2 DEF IInv, Others, OneHolder, MutexFree
  <1> QED
    BY <1>1, <1>2 DEF IInv, OneHolder

\* The shared state is left alone, or only the store changes.
LEMMA SharedKept ==
    ASSUME SharedOK, UNCHANGED <<now, idp, storage, session, store>>
    PROVE  SharedOK'
  BY DEF SharedOK, idp, store

LEMMA StoreChanged ==
    ASSUME SharedOK, UNCHANGED <<now, idp, storage, session>>,
           peer' \in BOOLEAN, configured' \subseteq Clusters, deployed' \subseteq Clusters
    PROVE  SharedOK'
  BY DEF SharedOK, idp

\* What the two ways of changing a slot leave of the others.
LEMMA ClientOnly ==
    ASSUME IInv, NEW c \in Calls, NEW x, client' = [client EXCEPT ![c] = x], server' = server
    PROVE  /\ Others(c) /\ DOMAIN client' = Calls /\ DOMAIN server' = Calls
           /\ client'[c] = x /\ server'[c] = server[c]
  BY DEF IInv, Others

LEMMA ServerOnly ==
    ASSUME IInv, NEW c \in Calls, NEW x, server' = [server EXCEPT ![c] = x], client' = client
    PROVE  /\ Others(c) /\ DOMAIN client' = Calls /\ DOMAIN server' = Calls
           /\ server'[c] = x /\ client'[c] = client[c]
  BY DEF IInv, Others

LEMMA BothEnds ==
    ASSUME IInv, NEW c \in Calls, NEW x, NEW y, client' = [client EXCEPT ![c] = x],
           server' = [server EXCEPT ![c] = y]
    PROVE  /\ Others(c) /\ DOMAIN client' = Calls /\ DOMAIN server' = Calls
           /\ client'[c] = x /\ server'[c] = y
  BY DEF IInv, Others

\* The method returns with the outcome of a reply, while nothing is under way
\* for it: the request was not sent, or has been answered.
LEMMA ReturnStep ==
    ASSUME IInv, NEW c \in Calls, NEW reply, Return(c, reply), server' = server,
           UNCHANGED <<now, idp, storage, session, store>>,
           client[c].pc \in {"get_token", "fetch", "issued", "wait"},
           server[c].pc \in {"none", "replied"},
           Faithful(client[c].method, reply, server[c].did)
    PROVE  IInv'
  <1> DEFINE x == [client[c] EXCEPT !.pc = "done", !.token = NoToken,
                                    !.outcome = Returned(client[c].method, reply)]
  <1>0. CallOK(client[c], server[c], now) /\ SharedOK
    BY DEF IInv
  <1>1. client' = [client EXCEPT ![c] = x]
    BY DEF Return, IInv
  <1>2. NoToken \in Tokens(now)
    BY <1>0, CallsAssumption DEF NoToken, Tokens, SharedOK
  <1>3. CallOK(x, server[c], now)
    BY <1>0, <1>2 DEF CallOK, Faithful, ClientFields
  <1> HIDE DEF x
  <1> QED
    BY <1>0, <1>1, <1>3, ClientOnly, SharedKept, CallStep DEF CallOK

LEMMA SendStep ==
    ASSUME IInv, NEW c \in Calls, NEW token, SendWith(c, token), SharedOK',
           now' = now, client[c].pc \in {"get_token", "issued"}
    PROVE  IInv'
  <1> DEFINE x == [client[c] EXCEPT !.pc = "wait", !.token = NoToken]
             y == [NoRequest EXCEPT !.pc = "auth", !.kid = token.kid]
  <1>0. CallOK(client[c], server[c], now) /\ SharedOK
    BY DEF IInv
  <1>1. client' = [client EXCEPT ![c] = x] /\ server' = [server EXCEPT ![c] = y]
    BY DEF SendWith, IInv
  <1>2. NoToken \in Tokens(now)
    BY <1>0, CallsAssumption DEF NoToken, Tokens, SharedOK
  <1>3. /\ DOMAIN y = ServerFields /\ y.pc = "auth"
        /\ y.did.error.variant = None /\ y.did.ran = FALSE
    BY DEF NoRequest, NotDone, NoError, Error, ServerFields
  <1>4. /\ DOMAIN x = ClientFields /\ x.pc = "wait" /\ x.token = NoToken /\ x.lost = client[c].lost
        /\ x.lea = client[c].lea /\ x.method = client[c].method /\ x.cluster = client[c].cluster
        /\ x.outcome = client[c].outcome
    BY <1>0 DEF CallOK, ClientFields
  <1> HIDE DEF x, y
  <1>5. CallOK(x, y, now)
    BY <1>0, <1>2, <1>3, <1>4 DEF CallOK, Variants
  <1> QED
    BY <1>0, <1>1, <1>3, <1>5, BothEnds, CallStep

LEMMA CallMethodStep ==
    ASSUME IInv, NEW c \in Calls, NEW lea \in BOOLEAN, NEW method \in Methods,
           NEW cluster \in Clusters, CallMethod(c, lea, method, cluster)
    PROVE  IInv'
  <1> DEFINE x == [IdleClient EXCEPT !.pc = "get_token", !.lea = lea,
                                     !.method = method, !.cluster = cluster]
  <1>0. CallOK(client[c], server[c], now) /\ SharedOK
    BY DEF IInv
  <1>1. client' = [client EXCEPT ![c] = x] /\ server' = server
    BY DEF CallMethod
  <1>2. NoToken \in Tokens(now)
    BY <1>0, CallsAssumption DEF NoToken, Tokens, SharedOK
  <1>3. /\ DOMAIN x = ClientFields /\ x.pc = "get_token" /\ x.lea = lea /\ x.method = method
        /\ x.cluster = cluster /\ x.token = NoToken /\ x.lost = FALSE /\ x.outcome.result = None
    BY DEF IdleClient, ClientFields, Outcome
  <1>4. server[c].pc = "none"
    BY <1>0 DEF CallMethod, CallOK
  <1> HIDE DEF x
  <1>5. CallOK(x, server[c], now)
    BY <1>0, <1>2, <1>3, <1>4 DEF CallOK, Results
  <1>6. SharedOK' /\ now' = now
    BY <1>0, SharedKept DEF CallMethod
  <1> QED
    BY <1>1, <1>4, <1>5, <1>6, ClientOnly, CallStep

LEMMA GetTokenStep ==
    ASSUME IInv, NEW c \in Calls, AttachSessionToken(c) \/ GetToken(c)
    PROVE  IInv'
  <1>0. CallOK(client[c], server[c], now) /\ SharedOK /\ client[c].pc = "get_token"
    BY DEF IInv, AttachSessionToken, GetToken
  <1>1. UNCHANGED <<now, idp, storage, session, store>>
    BY DEF AttachSessionToken, GetToken
  <1>2. SharedOK' /\ now' = now
    BY <1>0, <1>1, SharedKept
  <1>3. ASSUME Return(c, Status("Unauthenticated")), UNCHANGED server
        PROVE  IInv'
    <2>1. server[c].did.ran = FALSE /\ server[c].pc = "none"
      BY <1>0 DEF CallOK
    <2>2. Faithful(client[c].method, Status("Unauthenticated"), server[c].did)
      BY <1>0, <2>1, StatusFaithful DEF CallOK
    <2> QED
      BY <1>0, <1>1, <1>3, <2>1, <2>2, ReturnStep
  <1>4. ASSUME NEW token, SendWith(c, token) PROVE IInv'
    BY <1>0, <1>2, <1>4, SendStep
  <1>5. ASSUME client' = [client EXCEPT ![c].pc = "fetch"], UNCHANGED server
        PROVE  IInv'
    <2> DEFINE x == [client[c] EXCEPT !.pc = "fetch"]
    <2>1. client' = [client EXCEPT ![c] = x]
      BY <1>5 DEF IInv
    <2>2. /\ DOMAIN x = ClientFields /\ x.pc = "fetch" /\ x.token = client[c].token
          /\ x.lost = client[c].lost /\ x.lea = client[c].lea /\ x.method = client[c].method
          /\ x.cluster = client[c].cluster /\ x.outcome = client[c].outcome
      BY <1>0 DEF CallOK, ClientFields
    <2> HIDE DEF x
    <2>3. CallOK(x, server[c], now)
      BY <1>0, <2>2 DEF CallOK
    <2>4. x.pc # "done" /\ x.pc # "idle"
      BY <2>2
    <2> QED
      BY <1>0, <1>2, <1>5, <2>1, <2>3, ClientOnly, CallStep, ZenonT(60) DEF CallOK
  <1> QED
    BY <1>3, <1>4, <1>5 DEF AttachSessionToken, GetToken

LEMMA FetchSteps ==
    ASSUME IInv, NEW c \in Calls, IssueToken(c) \/ UpdateStorageToken(c) \/ FailedToGetToken(c)
    PROVE  IInv'
  <1>0. CallOK(client[c], server[c], now) /\ SharedOK
    BY DEF IInv
  <1>1. CASE IssueToken(c)
    <2> DEFINE token == [kid |-> signing, issued |-> now]
               x == [client[c] EXCEPT !.pc = "issued", !.token = token]
    <2>1. client' = [client EXCEPT ![c] = x] /\ server' = server
      BY <1>1 DEF IInv, IssueToken
    <2>2. /\ DOMAIN x = ClientFields /\ x.pc = "issued" /\ x.token = token
          /\ x.lost = client[c].lost /\ x.lea = client[c].lea /\ x.method = client[c].method
          /\ x.cluster = client[c].cluster /\ x.outcome = client[c].outcome
      BY <1>0 DEF CallOK, ClientFields
    <2>3. token \in Tokens(now)
      BY <1>0, CallsAssumption DEF SharedOK, Tokens
    <2> HIDE DEF x, token
    <2>4. CallOK(x, server[c], now)
      BY <1>0, <1>1, <2>2, <2>3 DEF CallOK, IssueToken
    <2>5. SharedOK' /\ now' = now
      BY <1>0, <1>1, SharedKept DEF IssueToken
    <2>6. server[c].pc = "none"
      BY <1>0, <1>1 DEF CallOK, IssueToken
    <2> QED
      BY <2>1, <2>4, <2>5, <2>6, ClientOnly, CallStep
  <1>2. CASE UpdateStorageToken(c)
    <2>1. SendWith(c, client[c].token) /\ client[c].pc = "issued" /\ now' = now
      BY <1>2 DEF UpdateStorageToken
    <2>2. now + Lifetime \in 0 .. MaxTime + Lifetime
      BY <1>0, CallsAssumption DEF SharedOK
    <2>3. storage' \in [token : Tokens(now), expires_in : 0 .. MaxTime + Lifetime]
      BY <1>0, <1>2, <2>2 DEF UpdateStorageToken, CallOK
    <2>4. SharedOK'
      BY <1>0, <1>2, <2>3 DEF SharedOK, UpdateStorageToken, idp, store
    <2> QED
      BY <2>1, <2>4, SendStep
  <1>3. CASE FailedToGetToken(c)
    <2>1. server[c].did.ran = FALSE /\ server[c].pc = "none" /\ client[c].method \in Methods
      BY <1>0, <1>3 DEF CallOK, FailedToGetToken
    <2>2. Faithful(client[c].method, Status("Unknown"), server[c].did)
      BY <2>1, StatusFaithful
    <2> QED
      BY <1>3, <2>1, <2>2, ReturnStep DEF FailedToGetToken
  <1> QED
    BY <1>1, <1>2, <1>3

LEMMA EndSteps ==
    ASSUME IInv, NEW c \in Calls, Receive(c) \/ LoseConnection(c) \/ Forget(c)
    PROVE  IInv'
  <1>0. CallOK(client[c], server[c], now) /\ SharedOK
    BY DEF IInv
  <1>1. CASE Receive(c)
    <2>1. /\ Return(c, server[c].reply) /\ server' = server
          /\ UNCHANGED <<now, idp, storage, session, store>>
          /\ client[c].pc = "wait" /\ server[c].pc = "replied"
      BY <1>1 DEF Receive
    <2>2. Faithful(client[c].method, server[c].reply, server[c].did)
      BY <1>0, <2>1 DEF CallOK
    <2> QED
      BY <2>1, <2>2, ReturnStep
  <1>2. CASE LoseConnection(c)
    <2> DEFINE o == Returned(client[c].method, Status("Unavailable"))
               x == [client[c] EXCEPT !.pc = "done", !.lost = TRUE, !.outcome = o]
    <2>1. client' = [client EXCEPT ![c] = x] /\ server' = server
      BY <1>2 DEF IInv, LoseConnection
    <2>2. /\ DOMAIN x = ClientFields /\ x.pc = "done" /\ x.token = client[c].token
          /\ x.lost = TRUE /\ x.lea = client[c].lea /\ x.method = client[c].method
          /\ x.cluster = client[c].cluster /\ x.outcome = o
      BY <1>0 DEF CallOK, ClientFields
    <2>3. o.result \in {"TransportError", "Failed"}
      BY <1>0, StatusFaithful DEF CallOK
    <2> HIDE DEF x, o
    <2>4. Agrees(o, TRUE, server[c].did) /\ o.result \in Results
      BY <2>3 DEF Agrees, Results
    <2>5. CallOK(x, server[c], now)
      BY <1>0, <1>2, <2>2, <2>3, <2>4 DEF CallOK, LoseConnection
    <2>6. SharedOK' /\ now' = now
      BY <1>0, <1>2, SharedKept DEF LoseConnection
    <2>7. Others(c) /\ DOMAIN client' = Calls /\ DOMAIN server' = Calls
          /\ client'[c] = x /\ server'[c] = server[c]
      BY <2>1, ClientOnly
    <2>8. OneHolder'
      BY <2>1 DEF IInv, OneHolder
    <2>9. ASSUME NEW d \in Calls PROVE CallOK(client'[d], server'[d], now')
      BY <2>5, <2>6, <2>7 DEF IInv, Others
    <2> QED
      BY <2>6, <2>7, <2>8, <2>9 DEF IInv
  <1>3. CASE Forget(c)
    <2>1. client' = [client EXCEPT ![c] = IdleClient] /\ server' = [server EXCEPT ![c] = NoRequest]
      BY <1>3 DEF Forget
    <2>2. IdleClient.token \in Tokens(now)
      BY <1>0, CallsAssumption DEF IdleClient, NoToken, Tokens, SharedOK
    <2>3. /\ DOMAIN IdleClient = ClientFields /\ DOMAIN NoRequest = ServerFields
          /\ IdleClient.pc = "idle" /\ IdleClient.lea = FALSE /\ IdleClient.method \in Methods
          /\ IdleClient.cluster = None /\ IdleClient.lost = FALSE
          /\ IdleClient.outcome.result = None
      BY DEF IdleClient, NoRequest, ClientFields, ServerFields, Methods, Outcome
    <2>4. NoRequest.pc = "none" /\ NoRequest.did.error.variant = None /\ NoRequest.did.ran = FALSE
      BY DEF NoRequest, NotDone, NoError, Error
    <2>5. CallOK(IdleClient, NoRequest, now)
      BY <2>2, <2>3, <2>4 DEF CallOK, Results, Variants
    <2>6. SharedOK' /\ now' = now
      BY <1>0, <1>3, SharedKept DEF Forget
    <2> QED
      BY <2>1, <2>4, <2>5, <2>6, BothEnds, CallStep
  <1> QED
    BY <1>1, <1>2, <1>3

-----------------------------------------------------------------------------
(* Steps of the server.                                                    *)

LEMMA AuthSteps ==
    ASSUME IInv, NEW c \in Calls, AuthInterceptor(c) \/ FetchFails(c) \/ DropRequest(c)
    PROVE  IInv'
  <1>0. CallOK(client[c], server[c], now) /\ SharedOK
    BY DEF IInv
  <1>1. SharedOK' /\ now' = now /\ client' = client
    BY <1>0, SharedKept DEF AuthInterceptor, FetchFails, DropRequest
  <1>2. ASSUME NEW y, server' = [server EXCEPT ![c] = y], CallOK(client[c], y, now),
               y.pc # "insert"
        PROVE  IInv'
    BY <1>1, <1>2, ServerOnly, CallStep
  <1>3. ASSUME Accept(c), server[c].pc = "auth" PROVE IInv'
    <2> DEFINE y == [server[c] EXCEPT !.pc = "execute", !.kid = None]
    <2>1. server' = [server EXCEPT ![c] = y]
      BY <1>3 DEF Accept, IInv
    <2>2. DOMAIN y = ServerFields /\ y.pc = "execute" /\ y.did = server[c].did
      BY <1>0 DEF CallOK, ServerFields
    <2> HIDE DEF y
    <2>3. CallOK(client[c], y, now)
      BY <1>0, <1>3, <2>2 DEF CallOK
    <2> QED
      BY <1>2, <2>1, <2>2, <2>3
  <1>4. ASSUME Reject(c), server[c].pc = "auth" PROVE IInv'
    <2> DEFINE y == [server[c] EXCEPT !.pc = "replied", !.kid = None, !.reply = Unauthenticated]
    <2>1. server' = [server EXCEPT ![c] = y]
      BY <1>4 DEF Reject, IInv
    <2>2. /\ DOMAIN y = ServerFields /\ y.pc = "replied" /\ y.did = server[c].did
          /\ y.reply = Status("Unauthenticated")
      BY <1>0 DEF CallOK, ServerFields, Unauthenticated
    <2> HIDE DEF y
    <2>3. Faithful(client[c].method, y.reply, y.did)
      BY <1>0, <1>4, <2>2, StatusFaithful DEF CallOK
    <2>4. CallOK(client[c], y, now)
      BY <1>0, <1>4, <2>2, <2>3 DEF CallOK
    <2> QED
      BY <1>2, <2>1, <2>2, <2>4
  <1>5. CASE DropRequest(c)
    <2>1. /\ server' = [server EXCEPT ![c] = NoRequest] /\ client[c].pc # "wait"
          /\ server[c].pc \in {"auth", "execute", "insert", "cloned"}
      BY <1>5 DEF DropRequest
    <2>2. /\ NoRequest.pc = "none" /\ NoRequest.did.error.variant = None
          /\ NoRequest.did.ran = FALSE /\ DOMAIN NoRequest = ServerFields
      BY DEF NoRequest, NotDone, NoError, Error, ServerFields
    <2>3. client[c].pc = "done" /\ client[c].lost = TRUE
      BY <1>0, <2>1 DEF CallOK
    <2>4. Agrees(client[c].outcome, client[c].lost, NoRequest.did)
      BY <1>0, <2>3 DEF CallOK, Agrees
    <2>5. CallOK(client[c], NoRequest, now)
      BY <1>0, <2>2, <2>3, <2>4 DEF CallOK, Variants
    <2> QED
      BY <1>2, <2>1, <2>2, <2>5
  <1> QED
    BY <1>3, <1>4, <1>5 DEF AuthInterceptor, FetchFails

\* A handler that ends with a faithful reply.
LEMMA ReplyStep ==
    ASSUME IInv, NEW c \in Calls, NEW reply, NEW did, Reply(c, reply, did), Unchanging,
           server[c].pc \in {"execute", "insert", "cloned"}, did.error.variant \in Variants,
           peer' \in BOOLEAN, configured' \subseteq Clusters, deployed' \subseteq Clusters,
           Faithful(client[c].method, reply, did)
    PROVE  IInv'
  <1> DEFINE y == [server[c] EXCEPT !.pc = "replied", !.reply = reply, !.did = did]
  <1>0. CallOK(client[c], server[c], now) /\ SharedOK
    BY DEF IInv
  <1>1. server' = [server EXCEPT ![c] = y]
    BY DEF Reply, IInv
  <1>2. DOMAIN y = ServerFields /\ y.pc = "replied" /\ y.reply = reply /\ y.did = did
    BY <1>0 DEF CallOK, ServerFields
  <1>3. SharedOK' /\ now' = now /\ client' = client
    BY <1>0, StoreChanged DEF Unchanging
  <1> HIDE DEF y
  <1>4. client[c].pc = "done" => Agrees(client[c].outcome, client[c].lost, did)
    BY <1>0 DEF CallOK, Agrees
  <1>5. CallOK(client[c], y, now)
    BY <1>0, <1>2, <1>4 DEF CallOK
  <1> QED
    BY <1>1, <1>2, <1>3, <1>5, ServerOnly, CallStep

LEMMA OkStep ==
    ASSUME IInv, NEW c \in Calls, NEW v, NEW ch, Ok(c, v, ch), Unchanging,
           server[c].pc \in {"execute", "insert", "cloned"}, client[c].method \notin StateMethods,
           peer' \in BOOLEAN, configured' \subseteq Clusters, deployed' \subseteq Clusters
    PROVE  IInv'
  <1> DEFINE did == Did(NoError, v, ch)
  <1>1. Reply(c, Success(v), did)
    BY DEF Ok, Did
  <1>2. did.error.variant \in Variants
    BY DEF Did, NoError, Error, Variants
  <1>3. client[c].method \in Methods
    BY DEF IInv, CallOK
  <1>4. Faithful(client[c].method, Success(v), did)
    BY <1>3, OkFaithful
  <1> HIDE DEF did
  <1> QED
    BY <1>1, <1>2, <1>4, ReplyStep

\* The parts of the store that a handler does not write keep their type.
LEMMA StoreTyped ==
    ASSUME IInv
    PROVE  /\ peer \in BOOLEAN /\ configured \subseteq Clusters /\ deployed \subseteq Clusters
           /\ UNCHANGED store => UNCHANGED <<peer, configured, deployed>>
           /\ \A c \in Calls : server[c].pc # "none" => client[c].cluster \in Clusters
  BY DEF IInv, SharedOK, store, CallOK

LEMMA StatesStep ==
    ASSUME IInv, NEW c \in Calls, NEW S, OkStates(c, S), Unchanging, UNCHANGED store,
           server[c].pc = "execute", client[c].method \in StateMethods,
           S \subseteq PeerStatesNow
    PROVE  IInv'
  <1> DEFINE did == Did(NoError, S, FALSE)
             reply == Success({PeerStateProto(s) : s \in S})
  <1>1. Reply(c, reply, did)
    BY DEF OkStates, Did
  <1>2. did.error.variant \in Variants
    BY DEF Did, NoError, Error, Variants
  <1>3. \A s \in S : \E conn, member : s = [connection |-> conn, member |-> member]
    BY DEF PeerStatesNow
  <1>4. Faithful(client[c].method, reply, did)
    BY <1>3, StatesFaithful
  <1> HIDE DEF did, reply
  <1> QED
    BY <1>1, <1>2, <1>4, ReplyStep, StoreTyped

LEMMA StatusStep ==
    ASSUME IInv, NEW c \in Calls, ErrStatus(c, "Internal"), Unchanging, UNCHANGED store,
           server[c].pc = "execute"
    PROVE  IInv'
  <1> DEFINE e == Error("Internal", FALSE)
             did == Did(e, {}, FALSE)
  <1>1. Reply(c, Status("Internal"), did)
    BY DEF ErrStatus, Did
  <1>2. did.error = e /\ e.variant = "Internal" /\ NoError.variant = None
    BY DEF Did, NoError, Error
  <1>3. client[c].method \in Methods
    BY DEF IInv, CallOK
  <1> HIDE DEF did, e
  <1>4. did.error # NoError /\ did.error.variant \in Variants
    BY <1>2 DEF Variants, None
  <1>5. Faithful(client[c].method, Status("Internal"), did)
    BY <1>3, <1>4, StatusFaithful
  <1> QED
    BY <1>1, <1>4, <1>5, ReplyStep, StoreTyped

\* An entry that is missing is a failure for the caller too.
LEMMA NotFoundStep ==
    ASSUME IInv, NEW c \in Calls, NotFound(c), Unchanging, UNCHANGED store,
           server[c].pc = "execute",
           client[c].method \in {"get_cluster_configuration", "get_cluster_deployment"}
    PROVE  IInv'
  <1> DEFINE e == Error("Internal", FALSE)
             did == Did(e, {}, FALSE)
             r == Refusal(Failure(NoError, Same))
             o == Outcome("Failed", NoError, {})
  <1>1. Reply(c, r, did)
    BY DEF NotFound, Did
  <1>2. did.error = e /\ e.variant = "Internal" /\ NoError.variant = None
    BY DEF Did, NoError, Error
  <1>3. r.kind = "failure"
    BY DEF Refusal
  <1>4. o.result = "Failed"
    BY DEF Outcome
  <1> HIDE DEF did, e, r
  <1>5. Returned(client[c].method, r) = o
    BY <1>3, FailureByMethod, ReturnedByMethod
  <1> HIDE DEF o
  <1>6. did.error # NoError /\ did.error.variant \in Variants
    BY <1>2 DEF Variants, None
  <1>7. Faithful(client[c].method, r, did)
    BY <1>4, <1>5, <1>6 DEF Faithful, Agrees, Results
  <1> QED
    BY <1>1, <1>6, <1>7, ReplyStep, StoreTyped

\* A manager's error whose reply is faithful.
LEMMA ErrorStep ==
    ASSUME IInv, NEW c \in Calls, NEW v \in Variants, NEW n, NEW failure,
           Reply(c, Refusal(failure),
                 [error |-> Error(v, n), value |-> {}, changed |-> FALSE, ran |-> TRUE]),
           Unchanging, UNCHANGED store, server[c].pc \in {"execute", "insert", "cloned"},
           Faithful(client[c].method, Refusal(failure), Did(Error(v, n), {}, FALSE))
    PROVE  IInv'
  <1> DEFINE did == Did(Error(v, n), {}, FALSE)
  <1>1. Reply(c, Refusal(failure), did)
    BY DEF Did
  <1>2. did.error.variant \in Variants
    BY DEF Did, Error
  <1> HIDE DEF did
  <1>3. Faithful(client[c].method, Refusal(failure), did)
    BY DEF did
  <1> QED
    BY <1>1, <1>2, <1>3, ReplyStep, StoreTyped

LEMMA StorePeerDescriptorFails ==
    ASSUME IInv, NEW c \in Calls, NEW v \in {"Persistence", "VpnClient"}, NEW n \in {TRUE},
           Err(c, Error(v, n), StorePeerDescriptorErrorOf, StorePeerDescriptorFailure), Unchanging,
           server[c].pc \in {"execute", "insert", "cloned"}, client[c].method = "store_peer_descriptor"
    PROVE  IInv'
  <1> DEFINE f == StorePeerDescriptorFailure(StorePeerDescriptorErrorOf(Error(v, n)))
  <1>1. /\ Reply(c, Refusal(f),
                 [error |-> Error(v, n), value |-> {}, changed |-> FALSE, ran |-> TRUE])
        /\ UNCHANGED store
    BY DEF Err
  <1>2. Faithful("store_peer_descriptor", Refusal(f), Did(Error(v, n), {}, FALSE))
    BY StorePeerDescriptorRefused
  <1>3. v \in Variants
    BY DEF Variants
  <1> HIDE DEF f
  <1> QED
    BY <1>1, <1>2, <1>3, ErrorStep

LEMMA DeletePeerDescriptorFails ==
    ASSUME IInv, NEW c \in Calls, NEW v \in {"Persistence", "ClusterDeploymentExists", "PeerNotFound", "AuthRegistration",
                     "VpnClient"}, NEW n \in BOOLEAN,
           Err(c, Error(v, n), DeletePeerDescriptorErrorOf, DeletePeerDescriptorFailure), Unchanging,
           server[c].pc \in {"execute", "insert", "cloned"}, client[c].method = "delete_peer_descriptor"
    PROVE  IInv'
  <1> DEFINE f == DeletePeerDescriptorFailure(DeletePeerDescriptorErrorOf(Error(v, n)))
  <1>1. /\ Reply(c, Refusal(f),
                 [error |-> Error(v, n), value |-> {}, changed |-> FALSE, ran |-> TRUE])
        /\ UNCHANGED store
    BY DEF Err
  <1>2. Faithful("delete_peer_descriptor", Refusal(f), Did(Error(v, n), {}, FALSE))
    BY DeletePeerDescriptorRefused
  <1>3. v \in Variants
    BY DEF Variants
  <1> HIDE DEF f
  <1> QED
    BY <1>1, <1>2, <1>3, ErrorStep

LEMMA GetPeerDescriptorFails ==
    ASSUME IInv, NEW c \in Calls, NEW v \in {"Internal", "PeerNotFound"}, NEW n \in {FALSE},
           Err(c, Error(v, n), Itself, GetPeerDescriptorFailure), Unchanging,
           server[c].pc \in {"execute", "insert", "cloned"}, client[c].method = "get_peer_descriptor"
    PROVE  IInv'
  <1> DEFINE f == GetPeerDescriptorFailure(Itself(Error(v, n)))
  <1>1. /\ Reply(c, Refusal(f),
                 [error |-> Error(v, n), value |-> {}, changed |-> FALSE, ran |-> TRUE])
        /\ UNCHANGED store
    BY DEF Err
  <1>2. Faithful("get_peer_descriptor", Refusal(f), Did(Error(v, n), {}, FALSE))
    BY GetPeerDescriptorRefused
  <1>3. v \in Variants
    BY DEF Variants
  <1> HIDE DEF f
  <1> QED
    BY <1>1, <1>2, <1>3, ErrorStep

LEMMA ListPeerDescriptorsFails ==
    ASSUME IInv, NEW c \in Calls, NEW v \in {"Internal"}, NEW n \in {FALSE},
           Err(c, Error(v, n), Itself, ListPeerDescriptorsFailure), Unchanging,
           server[c].pc \in {"execute", "insert", "cloned"}, client[c].method = "list_peer_descriptors"
    PROVE  IInv'
  <1> DEFINE f == ListPeerDescriptorsFailure(Itself(Error(v, n)))
  <1>1. /\ Reply(c, Refusal(f),
                 [error |-> Error(v, n), value |-> {}, changed |-> FALSE, ran |-> TRUE])
        /\ UNCHANGED store
    BY DEF Err
  <1>2. Faithful("list_peer_descriptors", Refusal(f), Did(Error(v, n), {}, FALSE))
    BY ListPeerDescriptorsRefused
  <1>3. v \in Variants
    BY DEF Variants
  <1> HIDE DEF f
  <1> QED
    BY <1>1, <1>2, <1>3, ErrorStep

LEMMA GetPeerStateFails ==
    ASSUME IInv, NEW c \in Calls, NEW v \in {"Persistence", "PeerNotFound"}, NEW n \in {FALSE},
           Err(c, Error(v, n), GetPeerStateErrorOf, GetPeerStateFailure), Unchanging,
           server[c].pc \in {"execute", "insert", "cloned"}, client[c].method = "get_peer_state"
    PROVE  IInv'
  <1> DEFINE f == GetPeerStateFailure(GetPeerStateErrorOf(Error(v, n)))
  <1>1. /\ Reply(c, Refusal(f),
                 [error |-> Error(v, n), value |-> {}, changed |-> FALSE, ran |-> TRUE])
        /\ UNCHANGED store
    BY DEF Err
  <1>2. Faithful("get_peer_state", Refusal(f), Did(Error(v, n), {}, FALSE))
    BY GetPeerStateRefused
  <1>3. v \in Variants
    BY DEF Variants
  <1> HIDE DEF f
  <1> QED
    BY <1>1, <1>2, <1>3, ErrorStep

LEMMA ListPeerStatesFails ==
    ASSUME IInv, NEW c \in Calls, NEW v \in {"Persistence"}, NEW n \in {FALSE},
           Err(c, Error(v, n), ListPeerStatesErrorOf, ListPeerStatesFailure), Unchanging,
           server[c].pc \in {"execute", "insert", "cloned"}, client[c].method = "list_peer_states"
    PROVE  IInv'
  <1> DEFINE f == ListPeerStatesFailure(ListPeerStatesErrorOf(Error(v, n)))
  <1>1. /\ Reply(c, Refusal(f),
                 [error |-> Error(v, n), value |-> {}, changed |-> FALSE, ran |-> TRUE])
        /\ UNCHANGED store
    BY DEF Err
  <1>2. Faithful("list_peer_states", Refusal(f), Did(Error(v, n), {}, FALSE))
    BY ListPeerStatesRefused
  <1>3. v \in Variants
    BY DEF Variants
  <1> HIDE DEF f
  <1> QED
    BY <1>1, <1>2, <1>3, ErrorStep

LEMMA CreateClusterConfigurationFails ==
    ASSUME IInv, NEW c \in Calls, NEW v \in {"Persistence"}, NEW n \in {TRUE},
           Err(c, Error(v, n), CreateClusterConfigurationErrorOf, CreateClusterConfigurationFailure), Unchanging,
           server[c].pc \in {"execute", "insert", "cloned"}, client[c].method = "store_cluster_configuration"
    PROVE  IInv'
  <1> DEFINE f == CreateClusterConfigurationFailure(CreateClusterConfigurationErrorOf(Error(v, n)))
  <1>1. /\ Reply(c, Refusal(f),
                 [error |-> Error(v, n), value |-> {}, changed |-> FALSE, ran |-> TRUE])
        /\ UNCHANGED store
    BY DEF Err
  <1>2. Faithful("store_cluster_configuration", Refusal(f), Did(Error(v, n), {}, FALSE))
    BY CreateClusterConfigurationRefused
  <1>3. v \in Variants
    BY DEF Variants
  <1> HIDE DEF f
  <1> QED
    BY <1>1, <1>2, <1>3, ErrorStep

LEMMA DeleteClusterConfigurationFails ==
    ASSUME IInv, NEW c \in Calls, NEW v \in {"Persistence", "ClusterDeploymentFound", "ClusterConfigurationNotFound"}, NEW n \in {FALSE},
           Err(c, Error(v, n), DeleteClusterConfigurationErrorOf, DeleteClusterConfigurationFailure), Unchanging,
           server[c].pc \in {"execute", "insert", "cloned"}, client[c].method = "delete_cluster_configuration"
    PROVE  IInv'
  <1> DEFINE f == DeleteClusterConfigurationFailure(DeleteClusterConfigurationErrorOf(Error(v, n)))
  <1>1. /\ Reply(c, Refusal(f),
                 [error |-> Error(v, n), value |-> {}, changed |-> FALSE, ran |-> TRUE])
        /\ UNCHANGED store
    BY DEF Err
  <1>2. Faithful("delete_cluster_configuration", Refusal(f), Did(Error(v, n), {}, FALSE))
    BY DeleteClusterConfigurationRefused
  <1>3. v \in Variants
    BY DEF Variants
  <1> HIDE DEF f
  <1> QED
    BY <1>1, <1>2, <1>3, ErrorStep

LEMMA StoreClusterDeploymentFails ==
    ASSUME IInv, NEW c \in Calls, NEW v \in {"IllegalPeerState", "Persistence", "ListClusterPeerStates"}, NEW n \in BOOLEAN,
           v = "ListClusterPeerStates" => n = FALSE,
           Err(c, Error(v, n), StoreClusterDeploymentErrorOf, StoreClusterDeploymentFailure), Unchanging,
           server[c].pc \in {"execute", "insert", "cloned"}, client[c].method = "store_cluster_deployment"
    PROVE  IInv'
  <1> DEFINE f == StoreClusterDeploymentFailure(StoreClusterDeploymentErrorOf(Error(v, n)))
  <1>1. /\ Reply(c, Refusal(f),
                 [error |-> Error(v, n), value |-> {}, changed |-> FALSE, ran |-> TRUE])
        /\ UNCHANGED store
    BY DEF Err
  <1>2. Faithful("store_cluster_deployment", Refusal(f), Did(Error(v, n), {}, FALSE))
    BY StoreClusterDeploymentRefused
  <1>3. v \in Variants
    BY DEF Variants
  <1> HIDE DEF f
  <1> QED
    BY <1>1, <1>2, <1>3, ErrorStep

LEMMA DeleteClusterDeploymentFails ==
    ASSUME IInv, NEW c \in Calls, NEW v \in {"Persistence", "ClusterDeploymentNotFound", "VpnClient"}, NEW n \in BOOLEAN,
           Err(c, Error(v, n), DeleteClusterDeploymentErrorOf, DeleteClusterDeploymentFailure), Unchanging,
           server[c].pc \in {"execute", "insert", "cloned"}, client[c].method = "delete_cluster_deployment"
    PROVE  IInv'
  <1> DEFINE f == DeleteClusterDeploymentFailure(DeleteClusterDeploymentErrorOf(Error(v, n)))
  <1>1. /\ Reply(c, Refusal(f),
                 [error |-> Error(v, n), value |-> {}, changed |-> FALSE, ran |-> TRUE])
        /\ UNCHANGED store
    BY DEF Err
  <1>2. Faithful("delete_cluster_deployment", Refusal(f), Did(Error(v, n), {}, FALSE))
    BY DeleteClusterDeploymentRefused
  <1>3. v \in Variants
    BY DEF Variants
  <1> HIDE DEF f
  <1> QED
    BY <1>1, <1>2, <1>3, ErrorStep

-----------------------------------------------------------------------------
(* The handlers.                                                           *)

LEMMA PeerHandlers ==
    ASSUME IInv, NEW c \in Calls,
           \/ StorePeerDescriptor(c) \/ DeletePeerDescriptor(c) \/ GetPeerDescriptor(c)
           \/ ListPeerDescriptors(c) \/ GetPeerState(c) \/ ListPeerStates(c)
    PROVE  IInv'
  <1>0. /\ server[c].pc = "execute" /\ Unchanging
        /\ peer \in BOOLEAN /\ configured \subseteq Clusters /\ deployed \subseteq Clusters
        /\ UNCHANGED store => UNCHANGED <<peer, configured, deployed>>
    BY StoreTyped DEF Executing, StorePeerDescriptor, DeletePeerDescriptor, GetPeerDescriptor,
                      ListPeerDescriptors, GetPeerState, ListPeerStates
  <1>1. CASE StorePeerDescriptor(c)
    <2>1. client[c].method = "store_peer_descriptor"
      BY <1>1 DEF StorePeerDescriptor, Executing
    <2>2. CASE Ok(c, {"peer"}, ~peer) /\ peer' = TRUE /\ UNCHANGED <<configured, deployed>>
      BY <1>0, <2>1, <2>2, OkStep DEF StateMethods
    <2>3. ASSUME NEW variant \in {"Persistence", "VpnClient"},
                 Err(c, Error(variant, TRUE), StorePeerDescriptorErrorOf,
                     StorePeerDescriptorFailure)
          PROVE  IInv'
      BY <1>0, <2>1, <2>3, StorePeerDescriptorFails
    <2> QED
      BY <1>1, <2>2, <2>3 DEF StorePeerDescriptor
  <1>2. CASE DeletePeerDescriptor(c)
    <2>1. client[c].method = "delete_peer_descriptor"
      BY <1>2 DEF DeletePeerDescriptor, Executing
    <2>2. CASE Ok(c, {"peer"}, TRUE) /\ peer' = FALSE /\ UNCHANGED <<configured, deployed>>
      BY <1>0, <2>1, <2>2, OkStep DEF StateMethods
    <2>3. ASSUME NEW v \in {"Persistence", "ClusterDeploymentExists", "PeerNotFound",
                            "AuthRegistration", "VpnClient"},
                 NEW n \in BOOLEAN, DeletePeerFails(c, Error(v, n))
          PROVE  IInv'
      BY <1>0, <2>1, <2>3, DeletePeerDescriptorFails DEF DeletePeerFails
    <2> QED
      BY <1>2, <2>2, <2>3 DEF DeletePeerDescriptor
  <1>3. CASE GetPeerDescriptor(c)
    <2>1. client[c].method = "get_peer_descriptor"
      BY <1>3 DEF GetPeerDescriptor, Executing
    <2>2. CASE Ok(c, {"peer"}, FALSE) /\ UNCHANGED store
      BY <1>0, <2>1, <2>2, OkStep DEF StateMethods
    <2>3. ASSUME NEW v \in {"Internal", "PeerNotFound"},
                 Err(c, Error(v, FALSE), Itself, GetPeerDescriptorFailure)
          PROVE  IInv'
      BY <1>0, <2>1, <2>3, GetPeerDescriptorFails
    <2> QED
      BY <1>3, <2>2, <2>3 DEF GetPeerDescriptor
  <1>4. CASE ListPeerDescriptors(c)
    <2>1. client[c].method = "list_peer_descriptors"
      BY <1>4 DEF ListPeerDescriptors, Executing
    <2>2. ASSUME NEW v, Ok(c, v, FALSE), UNCHANGED store
          PROVE  IInv'
      BY <1>0, <2>1, <2>2, OkStep DEF StateMethods
    <2>3. ASSUME Err(c, Error("Internal", FALSE), Itself, ListPeerDescriptorsFailure)
          PROVE  IInv'
      BY <1>0, <2>1, <2>3, ListPeerDescriptorsFails
    <2> QED
      BY <1>4, <2>2, <2>3 DEF ListPeerDescriptors
  <1>5. CASE GetPeerState(c)
    <2>1. client[c].method = "get_peer_state"
      BY <1>5 DEF GetPeerState, Executing
    <2>2. ASSUME NEW state \in PeerStatesNow, OkStates(c, {state}), UNCHANGED store
          PROVE  IInv'
      BY <1>0, <2>1, <2>2, StatesStep DEF StateMethods
    <2>3. ASSUME NEW v \in {"Persistence", "PeerNotFound"},
                 Err(c, Error(v, FALSE), GetPeerStateErrorOf, GetPeerStateFailure)
          PROVE  IInv'
      BY <1>0, <2>1, <2>3, GetPeerStateFails
    <2> QED
      BY <1>5, <2>2, <2>3 DEF GetPeerState
  <1>6. CASE ListPeerStates(c)
    <2>1. client[c].method = "list_peer_states"
      BY <1>6 DEF ListPeerStates, Executing
    <2>2. ASSUME NEW S, S \subseteq PeerStatesNow, OkStates(c, S), UNCHANGED store
          PROVE  IInv'
      BY <1>0, <2>1, <2>2, StatesStep DEF StateMethods
    <2>3. ASSUME Err(c, Error("Persistence", FALSE), ListPeerStatesErrorOf,
                     ListPeerStatesFailure)
          PROVE  IInv'
      BY <1>0, <2>1, <2>3, ListPeerStatesFails
    <2>4. CASE (IF peer THEN \E state \in PeerStatesNow : OkStates(c, {state}) ELSE OkStates(c, {}))
               /\ UNCHANGED store
      <3>1. \E S : S \subseteq PeerStatesNow /\ OkStates(c, S)
        <4>1. ASSUME NEW state \in PeerStatesNow PROVE {state} \subseteq PeerStatesNow
          OBVIOUS
        <4>2. {} \subseteq PeerStatesNow
          OBVIOUS
        <4> QED
          BY <2>4, <4>1, <4>2
      <3> QED
        BY <2>2, <2>4, <3>1
    <2> QED
      BY <1>6, <2>3, <2>4 DEF ListPeerStates
  <1> QED
    BY <1>1, <1>2, <1>3, <1>4, <1>5, <1>6

LEMMA PlainHandlers ==
    ASSUME IInv, NEW c \in Calls,
           \/ ListDevices(c) \/ GeneratePeerSetup(c) \/ GenerateCleoSetup(c)
           \/ GetClusterConfiguration(c) \/ ListClusterConfigurations(c)
           \/ GetClusterDeployment(c) \/ ListClusterDeployments(c)
           \/ ListClusterPeerStates(c) \/ Version(c)
    PROVE  IInv'
  <1>0. /\ server[c].pc = "execute" /\ Unchanging /\ UNCHANGED store
        /\ peer' \in BOOLEAN /\ configured' \subseteq Clusters /\ deployed' \subseteq Clusters
    BY StoreTyped DEF Executing, ListDevices, GeneratePeerSetup, GenerateCleoSetup,
                      GetClusterConfiguration, ListClusterConfigurations, GetClusterDeployment,
                      ListClusterDeployments, ListClusterPeerStates, Version
  <1>1. ASSUME NEW v, Ok(c, v, FALSE), client[c].method \notin StateMethods
        PROVE  IInv'
    BY <1>0, <1>1, OkStep
  <1>2. ASSUME ErrStatus(c, "Internal") PROVE IInv'
    BY <1>0, <1>2, StatusStep
  <1>3. ASSUME NotFound(c),
               client[c].method \in {"get_cluster_configuration", "get_cluster_deployment"}
        PROVE  IInv'
    BY <1>0, <1>3, NotFoundStep
  <1>4. ASSUME NEW S, S \subseteq PeerStatesNow, OkStates(c, S),
               client[c].method = "list_cluster_peer_states"
        PROVE  IInv'
    BY <1>0, <1>4, StatesStep DEF StateMethods
  <1>5. CASE ListDevices(c)
    BY <1>1, <1>2, <1>5 DEF ListDevices, Executing, StateMethods
  <1>6. CASE GeneratePeerSetup(c)
    BY <1>1, <1>2, <1>6 DEF GeneratePeerSetup, Executing, StateMethods
  <1>7. CASE GenerateCleoSetup(c)
    BY <1>1, <1>2, <1>7 DEF GenerateCleoSetup, Executing, StateMethods
  <1>8. CASE GetClusterConfiguration(c)
    BY <1>1, <1>2, <1>3, <1>8 DEF GetClusterConfiguration, Executing, StateMethods
  <1>9. CASE ListClusterConfigurations(c)
    BY <1>1, <1>2, <1>9 DEF ListClusterConfigurations, Executing, StateMethods
  <1>10. CASE GetClusterDeployment(c)
    BY <1>1, <1>2, <1>3, <1>10 DEF GetClusterDeployment, Executing, StateMethods
  <1>11. CASE ListClusterDeployments(c)
    BY <1>1, <1>2, <1>11 DEF ListClusterDeployments, Executing, StateMethods
  <1>12. CASE ListClusterPeerStates(c)
    <2>1. client[c].method = "list_cluster_peer_states"
      BY <1>12 DEF ListClusterPeerStates, Executing
    <2>2. CASE IF peer THEN \E state \in PeerStatesNow : OkStates(c, {state}) ELSE OkStates(c, {})
      <3>1. ASSUME NEW state \in PeerStatesNow PROVE {state} \subseteq PeerStatesNow
        OBVIOUS
      <3>2. {} \subseteq PeerStatesNow
        OBVIOUS
      <3>3. \E S : S \subseteq PeerStatesNow /\ OkStates(c, S)
        BY <2>2, <3>1, <3>2
      <3> QED
        BY <1>4, <2>1, <3>3
    <2> QED
      BY <1>2, <1>12, <2>2 DEF ListClusterPeerStates
  <1>13. CASE Version(c)
    BY <1>1, <1>13 DEF Version, Executing, StateMethods
  <1> QED
    BY <1>5, <1>6, <1>7, <1>8, <1>9, <1>10, <1>11, <1>12, <1>13

LEMMA ClusterHandlers ==
    ASSUME IInv, NEW c \in Calls,
           \/ CreateClusterConfiguration(c) \/ DeleteClusterConfiguration(c)
           \/ StoreClusterDeployment(c) \/ InsertClusterDeployment(c)
           \/ CloneVpn(c) \/ DeleteClusterDeployment(c)
    PROVE  IInv'
  <1> DEFINE k == client[c].cluster
  <1>0. /\ server[c].pc \in {"execute", "insert", "cloned"} /\ Unchanging
        /\ peer \in BOOLEAN /\ configured \subseteq Clusters /\ deployed \subseteq Clusters
        /\ UNCHANGED store => UNCHANGED <<peer, configured, deployed>>
        /\ k \in Clusters
    BY StoreTyped DEF Executing, CreateClusterConfiguration, DeleteClusterConfiguration,
                      StoreClusterDeployment, InsertClusterDeployment, CloneVpn,
                      DeleteClusterDeployment
  <1>1. CASE CreateClusterConfiguration(c)
    <2>1. client[c].method = "store_cluster_configuration"
      BY <1>1 DEF CreateClusterConfiguration, Executing
    <2>2. CASE /\ Ok(c, {k}, k \notin configured)
               /\ configured' = configured \cup {k} /\ UNCHANGED <<peer, deployed>>
      BY <1>0, <2>1, <2>2, OkStep DEF StateMethods
    <2>3. CASE Err(c, Error("Persistence", TRUE), CreateClusterConfigurationErrorOf,
                   CreateClusterConfigurationFailure)
      BY <1>0, <2>1, <2>3, CreateClusterConfigurationFails
    <2> QED
      BY <1>1, <2>2, <2>3 DEF CreateClusterConfiguration
  <1>2. CASE DeleteClusterConfiguration(c)
    <2>1. client[c].method = "delete_cluster_configuration"
      BY <1>2 DEF DeleteClusterConfiguration, Executing
    <2>2. CASE Ok(c, {k}, TRUE) /\ configured' = configured \ {k} /\ UNCHANGED <<peer, deployed>>
      BY <1>0, <2>1, <2>2, OkStep DEF StateMethods
    <2>3. ASSUME NEW v \in {"Persistence", "ClusterDeploymentFound",
                            "ClusterConfigurationNotFound"},
                 DeleteConfigurationFails(c, v)
          PROVE  IInv'
      BY <1>0, <2>1, <2>3, DeleteClusterConfigurationFails DEF DeleteConfigurationFails
    <2> QED
      BY <1>2, <2>2, <2>3 DEF DeleteClusterConfiguration
  <1>3. ASSUME NEW v \in {"IllegalPeerState", "Persistence", "ListClusterPeerStates"},
               NEW n \in BOOLEAN, v = "ListClusterPeerStates" => n = FALSE,
               StoreDeploymentFails(c, v, n), client[c].method = "store_cluster_deployment"
        PROVE  IInv'
    BY <1>0, <1>3, StoreClusterDeploymentFails DEF StoreDeploymentFails
  <1>4. CASE StoreClusterDeployment(c)
    <2>1. /\ client[c].method = "store_cluster_deployment" /\ MutexFree
          /\ server[c].pc = "execute"
      BY <1>4 DEF StoreClusterDeployment, Executing
    <2>2. ASSUME server' = [server EXCEPT ![c].pc = "insert"], UNCHANGED store
          PROVE  IInv'
      <3> DEFINE y == [server[c] EXCEPT !.pc = "insert"]
      <3>0. CallOK(client[c], server[c], now) /\ SharedOK
        BY DEF IInv
      <3>1. server' = [server EXCEPT ![c] = y] /\ client' = client
        BY <1>0, <2>2 DEF Unchanging, IInv
      <3>2. DOMAIN y = ServerFields /\ y.pc = "insert" /\ y.did = server[c].did
        BY <3>0 DEF CallOK, ServerFields
      <3>3. SharedOK' /\ now' = now
        BY <1>0, <2>2, <3>0, SharedKept DEF Unchanging
      <3> HIDE DEF y
      <3>4. CallOK(client[c], y, now)
        BY <2>1, <3>0, <3>2 DEF CallOK
      <3> QED
        BY <2>1, <3>1, <3>3, <3>4, ServerOnly, CallStep
    <2>3. ASSUME Ok(c, {k}, FALSE), UNCHANGED store
          PROVE  IInv'
      BY <1>0, <2>1, <2>3, OkStep DEF StateMethods
    <2> QED
      BY <1>3, <1>4, <2>1, <2>2, <2>3 DEF StoreClusterDeployment
  <1>5. CASE InsertClusterDeployment(c)
    <2>1. client[c].method = "store_cluster_deployment"
      BY <1>5 DEF InsertClusterDeployment, IInv, CallOK
    <2>2. CASE /\ Ok(c, {k}, k \notin deployed)
               /\ deployed' = deployed \cup {k} /\ UNCHANGED <<peer, configured>>
      BY <1>0, <2>1, <2>2, OkStep DEF StateMethods
    <2> QED
      BY <1>3, <1>5, <2>1, <2>2 DEF InsertClusterDeployment
  <1>6. CASE DeleteClusterDeployment(c)
    <2>1. client[c].method = "delete_cluster_deployment"
      BY <1>6 DEF DeleteClusterDeployment, IInv, CallOK
    <2>2. CASE Ok(c, {k}, TRUE) /\ deployed' = deployed \ {k} /\ UNCHANGED <<peer, configured>>
      BY <1>0, <2>1, <2>2, OkStep DEF StateMethods
    <2>3. ASSUME NEW v \in {"Persistence", "ClusterDeploymentNotFound", "VpnClient"},
                 NEW n \in BOOLEAN, DeleteDeploymentFails(c, v, n)
          PROVE  IInv'
      BY <1>0, <2>1, <2>3, DeleteClusterDeploymentFails DEF DeleteDeploymentFails
    <2> QED
      BY <1>6, <2>2, <2>3 DEF DeleteClusterDeployment
  <1>7. CASE CloneVpn(c)
    <2> DEFINE y == [server[c] EXCEPT !.pc = "cloned"]
    <2>0. CallOK(client[c], server[c], now) /\ SharedOK
      BY DEF IInv
    <2>1. /\ client[c].method = "delete_cluster_deployment" /\ server[c].pc = "execute"
          /\ server' = [server EXCEPT ![c] = y] /\ client' = client
      BY <1>0, <1>7 DEF CloneVpn, Executing, Unchanging, IInv
    <2>2. DOMAIN y = ServerFields /\ y.pc = "cloned" /\ y.did = server[c].did
      BY <2>0 DEF CallOK, ServerFields
    <2>3. SharedOK' /\ now' = now
      BY <1>0, <1>7, <2>0, SharedKept DEF CloneVpn, Unchanging
    <2> HIDE DEF y
    <2>4. CallOK(client[c], y, now)
      BY <2>0, <2>1, <2>2 DEF CallOK
    <2> QED
      BY <2>1, <2>2, <2>3, <2>4, ServerOnly, CallStep
  <1> QED
    BY <1>1, <1>2, <1>4, <1>5, <1>6, <1>7

LEMMA ExecuteStep ==
    ASSUME IInv, NEW c \in Calls, Execute(c)
    PROVE  IInv'
  BY PeerHandlers, PlainHandlers, ClusterHandlers DEF Execute

-----------------------------------------------------------------------------
(* Time passes, keys and sessions change.                                  *)

LEMMA EnvironmentStep ==
    ASSUME IInv, Environment
    PROVE  IInv'
  <1>1. client' = client /\ server' = server
    BY DEF Environment, Tick, RotateKey, RetireKey, SignIn, SignOut
  <1>2. now' \in 0 .. MaxTime /\ now <= now' /\ now \in Nat
    BY CallsAssumption DEF IInv, SharedOK, Environment, Tick, RotateKey, RetireKey, SignIn, SignOut
  <1>3. ASSUME NEW t \in Tokens(now) PROVE t \in Tokens(now')
    <2>1. 0 .. now \subseteq 0 .. now'
      BY <1>2, CallsAssumption
    <2> QED
      BY <2>1 DEF Tokens
  <1>4. SharedOK'
    <2>1. storage' = storage /\ storage \in [token : Tokens(now'), expires_in : 0 .. MaxTime + Lifetime]
      BY <1>3 DEF IInv, SharedOK, Environment, Tick, RotateKey, RetireKey, SignIn, SignOut
    <2>2. signing' \in published' /\ published' \subseteq Keys /\ session' \in Keys \cup {None}
      BY DEF IInv, SharedOK, Environment, Tick, RotateKey, RetireKey, SignIn, SignOut, idp
    <2>3. UNCHANGED <<peer, configured, deployed>>
      BY DEF Environment, Tick, RotateKey, RetireKey, SignIn, SignOut, store
    <2> QED
      BY <1>2, <2>1, <2>2, <2>3 DEF IInv, SharedOK
  <1>5. ASSUME NEW c \in Calls PROVE CallOK(client'[c], server'[c], now')
    <2>1. CallOK(client[c], server[c], now)
      BY DEF IInv
    <2> QED
      BY <1>1, <1>3, <2>1 DEF CallOK
  <1> QED
    BY <1>1, <1>4, <1>5 DEF IInv, OneHolder

LEMMA InductiveStep == IInv /\ [Next]_vars => IInv'
  <1> SUFFICES ASSUME IInv, [Next]_vars PROVE IInv'
    OBVIOUS
  <1>1. CASE Environment
    BY <1>1, EnvironmentStep
  <1>2. ASSUME NEW c \in Calls, NEW lea \in BOOLEAN, NEW method \in Methods,
               NEW cluster \in Clusters, CallMethod(c, lea, method, cluster)
        PROVE  IInv'
    BY <1>2, CallMethodStep
  <1>3. ASSUME NEW c \in Calls, Step(c) PROVE IInv'
    BY <1>3, GetTokenStep, FetchSteps, AuthSteps, ExecuteStep, EndSteps DEF Step
  <1>4. ASSUME NEW c \in Calls,
               FailedToGetToken(c) \/ LoseConnection(c) \/ DropRequest(c) \/ Forget(c)
        PROVE  IInv'
    BY <1>4, FetchSteps, EndSteps, AuthSteps
  <1>5. CASE UNCHANGED vars
    <2>1. UNCHANGED <<now, signing, published, storage, session, client, server, peer,
                      configured, deployed>>
      BY <1>5 DEF vars, idp, store
    <2> QED
      BY <2>1 DEF IInv, SharedOK, OneHolder
  <1> QED
    BY <1>1, <1>2, <1>3, <1>4, <1>5 DEF Next

-----------------------------------------------------------------------------
(* The theorems.                                                           *)

\* For any number of concurrent calls, any clusters, keys, lifetime and grace
\* period: what a method of the client library reports is what CARL's handler
\* did, through the conversions of grpc/error.rs, the protobuf messages and the
\* client's carl/{peer,cluster}.rs, and whatever connection is lost, request
\* dropped or key rotated meanwhile.
THEOREM CallsReportedAsHappened == Spec => []ReportedAsHappened
  <1>1. Init => IInv
    BY InitialCalls
  <1>2. IInv /\ [Next]_vars => IInv'
    BY InductiveStep
  <1>3. IInv => ReportedAsHappened
    BY IInvImplies
  <1> QED
    BY <1>1, <1>2, <1>3, PTL DEF Spec

\* Only GetToken makes a call of the confidential client wait for its reply with
\* the token that is stored.
LEMMA StoredTokenSent ==
    ASSUME IInv, Next, NEW c \in Calls,
           client[c].pc = "get_token", client'[c].pc = "wait", ~client[c].lea
    PROVE  ~MustFetch
  <1>1. client'[c] # client[c]
    OBVIOUS
  <1>2. ASSUME NEW d \in Calls, DOMAIN client = Calls,
               \E x : client' = [client EXCEPT ![d] = x]
        PROVE  d = c
    BY <1>1, <1>2
  <1>3. DOMAIN client = Calls
    BY DEF IInv
  <1>4. ASSUME Environment PROVE FALSE
    BY <1>1, <1>4 DEF Environment, Tick, RotateKey, RetireKey, SignIn, SignOut
  <1>5. ASSUME NEW d \in Calls, NEW lea, NEW method, NEW cluster,
               CallMethod(d, lea, method, cluster)
        PROVE  FALSE
    <2>1. d = c
      BY <1>2, <1>3, <1>5 DEF CallMethod
    <2> QED
      BY <1>5, <2>1 DEF CallMethod
  <1>6. ASSUME NEW d \in Calls,
               IssueToken(d) \/ UpdateStorageToken(d) \/ FailedToGetToken(d) \/ Receive(d)
               \/ LoseConnection(d) \/ Forget(d)
        PROVE  FALSE
    <2>1. client[d].pc # "get_token"
      BY <1>6 DEF IssueToken, UpdateStorageToken, FailedToGetToken, Receive, LoseConnection, Forget
    <2>2. client'[c] = client[c]
      BY <1>3, <1>6, <2>1 DEF IssueToken, UpdateStorageToken, FailedToGetToken, Receive,
         LoseConnection, Forget, SendWith, Return
    <2> QED
      BY <1>1, <2>2
  <1>7. ASSUME NEW d \in Calls,
               AuthInterceptor(d) \/ FetchFails(d) \/ DropRequest(d) \/ Execute(d)
        PROVE  FALSE
    <2>1. client' = client
      BY <1>7 DEF AuthInterceptor, FetchFails, DropRequest, Execute, Unchanging,
         StorePeerDescriptor, DeletePeerDescriptor, GetPeerDescriptor, ListPeerDescriptors,
         GetPeerState, ListPeerStates, ListDevices, GeneratePeerSetup, GenerateCleoSetup,
         CreateClusterConfiguration, DeleteClusterConfiguration, GetClusterConfiguration,
         ListClusterConfigurations, StoreClusterDeployment, InsertClusterDeployment,
         CloneVpn, DeleteClusterDeployment, GetClusterDeployment, ListClusterDeployments,
         ListClusterPeerStates, Version
    <2> QED
      BY <1>1, <2>1
  <1>8. ASSUME NEW d \in Calls, AttachSessionToken(d) PROVE FALSE
    <2>1. CASE d = c
      BY <1>8, <2>1 DEF AttachSessionToken
    <2>2. CASE d # c
      <3>1. client'[c] = client[c]
        BY <1>3, <1>8, <2>2 DEF AttachSessionToken, Return, SendWith
      <3> QED
        BY <1>1, <3>1
    <2> QED
      BY <2>1, <2>2
  <1>9. ASSUME NEW d \in Calls, GetToken(d) PROVE ~MustFetch
    <2>1. CASE d # c
      <3>1. client'[c] = client[c]
        BY <1>3, <1>9, <2>1 DEF GetToken, SendWith
      <3> QED
        BY <1>1, <3>1
    <2>2. ASSUME d = c, MustFetch PROVE FALSE
      <3>1. client' = [client EXCEPT ![c].pc = "fetch"]
        BY <1>9, <2>2 DEF GetToken
      <3>2. DOMAIN client[c] = ClientFields
        BY DEF IInv, CallOK
      <3>3. client'[c].pc = "fetch"
        BY <1>3, <3>1, <3>2 DEF ClientFields
      <3> QED
        BY <3>3
    <2> QED
      BY <2>1, <2>2
  <1> QED
    BY <1>4, <1>5, <1>6, <1>7, <1>8, <1>9 DEF Next, Step

\* For every lifetime and every shorter grace period: a request that goes out
\* with the stored token (get_token) goes out before the token expires, unless
\* that token had been under way to the client for longer than the grace
\* period, whichever concurrent fetch stored it.
THEOREM StoredTokensFresh == Spec => FreshToken
  <1> DEFINE Fresh ==
        \A c \in Calls :
         client[c].pc = "get_token" /\ client'[c].pc = "wait" /\ ~client[c].lea =>
            now < storage.token.issued + Lifetime \/ Delayed
  <1>1. Init => IInv
    BY InitialCalls
  <1>2. IInv /\ [Next]_vars => IInv'
    BY InductiveStep
  <1>3. IInv /\ [Next]_vars => [Fresh]_vars
    <2> SUFFICES ASSUME IInv, Next PROVE Fresh
      OBVIOUS
    <2> SUFFICES ASSUME NEW c \in Calls, client[c].pc = "get_token", client'[c].pc = "wait",
                        ~client[c].lea
                 PROVE  now < storage.token.issued + Lifetime \/ Delayed
      OBVIOUS
    <2>1. ~MustFetch
      BY StoredTokenSent
    <2>2. /\ storage.token.issued \in Nat /\ storage.expires_in \in Nat
          /\ now \in Nat
      BY CallsAssumption DEF IInv, SharedOK, Tokens
    <2>3. now + Grace < storage.expires_in
      BY <2>1, <2>2, CallsAssumption DEF MustFetch
    <2> QED
      BY <2>2, <2>3, CallsAssumption DEF Delayed
  <1> QED
    BY <1>1, <1>2, <1>3, PTL DEF Spec, FreshToken

=============================================================================
