------------------------------ MODULE ApiCalls ------------------------------
(***************************************************************************)
(* Calls of CARL's gRPC API from end to end: the client library attaches a *)
(* token (fetching one when the stored one nears its end), CARL's          *)
(* interceptor fetches the identity provider's keys to verify it, the      *)
(* facade runs the manager's operation and converts its result, and the    *)
(* client library converts the reply back. Connections are lost, and the   *)
(* server drops a request whose client is gone. Calls of CLEO or EDGAR     *)
(* share a confidential client; LEA sends the token of the user's session. *)
(*                                                                         *)
(* One peer with one device; every cluster configuration uses that device. *)
(* The identity provider is external. What is done after a deployment was  *)
(* inserted is the subject of ClusterManager, and the VPN's and identity   *)
(* provider's part of an operation the subject of Provisioning: here they  *)
(* succeed or fail.                                                        *)
(***************************************************************************)
EXTENDS CarlApi, Naturals, FiniteSets

CONSTANTS Calls,             \* calls in flight
          Clusters, Keys,
          Lifetime, Grace,   \* of a token; TOKEN_GRACE_PERIOD
          MaxTime            \* bound on time

ASSUME CallsAssumption ==
    /\ Lifetime \in Nat /\ Grace \in Nat /\ MaxTime \in Nat
    /\ Grace < Lifetime

VARIABLES
    now,
    signing, published,  \* the identity provider's current key and its JWKS
    storage,             \* TokenStorage of the confidential client
    session,             \* LEA's access token: its key, or None
    client, server,      \* both ends of each call
    peer,                \* whether the peer's descriptor is stored
    configured, deployed \* the stored configurations and deployments

store == <<peer, configured, deployed>>
idp   == <<signing, published>>
vars  == <<now, idp, storage, session, client, server, store>>

NoToken == [kid |-> None, issued |-> 0]
IdleClient ==
    [pc |-> "idle", lea |-> FALSE, method |-> "version", cluster |-> None, token |-> NoToken,
     lost |-> FALSE, outcome |-> Outcome(None, NoError, {})]

\* What the handler did: its error or value, and whether the store changed.
NotDone == [error |-> NoError, value |-> {}, changed |-> FALSE, ran |-> FALSE]
NoRequest == [pc |-> "none", kid |-> None, reply |-> Status(None), did |-> NotDone]

Init ==
    /\ now = 0
    /\ signing \in Keys /\ published = {signing}
    /\ storage = [token |-> NoToken, expires_in |-> 0]
    /\ session = None
    /\ client = [c \in Calls |-> IdleClient]
    /\ server = [c \in Calls |-> NoRequest]
    /\ peer = FALSE /\ configured = {} /\ deployed = {}

Variants ==
    {None, "Internal", "Persistence", "VpnClient", "AuthRegistration", "IllegalPeerState",
     "PeerNotFound", "ClusterDeploymentExists", "ClusterDeploymentFound",
     "ClusterConfigurationNotFound", "ListClusterPeerStates", "ClusterDeploymentNotFound"}

TypeOK ==
    /\ now \in 0 .. MaxTime
    /\ signing \in published /\ published \subseteq Keys
    /\ storage.token.kid \in Keys \cup {None} /\ storage.token.issued \in 0 .. now
    /\ storage.expires_in \in 0 .. MaxTime + Lifetime
    /\ session \in Keys \cup {None}
    /\ \A c \in Calls :
         /\ client[c].pc \in {"idle", "get_token", "fetch", "issued", "wait", "done"}
         /\ client[c].lea \in BOOLEAN /\ client[c].method \in Methods
         /\ client[c].cluster \in Clusters \cup {None}
         /\ client[c].token.kid \in Keys \cup {None}
         /\ client[c].outcome.result \in
              {None, "Ok", "UsageError", "TransportError", "InvalidRequest", "InvalidResponse", "Failed"}
         /\ server[c].pc \in {"none", "auth", "execute", "insert", "cloned", "replied"}
         /\ server[c].did.error.variant \in Variants
    \* the cluster manager's mutex
    /\ Cardinality({c \in Calls : server[c].pc = "insert"}) <= 1
    /\ peer \in BOOLEAN /\ configured \subseteq Clusters /\ deployed \subseteq Clusters

-----------------------------------------------------------------------------
(* The client: a method of the client library, and its token.              *)

\* The method has its Result.
Return(c, reply) ==
    client' = [client EXCEPT ![c].pc = "done", ![c].token = NoToken,
                             ![c].outcome = Returned(client[c].method, reply)]

CallMethod(c, lea, method, cluster) ==
    /\ client[c].pc = "idle"
    /\ client' = [client EXCEPT ![c] = [IdleClient EXCEPT !.pc = "get_token", !.lea = lea,
                                            !.method = method, !.cluster = cluster]]
    /\ UNCHANGED <<now, idp, storage, session, server, store>>

\* The request goes out with the token.
SendWith(c, token) ==
    /\ client' = [client EXCEPT ![c].pc = "wait", ![c].token = NoToken]
    /\ server' = [server EXCEPT ![c] = [NoRequest EXCEPT !.pc = "auth", !.kid = token.kid]]

\* LEA's AuthInterceptor.
AttachSessionToken(c) ==
    /\ client[c].pc = "get_token" /\ client[c].lea
    /\ IF session = None
       THEN Return(c, Status("Unauthenticated")) /\ UNCHANGED server
       ELSE SendWith(c, [kid |-> session, issued |-> now])
    /\ UNCHANGED <<now, idp, storage, session, store>>

\* Whether the stored token must be replaced; without the grace period.
FetchAtEnd == storage.token = NoToken \/ now >= storage.expires_in

MustFetch == storage.token = NoToken \/ now + Grace >= storage.expires_in

GetToken(c) ==
    /\ client[c].pc = "get_token" /\ ~client[c].lea
    /\ IF MustFetch
       THEN client' = [client EXCEPT ![c].pc = "fetch"] /\ UNCHANGED server
       ELSE SendWith(c, storage.token)
    /\ UNCHANGED <<now, idp, storage, session, store>>

\* The identity provider issues a token; its response is under way.
IssueToken(c) ==
    /\ client[c].pc = "fetch"
    /\ client' = [client EXCEPT ![c].pc = "issued",
                                ![c].token = [kid |-> signing, issued |-> now]]
    /\ UNCHANGED <<now, idp, storage, session, server, store>>

\* The response arrives, is stored over whatever is stored, and used.
UpdateStorageToken(c) ==
    /\ client[c].pc = "issued"
    /\ storage' = [token |-> client[c].token, expires_in |-> now + Lifetime]
    /\ SendWith(c, client[c].token)
    /\ UNCHANGED <<now, idp, session, store>>

\* TonicAuthenticationService gives the error of the token to the method.
FailedToGetToken(c) ==
    /\ client[c].pc \in {"fetch", "issued"}
    /\ Return(c, Status("Unknown"))
    /\ UNCHANGED <<now, idp, storage, session, server, store>>

Receive(c) ==
    /\ client[c].pc = "wait" /\ server[c].pc = "replied"
    /\ Return(c, server[c].reply)
    /\ UNCHANGED <<now, idp, storage, session, server, store>>

\* The connection breaks; the client cannot know how far the server came.
LoseConnection(c) ==
    /\ client[c].pc = "wait"
    /\ client' = [client EXCEPT ![c].pc = "done", ![c].lost = TRUE,
                     ![c].outcome = Returned(client[c].method, Status("Unavailable"))]
    /\ UNCHANGED <<now, idp, storage, session, server, store>>

\* The caller is done with the outcome.
Forget(c) ==
    /\ client[c].pc = "done" /\ server[c].pc \in {"none", "replied"}
    /\ client' = [client EXCEPT ![c] = IdleClient]
    /\ server' = [server EXCEPT ![c] = NoRequest]
    /\ UNCHANGED <<now, idp, storage, session, store>>

-----------------------------------------------------------------------------
(* CARL: the interceptor. The cache it looks in is its own copy of a cache *)
(* nobody writes to, so that it fetches the keys for every request.        *)

Unauthenticated == Status("Unauthenticated")

Accept(c) == server' = [server EXCEPT ![c].pc = "execute", ![c].kid = None]

\* The request is dropped without an answer.
Ignore(c) == server' = [server EXCEPT ![c] = NoRequest]

Reject(c) ==
    server' = [server EXCEPT ![c].pc = "replied", ![c].kid = None, ![c].reply = Unauthenticated]

\* The keys are fetched; expiry is not validated.
AuthInterceptor(c) ==
    /\ server[c].pc = "auth"
    /\ IF server[c].kid \in published THEN Accept(c) ELSE Reject(c)
    /\ UNCHANGED <<now, idp, storage, session, client, store>>

\* The identity provider does not answer with its keys.
FetchFails(c) ==
    /\ server[c].pc = "auth"
    /\ Reject(c)
    /\ UNCHANGED <<now, idp, storage, session, client, store>>

\* The server drops the handler of a request whose client is gone: the
\* transaction it is in is rolled back and the mutex released.
DropRequest(c) ==
    /\ client[c].pc # "wait" /\ server[c].pc \in {"auth", "execute", "insert", "cloned"}
    /\ server' = [server EXCEPT ![c] = NoRequest]
    /\ UNCHANGED <<now, idp, storage, session, client, store>>

-----------------------------------------------------------------------------
(* CARL: the facades' handlers.                                            *)

Executing(c, method) == server[c].pc = "execute" /\ client[c].method = method

MutexFree == \A c \in Calls : server[c].pc # "insert"

Reply(c, reply, did) ==
    server' = [server EXCEPT ![c].pc = "replied", ![c].reply = reply, ![c].did = did]

Ok(c, value, changed) ==
    Reply(c, Success(value),
          [error |-> NoError, value |-> value, changed |-> changed, ran |-> TRUE])

\* The state of a peer is converted for the reply.
OkStates(c, states) ==
    Reply(c, Success({PeerStateProto(s) : s \in states}),
          [error |-> NoError, value |-> states, changed |-> FALSE, ran |-> TRUE])

\* The manager's error, which undoes the transaction, as a failure.
Err(c, error, ErrorOf(_), FailureOf(_)) ==
    /\ Reply(c, Refusal(FailureOf(ErrorOf(error))),
             [error |-> error, value |-> {}, changed |-> FALSE, ran |-> TRUE])
    /\ UNCHANGED store

\* The manager's error as a status.
ErrStatus(c, code) ==
    Reply(c, Status(code),
          [error |-> Error("Internal", FALSE), value |-> {}, changed |-> FALSE, ran |-> TRUE])

Unchanging == UNCHANGED <<now, idp, storage, session, client>>

\* Any of the deployed clusters that use the peer's device may be the one that
\* list_peer_member_states names.
Blockers == IF peer THEN deployed \cap configured ELSE {}

MemberStates == IF Blockers = {} THEN {None} ELSE Blockers

PeerStatesNow ==
    {[connection |-> connection, member |-> member] :
        connection \in {"Offline", "Online"}, member \in MemberStates}

StorePeerDescriptor(c) ==
    /\ Executing(c, "store_peer_descriptor")
    /\ \/ Ok(c, {"peer"}, ~peer) /\ peer' = TRUE /\ UNCHANGED <<configured, deployed>>
       \/ \E variant \in {"Persistence"} \cup (IF peer THEN {} ELSE {"VpnClient"}) :
            Err(c, Error(variant, TRUE), StorePeerDescriptorErrorOf, StorePeerDescriptorFailure)
    /\ Unchanging

DeletePeerFails(c, error) ==
    Err(c, error, DeletePeerDescriptorErrorOf, DeletePeerDescriptorFailure)

DeletePeerDescriptor(c) ==
    /\ Executing(c, "delete_peer_descriptor")
    /\ \/ DeletePeerFails(c, Error("Persistence", FALSE))
       \/ Blockers # {} /\ DeletePeerFails(c, Error("ClusterDeploymentExists", FALSE))
       \/ ~peer /\ DeletePeerFails(c, Error("PeerNotFound", FALSE))
       \/ /\ peer /\ Blockers = {}
          /\ \/ Ok(c, {"peer"}, TRUE) /\ peer' = FALSE /\ UNCHANGED <<configured, deployed>>
             \/ \E variant \in {"AuthRegistration", "VpnClient"} :
                  DeletePeerFails(c, Error(variant, TRUE))
    /\ Unchanging

GetPeerDescriptor(c) ==
    /\ Executing(c, "get_peer_descriptor")
    /\ \/ peer /\ Ok(c, {"peer"}, FALSE) /\ UNCHANGED store
       \/ \E variant \in {"Internal"} \cup (IF peer THEN {} ELSE {"PeerNotFound"}) :
            Err(c, Error(variant, FALSE), Itself, GetPeerDescriptorFailure)
    /\ Unchanging

ListPeerDescriptors(c) ==
    /\ Executing(c, "list_peer_descriptors")
    /\ \/ Ok(c, IF peer THEN {"peer"} ELSE {}, FALSE) /\ UNCHANGED store
       \/ Err(c, Error("Internal", FALSE), Itself, ListPeerDescriptorsFailure)
    /\ Unchanging

GetPeerState(c) ==
    /\ Executing(c, "get_peer_state")
    /\ \/ peer /\ (\E state \in PeerStatesNow : OkStates(c, {state})) /\ UNCHANGED store
       \/ \E variant \in {"Persistence"} \cup (IF peer THEN {} ELSE {"PeerNotFound"}) :
            Err(c, Error(variant, FALSE), GetPeerStateErrorOf, GetPeerStateFailure)
    /\ Unchanging

ListPeerStates(c) ==
    /\ Executing(c, "list_peer_states")
    /\ \/ /\ IF peer THEN \E state \in PeerStatesNow : OkStates(c, {state}) ELSE OkStates(c, {})
          /\ UNCHANGED store
       \/ Err(c, Error("Persistence", FALSE), ListPeerStatesErrorOf, ListPeerStatesFailure)
    /\ Unchanging

ListDevices(c) ==
    /\ Executing(c, "list_devices")
    /\ Ok(c, IF peer THEN {"device"} ELSE {}, FALSE) \/ ErrStatus(c, "Internal")
    /\ UNCHANGED store /\ Unchanging

GeneratePeerSetup(c) ==
    /\ Executing(c, "create_peer_setup")
    /\ (peer /\ Ok(c, {"setup"}, FALSE)) \/ ErrStatus(c, "Internal")
    /\ UNCHANGED store /\ Unchanging

GenerateCleoSetup(c) ==
    /\ Executing(c, "create_cleo_setup")
    /\ Ok(c, {"setup"}, FALSE) \/ ErrStatus(c, "Internal")
    /\ UNCHANGED store /\ Unchanging

CreateClusterConfiguration(c) ==
    /\ Executing(c, "store_cluster_configuration")
    /\ LET k == client[c].cluster IN
       \/ /\ Ok(c, {k}, k \notin configured)
          /\ configured' = configured \cup {k} /\ UNCHANGED <<peer, deployed>>
       \/ Err(c, Error("Persistence", TRUE), CreateClusterConfigurationErrorOf,
              CreateClusterConfigurationFailure)
    /\ Unchanging

DeleteConfigurationFails(c, variant) ==
    Err(c, Error(variant, FALSE), DeleteClusterConfigurationErrorOf,
        DeleteClusterConfigurationFailure)

DeleteClusterConfiguration(c) ==
    /\ Executing(c, "delete_cluster_configuration")
    /\ LET k == client[c].cluster IN
       \/ DeleteConfigurationFails(c, "Persistence")
       \/ k \in deployed /\ DeleteConfigurationFails(c, "ClusterDeploymentFound")
       \/ k \notin deployed \cup configured
          /\ DeleteConfigurationFails(c, "ClusterConfigurationNotFound")
       \/ /\ k \in configured \ deployed
          /\ Ok(c, {k}, TRUE)
          /\ configured' = configured \ {k} /\ UNCHANGED <<peer, deployed>>
    /\ Unchanging

\* A missing entry is a Failure without content.
NotFound(c) ==
    Reply(c, Refusal(Failure(NoError, Same)),
          [error |-> Error("Internal", FALSE), value |-> {}, changed |-> FALSE, ran |-> TRUE])

GetClusterConfiguration(c) ==
    /\ Executing(c, "get_cluster_configuration") /\ MutexFree
    /\ LET k == client[c].cluster IN
       \/ k \in configured /\ Ok(c, {k}, FALSE)
       \/ k \notin configured /\ NotFound(c)
       \/ ErrStatus(c, "Internal")
    /\ UNCHANGED store /\ Unchanging

ListClusterConfigurations(c) ==
    /\ Executing(c, "list_cluster_configurations") /\ MutexFree
    /\ Ok(c, configured, FALSE) \/ ErrStatus(c, "Internal")
    /\ UNCHANGED store /\ Unchanging

StoreDeploymentFails(c, variant, named) ==
    Err(c, Error(variant, named), StoreClusterDeploymentErrorOf, StoreClusterDeploymentFailure)

\* The first of its transactions lists the states of the cluster's peers.
StoreClusterDeployment(c) ==
    /\ Executing(c, "store_cluster_deployment") /\ MutexFree
    /\ LET k == client[c].cluster IN
       \/ StoreDeploymentFails(c, "ListClusterPeerStates", FALSE)
       \/ /\ k \in configured
          /\ \E by \in MemberStates :
               \/ /\ by = None
                  /\ server' = [server EXCEPT ![c].pc = "insert"] /\ UNCHANGED store
               \/ by = k /\ Ok(c, {k}, FALSE) /\ UNCHANGED store
               \/ by \notin {None, k} /\ StoreDeploymentFails(c, "IllegalPeerState", FALSE)
    /\ Unchanging

\* The second inserts the deployment, whatever happened in between.
InsertClusterDeployment(c) ==
    /\ server[c].pc = "insert"
    /\ LET k == client[c].cluster IN
       \/ /\ Ok(c, {k}, k \notin deployed)
          /\ deployed' = deployed \cup {k} /\ UNCHANGED <<peer, configured>>
       \/ \E named \in BOOLEAN : StoreDeploymentFails(c, "Persistence", named)
    /\ Unchanging

DeleteDeploymentFails(c, variant, named) ==
    Err(c, Error(variant, named), DeleteClusterDeploymentErrorOf, DeleteClusterDeploymentFailure)

\* The mutex is held for a moment only, for the VPN client it guards.
CloneVpn(c) ==
    /\ Executing(c, "delete_cluster_deployment") /\ MutexFree
    /\ server' = [server EXCEPT ![c].pc = "cloned"]
    /\ UNCHANGED store /\ Unchanging

DeleteClusterDeployment(c) ==
    /\ server[c].pc = "cloned"
    /\ LET k == client[c].cluster IN
       \/ DeleteDeploymentFails(c, "Persistence", FALSE)
       \/ k \notin deployed /\ DeleteDeploymentFails(c, "ClusterDeploymentNotFound", FALSE)
       \/ /\ k \in deployed
          /\ \/ Ok(c, {k}, TRUE) /\ deployed' = deployed \ {k} /\ UNCHANGED <<peer, configured>>
             \/ k \in configured /\ DeleteDeploymentFails(c, "VpnClient", TRUE)
    /\ Unchanging

GetClusterDeployment(c) ==
    /\ Executing(c, "get_cluster_deployment") /\ MutexFree
    /\ LET k == client[c].cluster IN
       \/ k \in deployed /\ Ok(c, {k}, FALSE)
       \/ k \notin deployed /\ NotFound(c)
       \/ ErrStatus(c, "Internal")
    /\ UNCHANGED store /\ Unchanging

ListClusterDeployments(c) ==
    /\ Executing(c, "list_cluster_deployments") /\ MutexFree
    /\ Ok(c, deployed, FALSE) \/ ErrStatus(c, "Internal")
    /\ UNCHANGED store /\ Unchanging

ListClusterPeerStates(c) ==
    /\ Executing(c, "list_cluster_peer_states")
    /\ \/ /\ client[c].cluster \in configured
          /\ IF peer THEN \E state \in PeerStatesNow : OkStates(c, {state}) ELSE OkStates(c, {})
       \/ ErrStatus(c, "Internal")
    /\ UNCHANGED store /\ Unchanging

Version(c) ==
    /\ Executing(c, "version")
    /\ Ok(c, {"version_info"}, FALSE)
    /\ UNCHANGED store /\ Unchanging

Execute(c) ==
    \/ StorePeerDescriptor(c) \/ DeletePeerDescriptor(c) \/ GetPeerDescriptor(c)
    \/ ListPeerDescriptors(c) \/ GetPeerState(c) \/ ListPeerStates(c) \/ ListDevices(c)
    \/ GeneratePeerSetup(c) \/ GenerateCleoSetup(c)
    \/ CreateClusterConfiguration(c) \/ DeleteClusterConfiguration(c)
    \/ GetClusterConfiguration(c) \/ ListClusterConfigurations(c)
    \/ StoreClusterDeployment(c) \/ InsertClusterDeployment(c)
    \/ CloneVpn(c) \/ DeleteClusterDeployment(c)
    \/ GetClusterDeployment(c) \/ ListClusterDeployments(c)
    \/ ListClusterPeerStates(c) \/ Version(c)

-----------------------------------------------------------------------------
(* Time, the identity provider's keys and LEA's session.                   *)

Tick ==
    /\ now < MaxTime
    /\ now' = now + 1
    /\ UNCHANGED <<idp, storage, session, client, server, store>>

RotateKey ==
    /\ \E key \in Keys \ published : signing' = key /\ published' = published \cup {key}
    /\ UNCHANGED <<now, storage, session, client, server, store>>

RetireKey ==
    /\ published # {signing}
    /\ published' = {signing}
    /\ UNCHANGED <<now, signing, storage, session, client, server, store>>

SignIn ==
    /\ session # signing
    /\ session' = signing
    /\ UNCHANGED <<now, idp, storage, client, server, store>>

SignOut ==
    /\ session # None
    /\ session' = None
    /\ UNCHANGED <<now, idp, storage, client, server, store>>

\* What CARL and the client library do for a call.
Step(c) ==
    \/ AttachSessionToken(c) \/ GetToken(c) \/ IssueToken(c) \/ UpdateStorageToken(c)
    \/ AuthInterceptor(c) \/ FetchFails(c) \/ Execute(c) \/ Receive(c)

Environment == Tick \/ RotateKey \/ RetireKey \/ SignIn \/ SignOut

Next ==
    \/ \E c \in Calls :
         \/ \E lea \in BOOLEAN, method \in Methods, cluster \in Clusters :
              CallMethod(c, lea, method, cluster)
         \/ Step(c) \/ FailedToGetToken(c) \/ LoseConnection(c) \/ DropRequest(c) \/ Forget(c)
    \/ Environment

\* Tokio and the client's runtime run what is ready; the identity provider
\* answers in the end; the mutex queues those who wait for it, so that a
\* handler that can take it again and again does.
Fairness == \A c \in Calls : SF_vars(Step(c))

Spec == Init /\ [][Next]_vars /\ Fairness

-----------------------------------------------------------------------------
(* Properties.                                                             *)

\* The caller's view of a manager's error: failures of the services CARL
\* depends on are internal.
AsSeen(error) ==
    AsInternal(error, {"Persistence", "VpnClient", "AuthRegistration", "ListClusterPeerStates"})

\* What a method of the client library reports is what the handler did, through
\* two chains of conversions (grpc/error.rs and proto/services there, proto and
\* carl/{peer,cluster}.rs back). Ok carries the handler's value; a usage error
\* is the manager's, its optional name kept, and its call changed nothing; a
\* reply that arrived is a failure only if the handler failed or was not run;
\* and no reply CARL forms is invalid for the client. Only a broken connection
\* leaves the caller without knowledge. The state is well typed and the cluster
\* manager's mutex has one holder throughout.
ReportedAsHappened ==
    /\ TypeOK
    /\ \A c \in Calls :
        LET outcome == client[c].outcome
            did     == server[c].did
        IN  client[c].pc = "done" =>
              /\ outcome.result = "Ok" =>
                   did.ran /\ did.error = NoError /\ outcome.value = did.value
              /\ outcome.result = "UsageError" =>
                   did.ran /\ did.error # NoError /\ outcome.error = AsSeen(did.error) /\ ~did.changed
              /\ outcome.result \in {"TransportError", "Failed"} /\ ~client[c].lost =>
                   did.error # NoError \/ ~did.ran
              /\ outcome.result \notin {"InvalidRequest", "InvalidResponse"}

\* A token that arrives later than the grace period is believed to live longer
\* than it does (update_storage_token counts its life from the arrival).
Delayed == storage.expires_in - Lifetime - storage.token.issued > Grace

\* get_token's grace period makes up for the time a token was under way: the
\* stored token that a request is sent with has not expired, unless it had been
\* under way for longer than that, whichever concurrent fetch stored it.
FreshToken ==
    [][\A c \in Calls :
         client[c].pc = "get_token" /\ client'[c].pc = "wait" /\ ~client[c].lea =>
            now < storage.token.issued + Lifetime \/ Delayed]_vars

\* A call ends, whatever fails on its way: with the identity provider asked for
\* the token and for the keys, a mutex to wait for, and requests dropped.
EveryCallEnds ==
    \A c \in Calls : client[c].pc # "idle" ~> client[c].pc \in {"done", "idle"}
=============================================================================
