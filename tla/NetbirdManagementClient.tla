----------------------- MODULE NetbirdManagementClient -----------------------
(***************************************************************************)
(* CARL's client of the NetBird management service.  A peer has a          *)
(* self-group and setup keys, a deployed cluster has a group and a policy  *)
(* that lets its members talk to each other; all are found by their name.  *)
(* What CARL asks of this client is a sequence of HTTP requests, one step  *)
(* each; between two of them other calls and machines go on.               *)
(*                                                                         *)
(* A request is answered; or it is refused, or times out, without effect;  *)
(* or it takes effect and its answer is lost: then it fails, or the        *)
(* retrying middleware sends it a second time.  A second DELETE finds      *)
(* nothing and fails, a second POST creates a second resource.             *)
(***************************************************************************)
EXTENDS Integers, FiniteSets

CONSTANTS
    Peers, Clusters,
    Members,      \* the peers whose devices each cluster uses
    Calls,        \* slots for the calls CARL serves at a time
    NoName,       \* what a free slot is about
    MaxFaults     \* bound on the failures of a behaviour

ASSUME NetbirdAssumption ==
    /\ Peers \cap Clusters = {} /\ NoName \notin Peers \cup Clusters
    /\ Members \in [Clusters -> SUBSET Peers]
    /\ MaxFaults \in Nat

Names == Peers \cup Clusters

VARIABLES
    groups,    \* NetBird: [name, id, peers], the machines of a group
    policies,  \* NetBird: [name, id, group]
    keys,      \* NetBird: setup keys that are not revoked, [peer, id, group]
    machines,  \* NetBird: its peers, the machines that are logged in
    fresh,     \* the next id
    calls,     \* per slot: operation, subject, next request, locals
    faults,    \* requests that have failed, calls dropped, restarts of CARL
    unclean    \* history: names whose group a lost or repeated answer concerned, or
               \* was left by a call that ended before it could undo it

serverVars == <<groups, policies, keys, machines, fresh>>
nbVars == <<serverVars, calls, faults, unclean>>

\* client: a gRPC client waits for the call; since: the failures when it began.
Idle == [op |-> "idle", on |-> NoName, pc |-> "idle", seen |-> {}, todo |-> {}, got |-> 0,
         key |-> 0, client |-> FALSE, since |-> 0]

NBInit ==
    /\ groups = {} /\ policies = {} /\ keys = {} /\ machines = {} /\ fresh = 1
    /\ calls = [c \in Calls |-> Idle]
    /\ faults = 0 /\ unclean = {}

NBTypeOK ==
    /\ \A g \in groups : g.name \in Names /\ g.id \in 1 .. fresh - 1 /\ g.peers \subseteq machines
    /\ \A p \in policies : p.name \in Clusters /\ \E g \in groups : g.id = p.group
    /\ \A k \in keys : k.peer \in Peers /\ \E g \in groups : g.id = k.group /\ g.name = k.peer
    /\ machines \subseteq 1 .. fresh - 1
    /\ \A x, y \in groups \cup policies \cup keys : x.id = y.id => x = y
    /\ faults \in 0 .. MaxFaults

----------------------------------------------------------------------------
\* The outcomes of a request, and what they cost.
Outcomes(bad) == {"ok"} \cup (IF faults < MaxFaults THEN bad ELSE {})
Charge(o)     == faults' = faults + IF o = "ok" THEN 0 ELSE 1
PostOutcomes   == Outcomes({"refused", "lost", "repeated"})
DeleteOutcomes == Outcomes({"refused", "lost"})
ReadOutcomes   == Outcomes({"refused"})

Posted(o)  == CASE o = "refused" -> 0 [] o = "repeated" -> 2 [] OTHER -> 1
Answers(o) == o \in {"ok", "repeated"}

At(c, op, pc) == calls[c].op \in op /\ calls[c].pc = pc
Goto(c, pc)   == calls' = [calls EXCEPT ![c].pc = pc]
GotoWith(c, pc, seen, got) == calls' = [calls EXCEPT ![c].pc = pc, ![c].seen = seen, ![c].got = got]
Named(set, n) == {x \in set : x.name = n}

\* NetBird keeps a group that a policy or a live setup key refers to.
Linked(id) == \/ \E p \in policies : p.group = id
              \/ \E k \in keys : k.group = id

\* DELETE of what has this id; 404 when there is nothing.
Deleting(c, set, id, o, next) ==
    /\ Charge(o)
    /\ Goto(c, IF o = "ok" /\ \E x \in set : x.id = id THEN next ELSE "failed")
Deleted(set, id, o) == IF o = "refused" THEN set ELSE {x \in set : x.id # id}

----------------------------------------------------------------------------
\* create_netbird_group, for a new peer, a peer whose group is gone, a cluster.
CreateGroup(c) ==
    /\ At(c, {"store", "generate", "deploy"}, "createGroup")
    /\ \E o \in PostOutcomes :
        /\ Charge(o)
        /\ groups' = groups \cup {[name |-> calls[c].on, id |-> fresh + i,
                                   peers |-> calls[c].seen \cap machines] : i \in 0 .. Posted(o) - 1}
        /\ fresh' = fresh + Posted(o)
        /\ unclean' = IF o \in {"lost", "repeated"} THEN unclean \cup {calls[c].on} ELSE unclean
        /\ IF Answers(o)
           THEN GotoWith(c, CASE calls[c].op = "store"    -> "insert"
                              [] calls[c].op = "generate" -> "makeKey"
                              [] calls[c].op = "deploy"   -> "createPolicy", {}, fresh + Posted(o) - 1)
           ELSE Goto(c, "failed")
    /\ UNCHANGED <<policies, keys, machines>>

\* delete_peer: exactly one group is expected; of its machines only the first
\* is deleted, then the setup keys are revoked and the group is deleted.
DeletePeer(c) ==
    /\ At(c, {"store", "delete"}, "deletePeer")
    /\ \E o \in ReadOutcomes :
        /\ Charge(o)
        /\ LET found == Named(groups, calls[c].on) IN
           IF o # "ok" \/ Cardinality(found) # 1
           THEN Goto(c, "failed")
           ELSE \E g \in found :
                \/ g.peers = {} /\ GotoWith(c, "revokeKeys", {}, g.id)
                \/ \E m \in g.peers : GotoWith(c, "logout", {m}, g.id)
    /\ UNCHANGED <<serverVars, unclean>>

\* delete_setup_key revokes every key with the peer's name, one PUT each; a PUT
\* that is repeated does no harm.  No key is made meanwhile: generate reads the
\* store, which this call has locked.
RevokeKeys(c) ==
    /\ At(c, {"store", "delete"}, "revokeKeys")
    /\ LET mine == {k \in keys : k.peer = calls[c].on} IN
       IF mine = {}
       THEN Goto(c, "deleteGroup") /\ UNCHANGED <<keys, faults>>
       ELSE \E k \in mine, o \in DeleteOutcomes :
            /\ Charge(o)
            /\ keys' = IF o = "refused" THEN keys ELSE keys \ {k}
            /\ Goto(c, IF o = "ok" THEN "revokeKeys" ELSE "failed")
    /\ UNCHANGED <<groups, policies, machines, fresh, unclean>>

\* delete_netbird_group, of a peer's or a cluster's group.
DeleteGroup(c) ==
    /\ At(c, {"store", "delete", "deploy", "undeploy"}, "deleteGroup")
    /\ IF Linked(calls[c].got)
       THEN Goto(c, "failed") /\ UNCHANGED <<groups, faults>>
       ELSE \E o \in DeleteOutcomes :
            /\ Deleting(c, groups, calls[c].got, o,
                        IF calls[c].op = "deploy" THEN "resolve" ELSE "vpnDone")
            /\ groups' = Deleted(groups, calls[c].got, o)
    /\ UNCHANGED <<policies, keys, machines, fresh, unclean>>

----------------------------------------------------------------------------
\* generate_vpn_peer_configuration: looks up the group, logs its machines out
\* or creates the group again, and makes a setup key.
GenerateVpnPeerConfiguration(c) ==
    /\ At(c, {"generate"}, "getGroup")
    /\ \E o \in ReadOutcomes :
        /\ Charge(o)
        /\ LET found == Named(groups, calls[c].on) IN
           CASE o # "ok" \/ Cardinality(found) > 1 -> Goto(c, "failed")
             [] o = "ok" /\ found = {} -> GotoWith(c, "createGroup", {}, 0)
             [] OTHER -> \E g \in found : GotoWith(c, "logout", g.peers, g.id)
    /\ UNCHANGED <<serverVars, unclean>>

\* delete_netbird_peer, one machine after the other.
Logout(c) ==
    /\ At(c, {"store", "delete", "generate"}, "logout")
    /\ LET done == IF calls[c].op = "generate" THEN "makeKey" ELSE "revokeKeys" IN
       IF calls[c].seen = {}
       THEN Goto(c, done) /\ UNCHANGED <<groups, machines, faults>>
       ELSE \E m \in calls[c].seen, o \in DeleteOutcomes :
            /\ Charge(o)
            /\ machines' = IF o = "refused" THEN machines ELSE machines \ {m}
            /\ groups' = IF o = "refused" THEN groups
                         ELSE {[g EXCEPT !.peers = @ \ {m}] : g \in groups}
            /\ IF o = "ok" /\ m \in machines
               THEN GotoWith(c, "logout", calls[c].seen \ {m}, calls[c].got)
               ELSE Goto(c, "failed")
    /\ UNCHANGED <<policies, keys, fresh, unclean>>

\* generate_netbird_setup_key: the group again, which cannot be deleted while
\* generate reads the store, then the key.  Older keys stay valid.
GenerateSetupKey(c) ==
    /\ At(c, {"generate"}, "makeKey")
    /\ \E o \in PostOutcomes :
        LET found == Named(groups, calls[c].on)
            n     == IF Cardinality(found) = 1 THEN Posted(o) ELSE 0
        IN
        /\ Charge(o)
        /\ keys' = keys \cup UNION {{[peer |-> calls[c].on, id |-> fresh + i, group |-> g.id] :
                                     i \in 0 .. n - 1} : g \in found}
        /\ fresh' = fresh + n
        /\ calls' = [calls EXCEPT ![c].pc = IF n > 0 /\ Answers(o) THEN "vpnDone" ELSE "failed",
                                  ![c].key = IF n > 0 /\ Answers(o) THEN fresh + n - 1 ELSE 0]
    /\ UNCHANGED <<groups, policies, machines, unclean>>

----------------------------------------------------------------------------
\* delete_cluster: the policy, then the group, each looked up by its name.  A
\* policy or group that is gone when its turn comes is a failure.
GetPolicy(c) ==
    /\ At(c, {"deploy", "undeploy"}, "getPolicy")
    /\ \E o \in ReadOutcomes :
        /\ Charge(o)
        /\ LET found == Named(policies, calls[c].on) IN
           CASE o # "ok" \/ Cardinality(found) > 1 -> Goto(c, "failed")
             [] o = "ok" /\ found = {} -> Goto(c, "getGroup")
             [] OTHER -> \E p \in found : GotoWith(c, "deletePolicy", {}, p.id)
    /\ UNCHANGED <<serverVars, unclean>>

\* As a bug would have it: the policy is left behind.
SkipPolicy(c) ==
    /\ At(c, {"deploy", "undeploy"}, "deletePolicy")
    /\ Goto(c, IF calls[c].op = "deploy" THEN "resolve" ELSE "vpnDone")
    /\ UNCHANGED <<serverVars, faults, unclean>>

DeletePolicy(c) ==
    /\ At(c, {"deploy", "undeploy"}, "deletePolicy")
    /\ \E o \in DeleteOutcomes :
        /\ Deleting(c, policies, calls[c].got, o, "getGroup")
        /\ policies' = Deleted(policies, calls[c].got, o)
    /\ UNCHANGED <<groups, keys, machines, fresh, unclean>>

GetClusterGroup(c) ==
    /\ At(c, {"deploy", "undeploy"}, "getGroup")
    /\ \E o \in ReadOutcomes :
        /\ Charge(o)
        /\ LET found == Named(groups, calls[c].on) IN
           CASE o # "ok" \/ Cardinality(found) > 1 -> Goto(c, "failed")
             [] o = "ok" /\ found = {} ->
                    Goto(c, IF calls[c].op = "deploy" THEN "resolve" ELSE "vpnDone")
             [] OTHER -> \E g \in found : GotoWith(c, "deleteGroup", {}, g.id)
    /\ UNCHANGED <<serverVars, unclean>>

\* create_cluster: the old cluster is deleted, then each member is resolved to
\* a machine of its self-group, one request each.
ResolveMember(c) ==
    /\ At(c, {"deploy"}, "resolve")
    /\ IF calls[c].todo = {}
       THEN Goto(c, "createGroup") /\ UNCHANGED faults
       ELSE \E p \in calls[c].todo, o \in ReadOutcomes :
            /\ Charge(o)
            /\ LET found == {g \in Named(groups, p) : g.peers # {}} IN
               IF o # "ok" \/ Cardinality(Named(groups, p)) # 1 \/ found = {}
               THEN Goto(c, "failed")
               ELSE \E g \in found : \E m \in g.peers :
                    calls' = [calls EXCEPT ![c].todo = @ \ {p}, ![c].seen = @ \cup {m}]
    /\ UNCHANGED <<serverVars, unclean>>

\* create_netbird_self_policy; NetBird has no policy without its group.
CreatePolicy(c) ==
    /\ At(c, {"deploy"}, "createPolicy")
    /\ \E o \in PostOutcomes :
        LET n == IF \E g \in groups : g.id = calls[c].got THEN Posted(o) ELSE 0 IN
        /\ Charge(o)
        /\ policies' = policies \cup {[name |-> calls[c].on, id |-> fresh + i,
                                       group |-> calls[c].got] : i \in 0 .. n - 1}
        /\ fresh' = fresh + n
        /\ unclean' = IF o \in {"lost", "repeated"} THEN unclean \cup {calls[c].on} ELSE unclean
        /\ Goto(c, IF n > 0 /\ Answers(o) THEN "vpnDone" ELSE "failed")
    /\ UNCHANGED <<groups, keys, machines>>

\* `netbird login` with a setup key makes the machine a NetBird peer in the
\* key's group.
Login(key, m) ==
    /\ \E k \in keys : k.id = key
    /\ m = fresh
    /\ machines' = machines \cup {m}
    /\ groups' = {IF \E k \in keys : k.id = key /\ k.group = g.id
                  THEN [g EXCEPT !.peers = @ \cup {m}] ELSE g : g \in groups}
    /\ fresh' = fresh + 1
    /\ UNCHANGED <<policies, keys>>

Request(c) ==
    \/ CreateGroup(c) \/ DeletePeer(c) \/ RevokeKeys(c) \/ DeleteGroup(c)
    \/ GenerateVpnPeerConfiguration(c) \/ Logout(c) \/ GenerateSetupKey(c)
    \/ GetPolicy(c) \/ DeletePolicy(c) \/ GetClusterGroup(c)
    \/ ResolveMember(c) \/ CreatePolicy(c)
=============================================================================
