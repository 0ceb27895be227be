---- MODULE MCApiCalls ----
EXTENDS ApiCalls

CONSTANTS c1, c2, k1, k2

MCInit == Init /\ signing = k1

\* To keep the instance small, time passes, or keys change and LEA's user signs
\* in, only while nothing is stored; from then on only "version" is called, and
\* before that the second call stores a deployment.
Quiet ==
    /\ now = 0 /\ session = None
    /\ published = {k1} /\ storage.token.kid # k2
    /\ \A c \in Calls : k2 \notin {client[c].token.kid, server[c].kid}

MCMethods(c) ==
    CASE ~Quiet -> {"version"}
      [] Quiet /\ c = c1 -> Methods
      [] Quiet /\ c # c1 -> {"store_cluster_deployment"}

\* Where a method has no cluster, one stands for all.
WithCluster ==
    {"store_cluster_configuration", "delete_cluster_configuration", "get_cluster_configuration",
     "store_cluster_deployment", "delete_cluster_deployment", "get_cluster_deployment",
     "list_cluster_peer_states"}
AnyCluster == CHOOSE k \in Clusters : TRUE

MCCall(c) ==
    \E lea \in (IF Quiet THEN {FALSE} ELSE BOOLEAN), method \in MCMethods(c), cluster \in Clusters :
        /\ (method \in WithCluster /\ c = c1) \/ cluster = AnyCluster
        /\ CallMethod(c, lea, method, cluster)

NothingStored ==
    /\ ~peer /\ configured = {} /\ deployed = {}
    /\ \A c \in Calls : client[c].pc = "idle" \/ client[c].method = "version"

\* A caller that has its outcome is forgotten before anything else happens: nobody
\* else looks at it.
Forgettable(c) == client[c].pc = "done" /\ server[c].pc \in {"none", "replied"}

MCNext ==
    \/ \E c \in Calls : Forget(c)
    \/ /\ \A c \in Calls : ~Forgettable(c)
       /\ \/ \E c \in Calls :
               \/ MCCall(c) \/ Step(c) \/ FailedToGetToken(c)
               \/ LoseConnection(c) \/ DropRequest(c)
          \/ NothingStored /\ signing = k1 /\ published = {k1} /\ session = None /\ Tick
          \/ NothingStored /\ now = 0 /\ (RotateKey \/ RetireKey \/ SignIn \/ SignOut)

MCSpec == MCInit /\ [][MCNext]_vars /\ Fairness
====
