------------------------- MODULE ProvisioningProofs -------------------------
(***************************************************************************)
(* Theorems about Provisioning: whatever requests fail, are lost or are    *)
(* sent twice, however the calls of any number of operators overlap, and   *)
(* wherever they are dropped, what NetBird and the OIDC provider hold for  *)
(* a peer or a cluster agrees with what CARL has stored, and the setup     *)
(* that was handed out last can be used.                                   *)
(*                                                                         *)
(* The argument goes name by name.  A call works on one name, a peer or a  *)
(* cluster, and touches nothing that belongs to another name: what it      *)
(* deletes by id it has looked up by name, and ids are never issued twice. *)
(* So it is enough to say, for a call at each of its steps, what the       *)
(* systems hold for its own name (CallsInv), what they hold for a peer or  *)
(* a cluster no matter who works on it (NamesInv), and which calls may be  *)
(* about the same name at a time (LocksInv).                               *)
(***************************************************************************)
EXTENDS Provisioning, FiniteSetTheorems, TLAPS

-----------------------------------------------------------------------------
(* Data.                                                                   *)

Issued(fr) == 1 .. fr - 1

UniqueIds(set) == \A x, y \in set : x.id = y.id => x = y

\* What NetBird holds: groups gs, policies ps, keys ks and machines ms.
ServerOK(gs, ps, ks, ms, fr) ==
    /\ fr \in Nat \ {0}
    /\ gs \subseteq [name : Names, id : Issued(fr), peers : SUBSET ms]
    /\ ps \subseteq [name : Clusters, id : Issued(fr), group : Issued(fr)]
    /\ ks \subseteq [peer : Peers, id : Issued(fr), group : Issued(fr)]
    /\ ms \subseteq Issued(fr)
    /\ IsFiniteSet(gs) /\ IsFiniteSet(ps)
    /\ UniqueIds(gs \cup ps \cup ks)
    /\ \A p \in ps : \E g \in gs : g.id = p.group
    /\ \A k \in ks : \E g \in gs : g.id = k.group /\ g.name = k.peer

ClientsOK(cs, fr) == cs \subseteq [peer : Peers, id : Issued(fr)] /\ UniqueIds(cs)

Call == [op   : {"idle", "store", "delete", "generate", "deploy", "undeploy"},
         on   : Names \cup {NoName},
         pc   : {"idle", "waiting", "createGroup", "insert", "commit", "deletePeer", "logout",
                 "revokeKeys", "deleteGroup", "vpnDone", "failed", "listClients",
                 "deleteClients", "getGroup", "makeKey", "register", "getPolicy",
                 "deletePolicy", "resolve", "createPolicy"},
         seen : SUBSET Nat, todo : SUBSET Names, got : Nat, key : Nat,
         client : BOOLEAN, since : Nat]

Credentials == [peer : Peers, key : Nat, client : Nat]

Host == [task : {"none", "checkCarl", "install", "connect", "restart"},
         setup : Credentials \cup {NoSetup}, installed : BOOLEAN, conf : Peers \cup {NoName},
         vpn : Nat, service : BOOLEAN, online : Peers \cup {NoName}]

DataInv ==
    /\ ServerOK(groups, policies, keys, machines, fresh)
    /\ ClientsOK(clients, fresh)
    /\ faults \in 0 .. MaxFaults
    /\ calls \in [Calls -> Call]
    /\ descriptors \subseteq Peers /\ deployments \subseteq Clusters
    /\ handed \subseteq Credentials
    /\ hosts \in [Hosts -> Host]
    /\ \A h \in Hosts : /\ hosts[h].vpn \in 0 .. fresh - 1
                        /\ hosts[h].task # "none" => hosts[h].setup \in Credentials
    /\ last \in [Peers -> Credentials \cup {NoSetup}]

-----------------------------------------------------------------------------
(* What belongs to a name.                                                 *)

IdsNamed(set, n) == {x.id : x \in {y \in set : y.name = n}}
IdsOf(set, p)    == {x.id : x \in {y \in set : y.peer = p}}

\* A call r on a name with the groups G, the policies P, the keys K and the
\* clients C, by their ids; D, E, U and O are the descriptors, the deployments,
\* the unclean and the overtaken names.
StoreOK(r, G, D, U) ==
    /\ r.on \in Peers
    /\ r.pc \in {"createGroup", "insert", "commit", "deletePeer", "logout", "revokeKeys",
                 "deleteGroup", "vpnDone", "failed"}
    /\ r.pc # "commit" => r.on \notin D
    /\ r.pc \in {"deletePeer", "logout", "revokeKeys", "deleteGroup"} => r.todo # {}
    /\ r.pc \in {"logout", "revokeKeys", "deleteGroup"} => G = {r.got}
    /\ r.on \notin U =>
        /\ r.pc \in {"createGroup", "vpnDone"} => G = {}
        /\ r.pc = "failed" /\ r.todo = {} => G = {}

DeleteOK(r, G, K, C, D) ==
    /\ r.on \in D
    /\ r.pc \in {"listClients", "deleteClients", "deletePeer", "logout", "revokeKeys",
                 "deleteGroup", "vpnDone", "failed"}
    /\ r.pc = "deleteClients" /\ r.todo = {} => C \subseteq r.seen
    /\ r.pc \in {"deletePeer", "logout", "revokeKeys", "deleteGroup", "vpnDone"} => C = {}
    /\ r.pc \in {"logout", "revokeKeys", "deleteGroup"} => G = {r.got}
    /\ r.pc \in {"deleteGroup", "vpnDone"} => K = {}
    /\ r.pc = "vpnDone" => G = {}

GenerateOK(r, K, D) ==
    /\ r.on \in D
    /\ r.pc \in {"getGroup", "createGroup", "logout", "makeKey", "vpnDone", "deleteClients",
                 "register", "failed"}
    /\ r.pc \in {"vpnDone", "deleteClients", "register"} => r.key \in K

DeployOK(r, E, O) ==
    /\ r.on \in Clusters /\ r.on \in E \cup O
    /\ r.pc \in {"getPolicy", "deletePolicy", "getGroup", "deleteGroup", "resolve",
                 "createGroup", "createPolicy", "vpnDone", "failed"}

UndeployOK(r, G, P, E, O) ==
    /\ r.on \in Clusters
    /\ r.pc \in {"waiting", "getPolicy", "deletePolicy", "getGroup", "deleteGroup", "vpnDone",
                 "failed"}
    /\ r.pc \notin {"waiting", "failed"} => r.on \in E
    /\ r.on \notin O =>
        /\ r.pc = "deletePolicy" => P \subseteq {r.got}
        /\ r.pc \in {"getGroup", "deleteGroup", "vpnDone"} => P = {}
        /\ r.pc = "deleteGroup" => G \subseteq {r.got}
        /\ r.pc = "vpnDone" => G = {}

CallOK(r, G, P, K, C, D, E, U, O) ==
    /\ r.op = "idle" => r = Idle
    /\ r.op = "store" => StoreOK(r, G, D, U)
    /\ r.op = "delete" => DeleteOK(r, G, K, C, D)
    /\ r.op = "generate" => GenerateOK(r, K, D)
    /\ r.op = "deploy" => DeployOK(r, E, O)
    /\ r.op = "undeploy" => UndeployOK(r, G, P, E, O)

\* What a call is about to delete by its id is of the call's own name.
TargetsOK(r, gs, ps, cs, fr) ==
    /\ r.got < fr
    /\ \A i \in r.seen : i < fr
    /\ r.pc = "deleteGroup" => \A g \in gs : g.id = r.got => g.name = r.on
    /\ r.pc = "deletePolicy" => \A p \in ps : p.id = r.got => p.name = r.on
    /\ r.pc = "deleteClients" => \A x \in cs : x.id \in r.seen => x.peer = r.on

CallsInv ==
    \A c \in Calls :
        LET r == calls[c]
        IN  /\ CallOK(r, IdsNamed(groups, r.on), IdsNamed(policies, r.on), IdsOf(keys, r.on),
                      IdsOf(clients, r.on), descriptors, deployments, unclean, overtaken)
            /\ TargetsOK(r, groups, policies, clients, fresh)

\* The operations that are under way on a name.
OpsOn(n) == {calls[c].op : c \in {d \in Calls : calls[d].on = n}}

\* A peer p with the groups G, keys K, clients C, the last setup s and the
\* operations W under way.
PeerOK(p, G, K, C, D, U, s, W) ==
    /\ p \notin D => K = {} /\ C = {} /\ s = NoSetup
    /\ p \notin D \cup U => G = {} \/ W # {}
    /\ s # NoSetup => s.key \in K /\ (s.client \in C \/ "generate" \in W)

ClusterOK(k, G, P, E, O) == k \notin E \cup O => G = {} /\ P = {}

NamesInv ==
    /\ \A p \in Peers :
        PeerOK(p, IdsNamed(groups, p), IdsOf(keys, p), IdsOf(clients, p), descriptors, unclean,
               last[p], OpsOn(p))
    /\ \A k \in Clusters :
        ClusterOK(k, IdsNamed(groups, k), IdsNamed(policies, k), deployments, overtaken)
    /\ \A c \in Calls : calls[c].op = "delete" => last[calls[c].on] = NoSetup

-----------------------------------------------------------------------------
(* Locks.                                                                  *)

IsWriting(r) == r.op \in {"store", "delete", "undeploy"} /\ r.pc # "waiting"

\* Two calls at a time, O being the overtaken clusters.
Exclusive(r, s, O) ==
    /\ IsWriting(r) => ~IsWriting(s) /\ s.op # "generate"
    /\ r.op = "deploy" => s.op # "deploy"
    /\ r.op = "deploy" /\ s.op = "undeploy" /\ IsWriting(s) => s.on \in O

LocksInv == \A c, d \in Calls : c # d => Exclusive(calls[c], calls[d], overtaken)

IInv == DataInv /\ CallsInv /\ NamesInv /\ LocksInv

-----------------------------------------------------------------------------
(* NetBird's data.                                                         *)

LEMMA IssuedGrows ==
    ASSUME NEW a \in Nat, NEW b \in Nat, a <= b
    PROVE  Issued(a) \subseteq Issued(b)
  BY DEF Issued

LEMMA UniqueAfterAdding ==
    ASSUME NEW S, NEW N, NEW fr \in Nat,
           UniqueIds(S), UniqueIds(N),
           \A x \in S : x.id \in Issued(fr), \A x \in N : x.id \in Nat /\ x.id >= fr
    PROVE  UniqueIds(S \cup N)
  <1> SUFFICES ASSUME NEW x \in S \cup N, NEW y \in S \cup N, x.id = y.id
               PROVE  x = y
    BY DEF UniqueIds
  <1>1. ASSUME NEW u \in S, NEW v \in N PROVE u.id # v.id
    <2>1. u.id \in Nat /\ u.id < fr /\ v.id \in Nat /\ v.id >= fr
      BY DEF Issued
    <2> QED
      BY <2>1
  <1> QED
    BY <1>1 DEF UniqueIds

LEMMA UniqueInSubset ==
    ASSUME NEW S, NEW T, T \subseteq S, UniqueIds(S)
    PROVE  UniqueIds(T)
  BY DEF UniqueIds

\* At most two resources come of one POST.
LEMMA PostedIds ==
    ASSUME NEW fr \in Nat \ {0}, NEW q \in 0 .. 2, NEW i \in 0 .. q - 1
    PROVE  fr + i \in Issued(fr + q) /\ fr + i >= fr /\ fr + i \in Nat /\ i \in {0, 1}
  BY DEF Issued

\* Whatever is new has a new id.
OnlyFresh(old, new, fr) ==
    \A x \in new : x.id >= fr \/ \E y \in old : y.id = x.id /\ y.name = x.name
OnlyFreshClients(old, new, fr) ==
    \A x \in new : x.id >= fr \/ \E y \in old : y.id = x.id /\ y.peer = x.peer

\* What q resources more are, the first with the id fr.
NewGroups(n, fr, q, s)   == {[name |-> n, id |-> fr + i, peers |-> s] : i \in 0 .. q - 1}
NewPolicies(n, fr, q, j) == {[name |-> n, id |-> fr + i, group |-> j] : i \in 0 .. q - 1}
NewKeys(n, fr, q, found) ==
    UNION {{[peer |-> n, id |-> fr + i, group |-> g.id] : i \in 0 .. q - 1} : g \in found}

\* The resources of a POST that created q of them.
GroupsPosted(gs, g2, ms, fr, f2, n, q, s) ==
    /\ n \in Names /\ s \subseteq ms /\ q \in 0 .. 2
    /\ g2 = gs \cup NewGroups(n, fr, q, s) /\ f2 = fr + q
PoliciesPosted(gs, ps, p2, fr, f2, n, q, j) ==
    /\ n \in Clusters /\ q \in 0 .. 2 /\ (q > 0 => \E g \in gs : g.id = j)
    /\ p2 = ps \cup NewPolicies(n, fr, q, j) /\ f2 = fr + q
KeysPosted(gs, ks, k2, fr, f2, n, q) ==
    /\ n \in Peers /\ q \in 0 .. 2
    /\ q > 0 => \E g \in Named(gs, n) : Named(gs, n) = {g}
    /\ k2 = ks \cup NewKeys(n, fr, q, Named(gs, n)) /\ f2 = fr + q

LEMMA GroupsAdded ==
    ASSUME NEW gs, NEW ps, NEW ks, NEW ms, NEW fr, ServerOK(gs, ps, ks, ms, fr),
           NEW g2, NEW f2, NEW n, NEW q, NEW s, GroupsPosted(gs, g2, ms, fr, f2, n, q, s)
    PROVE  /\ ServerOK(g2, ps, ks, ms, f2)
           /\ \A m \in Names \ {n} : IdsNamed(g2, m) = IdsNamed(gs, m)
           /\ OnlyFresh(gs, g2, fr) /\ fr <= f2
           /\ q = 0 => g2 = gs
  <1> DEFINE G(i) == [name |-> n, id |-> fr + i, peers |-> s]
             new == NewGroups(n, fr, q, s)
  <1>0. n \in Names /\ s \in SUBSET ms /\ q \in 0 .. 2 /\ g2 = gs \cup new /\ f2 = fr + q
    BY DEF GroupsPosted
  <1> USE <1>0 DEF NewGroups
  <1>1. /\ fr \in Nat \ {0} /\ f2 \in Nat \ {0} /\ fr <= f2
        /\ gs \subseteq [name : Names, id : Issued(fr), peers : SUBSET ms]
        /\ ps \subseteq [name : Clusters, id : Issued(fr), group : Issued(fr)]
        /\ ks \subseteq [peer : Peers, id : Issued(fr), group : Issued(fr)]
        /\ ms \subseteq Issued(fr)
        /\ IsFiniteSet(gs) /\ IsFiniteSet(ps) /\ UniqueIds(gs \cup ps \cup ks)
    BY DEF ServerOK
  <1>2. Issued(fr) \subseteq Issued(f2)
    BY <1>1, IssuedGrows
  <1>3. ASSUME NEW g \in new
        PROVE  /\ g \in [name : Names, id : Issued(f2), peers : SUBSET ms]
               /\ g.name = n /\ g.id >= fr /\ g.id \in Nat
    <2>1. PICK i \in 0 .. q - 1 : g = G(i)
      OBVIOUS
    <2>2. fr + i \in Issued(f2) /\ fr + i >= fr /\ fr + i \in Nat
      BY <1>1, PostedIds
    <2> QED
      BY <2>1, <2>2
  <1>4. UniqueIds(new)
    <2> SUFFICES ASSUME NEW i \in 0 .. q - 1, NEW j \in 0 .. q - 1, G(i).id = G(j).id
                 PROVE  G(i) = G(j)
      BY DEF UniqueIds
    <2>1. i = j
      BY <1>1
    <2> QED
      BY <2>1
  <1>5. IsFiniteSet(new)
    <2>1. new \subseteq {G(0), G(1)}
      <3>1. ASSUME NEW i \in 0 .. q - 1 PROVE i = 0 \/ i = 1
        OBVIOUS
      <3> QED
        BY <3>1
    <2>2. IsFiniteSet({G(0), G(1)})
      <3> HIDE DEF G
      <3>1. IsFiniteSet({G(0)})
        BY FS_Singleton
      <3>2. {G(0), G(1)} = {G(0)} \cup {G(1)}
        OBVIOUS
      <3> QED
        BY <3>1, <3>2, FS_AddElement
    <2> QED
      BY <2>1, <2>2, FS_Subset
  <1>6. IsFiniteSet(gs \cup new)
    BY <1>1, <1>5, FS_Union
  <1>7. UniqueIds((gs \cup new) \cup ps \cup ks)
    <2>1. \A x \in gs \cup ps \cup ks : x.id \in Issued(fr)
      BY <1>1
    <2>2. UniqueIds((gs \cup ps \cup ks) \cup new)
      BY <1>1, <1>3, <1>4, <2>1, UniqueAfterAdding
    <2>3. (gs \cup new) \cup ps \cup ks = (gs \cup ps \cup ks) \cup new
      OBVIOUS
    <2> QED
      BY <2>2, <2>3
  <1>8. /\ gs \subseteq [name : Names, id : Issued(f2), peers : SUBSET ms]
        /\ ps \subseteq [name : Clusters, id : Issued(f2), group : Issued(f2)]
        /\ ks \subseteq [peer : Peers, id : Issued(f2), group : Issued(f2)]
        /\ ms \subseteq Issued(f2)
    BY <1>1, <1>2
  <1>9. \A m \in Names \ {n} : IdsNamed(gs \cup new, m) = IdsNamed(gs, m)
    BY <1>3 DEF IdsNamed
  <1>10. q = 0 => new = {}
    OBVIOUS
  <1>11. OnlyFresh(gs, g2, fr)
    BY <1>3 DEF OnlyFresh
  <1> HIDE DEF new
  <1>12. ServerOK(gs \cup new, ps, ks, ms, f2)
    BY <1>1, <1>3, <1>6, <1>7, <1>8 DEF ServerOK
  <1> QED
    BY <1>1, <1>9, <1>10, <1>11, <1>12

LEMMA AtMostTwo ==
    ASSUME NEW q \in 0 .. 2, NEW a, NEW b, NEW new,
           \A x \in new : x = a \/ x = b
    PROVE  IsFiniteSet(new)
  <1>1. IsFiniteSet({a}) /\ {a, b} = {a} \cup {b}
    BY FS_Singleton
  <1>2. IsFiniteSet({a, b})
    BY <1>1, FS_AddElement
  <1>3. new \subseteq {a, b}
    OBVIOUS
  <1> QED
    BY <1>2, <1>3, FS_Subset

LEMMA PoliciesAdded ==
    ASSUME NEW gs, NEW ps, NEW ks, NEW ms, NEW fr, ServerOK(gs, ps, ks, ms, fr),
           NEW p2, NEW f2, NEW n, NEW q, NEW j, PoliciesPosted(gs, ps, p2, fr, f2, n, q, j)
    PROVE  /\ ServerOK(gs, p2, ks, ms, f2)
           /\ \A m \in Names \ {n} : IdsNamed(p2, m) = IdsNamed(ps, m)
           /\ OnlyFresh(ps, p2, fr) /\ fr <= f2
  <1> DEFINE P(i) == [name |-> n, id |-> fr + i, group |-> j]
             new == NewPolicies(n, fr, q, j)
  <1>0. /\ n \in Clusters /\ q \in 0 .. 2 /\ (q > 0 => \E g \in gs : g.id = j)
        /\ p2 = ps \cup new /\ f2 = fr + q
    BY DEF PoliciesPosted
  <1> USE <1>0 DEF NewPolicies
  <1>1. /\ fr \in Nat \ {0} /\ f2 \in Nat \ {0} /\ fr <= f2
        /\ gs \subseteq [name : Names, id : Issued(fr), peers : SUBSET ms]
        /\ ps \subseteq [name : Clusters, id : Issued(fr), group : Issued(fr)]
        /\ ks \subseteq [peer : Peers, id : Issued(fr), group : Issued(fr)]
        /\ ms \subseteq Issued(fr)
        /\ IsFiniteSet(gs) /\ IsFiniteSet(ps) /\ UniqueIds(gs \cup ps \cup ks)
        /\ \A p \in ps : \E g \in gs : g.id = p.group
        /\ \A k \in ks : \E g \in gs : g.id = k.group /\ g.name = k.peer
    BY DEF ServerOK
  <1>2. Issued(fr) \subseteq Issued(f2)
    BY <1>1, IssuedGrows
  <1>3. ASSUME NEW p \in new
        PROVE  /\ p \in [name : Clusters, id : Issued(f2), group : Issued(f2)]
               /\ p.name = n /\ p.id >= fr /\ p.id \in Nat
               /\ \E g \in gs : g.id = p.group
    <2>1. PICK i \in 0 .. q - 1 : p = P(i)
      OBVIOUS
    <2>2. fr + i \in Issued(f2) /\ fr + i >= fr /\ fr + i \in Nat
      BY <1>1, PostedIds
    <2>3. q > 0
      OBVIOUS
    <2>4. j \in Issued(f2)
      BY <1>1, <1>2, <2>3
    <2> QED
      BY <2>1, <2>2, <2>3, <2>4
  <1>4. UniqueIds(new)
    <2> SUFFICES ASSUME NEW i \in 0 .. q - 1, NEW k \in 0 .. q - 1, P(i).id = P(k).id
                 PROVE  P(i) = P(k)
      BY DEF UniqueIds
    <2>1. i = k
      BY <1>1
    <2> QED
      BY <2>1
  <1>5. IsFiniteSet(ps \cup new)
    <2>1. \A i \in 0 .. q - 1 : i = 0 \/ i = 1
      OBVIOUS
    <2>2. \A x \in new : x = P(0) \/ x = P(1)
      BY <2>1
    <2>3. IsFiniteSet(new)
      BY <2>2, AtMostTwo
    <2> QED
      BY <1>1, <2>3, FS_Union
  <1>6. UniqueIds(gs \cup (ps \cup new) \cup ks)
    <2>1. \A x \in gs \cup ps \cup ks : x.id \in Issued(fr)
      BY <1>1
    <2>2. UniqueIds((gs \cup ps \cup ks) \cup new)
      BY <1>1, <1>3, <1>4, <2>1, UniqueAfterAdding
    <2>3. gs \cup (ps \cup new) \cup ks = (gs \cup ps \cup ks) \cup new
      OBVIOUS
    <2> QED
      BY <2>2, <2>3
  <1>7. /\ gs \subseteq [name : Names, id : Issued(f2), peers : SUBSET ms]
        /\ ps \subseteq [name : Clusters, id : Issued(f2), group : Issued(f2)]
        /\ ks \subseteq [peer : Peers, id : Issued(f2), group : Issued(f2)]
        /\ ms \subseteq Issued(f2)
    BY <1>1, <1>2
  <1>8. \A m \in Names \ {n} : IdsNamed(ps \cup new, m) = IdsNamed(ps, m)
    BY <1>3 DEF IdsNamed
  <1>9. OnlyFresh(ps, p2, fr)
    BY <1>3 DEF OnlyFresh
  <1> HIDE DEF new
  <1>10. ServerOK(gs, ps \cup new, ks, ms, f2)
    BY <1>1, <1>3, <1>5, <1>6, <1>7 DEF ServerOK
  <1> QED
    BY <1>1, <1>8, <1>9, <1>10

LEMMA KeysAdded ==
    ASSUME NEW gs, NEW ps, NEW ks, NEW ms, NEW fr, ServerOK(gs, ps, ks, ms, fr),
           NEW k2, NEW f2, NEW n, NEW q, KeysPosted(gs, ks, k2, fr, f2, n, q)
    PROVE  /\ ServerOK(gs, ps, k2, ms, f2)
           /\ \A m \in Peers \ {n} : IdsOf(k2, m) = IdsOf(ks, m)
           /\ IdsOf(ks, n) \subseteq IdsOf(k2, n) /\ fr <= f2
           /\ q > 0 => fr + q - 1 \in IdsOf(k2, n)
  <1> DEFINE K(i, g) == [peer |-> n, id |-> fr + i, group |-> g.id]
             found == Named(gs, n)
             new == NewKeys(n, fr, q, found)
  <1>0. /\ n \in Peers /\ q \in 0 .. 2 /\ (q > 0 => \E g \in found : found = {g})
        /\ k2 = ks \cup new /\ f2 = fr + q
    BY DEF KeysPosted
  <1> HIDE DEF found
  <1> USE <1>0 DEF NewKeys
  <1>1. /\ fr \in Nat \ {0} /\ f2 \in Nat \ {0} /\ fr <= f2
        /\ gs \subseteq [name : Names, id : Issued(fr), peers : SUBSET ms]
        /\ ps \subseteq [name : Clusters, id : Issued(fr), group : Issued(fr)]
        /\ ks \subseteq [peer : Peers, id : Issued(fr), group : Issued(fr)]
        /\ ms \subseteq Issued(fr)
        /\ IsFiniteSet(gs) /\ IsFiniteSet(ps) /\ UniqueIds(gs \cup ps \cup ks)
        /\ \A p \in ps : \E g \in gs : g.id = p.group
        /\ \A k \in ks : \E g \in gs : g.id = k.group /\ g.name = k.peer
    BY DEF ServerOK
  <1>2. Issued(fr) \subseteq Issued(f2)
    BY <1>1, IssuedGrows
  <1>3. ASSUME NEW k \in new
        PROVE  /\ k \in [peer : Peers, id : Issued(f2), group : Issued(f2)]
               /\ k.peer = n /\ k.id >= fr /\ k.id \in Nat
               /\ \E g \in gs : g.id = k.group /\ g.name = k.peer
    <2>1. PICK i \in 0 .. q - 1, g \in found : k = K(i, g)
      OBVIOUS
    <2>2. fr + i \in Issued(f2) /\ fr + i >= fr /\ fr + i \in Nat
      BY <1>1, PostedIds
    <2>3. g \in gs /\ g.name = n /\ g.id \in Issued(f2)
      BY <1>1, <1>2 DEF Named, found
    <2> QED
      BY <2>1, <2>2, <2>3
  <1>4. UniqueIds(new)
    <2> SUFFICES ASSUME NEW i \in 0 .. q - 1, NEW j \in 0 .. q - 1,
                        NEW g \in found, NEW h \in found, K(i, g).id = K(j, h).id
                 PROVE  K(i, g) = K(j, h)
      BY DEF UniqueIds
    <2>1. i = j /\ q > 0
      BY <1>1
    <2>2. g = h
      BY <2>1
    <2> QED
      BY <2>1, <2>2
  <1>5. UniqueIds(gs \cup ps \cup (ks \cup new))
    <2> HIDE DEF new
    <2>1. \A x \in gs \cup ps \cup ks : x.id \in Issued(fr)
      BY <1>1
    <2>2. UniqueIds((gs \cup ps \cup ks) \cup new)
      BY <1>1, <1>3, <1>4, <2>1, UniqueAfterAdding
    <2>3. gs \cup ps \cup (ks \cup new) = (gs \cup ps \cup ks) \cup new
      OBVIOUS
    <2> QED
      BY <2>2, <2>3
  <1>6. /\ gs \subseteq [name : Names, id : Issued(f2), peers : SUBSET ms]
        /\ ps \subseteq [name : Clusters, id : Issued(f2), group : Issued(f2)]
        /\ ks \subseteq [peer : Peers, id : Issued(f2), group : Issued(f2)]
        /\ ms \subseteq Issued(f2)
    BY <1>1, <1>2
  <1>7. /\ \A m \in Peers \ {n} : IdsOf(ks \cup new, m) = IdsOf(ks, m)
        /\ IdsOf(ks, n) \subseteq IdsOf(ks \cup new, n)
    BY <1>3 DEF IdsOf
  <1>8. ASSUME q > 0 PROVE fr + q - 1 \in IdsOf(ks \cup new, n)
    <2>1. PICK g \in found : TRUE
      BY <1>8
    <2> DEFINE k == K(q - 1, g)
    <2>2. q - 1 \in 0 .. q - 1 /\ fr + (q - 1) = fr + q - 1
      BY <1>1, <1>8
    <2>3. k \in new /\ k.peer = n /\ k.id = fr + q - 1
      BY <2>1, <2>2
    <2> QED
      BY <2>3 DEF IdsOf
  <1> HIDE DEF new
  <1>9. ServerOK(gs, ps, ks \cup new, ms, f2)
    BY <1>1, <1>3, <1>5, <1>6 DEF ServerOK
  <1> QED
    BY <1>1, <1>7, <1>8, <1>9

\* The groups g2 are the groups gs with other machines, out of m2.
Relabels(f, gs, g2, m2, fr, f2) ==
    /\ f2 \in Nat /\ fr <= f2 /\ m2 \subseteq Issued(f2)
    /\ f \in [gs -> [name : Names, id : Issued(fr), peers : SUBSET m2]]
    /\ \A g \in gs : f[g] \in g2 /\ f[g].name = g.name /\ f[g].id = g.id
    /\ \A x \in g2 : \E g \in gs : x = f[g]

LEMMA GroupsRelabelled ==
    ASSUME NEW gs, NEW ps, NEW ks, NEW ms, NEW fr, ServerOK(gs, ps, ks, ms, fr),
           NEW f, NEW g2, NEW m2, NEW f2, Relabels(f, gs, g2, m2, fr, f2)
    PROVE  /\ ServerOK(g2, ps, ks, m2, f2)
           /\ \A n \in Names : IdsNamed(g2, n) = IdsNamed(gs, n)
           /\ \A x \in g2 : \E g \in gs : g.id = x.id /\ g.name = x.name
  <1>0. /\ f2 \in Nat /\ fr <= f2 /\ m2 \subseteq Issued(f2)
        /\ f \in [gs -> [name : Names, id : Issued(fr), peers : SUBSET m2]]
        /\ \A g \in gs : f[g] \in g2 /\ f[g].name = g.name /\ f[g].id = g.id
        /\ \A x \in g2 : \E g \in gs : x = f[g]
    BY DEF Relabels
  <1>1. /\ fr \in Nat \ {0} /\ f2 \in Nat \ {0}
        /\ gs \subseteq [name : Names, id : Issued(fr), peers : SUBSET ms]
        /\ ps \subseteq [name : Clusters, id : Issued(fr), group : Issued(fr)]
        /\ ks \subseteq [peer : Peers, id : Issued(fr), group : Issued(fr)]
        /\ IsFiniteSet(gs) /\ IsFiniteSet(ps) /\ UniqueIds(gs \cup ps \cup ks)
        /\ \A p \in ps : \E g \in gs : g.id = p.group
        /\ \A k \in ks : \E g \in gs : g.id = k.group /\ g.name = k.peer
    BY <1>0 DEF ServerOK
  <1>2. Issued(fr) \subseteq Issued(f2)
    BY <1>0, <1>1, IssuedGrows
  <1>3. g2 \subseteq [name : Names, id : Issued(f2), peers : SUBSET m2]
    BY <1>0, <1>2
  <1>4. IsFiniteSet(g2)
    <2>1. f \in [gs -> g2]
      BY <1>0
    <2>2. f \in Surjection(gs, g2)
      BY <1>0, <2>1 DEF Surjection
    <2> QED
      BY <1>1, <2>2, FS_Surjection
  <1>5. UniqueIds(g2 \cup ps \cup ks)
    <2>1. ASSUME NEW g \in gs, NEW h \in gs, f[g].id = f[h].id PROVE f[g] = f[h]
      <3>1. g = h
        BY <1>0, <1>1, <2>1 DEF UniqueIds
      <3> QED
        BY <3>1
    <2>2. ASSUME NEW g \in gs, NEW y \in ps \cup ks PROVE f[g].id # y.id
      <3>1. g.id # y.id
        <4>1. CASE g.id = y.id
          <5>1. g = y
            BY <1>1, <4>1 DEF UniqueIds
          <5>2. DOMAIN g = {"name", "id", "peers"}
            BY <1>1
          <5>3. DOMAIN y = {"name", "id", "group"} \/ DOMAIN y = {"peer", "id", "group"}
            BY <1>1
          <5> QED
            BY <5>1, <5>2, <5>3
        <4> QED
          BY <4>1
      <3> QED
        BY <1>0, <3>1
    <2>3. ASSUME NEW x \in ps \cup ks, NEW y \in ps \cup ks, x.id = y.id PROVE x = y
      BY <1>1, <2>3 DEF UniqueIds
    <2> QED
      BY <1>0, <2>1, <2>2, <2>3 DEF UniqueIds
  <1>6. /\ \A p \in ps : \E g \in g2 : g.id = p.group
        /\ \A k \in ks : \E g \in g2 : g.id = k.group /\ g.name = k.peer
    BY <1>0, <1>1
  <1>7. /\ ps \subseteq [name : Clusters, id : Issued(f2), group : Issued(f2)]
        /\ ks \subseteq [peer : Peers, id : Issued(f2), group : Issued(f2)]
    BY <1>1, <1>2
  <1>8. \A n \in Names : IdsNamed(g2, n) = IdsNamed(gs, n)
    BY <1>0 DEF IdsNamed
  <1>9. ServerOK(g2, ps, ks, m2, f2)
    BY <1>0, <1>1, <1>3, <1>4, <1>5, <1>6, <1>7 DEF ServerOK
  <1> QED
    BY <1>0, <1>8, <1>9

Without(gs, m) == {[g EXCEPT !.peers = @ \ {m}] : g \in gs}
Joined(gs, some, m) == {IF g.id \in some THEN [g EXCEPT !.peers = @ \cup {m}] ELSE g : g \in gs}

LEMMA LoggedOut ==
    ASSUME NEW gs, NEW ps, NEW ks, NEW ms, NEW fr, ServerOK(gs, ps, ks, ms, fr), NEW m, NEW g2,
           g2 = Without(gs, m)
    PROVE  /\ ServerOK(g2, ps, ks, ms \ {m}, fr)
           /\ \A n \in Names : IdsNamed(g2, n) = IdsNamed(gs, n)
           /\ \A x \in g2 : \E g \in gs : g.id = x.id /\ g.name = x.name
  <1> DEFINE f == [g \in gs |-> [g EXCEPT !.peers = @ \ {m}]]
             m2 == ms \ {m}
  <1>1. /\ gs \subseteq [name : Names, id : Issued(fr), peers : SUBSET ms]
        /\ ms \subseteq Issued(fr) /\ fr \in Nat
    BY DEF ServerOK
  <1>2. ASSUME NEW g \in gs
        PROVE  /\ f[g] \in [name : Names, id : Issued(fr), peers : SUBSET m2]
               /\ f[g].name = g.name /\ f[g].id = g.id
    <2>1. g \in [name : Names, id : Issued(fr), peers : SUBSET ms]
      BY <1>1
    <2> QED
      BY <2>1
  <1>3. /\ f \in [gs -> [name : Names, id : Issued(fr), peers : SUBSET m2]]
        /\ \A g \in gs : f[g] \in g2
        /\ \A x \in g2 : \E g \in gs : x = f[g]
    BY <1>2 DEF Without
  <1> HIDE DEF f
  <1>4. m2 \in SUBSET Issued(fr) /\ fr <= fr
    BY <1>1
  <1>5. Relabels(f, gs, g2, m2, fr, fr)
    BY <1>1, <1>2, <1>3, <1>4 DEF Relabels
  <1> HIDE DEF m2
  <1>6. /\ ServerOK(g2, ps, ks, m2, fr)
        /\ \A n \in Names : IdsNamed(g2, n) = IdsNamed(gs, n)
        /\ \A x \in g2 : \E g \in gs : g.id = x.id /\ g.name = x.name
    BY <1>5, GroupsRelabelled
  <1> QED
    BY <1>6 DEF m2

LEMMA LoggedIn ==
    ASSUME NEW gs, NEW ps, NEW ks, NEW ms, NEW fr, ServerOK(gs, ps, ks, ms, fr), NEW some, NEW g2,
           g2 = Joined(gs, some, fr)
    PROVE  /\ ServerOK(g2, ps, ks, ms \cup {fr}, fr + 1)
           /\ \A n \in Names : IdsNamed(g2, n) = IdsNamed(gs, n)
           /\ \A x \in g2 : \E g \in gs : g.id = x.id /\ g.name = x.name
  <1> DEFINE f == [g \in gs |-> IF g.id \in some THEN [g EXCEPT !.peers = @ \cup {fr}] ELSE g]
             m2 == ms \cup {fr}
             f2 == fr + 1
  <1>1. /\ gs \subseteq [name : Names, id : Issued(fr), peers : SUBSET ms]
        /\ ms \subseteq Issued(fr) /\ fr \in Nat \ {0}
    BY DEF ServerOK
  <1>2. ASSUME NEW g \in gs
        PROVE  /\ f[g] \in [name : Names, id : Issued(fr), peers : SUBSET m2]
               /\ f[g].name = g.name /\ f[g].id = g.id
    <2>1. g \in [name : Names, id : Issued(fr), peers : SUBSET ms]
      BY <1>1
    <2> QED
      BY <2>1
  <1>3. /\ f \in [gs -> [name : Names, id : Issued(fr), peers : SUBSET m2]]
        /\ \A g \in gs : f[g] \in g2
        /\ \A x \in g2 : \E g \in gs : x = f[g]
    BY <1>2 DEF Joined
  <1> HIDE DEF f
  <1>4. f2 \in Nat /\ fr <= f2 /\ m2 \in SUBSET Issued(f2)
    BY <1>1 DEF Issued
  <1>5. Relabels(f, gs, g2, m2, fr, f2)
    BY <1>1, <1>2, <1>3, <1>4 DEF Relabels
  <1> HIDE DEF m2, f2
  <1>6. /\ ServerOK(g2, ps, ks, m2, f2)
        /\ \A n \in Names : IdsNamed(g2, n) = IdsNamed(gs, n)
        /\ \A x \in g2 : \E g \in gs : g.id = x.id /\ g.name = x.name
    BY <1>5, GroupsRelabelled
  <1> QED
    BY <1>6 DEF m2, f2

WithoutId(set, i) == {x \in set : x.id # i}

Unneeded(i, ps, ks) == (\A p \in ps : p.group # i) /\ \A k \in ks : k.group # i

LEMMA GroupRemoved ==
    ASSUME NEW gs, NEW ps, NEW ks, NEW ms, NEW fr, ServerOK(gs, ps, ks, ms, fr), NEW i,
           Unneeded(i, ps, ks)
    PROVE  /\ ServerOK(WithoutId(gs, i), ps, ks, ms, fr)
           /\ \A n \in Names : IdsNamed(WithoutId(gs, i), n) = IdsNamed(gs, n) \ {i}
  <1> DEFINE g2 == WithoutId(gs, i)
  <1> USE DEF WithoutId, Unneeded
  <1>1. g2 \subseteq gs
    OBVIOUS
  <1>2. IsFiniteSet(g2)
    BY <1>1, FS_Subset DEF ServerOK
  <1>3. UniqueIds(g2 \cup ps \cup ks)
    <2>1. g2 \cup ps \cup ks \subseteq gs \cup ps \cup ks
      BY <1>1
    <2> QED
      BY <2>1, UniqueInSubset DEF ServerOK
  <1>4. \A n \in Names : IdsNamed(g2, n) = IdsNamed(gs, n) \ {i}
    BY DEF IdsNamed
  <1>5. /\ \A p \in ps : \E g \in g2 : g.id = p.group
        /\ \A k \in ks : \E g \in g2 : g.id = k.group /\ g.name = k.peer
    BY DEF ServerOK
  <1> HIDE DEF g2
  <1>6. ServerOK(g2, ps, ks, ms, fr)
    BY <1>1, <1>2, <1>3, <1>5 DEF ServerOK
  <1> QED
    BY <1>4, <1>6 DEF g2

LEMMA PolicyOrKeyRemoved ==
    ASSUME NEW gs, NEW ps, NEW ks, NEW ms, NEW fr, ServerOK(gs, ps, ks, ms, fr),
           NEW p2 \in SUBSET ps, NEW k2 \in SUBSET ks
    PROVE  ServerOK(gs, p2, k2, ms, fr)
  <1>1. IsFiniteSet(p2)
    BY FS_Subset DEF ServerOK
  <1>2. UniqueIds(gs \cup p2 \cup k2)
    <2>1. gs \cup p2 \cup k2 \subseteq gs \cup ps \cup ks
      OBVIOUS
    <2> QED
      BY <2>1, UniqueInSubset DEF ServerOK
  <1> QED
    BY <1>1, <1>2 DEF ServerOK

-----------------------------------------------------------------------------
(* A call at work leaves the other calls and the other names as they are.  *)

LEMMA TargetsKept ==
    ASSUME NEW r \in Call, NEW gs, NEW ps, NEW cs, NEW fr \in Nat,
           NEW g2, NEW p2, NEW c2, NEW f2 \in Nat, fr <= f2,
           TargetsOK(r, gs, ps, cs, fr),
           OnlyFresh(gs, g2, fr), OnlyFresh(ps, p2, fr), OnlyFreshClients(cs, c2, fr),
           g2 \subseteq [name : Names, id : Issued(f2), peers : SUBSET Issued(f2)],
           p2 \subseteq [name : Clusters, id : Issued(f2), group : Issued(f2)],
           c2 \subseteq [peer : Peers, id : Issued(f2)]
    PROVE  TargetsOK(r, g2, p2, c2, f2)
  <1>1. r.got \in Nat /\ r.got < fr /\ r.seen \subseteq Nat /\ \A i \in r.seen : i < fr
    BY DEF TargetsOK, Call
  <1>2. r.got < f2
    BY <1>1
  <1>3. \A i \in r.seen : i < f2
    BY <1>1
  <1>4. ASSUME r.pc = "deleteGroup", NEW g \in g2, g.id = r.got PROVE g.name = r.on
    <2>1. ~ (g.id >= fr)
      BY <1>1, <1>4
    <2>2. PICK y \in gs : y.id = g.id /\ y.name = g.name
      BY <2>1 DEF OnlyFresh
    <2> QED
      BY <1>4, <2>2 DEF TargetsOK
  <1>5. ASSUME r.pc = "deletePolicy", NEW p \in p2, p.id = r.got PROVE p.name = r.on
    <2>1. ~ (p.id >= fr)
      BY <1>1, <1>5
    <2>2. PICK y \in ps : y.id = p.id /\ y.name = p.name
      BY <2>1 DEF OnlyFresh
    <2> QED
      BY <1>5, <2>2 DEF TargetsOK
  <1>6. ASSUME r.pc = "deleteClients", NEW x \in c2, x.id \in r.seen PROVE x.peer = r.on
    <2>1. ~ (x.id >= fr)
      <3>1. x.id \in Nat /\ x.id < fr
        BY <1>1, <1>6
      <3> QED
        BY <3>1
    <2>2. PICK y \in cs : y.id = x.id /\ y.peer = x.peer
      BY <2>1 DEF OnlyFreshClients
    <2> QED
      BY <1>6, <2>2 DEF TargetsOK
  <1> QED
    BY <1>2, <1>3, <1>4, <1>5, <1>6 DEF TargetsOK

LEMMA NamesApart ==
    /\ Peers \cap Clusters = {} /\ NoName \notin Peers /\ NoName \notin Clusters
    /\ Names = Peers \cup Clusters /\ MaxFaults \in Nat /\ Members \in [Clusters -> SUBSET Peers]
  BY NetbirdAssumption DEF Names

\* A call s that another call r on another name leaves as it is: G, P, K and C
\* stay what they were, and so does what is known of the name of s.
LEMMA CallKept ==
    ASSUME NEW s, NEW G, NEW P, NEW K, NEW C, NEW D, NEW E, NEW U, NEW O,
           CallOK(s, G, P, K, C, D, E, U, O),
           NEW G2, NEW P2, NEW K2, NEW C2, NEW D2, NEW E2, NEW U2, NEW O2,
           s.on \in Names => G2 = G /\ P2 = P,
           s.on \in Peers => K2 = K /\ C2 = C,
           s.on \in D => s.on \in D2, s.on \in D2 => s.on \in D,
           s.on \in E => s.on \in E2, s.on \in U => s.on \in U2, s.on \in O => s.on \in O2,
           D \subseteq Peers
    PROVE  CallOK(s, G2, P2, K2, C2, D2, E2, U2, O2)
  <1>1. s.op = "store" => StoreOK(s, G2, D2, U2)
    BY NamesApart DEF CallOK, StoreOK
  <1>2. s.op = "delete" => DeleteOK(s, G2, K2, C2, D2)
    BY NamesApart DEF CallOK, DeleteOK
  <1>3. s.op = "generate" => GenerateOK(s, K2, D2)
    BY NamesApart DEF CallOK, GenerateOK
  <1>4. s.op = "deploy" => DeployOK(s, E2, O2)
    BY NamesApart DEF CallOK, DeployOK
  <1>5. s.op = "undeploy" => UndeployOK(s, G2, P2, E2, O2)
    BY NamesApart DEF CallOK, UndeployOK
  <1> QED
    BY <1>1, <1>2, <1>3, <1>4, <1>5 DEF CallOK

\* Of the calls on the same name: generates side by side, and a deployment
\* that is overtaken.
LEMMA SameNameKept ==
    ASSUME NEW r \in Call, NEW s \in Call, r.on = s.on, r.op # "idle", r.pc # "waiting",
           NEW G, NEW P, NEW K, NEW C, NEW D, NEW E, NEW U, NEW O,
           D \subseteq Peers,
           CallOK(r, G, P, K, C, D, E, U, O), CallOK(s, G, P, K, C, D, E, U, O),
           Exclusive(r, s, O), Exclusive(s, r, O),
           NEW G2, NEW P2, NEW K2, NEW C2, NEW U2,
           r.op = "generate" => K \subseteq K2
    PROVE  CallOK(s, G2, P2, K2, C2, D, E, U2, O)
  <1>1. CASE s.op \in {"store", "delete"}
    <2>1. s.pc # "waiting" /\ s.on \in Peers
      BY <1>1 DEF CallOK, StoreOK, DeleteOK
    <2>2. IsWriting(s)
      BY <1>1, <2>1 DEF IsWriting
    <2>3. ~ IsWriting(r) /\ r.op # "generate"
      BY <2>2 DEF Exclusive
    <2>4. r.op \in {"deploy", "undeploy"}
      BY <2>3 DEF IsWriting, Call
    <2>5. r.on \in Clusters
      BY <2>4 DEF CallOK, DeployOK, UndeployOK
    <2> QED
      BY <2>1, <2>5, NamesApart
  <1>2. CASE s.op = "generate"
    <2>1. s.on \in Peers
      BY <1>2 DEF CallOK, GenerateOK
    <2>2. r.op \notin {"deploy", "undeploy"}
      BY <2>1, NamesApart DEF CallOK, DeployOK, UndeployOK
    <2>3. r.op = "generate"
      BY <1>2, <2>2 DEF Exclusive, IsWriting, Call
    <2> QED
      BY <1>2, <2>3 DEF CallOK, GenerateOK
  <1>3. CASE s.op = "deploy"
    BY <1>3 DEF CallOK, DeployOK
  <1>4. CASE s.op = "undeploy"
    <2>1. CASE s.pc = "waiting"
      BY <1>4, <2>1 DEF CallOK, UndeployOK
    <2>2. CASE s.pc # "waiting"
      <3>1. IsWriting(s) /\ s.on \in Clusters
        BY <1>4, <2>2 DEF IsWriting, CallOK, UndeployOK
      <3>2. ~ IsWriting(r) /\ r.op # "generate"
        BY <3>1 DEF Exclusive
      <3>3. r.op = "deploy"
        BY <3>2 DEF IsWriting, Call
      <3>4. s.on \in O
        BY <1>4, <3>1, <3>3 DEF Exclusive
      <3> QED
        BY <1>4, <3>4 DEF CallOK, UndeployOK
    <2> QED
      BY <2>1, <2>2
  <1>5. CASE s.op = "idle"
    BY <1>5 DEF CallOK
  <1> QED
    BY <1>1, <1>2, <1>3, <1>4, <1>5 DEF Call

\* Everything a working call must see to for the rest of the system to stay as
\* it should be.
Works(c, r, r2) ==
    /\ r = calls[c] /\ calls' = [calls EXCEPT ![c] = r2]
    /\ r2 \in Call /\ r2.op = r.op /\ r2.on = r.on
    /\ r.op # "idle" /\ r.pc \notin {"waiting", "commit", "failed"} /\ r2.pc # "waiting"
    /\ UNCHANGED <<descriptors, deployments, overtaken, last>>
    /\ unclean \subseteq unclean' /\ unclean' \subseteq unclean \cup {r.on}

OthersKept(n, op) ==
    /\ \A m \in Names \ {n} : /\ IdsNamed(groups', m) = IdsNamed(groups, m)
                              /\ IdsNamed(policies', m) = IdsNamed(policies, m)
    /\ \A p \in Peers \ {n} : /\ IdsOf(keys', p) = IdsOf(keys, p)
                              /\ IdsOf(clients', p) = IdsOf(clients, p)
    /\ op \in {"store", "delete"} => IdsOf(keys', n) \subseteq IdsOf(keys, n)
    /\ op \notin {"store", "delete"} => IdsOf(keys, n) \subseteq IdsOf(keys', n)
    /\ op \notin {"delete", "generate"} => IdsOf(clients', n) = IdsOf(clients, n)
    /\ fresh <= fresh'
    /\ OnlyFresh(groups, groups', fresh) /\ OnlyFresh(policies, policies', fresh)
    /\ OnlyFreshClients(clients, clients', fresh)

\* What is known of call r in the present state, and in the next one.
Fits(r) ==
    /\ CallOK(r, IdsNamed(groups, r.on), IdsNamed(policies, r.on), IdsOf(keys, r.on),
              IdsOf(clients, r.on), descriptors, deployments, unclean, overtaken)
    /\ TargetsOK(r, groups, policies, clients, fresh)
FitsNext(r) ==
    /\ CallOK(r, IdsNamed(groups', r.on), IdsNamed(policies', r.on), IdsOf(keys', r.on),
              IdsOf(clients', r.on), descriptors', deployments', unclean', overtaken')
    /\ TargetsOK(r, groups', policies', clients', fresh')

LEMMA CallsInvAsFits == CallsInv <=> \A c \in Calls : Fits(calls[c])
  BY DEF CallsInv, Fits

LEMMA CallsInvNext ==
    ASSUME \A c \in Calls : FitsNext(calls'[c])
    PROVE  CallsInv'
  BY DEF CallsInv, FitsNext

LEMMA Serving ==
    ASSUME IInv, NEW c \in Calls
    PROVE  /\ calls[c] \in Call /\ Fits(calls[c])
           /\ calls[c].op # "idle" => calls[c].on \in Names
           /\ fresh \in Nat /\ DOMAIN calls = Calls
           /\ descriptors \subseteq Peers
  <1>1. calls[c] \in Call /\ fresh \in Nat /\ DOMAIN calls = Calls /\ descriptors \subseteq Peers
    BY DEF IInv, DataInv, ServerOK
  <1>2. Fits(calls[c])
    BY CallsInvAsFits DEF IInv
  <1>3. calls[c].op # "idle" => calls[c].on \in Names
    BY <1>1, <1>2, NamesApart
    DEF Fits, CallOK, StoreOK, DeleteOK, GenerateOK, DeployOK, UndeployOK, Call
  <1> QED
    BY <1>1, <1>2, <1>3

LEMMA WorkStep ==
    ASSUME IInv, DataInv', NEW c \in Calls, NEW r, NEW r2, Works(c, r, r2),
           OthersKept(r.on, r.op), FitsNext(r2)
    PROVE  IInv'
  <1>1. /\ r = calls[c] /\ r2 \in Call /\ r \in Call /\ r2.op = r.op /\ r2.on = r.on
        /\ r.op # "idle" /\ r.pc \notin {"waiting", "commit", "failed"} /\ r2.pc # "waiting"
        /\ UNCHANGED <<descriptors, deployments, overtaken, last>>
        /\ unclean \subseteq unclean' /\ unclean' \subseteq unclean \cup {r.on}
        /\ Fits(r) /\ r.on \in Names
    BY Serving DEF Works
  <1>2. /\ DOMAIN calls' = Calls /\ calls'[c] = r2
        /\ \A d \in Calls \ {c} : calls'[d] = calls[d]
        /\ \A d \in Calls : calls'[d].op = calls[d].op /\ calls'[d].on = calls[d].on
    BY <1>1, Serving DEF Works
  <1>3. /\ fresh \in Nat /\ fresh' \in Nat /\ fresh <= fresh'
        /\ descriptors \subseteq Peers
        /\ groups' \subseteq [name : Names, id : Issued(fresh'), peers : SUBSET Issued(fresh')]
        /\ policies' \subseteq [name : Clusters, id : Issued(fresh'), group : Issued(fresh')]
        /\ clients' \subseteq [peer : Peers, id : Issued(fresh')]
    BY DEF IInv, DataInv, ServerOK, ClientsOK, OthersKept
  <1>4. ASSUME NEW d \in Calls PROVE FitsNext(calls'[d])
    <2>1. CASE d = c
      BY <1>2, <2>1
    <2>2. CASE d # c
      <3> DEFINE s == calls[d]
      <3>1. s \in Call /\ Fits(s) /\ calls'[d] = s
        BY <1>2, <2>2, Serving
      <3>2. TargetsOK(s, groups', policies', clients', fresh')
        BY <1>3, <3>1, TargetsKept DEF Fits, OthersKept
      <3>3. CallOK(s, IdsNamed(groups', s.on), IdsNamed(policies', s.on), IdsOf(keys', s.on),
                   IdsOf(clients', s.on), descriptors, deployments, unclean', overtaken)
        <4>1. CASE s.on = r.on
          <5>1. Exclusive(r, s, overtaken) /\ Exclusive(s, r, overtaken)
            BY <1>1, <2>2 DEF IInv, LocksInv
          <5>2. r.op = "generate" => IdsOf(keys, s.on) \subseteq IdsOf(keys', s.on)
            BY <4>1 DEF OthersKept
          <5> HIDE DEF s
          <5> QED
            BY <1>1, <1>3, <3>1, <4>1, <5>1, <5>2, SameNameKept DEF Fits
        <4>2. CASE s.on # r.on
          <5>1. /\ s.on \in Names => IdsNamed(groups', s.on) = IdsNamed(groups, s.on)
                                     /\ IdsNamed(policies', s.on) = IdsNamed(policies, s.on)
                /\ s.on \in Peers => IdsOf(keys', s.on) = IdsOf(keys, s.on)
                                     /\ IdsOf(clients', s.on) = IdsOf(clients, s.on)
            BY <4>2 DEF OthersKept
          <5>2. s.on \in unclean => s.on \in unclean'
            BY <1>1
          <5> HIDE DEF s
          <5> QED
            BY <1>3, <3>1, <5>1, <5>2, CallKept DEF Fits
        <4> QED
          BY <4>1, <4>2
      <3> QED
        BY <1>1, <3>1, <3>2, <3>3 DEF FitsNext
    <2> QED
      BY <2>1, <2>2
  <1>5. CallsInv'
    BY <1>4, CallsInvNext
  <1>6. \A n : OpsOn(n)' = OpsOn(n)
    BY <1>2 DEF OpsOn
  <1>7. r.op \in OpsOn(r.on)
    BY <1>1 DEF OpsOn
  <1>8. ASSUME NEW p \in Peers
        PROVE  PeerOK(p, IdsNamed(groups', p), IdsOf(keys', p), IdsOf(clients', p), descriptors,
                      unclean', last[p], OpsOn(p))
    <2>1. PeerOK(p, IdsNamed(groups, p), IdsOf(keys, p), IdsOf(clients, p), descriptors,
                 unclean, last[p], OpsOn(p))
      BY DEF IInv, NamesInv
    <2>2. CASE p # r.on
      <3>1. /\ IdsNamed(groups', p) = IdsNamed(groups, p) /\ IdsOf(keys', p) = IdsOf(keys, p)
            /\ IdsOf(clients', p) = IdsOf(clients, p)
        BY <2>2, NamesApart DEF OthersKept
      <3>2. p \in unclean => p \in unclean'
        BY <1>1
      <3> QED
        BY <2>1, <3>1, <3>2 DEF PeerOK
    <2>3. CASE p = r.on
      <3>1. r.op \in {"store", "delete", "generate"}
        BY <1>1, <2>3, NamesApart DEF Fits, CallOK, DeployOK, UndeployOK, Call
      <3>2. CASE r.op = "store"
        <4>1. p \notin descriptors
          BY <1>1, <2>3, <3>2 DEF Fits, CallOK, StoreOK
        <4>2. /\ IdsOf(keys', p) \subseteq IdsOf(keys, p)
              /\ IdsOf(clients', p) = IdsOf(clients, p)
          BY <2>3, <3>2 DEF OthersKept
        <4> QED
          BY <1>7, <2>1, <2>3, <4>1, <4>2 DEF PeerOK
      <3>3. CASE r.op = "delete"
        <4>1. p \in descriptors /\ last[p] = NoSetup
          BY <1>1, <2>3, <3>3 DEF Fits, CallOK, DeleteOK, IInv, NamesInv
        <4> QED
          BY <4>1 DEF PeerOK
      <3>4. CASE r.op = "generate"
        <4>1. p \in descriptors
          BY <1>1, <2>3, <3>4 DEF Fits, CallOK, GenerateOK
        <4>2. IdsOf(keys, p) \subseteq IdsOf(keys', p) /\ "generate" \in OpsOn(p)
          BY <1>7, <2>3, <3>4 DEF OthersKept
        <4> QED
          BY <2>1, <4>1, <4>2 DEF PeerOK
      <3> QED
        BY <3>1, <3>2, <3>3, <3>4
    <2> QED
      BY <2>2, <2>3
  <1>9. ASSUME NEW k \in Clusters
        PROVE  ClusterOK(k, IdsNamed(groups', k), IdsNamed(policies', k), deployments, overtaken)
    <2>1. ClusterOK(k, IdsNamed(groups, k), IdsNamed(policies, k), deployments, overtaken)
      BY DEF IInv, NamesInv
    <2>2. CASE k # r.on
      <3>1. /\ IdsNamed(groups', k) = IdsNamed(groups, k)
            /\ IdsNamed(policies', k) = IdsNamed(policies, k)
        BY <2>2, NamesApart DEF OthersKept
      <3> QED
        BY <2>1, <3>1
    <2>3. CASE k = r.on
      <3>1. r.op \in {"deploy", "undeploy"}
        BY <1>1, <1>3, <2>3, NamesApart DEF Fits, CallOK, StoreOK, DeleteOK, GenerateOK, Call
      <3>2. k \in deployments \cup overtaken
        BY <1>1, <2>3, <3>1 DEF Fits, CallOK, DeployOK, UndeployOK
      <3> QED
        BY <3>2 DEF ClusterOK
    <2> QED
      BY <2>2, <2>3
  <1>10. NamesInv'
    <2>1. \A p \in Peers :
             PeerOK(p, IdsNamed(groups', p), IdsOf(keys', p), IdsOf(clients', p), descriptors',
                    unclean', last'[p], OpsOn(p)')
      BY <1>1, <1>6, <1>8
    <2>2. \A k \in Clusters :
             ClusterOK(k, IdsNamed(groups', k), IdsNamed(policies', k), deployments', overtaken')
      BY <1>1, <1>9
    <2>3. \A d \in Calls : calls'[d].op = "delete" => last'[calls'[d].on] = NoSetup
      BY <1>1, <1>2 DEF IInv, NamesInv
    <2> QED
      BY <2>1, <2>2, <2>3 DEF NamesInv
  <1>11. LocksInv'
    <2>1. ASSUME NEW d \in Calls, NEW e \in Calls, d # e
          PROVE  Exclusive(calls'[d], calls'[e], overtaken')
      <3>1. Exclusive(calls[d], calls[e], overtaken)
        BY <2>1 DEF IInv, LocksInv
      <3>2. IsWriting(calls'[d]) = IsWriting(calls[d]) /\ IsWriting(calls'[e]) = IsWriting(calls[e])
        BY <1>1, <1>2 DEF IsWriting
      <3> QED
        BY <1>1, <1>2, <3>1, <3>2 DEF Exclusive
    <2> QED
      BY <2>1 DEF LocksInv
  <1> QED
    BY <1>5, <1>10, <1>11 DEF IInv

-----------------------------------------------------------------------------
(* Requests.                                                               *)

LEMMA OutcomePaid ==
    ASSUME faults \in 0 .. MaxFaults, NEW bad, NEW o \in Outcomes(bad), Charge(o)
    PROVE  faults' \in 0 .. MaxFaults
  <1>1. faults \in Nat /\ faults <= MaxFaults /\ MaxFaults \in Nat
    BY NamesApart
  <1>2. CASE o = "ok"
    BY <1>1, <1>2 DEF Charge
  <1>3. CASE o # "ok"
    <2>1. faults < MaxFaults
      BY <1>3 DEF Outcomes
    <2> QED
      BY <1>1, <1>3, <2>1 DEF Charge
  <1> QED
    BY <1>2, <1>3

LEMMA HowManyPosted ==
    ASSUME NEW o \in PostOutcomes
    PROVE  /\ Posted(o) \in 0 .. 2 /\ (o = "refused" <=> Posted(o) = 0)
           /\ (o = "repeated" <=> Posted(o) = 2)
           /\ o \in {"ok", "refused", "lost", "repeated"}
  <1>1. o \in {"ok", "refused", "lost", "repeated"}
    BY DEF PostOutcomes, Outcomes
  <1> QED
    BY <1>1 DEF Posted

\* The rest of DataInv, for a call that works.
LEMMA WorkData ==
    ASSUME IInv, NEW c \in Calls, NEW r, NEW r2, Works(c, r, r2),
           ServerOK(groups', policies', keys', machines', fresh'), ClientsOK(clients', fresh'),
           faults' \in 0 .. MaxFaults, fresh <= fresh', UNCHANGED <<handed, hosts>>
    PROVE  DataInv'
  <1>1. /\ fresh \in Nat /\ fresh' \in Nat /\ calls \in [Calls -> Call]
        /\ \A h \in Hosts : hosts[h].vpn \in 0 .. fresh - 1
    BY DEF IInv, DataInv, ServerOK
  <1>2. \A h \in Hosts : hosts'[h].vpn \in 0 .. fresh' - 1
    BY <1>1
  <1>3. calls' \in [Calls -> Call]
    BY <1>1 DEF Works
  <1>4. UNCHANGED <<descriptors, deployments, last>>
    BY DEF Works
  <1> QED
    BY <1>2, <1>3, <1>4 DEF IInv, DataInv

LEMMA QuietStep ==
    ASSUME IInv, NEW c \in Calls, NEW r, NEW r2, Works(c, r, r2), Fits(r2),
           UNCHANGED <<serverVars, clients, unclean, handed, hosts>>, faults' \in 0 .. MaxFaults
    PROVE  IInv'
  <1>1. UNCHANGED <<groups, policies, keys, machines, fresh, clients, unclean, handed, hosts,
                    descriptors, deployments, overtaken>>
    BY DEF serverVars, Works
  <1>2. fresh \in Nat
    BY Serving
  <1>3. OthersKept(r.on, r.op)
    BY <1>1, <1>2 DEF OthersKept, OnlyFresh, OnlyFreshClients
  <1>4. FitsNext(r2)
    BY <1>1 DEF Fits, FitsNext
  <1>5. ServerOK(groups', policies', keys', machines', fresh') /\ ClientsOK(clients', fresh')
    BY <1>1 DEF IInv, DataInv
  <1>6. DataInv'
    BY <1>1, <1>2, <1>5, WorkData
  <1> QED
    BY <1>3, <1>4, <1>6, WorkStep

\* A call fails at any request.
LEMMA FailedFits ==
    ASSUME NEW r \in Call, r.op # "idle", r.pc # "commit",
           NEW G, NEW P, NEW K, NEW C, NEW D, NEW E, NEW U, NEW O,
           CallOK(r, G, P, K, C, D, E, U, O),
           NEW G2, NEW P2, NEW K2, NEW C2, NEW U2,
           r.op = "store" => r.todo # {} \/ r.on \in U2 \/ G2 = {}
    PROVE  CallOK([r EXCEPT !.pc = "failed"], G2, P2, K2, C2, D, E, U2, O)
  <1> DEFINE s == [r EXCEPT !.pc = "failed"]
  <1>1. /\ s.op = r.op /\ s.on = r.on /\ s.pc = "failed" /\ s.todo = r.todo
    BY DEF Call
  <1> HIDE DEF s
  <1>2. s.op = "store" => StoreOK(s, G2, D, U2)
    BY <1>1 DEF CallOK, StoreOK
  <1>3. s.op = "delete" => DeleteOK(s, G2, K2, C2, D)
    BY <1>1 DEF CallOK, DeleteOK
  <1>4. s.op = "generate" => GenerateOK(s, K2, D)
    BY <1>1 DEF CallOK, GenerateOK
  <1>5. s.op = "deploy" => DeployOK(s, E, O)
    BY <1>1 DEF CallOK, DeployOK
  <1>6. s.op = "undeploy" => UndeployOK(s, G2, P2, E, O)
    BY <1>1 DEF CallOK, UndeployOK
  <1> QED
    BY <1>1, <1>2, <1>3, <1>4, <1>5, <1>6 DEF CallOK, s

LEMMA NoTarget ==
    ASSUME NEW r, NEW s, NEW gs, NEW ps, NEW cs, NEW fr, TargetsOK(r, gs, ps, cs, fr),
           s.got = r.got, s.seen = r.seen,
           s.pc \notin {"deleteGroup", "deletePolicy", "deleteClients"}, NEW g2, NEW p2, NEW c2
    PROVE  TargetsOK(s, g2, p2, c2, fr)
  BY DEF TargetsOK

LEMMA FailQuietly ==
    ASSUME IInv, NEW c \in Calls, calls[c].op # "idle",
           calls[c].pc \notin {"waiting", "commit", "failed"},
           calls[c].op = "store" =>
              calls[c].todo # {} \/ calls[c].on \in unclean \/ IdsNamed(groups, calls[c].on) = {},
           Goto(c, "failed"), faults' \in 0 .. MaxFaults,
           UNCHANGED <<serverVars, unclean, clients, handed, hosts, descriptors, deployments,
                       overtaken, last>>
    PROVE  IInv'
  <1> DEFINE r == calls[c]
             r2 == [r EXCEPT !.pc = "failed"]
  <1>1. r \in Call /\ Fits(r)
    BY Serving
  <1>2. /\ r2 \in Call /\ r2.op = r.op /\ r2.on = r.on /\ r2.pc = "failed"
        /\ r2.seen = r.seen /\ r2.got = r.got
    BY <1>1 DEF Call
  <1>3. calls' = [calls EXCEPT ![c] = r2]
    BY DEF Goto
  <1>4. CallOK(r2, IdsNamed(groups, r.on), IdsNamed(policies, r.on), IdsOf(keys, r.on),
               IdsOf(clients, r.on), descriptors, deployments, unclean, overtaken)
    BY <1>1, FailedFits DEF Fits
  <1> HIDE DEF r2
  <1>5. TargetsOK(r2, groups, policies, clients, fresh)
    BY <1>1, <1>2, NoTarget DEF Fits
  <1>6. Works(c, r, r2)
    BY <1>2, <1>3 DEF Works
  <1>7. Fits(r2)
    BY <1>2, <1>4, <1>5 DEF Fits
  <1> HIDE DEF r
  <1> QED
    BY <1>6, <1>7, QuietStep

LEMMA Looked ==
    ASSUME NEW set, IsFiniteSet(set), NEW n
    PROVE  /\ Cardinality(Named(set, n)) = 1 => \E g \in set : Named(set, n) = {g} /\ g.name = n
           /\ ~ (Cardinality(Named(set, n)) > 1) =>
                Named(set, n) = {} \/ \E g \in set : Named(set, n) = {g} /\ g.name = n
           /\ \A g : Named(set, n) = {g} => IdsNamed(set, n) = {g.id}
           /\ Named(set, n) = {} <=> IdsNamed(set, n) = {}
  <1> DEFINE found == Named(set, n)
  <1>1. IsFiniteSet(found)
    <2>1. found \subseteq set
      BY DEF Named
    <2> QED
      BY <2>1, FS_Subset
  <1>2. Cardinality(found) \in Nat
    BY <1>1, FS_CardinalityType
  <1>3. ASSUME Cardinality(found) = 1
        PROVE  \E g \in set : found = {g} /\ g.name = n
    <2>1. PICK g : found = {g}
      BY <1>1, <1>3, FS_Singleton
    <2> QED
      BY <2>1 DEF Named
  <1>4. Cardinality(found) = 0 => found = {}
    BY <1>1, FS_EmptySet
  <1>5. ~ (Cardinality(found) > 1) => Cardinality(found) = 0 \/ Cardinality(found) = 1
    BY <1>2
  <1>6. /\ \A g : found = {g} => IdsNamed(set, n) = {g.id}
        /\ found = {} <=> IdsNamed(set, n) = {}
    BY DEF Named, IdsNamed
  <1> QED
    BY <1>3, <1>4, <1>5, <1>6

\* What IInv says of the data.
LEMMA DataHere ==
    ASSUME IInv
    PROVE  /\ ServerOK(groups, policies, keys, machines, fresh) /\ ClientsOK(clients, fresh)
           /\ faults \in 0 .. MaxFaults /\ calls \in [Calls -> Call] /\ fresh \in Nat \ {0}
           /\ groups \subseteq [name : Names, id : Issued(fresh), peers : SUBSET machines]
           /\ policies \subseteq [name : Clusters, id : Issued(fresh), group : Issued(fresh)]
           /\ keys \subseteq [peer : Peers, id : Issued(fresh), group : Issued(fresh)]
           /\ clients \subseteq [peer : Peers, id : Issued(fresh)]
           /\ machines \subseteq Issued(fresh) /\ IsFiniteSet(groups) /\ IsFiniteSet(policies)
           /\ UniqueIds(groups \cup policies \cup keys) /\ UniqueIds(clients)
           /\ descriptors \subseteq Peers /\ deployments \subseteq Clusters
           /\ \A i \in Issued(fresh) : i \in Nat /\ i < fresh
  BY DEF IInv, DataInv, ServerOK, ClientsOK, Issued

LEMMA InsertDescriptorStep ==
    ASSUME IInv, NEW c \in Calls, InsertDescriptor(c)
    PROVE  IInv'
  <1> DEFINE r == calls[c]
  <1>1. r \in Call /\ Fits(r) /\ r.op = "store" /\ r.pc = "insert"
        /\ UNCHANGED <<serverVars, unclean, prVars>>
    BY Serving DEF InsertDescriptor, At
  <1>2. PICK o \in ReadOutcomes :
           /\ Charge(o)
           /\ calls' = [calls EXCEPT ![c].pc = IF o = "ok" THEN "commit" ELSE "deletePeer",
                                     ![c].todo = IF o = "ok" THEN {} ELSE {calls[c].on}]
    BY DEF InsertDescriptor
  <1>3. faults' \in 0 .. MaxFaults
    BY <1>2, DataHere, OutcomePaid DEF ReadOutcomes
  <1> DEFINE pc == IF o = "ok" THEN "commit" ELSE "deletePeer"
             todo == IF o = "ok" THEN {} ELSE {r.on}
             r2 == [r EXCEPT !.pc = pc, !.todo = todo]
  <1>4. calls' = [calls EXCEPT ![c] = r2]
    BY <1>2
  <1>5. r.on \in Peers /\ r.on \notin descriptors
    BY <1>1 DEF Fits, CallOK, StoreOK
  <1>6. /\ pc \in {"commit", "deletePeer"} /\ todo \in SUBSET Names
        /\ pc = "deletePeer" => todo # {}
    BY <1>5, NamesApart
  <1> HIDE DEF pc, todo
  <1>7. /\ r2 \in Call /\ r2.op = r.op /\ r2.on = r.on /\ r2.pc = pc /\ r2.todo = todo
        /\ r2.seen = r.seen /\ r2.got = r.got
    BY <1>1, <1>6 DEF Call
  <1> HIDE DEF r2
  <1>8. CallOK(r2, IdsNamed(groups, r.on), IdsNamed(policies, r.on), IdsOf(keys, r.on),
               IdsOf(clients, r.on), descriptors, deployments, unclean, overtaken)
    BY <1>1, <1>5, <1>6, <1>7 DEF CallOK, StoreOK
  <1>9. TargetsOK(r2, groups, policies, clients, fresh)
    BY <1>1, <1>6, <1>7, NoTarget DEF Fits
  <1>10. Works(c, r, r2)
    BY <1>1, <1>4, <1>6, <1>7 DEF Works, prVars
  <1>11. Fits(r2)
    BY <1>7, <1>8, <1>9 DEF Fits
  <1> HIDE DEF r
  <1> QED
    BY <1>1, <1>3, <1>10, <1>11, QuietStep DEF prVars

LEMMA ListClientsStep ==
    ASSUME IInv, NEW c \in Calls, ListClients(c)
    PROVE  IInv'
  <1> DEFINE r == calls[c]
             ids == {x.id : x \in {y \in clients : y.peer = r.on}}
             r2 == [r EXCEPT !.pc = "deleteClients", !.seen = ids, !.got = r.got]
  <1>1. /\ r \in Call /\ Fits(r)
        /\ (r.op = "delete" /\ r.pc = "listClients") \/ (r.op = "generate" /\ r.pc = "vpnDone")
        /\ UNCHANGED <<serverVars, unclean, clients, handed, hosts, descriptors, deployments,
                       overtaken, last>>
    BY Serving DEF ListClients, At, prVars
  <1>2. PICK o \in ReadOutcomes :
           /\ Charge(o)
           /\ Goto(c, "failed") \/ calls' = [calls EXCEPT ![c] = r2]
    BY DEF ListClients, GotoWith
  <1>3. faults' \in 0 .. MaxFaults
    BY <1>2, DataHere, OutcomePaid DEF ReadOutcomes
  <1>4. CASE Goto(c, "failed")
    BY <1>1, <1>3, <1>4, FailQuietly
  <1>5. CASE calls' = [calls EXCEPT ![c] = r2]
    <2>1. ids \in SUBSET Nat /\ \A i \in ids : i < fresh
      BY DataHere
    <2>2. IdsOf(clients, r.on) = ids
      BY DEF IdsOf
    <2>3. \A x \in clients : x.id \in ids => x.peer = r.on
      BY DataHere DEF UniqueIds
    <2>4. r.got < fresh
      BY <1>1 DEF Fits, TargetsOK
    <2> HIDE DEF ids
    <2>5. /\ r2 \in Call /\ r2.op = r.op /\ r2.on = r.on /\ r2.pc = "deleteClients"
          /\ r2.seen = ids /\ r2.got = r.got /\ r2.key = r.key
      BY <1>1, <2>1 DEF Call
    <2> HIDE DEF r2
    <2>6. CallOK(r2, IdsNamed(groups, r.on), IdsNamed(policies, r.on), IdsOf(keys, r.on),
                 IdsOf(clients, r.on), descriptors, deployments, unclean, overtaken)
      BY <1>1, <2>2, <2>5 DEF Fits, CallOK, DeleteOK, GenerateOK
    <2>7. TargetsOK(r2, groups, policies, clients, fresh)
      BY <2>1, <2>3, <2>4, <2>5 DEF TargetsOK
    <2>8. Works(c, r, r2)
      BY <1>1, <1>5, <2>5 DEF Works
    <2>9. Fits(r2)
      BY <2>5, <2>6, <2>7 DEF Fits
    <2> HIDE DEF r
    <2> QED
      BY <1>1, <1>3, <2>8, <2>9, QuietStep
  <1> QED
    BY <1>2, <1>4, <1>5

\* How a call goes on: r2 is r with another next request and other locals.
Moved(r, r2, pc, seen, got) ==
    /\ r2 \in Call /\ r2.op = r.op /\ r2.on = r.on /\ r2.todo = r.todo /\ r2.key = r.key
    /\ r2.pc = pc /\ r2.seen = seen /\ r2.got = got

Steps == {"createGroup", "insert", "commit", "deletePeer", "logout", "revokeKeys", "deleteGroup",
          "vpnDone", "failed", "listClients", "deleteClients", "getGroup", "makeKey", "register",
          "getPolicy", "deletePolicy", "resolve", "createPolicy"}

\* A call at a request.
AtRequest(r) == r.op # "idle" /\ r.pc \notin {"waiting", "commit", "failed"}

WorkFrame(n) ==
    /\ UNCHANGED <<descriptors, deployments, overtaken, last>>
    /\ unclean \subseteq unclean' /\ unclean' \subseteq unclean \cup {n}

LEMMA GotoWithWorks ==
    ASSUME IInv, NEW c \in Calls, AtRequest(calls[c]), WorkFrame(calls[c].on), NEW pc, pc \in Steps,
           NEW seen \in SUBSET Nat, NEW got \in Nat, GotoWith(c, pc, seen, got)
    PROVE  \E r2 : Works(c, calls[c], r2) /\ Moved(calls[c], r2, pc, seen, got)
  <1> DEFINE r == calls[c]
             r2 == [r EXCEPT !.pc = pc, !.seen = seen, !.got = got]
  <1>1. r \in Call
    BY Serving
  <1>2. calls' = [calls EXCEPT ![c] = r2]
    BY DEF GotoWith
  <1>3. Moved(r, r2, pc, seen, got)
    BY <1>1 DEF Call, Moved, Steps
  <1> HIDE DEF r2
  <1>4. pc # "waiting"
    BY DEF Steps
  <1>5. Works(c, r, r2)
    BY <1>2, <1>3, <1>4 DEF Works, Moved, AtRequest, WorkFrame
  <1> QED
    BY <1>3, <1>5

LEMMA GotoWorks ==
    ASSUME IInv, NEW c \in Calls, AtRequest(calls[c]), WorkFrame(calls[c].on), NEW pc, pc \in Steps,
           Goto(c, pc)
    PROVE  \E r2 : /\ Works(c, calls[c], r2)
                   /\ Moved(calls[c], r2, pc, calls[c].seen, calls[c].got)
  <1> DEFINE r == calls[c]
             r2 == [r EXCEPT !.pc = pc]
  <1>1. r \in Call
    BY Serving
  <1>2. calls' = [calls EXCEPT ![c] = r2]
    BY DEF Goto
  <1>3. Moved(r, r2, pc, r.seen, r.got)
    BY <1>1 DEF Call, Moved, Steps
  <1> HIDE DEF r2
  <1>4. pc # "waiting"
    BY DEF Steps
  <1>5. Works(c, r, r2)
    BY <1>2, <1>3, <1>4 DEF Works, Moved, AtRequest, WorkFrame
  <1> QED
    BY <1>3, <1>5

LEMMA DeletePeerStep ==
    ASSUME IInv, NEW c \in Calls, DeletePeer(c), UNCHANGED prVars
    PROVE  IInv'
  <1> DEFINE r == calls[c]
             found == Named(groups, r.on)
  <1>1. /\ r \in Call /\ Fits(r) /\ r.op \in {"store", "delete"} /\ r.pc = "deletePeer"
        /\ UNCHANGED <<serverVars, unclean, clients, handed, hosts, descriptors, deployments,
                       overtaken, last>>
    BY Serving DEF DeletePeer, At, prVars
  <1>2. WorkFrame(r.on) /\ AtRequest(r)
    BY <1>1 DEF WorkFrame, AtRequest
  <1>3. PICK o \in ReadOutcomes :
           /\ Charge(o)
           /\ IF o # "ok" \/ Cardinality(found) # 1
              THEN Goto(c, "failed")
              ELSE \E g \in found : \/ g.peers = {} /\ GotoWith(c, "revokeKeys", {}, g.id)
                                    \/ \E m \in g.peers : GotoWith(c, "logout", {m}, g.id)
    BY DEF DeletePeer
  <1>4. faults' \in 0 .. MaxFaults
    BY <1>3, DataHere, OutcomePaid DEF ReadOutcomes
  <1>5. r.op = "store" => r.todo # {}
    BY <1>1 DEF Fits, CallOK, StoreOK
  <1>6. CASE Goto(c, "failed")
    BY <1>1, <1>4, <1>5, <1>6, FailQuietly
  <1>7. ASSUME Cardinality(found) = 1, NEW g \in found, NEW pc, pc \in {"revokeKeys", "logout"},
               NEW seen \in SUBSET g.peers, GotoWith(c, pc, seen, g.id)
        PROVE  IInv'
    <2>1. IdsNamed(groups, r.on) = {g.id}
      <3>1. IsFiniteSet(groups) /\ Cardinality(Named(groups, r.on)) = 1 /\ g \in Named(groups, r.on)
        BY <1>7, DataHere
      <3> HIDE DEF r, found
      <3>2. PICK h \in groups : Named(groups, r.on) = {h}
        BY <3>1, Looked
      <3>3. g = h
        BY <3>1, <3>2
      <3> QED
        BY <3>1, <3>2, <3>3, Looked
    <2>2. g \in groups /\ g.id \in Nat /\ g.id < fresh /\ g.peers \subseteq Issued(fresh)
      BY DataHere DEF Named
    <2>3. seen \in SUBSET Nat /\ \A i \in seen : i < fresh
      BY <2>2, DataHere
    <2>4. pc \in Steps
      BY <1>7 DEF Steps
    <2>5. PICK r2 : Works(c, r, r2) /\ Moved(r, r2, pc, seen, g.id)
      BY <1>2, <1>7, <2>2, <2>3, <2>4, GotoWithWorks
    <2>6. CallOK(r2, IdsNamed(groups, r.on), IdsNamed(policies, r.on), IdsOf(keys, r.on),
                 IdsOf(clients, r.on), descriptors, deployments, unclean, overtaken)
      BY <1>1, <1>7, <2>1, <2>5 DEF Moved, Fits, CallOK, StoreOK, DeleteOK
    <2>7. TargetsOK(r2, groups, policies, clients, fresh)
      BY <1>7, <2>2, <2>3, <2>5 DEF TargetsOK, Moved
    <2>8. Fits(r2)
      BY <2>5, <2>6, <2>7 DEF Fits, Moved
    <2> HIDE DEF r
    <2> QED
      BY <1>1, <1>4, <2>5, <2>8, QuietStep
  <1>8. CASE ~ (o # "ok" \/ Cardinality(found) # 1)
    <2>1. PICK g \in found : \/ g.peers = {} /\ GotoWith(c, "revokeKeys", {}, g.id)
                             \/ \E m \in g.peers : GotoWith(c, "logout", {m}, g.id)
      BY <1>3, <1>8
    <2>2. Cardinality(found) = 1
      BY <1>8
    <2> HIDE DEF r, found
    <2>3. CASE g.peers = {} /\ GotoWith(c, "revokeKeys", {}, g.id)
      BY <1>7, <2>2, <2>3
    <2>4. ASSUME NEW m \in g.peers, GotoWith(c, "logout", {m}, g.id)
          PROVE  IInv'
      <3>1. {m} \in SUBSET g.peers
        OBVIOUS
      <3> QED
        BY <1>7, <2>2, <2>4, <3>1
    <2> QED
      BY <2>1, <2>3, <2>4
  <1> QED
    BY <1>3, <1>6, <1>8

LEMMA GenerateVpnPeerConfigurationStep ==
    ASSUME IInv, NEW c \in Calls, GenerateVpnPeerConfiguration(c), UNCHANGED prVars
    PROVE  IInv'
  <1> DEFINE r == calls[c]
             found == Named(groups, r.on)
  <1>1. /\ r \in Call /\ Fits(r) /\ r.op = "generate" /\ r.pc = "getGroup"
        /\ UNCHANGED <<serverVars, unclean, clients, handed, hosts, descriptors, deployments,
                       overtaken, last>>
    BY Serving DEF GenerateVpnPeerConfiguration, At, prVars
  <1>2. WorkFrame(r.on) /\ AtRequest(r)
    BY <1>1 DEF WorkFrame, AtRequest
  <1>3. PICK o \in ReadOutcomes :
           /\ Charge(o)
           /\ \/ Goto(c, "failed")
              \/ GotoWith(c, "createGroup", {}, 0)
              \/ \E g \in found : GotoWith(c, "logout", g.peers, g.id)
    BY DEF GenerateVpnPeerConfiguration
  <1>4. faults' \in 0 .. MaxFaults
    BY <1>3, DataHere, OutcomePaid DEF ReadOutcomes
  <1>5. CASE Goto(c, "failed")
    BY <1>1, <1>4, <1>5, FailQuietly
  <1>6. ASSUME NEW pc, pc \in {"createGroup", "logout"}, NEW seen \in SUBSET Issued(fresh),
               NEW got \in Nat, got < fresh, GotoWith(c, pc, seen, got)
        PROVE  IInv'
    <2>1. seen \in SUBSET Nat /\ \A i \in seen : i < fresh
      BY DataHere
    <2>2. pc \in Steps
      BY <1>6 DEF Steps
    <2>3. PICK r2 : Works(c, r, r2) /\ Moved(r, r2, pc, seen, got)
      BY <1>2, <1>6, <2>1, <2>2, GotoWithWorks
    <2>4. CallOK(r2, IdsNamed(groups, r.on), IdsNamed(policies, r.on), IdsOf(keys, r.on),
                 IdsOf(clients, r.on), descriptors, deployments, unclean, overtaken)
      BY <1>1, <1>6, <2>3 DEF Moved, Fits, CallOK, GenerateOK
    <2>5. TargetsOK(r2, groups, policies, clients, fresh)
      BY <1>6, <2>1, <2>3 DEF TargetsOK, Moved
    <2>6. Fits(r2)
      BY <2>3, <2>4, <2>5 DEF Fits, Moved
    <2> HIDE DEF r
    <2> QED
      BY <1>1, <1>4, <2>3, <2>6, QuietStep
  <1>7. CASE GotoWith(c, "createGroup", {}, 0)
    <2>1. 0 \in Nat /\ 0 < fresh
      BY DataHere
    <2> HIDE DEF r
    <2> QED
      BY <1>6, <1>7, <2>1
  <1>8. CASE \E g \in found : GotoWith(c, "logout", g.peers, g.id)
    <2>1. PICK g \in found : GotoWith(c, "logout", g.peers, g.id)
      BY <1>8
    <2>2. g \in groups /\ g.id \in Nat /\ g.id < fresh /\ g.peers \subseteq Issued(fresh)
      BY DataHere DEF Named
    <2> HIDE DEF r
    <2> QED
      BY <1>6, <2>1, <2>2
  <1> QED
    BY <1>3, <1>5, <1>7, <1>8

LEMMA GetPolicyStep ==
    ASSUME IInv, NEW c \in Calls, GetPolicy(c), UNCHANGED prVars
    PROVE  IInv'
  <1> DEFINE r == calls[c]
             found == Named(policies, r.on)
  <1>1. /\ r \in Call /\ Fits(r) /\ r.op \in {"deploy", "undeploy"} /\ r.pc = "getPolicy"
        /\ UNCHANGED <<serverVars, unclean, clients, handed, hosts, descriptors, deployments,
                       overtaken, last>>
    BY Serving DEF GetPolicy, At, prVars
  <1>2. WorkFrame(r.on) /\ AtRequest(r)
    BY <1>1 DEF WorkFrame, AtRequest
  <1>3. PICK o \in ReadOutcomes :
           /\ Charge(o)
           /\ \/ Goto(c, "failed")
              \/ found = {} /\ Goto(c, "getGroup")
              \/ /\ ~ (Cardinality(found) > 1)
                 /\ \E p \in found : GotoWith(c, "deletePolicy", {}, p.id)
    BY DEF GetPolicy
  <1>4. faults' \in 0 .. MaxFaults
    BY <1>3, DataHere, OutcomePaid DEF ReadOutcomes
  <1>5. CASE Goto(c, "failed")
    BY <1>1, <1>4, <1>5, FailQuietly
  <1>6. r.got \in Nat /\ r.got < fresh /\ r.seen \in SUBSET Nat /\ \A i \in r.seen : i < fresh
    BY <1>1 DEF Fits, TargetsOK, Call
  <1>7. CASE found = {} /\ Goto(c, "getGroup")
    <2>1. PICK r2 : Works(c, r, r2) /\ Moved(r, r2, "getGroup", r.seen, r.got)
      BY <1>2, <1>7, GotoWorks DEF Steps
    <2>2. IdsNamed(policies, r.on) = {}
      BY <1>7, DataHere, Looked
    <2>3. CallOK(r2, IdsNamed(groups, r.on), IdsNamed(policies, r.on), IdsOf(keys, r.on),
                 IdsOf(clients, r.on), descriptors, deployments, unclean, overtaken)
      BY <1>1, <2>1, <2>2 DEF Moved, Fits, CallOK, DeployOK, UndeployOK
    <2>4. TargetsOK(r2, groups, policies, clients, fresh)
      BY <1>6, <2>1 DEF TargetsOK, Moved
    <2>5. Fits(r2)
      BY <2>1, <2>3, <2>4 DEF Fits, Moved
    <2> HIDE DEF r
    <2> QED
      BY <1>1, <1>4, <2>1, <2>5, QuietStep
  <1>8. ASSUME ~ (Cardinality(found) > 1), NEW p \in found, GotoWith(c, "deletePolicy", {}, p.id)
        PROVE  IInv'
    <2>1. IsFiniteSet(policies) /\ ~ (Cardinality(found) > 1) /\ p \in found
      BY <1>8, DataHere
    <2>2. p \in policies /\ p.name = r.on /\ p.id \in Nat /\ p.id < fresh
      BY DataHere DEF Named
    <2>3. IdsNamed(policies, r.on) = {p.id}
      <3> HIDE DEF r
      <3>1. PICK h \in policies : found = {h}
        BY <2>1, Looked
      <3>2. p = h
        BY <2>1, <3>1
      <3> QED
        BY <2>1, <3>1, <3>2, Looked
    <2>4. {} \in SUBSET Nat /\ "deletePolicy" \in Steps /\ GotoWith(c, "deletePolicy", {}, p.id)
      BY <1>8 DEF Steps
    <2>5. PICK r2 : Works(c, r, r2) /\ Moved(r, r2, "deletePolicy", {}, p.id)
      BY <1>2, <2>2, <2>4, GotoWithWorks
    <2>6. CallOK(r2, IdsNamed(groups, r.on), IdsNamed(policies, r.on), IdsOf(keys, r.on),
                 IdsOf(clients, r.on), descriptors, deployments, unclean, overtaken)
      BY <1>1, <2>3, <2>5 DEF Moved, Fits, CallOK, DeployOK, UndeployOK
    <2>7. \A x \in policies : x.id = p.id => x.name = r.on
      BY <2>2, DataHere DEF UniqueIds
    <2>8. TargetsOK(r2, groups, policies, clients, fresh)
      BY <2>2, <2>5, <2>7 DEF TargetsOK, Moved
    <2>9. Fits(r2)
      BY <2>5, <2>6, <2>8 DEF Fits, Moved
    <2> HIDE DEF r
    <2> QED
      BY <1>1, <1>4, <2>5, <2>9, QuietStep
  <1> HIDE DEF r, found
  <1> QED
    BY <1>3, <1>5, <1>7, <1>8

LEMMA GetClusterGroupStep ==
    ASSUME IInv, NEW c \in Calls, GetClusterGroup(c), UNCHANGED prVars
    PROVE  IInv'
  <1> DEFINE r == calls[c]
             found == Named(groups, r.on)
             next == IF r.op = "deploy" THEN "resolve" ELSE "vpnDone"
  <1>1. /\ r \in Call /\ Fits(r) /\ r.op \in {"deploy", "undeploy"} /\ r.pc = "getGroup"
        /\ UNCHANGED <<serverVars, unclean, clients, handed, hosts, descriptors, deployments,
                       overtaken, last>>
    BY Serving DEF GetClusterGroup, At, prVars
  <1>2. WorkFrame(r.on) /\ AtRequest(r)
    BY <1>1 DEF WorkFrame, AtRequest
  <1>3. PICK o \in ReadOutcomes :
           /\ Charge(o)
           /\ \/ Goto(c, "failed")
              \/ found = {} /\ Goto(c, next)
              \/ /\ ~ (Cardinality(found) > 1)
                 /\ \E g \in found : GotoWith(c, "deleteGroup", {}, g.id)
    BY DEF GetClusterGroup
  <1>4. faults' \in 0 .. MaxFaults
    BY <1>3, DataHere, OutcomePaid DEF ReadOutcomes
  <1>5. CASE Goto(c, "failed")
    BY <1>1, <1>4, <1>5, FailQuietly
  <1>6. r.got \in Nat /\ r.got < fresh /\ r.seen \in SUBSET Nat /\ \A i \in r.seen : i < fresh
    BY <1>1 DEF Fits, TargetsOK, Call
  <1>7. CASE found = {} /\ Goto(c, next)
    <2>1. /\ next \in Steps /\ next \in {"resolve", "vpnDone"}
          /\ next = "resolve" <=> r.op = "deploy"
      BY DEF Steps
    <2> HIDE DEF next
    <2>2. PICK r2 : Works(c, r, r2) /\ Moved(r, r2, next, r.seen, r.got)
      BY <1>2, <1>7, <2>1, GotoWorks
    <2>3. IdsNamed(groups, r.on) = {}
      BY <1>7, DataHere, Looked
    <2>4. CallOK(r2, IdsNamed(groups, r.on), IdsNamed(policies, r.on), IdsOf(keys, r.on),
                 IdsOf(clients, r.on), descriptors, deployments, unclean, overtaken)
      BY <1>1, <2>1, <2>2, <2>3 DEF Moved, Fits, CallOK, DeployOK, UndeployOK
    <2>5. TargetsOK(r2, groups, policies, clients, fresh)
      BY <1>6, <2>1, <2>2 DEF TargetsOK, Moved
    <2>6. Fits(r2)
      BY <2>2, <2>4, <2>5 DEF Fits, Moved
    <2> HIDE DEF r
    <2> QED
      BY <1>1, <1>4, <2>2, <2>6, QuietStep
  <1>8. ASSUME ~ (Cardinality(found) > 1), NEW g \in found, GotoWith(c, "deleteGroup", {}, g.id)
        PROVE  IInv'
    <2>1. IsFiniteSet(groups) /\ ~ (Cardinality(found) > 1) /\ g \in found
      BY <1>8, DataHere
    <2>2. g \in groups /\ g.name = r.on /\ g.id \in Nat /\ g.id < fresh
      BY DataHere DEF Named
    <2>3. IdsNamed(groups, r.on) = {g.id}
      <3> HIDE DEF r
      <3>1. PICK h \in groups : found = {h}
        BY <2>1, Looked
      <3>2. g = h
        BY <2>1, <3>1
      <3> QED
        BY <2>1, <3>1, <3>2, Looked
    <2>4. {} \in SUBSET Nat /\ "deleteGroup" \in Steps /\ GotoWith(c, "deleteGroup", {}, g.id)
      BY <1>8 DEF Steps
    <2>5. PICK r2 : Works(c, r, r2) /\ Moved(r, r2, "deleteGroup", {}, g.id)
      BY <1>2, <2>2, <2>4, GotoWithWorks
    <2>6. CallOK(r2, IdsNamed(groups, r.on), IdsNamed(policies, r.on), IdsOf(keys, r.on),
                 IdsOf(clients, r.on), descriptors, deployments, unclean, overtaken)
      BY <1>1, <2>3, <2>5 DEF Moved, Fits, CallOK, DeployOK, UndeployOK
    <2>7. \A x \in groups : x.id = g.id => x.name = r.on
      BY <2>2, DataHere DEF UniqueIds
    <2>8. TargetsOK(r2, groups, policies, clients, fresh)
      BY <2>2, <2>5, <2>7 DEF TargetsOK, Moved
    <2>9. Fits(r2)
      BY <2>5, <2>6, <2>8 DEF Fits, Moved
    <2> HIDE DEF r
    <2> QED
      BY <1>1, <1>4, <2>5, <2>9, QuietStep
  <1> HIDE DEF r, found, next
  <1> QED
    BY <1>3, <1>5, <1>7, <1>8

LEMMA ResolveMemberStep ==
    ASSUME IInv, NEW c \in Calls, ResolveMember(c), UNCHANGED prVars
    PROVE  IInv'
  <1> DEFINE r == calls[c]
  <1>1. /\ r \in Call /\ Fits(r) /\ r.op = "deploy" /\ r.pc = "resolve"
        /\ UNCHANGED <<serverVars, unclean, clients, handed, hosts, descriptors, deployments,
                       overtaken, last>>
    BY Serving DEF ResolveMember, At, prVars
  <1>2. WorkFrame(r.on) /\ AtRequest(r)
    BY <1>1 DEF WorkFrame, AtRequest
  <1>3. r.got \in Nat /\ r.got < fresh /\ r.seen \in SUBSET Nat /\ \A i \in r.seen : i < fresh
    BY <1>1 DEF Fits, TargetsOK, Call
  <1>4. CASE Goto(c, "createGroup") /\ UNCHANGED faults
    <2>1. PICK r2 : Works(c, r, r2) /\ Moved(r, r2, "createGroup", r.seen, r.got)
      BY <1>2, <1>4, GotoWorks DEF Steps
    <2>2. CallOK(r2, IdsNamed(groups, r.on), IdsNamed(policies, r.on), IdsOf(keys, r.on),
                 IdsOf(clients, r.on), descriptors, deployments, unclean, overtaken)
      BY <1>1, <2>1 DEF Moved, Fits, CallOK, DeployOK
    <2>3. TargetsOK(r2, groups, policies, clients, fresh)
      BY <1>3, <2>1 DEF TargetsOK, Moved
    <2>4. Fits(r2)
      BY <2>1, <2>2, <2>3 DEF Fits, Moved
    <2>5. faults' \in 0 .. MaxFaults
      BY <1>4, DataHere
    <2> HIDE DEF r
    <2> QED
      BY <1>1, <2>1, <2>4, <2>5, QuietStep
  <1>5. ASSUME NEW p \in r.todo, NEW o \in ReadOutcomes, Charge(o),
               \/ Goto(c, "failed")
               \/ \E g \in {h \in Named(groups, p) : h.peers # {}} : \E m \in g.peers :
                    calls' = [calls EXCEPT ![c].todo = @ \ {p}, ![c].seen = @ \cup {m}]
        PROVE  IInv'
    <2>1. faults' \in 0 .. MaxFaults
      BY <1>5, DataHere, OutcomePaid DEF ReadOutcomes
    <2>2. CASE Goto(c, "failed")
      BY <1>1, <2>1, <2>2, FailQuietly
    <2>3. ASSUME NEW g \in groups, NEW m \in g.peers,
                 calls' = [calls EXCEPT ![c].todo = @ \ {p}, ![c].seen = @ \cup {m}]
          PROVE  IInv'
      <3> DEFINE todo == r.todo \ {p}
                 seen == r.seen \cup {m}
                 r2 == [r EXCEPT !.todo = todo, !.seen = seen]
      <3>1. calls' = [calls EXCEPT ![c] = r2]
        BY <2>3
      <3>2. todo \in SUBSET Names
        BY <1>1 DEF Call
      <3>3. m \in Issued(fresh)
        BY DataHere
      <3>4. seen \in SUBSET Nat /\ \A i \in seen : i < fresh
        BY <1>3, <3>3, DataHere
      <3> HIDE DEF todo, seen
      <3>5. /\ r2 \in Call /\ r2.op = r.op /\ r2.on = r.on /\ r2.pc = r.pc
            /\ r2.seen = seen /\ r2.got = r.got
        BY <1>1, <3>2, <3>4 DEF Call
      <3> HIDE DEF r2
      <3>6. CallOK(r2, IdsNamed(groups, r.on), IdsNamed(policies, r.on), IdsOf(keys, r.on),
                   IdsOf(clients, r.on), descriptors, deployments, unclean, overtaken)
        BY <1>1, <3>5 DEF Fits, CallOK, DeployOK
      <3>7. TargetsOK(r2, groups, policies, clients, fresh)
        BY <1>1, <1>3, <3>4, <3>5 DEF TargetsOK
      <3>8. Fits(r2)
        BY <3>5, <3>6, <3>7 DEF Fits
      <3>9. Works(c, r, r2)
        BY <1>1, <1>2, <3>1, <3>5 DEF Works, WorkFrame
      <3> HIDE DEF r
      <3> QED
        BY <1>1, <2>1, <3>8, <3>9, QuietStep
    <2> HIDE DEF r
    <2> QED
      BY <1>5, <2>2, <2>3 DEF Named
  <1> QED
    BY <1>4, <1>5 DEF ResolveMember

-----------------------------------------------------------------------------
(* Requests that change what NetBird or the OIDC provider hold.            *)

LEMMA FailedNext ==
    ASSUME NEW r \in Call, Fits(r), AtRequest(r), NEW r2 \in Call,
           r2.op = r.op, r2.on = r.on, r2.todo = r.todo, r2.pc = "failed",
           r2.got = r.got, r2.seen \subseteq r.seen,
           fresh \in Nat, fresh' \in Nat, fresh <= fresh',
           UNCHANGED <<descriptors, deployments, overtaken>>,
           r.op = "store" => \/ r.todo # {} \/ r.on \in unclean'
                             \/ IdsNamed(groups', r.on) = {}
    PROVE  FitsNext(r2)
  <1>1. r.op # "idle" /\ r.pc # "commit"
    BY DEF AtRequest
  <1>2. r2.op = "store" => StoreOK(r2, IdsNamed(groups', r2.on), descriptors', unclean')
    BY <1>1 DEF Fits, CallOK, StoreOK
  <1>3. r2.op = "delete" => DeleteOK(r2, IdsNamed(groups', r2.on), IdsOf(keys', r2.on),
                                     IdsOf(clients', r2.on), descriptors')
    BY DEF Fits, CallOK, DeleteOK
  <1>4. r2.op = "generate" => GenerateOK(r2, IdsOf(keys', r2.on), descriptors')
    BY DEF Fits, CallOK, GenerateOK
  <1>5. r2.op = "deploy" => DeployOK(r2, deployments', overtaken')
    BY DEF Fits, CallOK, DeployOK
  <1>6. r2.op = "undeploy" => UndeployOK(r2, IdsNamed(groups', r2.on), IdsNamed(policies', r2.on),
                                         deployments', overtaken')
    BY DEF Fits, CallOK, UndeployOK
  <1>7. r2.got < fresh' /\ \A i \in r2.seen : i < fresh'
    <2>1. r.got \in Nat /\ r.got < fresh /\ r.seen \subseteq Nat /\ \A i \in r.seen : i < fresh
      BY DEF Fits, TargetsOK, Call
    <2> QED
      BY <2>1
  <1>8. TargetsOK(r2, groups', policies', clients', fresh')
    BY <1>7 DEF TargetsOK
  <1> QED
    BY <1>1, <1>2, <1>3, <1>4, <1>5, <1>6, <1>8 DEF FitsNext, CallOK

LEMMA RevokeKeysStep ==
    ASSUME IInv, NEW c \in Calls, RevokeKeys(c), UNCHANGED prVars
    PROVE  IInv'
  <1> DEFINE r == calls[c]
             mine == {k \in keys : k.peer = r.on}
  <1>1. /\ r \in Call /\ Fits(r) /\ r.op \in {"store", "delete"} /\ r.pc = "revokeKeys"
        /\ UNCHANGED <<groups, policies, machines, fresh, unclean, clients, handed, hosts,
                       descriptors, deployments, overtaken, last>>
    BY Serving DEF RevokeKeys, At, prVars
  <1>2. WorkFrame(r.on) /\ AtRequest(r)
    BY <1>1 DEF WorkFrame, AtRequest
  <1>3. r.got \in Nat /\ r.got < fresh /\ r.seen \in SUBSET Nat /\ \A i \in r.seen : i < fresh
    BY <1>1 DEF Fits, TargetsOK, Call
  <1>4. IdsNamed(groups, r.on) = {r.got} /\ (r.op = "store" => r.todo # {})
    BY <1>1 DEF Fits, CallOK, StoreOK, DeleteOK
  <1>5. CASE mine = {} /\ Goto(c, "deleteGroup") /\ UNCHANGED <<keys, faults>>
    <2>1. PICK r2 : Works(c, r, r2) /\ Moved(r, r2, "deleteGroup", r.seen, r.got)
      BY <1>2, <1>5, GotoWorks DEF Steps
    <2>2. IdsOf(keys, r.on) = {}
      BY <1>5 DEF IdsOf
    <2>3. CallOK(r2, IdsNamed(groups, r.on), IdsNamed(policies, r.on), IdsOf(keys, r.on),
                 IdsOf(clients, r.on), descriptors, deployments, unclean, overtaken)
      BY <1>1, <2>1, <2>2 DEF Moved, Fits, CallOK, StoreOK, DeleteOK
    <2>4. \A g \in groups : g.id = r.got => g.name = r.on
      <3>1. PICK h \in groups : h.name = r.on /\ h.id = r.got
        BY <1>4 DEF IdsNamed
      <3> QED
        BY <3>1, DataHere DEF UniqueIds
    <2>5. TargetsOK(r2, groups, policies, clients, fresh)
      BY <1>3, <2>1, <2>4 DEF TargetsOK, Moved
    <2>6. Fits(r2)
      BY <2>1, <2>3, <2>5 DEF Fits, Moved
    <2>7. faults' \in 0 .. MaxFaults /\ UNCHANGED serverVars
      BY <1>1, <1>5, DataHere DEF serverVars
    <2> HIDE DEF r
    <2> QED
      BY <1>1, <2>1, <2>6, <2>7, QuietStep
  <1>6. ASSUME NEW k \in mine, NEW o \in DeleteOutcomes, Charge(o),
               keys' = IF o = "refused" THEN keys ELSE keys \ {k},
               Goto(c, IF o = "ok" THEN "revokeKeys" ELSE "failed")
        PROVE  IInv'
    <2>1. faults' \in 0 .. MaxFaults
      BY <1>6, DataHere, OutcomePaid DEF DeleteOutcomes
    <2> DEFINE pc == IF o = "ok" THEN "revokeKeys" ELSE "failed"
    <2>2. pc \in Steps /\ pc \in {"revokeKeys", "failed"} /\ Goto(c, pc)
      BY <1>6 DEF Steps
    <2> HIDE DEF pc
    <2>3. PICK r2 : Works(c, r, r2) /\ Moved(r, r2, pc, r.seen, r.got)
      BY <1>2, <2>2, GotoWorks
    <2>4. keys' \subseteq keys /\ \A x \in keys \ keys' : x.peer = r.on
      BY <1>6
    <2>5. /\ ServerOK(groups', policies', keys', machines', fresh') /\ ClientsOK(clients', fresh')
          /\ fresh \in Nat /\ fresh' = fresh
      BY <1>1, <2>4, DataHere, PolicyOrKeyRemoved
    <2>6. DataInv'
      BY <1>1, <2>1, <2>3, <2>5, WorkData
    <2>7. OthersKept(r.on, r.op)
      <3>1. /\ \A p \in Peers \ {r.on} : IdsOf(keys', p) = IdsOf(keys, p)
            /\ IdsOf(keys', r.on) \subseteq IdsOf(keys, r.on)
        BY <2>4 DEF IdsOf
      <3> HIDE DEF r
      <3> QED
        BY <1>1, <2>5, <3>1 DEF OthersKept, OnlyFresh, OnlyFreshClients
    <2>8. CASE pc = "failed"
      <3>1. FitsNext(r2)
        BY <1>1, <1>2, <1>4, <2>3, <2>5, <2>8, FailedNext DEF Moved
      <3> HIDE DEF r
      <3> QED
        BY <2>3, <2>6, <2>7, <3>1, WorkStep
    <2>9. CASE pc = "revokeKeys"
      <3>1. CallOK(r2, IdsNamed(groups, r.on), IdsNamed(policies, r.on), IdsOf(keys', r.on),
                   IdsOf(clients, r.on), descriptors, deployments, unclean, overtaken)
        BY <1>1, <2>3, <2>9 DEF Moved, Fits, CallOK, StoreOK, DeleteOK
      <3>2. TargetsOK(r2, groups, policies, clients, fresh)
        BY <1>3, <2>3, <2>9 DEF TargetsOK, Moved
      <3>3. FitsNext(r2)
        BY <1>1, <2>3, <3>1, <3>2 DEF FitsNext, Moved
      <3> HIDE DEF r
      <3> QED
        BY <2>3, <2>6, <2>7, <3>3, WorkStep
    <2> QED
      BY <2>2, <2>8, <2>9
  <1> QED
    BY <1>5, <1>6 DEF RevokeKeys

LEMMA LogoutStep ==
    ASSUME IInv, NEW c \in Calls, Logout(c), UNCHANGED prVars
    PROVE  IInv'
  <1> DEFINE r == calls[c]
             done == IF r.op = "generate" THEN "makeKey" ELSE "revokeKeys"
  <1>1. /\ r \in Call /\ Fits(r) /\ r.op \in {"store", "delete", "generate"} /\ r.pc = "logout"
        /\ UNCHANGED <<policies, keys, fresh, unclean, clients, handed, hosts, descriptors,
                       deployments, overtaken, last>>
    BY Serving DEF Logout, At, prVars
  <1>2. WorkFrame(r.on) /\ AtRequest(r)
    BY <1>1 DEF WorkFrame, AtRequest
  <1>3. r.got \in Nat /\ r.got < fresh /\ r.seen \in SUBSET Nat /\ \A i \in r.seen : i < fresh
    BY <1>1 DEF Fits, TargetsOK, Call
  <1>4. r.op = "store" => r.todo # {}
    BY <1>1 DEF Fits, CallOK, StoreOK
  <1>5. CASE Goto(c, done) /\ UNCHANGED <<groups, machines, faults>>
    <2>1. done \in Steps /\ done \in {"makeKey", "revokeKeys"} /\ (done = "makeKey" <=> r.op = "generate")
      BY DEF Steps
    <2> HIDE DEF done
    <2>2. PICK r2 : Works(c, r, r2) /\ Moved(r, r2, done, r.seen, r.got)
      BY <1>2, <1>5, <2>1, GotoWorks
    <2>3. CallOK(r2, IdsNamed(groups, r.on), IdsNamed(policies, r.on), IdsOf(keys, r.on),
                 IdsOf(clients, r.on), descriptors, deployments, unclean, overtaken)
      BY <1>1, <2>1, <2>2 DEF Moved, Fits, CallOK, StoreOK, DeleteOK, GenerateOK
    <2>4. TargetsOK(r2, groups, policies, clients, fresh)
      BY <1>3, <2>1, <2>2 DEF TargetsOK, Moved
    <2>5. Fits(r2)
      BY <2>2, <2>3, <2>4 DEF Fits, Moved
    <2>6. faults' \in 0 .. MaxFaults /\ UNCHANGED serverVars
      BY <1>1, <1>5, DataHere DEF serverVars
    <2> HIDE DEF r
    <2> QED
      BY <1>1, <2>2, <2>5, <2>6, QuietStep
  <1>6. ASSUME NEW m \in r.seen, NEW o \in DeleteOutcomes, Charge(o),
               machines' = IF o = "refused" THEN machines ELSE machines \ {m},
               groups' = IF o = "refused" THEN groups ELSE Without(groups, m),
               GotoWith(c, "logout", r.seen \ {m}, r.got) \/ Goto(c, "failed")
        PROVE  IInv'
    <2>1. faults' \in 0 .. MaxFaults
      BY <1>6, DataHere, OutcomePaid DEF DeleteOutcomes
    <2>2. /\ ServerOK(groups', policies', keys', machines', fresh') /\ ClientsOK(clients', fresh')
          /\ \A n \in Names : IdsNamed(groups', n) = IdsNamed(groups, n)
          /\ \A x \in groups' : \E g \in groups : g.id = x.id /\ g.name = x.name
          /\ fresh \in Nat /\ fresh' = fresh
      <3>1. ServerOK(groups, policies, keys, machines, fresh) /\ ClientsOK(clients, fresh) /\ fresh \in Nat
        BY DataHere
      <3>2. CASE o = "refused"
        BY <1>1, <1>6, <3>1, <3>2
      <3>3. CASE o # "refused"
        BY <1>1, <1>6, <3>1, <3>3, LoggedOut
      <3> QED
        BY <3>2, <3>3
    <2>3. OthersKept(r.on, r.op)
      BY <1>1, <2>2 DEF OthersKept, OnlyFresh, OnlyFreshClients
    <2>4. r.on \in Names
      BY <1>1, Serving
    <2>5. CASE Goto(c, "failed")
      <3>1. PICK r2 : Works(c, r, r2) /\ Moved(r, r2, "failed", r.seen, r.got)
        BY <1>2, <2>5, GotoWorks DEF Steps
      <3>2. FitsNext(r2)
        BY <1>1, <1>2, <1>4, <2>2, <3>1, FailedNext DEF Moved
      <3>3. DataInv'
        BY <1>1, <2>1, <2>2, <3>1, WorkData
      <3> HIDE DEF r
      <3> QED
        BY <2>3, <3>1, <3>2, <3>3, WorkStep
    <2>6. CASE GotoWith(c, "logout", r.seen \ {m}, r.got)
      <3>1. r.seen \ {m} \in SUBSET Nat
        BY <1>3
      <3>2. PICK r2 : Works(c, r, r2) /\ Moved(r, r2, "logout", r.seen \ {m}, r.got)
        BY <1>2, <1>3, <2>6, <3>1, GotoWithWorks DEF Steps
      <3>3. CallOK(r2, IdsNamed(groups', r.on), IdsNamed(policies, r.on), IdsOf(keys, r.on),
                   IdsOf(clients, r.on), descriptors, deployments, unclean, overtaken)
        BY <1>1, <2>2, <2>4, <3>2 DEF Moved, Fits, CallOK, StoreOK, DeleteOK, GenerateOK
      <3>4. TargetsOK(r2, groups', policies, clients, fresh)
        BY <1>3, <3>2 DEF TargetsOK, Moved
      <3>5. FitsNext(r2)
        BY <1>1, <3>2, <3>3, <3>4 DEF FitsNext, Moved
      <3>6. DataInv'
        BY <1>1, <2>1, <2>2, <3>2, WorkData
      <3> HIDE DEF r
      <3> QED
        BY <2>3, <3>2, <3>5, <3>6, WorkStep
    <2> QED
      BY <1>6, <2>5, <2>6
  <1>7. ASSUME NEW m \in r.seen, NEW o \in DeleteOutcomes, Charge(o),
               machines' = IF o = "refused" THEN machines ELSE machines \ {m},
               groups' = IF o = "refused" THEN groups
                         ELSE {[g EXCEPT !.peers = @ \ {m}] : g \in groups},
               IF o = "ok" /\ m \in machines
               THEN GotoWith(c, "logout", r.seen \ {m}, r.got) ELSE Goto(c, "failed")
        PROVE  IInv'
    <2>1. groups' = IF o = "refused" THEN groups ELSE Without(groups, m)
      BY <1>7 DEF Without
    <2> HIDE DEF r
    <2> QED
      BY <1>6, <1>7, <2>1
  <1> QED
    BY <1>5, <1>7 DEF Logout

\* A DELETE removes nothing but what has the id, and that is of the call's name.
LEMMA GroupGone ==
    ASSUME IInv, NEW r \in Call, Fits(r), r.pc = "deleteGroup", ~Linked(r.got),
           groups' = {x \in groups : x.id # r.got}, UNCHANGED <<policies, keys, machines, fresh>>
    PROVE  /\ ServerOK(groups', policies', keys', machines', fresh')
           /\ \A n \in Names \ {r.on} : IdsNamed(groups', n) = IdsNamed(groups, n)
           /\ IdsNamed(groups', r.on) = IdsNamed(groups, r.on) \ {r.got}
           /\ OnlyFresh(groups, groups', fresh)
  <1>1. ServerOK(groups, policies, keys, machines, fresh)
    BY DataHere
  <1>2. (\A p \in policies : p.group # r.got) /\ \A k \in keys : k.group # r.got
    BY DEF Linked
  <1>3. \A g \in groups : g.id = r.got => g.name = r.on
    BY DEF Fits, TargetsOK
  <1>4. \A n \in Names \ {r.on} : r.got \notin IdsNamed(groups, n)
    BY <1>3 DEF IdsNamed
  <1>5. OnlyFresh(groups, groups', fresh)
    BY DEF OnlyFresh
  <1>6. /\ ServerOK(groups', policies, keys, machines, fresh)
        /\ \A n \in Names : IdsNamed(groups', n) = IdsNamed(groups, n) \ {r.got}
    <2> DEFINE i == r.got
    <2>1. Unneeded(i, policies, keys)
      BY <1>2 DEF Unneeded
    <2>2. groups' = {x \in groups : x.id # i}
      OBVIOUS
    <2> HIDE DEF i
    <2>3. groups' = WithoutId(groups, i)
      BY <2>2 DEF WithoutId
    <2>4. /\ ServerOK(WithoutId(groups, i), policies, keys, machines, fresh)
          /\ \A n \in Names : IdsNamed(WithoutId(groups, i), n) = IdsNamed(groups, n) \ {i}
      BY <1>1, <2>1, GroupRemoved
    <2> QED
      BY <2>3, <2>4 DEF i
  <1>7. IdsNamed(groups', r.on) = IdsNamed(groups, r.on) \ {r.got}
    BY DEF IdsNamed
  <1>8. \A n \in Names \ {r.on} : IdsNamed(groups', n) = IdsNamed(groups, n)
    <2> TAKE n \in Names \ {r.on}
    <2>1. IdsNamed(groups', n) = IdsNamed(groups, n) \ {r.got}
      BY <1>6
    <2>2. r.got \notin IdsNamed(groups, n)
      BY <1>4
    <2> QED
      BY <2>1, <2>2
  <1>9. ServerOK(groups', policies', keys', machines', fresh')
    <2>1. policies' = policies /\ keys' = keys /\ machines' = machines /\ fresh' = fresh
      OBVIOUS
    <2> QED
      BY <1>6, <2>1
  <1> QED
    BY <1>5, <1>7, <1>8, <1>9

LEMMA DeleteGroupStep ==
    ASSUME IInv, NEW c \in Calls, DeleteGroup(c), UNCHANGED prVars
    PROVE  IInv'
  <1> DEFINE r == calls[c]
             next == IF r.op = "deploy" THEN "resolve" ELSE "vpnDone"
  <1>1. /\ r \in Call /\ Fits(r) /\ r.pc = "deleteGroup"
        /\ r.op \in {"store", "delete", "deploy", "undeploy"}
        /\ UNCHANGED <<policies, keys, machines, fresh, unclean, clients, handed, hosts,
                       descriptors, deployments, overtaken, last>>
    BY Serving DEF DeleteGroup, At, prVars
  <1>2. WorkFrame(r.on) /\ AtRequest(r)
    BY <1>1 DEF WorkFrame, AtRequest
  <1>3. r.got \in Nat /\ r.got < fresh /\ r.seen \in SUBSET Nat /\ \A i \in r.seen : i < fresh
    BY <1>1 DEF Fits, TargetsOK, Call
  <1>4. r.op = "store" => r.todo # {}
    BY <1>1 DEF Fits, CallOK, StoreOK
  <1>5. ASSUME Goto(c, "failed"), UNCHANGED groups, faults' \in 0 .. MaxFaults
        PROVE  IInv'
    <2>1. UNCHANGED serverVars
      BY <1>1, <1>5 DEF serverVars
    <2> QED
      BY <1>1, <1>4, <1>5, <2>1, FailQuietly
  <1>6. ASSUME ~Linked(r.got), NEW pc, pc \in {next, "failed"}, Goto(c, pc),
               groups' = {x \in groups : x.id # r.got}, faults' \in 0 .. MaxFaults
        PROVE  IInv'
    <2>1. /\ next \in {"resolve", "vpnDone"} /\ (next = "resolve" <=> r.op = "deploy")
          /\ next \in Steps /\ "failed" \in Steps
      BY DEF Steps
    <2> HIDE DEF next
    <2>2. PICK r2 : Works(c, r, r2) /\ Moved(r, r2, pc, r.seen, r.got)
      BY <1>2, <1>6, <2>1, GotoWorks
    <2>3. /\ ServerOK(groups', policies', keys', machines', fresh')
          /\ \A n \in Names \ {r.on} : IdsNamed(groups', n) = IdsNamed(groups, n)
          /\ IdsNamed(groups', r.on) = IdsNamed(groups, r.on) \ {r.got}
          /\ OnlyFresh(groups, groups', fresh)
      BY <1>1, <1>6, GroupGone
    <2>4. ClientsOK(clients', fresh') /\ fresh \in Nat /\ fresh' = fresh
      BY <1>1, DataHere
    <2>5. OthersKept(r.on, r.op)
      BY <1>1, <2>3, <2>4 DEF OthersKept, OnlyFresh, OnlyFreshClients
    <2>6. DataInv'
      BY <1>1, <1>6, <2>2, <2>3, <2>4, WorkData
    <2>7. FitsNext(r2)
      <3>1. CASE pc = "failed"
        BY <1>1, <1>2, <1>4, <2>2, <2>4, <3>1, FailedNext DEF Moved
      <3>2. CASE pc = next
        <4>1. CallOK(r2, IdsNamed(groups', r.on), IdsNamed(policies, r.on), IdsOf(keys, r.on),
                     IdsOf(clients, r.on), descriptors, deployments, unclean, overtaken)
          BY <1>1, <2>1, <2>2, <2>3, <3>2
          DEF Moved, Fits, CallOK, StoreOK, DeleteOK, DeployOK, UndeployOK
        <4>2. TargetsOK(r2, groups', policies, clients, fresh)
          BY <1>3, <2>1, <2>2, <3>2 DEF TargetsOK, Moved
        <4> QED
          BY <1>1, <2>2, <4>1, <4>2 DEF FitsNext, Moved
      <3> QED
        BY <1>6, <3>1, <3>2
    <2> HIDE DEF r
    <2> QED
      BY <2>2, <2>5, <2>6, <2>7, WorkStep
  <1>7. CASE Linked(r.got)
    <2>1. Goto(c, "failed") /\ UNCHANGED <<groups, faults>>
      BY <1>7 DEF DeleteGroup
    <2> QED
      BY <1>5, <2>1, DataHere
  <1>8. CASE ~Linked(r.got)
    <2>1. PICK o \in DeleteOutcomes : /\ Deleting(c, groups, r.got, o, next)
                                      /\ groups' = Deleted(groups, r.got, o)
      <3> HIDE DEF next
      <3>1. \E o \in DeleteOutcomes :
               /\ Deleting(c, groups, r.got, o, IF r.op = "deploy" THEN "resolve" ELSE "vpnDone")
               /\ groups' = Deleted(groups, r.got, o)
        BY <1>8 DEF DeleteGroup
      <3> QED
        BY <3>1 DEF next
    <2>2. faults' \in 0 .. MaxFaults
      BY <2>1, DataHere, OutcomePaid DEF DeleteOutcomes, Deleting
    <2>3. CASE o = "refused"
      BY <1>5, <2>1, <2>2, <2>3 DEF Deleting, Deleted
    <2>4. CASE o # "refused"
      <3>1. groups' = {x \in groups : x.id # r.got} /\ (Goto(c, next) \/ Goto(c, "failed"))
        BY <2>1, <2>4 DEF Deleting, Deleted
      <3> HIDE DEF r, next
      <3> QED
        BY <1>6, <1>8, <2>2, <3>1
    <2> QED
      BY <2>3, <2>4
  <1> QED
    BY <1>7, <1>8

LEMMA DeletePolicyStep ==
    ASSUME IInv, NEW c \in Calls, DeletePolicy(c), UNCHANGED prVars
    PROVE  IInv'
  <1> DEFINE r == calls[c]
  <1>1. /\ r \in Call /\ Fits(r) /\ r.pc = "deletePolicy" /\ r.op \in {"deploy", "undeploy"}
        /\ UNCHANGED <<groups, keys, machines, fresh, unclean, clients, handed, hosts,
                       descriptors, deployments, overtaken, last>>
    BY Serving DEF DeletePolicy, At, prVars
  <1>2. WorkFrame(r.on) /\ AtRequest(r)
    BY <1>1 DEF WorkFrame, AtRequest
  <1>3. r.got \in Nat /\ r.got < fresh /\ r.seen \in SUBSET Nat /\ \A i \in r.seen : i < fresh
    BY <1>1 DEF Fits, TargetsOK, Call
  <1>4. PICK o \in DeleteOutcomes : /\ Deleting(c, policies, r.got, o, "getGroup")
                                    /\ policies' = Deleted(policies, r.got, o)
    BY DEF DeletePolicy
  <1>5. faults' \in 0 .. MaxFaults
    BY <1>4, DataHere, OutcomePaid DEF DeleteOutcomes, Deleting
  <1>6. CASE o = "refused"
    <2>1. Goto(c, "failed") /\ UNCHANGED serverVars
      BY <1>1, <1>4, <1>6 DEF Deleting, Deleted, serverVars
    <2> QED
      BY <1>1, <1>5, <2>1, FailQuietly
  <1>7. ASSUME NEW pc, pc \in {"getGroup", "failed"}, Goto(c, pc),
               policies' = {x \in policies : x.id # r.got}
        PROVE  IInv'
    <2>1. PICK r2 : Works(c, r, r2) /\ Moved(r, r2, pc, r.seen, r.got)
      <3>1. pc \in Steps
        BY <1>7 DEF Steps
      <3> QED
        BY <1>2, <1>7, <3>1, GotoWorks
    <2>2. policies' \subseteq policies /\ \A x \in policies : x.id = r.got => x.name = r.on
      BY <1>1, <1>7 DEF Fits, TargetsOK
    <2>3. /\ ServerOK(groups', policies', keys', machines', fresh') /\ ClientsOK(clients', fresh')
          /\ fresh \in Nat /\ fresh' = fresh
      BY <1>1, <2>2, DataHere, PolicyOrKeyRemoved
    <2>4. /\ \A n \in Names \ {r.on} : IdsNamed(policies', n) = IdsNamed(policies, n)
          /\ IdsNamed(policies', r.on) = IdsNamed(policies, r.on) \ {r.got}
          /\ OnlyFresh(policies, policies', fresh)
      BY <1>7, <2>2 DEF IdsNamed, OnlyFresh
    <2>5. OthersKept(r.on, r.op)
      BY <1>1, <2>3, <2>4 DEF OthersKept, OnlyFresh, OnlyFreshClients
    <2>6. DataInv'
      BY <1>1, <1>5, <2>1, <2>3, WorkData
    <2>7. FitsNext(r2)
      <3>1. CASE pc = "failed"
        BY <1>1, <1>2, <2>1, <2>3, <3>1, FailedNext DEF Moved
      <3>2. CASE pc = "getGroup"
        <4>1. CallOK(r2, IdsNamed(groups, r.on), IdsNamed(policies', r.on), IdsOf(keys, r.on),
                     IdsOf(clients, r.on), descriptors, deployments, unclean, overtaken)
          BY <1>1, <2>1, <2>4, <3>2 DEF Moved, Fits, CallOK, DeployOK, UndeployOK
        <4>2. TargetsOK(r2, groups, policies', clients, fresh)
          BY <1>3, <2>1, <3>2 DEF TargetsOK, Moved
        <4> QED
          BY <1>1, <2>1, <4>1, <4>2 DEF FitsNext, Moved
      <3> QED
        BY <1>7, <3>1, <3>2
    <2> HIDE DEF r
    <2> QED
      BY <2>1, <2>5, <2>6, <2>7, WorkStep
  <1>8. CASE o # "refused"
    <2>1. policies' = {x \in policies : x.id # r.got} /\ (Goto(c, "getGroup") \/ Goto(c, "failed"))
      BY <1>4, <1>8 DEF Deleting, Deleted
    <2> HIDE DEF r
    <2> QED
      BY <1>7, <2>1
  <1> QED
    BY <1>6, <1>8

LEMMA DeleteClientsStep ==
    ASSUME IInv, NEW c \in Calls, DeleteClients(c)
    PROVE  IInv'
  <1> DEFINE r == calls[c]
             next == CASE r.todo # {} -> "failed"
                       [] r.todo = {} /\ r.op = "delete" -> "deletePeer"
                       [] OTHER -> "register"
  <1>1. /\ r \in Call /\ Fits(r) /\ r.pc = "deleteClients" /\ r.op \in {"delete", "generate"}
        /\ UNCHANGED <<groups, policies, keys, machines, fresh, unclean, handed, hosts,
                       descriptors, deployments, overtaken, last>>
    BY Serving DEF DeleteClients, At, serverVars
  <1>2. WorkFrame(r.on) /\ AtRequest(r)
    BY <1>1 DEF WorkFrame, AtRequest
  <1>3. /\ r.got \in Nat /\ r.got < fresh /\ r.seen \in SUBSET Nat /\ \A i \in r.seen : i < fresh
        /\ \A x \in clients : x.id \in r.seen => x.peer = r.on
        /\ r.on \in Peers
    BY <1>1, DataHere DEF Fits, TargetsOK, Call, CallOK, DeleteOK, GenerateOK
  <1>4. CASE r.seen = {} /\ Goto(c, next) /\ UNCHANGED <<faults, clients>>
    <2>1. /\ next \in Steps /\ next \in {"failed", "deletePeer", "register"}
          /\ next = "deletePeer" => r.op = "delete" /\ r.todo = {}
          /\ next = "register" => r.op = "generate"
      BY <1>1 DEF Steps
    <2> HIDE DEF next
    <2>2. PICK r2 : Works(c, r, r2) /\ Moved(r, r2, next, r.seen, r.got)
      BY <1>2, <1>4, <2>1, GotoWorks
    <2>3. CallOK(r2, IdsNamed(groups, r.on), IdsNamed(policies, r.on), IdsOf(keys, r.on),
                 IdsOf(clients, r.on), descriptors, deployments, unclean, overtaken)
      <3>1. r2.op = "delete" => DeleteOK(r2, IdsNamed(groups, r.on), IdsOf(keys, r.on),
                                         IdsOf(clients, r.on), descriptors)
        BY <1>1, <1>4, <2>1, <2>2 DEF Moved, Fits, CallOK, DeleteOK
      <3>2. r2.op = "generate" => GenerateOK(r2, IdsOf(keys, r.on), descriptors)
        BY <1>1, <2>1, <2>2 DEF Moved, Fits, CallOK, GenerateOK
      <3> QED
        BY <1>1, <2>2, <3>1, <3>2 DEF Moved, CallOK
    <2>4. TargetsOK(r2, groups, policies, clients, fresh)
      BY <1>3, <2>1, <2>2 DEF TargetsOK, Moved
    <2>5. Fits(r2)
      BY <2>2, <2>3, <2>4 DEF Fits, Moved
    <2>6. faults' \in 0 .. MaxFaults /\ UNCHANGED <<serverVars, clients>>
      BY <1>1, <1>4, DataHere DEF serverVars
    <2> HIDE DEF r
    <2> QED
      BY <1>1, <2>2, <2>5, <2>6, QuietStep
  <1>5. ASSUME NEW i \in r.seen, NEW o \in DeleteOutcomes, Charge(o),
               clients' = Deleted(clients, i, o),
               calls' = [calls EXCEPT ![c].seen = @ \ {i},
                                      ![c].todo = IF o = "ok" /\ \E x \in clients : x.id = i
                                                  THEN @ ELSE {calls[c].on}]
        PROVE  IInv'
    <2>1. faults' \in 0 .. MaxFaults
      BY <1>5, DataHere, OutcomePaid DEF DeleteOutcomes
    <2> DEFINE todo == IF o = "ok" /\ \E x \in clients : x.id = i THEN r.todo ELSE {r.on}
               seen == r.seen \ {i}
               r2 == [r EXCEPT !.seen = seen, !.todo = todo]
    <2>2. calls' = [calls EXCEPT ![c] = r2]
      BY <1>5
    <2>3. clients' \subseteq clients /\ \A x \in clients \ clients' : x.id = i /\ x.peer = r.on
      BY <1>3, <1>5 DEF Deleted
    <2>4. todo \in SUBSET Names /\ (todo = {} => r.todo = {} /\ \A x \in clients' : x.id # i)
      <3>1. CASE o = "ok" /\ \E x \in clients : x.id = i
        <4>1. clients' = {x \in clients : x.id # i}
          BY <1>5, <3>1 DEF Deleted
        <4> QED
          BY <1>1, <3>1, <4>1 DEF Call
      <3>2. CASE ~ (o = "ok" /\ \E x \in clients : x.id = i)
        BY <1>3, <3>2, NamesApart
      <3> QED
        BY <3>1, <3>2
    <2>5. seen \in SUBSET Nat /\ seen \subseteq r.seen /\ i \notin seen
      BY <1>3
    <2> HIDE DEF todo
    <2>6. /\ r2 \in Call /\ r2.op = r.op /\ r2.on = r.on /\ r2.pc = r.pc /\ r2.key = r.key
          /\ r2.seen = seen /\ r2.got = r.got /\ r2.todo = todo
      BY <1>1, <2>4, <2>5 DEF Call
    <2> HIDE DEF r2
    <2>7. Works(c, r, r2)
      BY <1>1, <1>2, <2>2, <2>6 DEF Works, WorkFrame
    <2>8. /\ ServerOK(groups', policies', keys', machines', fresh') /\ ClientsOK(clients', fresh')
          /\ fresh \in Nat /\ fresh' = fresh
      BY <1>1, <2>3, DataHere, UniqueInSubset DEF ClientsOK
    <2>9. DataInv'
      BY <1>1, <2>1, <2>7, <2>8, WorkData
    <2>10. OthersKept(r.on, r.op)
      <3>1. /\ \A p \in Peers \ {r.on} : IdsOf(clients', p) = IdsOf(clients, p)
            /\ OnlyFreshClients(clients, clients', fresh)
        BY <2>3 DEF IdsOf, OnlyFreshClients
      <3> QED
        BY <1>1, <2>8, <3>1 DEF OthersKept, OnlyFresh
    <2>11. r.op = "delete" /\ todo = {} => IdsOf(clients', r.on) \subseteq seen
      <3> SUFFICES ASSUME r.op = "delete", todo = {}
                   PROVE  IdsOf(clients', r.on) \subseteq seen
        OBVIOUS
      <3>1. IdsOf(clients, r.on) \subseteq r.seen
        BY <1>1, <2>4 DEF Fits, CallOK, DeleteOK
      <3>2. \A x \in clients' : x \in clients /\ x.id # i
        BY <2>3, <2>4
      <3> QED
        BY <3>1, <3>2 DEF IdsOf
    <2>12. CallOK(r2, IdsNamed(groups, r.on), IdsNamed(policies, r.on), IdsOf(keys, r.on),
                  IdsOf(clients', r.on), descriptors, deployments, unclean, overtaken)
      <3> HIDE DEF seen
      <3>1. r2.op = "delete" => DeleteOK(r2, IdsNamed(groups, r.on), IdsOf(keys, r.on),
                                         IdsOf(clients', r.on), descriptors)
        BY <1>1, <2>6, <2>11 DEF Fits, CallOK, DeleteOK
      <3>2. r2.op = "generate" => GenerateOK(r2, IdsOf(keys, r.on), descriptors)
        BY <1>1, <2>6 DEF Fits, CallOK, GenerateOK
      <3> QED
        BY <1>1, <2>6, <3>1, <3>2 DEF CallOK
    <2>13. TargetsOK(r2, groups, policies, clients', fresh)
      BY <1>1, <1>3, <2>3, <2>5, <2>6 DEF TargetsOK
    <2>14. FitsNext(r2)
      BY <1>1, <2>6, <2>8, <2>12, <2>13 DEF FitsNext
    <2> HIDE DEF r
    <2> QED
      BY <2>7, <2>9, <2>10, <2>14, WorkStep
  <1>6. CASE r.seen = {}
    BY <1>4, <1>6 DEF DeleteClients
  <1>7. CASE r.seen # {}
    <2>1. \E i \in r.seen, o \in DeleteOutcomes :
            /\ Charge(o)
            /\ clients' = Deleted(clients, i, o)
            /\ calls' = [calls EXCEPT ![c].seen = @ \ {i},
                                      ![c].todo = IF o = "ok" /\ \E x \in clients : x.id = i
                                                  THEN @ ELSE {calls[c].on}]
      BY <1>7 DEF DeleteClients
    <2> QED
      BY <1>5, <2>1
  <1> QED
    BY <1>6, <1>7

LEMMA CreateGroupStep ==
    ASSUME IInv, NEW c \in Calls, CreateGroup(c), UNCHANGED prVars
    PROVE  IInv'
  <1> DEFINE r == calls[c]
             next == CASE r.op = "store"    -> "insert"
                       [] r.op = "generate" -> "makeKey"
                       [] r.op = "deploy"   -> "createPolicy"
             members == r.seen \cap machines
  <1>1. /\ r \in Call /\ Fits(r) /\ r.pc = "createGroup" /\ r.op \in {"store", "generate", "deploy"}
        /\ UNCHANGED <<policies, keys, machines, clients, handed, hosts, descriptors, deployments,
                       overtaken, last>>
    BY Serving DEF CreateGroup, At, prVars
  <1>2. r.got \in Nat /\ r.got < fresh /\ r.seen \in SUBSET Nat /\ \A i \in r.seen : i < fresh
    BY <1>1 DEF Fits, TargetsOK, Call
  <1>3. PICK o \in PostOutcomes :
           /\ Charge(o)
           /\ groups' = groups \cup {[name |-> r.on, id |-> fresh + i, peers |-> members] :
                                     i \in 0 .. Posted(o) - 1}
           /\ fresh' = fresh + Posted(o)
           /\ unclean' = IF o \in {"lost", "repeated"} THEN unclean \cup {r.on} ELSE unclean
           /\ IF Answers(o) THEN GotoWith(c, next, {}, fresh + Posted(o) - 1) ELSE Goto(c, "failed")
    BY DEF CreateGroup
  <1>4. faults' \in 0 .. MaxFaults
    BY <1>3, DataHere, OutcomePaid DEF PostOutcomes
  <1> DEFINE q == Posted(o)
             last_id == fresh + q - 1
  <1>5. /\ q \in 0 .. 2 /\ (o = "refused" <=> q = 0) /\ (o = "repeated" <=> q = 2)
        /\ o \in {"ok", "refused", "lost", "repeated"}
    BY HowManyPosted
  <1>6. r.on \in Names /\ members \in SUBSET machines
    BY <1>1, Serving
  <1>7. /\ ServerOK(groups', policies, keys, machines, fresh')
        /\ \A m \in Names \ {r.on} : IdsNamed(groups', m) = IdsNamed(groups, m)
        /\ OnlyFresh(groups, groups', fresh) /\ fresh <= fresh'
        /\ q = 0 => groups' = groups
    <2>1. ServerOK(groups, policies, keys, machines, fresh)
      BY DataHere
    <2>2. GroupsPosted(groups, groups', machines, fresh, fresh', r.on, q, members)
      BY <1>3, <1>5, <1>6 DEF GroupsPosted, NewGroups
    <2> HIDE DEF q, members, r
    <2> QED
      BY <2>1, <2>2, GroupsAdded
  <1>8. fresh' = fresh + q
    BY <1>3
  <1>9. WorkFrame(r.on) /\ AtRequest(r)
    BY <1>1, <1>3 DEF WorkFrame, AtRequest
  <1>10. /\ ServerOK(groups', policies', keys', machines', fresh') /\ ClientsOK(clients', fresh')
         /\ fresh \in Nat /\ fresh' \in Nat /\ fresh <= fresh'
    <2>1. fresh \in Nat /\ fresh' \in Nat /\ fresh <= fresh'
      BY <1>5, <1>8, DataHere
    <2>2. ClientsOK(clients', fresh')
      BY <1>1, <2>1, DataHere, IssuedGrows DEF ClientsOK
    <2> QED
      BY <1>1, <1>7, <1>8, <2>1, <2>2
  <1>11. OthersKept(r.on, r.op)
    <2> HIDE DEF r
    <2> QED
      BY <1>1, <1>7, <1>10 DEF OthersKept, OnlyFresh, OnlyFreshClients
  <1>12. CASE Answers(o)
    <2>1. last_id \in Nat /\ last_id < fresh'
      <3>1. q \in {1, 2}
        BY <1>5, <1>12 DEF Answers
      <3> QED
        BY <1>8, <1>10, <3>1
    <2>2. GotoWith(c, next, {}, last_id)
      BY <1>3, <1>12
    <2>3. /\ next \in Steps /\ next \in {"insert", "makeKey", "createPolicy"}
          /\ next = "insert" <=> r.op = "store"
          /\ next = "makeKey" <=> r.op = "generate"
      BY <1>1 DEF Steps
    <2> HIDE DEF next, last_id
    <2>4. PICK r2 : Works(c, r, r2) /\ Moved(r, r2, next, {}, last_id)
      BY <1>9, <2>1, <2>2, <2>3, GotoWithWorks
    <2>5. CallOK(r2, IdsNamed(groups', r.on), IdsNamed(policies, r.on), IdsOf(keys, r.on),
                 IdsOf(clients, r.on), descriptors, deployments, unclean', overtaken)
      BY <1>1, <2>3, <2>4 DEF Moved, Fits, CallOK, StoreOK, GenerateOK, DeployOK
    <2>6. TargetsOK(r2, groups', policies, clients, fresh')
      BY <2>1, <2>3, <2>4 DEF TargetsOK, Moved
    <2>7. FitsNext(r2)
      BY <1>1, <2>4, <2>5, <2>6 DEF FitsNext, Moved
    <2>8. DataInv'
      BY <1>1, <1>4, <1>10, <2>4, WorkData
    <2> HIDE DEF r
    <2> QED
      BY <1>11, <2>4, <2>7, <2>8, WorkStep
  <1>13. CASE ~Answers(o)
    <2>1. PICK r2 : Works(c, r, r2) /\ Moved(r, r2, "failed", r.seen, r.got)
      BY <1>3, <1>9, <1>13, GotoWorks DEF Steps
    <2>2. r.op = "store" => r.on \in unclean' \/ IdsNamed(groups', r.on) = {}
      <3> SUFFICES ASSUME r.op = "store"
                   PROVE  r.on \in unclean' \/ IdsNamed(groups', r.on) = {}
        OBVIOUS
      <3>1. CASE o = "lost"
        BY <1>3, <3>1
      <3>2. CASE o = "refused"
        <4>1. groups' = groups
          BY <1>5, <1>7, <3>2
        <4>2. unclean' = unclean
          BY <1>3, <3>2
        <4>3. r.on \in unclean \/ IdsNamed(groups, r.on) = {}
          BY <1>1 DEF Fits, CallOK, StoreOK
        <4> QED
          BY <4>1, <4>2, <4>3
      <3> QED
        BY <1>5, <1>13, <3>1, <3>2 DEF Answers
    <2>3. FitsNext(r2)
      BY <1>1, <1>9, <1>10, <2>1, <2>2, FailedNext DEF Moved
    <2>4. DataInv'
      BY <1>1, <1>4, <1>10, <2>1, WorkData
    <2> HIDE DEF r
    <2> QED
      BY <1>11, <2>1, <2>3, <2>4, WorkStep
  <1> QED
    BY <1>12, <1>13

LEMMA CreatePolicyStep ==
    ASSUME IInv, NEW c \in Calls, CreatePolicy(c), UNCHANGED prVars
    PROVE  IInv'
  <1> DEFINE r == calls[c]
  <1>1. /\ r \in Call /\ Fits(r) /\ r.pc = "createPolicy" /\ r.op = "deploy"
        /\ UNCHANGED <<groups, keys, machines, clients, handed, hosts, descriptors, deployments,
                       overtaken, last>>
    BY Serving DEF CreatePolicy, At, prVars
  <1>2. r.got \in Nat /\ r.got < fresh /\ r.seen \in SUBSET Nat /\ \A i \in r.seen : i < fresh
    BY <1>1 DEF Fits, TargetsOK, Call
  <1>3. PICK o \in PostOutcomes :
           LET n == IF \E g \in groups : g.id = r.got THEN Posted(o) ELSE 0
           IN  /\ Charge(o)
               /\ policies' = policies \cup {[name |-> r.on, id |-> fresh + i, group |-> r.got] :
                                             i \in 0 .. n - 1}
               /\ fresh' = fresh + n
               /\ unclean' = IF o \in {"lost", "repeated"} THEN unclean \cup {r.on} ELSE unclean
               /\ Goto(c, IF n > 0 /\ Answers(o) THEN "vpnDone" ELSE "failed")
    BY DEF CreatePolicy
  <1>4. faults' \in 0 .. MaxFaults
    BY <1>3, DataHere, OutcomePaid DEF PostOutcomes
  <1> DEFINE q == IF \E g \in groups : g.id = r.got THEN Posted(o) ELSE 0
             pc == IF q > 0 /\ Answers(o) THEN "vpnDone" ELSE "failed"
  <1>5. q \in 0 .. 2 /\ (q > 0 => \E g \in groups : g.id = r.got)
    BY HowManyPosted
  <1>6. r.on \in Clusters
    BY <1>1 DEF Fits, CallOK, DeployOK
  <1>7. Goto(c, pc)
    BY <1>3
  <1>8. pc \in {"vpnDone", "failed"} /\ pc \in Steps
    BY DEF Steps
  <1>9. /\ ServerOK(groups, policies', keys, machines, fresh')
        /\ \A m \in Names \ {r.on} : IdsNamed(policies', m) = IdsNamed(policies, m)
        /\ OnlyFresh(policies, policies', fresh) /\ fresh <= fresh'
    <2>1. ServerOK(groups, policies, keys, machines, fresh)
      BY DataHere
    <2> DEFINE j == r.got
    <2>2. PoliciesPosted(groups, policies, policies', fresh, fresh', r.on, q, j)
      <3>1. /\ policies' = policies \cup NewPolicies(r.on, fresh, q, j)
            /\ fresh' = fresh + q
        BY <1>3 DEF NewPolicies
      <3> HIDE DEF q
      <3> QED
        BY <1>5, <1>6, <3>1 DEF PoliciesPosted
    <2> HIDE DEF q, j, r
    <2> QED
      BY <2>1, <2>2, PoliciesAdded
  <1> HIDE DEF q, pc
  <1>10. WorkFrame(r.on) /\ AtRequest(r)
    BY <1>1, <1>3 DEF WorkFrame, AtRequest
  <1>11. /\ ServerOK(groups', policies', keys', machines', fresh') /\ ClientsOK(clients', fresh')
         /\ fresh \in Nat /\ fresh' \in Nat /\ fresh <= fresh'
    <2>1. fresh \in Nat /\ fresh' \in Nat /\ fresh <= fresh'
      BY <1>9, DataHere DEF ServerOK
    <2>2. ClientsOK(clients', fresh')
      BY <1>1, <2>1, DataHere, IssuedGrows DEF ClientsOK
    <2> QED
      BY <1>1, <1>9, <2>1, <2>2
  <1>12. OthersKept(r.on, r.op)
    <2> HIDE DEF r
    <2> QED
      BY <1>1, <1>9, <1>11 DEF OthersKept, OnlyFresh, OnlyFreshClients
  <1>13. PICK r2 : Works(c, r, r2) /\ Moved(r, r2, pc, r.seen, r.got)
    BY <1>7, <1>8, <1>10, GotoWorks
  <1>14. CallOK(r2, IdsNamed(groups, r.on), IdsNamed(policies', r.on), IdsOf(keys, r.on),
                IdsOf(clients, r.on), descriptors, deployments, unclean', overtaken)
    BY <1>1, <1>8, <1>13 DEF Moved, Fits, CallOK, DeployOK
  <1>15. TargetsOK(r2, groups, policies', clients, fresh')
    BY <1>2, <1>8, <1>11, <1>13 DEF TargetsOK, Moved
  <1>16. FitsNext(r2)
    BY <1>1, <1>13, <1>14, <1>15 DEF FitsNext, Moved
  <1>17. DataInv'
    BY <1>1, <1>4, <1>11, <1>13, WorkData
  <1> HIDE DEF r
  <1> QED
    BY <1>12, <1>13, <1>16, <1>17, WorkStep

LEMMA GenerateSetupKeyStep ==
    ASSUME IInv, NEW c \in Calls, GenerateSetupKey(c), UNCHANGED prVars
    PROVE  IInv'
  <1> DEFINE r == calls[c]
  <1>1. /\ r \in Call /\ Fits(r) /\ r.pc = "makeKey" /\ r.op = "generate"
        /\ UNCHANGED <<groups, policies, machines, unclean, clients, handed, hosts, descriptors,
                       deployments, overtaken, last>>
    BY Serving DEF GenerateSetupKey, At, prVars
  <1>2. /\ r.got \in Nat /\ r.got < fresh /\ r.seen \in SUBSET Nat /\ \A i \in r.seen : i < fresh
        /\ r.on \in Peers
    BY <1>1, DataHere DEF Fits, TargetsOK, Call, CallOK, GenerateOK
  <1> DEFINE found == Named(groups, r.on)
             many(o) == IF Cardinality(found) = 1 THEN Posted(o) ELSE 0
             made(o) == many(o) > 0 /\ Answers(o)
  <1>3. PICK o \in PostOutcomes :
           /\ Charge(o)
           /\ keys' = keys \cup NewKeys(r.on, fresh, many(o), found)
           /\ fresh' = fresh + many(o)
           /\ calls' = [calls EXCEPT
                 ![c].pc = IF made(o) THEN "vpnDone" ELSE "failed",
                 ![c].key = IF made(o) THEN fresh + many(o) - 1 ELSE 0]
    BY Zenon DEF GenerateSetupKey, NewKeys
  <1>4. faults' \in 0 .. MaxFaults
    BY <1>3, DataHere, OutcomePaid DEF PostOutcomes
  <1> DEFINE q == many(o)
             pc == IF q > 0 /\ Answers(o) THEN "vpnDone" ELSE "failed"
             key == IF q > 0 /\ Answers(o) THEN fresh + q - 1 ELSE 0
             r2 == [r EXCEPT !.pc = pc, !.key = key]
  <1>5. q \in 0 .. 2 /\ (q > 0 => Cardinality(Named(groups, r.on)) = 1)
    BY HowManyPosted
  <1>6. calls' = [calls EXCEPT ![c] = r2] /\ fresh' = fresh + q
    BY <1>3
  <1>7. /\ ServerOK(groups, policies, keys', machines, fresh')
        /\ \A m \in Peers \ {r.on} : IdsOf(keys', m) = IdsOf(keys, m)
        /\ IdsOf(keys, r.on) \subseteq IdsOf(keys', r.on) /\ fresh <= fresh'
        /\ q > 0 => fresh + q - 1 \in IdsOf(keys', r.on)
    <2>1. ServerOK(groups, policies, keys, machines, fresh) /\ IsFiniteSet(groups)
      BY DataHere
    <2>2. keys' = keys \cup NewKeys(r.on, fresh, q, Named(groups, r.on))
      BY <1>3
    <2> HIDE DEF q, r
    <2>3. q > 0 => \E g \in Named(groups, r.on) : Named(groups, r.on) = {g}
      BY <1>5, <2>1, Looked
    <2>4. KeysPosted(groups, keys, keys', fresh, fresh', r.on, q)
      BY <1>2, <1>5, <1>6, <2>2, <2>3 DEF KeysPosted
    <2> QED
      BY <2>1, <2>4, KeysAdded
  <1>8. /\ pc \in {"vpnDone", "failed"} /\ key \in Nat
        /\ pc = "vpnDone" => key \in IdsOf(keys', r.on)
    <2>1. q > 0 => fresh + q - 1 \in Nat
      BY <1>5, DataHere
    <2> HIDE DEF q, r
    <2> QED
      BY <1>7, <2>1
  <1> HIDE DEF q, pc, key
  <1>9. /\ r2 \in Call /\ r2.op = r.op /\ r2.on = r.on /\ r2.pc = pc /\ r2.key = key
        /\ r2.seen = r.seen /\ r2.got = r.got /\ r2.todo = r.todo
    BY <1>1, <1>8 DEF Call
  <1> HIDE DEF r2
  <1>10. WorkFrame(r.on) /\ AtRequest(r)
    BY <1>1 DEF WorkFrame, AtRequest
  <1>11. Works(c, r, r2)
    BY <1>6, <1>8, <1>9, <1>10 DEF Works, WorkFrame, AtRequest
  <1>12. /\ ServerOK(groups', policies', keys', machines', fresh') /\ ClientsOK(clients', fresh')
         /\ fresh \in Nat /\ fresh' \in Nat /\ fresh <= fresh'
    <2>1. fresh \in Nat /\ fresh' \in Nat /\ fresh <= fresh'
      BY <1>7, DataHere DEF ServerOK
    <2>2. ClientsOK(clients', fresh')
      BY <1>1, <2>1, DataHere, IssuedGrows DEF ClientsOK
    <2> QED
      BY <1>1, <1>7, <2>1, <2>2
  <1>13. OthersKept(r.on, r.op)
    <2> HIDE DEF r
    <2> QED
      BY <1>1, <1>7, <1>12 DEF OthersKept, OnlyFresh, OnlyFreshClients
  <1>14. CallOK(r2, IdsNamed(groups, r.on), IdsNamed(policies, r.on), IdsOf(keys', r.on),
                IdsOf(clients, r.on), descriptors, deployments, unclean, overtaken)
    BY <1>1, <1>8, <1>9 DEF Fits, CallOK, GenerateOK
  <1>15. TargetsOK(r2, groups, policies, clients, fresh')
    BY <1>2, <1>8, <1>9, <1>12 DEF TargetsOK
  <1>16. FitsNext(r2)
    BY <1>1, <1>9, <1>14, <1>15 DEF FitsNext
  <1>17. DataInv'
    BY <1>1, <1>4, <1>11, <1>12, WorkData
  <1> HIDE DEF r
  <1> QED
    BY <1>11, <1>13, <1>16, <1>17, WorkStep

LEMMA RequestStep ==
    ASSUME IInv, NEW c \in Calls, Request(c), UNCHANGED prVars
    PROVE  IInv'
  BY CreateGroupStep, DeletePeerStep, RevokeKeysStep, DeleteGroupStep,
     GenerateVpnPeerConfigurationStep, LogoutStep, GenerateSetupKeyStep, GetPolicyStep,
     DeletePolicyStep, GetClusterGroupStep, ResolveMemberStep, CreatePolicyStep
  DEF Request

-----------------------------------------------------------------------------
(* The end of a call.                                                      *)

LEMMA IdleFits ==
    ASSUME NEW gs, NEW ps, NEW cs, NEW fr \in Nat \ {0},
           NEW G, NEW P, NEW K, NEW C, NEW D, NEW E, NEW U, NEW O
    PROVE  /\ Idle \in Call /\ Idle.op = "idle" /\ Idle.on = NoName /\ Idle.pc = "idle"
           /\ TargetsOK(Idle, gs, ps, cs, fr)
           /\ CallOK(Idle, G, P, K, C, D, E, U, O)
           /\ ~ IsWriting(Idle)
  <1>1. /\ Idle.op = "idle" /\ Idle.on = NoName /\ Idle.pc = "idle" /\ Idle.seen = {}
        /\ Idle.got = 0 /\ Idle.key = 0 /\ Idle.todo = {} /\ Idle.since = 0 /\ ~Idle.client
    BY DEF Idle
  <1>2. Idle \in Call
    BY DEF Idle, Call
  <1>3. TargetsOK(Idle, gs, ps, cs, fr)
    BY <1>1 DEF TargetsOK
  <1>4. CallOK(Idle, G, P, K, C, D, E, U, O) /\ ~ IsWriting(Idle)
    BY <1>1 DEF CallOK, IsWriting
  <1> QED
    BY <1>1, <1>2, <1>3, <1>4

\* A call r that ends: what changes concerns its own name.
Ends(c, r) ==
    /\ r = calls[c] /\ r.op # "idle" /\ calls' = [calls EXCEPT ![c] = Idle]
    /\ UNCHANGED <<groups, policies, keys, overtaken>>
    /\ \A n \in Names \ {r.on} :
        /\ (n \in descriptors => n \in descriptors') /\ (n \in descriptors' => n \in descriptors)
        /\ (n \in deployments => n \in deployments') /\ (n \in deployments' => n \in deployments)
        /\ (n \in unclean => n \in unclean') /\ (n \in unclean' => n \in unclean)
    /\ \A p \in Peers \ {r.on} : last'[p] = last[p] /\ IdsOf(clients', p) = IdsOf(clients, p)
    /\ OnlyFreshClients(clients, clients', fresh) /\ fresh \in Nat /\ fresh' \in Nat /\ fresh <= fresh'

\* The others at work on the same name.
OthersOnName(c, r) ==
    \A d \in Calls \ {c} : calls[d].on = r.on =>
        /\ CallOK(calls[d], IdsNamed(groups', r.on), IdsNamed(policies', r.on), IdsOf(keys', r.on),
                  IdsOf(clients', r.on), descriptors', deployments', unclean', overtaken')
        /\ calls[d].op = "delete" => last'[r.on] = NoSetup

NameNext(n) ==
    /\ n \in Peers => PeerOK(n, IdsNamed(groups', n), IdsOf(keys', n), IdsOf(clients', n),
                             descriptors', unclean', last'[n], OpsOn(n)')
    /\ n \in Clusters => ClusterOK(n, IdsNamed(groups', n), IdsNamed(policies', n),
                                   deployments', overtaken')

LEMMA EndStep ==
    ASSUME IInv, DataInv', NEW c \in Calls, NEW r, Ends(c, r), OthersOnName(c, r), NameNext(r.on)
    PROVE  IInv'
  <1>1. /\ r = calls[c] /\ r \in Call /\ r.op # "idle" /\ r.on \in Names
        /\ UNCHANGED <<groups, policies, keys, overtaken>>
        /\ fresh \in Nat /\ fresh' \in Nat /\ fresh <= fresh'
        /\ DOMAIN calls' = Calls /\ calls'[c] = Idle
        /\ \A d \in Calls \ {c} : calls'[d] = calls[d]
    BY Serving DEF Ends
  <1>2. /\ groups' \subseteq [name : Names, id : Issued(fresh'), peers : SUBSET Issued(fresh')]
        /\ policies' \subseteq [name : Clusters, id : Issued(fresh'), group : Issued(fresh')]
        /\ clients' \subseteq [peer : Peers, id : Issued(fresh')]
        /\ fresh' \in Nat \ {0}
    BY DEF DataInv, ServerOK, ClientsOK
  <1>3. ASSUME NEW d \in Calls PROVE FitsNext(calls'[d])
    <2>1. CASE d = c
      BY <1>1, <1>2, <2>1, IdleFits DEF FitsNext
    <2>2. CASE d # c
      <3> DEFINE s == calls[d]
      <3>1. s \in Call /\ Fits(s) /\ calls'[d] = s
        BY <1>1, <2>2, Serving
      <3>2. TargetsOK(s, groups', policies', clients', fresh')
        <4>1. OnlyFresh(groups, groups', fresh) /\ OnlyFresh(policies, policies', fresh)
          BY <1>1 DEF OnlyFresh
        <4>2. OnlyFreshClients(clients, clients', fresh) /\ TargetsOK(s, groups, policies, clients, fresh)
          BY <3>1 DEF Ends, Fits
        <4> HIDE DEF s
        <4> QED
          BY <1>1, <1>2, <3>1, <4>1, <4>2, TargetsKept
      <3>3. CallOK(s, IdsNamed(groups', s.on), IdsNamed(policies', s.on), IdsOf(keys', s.on),
                   IdsOf(clients', s.on), descriptors', deployments', unclean', overtaken')
        <4>1. CASE s.on = r.on
          BY <2>2, <4>1 DEF OthersOnName
        <4>2. CASE s.on # r.on /\ s.on \in Names
          <5>1. /\ IdsNamed(groups', s.on) = IdsNamed(groups, s.on)
                /\ IdsNamed(policies', s.on) = IdsNamed(policies, s.on)
                /\ IdsOf(keys', s.on) = IdsOf(keys, s.on)
                /\ s.on \in Peers => IdsOf(clients', s.on) = IdsOf(clients, s.on)
                /\ (s.on \in descriptors => s.on \in descriptors')
                /\ (s.on \in descriptors' => s.on \in descriptors)
                /\ (s.on \in deployments => s.on \in deployments')
                /\ (s.on \in unclean => s.on \in unclean')
                /\ (s.on \in overtaken => s.on \in overtaken')
                /\ descriptors \subseteq Peers
            BY <1>1, <4>2, Serving DEF Ends
          <5>2. CallOK(s, IdsNamed(groups, s.on), IdsNamed(policies, s.on), IdsOf(keys, s.on),
                       IdsOf(clients, s.on), descriptors, deployments, unclean, overtaken)
            BY <3>1 DEF Fits
          <5> HIDE DEF s
          <5> QED
            BY <4>2, <5>1, <5>2, CallKept
        <4>3. CASE s.on \notin Names
          <5>1. s.op = "idle"
            BY <4>3, Serving
          <5>2. s = Idle
            BY <3>1, <5>1 DEF Fits, CallOK
          <5> QED
            BY <1>2, <5>2, IdleFits
        <4> QED
          BY <4>1, <4>2, <4>3
      <3> QED
        BY <3>1, <3>2, <3>3 DEF FitsNext
    <2> QED
      BY <2>1, <2>2
  <1>4. CallsInv'
    BY <1>3, CallsInvNext
  <1>5. \A n \in Names \ {r.on} : OpsOn(n)' = OpsOn(n)
    BY <1>1, NamesApart, IdleFits, <1>2 DEF OpsOn
  <1>6. ASSUME NEW p \in Peers
        PROVE  PeerOK(p, IdsNamed(groups', p), IdsOf(keys', p), IdsOf(clients', p), descriptors',
                      unclean', last'[p], OpsOn(p)')
    <2>1. CASE p = r.on
      BY <2>1 DEF NameNext
    <2>2. CASE p # r.on
      <3>1. PeerOK(p, IdsNamed(groups, p), IdsOf(keys, p), IdsOf(clients, p), descriptors,
                   unclean, last[p], OpsOn(p))
        BY DEF IInv, NamesInv
      <3>2. p \in Names
        BY NamesApart
      <3>3. /\ IdsNamed(groups', p) = IdsNamed(groups, p) /\ IdsOf(keys', p) = IdsOf(keys, p)
            /\ IdsOf(clients', p) = IdsOf(clients, p) /\ last'[p] = last[p] /\ OpsOn(p)' = OpsOn(p)
            /\ (p \in descriptors => p \in descriptors') /\ (p \in unclean => p \in unclean')
        BY <1>1, <1>5, <2>2, <3>2 DEF Ends
      <3> QED
        BY <3>1, <3>3 DEF PeerOK
    <2> QED
      BY <2>1, <2>2
  <1>7. ASSUME NEW k \in Clusters
        PROVE  ClusterOK(k, IdsNamed(groups', k), IdsNamed(policies', k), deployments', overtaken')
    <2>1. CASE k = r.on
      BY <2>1 DEF NameNext
    <2>2. CASE k # r.on
      <3>1. ClusterOK(k, IdsNamed(groups, k), IdsNamed(policies, k), deployments, overtaken)
        BY DEF IInv, NamesInv
      <3>2. k \in deployments => k \in deployments'
        BY <2>2, NamesApart DEF Ends
      <3> QED
        BY <1>1, <3>1, <3>2 DEF ClusterOK
    <2> QED
      BY <2>1, <2>2
  <1>8. ASSUME NEW d \in Calls, calls'[d].op = "delete" PROVE last'[calls'[d].on] = NoSetup
    <2>1. d # c /\ calls'[d] = calls[d]
      BY <1>1, <1>2, <1>8, IdleFits
    <2>2. CASE calls[d].on = r.on
      BY <1>8, <2>1, <2>2 DEF OthersOnName
    <2>3. CASE calls[d].on # r.on
      <3>1. calls[d].on \in Peers
        BY <1>8, <2>1, Serving DEF Fits, CallOK, DeleteOK
      <3>2. last[calls[d].on] = NoSetup
        BY <1>8, <2>1 DEF IInv, NamesInv
      <3> QED
        BY <2>1, <2>3, <3>1, <3>2 DEF Ends
    <2> QED
      BY <2>2, <2>3
  <1>9. NamesInv'
    BY <1>6, <1>7, <1>8 DEF NamesInv
  <1>10. LocksInv'
    <2>1. ASSUME NEW d \in Calls, NEW e \in Calls, d # e
          PROVE  Exclusive(calls'[d], calls'[e], overtaken')
      <3>1. Exclusive(calls[d], calls[e], overtaken)
        BY <2>1 DEF IInv, LocksInv
      <3>2. Idle.op = "idle" /\ ~ IsWriting(Idle)
        BY <1>2, IdleFits
      <3> QED
        BY <1>1, <3>1, <3>2 DEF Exclusive
    <2> QED
      BY <2>1 DEF LocksInv
  <1> QED
    BY <1>4, <1>9, <1>10 DEF IInv

\* Who may be at work on the name of a call.
LEMMA Company ==
    ASSUME IInv, NEW c \in Calls, NEW d \in Calls \ {c}, calls[c].op # "idle",
           calls[d].on = calls[c].on
    PROVE  /\ calls[c].op \notin {"store", "delete"}
           /\ calls[c].op = "generate" => calls[d].op = "generate"
           /\ calls[c].op \in {"deploy", "undeploy"} =>
                calls[d].op \in {"deploy", "undeploy"} /\ calls[c].on \in Clusters
  <1> DEFINE r == calls[c]
             s == calls[d]
  <1>1. /\ r \in Call /\ s \in Call /\ Fits(r) /\ Fits(s) /\ r.on = s.on /\ r.on \in Names
        /\ Exclusive(r, s, overtaken) /\ Exclusive(s, r, overtaken) /\ descriptors \subseteq Peers
    BY Serving DEF IInv, LocksInv
  <1>2. s.op # "idle"
    BY <1>1, NamesApart DEF Fits, CallOK, Idle
  <1>3. /\ s.op \in {"store", "delete", "generate"} => s.on \in Peers
        /\ s.op \in {"deploy", "undeploy"} => s.on \in Clusters
        /\ r.op \in {"store", "delete", "generate"} => r.on \in Peers
        /\ r.op \in {"deploy", "undeploy"} => r.on \in Clusters
    BY <1>1 DEF Fits, CallOK, StoreOK, DeleteOK, GenerateOK, DeployOK, UndeployOK
  <1>4. /\ s.op \in {"store", "delete"} => IsWriting(s)
        /\ r.op \in {"store", "delete"} => IsWriting(r)
    BY <1>1 DEF Fits, CallOK, StoreOK, DeleteOK, IsWriting
  <1>5. /\ r.op \in {"store", "delete", "generate", "deploy", "undeploy"}
        /\ s.op \in {"store", "delete", "generate", "deploy", "undeploy"}
    BY <1>1, <1>2 DEF Call
  <1> QED
    BY <1>1, <1>3, <1>4, <1>5, NamesApart DEF Exclusive, IsWriting

\* When a call of a cluster ends or begins, the others on the cluster stay.
LEMMA OthersSame ==
    ASSUME IInv, NEW c \in Calls, NEW r, r = calls[c],
           UNCHANGED <<groups, policies, keys, clients, descriptors, deployments, unclean,
                       overtaken, last>>
    PROVE  OthersOnName(c, r)
  <1> SUFFICES ASSUME NEW d \in Calls \ {c}, calls[d].on = r.on
               PROVE  /\ CallOK(calls[d], IdsNamed(groups, r.on), IdsNamed(policies, r.on),
                                IdsOf(keys, r.on), IdsOf(clients, r.on), descriptors,
                                deployments, unclean, overtaken)
                      /\ calls[d].op = "delete" => last[r.on] = NoSetup
    BY DEF OthersOnName
  <1> QED
    BY Serving DEF Fits, IInv, NamesInv

LEMMA AssignStep ==
    ASSUME IInv, NEW c \in Calls, Assign(c)
    PROVE  IInv'
  <1> DEFINE r == calls[c]
  <1>1. /\ r \in Call /\ Fits(r) /\ r.op = "deploy" /\ calls' = [calls EXCEPT ![c] = Idle]
    BY Serving DEF Assign, At
  <1>2. UNCHANGED <<groups, policies, keys, machines, fresh, clients, unclean, handed, hosts,
                    descriptors, deployments, overtaken, last, faults>>
    BY DEF Assign, serverVars
  <1>3. DataInv'
    <2>1. Idle \in Call
      BY DataHere, IdleFits
    <2>2. calls' \in [Calls -> Call]
      BY <1>1, <2>1, DataHere
    <2> QED
      BY <1>2, <2>2 DEF IInv, DataInv
  <1>4. Ends(c, r)
    BY <1>1, <1>2, Serving DEF Ends, OnlyFreshClients
  <1>5. OthersOnName(c, r)
    BY <1>2, OthersSame
  <1>6. NameNext(r.on)
    <2>1. r.on \in Clusters
      BY <1>1 DEF Fits, CallOK, DeployOK
    <2>2. ClusterOK(r.on, IdsNamed(groups, r.on), IdsNamed(policies, r.on), deployments, overtaken)
      BY <2>1 DEF IInv, NamesInv
    <2> QED
      BY <1>2, <2>1, <2>2, NamesApart DEF NameNext
  <1> HIDE DEF r
  <1> QED
    BY <1>3, <1>4, <1>5, <1>6, EndStep

LEMMA FailStep ==
    ASSUME IInv, NEW c \in Calls, Fail(c)
    PROVE  IInv'
  <1> DEFINE r == calls[c]
  <1>1. /\ r \in Call /\ Fits(r) /\ calls' = [calls EXCEPT ![c] = Idle]
        /\ r.pc = "failed" \/ (r.op = "store" /\ r.pc = "vpnDone")
        /\ unclean' = IF GroupMade(c) THEN unclean \cup {r.on} ELSE unclean
        /\ last' = IF r.op = "generate" THEN [last EXCEPT ![r.on] = NoSetup] ELSE last
        /\ UNCHANGED <<groups, policies, keys, machines, fresh, clients, handed, hosts,
                       descriptors, deployments, overtaken, faults>>
    BY Serving DEF Fail, At, serverVars
  <1>2. r.op # "idle" /\ r.on \in Names
    <2>1. r.op # "idle"
      BY <1>1 DEF Fits, CallOK, Idle
    <2> QED
      BY <2>1, Serving
  <1>3. last' \in [Peers -> Credentials \cup {NoSetup}] /\ \A p \in Peers \ {r.on} : last'[p] = last[p]
    <2>1. last \in [Peers -> Credentials \cup {NoSetup}]
      BY DEF IInv, DataInv
    <2> QED
      BY <1>1, <2>1
  <1>4. DataInv'
    <2>1. Idle \in Call
      BY DataHere, IdleFits
    <2>2. calls' \in [Calls -> Call]
      BY <1>1, <2>1, DataHere
    <2> QED
      BY <1>1, <1>3, <2>2 DEF IInv, DataInv
  <1>5. Ends(c, r)
    BY <1>1, <1>2, <1>3, Serving DEF Ends, OnlyFreshClients
  <1>6. CASE r.op \in {"store", "delete"}
    <2>1. OthersOnName(c, r)
      BY <1>2, <1>6, Company DEF OthersOnName
    <2>2. r.on \in Peers
      BY <1>1, <1>6, DataHere DEF Fits, CallOK, StoreOK, DeleteOK
    <2>3. PeerOK(r.on, IdsNamed(groups, r.on), IdsOf(keys, r.on), IdsOf(clients, r.on), descriptors,
                 unclean, last[r.on], OpsOn(r.on))
      BY <2>2 DEF IInv, NamesInv
    <2>4. CASE r.op = "delete"
      <3>1. r.on \in descriptors /\ last[r.on] = NoSetup /\ last' = last
        BY <1>1, <2>4 DEF Fits, CallOK, DeleteOK, IInv, NamesInv
      <3>2. NameNext(r.on)
        BY <1>1, <2>2, <3>1, NamesApart DEF NameNext, PeerOK
      <3> HIDE DEF r
      <3> QED
        BY <1>4, <1>5, <2>1, <3>2, EndStep
    <2>5. CASE r.op = "store"
      <3>1. r.on \notin descriptors /\ last' = last
        BY <1>1, <2>5 DEF Fits, CallOK, StoreOK
      <3>2. r.on \in unclean' \/ IdsNamed(groups, r.on) = {}
        BY <1>1, <2>5, <3>1 DEF GroupMade, Fits, CallOK, StoreOK
      <3>3. NameNext(r.on)
        BY <1>1, <2>2, <2>3, <3>1, <3>2, NamesApart DEF NameNext, PeerOK
      <3> HIDE DEF r
      <3> QED
        BY <1>4, <1>5, <2>1, <3>3, EndStep
    <2> QED
      BY <1>6, <2>4, <2>5
  <1>7. CASE r.op = "generate"
    <2>1. r.on \in descriptors /\ r.on \in Peers /\ unclean' = unclean
      BY <1>1, <1>7, DataHere DEF GroupMade, Fits, CallOK, GenerateOK
    <2>2. last'[r.on] = NoSetup
      <3>1. last \in [Peers -> Credentials \cup {NoSetup}]
        BY DEF IInv, DataInv
      <3> QED
        BY <1>1, <1>7, <2>1, <3>1
    <2>3. OthersOnName(c, r)
      <3> SUFFICES ASSUME NEW d \in Calls \ {c}, calls[d].on = r.on
                   PROVE  /\ CallOK(calls[d], IdsNamed(groups, r.on), IdsNamed(policies, r.on),
                                    IdsOf(keys, r.on), IdsOf(clients, r.on), descriptors,
                                    deployments, unclean, overtaken)
                          /\ calls[d].op # "delete"
        BY <1>1, <2>1 DEF OthersOnName
      <3> QED
        BY <1>2, <1>7, Serving, Company DEF Fits
    <2>4. NameNext(r.on)
      BY <1>1, <2>1, <2>2, NamesApart DEF NameNext, PeerOK
    <2> HIDE DEF r
    <2> QED
      BY <1>4, <1>5, <2>3, <2>4, EndStep
  <1>8. CASE r.op \in {"deploy", "undeploy"}
    <2>1. UNCHANGED <<last, unclean>> /\ r.on \in Clusters
      BY <1>1, <1>8 DEF GroupMade, Fits, CallOK, DeployOK, UndeployOK
    <2>2. OthersOnName(c, r)
      BY <1>1, <2>1, OthersSame
    <2>3. ClusterOK(r.on, IdsNamed(groups, r.on), IdsNamed(policies, r.on), deployments, overtaken)
      BY <2>1 DEF IInv, NamesInv
    <2>4. NameNext(r.on)
      BY <1>1, <2>1, <2>3, NamesApart DEF NameNext
    <2> HIDE DEF r
    <2> QED
      BY <1>4, <1>5, <2>2, <2>4, EndStep
  <1>9. r.op \in {"store", "delete", "generate", "deploy", "undeploy"}
    BY <1>1, <1>2 DEF Call
  <1> QED
    BY <1>6, <1>7, <1>8, <1>9

\* One more client, cs2, or none.
LEMMA ClientAdded ==
    ASSUME NEW cs, NEW fr \in Nat \ {0}, ClientsOK(cs, fr), NEW p \in Peers, NEW c2,
           c2 = cs \cup {[peer |-> p, id |-> fr]}
    PROVE  /\ ClientsOK(c2, fr + 1) /\ OnlyFreshClients(cs, c2, fr)
           /\ \A q \in Peers \ {p} : IdsOf(c2, q) = IdsOf(cs, q)
           /\ IdsOf(cs, p) \subseteq IdsOf(c2, p) /\ fr \in IdsOf(c2, p)
  <1> DEFINE x == [peer |-> p, id |-> fr]
  <1>1. x.peer = p /\ x.id = fr /\ fr + 1 \in Nat /\ fr <= fr + 1 /\ c2 = cs \cup {x}
    OBVIOUS
  <1>2. x \in [peer : Peers, id : Issued(fr + 1)]
    BY DEF Issued
  <1> HIDE DEF x
  <1>3. Issued(fr) \subseteq Issued(fr + 1)
    BY <1>1, IssuedGrows
  <1>4. c2 \subseteq [peer : Peers, id : Issued(fr + 1)]
    BY <1>1, <1>2, <1>3 DEF ClientsOK
  <1>5. UniqueIds(c2)
    <2>1. UniqueIds({x})
      BY DEF UniqueIds
    <2>2. (\A y \in cs : y.id \in Issued(fr)) /\ \A y \in {x} : y.id \in Nat /\ y.id >= fr
      BY <1>1 DEF ClientsOK
    <2> QED
      BY <1>1, <2>1, <2>2, UniqueAfterAdding DEF ClientsOK
  <1>6. OnlyFreshClients(cs, c2, fr)
    BY <1>1 DEF OnlyFreshClients
  <1> QED
    BY <1>1, <1>4, <1>5, <1>6 DEF ClientsOK, IdsOf

LEMMA RegisterClientStep ==
    ASSUME IInv, NEW c \in Calls, RegisterClient(c)
    PROVE  IInv'
  <1> DEFINE r == calls[c]
             setup == [peer |-> r.on, key |-> r.key, client |-> fresh]
  <1>1. /\ r \in Call /\ Fits(r) /\ r.op = "generate" /\ r.pc = "register"
        /\ calls' = [calls EXCEPT ![c] = Idle]
        /\ UNCHANGED <<groups, policies, keys, machines, hosts, descriptors, deployments, unclean,
                       overtaken>>
    BY Serving DEF RegisterClient, At
  <1>2. PICK o \in DeleteOutcomes :
           /\ Charge(o)
           /\ clients' = IF o = "refused" THEN clients ELSE clients \cup {[peer |-> r.on, id |-> fresh]}
           /\ fresh' = IF o = "refused" THEN fresh ELSE fresh + 1
           /\ handed' = IF o = "ok" THEN handed \cup {setup} ELSE handed
           /\ last' = [last EXCEPT ![r.on] = IF o = "ok" THEN setup ELSE NoSetup]
    BY DEF RegisterClient
  <1>3. faults' \in 0 .. MaxFaults
    BY <1>2, DataHere, OutcomePaid DEF DeleteOutcomes
  <1>4. /\ r.on \in Peers /\ r.on \in descriptors /\ r.key \in IdsOf(keys, r.on)
        /\ r.key \in Nat /\ fresh \in Nat \ {0}
    BY <1>1, DataHere DEF Fits, CallOK, GenerateOK, Call
  <1>5. setup \in Credentials /\ setup.key = r.key /\ setup.client = fresh
    BY <1>4 DEF Credentials
  <1> HIDE DEF setup
  <1>6. /\ ClientsOK(clients', fresh') /\ OnlyFreshClients(clients, clients', fresh)
        /\ \A q \in Peers \ {r.on} : IdsOf(clients', q) = IdsOf(clients, q)
        /\ o # "refused" => fresh \in IdsOf(clients', r.on)
        /\ fresh' \in Nat \ {0} /\ fresh <= fresh'
    <2>1. CASE o = "refused"
      <3>1. clients' = clients /\ fresh' = fresh
        BY <1>2, <2>1
      <3> QED
        BY <2>1, <3>1, DataHere DEF OnlyFreshClients
    <2>2. CASE o # "refused"
      <3>1. clients' = clients \cup {[peer |-> r.on, id |-> fresh]} /\ fresh' = fresh + 1
        BY <1>2, <2>2
      <3>2. fresh' \in Nat \ {0} /\ fresh <= fresh'
        BY <1>4, <3>1
      <3> HIDE DEF r
      <3> QED
        BY <1>4, <3>1, <3>2, DataHere, ClientAdded
    <2> QED
      BY <2>1, <2>2
  <1>7. ServerOK(groups', policies', keys', machines', fresh')
    <2>1. Issued(fresh) \subseteq Issued(fresh')
      BY <1>4, <1>6, IssuedGrows
    <2>2. ServerOK(groups, policies, keys, machines, fresh)
      BY DataHere
    <2>3. ServerOK(groups, policies, keys, machines, fresh')
      BY <1>6, <2>1, <2>2 DEF ServerOK
    <2> QED
      BY <1>1, <2>3
  <1>8. /\ last' \in [Peers -> Credentials \cup {NoSetup}]
        /\ \A p \in Peers \ {r.on} : last'[p] = last[p]
        /\ last'[r.on] = IF o = "ok" THEN setup ELSE NoSetup
    <2>1. last \in [Peers -> Credentials \cup {NoSetup}]
      BY DEF IInv, DataInv
    <2> QED
      BY <1>2, <1>4, <1>5, <2>1
  <1>9. DataInv'
    <2>1. Idle \in Call
      BY DataHere, IdleFits
    <2>2. calls' \in [Calls -> Call] /\ handed' \subseteq Credentials
      BY <1>1, <1>2, <1>5, <2>1 DEF IInv, DataInv
    <2>3. \A h \in Hosts : hosts'[h].vpn \in 0 .. fresh' - 1
      <3>1. \A h \in Hosts : hosts[h].vpn \in 0 .. fresh - 1
        BY DEF IInv, DataInv
      <3> QED
        BY <1>1, <1>4, <1>6, <3>1
    <2> QED
      BY <1>1, <1>3, <1>6, <1>7, <1>8, <2>2, <2>3 DEF IInv, DataInv
  <1>10. Ends(c, r)
    BY <1>1, <1>4, <1>6, <1>8 DEF Ends
  <1>11. OthersOnName(c, r)
    <2> SUFFICES ASSUME NEW d \in Calls \ {c}, calls[d].on = r.on
                 PROVE  /\ CallOK(calls[d], IdsNamed(groups', r.on), IdsNamed(policies', r.on),
                                  IdsOf(keys', r.on), IdsOf(clients', r.on), descriptors',
                                  deployments', unclean', overtaken')
                        /\ calls[d].op # "delete"
      BY DEF OthersOnName
    <2>1. calls[d].op = "generate"
      BY <1>1, Company
    <2>2. GenerateOK(calls[d], IdsOf(keys, r.on), descriptors)
      BY <2>1, Serving DEF Fits, CallOK
    <2> QED
      BY <1>1, <2>1, <2>2 DEF CallOK
  <1>12. NameNext(r.on)
    <2>1. /\ last'[r.on] # NoSetup => last'[r.on].key \in IdsOf(keys', r.on)
          /\ last'[r.on] # NoSetup => last'[r.on].client \in IdsOf(clients', r.on)
      BY <1>1, <1>4, <1>5, <1>6, <1>8
    <2> QED
      BY <1>1, <1>4, <2>1, NamesApart DEF NameNext, PeerOK
  <1> HIDE DEF r
  <1> QED
    BY <1>9, <1>10, <1>11, <1>12, EndStep

LEMMA CommitStep ==
    ASSUME IInv, NEW c \in Calls, Commit(c)
    PROVE  IInv'
  <1> DEFINE r == calls[c]
             op(o) == IF o = "ok" THEN r.op ELSE "rolled back"
  <1>1. /\ r \in Call /\ Fits(r)
        /\ \/ r.op = "store" /\ r.pc = "commit"
           \/ r.op \in {"delete", "undeploy"} /\ r.pc = "vpnDone"
        /\ calls' = [calls EXCEPT ![c] = Idle]
        /\ UNCHANGED <<groups, policies, keys, machines, fresh, clients, handed, hosts, last,
                       overtaken>>
    BY Serving DEF Commit, At, serverVars
  <1>2. PICK o \in ReadOutcomes :
           /\ Charge(o)
           /\ descriptors' = CASE op(o) = "store"  -> descriptors \cup {r.on}
                               [] op(o) = "delete" -> descriptors \ {r.on}
                               [] OTHER            -> descriptors
           /\ deployments' = IF op(o) = "undeploy" THEN deployments \ {r.on} ELSE deployments
           /\ unclean' = IF o # "ok" THEN unclean \cup {r.on} ELSE unclean
    BY DEF Commit
  <1>3. faults' \in 0 .. MaxFaults
    BY <1>2, DataHere, OutcomePaid DEF ReadOutcomes
  <1>4. /\ r.on \in Names /\ (r.op \in {"store", "delete"} => r.on \in Peers)
        /\ r.op = "undeploy" => r.on \in Clusters
    BY <1>1, Serving, DataHere DEF Fits, CallOK, StoreOK, DeleteOK, UndeployOK
  <1>5. /\ descriptors' \subseteq Peers /\ deployments' \subseteq Clusters
        /\ \A n \in Names \ {r.on} :
            /\ (n \in descriptors => n \in descriptors') /\ (n \in descriptors' => n \in descriptors)
            /\ (n \in deployments => n \in deployments') /\ (n \in deployments' => n \in deployments)
            /\ (n \in unclean => n \in unclean') /\ (n \in unclean' => n \in unclean)
    <2>1. descriptors' \in {descriptors \cup {r.on}, descriptors \ {r.on}, descriptors}
      BY <1>2
    <2>2. deployments' \in {deployments \ {r.on}, deployments}
      BY <1>2
    <2>3. unclean' \in {unclean \cup {r.on}, unclean}
      BY <1>2
    <2>4. descriptors' = descriptors \cup {r.on} => (r.on \in descriptors' => r.on \in Peers \cup descriptors)
      <3>1. CASE r.op = "store"
        BY <1>4, <3>1
      <3>2. CASE r.op # "store"
        BY <1>2, <3>2
      <3> QED
        BY <3>1, <3>2
    <2> QED
      BY <2>1, <2>2, <2>3, <2>4, DataHere
  <1>6. DataInv'
    <2>1. Idle \in Call
      BY DataHere, IdleFits
    <2>2. calls' \in [Calls -> Call]
      BY <1>1, <2>1, DataHere
    <2> QED
      BY <1>1, <1>3, <1>5, <2>2 DEF IInv, DataInv
  <1>7. Ends(c, r)
    BY <1>1, <1>5, Serving DEF Ends, OnlyFreshClients
  <1>8. CASE r.op \in {"store", "delete"}
    <2>1. OthersOnName(c, r)
      BY <1>8, Company DEF OthersOnName
    <2>2. PeerOK(r.on, IdsNamed(groups, r.on), IdsOf(keys, r.on), IdsOf(clients, r.on), descriptors,
                 unclean, last[r.on], OpsOn(r.on))
      BY <1>4, <1>8 DEF IInv, NamesInv
    <2>3. last[r.on] # NoSetup => last[r.on].client \in IdsOf(clients, r.on) \/ "generate" \in OpsOn(r.on)
      BY <2>2 DEF PeerOK
    <2>4. "generate" \notin OpsOn(r.on)
      <3> SUFFICES ASSUME NEW d \in Calls, calls[d].on = r.on, calls[d].op = "generate" PROVE FALSE
        BY DEF OpsOn
      <3>1. d \in Calls \ {c} /\ r.op # "idle"
        BY <1>8
      <3> QED
        BY <1>8, <3>1, Company
    <2>5. PeerOK(r.on, IdsNamed(groups, r.on), IdsOf(keys, r.on), IdsOf(clients, r.on), descriptors',
                 unclean', last[r.on], OpsOn(r.on)')
      <3>1. CASE r.op = "store" /\ o = "ok"
        <4>1. r.on \in descriptors'
          BY <1>2, <3>1
        <4> QED
          BY <2>2, <2>4, <4>1 DEF PeerOK
      <3>2. CASE r.op = "delete" /\ o = "ok"
        <4>1. /\ IdsNamed(groups, r.on) = {} /\ IdsOf(keys, r.on) = {} /\ IdsOf(clients, r.on) = {}
              /\ last[r.on] = NoSetup
          BY <1>1, <3>2 DEF Fits, CallOK, DeleteOK, IInv, NamesInv
        <4> QED
          BY <4>1 DEF PeerOK
      <3>3. CASE o # "ok"
        <4>1. descriptors' = descriptors /\ r.on \in unclean'
          BY <1>2, <3>3
        <4> QED
          BY <2>2, <2>4, <4>1 DEF PeerOK
      <3> QED
        BY <1>8, <3>1, <3>2, <3>3
    <2>6. NameNext(r.on)
      BY <1>1, <1>4, <1>8, <2>5, NamesApart DEF NameNext
    <2> HIDE DEF r
    <2> QED
      BY <1>6, <1>7, <2>1, <2>6, EndStep
  <1>9. CASE r.op = "undeploy"
    <2>1. r.on \in Clusters /\ r.on \notin Peers /\ descriptors' = descriptors
      BY <1>2, <1>4, <1>9, NamesApart
    <2>2. ClusterOK(r.on, IdsNamed(groups, r.on), IdsNamed(policies, r.on), deployments, overtaken)
      BY <2>1 DEF IInv, NamesInv
    <2>3. r.on \notin overtaken => IdsNamed(groups, r.on) = {} /\ IdsNamed(policies, r.on) = {}
      BY <1>1, <1>9 DEF Fits, CallOK, UndeployOK
    <2>4. NameNext(r.on)
      BY <1>1, <2>1, <2>3 DEF NameNext, ClusterOK
    <2>5. OthersOnName(c, r)
      <3> SUFFICES ASSUME NEW d \in Calls \ {c}, calls[d].on = r.on
                   PROVE  /\ CallOK(calls[d], IdsNamed(groups, r.on), IdsNamed(policies, r.on),
                                    IdsOf(keys, r.on), IdsOf(clients, r.on), descriptors,
                                    deployments', unclean', overtaken)
                          /\ calls[d].op # "delete"
        BY <1>1, <2>1 DEF OthersOnName
      <3>1. calls[d].op \in {"deploy", "undeploy"} /\ Fits(calls[d])
        BY <1>9, Company, Serving
      <3>2. Exclusive(r, calls[d], overtaken) /\ Exclusive(calls[d], r, overtaken)
        BY DEF IInv, LocksInv
      <3>3. CASE calls[d].op = "deploy"
        <4>1. r.on \in overtaken
          BY <1>1, <1>9, <3>2, <3>3 DEF Exclusive, IsWriting
        <4> QED
          BY <3>1, <3>3, <4>1 DEF Fits, CallOK, DeployOK
      <3>4. CASE calls[d].op = "undeploy"
        <4>1. calls[d].pc = "waiting"
          BY <1>1, <1>9, <3>2, <3>4 DEF Exclusive, IsWriting
        <4> QED
          BY <3>1, <3>4, <4>1 DEF Fits, CallOK, UndeployOK
      <3> QED
        BY <3>1, <3>3, <3>4
    <2> HIDE DEF r
    <2> QED
      BY <1>6, <1>7, <2>4, <2>5, EndStep
  <1> QED
    BY <1>1, <1>8, <1>9

-----------------------------------------------------------------------------
(* The beginning of a call, and what the hosts do.                         *)

\* NetBird and the provider are left alone, and what is stored at most grows.
StoredFrame ==
    /\ UNCHANGED <<clients, unclean, descriptors>>
    /\ deployments \subseteq deployments' /\ overtaken \subseteq overtaken'
    /\ \A p \in Peers : last'[p] \in {last[p], NoSetup}
BeginFrame == UNCHANGED <<groups, policies, keys, machines, fresh>> /\ StoredFrame

\* As far as the calls can tell, NetBird is left alone.
ServerSame ==
    /\ \A n \in Names : /\ IdsNamed(groups', n) = IdsNamed(groups, n)
                        /\ IdsNamed(policies', n) = IdsNamed(policies, n)
    /\ keys' = keys
    /\ OnlyFresh(groups, groups', fresh) /\ OnlyFresh(policies, policies', fresh)
    /\ fresh \in Nat /\ fresh' \in Nat /\ fresh <= fresh'

LEMMA BeginSame ==
    ASSUME IInv, BeginFrame
    PROVE  ServerSame /\ StoredFrame
  BY Serving, DataHere DEF BeginFrame, ServerSame, OnlyFresh

LEMMA StillFits ==
    ASSUME IInv, DataInv', ServerSame, StoredFrame, NEW d \in Calls
    PROVE  FitsNext(calls[d])
  <1> DEFINE s == calls[d]
  <1>1. s \in Call /\ Fits(s) /\ descriptors \subseteq Peers
    BY Serving
  <1>2. /\ groups' \subseteq [name : Names, id : Issued(fresh'), peers : SUBSET Issued(fresh')]
        /\ policies' \subseteq [name : Clusters, id : Issued(fresh'), group : Issued(fresh')]
        /\ clients' \subseteq [peer : Peers, id : Issued(fresh')]
    BY DEF DataInv, ServerOK, ClientsOK
  <1>3. OnlyFreshClients(clients, clients', fresh)
    BY DEF StoredFrame, OnlyFreshClients
  <1>4. TargetsOK(s, groups', policies', clients', fresh')
    BY <1>1, <1>2, <1>3, TargetsKept DEF Fits, ServerSame
  <1>5. CallOK(s, IdsNamed(groups', s.on), IdsNamed(policies', s.on), IdsOf(keys', s.on),
               IdsOf(clients', s.on), descriptors', deployments', unclean', overtaken')
    <2>1. /\ s.on \in Names => /\ IdsNamed(groups', s.on) = IdsNamed(groups, s.on)
                               /\ IdsNamed(policies', s.on) = IdsNamed(policies, s.on)
          /\ IdsOf(keys', s.on) = IdsOf(keys, s.on) /\ IdsOf(clients', s.on) = IdsOf(clients, s.on)
          /\ descriptors' = descriptors /\ unclean' = unclean
          /\ (s.on \in deployments => s.on \in deployments')
          /\ (s.on \in overtaken => s.on \in overtaken')
      BY DEF ServerSame, StoredFrame
    <2>2. CallOK(s, IdsNamed(groups, s.on), IdsNamed(policies, s.on), IdsOf(keys, s.on),
                 IdsOf(clients, s.on), descriptors, deployments, unclean, overtaken)
      BY <1>1 DEF Fits
    <2> HIDE DEF s
    <2> QED
      BY <1>1, <2>1, <2>2, CallKept
  <1> QED
    BY <1>4, <1>5 DEF FitsNext

LEMMA NamesStay ==
    ASSUME IInv, ServerSame, StoredFrame, \A p \in Peers : OpsOn(p) \subseteq OpsOn(p)',
           \A d \in Calls : calls'[d].op = "delete" =>
              last'[calls'[d].on] = NoSetup \/ (calls'[d] = calls[d])
    PROVE  NamesInv'
  <1>1. ASSUME NEW p \in Peers
        PROVE  PeerOK(p, IdsNamed(groups', p), IdsOf(keys', p), IdsOf(clients', p), descriptors',
                      unclean', last'[p], OpsOn(p)')
    <2>1. PeerOK(p, IdsNamed(groups, p), IdsOf(keys, p), IdsOf(clients, p), descriptors,
                 unclean, last[p], OpsOn(p))
      BY DEF IInv, NamesInv
    <2>2. /\ IdsNamed(groups', p) = IdsNamed(groups, p) /\ IdsOf(keys', p) = IdsOf(keys, p)
          /\ IdsOf(clients', p) = IdsOf(clients, p) /\ last'[p] \in {last[p], NoSetup}
          /\ descriptors' = descriptors /\ unclean' = unclean /\ OpsOn(p) \subseteq OpsOn(p)'
      BY NamesApart DEF ServerSame, StoredFrame
    <2> QED
      BY <2>1, <2>2 DEF PeerOK
  <1>2. ASSUME NEW k \in Clusters
        PROVE  ClusterOK(k, IdsNamed(groups', k), IdsNamed(policies', k), deployments', overtaken')
    <2>1. ClusterOK(k, IdsNamed(groups, k), IdsNamed(policies, k), deployments, overtaken)
      BY DEF IInv, NamesInv
    <2>2. /\ IdsNamed(groups', k) = IdsNamed(groups, k)
          /\ IdsNamed(policies', k) = IdsNamed(policies, k)
      BY NamesApart DEF ServerSame
    <2> QED
      BY <2>1, <2>2 DEF ClusterOK, StoredFrame
  <1>3. ASSUME NEW d \in Calls, calls'[d].op = "delete" PROVE last'[calls'[d].on] = NoSetup
    <2>1. CASE calls'[d] = calls[d]
      <3>1. calls[d].on \in Peers /\ last[calls[d].on] = NoSetup
        BY <1>3, <2>1, Serving DEF Fits, CallOK, DeleteOK, IInv, NamesInv
      <3> QED
        BY <2>1, <3>1 DEF StoredFrame
    <2> QED
      BY <1>3, <2>1
  <1> QED
    BY <1>1, <1>2, <1>3 DEF NamesInv

LEMMA NoCallStep ==
    ASSUME IInv, DataInv', ServerSame, StoredFrame, UNCHANGED <<calls, overtaken>>
    PROVE  IInv'
  <1>1. CallsInv'
    BY StillFits, CallsInvNext
  <1>2. NamesInv'
    <2>1. \A p \in Peers : OpsOn(p) \subseteq OpsOn(p)'
      BY DEF OpsOn
    <2> QED
      BY <2>1, NamesStay
  <1>3. LocksInv'
    BY DEF IInv, LocksInv
  <1> QED
    BY <1>1, <1>2, <1>3 DEF IInv

LEMMA BeginStep ==
    ASSUME IInv, DataInv', BeginFrame, NEW c \in Calls, NEW r2 \in Call,
           calls' = [calls EXCEPT ![c] = r2],
           calls[c] = Idle \/ (r2.op = calls[c].op /\ r2.on = calls[c].on),
           FitsNext(r2), r2.op = "delete" => last'[r2.on] = NoSetup,
           \A d \in Calls \ {c} : /\ Exclusive(r2, calls[d], overtaken')
                                  /\ Exclusive(calls[d], r2, overtaken')
    PROVE  IInv'
  <1>1. ServerSame /\ StoredFrame
    BY BeginSame
  <1>2. calls'[c] = r2 /\ \A d \in Calls \ {c} : calls'[d] = calls[d]
    BY Serving
  <1>3. CallsInv'
    <2>1. ASSUME NEW d \in Calls PROVE FitsNext(calls'[d])
      BY <1>1, <1>2, StillFits
    <2> QED
      BY <2>1, CallsInvNext
  <1>4. NamesInv'
    <2>1. ASSUME NEW p \in Peers PROVE OpsOn(p) \subseteq OpsOn(p)'
      <3> SUFFICES ASSUME NEW d \in Calls, calls[d].on = p
                   PROVE  \E e \in Calls : calls'[e].on = p /\ calls'[e].op = calls[d].op
        BY DEF OpsOn
      <3>1. d = c => calls[c] # Idle
        BY NamesApart DEF Idle
      <3> QED
        BY <1>2, <3>1
    <2>2. \A d \in Calls : calls'[d].op = "delete" =>
             last'[calls'[d].on] = NoSetup \/ (calls'[d] = calls[d])
      BY <1>2
    <2> QED
      BY <1>1, <2>1, <2>2, NamesStay
  <1>5. LocksInv'
    <2>1. ASSUME NEW d \in Calls, NEW e \in Calls, d # e
          PROVE  Exclusive(calls'[d], calls'[e], overtaken')
      <3>1. Exclusive(calls[d], calls[e], overtaken) /\ overtaken \subseteq overtaken'
        BY <1>1, <2>1 DEF IInv, LocksInv, StoredFrame
      <3>2. CASE d = c
        BY <1>2, <2>1, <3>2
      <3>3. CASE e = c
        BY <1>2, <2>1, <3>3
      <3>4. CASE d # c /\ e # c
        <4>1. Exclusive(calls[d], calls[e], overtaken')
          BY <3>1 DEF Exclusive
        <4> QED
          BY <1>2, <3>4, <4>1
      <3> QED
        BY <3>2, <3>3, <3>4
    <2> QED
      BY <2>1 DEF LocksInv
  <1> QED
    BY <1>3, <1>4, <1>5 DEF IInv

LEMMA BeginData ==
    ASSUME IInv, BeginFrame, UNCHANGED <<handed, hosts, faults>>, calls' \in [Calls -> Call],
           deployments' \subseteq Clusters, last' \in [Peers -> Credentials \cup {NoSetup}]
    PROVE  DataInv'
  BY DEF IInv, DataInv, BeginFrame, StoredFrame

LEMMA CalledFields ==
    ASSUME NEW op, NEW n, NEW pc, NEW todo
    PROVE  LET r == Called(op, n, pc, todo)
           IN  /\ r.op = op /\ r.on = n /\ r.pc = pc /\ r.todo = todo
               /\ r.seen = {} /\ r.got = 0 /\ r.key = 0
               /\ IInv /\ op \in {"store", "delete", "generate", "deploy", "undeploy"}
                  /\ n \in Names /\ pc \in Steps \cup {"waiting"} /\ todo \in SUBSET Names
                  => r \in Call
  <1>1. IInv => faults \in Nat
    BY DataHere, NamesApart
  <1> QED
    BY <1>1 DEF Called, Idle, Call, Steps

\* The calls that can be on a peer, with the store's lock free, are none.
LEMMA NobodyOn ==
    ASSUME IInv, LockFree, NEW p \in Peers
    PROVE  OpsOn(p) = {}
  <1> SUFFICES ASSUME NEW d \in Calls, calls[d].on = p PROVE FALSE
    BY DEF OpsOn
  <1>1. calls[d] \in Call /\ Fits(calls[d])
    BY Serving
  <1>2. calls[d].op \notin {"idle", "deploy", "undeploy"}
    BY <1>1, NamesApart DEF Fits, CallOK, DeployOK, UndeployOK, Idle
  <1>3. calls[d].op # "generate"
    BY DEF LockFree, ReadLocked
  <1>4. calls[d].op \in {"store", "delete"}
    BY <1>1, <1>2, <1>3 DEF Call
  <1>5. Writing(d)
    BY <1>1, <1>4 DEF Writing, Fits, CallOK, StoreOK, DeleteOK
  <1> QED
    BY <1>5 DEF LockFree, WriteLocked

\* What the locks say of a call that begins.
LEMMA NewcomerExcluded ==
    ASSUME NEW r2, NEW O, NEW c \in Calls, ~WriteLocked,
           \/ r2.op \in {"store", "delete"} /\ ~ReadLocked
           \/ r2.op = "generate"
           \/ r2.op = "deploy" /\ MutexFree
    PROVE  \A d \in Calls \ {c} : Exclusive(r2, calls[d], O) /\ Exclusive(calls[d], r2, O)
  <1> SUFFICES ASSUME NEW d \in Calls \ {c}
               PROVE  Exclusive(r2, calls[d], O) /\ Exclusive(calls[d], r2, O)
    OBVIOUS
  <1>1. ~ IsWriting(calls[d])
    BY DEF WriteLocked, Writing, IsWriting
  <1>2. r2.op \in {"store", "delete"} => calls[d].op # "generate"
    BY DEF ReadLocked
  <1>3. r2.op = "deploy" => calls[d].op # "deploy"
    BY DEF MutexFree
  <1> QED
    BY <1>1, <1>2, <1>3 DEF Exclusive, IsWriting

LEMMA StorePeerDescriptorStep ==
    ASSUME IInv, NEW c \in Calls, NEW p \in Peers, StorePeerDescriptor(c, p)
    PROVE  IInv'
  <1> DEFINE pc == IF p \in descriptors THEN "commit" ELSE "createGroup"
             r2 == Called("store", p, pc, {})
  <1>1. /\ LockFree /\ calls[c] = Idle /\ calls' = [calls EXCEPT ![c] = r2]
        /\ UNCHANGED <<groups, policies, keys, machines, fresh, faults, unclean, descriptors,
                       deployments, clients, handed, hosts, last, overtaken>>
    BY DEF StorePeerDescriptor, Begin, Free, serverVars
  <1>2. /\ pc \in {"commit", "createGroup"} /\ pc \in Steps
        /\ pc = "createGroup" => p \notin descriptors
    BY DEF Steps
  <1> HIDE DEF pc
  <1>3. /\ r2 \in Call /\ r2.op = "store" /\ r2.on = p /\ r2.pc = pc
        /\ r2.seen = {} /\ r2.got = 0
    BY <1>2, CalledFields, NamesApart
  <1> HIDE DEF r2
  <1>4. PeerOK(p, IdsNamed(groups, p), IdsOf(keys, p), IdsOf(clients, p), descriptors,
               unclean, last[p], OpsOn(p)) /\ OpsOn(p) = {}
    BY <1>1, NobodyOn DEF IInv, NamesInv
  <1>5. StoreOK(r2, IdsNamed(groups, p), descriptors, unclean)
    BY <1>2, <1>3, <1>4 DEF StoreOK, PeerOK
  <1>6. FitsNext(r2)
    <2>1. 0 < fresh
      BY DataHere
    <2> QED
      BY <1>1, <1>2, <1>3, <1>5, <2>1 DEF FitsNext, CallOK, TargetsOK
  <1>7. BeginFrame
    BY <1>1 DEF BeginFrame, StoredFrame
  <1>8. DataInv'
    BY <1>1, <1>3, <1>7, DataHere, BeginData DEF IInv, DataInv
  <1>9. \A d \in Calls \ {c} : Exclusive(r2, calls[d], overtaken') /\ Exclusive(calls[d], r2, overtaken')
    BY <1>1, <1>3, NewcomerExcluded DEF LockFree
  <1> QED
    BY <1>1, <1>3, <1>6, <1>7, <1>8, <1>9, BeginStep

LEMMA DeletePeerDescriptorStep ==
    ASSUME IInv, NEW c \in Calls, NEW p \in Peers, DeletePeerDescriptor(c, p)
    PROVE  IInv'
  <1> DEFINE r2 == Called("delete", p, "listClients", {})
  <1>1. /\ LockFree /\ calls[c] = Idle /\ calls' = [calls EXCEPT ![c] = r2] /\ p \in descriptors
        /\ last' = [last EXCEPT ![p] = NoSetup]
        /\ UNCHANGED <<groups, policies, keys, machines, fresh, faults, unclean, descriptors,
                       deployments, clients, handed, hosts, overtaken>>
    BY DEF DeletePeerDescriptor, Begin, Free, serverVars
  <1>2. /\ r2 \in Call /\ r2.op = "delete" /\ r2.on = p /\ r2.pc = "listClients"
        /\ r2.seen = {} /\ r2.got = 0
    BY CalledFields, NamesApart DEF Steps
  <1> HIDE DEF r2
  <1>3. FitsNext(r2)
    <2>1. 0 < fresh
      BY DataHere
    <2> QED
      BY <1>1, <1>2, <2>1 DEF FitsNext, CallOK, DeleteOK, TargetsOK
  <1>4. /\ last' \in [Peers -> Credentials \cup {NoSetup}] /\ last'[p] = NoSetup
        /\ \A q \in Peers : last'[q] \in {last[q], NoSetup}
    <2>1. last \in [Peers -> Credentials \cup {NoSetup}]
      BY DEF IInv, DataInv
    <2> QED
      BY <1>1, <2>1
  <1>5. BeginFrame
    BY <1>1, <1>4 DEF BeginFrame, StoredFrame
  <1>6. DataInv'
    BY <1>1, <1>2, <1>4, <1>5, DataHere, BeginData
  <1>7. \A d \in Calls \ {c} : Exclusive(r2, calls[d], overtaken') /\ Exclusive(calls[d], r2, overtaken')
    BY <1>1, <1>2, NewcomerExcluded DEF LockFree
  <1> QED
    BY <1>1, <1>2, <1>3, <1>4, <1>5, <1>6, <1>7, BeginStep

LEMMA GeneratePeerSetupStep ==
    ASSUME IInv, NEW c \in Calls, NEW p \in Peers, GeneratePeerSetup(c, p)
    PROVE  IInv'
  <1> DEFINE r2 == Called("generate", p, "getGroup", {})
  <1>1. /\ ~WriteLocked /\ calls[c] = Idle /\ calls' = [calls EXCEPT ![c] = r2] /\ p \in descriptors
        /\ UNCHANGED <<groups, policies, keys, machines, fresh, faults, unclean, descriptors,
                       deployments, clients, handed, hosts, last, overtaken>>
    BY DEF GeneratePeerSetup, Begin, Free, serverVars
  <1>2. /\ r2 \in Call /\ r2.op = "generate" /\ r2.on = p /\ r2.pc = "getGroup"
        /\ r2.seen = {} /\ r2.got = 0
    BY CalledFields, NamesApart DEF Steps
  <1> HIDE DEF r2
  <1>3. FitsNext(r2)
    <2>1. 0 < fresh
      BY DataHere
    <2> QED
      BY <1>1, <1>2, <2>1 DEF FitsNext, CallOK, GenerateOK, TargetsOK
  <1>4. BeginFrame
    BY <1>1 DEF BeginFrame, StoredFrame
  <1>5. DataInv'
    BY <1>1, <1>2, <1>4, DataHere, BeginData DEF IInv, DataInv
  <1>6. \A d \in Calls \ {c} : Exclusive(r2, calls[d], overtaken') /\ Exclusive(calls[d], r2, overtaken')
    BY <1>1, <1>2, NewcomerExcluded
  <1> QED
    BY <1>1, <1>2, <1>3, <1>4, <1>5, <1>6, BeginStep

\* A deployment of k that a client waits for, or the effect's.
Deployment(k, waited) ==
    [Called("deploy", k, "getPolicy", Members[k]) EXCEPT !.client = waited]

\* A deployment of k begins, or nothing does.
LEMMA DeployBegins ==
    ASSUME IInv, NEW c \in Calls, NEW k \in Clusters, ~WriteLocked, MutexFree, calls[c] = Idle,
           UNCHANGED <<groups, policies, keys, machines, fresh, faults, unclean, descriptors,
                       clients, handed, hosts, last, overtaken>>,
           deployments \subseteq deployments', deployments' \subseteq Clusters,
           NEW waited \in BOOLEAN,
           \/ k \in deployments' /\ calls' = [calls EXCEPT ![c] = Deployment(k, waited)]
           \/ UNCHANGED calls
    PROVE  IInv'
  <1> DEFINE r1 == Called("deploy", k, "getPolicy", Members[k])
             r2 == Deployment(k, waited)
  <1>1. Members[k] \in SUBSET Names /\ k \in Names
    BY NamesApart
  <1>2. /\ r2 \in Call /\ r2.op = "deploy" /\ r2.on = k /\ r2.pc = "getPolicy"
        /\ r2.seen = {} /\ r2.got = 0
    <2>1. /\ r1 \in Call /\ r1.op = "deploy" /\ r1.on = k /\ r1.pc = "getPolicy"
          /\ r1.seen = {} /\ r1.got = 0
      BY <1>1, CalledFields DEF Steps
    <2> HIDE DEF r1
    <2>2. r2 = [r1 EXCEPT !.client = waited]
      BY DEF Deployment, r1
    <2> QED
      BY <2>1, <2>2 DEF Call
  <1>3. BeginFrame
    BY DEF BeginFrame, StoredFrame
  <1>4. calls' \in [Calls -> Call]
    BY <1>2, DataHere
  <1> HIDE DEF r2
  <1>5. DataInv'
    BY <1>3, <1>4, BeginData DEF IInv, DataInv
  <1>6. CASE UNCHANGED calls
    BY <1>3, <1>5, <1>6, BeginSame, NoCallStep
  <1>7. CASE k \in deployments' /\ calls' = [calls EXCEPT ![c] = r2]
    <2>1. FitsNext(r2)
      <3>1. 0 < fresh
        BY DataHere
      <3> QED
        BY <1>2, <1>7, <3>1 DEF FitsNext, CallOK, DeployOK, TargetsOK
    <2>2. \A d \in Calls \ {c} : Exclusive(r2, calls[d], overtaken') /\ Exclusive(calls[d], r2, overtaken')
      BY <1>2, NewcomerExcluded
    <2> QED
      BY <1>2, <1>3, <1>5, <1>7, <2>1, <2>2, BeginStep
  <1> QED
    BY <1>6, <1>7 DEF r2

LEMMA StoreClusterDeploymentStep ==
    ASSUME IInv, NEW c \in Calls, NEW k \in Clusters, StoreClusterDeployment(c, k)
    PROVE  IInv'
  <1>1. /\ ~WriteLocked /\ MutexFree /\ calls[c] = Idle
        /\ deployments' = deployments \cup {k}
        /\ UNCHANGED <<groups, policies, keys, machines, fresh, faults, unclean, descriptors,
                       clients, handed, hosts, last, overtaken>>
    BY DEF StoreClusterDeployment, LockFree, Free, serverVars
  <1>2. \/ calls' = [calls EXCEPT ![c] = Deployment(k, TRUE)]
        \/ UNCHANGED calls
    <2>1. Called("deploy", k, "getPolicy", Members[k]) = Deployment(k, TRUE)
      BY DEF Called, Deployment, Idle
    <2> QED
      BY <2>1 DEF StoreClusterDeployment, Begin
  <1> QED
    BY <1>1, <1>2, DataHere, DeployBegins

LEMMA DeployPendingStep ==
    ASSUME IInv, NEW c \in Calls, NEW k \in Clusters, DeployPending(c, k)
    PROVE  IInv'
  <1>1. /\ ~WriteLocked /\ MutexFree /\ calls[c] = Idle
        /\ UNCHANGED <<groups, policies, keys, machines, fresh, faults, unclean, descriptors,
                       deployments, clients, handed, hosts, last, overtaken>>
    BY DEF DeployPending, Free, serverVars
  <1>2. \/ k \in deployments /\ calls' = [calls EXCEPT ![c] = Deployment(k, FALSE)]
        \/ UNCHANGED calls
    BY DEF DeployPending, Deployment
  <1> QED
    BY <1>1, <1>2, DataHere, DeployBegins

LEMMA RequestUndeployStep ==
    ASSUME IInv, NEW c \in Calls, NEW k \in Clusters, RequestUndeploy(c, k)
    PROVE  IInv'
  <1> DEFINE r2 == Called("undeploy", k, "waiting", {})
  <1>1. /\ calls[c] = Idle /\ calls' = [calls EXCEPT ![c] = r2]
        /\ UNCHANGED <<groups, policies, keys, machines, fresh, faults, unclean, descriptors,
                       deployments, clients, handed, hosts, last, overtaken>>
    BY DEF RequestUndeploy, Begin, Free, serverVars
  <1>2. /\ r2 \in Call /\ r2.op = "undeploy" /\ r2.on = k /\ r2.pc = "waiting"
        /\ r2.seen = {} /\ r2.got = 0
    BY CalledFields, NamesApart
  <1> HIDE DEF r2
  <1>3. FitsNext(r2)
    <2>1. 0 < fresh
      BY DataHere
    <2> QED
      BY <1>1, <1>2, <2>1 DEF FitsNext, CallOK, UndeployOK, TargetsOK
  <1>4. BeginFrame
    BY <1>1 DEF BeginFrame, StoredFrame
  <1>5. DataInv'
    BY <1>1, <1>2, <1>4, DataHere, BeginData DEF IInv, DataInv
  <1>6. \A d \in Calls \ {c} : Exclusive(r2, calls[d], overtaken') /\ Exclusive(calls[d], r2, overtaken')
    BY <1>2 DEF Exclusive, IsWriting
  <1> QED
    BY <1>1, <1>2, <1>3, <1>4, <1>5, <1>6, BeginStep

LEMMA DeleteClusterDeploymentStep ==
    ASSUME IInv, NEW c \in Calls, DeleteClusterDeployment(c)
    PROVE  IInv'
  <1> DEFINE r == calls[c]
             pc == IF r.on \in deployments THEN "getPolicy" ELSE "failed"
             r2 == [r EXCEPT !.pc = pc]
  <1>1. /\ r \in Call /\ Fits(r) /\ r.op = "undeploy" /\ LockFree
        /\ calls' = [calls EXCEPT ![c] = r2]
        /\ overtaken' = IF MutexFree THEN overtaken ELSE overtaken \cup {r.on}
        /\ UNCHANGED <<groups, policies, keys, machines, fresh, faults, unclean, descriptors,
                       deployments, clients, handed, hosts, last>>
    BY Serving DEF DeleteClusterDeployment, At, Goto, serverVars
  <1>2. pc \in {"getPolicy", "failed"} /\ (pc = "getPolicy" => r.on \in deployments)
    OBVIOUS
  <1> HIDE DEF pc
  <1>3. /\ r2 \in Call /\ r2.op = r.op /\ r2.on = r.on /\ r2.pc = pc
        /\ r2.seen = r.seen /\ r2.got = r.got
    BY <1>1, <1>2 DEF Call
  <1> HIDE DEF r2
  <1>4. FitsNext(r2)
    <2>1. r.on \in Clusters /\ r.got < fresh /\ \A i \in r.seen : i < fresh
      BY <1>1 DEF Fits, CallOK, UndeployOK, TargetsOK
    <2>2. UndeployOK(r2, IdsNamed(groups, r2.on), IdsNamed(policies, r2.on), deployments, overtaken')
      BY <1>1, <1>2, <1>3, <2>1 DEF UndeployOK
    <2> QED
      BY <1>1, <1>2, <1>3, <2>1, <2>2 DEF FitsNext, CallOK, TargetsOK
  <1>5. BeginFrame
    BY <1>1 DEF BeginFrame, StoredFrame
  <1>6. DataInv'
    BY <1>1, <1>3, <1>5, DataHere, BeginData DEF IInv, DataInv
  <1>7. ASSUME NEW d \in Calls \ {c}
        PROVE  Exclusive(r2, calls[d], overtaken') /\ Exclusive(calls[d], r2, overtaken')
    <2>1. ~ IsWriting(calls[d]) /\ calls[d].op # "generate"
      BY <1>1 DEF LockFree, WriteLocked, ReadLocked, Writing, IsWriting
    <2>2. calls[d].op = "deploy" => r2.on \in overtaken'
      BY <1>1, <1>3 DEF MutexFree
    <2> QED
      BY <1>1, <1>3, <2>1, <2>2 DEF Exclusive
  <1> HIDE DEF r
  <1> QED
    BY <1>1, <1>3, <1>4, <1>5, <1>6, <1>7, BeginStep DEF r

-----------------------------------------------------------------------------
(* The hosts.                                                              *)

\* A host h that becomes h2; its machine is one that has been issued.
HostChanges(h, h2, fr) ==
    /\ h2 \in Host /\ hosts' = [hosts EXCEPT ![h] = h2] /\ h2.vpn < fr
    /\ h2.task # "none" => h2.setup \in Credentials

LEMMA HostStep ==
    ASSUME IInv, NEW h \in Hosts, NEW h2, HostChanges(h, h2, fresh'),
           ServerSame, ServerOK(groups', policies', keys', machines', fresh'),
           UNCHANGED <<clients, unclean, descriptors, deployments, overtaken, last, calls, handed>>,
           faults' \in 0 .. MaxFaults
    PROVE  IInv'
  <1>1. StoredFrame
    BY DEF StoredFrame
  <1>2. ClientsOK(clients', fresh')
    BY DataHere, IssuedGrows DEF ClientsOK, ServerSame
  <1>3. /\ hosts' \in [Hosts -> Host]
        /\ \A x \in Hosts : /\ hosts'[x].vpn \in 0 .. fresh' - 1
                            /\ hosts'[x].task # "none" => hosts'[x].setup \in Credentials
    <2>1. /\ hosts \in [Hosts -> Host]
          /\ \A x \in Hosts : /\ hosts[x].vpn \in 0 .. fresh - 1
                              /\ hosts[x].task # "none" => hosts[x].setup \in Credentials
      BY DEF IInv, DataInv
    <2>2. hosts' \in [Hosts -> Host] /\ hosts'[h] = h2 /\ \A x \in Hosts \ {h} : hosts'[x] = hosts[x]
      BY <2>1 DEF HostChanges
    <2>3. h2.vpn \in 0 .. fresh' - 1
      BY DEF HostChanges, Host, ServerSame
    <2>4. ASSUME NEW x \in Hosts PROVE hosts'[x].vpn \in 0 .. fresh' - 1
      BY <2>1, <2>2, <2>3 DEF ServerSame
    <2> QED
      BY <2>1, <2>2, <2>4 DEF HostChanges
  <1>4. DataInv'
    BY <1>2, <1>3 DEF IInv, DataInv
  <1> QED
    BY <1>1, <1>4, NoCallStep

LEMMA HostHere ==
    ASSUME IInv, NEW h \in Hosts
    PROVE  /\ hosts[h] \in Host /\ DOMAIN hosts = Hosts /\ hosts[h].vpn < fresh
           /\ hosts[h].task # "none" => hosts[h].setup \in Credentials
           /\ hosts[h].conf \in Peers \cup {NoName}
           /\ hosts[h].task \in {"none", "checkCarl", "install", "connect", "restart"}
  <1>1. hosts[h] \in Host /\ DOMAIN hosts = Hosts
    BY DEF IInv, DataInv
  <1>2. hosts[h].vpn \in 0 .. fresh - 1 /\ (hosts[h].task # "none" => hosts[h].setup \in Credentials)
    BY DEF IInv, DataInv
  <1>3. hosts[h].vpn < fresh
    BY <1>2, DataHere
  <1> QED
    BY <1>1, <1>2, <1>3 DEF Host

\* NetBird is left alone.
LEMMA ServerStays ==
    ASSUME IInv, UNCHANGED serverVars
    PROVE  /\ ServerSame /\ ServerOK(groups', policies', keys', machines', fresh')
           /\ fresh' = fresh
  <1>1. UNCHANGED <<groups, policies, keys, machines, fresh>>
    BY DEF serverVars
  <1> QED
    BY <1>1, DataHere DEF ServerSame, OnlyFresh

LEMMA NextTasks ==
    ASSUME NEW t
    PROVE  NextTask(t) \in {"none", "install", "connect", "restart"}
  BY DEF NextTask

LEMMA StopChanges ==
    ASSUME IInv, NEW h \in Hosts, Stop(h), NEW fr \in Nat, fresh <= fr
    PROVE  \E h2 : HostChanges(h, h2, fr)
  <1> DEFINE h2 == [hosts[h] EXCEPT !.task = "none", !.setup = NoSetup]
  <1>1. h2 \in Host /\ h2.vpn = hosts[h].vpn /\ h2.task = "none" /\ h2.vpn \in Nat
    BY HostHere DEF Host
  <1>2. hosts' = [hosts EXCEPT ![h] = h2]
    BY DEF Stop
  <1> HIDE DEF h2
  <1>3. h2.vpn < fr
    BY <1>1, HostHere, DataHere
  <1> QED
    BY <1>1, <1>2, <1>3 DEF HostChanges

LEMMA GoesOn ==
    ASSUME IInv, NEW h \in Hosts, hosts[h].task # "none", fresh' = fresh,
           hosts' = [hosts EXCEPT ![h].task = NextTask(@)]
    PROVE  \E h2 : HostChanges(h, h2, fresh')
  <1> DEFINE task == NextTask(hosts[h].task)
             h2 == [hosts[h] EXCEPT !.task = task]
  <1>1. task \in {"none", "install", "connect", "restart"}
    BY NextTasks
  <1>2. hosts' = [hosts EXCEPT ![h] = h2]
    OBVIOUS
  <1> HIDE DEF task
  <1>3. h2 \in Host /\ h2.vpn = hosts[h].vpn /\ h2.setup = hosts[h].setup
    BY <1>1, HostHere DEF Host
  <1> HIDE DEF h2
  <1> QED
    BY <1>2, <1>3, HostHere DEF HostChanges

LEMMA CheckCarlReachableStep ==
    ASSUME IInv, NEW h \in Hosts, CheckCarlReachable(h)
    PROVE  IInv'
  <1>1. /\ hosts[h].task # "none"
        /\ UNCHANGED <<serverVars, clients, unclean, descriptors, deployments, overtaken, last,
                       calls, handed, faults>>
    BY DEF CheckCarlReachable, hostFrame
  <1>2. /\ ServerSame /\ ServerOK(groups', policies', keys', machines', fresh')
        /\ fresh' = fresh /\ faults' \in 0 .. MaxFaults /\ fresh \in Nat
    BY <1>1, ServerStays, DataHere
  <1>3. \E h2 : HostChanges(h, h2, fresh')
    <2>1. CASE Stop(h)
      BY <1>2, <2>1, StopChanges
    <2>2. CASE hosts' = [hosts EXCEPT ![h].task = NextTask(@)]
      BY <1>1, <1>2, <2>2, GoesOn
    <2> QED
      BY <2>1, <2>2 DEF CheckCarlReachable
  <1> QED
    BY <1>1, <1>2, <1>3, HostStep

LEMMA InstallStep ==
    ASSUME IInv, NEW h \in Hosts, Install(h)
    PROVE  IInv'
  <1>1. /\ hosts[h].task # "none"
        /\ UNCHANGED <<serverVars, clients, unclean, descriptors, deployments, overtaken, last,
                       calls, handed>>
    BY DEF Install
  <1>2. /\ ServerSame /\ ServerOK(groups', policies', keys', machines', fresh')
        /\ fresh' = fresh /\ fresh \in Nat /\ faults \in 0 .. MaxFaults
    BY <1>1, ServerStays, DataHere
  <1>3. (\E h2 : HostChanges(h, h2, fresh')) /\ faults' \in 0 .. MaxFaults
    <2>1. CASE Stop(h) /\ faults < MaxFaults /\ faults' = faults + 1
      <3>1. faults' \in 0 .. MaxFaults
        BY <1>2, <2>1, NamesApart
      <3> QED
        BY <1>2, <2>1, <3>1, StopChanges
    <2>2. CASE hosts' = [hosts EXCEPT ![h].task = NextTask(@), ![h].installed = TRUE] /\ UNCHANGED faults
      <3> DEFINE task == NextTask(hosts[h].task)
                 h2 == [hosts[h] EXCEPT !.task = task, !.installed = TRUE]
      <3>1. task \in {"none", "install", "connect", "restart"}
        BY NextTasks
      <3>2. hosts' = [hosts EXCEPT ![h] = h2]
        BY <2>2
      <3> HIDE DEF task
      <3>3. h2 \in Host /\ h2.vpn = hosts[h].vpn /\ h2.setup = hosts[h].setup
        BY <3>1, HostHere DEF Host
      <3> HIDE DEF h2
      <3> QED
        BY <1>1, <1>2, <2>2, <3>2, <3>3, HostHere DEF HostChanges
    <2> QED
      BY <2>1, <2>2 DEF Install
  <1> QED
    BY <1>1, <1>2, <1>3, HostStep

LEMMA ConnectStep ==
    ASSUME IInv, NEW h \in Hosts, Connect(h)
    PROVE  IInv'
  <1>1. /\ hosts[h].task # "none"
        /\ UNCHANGED <<clients, unclean, descriptors, deployments, overtaken, last, calls, handed,
                       faults>>
        /\ faults' \in 0 .. MaxFaults /\ fresh \in Nat
    BY DataHere DEF Connect, hostFrame
  <1>2. CASE UNCHANGED serverVars
    <2>1. /\ ServerSame /\ ServerOK(groups', policies', keys', machines', fresh')
          /\ fresh' = fresh
      BY <1>2, ServerStays
    <2>2. CASE Stop(h)
      BY <1>1, <2>1, <2>2, StopChanges, HostStep
    <2>3. CASE hosts' = [hosts EXCEPT ![h].task = NextTask(@)]
      BY <1>1, <2>1, <2>3, GoesOn, HostStep
    <2>4. Stop(h) \/ hosts' = [hosts EXCEPT ![h].task = NextTask(@)]
      <3>1. CASE hosts[h].vpn \in machines
        BY <3>1 DEF Connect
      <3>2. CASE hosts[h].vpn \notin machines /\ ~ Stop(h)
        <4>1. fresh' = fresh + 1
          BY <3>2 DEF Connect, Login
        <4> QED
          BY <1>1, <2>1, <4>1
      <3> QED
        BY <3>1, <3>2
    <2> QED
      BY <2>2, <2>3, <2>4
  <1>3. CASE ~ UNCHANGED serverVars
    <2> DEFINE some == {k.group : k \in {x \in keys : x.id = hosts[h].setup.key}}
    <2>1. /\ Login(hosts[h].setup.key, fresh)
          /\ hosts' = [hosts EXCEPT ![h].task = NextTask(@), ![h].vpn = fresh]
      BY <1>3 DEF Connect
    <2>2. /\ machines' = machines \cup {fresh} /\ fresh' = fresh + 1 /\ UNCHANGED <<policies, keys>>
          /\ groups' = {IF \E k \in keys : k.id = hosts[h].setup.key /\ k.group = g.id
                        THEN [g EXCEPT !.peers = @ \cup {fresh}] ELSE g : g \in groups}
      BY <2>1 DEF Login
    <2>3. groups' = Joined(groups, some, fresh)
      <3>1. \A g \in groups : (\E k \in keys : k.id = hosts[h].setup.key /\ k.group = g.id)
                              <=> g.id \in some
        OBVIOUS
      <3> HIDE DEF some
      <3> QED
        BY <2>2, <3>1 DEF Joined
    <2> HIDE DEF some
    <2>4. ServerOK(groups, policies, keys, machines, fresh)
      BY DataHere
    <2>5. /\ ServerOK(groups', policies', keys', machines', fresh')
          /\ \A n \in Names : IdsNamed(groups', n) = IdsNamed(groups, n)
          /\ \A x \in groups' : \E g \in groups : g.id = x.id /\ g.name = x.name
      <3>1. /\ ServerOK(groups', policies, keys, machines \cup {fresh}, fresh + 1)
            /\ \A n \in Names : IdsNamed(groups', n) = IdsNamed(groups, n)
            /\ \A x \in groups' : \E g \in groups : g.id = x.id /\ g.name = x.name
        BY <2>3, <2>4, LoggedIn, SMTT(60)
      <3>2. ServerOK(groups', policies', keys', machines', fresh')
        BY <2>2, <3>1
      <3> QED
        BY <3>1, <3>2
    <2>6. ServerSame
      <3>1. fresh' \in Nat /\ fresh <= fresh'
        BY <1>1, <2>2
      <3> QED
        BY <1>1, <2>2, <2>5, <3>1 DEF ServerSame, OnlyFresh
    <2> DEFINE task == NextTask(hosts[h].task)
               h2 == [hosts[h] EXCEPT !.task = task, !.vpn = fresh]
    <2>7. task \in {"none", "install", "connect", "restart"}
      BY NextTasks
    <2>8. hosts' = [hosts EXCEPT ![h] = h2]
      BY <2>1
    <2> HIDE DEF task
    <2>9. h2 \in Host /\ h2.vpn = fresh /\ h2.setup = hosts[h].setup
      BY <1>1, <2>7, HostHere DEF Host
    <2> HIDE DEF h2
    <2>10. h2.vpn < fresh'
      BY <1>1, <2>2, <2>9
    <2>11. HostChanges(h, h2, fresh')
      BY <1>1, <2>8, <2>9, <2>10, HostHere DEF HostChanges
    <2> QED
      BY <1>1, <2>5, <2>6, <2>11, HostStep
  <1> QED
    BY <1>2, <1>3

LEMMA ManagedStep ==
    ASSUME IInv, NEW h \in Hosts, NEW s \in handed, Managed(h, s)
    PROVE  IInv'
  <1>1. UNCHANGED <<serverVars, clients, unclean, descriptors, deployments, overtaken, last,
                    calls, handed, faults>>
    BY DEF Managed, hostFrame
  <1>2. /\ ServerSame /\ ServerOK(groups', policies', keys', machines', fresh')
        /\ fresh' = fresh /\ fresh \in Nat /\ faults' \in 0 .. MaxFaults
    BY <1>1, ServerStays, DataHere
  <1>3. s \in Credentials /\ s.peer \in Peers
    BY DEF IInv, DataInv, Credentials
  <1>4. \E h2 : HostChanges(h, h2, fresh')
    <2>1. CASE UNCHANGED hosts
      <3>1. hosts' = [hosts EXCEPT ![h] = hosts[h]]
        BY <2>1, HostHere DEF IInv, DataInv
      <3> QED
        BY <1>2, <3>1, HostHere DEF HostChanges
    <2>2. CASE hosts' = [hosts EXCEPT ![h].task = "checkCarl", ![h].setup = s, ![h].conf = s.peer]
      <3> DEFINE conf == s.peer
                 h2 == [hosts[h] EXCEPT !.task = "checkCarl", !.setup = s, !.conf = conf]
      <3>1. hosts' = [hosts EXCEPT ![h] = h2]
        BY <2>2
      <3> HIDE DEF conf
      <3>2. h2 \in Host /\ h2.vpn = hosts[h].vpn /\ h2.setup = s
        BY <1>3, HostHere DEF Host, conf
      <3> HIDE DEF h2
      <3> QED
        BY <1>2, <1>3, <3>1, <3>2, HostHere DEF HostChanges
    <2> QED
      BY <2>1, <2>2 DEF Managed
  <1> QED
    BY <1>1, <1>2, <1>4, HostStep

LEMMA ComesChanges ==
    ASSUME IInv, NEW h \in Hosts, NEW task, task \in {"none", hosts[h].task}, Comes(h, task),
           fresh' = fresh
    PROVE  \E h2 : HostChanges(h, h2, fresh')
  <1> DEFINE setup == IF task = "none" THEN NoSetup ELSE hosts[h].setup
             conf == hosts[h].conf
             h2 == [hosts[h] EXCEPT !.online = conf, !.service = TRUE, !.task = task,
                                    !.setup = setup]
  <1>1. hosts' = [hosts EXCEPT ![h] = h2]
    BY DEF Comes
  <1>2. /\ setup \in Credentials \cup {NoSetup} /\ (task # "none" => setup \in Credentials)
        /\ task \in {"none", "checkCarl", "install", "connect", "restart"}
        /\ conf \in Peers \cup {NoName}
    BY HostHere
  <1> HIDE DEF setup, conf
  <1>3. h2 \in Host /\ h2.vpn = hosts[h].vpn /\ h2.setup = setup /\ h2.task = task
    BY <1>2, HostHere DEF Host
  <1> HIDE DEF h2
  <1> QED
    BY <1>1, <1>2, <1>3, HostHere DEF HostChanges

LEMMA ComesStep ==
    ASSUME IInv, NEW h \in Hosts, RestartService(h) \/ ServiceRestarts(h) \/ Reconnect(h)
    PROVE  IInv'
  <1>1. UNCHANGED <<serverVars, clients, unclean, descriptors, deployments, overtaken, last,
                    calls, handed, faults>>
    BY DEF RestartService, ServiceRestarts, Reconnect, hostFrame
  <1>2. /\ ServerSame /\ ServerOK(groups', policies', keys', machines', fresh')
        /\ fresh' = fresh /\ faults' \in 0 .. MaxFaults
    BY <1>1, ServerStays, DataHere
  <1>3. \E task \in {"none", hosts[h].task} : Comes(h, task)
    BY DEF RestartService, ServiceRestarts, Reconnect
  <1>4. \E h2 : HostChanges(h, h2, fresh')
    BY <1>2, <1>3, ComesChanges
  <1> QED
    BY <1>1, <1>2, <1>4, HostStep

-----------------------------------------------------------------------------
(* Calls that are dropped, one or all of them.                             *)

\* The names and the services' data stay; what a dropped call was about to do
\* is not done.
DropFrame(S) ==
    /\ UNCHANGED <<groups, policies, keys, machines, fresh, descriptors, deployments, clients,
                   handed, overtaken>>
    /\ \A c \in Calls : calls'[c] = IF c \in S THEN Idle ELSE calls[c]
    /\ unclean \subseteq unclean'
    /\ \A c \in S : GroupMade(c) => calls[c].on \in unclean'
    /\ \A p \in Peers : \/ last'[p] = NoSetup
                        \/ /\ last'[p] = last[p]
                           /\ \A c \in S : calls[c].on = p => calls[c].op # "generate"

LEMMA Dropped ==
    ASSUME IInv, NEW S \in SUBSET Calls, Drop(S)
    PROVE  DropFrame(S)
  <1>1. /\ UNCHANGED <<groups, policies, keys, machines, fresh, descriptors, deployments, clients,
                       handed, overtaken>>
        /\ \A c \in Calls : calls'[c] = IF c \in S THEN Idle ELSE calls[c]
        /\ unclean \subseteq unclean'
        /\ \A c \in S : GroupMade(c) => calls[c].on \in unclean'
    BY DEF Drop, serverVars
  <1>2. \A p \in Peers : last'[p] = IF \E c \in S : calls[c].op = "generate" /\ calls[c].on = p
                                    THEN NoSetup ELSE last[p]
    BY DEF Drop
  <1> QED
    BY <1>1, <1>2 DEF DropFrame

\* The calls that stay fit as before: more names may be unclean.
LEMMA DropCalls ==
    ASSUME IInv, NEW S \in SUBSET Calls, DropFrame(S)
    PROVE  CallsInv'
  <1> SUFFICES ASSUME NEW c \in Calls PROVE FitsNext(calls'[c])
    BY CallsInvNext
  <1>1. CASE c \in S
    <2>1. calls'[c] = Idle /\ fresh' \in Nat \ {0}
      BY <1>1, DataHere DEF DropFrame
    <2> QED
      BY <2>1, IdleFits DEF FitsNext
  <1>2. CASE c \notin S
    <2> DEFINE s == calls[c]
    <2>1. calls'[c] = s /\ Fits(s) /\ descriptors \subseteq Peers /\ unclean \subseteq unclean'
          /\ UNCHANGED <<groups, policies, keys, fresh, descriptors, deployments, clients, overtaken>>
      BY <1>2, Serving DEF DropFrame
    <2>2. /\ CallOK(s, IdsNamed(groups, s.on), IdsNamed(policies, s.on), IdsOf(keys, s.on),
                    IdsOf(clients, s.on), descriptors, deployments, unclean, overtaken)
          /\ TargetsOK(s, groups, policies, clients, fresh)
      BY <2>1 DEF Fits
    <2> HIDE DEF s
    <2>3. CallOK(s, IdsNamed(groups', s.on), IdsNamed(policies', s.on), IdsOf(keys', s.on),
                 IdsOf(clients', s.on), descriptors', deployments', unclean', overtaken')
      BY <2>1, <2>2, CallKept
    <2> QED
      BY <2>1, <2>2, <2>3 DEF FitsNext
  <1> QED
    BY <1>1, <1>2

\* A store that is dropped leaves no group, or an unclean name.
LEMMA DropNames ==
    ASSUME IInv, NEW S \in SUBSET Calls, DropFrame(S)
    PROVE  NamesInv'
  <1>1. ASSUME NEW p \in Peers
        PROVE  PeerOK(p, IdsNamed(groups', p), IdsOf(keys', p), IdsOf(clients', p), descriptors',
                      unclean', last'[p], OpsOn(p)')
    <2>1. PeerOK(p, IdsNamed(groups, p), IdsOf(keys, p), IdsOf(clients, p), descriptors,
                 unclean, last[p], OpsOn(p))
      BY DEF IInv, NamesInv
    <2>2. ASSUME NEW c \in Calls \ S, calls[c].on = p PROVE calls[c].op \in OpsOn(p)'
      BY <2>2 DEF DropFrame, OpsOn
    <2>3. ASSUME p \notin descriptors, p \notin unclean', OpsOn(p)' = {}
          PROVE  IdsNamed(groups, p) = {}
      <3>1. CASE OpsOn(p) = {}
        BY <2>1, <2>3, <3>1 DEF PeerOK, DropFrame
      <3>2. CASE OpsOn(p) # {}
        <4>1. PICK c \in Calls : calls[c].on = p
          BY <3>2 DEF OpsOn
        <4>2. c \in S
          BY <2>2, <2>3, <4>1
        <4>3. calls[c] \in Call /\ Fits(calls[c]) /\ p \in Names
          BY Serving, NamesApart
        <4>4. calls[c].op = "store"
          BY <2>3, <4>1, <4>3, NamesApart
          DEF Fits, CallOK, DeleteOK, GenerateOK, DeployOK, UndeployOK, Idle, Call
        <4>5. ~GroupMade(c) /\ p \notin unclean
          BY <2>3, <4>1, <4>2 DEF DropFrame
        <4>6. \/ calls[c].pc \in {"createGroup", "vpnDone"}
              \/ calls[c].pc = "failed" /\ calls[c].todo = {}
          BY <2>3, <4>1, <4>4, <4>5 DEF GroupMade
        <4> QED
          BY <4>1, <4>3, <4>4, <4>5, <4>6 DEF Fits, CallOK, StoreOK
      <3> QED
        BY <3>1, <3>2
    <2>4. ASSUME last'[p] # NoSetup
          PROVE  /\ last[p] # NoSetup /\ last'[p] = last[p]
                 /\ "generate" \in OpsOn(p) => "generate" \in OpsOn(p)'
      <3>1. last'[p] = last[p] /\ \A c \in S : calls[c].on = p => calls[c].op # "generate"
        BY <2>4 DEF DropFrame
      <3>2. ASSUME "generate" \in OpsOn(p) PROVE "generate" \in OpsOn(p)'
        <4>1. PICK c \in Calls : calls[c].on = p /\ calls[c].op = "generate"
          BY <3>2 DEF OpsOn
        <4> QED
          BY <2>2, <3>1, <4>1
      <3> QED
        BY <2>4, <3>1, <3>2
    <2>5. UNCHANGED <<groups, keys, clients, descriptors>>
      BY DEF DropFrame
    <2>6. \A n : IdsNamed(groups', n) = IdsNamed(groups, n) /\ IdsOf(keys', n) = IdsOf(keys, n)
                /\ IdsOf(clients', n) = IdsOf(clients, n)
      BY <2>5
    <2> QED
      BY <2>1, <2>3, <2>4, <2>5, <2>6 DEF PeerOK
  <1>2. ASSUME NEW k \in Clusters
        PROVE  ClusterOK(k, IdsNamed(groups', k), IdsNamed(policies', k), deployments', overtaken')
    BY DEF IInv, NamesInv, DropFrame
  <1>3. ASSUME NEW c \in Calls, calls'[c].op = "delete" PROVE last'[calls'[c].on] = NoSetup
    <2>1. c \notin S /\ calls'[c] = calls[c]
      BY <1>3 DEF DropFrame, Idle
    <2>2. last[calls[c].on] = NoSetup
      BY <1>3, <2>1 DEF IInv, NamesInv
    <2>3. calls[c].on \in Peers
      BY <1>3, <2>1, Serving DEF Fits, CallOK, DeleteOK
    <2> QED
      BY <2>1, <2>2, <2>3 DEF DropFrame
  <1> QED
    BY <1>1, <1>2, <1>3 DEF NamesInv

LEMMA DropStep ==
    ASSUME IInv, NEW S \in SUBSET Calls, Drop(S),
           hosts' \in [Hosts -> Host],
           \A h \in Hosts : /\ hosts'[h].vpn = hosts[h].vpn /\ hosts'[h].task = hosts[h].task
                            /\ hosts'[h].setup = hosts[h].setup
    PROVE  IInv'
  <1>1. DropFrame(S)
    BY Dropped
  <1>2. DataInv'
    <2>1. calls' \in [Calls -> Call]
      <3>1. Idle \in Call
        BY DataHere, IdleFits
      <3>2. \A c \in Calls : calls[c] \in Call
        BY DataHere
      <3> QED
        BY <3>1, <3>2 DEF Drop
    <2>2. last' \in [Peers -> Credentials \cup {NoSetup}]
      <3>1. last \in [Peers -> Credentials \cup {NoSetup}]
        BY DEF IInv, DataInv
      <3> QED
        BY <3>1 DEF Drop
    <2>3. faults' \in 0 .. MaxFaults
      BY DataHere, NamesApart DEF Drop
    <2>4. \A h \in Hosts : /\ hosts'[h].vpn \in 0 .. fresh - 1
                           /\ hosts'[h].task # "none" => hosts'[h].setup \in Credentials
      BY DEF IInv, DataInv
    <2>5. UNCHANGED <<groups, policies, keys, machines, fresh, descriptors, deployments, clients,
                      handed>>
      BY <1>1 DEF DropFrame
    <2> QED
      BY <2>1, <2>2, <2>3, <2>4, <2>5 DEF IInv, DataInv
  <1>3. LocksInv'
    <2> SUFFICES ASSUME NEW d \in Calls, NEW e \in Calls, d # e
                 PROVE  Exclusive(calls'[d], calls'[e], overtaken')
      BY DEF LocksInv
    <2>1. Exclusive(calls[d], calls[e], overtaken)
      BY DEF IInv, LocksInv
    <2>2. Idle.op = "idle" /\ ~ IsWriting(Idle)
      BY DataHere, IdleFits
    <2>3. /\ calls'[d] \in {calls[d], Idle} /\ calls'[e] \in {calls[e], Idle}
          /\ overtaken' = overtaken
      BY <1>1 DEF DropFrame
    <2> QED
      BY <2>1, <2>2, <2>3 DEF Exclusive
  <1> QED
    BY <1>1, <1>2, <1>3, DropCalls, DropNames DEF IInv

LEMMA DropCallStep ==
    ASSUME IInv, NEW c \in Calls, DropCall(c)
    PROVE  IInv'
  <1>1. Drop({c}) /\ hosts' = hosts /\ hosts \in [Hosts -> Host]
    BY DEF DropCall, IInv, DataInv
  <1> QED
    BY <1>1, DropStep

LEMMA CarlRestartStep ==
    ASSUME IInv, CarlRestart
    PROVE  IInv'
  <1>1. Drop(Calls) /\ hosts' = [h \in Hosts |-> [hosts[h] EXCEPT !.online = NoName]]
    BY DEF CarlRestart
  <1>2. ASSUME NEW h \in Hosts
        PROVE  /\ hosts'[h] \in Host /\ hosts'[h].vpn = hosts[h].vpn
               /\ hosts'[h].task = hosts[h].task /\ hosts'[h].setup = hosts[h].setup
    <2>1. hosts'[h] = [hosts[h] EXCEPT !.online = NoName]
      BY <1>1
    <2> QED
      BY <2>1, HostHere DEF Host
  <1>3. hosts' \in [Hosts -> Host]
    BY <1>1, <1>2
  <1> QED
    BY <1>1, <1>2, <1>3, DropStep

-----------------------------------------------------------------------------
(* The invariant.                                                          *)

LEMMA InitiallyIInv == Init => IInv
  <1> SUFFICES ASSUME Init PROVE IInv
    OBVIOUS
  <1>1. /\ groups = {} /\ policies = {} /\ keys = {} /\ machines = {} /\ fresh = 1
        /\ clients = {} /\ descriptors = {} /\ deployments = {} /\ handed = {} /\ faults = 0
        /\ unclean = {} /\ overtaken = {}
        /\ calls = [c \in Calls |-> Idle] /\ hosts = [h \in Hosts |-> FreshHost]
        /\ last = [p \in Peers |-> NoSetup]
    BY DEF Init, NBInit
  <1>2. /\ Idle \in Call /\ Idle.op = "idle" /\ Idle.on = NoName /\ ~ IsWriting(Idle)
        /\ \A G, P, K, C, D, E, U, O : CallOK(Idle, G, P, K, C, D, E, U, O)
        /\ \A gs, ps, cs : TargetsOK(Idle, gs, ps, cs, 1)
    <2>1. 1 \in Nat \ {0}
      OBVIOUS
    <2> QED
      BY <2>1, IdleFits
  <1>3. \A c \in Calls : calls[c] = Idle
    BY <1>1
  <1>4. DataInv
    <2>1. ServerOK({}, {}, {}, {}, 1)
      <3>1. IsFiniteSet({})
        BY FS_EmptySet
      <3> QED
        BY <3>1 DEF ServerOK, UniqueIds
    <2>2. ClientsOK({}, 1)
      BY DEF ClientsOK, UniqueIds
    <2>3. calls \in [Calls -> Call]
      BY <1>1, <1>2
    <2>4. FreshHost \in Host /\ FreshHost.vpn = 0 /\ FreshHost.task = "none"
      BY DEF FreshHost, Host
    <2>5. /\ hosts \in [Hosts -> Host]
          /\ \A h \in Hosts : hosts[h].vpn \in 0 .. fresh - 1 /\ hosts[h].task = "none"
      <3>1. \A h \in Hosts : hosts[h] = FreshHost
        BY <1>1
      <3>2. 0 \in 0 .. fresh - 1
        BY <1>1
      <3> QED
        BY <1>1, <2>4, <3>1, <3>2
    <2>6. last \in [Peers -> Credentials \cup {NoSetup}]
      BY <1>1
    <2>7. faults \in 0 .. MaxFaults
      BY <1>1, NamesApart
    <2> QED
      BY <1>1, <2>1, <2>2, <2>3, <2>5, <2>6, <2>7 DEF DataInv
  <1>5. CallsInv
    BY <1>1, <1>2, <1>3 DEF CallsInv
  <1>6. \A n : IdsNamed({}, n) = {} /\ IdsOf({}, n) = {}
    BY DEF IdsNamed, IdsOf
  <1>7. NamesInv
    <2>1. \A p \in Peers : PeerOK(p, {}, {}, {}, {}, {}, NoSetup, OpsOn(p))
      BY DEF PeerOK
    <2>2. \A k \in Clusters : ClusterOK(k, {}, {}, {}, {})
      BY DEF ClusterOK
    <2>3. \A p \in Peers : last[p] = NoSetup
      BY <1>1
    <2> QED
      BY <1>1, <1>2, <1>3, <1>6, <2>1, <2>2, <2>3 DEF NamesInv
  <1>8. LocksInv
    BY <1>2, <1>3 DEF LocksInv, Exclusive
  <1> QED
    BY <1>4, <1>5, <1>7, <1>8 DEF IInv

LEMMA StutterStep ==
    ASSUME IInv, UNCHANGED vars
    PROVE  IInv'
  <1>1. /\ UNCHANGED <<groups, policies, keys, machines, fresh, calls, faults, unclean>>
        /\ UNCHANGED <<descriptors, deployments, clients, handed, hosts, last, overtaken>>
    BY DEF vars, nbVars, serverVars, prVars
  <1>2. DataInv'
    BY <1>1 DEF IInv, DataInv
  <1>3. BeginFrame
    BY <1>1 DEF BeginFrame, StoredFrame
  <1> QED
    BY <1>1, <1>2, <1>3, BeginSame, NoCallStep

LEMMA IInvPreserved == IInv /\ [Next]_vars => IInv'
  <1> SUFFICES ASSUME IInv, [Next]_vars PROVE IInv'
    OBVIOUS
  <1>1. ASSUME NEW c \in Calls, Operator(c) PROVE IInv'
    BY <1>1, StorePeerDescriptorStep, DeletePeerDescriptorStep, GeneratePeerSetupStep,
       StoreClusterDeploymentStep, RequestUndeployStep
    DEF Operator
  <1>2. ASSUME NEW c \in Calls, Serve(c) PROVE IInv'
    BY <1>2, RequestStep, DeleteClusterDeploymentStep, InsertDescriptorStep, ListClientsStep,
       DeleteClientsStep, RegisterClientStep, CommitStep, FailStep, AssignStep, DeployPendingStep
    DEF Serve
  <1>3. ASSUME NEW h \in Hosts, Setup(h) \/ ServiceRestarts(h) PROVE IInv'
    BY <1>3, CheckCarlReachableStep, InstallStep, ConnectStep, ComesStep DEF Setup
  <1>4. CASE UNCHANGED vars
    BY <1>4, StutterStep
  <1> QED
    BY <1>1, <1>2, <1>3, <1>4, ManagedStep, DropCallStep, CarlRestartStep DEF Next

LEMMA AlwaysIInv == FairSpec => []IInv
  BY InitiallyIInv, IInvPreserved, PTL DEF FairSpec

-----------------------------------------------------------------------------
(* What it is for.                                                         *)

LEMMA IInvTypeOK == IInv => TypeOK
  <1> SUFFICES ASSUME IInv PROVE TypeOK
    OBVIOUS
  <1>1. NBTypeOK
    BY DataHere DEF NBTypeOK, ServerOK, UniqueIds, Issued
  <1>2. /\ \A x \in clients : x.peer \in Peers /\ x.id \in 1 .. fresh - 1
        /\ descriptors \subseteq Peers /\ deployments \subseteq Clusters
    BY DataHere DEF Issued
  <1>3. \A h \in Hosts : hosts[h].conf \in Peers \cup {NoName} /\ hosts[h].vpn \in 0 .. fresh - 1
    BY HostHere DEF IInv, DataInv
  <1>4. ASSUME NEW c \in Calls, NEW d \in Calls, c # d
        PROVE  /\ Writing(c) => ~Writing(d) /\ calls[d].op # "generate"
               /\ calls[c].op = "deploy" => calls[d].op # "deploy"
    <2>1. Exclusive(calls[c], calls[d], overtaken)
      BY <1>4 DEF IInv, LocksInv
    <2> QED
      BY <2>1 DEF Exclusive, IsWriting, Writing
  <1> QED
    BY <1>1, <1>2, <1>3, <1>4 DEF TypeOK

LEMMA IInvNothingLeftBehind == IInv => NothingLeftBehind
  <1> SUFFICES ASSUME IInv, NEW p \in Peers \ descriptors
               PROVE  /\ \A k \in keys : k.peer # p
                      /\ \A x \in clients : x.peer # p
                      /\ p \notin unclean /\ ~Busy(p) => Named(groups, p) = {}
    BY DEF NothingLeftBehind
  <1>1. PeerOK(p, IdsNamed(groups, p), IdsOf(keys, p), IdsOf(clients, p), descriptors, unclean,
               last[p], OpsOn(p))
    BY DEF IInv, NamesInv
  <1>2. IdsOf(keys, p) = {} /\ IdsOf(clients, p) = {}
    BY <1>1 DEF PeerOK
  <1>3. ~Busy(p) => OpsOn(p) = {}
    BY DEF Busy, OpsOn
  <1>4. p \notin unclean /\ ~Busy(p) => IdsNamed(groups, p) = {}
    BY <1>1, <1>3 DEF PeerOK
  <1> QED
    BY <1>2, <1>4 DEF IdsOf, IdsNamed, Named

LEMMA IInvLastSetupUsable == IInv => LastSetupUsable
  <1> SUFFICES ASSUME IInv, NEW p \in Peers, last[p] # NoSetup, ~Busy(p)
               PROVE  /\ [peer |-> p, id |-> last[p].client] \in clients
                      /\ \E k \in keys : k.id = last[p].key /\ k.peer = p
    BY DEF LastSetupUsable
  <1>1. PeerOK(p, IdsNamed(groups, p), IdsOf(keys, p), IdsOf(clients, p), descriptors, unclean,
               last[p], OpsOn(p))
    BY DEF IInv, NamesInv
  <1>2. OpsOn(p) = {}
    BY DEF Busy, OpsOn
  <1>3. last[p].key \in IdsOf(keys, p) /\ last[p].client \in IdsOf(clients, p)
    BY <1>1, <1>2 DEF PeerOK
  <1>4. PICK x \in clients : x.peer = p /\ x.id = last[p].client
    BY <1>3 DEF IdsOf
  <1>5. x \in [peer : Peers, id : Issued(fresh)]
    BY DataHere
  <1>6. x = [peer |-> p, id |-> last[p].client]
    BY <1>4, <1>5
  <1> QED
    BY <1>3, <1>4, <1>6 DEF IdsOf

LEMMA IInvPolicyOnlyWhileDeployed == IInv => PolicyOnlyWhileDeployed
  <1> SUFFICES ASSUME IInv, NEW k \in Clusters \ (deployments \cup overtaken)
               PROVE  Named(policies, k) = {} /\ Named(groups, k) = {}
    BY DEF PolicyOnlyWhileDeployed
  <1>1. ClusterOK(k, IdsNamed(groups, k), IdsNamed(policies, k), deployments, overtaken)
    BY DEF IInv, NamesInv
  <1> QED
    BY <1>1 DEF ClusterOK, IdsNamed, Named

(***************************************************************************)
(* What NetBird, the provider and CARL's store hold fits together at any   *)
(* time: a policy has its group, a setup key the group of its peer, an id  *)
(* stands for one resource; and whatever the order in which operators'     *)
(* calls take the store's lock (resource_manager.read, .write) and the     *)
(* ClusterManager's mutex, no call writes beside a call that writes or     *)
(* generates, and no two deployments run at a time.                        *)
(***************************************************************************)
THEOREM ProvisioningTyped == FairSpec => []TypeOK
  BY AlwaysIInv, IInvTypeOK, PTL

(***************************************************************************)
(* StorePeerDescriptorError and DeletePeerDescriptorError leave nothing    *)
(* usable behind: a peer that CARL has no descriptor of has no setup key   *)
(* and no OIDC client, whichever request of store_peer_descriptor and      *)
(* delete_peer_descriptor failed and wherever their gRPC call was dropped  *)
(* or CARL went down, and in the end no group either, but for the answers  *)
(* that were lost, the undo that failed and the stores that were cut off   *)
(* after they had created the group.                                       *)
(***************************************************************************)
THEOREM StoreAndVpnAgree == FairSpec => []NothingLeftBehind
  BY AlwaysIInv, IInvNothingLeftBehind, PTL

(***************************************************************************)
(* Any number of generate_peer_setup for one peer may run side by side,    *)
(* each deleting the OIDC clients it finds: of the last to end the setup   *)
(* that it returned is good, its client exists and its key is valid.       *)
(***************************************************************************)
THEOREM SetupHandedOutWorks == FairSpec => []LastSetupUsable
  BY AlwaysIInv, IInvLastSetupUsable, PTL

(***************************************************************************)
(* delete_cluster_deployment ends the members' access to each other: a     *)
(* cluster that is not deployed has neither a policy nor a group, unless a *)
(* deployment of it was running when its own was deleted.                  *)
(***************************************************************************)
THEOREM UndeployedHasNoAccess == FairSpec => []PolicyOnlyWhileDeployed
  BY AlwaysIInv, IInvPolicyOnlyWhileDeployed, PTL
=============================================================================
