--------------------------- MODULE ResourceManager ---------------------------
(***************************************************************************)
(* CARL's resource manager: one lock around two redb databases (a file for *)
(* the persistent kinds, memory for the volatile ones) and one broadcast   *)
(* channel per kind of resource.  A change runs in a transaction that      *)
(* keeps the lock, over awaits too; its events wait in a relay, which is   *)
(* again a set of broadcast channels, until the transaction has committed. *)
(*                                                                         *)
(* Reads take the lock shared, so that a read closure is one step.         *)
(***************************************************************************)
EXTENDS Integers, Sequences

CONSTANTS
    Kinds, Persistent, Ids, Values, NoValue, Subscribers, KindOf, Legacy,
    Capacity,    \* of every broadcast channel, the relay's included
    ValuesOf,    \* the values of each kind
    MaxEvents    \* bound on the changes of each kind between two restarts

ASSUME StoreAssumption ==
    /\ Persistent \subseteq Kinds
    /\ NoValue \notin Values
    /\ KindOf \in [Subscribers -> Kinds]
    /\ Capacity \in Nat \ {0} /\ MaxEvents \in [Kinds -> Nat]
    /\ ValuesOf \in [Kinds -> SUBSET Values]
    /\ Legacy \in [Persistent -> [Ids -> Values \cup {NoValue}]]

VARIABLES
    tables,    \* State.storage: both databases
    txn,       \* the write transaction that holds the lock
    kept,      \* State.subscribers: the events each channel still holds
    sent,      \* events sent through each channel
    next,      \* each receiver's position in its channel, -1 without one
    published, \* history: everything sent
    lost       \* history: kinds of which a relay has overflowed

storeVars == <<tables, txn>>
channelVars == <<kept, sent, published, lost>>
rmVars == <<storeVars, channelVars, next>>

Store == INSTANCE ResourceStore WITH store <- tables, cursor <- next

NoTxn    == [open |-> FALSE, work |-> Store!EmptyTable, relay |-> <<>>]
LockFree == ~txn.open

\* ResourceManager::create, over the database file as an earlier run left it.
RMInit ==
    /\ tables \in [Kinds -> [Ids -> Values \cup {NoValue}]]
    /\ \A k \in Kinds, i \in Ids :
        tables[k][i] \in {NoValue} \cup (IF k \in Persistent THEN ValuesOf[k] ELSE {})
    /\ txn = NoTxn
    /\ kept = [k \in Kinds |-> <<>>] /\ sent = [k \in Kinds |-> 0]
    /\ next = [s \in Subscribers |-> -1]
    /\ published = [k \in Kinds |-> <<>>] /\ lost = {}

RMTypeOK ==
    /\ tables \in Store!Tables
    /\ txn.open => txn.work \in Store!Tables /\ txn.relay \in [Kinds -> Seq(Store!Event)]
    /\ \A k \in Kinds : Len(kept[k]) <= Capacity /\ Len(kept[k]) <= sent[k]
    /\ \A s \in Subscribers : next[s] \in -1 .. sent[KindOf[s]]

----------------------------------------------------------------------------
\* resources_mut takes the lock and opens both transactions.
Begin ==
    /\ LockFree
    /\ txn' = [open |-> TRUE, work |-> tables, relay |-> [k \in Kinds |-> <<>>]]
    /\ UNCHANGED <<tables, channelVars, next>>

\* The closure changes the transaction's view and queues the event.
Queue(k, i, v, type, value) ==
    /\ txn.open
    /\ Len(published[k]) + Len(txn.relay[k]) < MaxEvents[k]
    /\ txn' = [txn EXCEPT !.work[k][i] = v,
                          !.relay[k] = Append(@, [type |-> type, id |-> i, value |-> value])]
    /\ UNCHANGED <<tables, channelVars, next>>

Insert(k, i, v) == Queue(k, i, v, "Inserted", v)

\* As a bug would have it: a removal is announced whether or not it removes.
RemoveAlways(k, i) ==
    \E v \in ValuesOf[k] :
        /\ txn.open /\ (txn.work[k][i] # NoValue => txn.work[k][i] = v)
        /\ Queue(k, i, NoValue, "Removed", v)

\* Removing what is not there succeeds, changes nothing and tells nobody.
Remove(k, i) ==
    /\ txn.open /\ txn.work[k][i] # NoValue
    /\ Queue(k, i, NoValue, "Removed", txn.work[k][i])

\* tokio broadcast: a channel keeps the last Capacity events.
Keep(ev) == SubSeq(ev, IF Len(ev) > Capacity THEN Len(ev) - Capacity + 1 ELSE 1, Len(ev))

\* send_relayed_subscription_events reads the relay's receiver until its first
\* error, which for a relay that has overflowed is the very first read.
Drained(k) == IF Len(txn.relay[k]) > Capacity THEN <<>> ELSE txn.relay[k]

\* The closure returned Ok: both databases are committed and, with the lock
\* still held and no await in between, the relayed events are sent.
Commit ==
    /\ txn.open
    /\ tables' = txn.work
    /\ published' = [k \in Kinds |-> published[k] \o Drained(k)]
    /\ sent' = [k \in Kinds |-> sent[k] + Len(Drained(k))]
    /\ kept' = [k \in Kinds |-> Keep(kept[k] \o Drained(k))]
    /\ lost' = lost \cup {k \in Kinds : Len(txn.relay[k]) > Capacity}
    /\ txn' = NoTxn
    /\ UNCHANGED next

\* The closure returned Err, the database refused the commit, or the caller's
\* future was dropped at an await: nothing happened.
Rollback ==
    /\ txn.open
    /\ txn' = NoTxn
    /\ UNCHANGED <<tables, channelVars, next>>

Subscribe(s) ==
    /\ LockFree
    /\ next' = [next EXCEPT ![s] = sent[KindOf[s]]]
    /\ UNCHANGED <<storeVars, channelVars>>

\* Subscription::receive: the number of events that are too old to be kept, or
\* the next event.
Lagging(s)  == sent[KindOf[s]] - Len(kept[KindOf[s]]) - next[s]
Waiting(s)  == next[s] >= 0 /\ sent[KindOf[s]] > next[s]
Received(s) == kept[KindOf[s]][1 - Lagging(s)]
Advance(s)  ==
    /\ Waiting(s)
    /\ next' = [next EXCEPT ![s] = IF Lagging(s) > 0 THEN @ + Lagging(s) ELSE @ + 1]

\* load_data_from_postgres_into_key_value_store, in a start of its own: nothing
\* happens when there is nothing to load or a resource is already there.
Migrated ==
    LET rows == {x \in Persistent \X Ids : Legacy[x[1]][x[2]] # NoValue} IN
    IF rows # {} /\ \A x \in rows : tables[x[1]][x[2]] = NoValue
    THEN [k \in Kinds |-> [i \in Ids |->
             IF <<k, i>> \in rows THEN Legacy[k][i] ELSE tables[k][i]]]
    ELSE tables

\* CARL stops and starts again; the file is what survives.
Restart ==
    /\ \E t \in {tables, Migrated} :
        tables' = [k \in Kinds |-> IF k \in Persistent THEN t[k] ELSE Store!EmptyTable]
    /\ txn' = NoTxn
    /\ kept' = [k \in Kinds |-> <<>>] /\ sent' = [k \in Kinds |-> 0]
    /\ next' = [s \in Subscribers |-> -1]
    /\ published' = [k \in Kinds |-> <<>>] /\ lost' = {}

RMWrite ==
    \/ Begin
    \/ \E k \in Kinds, i \in Ids : Remove(k, i) \/ \E v \in ValuesOf[k] : Insert(k, i, v)
    \/ Commit
    \/ Rollback
=============================================================================
