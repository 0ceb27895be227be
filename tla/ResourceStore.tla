---------------------------- MODULE ResourceStore ----------------------------
(***************************************************************************)
(* What CARL's resource manager promises the rest of CARL: resources of    *)
(* several kinds that change in atomic steps, and for every kind a stream  *)
(* of events that explains every change of it.  ResourceManager implements *)
(* this with a lock, a transaction and bounded broadcast channels.         *)
(***************************************************************************)
EXTENDS Integers, Sequences

CONSTANTS
    Kinds,       \* kinds of resources, each with a channel of its own
    Persistent,  \* the kinds that survive a restart
    Ids,         \* identifiers of resources
    Values,      \* what is stored
    NoValue,     \* nothing is stored
    Subscribers, \* users of `subscribe`
    KindOf,      \* the kind each of them subscribes to
    Legacy,      \* what the PostgreSQL database of an older version holds
    Capacity     \* events a broadcast channel keeps

VARIABLES
    store,      \* what the last committed transaction left
    published,  \* all events of each kind since the start of CARL
    lost,       \* the kinds a transaction changed without saying so
    cursor      \* events of the subscriber's kind behind it, -1: not subscribed

Tables == [Kinds -> [Ids -> Values \cup {NoValue}]]
Event  == [type : {"Inserted", "Removed"}, id : Ids, value : Values]

\* Where a table has got to after the events ev.
After(table, ev) ==
    [i \in Ids |->
        LET about == {n \in DOMAIN ev : ev[n].id = i}
            last  == CHOOSE n \in about : \A m \in about : m <= n
        IN  IF about = {} THEN table[i]
            ELSE IF ev[last].type = "Inserted" THEN ev[last].value ELSE NoValue]

\* Nothing is announced as removed that was not stored at that moment.
Truthful(table, ev) ==
    \A n \in DOMAIN ev : ev[n].type = "Removed" =>
        After(table, SubSeq(ev, 1, n - 1))[ev[n].id] = ev[n].value

EmptyTable == [i \in Ids |-> NoValue]
Fresh ==
    /\ published = [k \in Kinds |-> <<>>]
    /\ lost = {}
    /\ cursor = [s \in Subscribers |-> -1]

AbstractInit ==
    /\ store \in Tables
    /\ \A k \in Kinds \ Persistent : store[k] = EmptyTable
    /\ Fresh

\* The events of kind k that a step publishes.
New(k) == SubSeq(published'[k], Len(published[k]) + 1, Len(published'[k]))

\* A transaction installs all of its changes at once, and announces them in
\* full and in order.  Only a kind that is lost may change without an event.
Commit ==
    /\ \A k \in Kinds :
        /\ Len(published[k]) <= Len(published'[k])
        /\ SubSeq(published'[k], 1, Len(published[k])) = published[k]
        /\ Len(New(k)) <= Capacity
        /\ IF New(k) = <<>> /\ k \in lost' THEN store'[k] \in [Ids -> Values \cup {NoValue}]
           ELSE store'[k] = After(store[k], New(k)) /\ Truthful(store[k], New(k))
    /\ lost \subseteq lost'
    /\ UNCHANGED cursor

\* A subscriber receives what is published from now on, until it is dropped.
Subscribe(s) ==
    /\ cursor' \in {[cursor EXCEPT ![s] = n] : n \in {Len(published[KindOf[s]]), -1}}
    /\ UNCHANGED <<store, published, lost>>

\* It receives every event, in order, unless it is more than Capacity behind:
\* then it continues with the oldest event that is kept.
Receive(s) ==
    LET behind == Len(published[KindOf[s]]) - cursor[s] IN
    /\ cursor[s] >= 0 /\ behind > 0
    /\ cursor' = [cursor EXCEPT ![s] = IF behind > Capacity THEN @ + (behind - Capacity) ELSE @ + 1]
    /\ UNCHANGED <<store, published, lost>>

\* A restart of CARL, of which the subscribers are part.  What was stored in a
\* persistent kind is there afterwards; all that may have appeared is the whole
\* of the old database.
Restart ==
    /\ \A k \in Kinds \ Persistent : store'[k] = EmptyTable
    /\ \/ \A k \in Persistent : store'[k] = store[k]
       \/ \A k \in Persistent, i \in Ids :
            IF Legacy[k][i] = NoValue THEN store'[k][i] = store[k][i]
            ELSE store[k][i] = NoValue /\ store'[k][i] = Legacy[k][i]
    /\ Fresh'

AbstractNext ==
    \/ Commit
    \/ \E s \in Subscribers : Subscribe(s) \/ Receive(s)
    \/ Restart

AbstractSpec == AbstractInit /\ [][AbstractNext]_<<store, published, lost, cursor>>
=============================================================================
