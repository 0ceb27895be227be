----------------------- MODULE ObserverMessagingBroker -----------------------
(***************************************************************************)
(* `opendut-cleo await`: CARL's ObserverMessagingBroker watches the        *)
(* PeerConnectionState of some peers through a subscription and streams    *)
(* its view to CLEO until all of them are online or CLEO has enough.       *)
(* Every subscriber of ResourceManager is one such call.                   *)
(***************************************************************************)
EXTENDS ResourceManager

CONSTANTS
    Descriptors,  \* the kind PeerDescriptor
    ConnStates,   \* the kind PeerConnectionState, of values "Online" and "Offline"
    Durations,    \* how many seconds users let CLEO wait
    OutCapacity   \* capacity of the channel to CLEO

ASSUME ObserverAssumption ==
    /\ {Descriptors, ConnStates} \subseteq Kinds /\ ConnStates \notin Persistent
    /\ ValuesOf[ConnStates] = {"Online", "Offline"}
    /\ \A s \in Subscribers : KindOf[s] = ConnStates
    /\ Durations \subseteq Nat /\ OutCapacity \in Nat \ {0}

VARIABLES
    observer,  \* each call's state in CARL, see Observer
    cleo,      \* what CLEO knows of its call
    missed     \* history: calls whose subscription did not see every change

obVars == <<observer, cleo, missed>>
vars == <<rmVars, obVars>>

Status   == {"Success", "Pending", "Failure"}
Watching == {"first", "observe", "respond"}
Observer == [pc      : {"idle", "list", "subscribe", "linger", "done"} \cup Watching,
             ids     : SUBSET Ids,        \* the peers asked for
             view    : [Ids -> {"Online", "Offline"}],  \* ObservePeersOnline.peers
             listed  : Nat,               \* history: events sent when states were listed
             elapsed : BOOLEAN,           \* max_observation_duration is over
             outbox  : Seq(Status),       \* tx_outbound
             closed  : BOOLEAN]           \* CLEO dropped its end
Idle == [pc |-> "idle", ids |-> {}, view |-> [i \in Ids |-> "Offline"], listed |-> 0,
         elapsed |-> FALSE, outbox |-> <<>>, closed |-> FALSE]

Init ==
    /\ RMInit
    /\ observer = [s \in Subscribers |-> Idle]
    /\ cleo = [s \in Subscribers |-> "idle"]
    /\ missed = {}

TypeOK ==
    /\ RMTypeOK
    /\ observer \in [Subscribers -> Observer]
    /\ \A s \in Subscribers : Len(observer[s].outbox) <= OutCapacity
    /\ cleo \in [Subscribers -> {"idle", "waiting", "rejected", "ended", "disconnected"}]
    /\ missed \subseteq Subscribers

----------------------------------------------------------------------------
(* A call: the facade, ObservePeersOnline::create, the spawned task.        *)

At(s, pc) == observer[s].pc = pc

\* A request with another duration does not convert.
DurationAllowed(duration) == duration \in 30 .. 60 * 60

\* check_peer_ids_exist_and_nonempty, left out for peers that may not yet exist.
Wait(s, ids, mayNotYetExist, duration) ==
    /\ At(s, "idle") /\ cleo[s] = "idle" /\ LockFree
    /\ IF /\ DurationAllowed(duration)
          /\ mayNotYetExist \/ (ids # {} /\ \A i \in ids : tables[Descriptors][i] # NoValue)
       THEN /\ observer' = [observer EXCEPT ![s].pc = "list", ![s].ids = ids]
            /\ cleo' = [cleo EXCEPT ![s] = "waiting"]
       ELSE /\ cleo' = [cleo EXCEPT ![s] = "rejected"]
            /\ UNCHANGED observer
    /\ UNCHANGED <<rmVars, missed>>

\* A peer without a stored state counts as offline.
StateOf(v) == IF v = NoValue THEN "Offline" ELSE v

ListStates(s) ==
    /\ At(s, "list") /\ LockFree
    /\ observer' = [observer EXCEPT
           ![s].pc = "subscribe",
           ![s].view = [i \in Ids |-> IF i \in observer[s].ids
                                      THEN StateOf(tables[ConnStates][i]) ELSE "Offline"],
           ![s].listed = sent[ConnStates]]
    /\ UNCHANGED <<rmVars, cleo, missed>>

\* The subscription is made after the states were listed and the lock was free
\* in between.
SubscribeStates(s) ==
    /\ At(s, "subscribe") /\ Subscribe(s)
    /\ observer' = [observer EXCEPT ![s].pc = "first", ![s].listed = 0]
    /\ missed' = IF sent[ConnStates] = observer[s].listed THEN missed ELSE missed \cup {s}
    /\ UNCHANGED cleo

\* As a bug would have it: the observation has no end.
DetermineWithoutEnd(o) ==
    IF \A i \in o.ids : o.view[i] = "Online" THEN "Success" ELSE "Pending"

DetermineResponse(o) ==
    IF \A i \in o.ids : o.view[i] = "Online" THEN "Success"
    ELSE IF o.elapsed THEN "Failure" ELSE "Pending"

\* Sending waits for room; without a receiver it fails and that is ignored.
Sent(o, pc) ==
    [o EXCEPT !.pc = pc, !.outbox = IF o.closed THEN @ ELSE Append(@, DetermineResponse(o))]
HasRoom(o) == o.closed \/ Len(o.outbox) < OutCapacity

\* Before the loop only Success is sent.
FirstResponse(s) ==
    LET o == observer[s] IN
    /\ At(s, "first")
    /\ IF DetermineResponse(o) = "Success"
       THEN HasRoom(o) /\ observer' = [observer EXCEPT ![s] = Sent(o, "linger")]
       ELSE observer' = [observer EXCEPT ![s].pc = "observe"]
    /\ UNCHANGED <<rmVars, cleo, missed>>

\* As a bug would have it: the removal of a state is not a change of it.
AppliedInsertions(o, ev) ==
    IF ev.id \in o.ids /\ ev.type = "Inserted" THEN [o.view EXCEPT ![ev.id] = ev.value]
    ELSE o.view

\* peer_online and peer_offline change the entries of the awaited peers only.
Applied(o, ev) ==
    IF ev.id \notin o.ids THEN o.view
    ELSE [o.view EXCEPT ![ev.id] = IF ev.type = "Inserted" THEN ev.value ELSE "Offline"]

\* observe: an event, the error of a receiver that lags, or, when nothing comes
\* for five seconds, nothing at all.
Observe(s) ==
    /\ At(s, "observe")
    /\ \/ /\ Waiting(s) /\ Lagging(s) <= 0 /\ Advance(s)
          /\ observer' = [observer EXCEPT ![s].pc = "respond",
                                          ![s].view = Applied(observer[s], Received(s))]
          /\ UNCHANGED missed
       \/ /\ Waiting(s) /\ Lagging(s) > 0 /\ Advance(s)
          /\ observer' = [observer EXCEPT ![s].pc = "respond"]
          /\ missed' = missed \cup {s}
       \/ /\ ~Waiting(s)
          /\ observer' = [observer EXCEPT ![s].pc = "respond"]
          /\ UNCHANGED <<next, missed>>
    /\ UNCHANGED <<storeVars, channelVars, cleo>>

\* The loop ends with Success or when CLEO is gone; a Failure does not end it.
Respond(s) ==
    LET o == observer[s] IN
    /\ At(s, "respond")
    /\ IF o.closed THEN observer' = [observer EXCEPT ![s].pc = "linger"]
       ELSE /\ HasRoom(o)
            /\ observer' = [observer EXCEPT
                   ![s] = Sent(o, IF DetermineResponse(o) = "Success" THEN "linger" ELSE "observe")]
    /\ UNCHANGED <<rmVars, cleo, missed>>

\* The task waits ten seconds for CLEO to close the stream, and ends it itself.
Leave(s) ==
    /\ At(s, "linger")
    /\ observer' = [observer EXCEPT
           ![s] = [Idle EXCEPT !.pc = "done", !.outbox = observer[s].outbox]]
    /\ next' = [next EXCEPT ![s] = -1]
    /\ UNCHANGED <<storeVars, channelVars, cleo, missed>>

Elapse(s) ==
    /\ observer[s].pc \in Watching /\ ~observer[s].elapsed
    /\ observer' = [observer EXCEPT ![s].elapsed = TRUE]
    /\ UNCHANGED <<rmVars, cleo, missed>>

----------------------------------------------------------------------------
(* CLEO: await_peers_online.                                                *)

\* CLEO reads on while the answer is Pending, and returns Ok for the other two.
CleoReceive(s) ==
    LET o == observer[s]
        answer == Head(o.outbox) IN
    /\ cleo[s] = "waiting" /\ o.outbox # <<>>
    /\ observer' = [observer EXCEPT ![s].outbox = IF answer = "Pending" THEN Tail(@) ELSE <<>>,
                                    ![s].closed = answer # "Pending"]
    /\ cleo' = [cleo EXCEPT ![s] = IF answer = "Pending" THEN @ ELSE "ended"]
    /\ UNCHANGED <<rmVars, missed>>

\* The stream ended, or CARL did: the wait fails.
CleoDisconnected(s) ==
    /\ cleo[s] = "waiting" /\ observer[s].outbox = <<>> /\ observer[s].pc \in {"idle", "done"}
    /\ cleo' = [cleo EXCEPT ![s] = "disconnected"]
    /\ UNCHANGED <<rmVars, observer, missed>>

\* The user stops CLEO; a call that is still being set up is dropped.
CleoStopped(s) ==
    /\ cleo[s] = "waiting" /\ ~At(s, "idle")
    /\ cleo' = [cleo EXCEPT ![s] = "ended"]
    /\ observer' = [observer EXCEPT
           ![s] = IF observer[s].pc \in {"list", "subscribe", "done"} THEN [Idle EXCEPT !.pc = "done"]
                  ELSE [@ EXCEPT !.closed = TRUE, !.outbox = <<>>]]
    /\ UNCHANGED <<rmVars, missed>>

----------------------------------------------------------------------------
CarlRestart ==
    /\ Restart
    /\ observer' = [s \in Subscribers |-> Idle]
    /\ missed' = {}
    /\ UNCHANGED cleo

Call(s) ==
    \/ ListStates(s) \/ SubscribeStates(s)
    \/ FirstResponse(s) \/ Observe(s) \/ Respond(s) \/ Leave(s)

Next ==
    \/ RMWrite /\ UNCHANGED obVars
    \/ CarlRestart
    \/ \E s \in Subscribers :
        \/ \E ids \in SUBSET Ids, mayNotYetExist \in BOOLEAN, duration \in Durations :
               Wait(s, ids, mayNotYetExist, duration)
        \/ Call(s)
        \/ Elapse(s)
        \/ CleoReceive(s) \/ CleoDisconnected(s) \/ CleoStopped(s)

Spec == Init /\ [][Next]_vars

\* Transactions end, time passes, CLEO reads its stream, and tokio's RwLock
\* serves those who wait for it in the order of their coming.
Fairness ==
    /\ WF_vars((Commit \/ Rollback) /\ UNCHANGED obVars)
    /\ \A s \in Subscribers :
        /\ SF_vars(ListStates(s) \/ SubscribeStates(s))
        /\ WF_vars(FirstResponse(s) \/ Observe(s) \/ Respond(s) \/ Leave(s))
        /\ WF_vars(Elapse(s))
        /\ WF_vars(CleoReceive(s) \/ CleoDisconnected(s))

FairSpec == Spec /\ Fairness

----------------------------------------------------------------------------
(* Properties.                                                              *)

\* The lock, the transactions and the channels implement the abstract store:
\* a change becomes visible at once, is announced in full and in order, and a
\* transaction that fails, is cancelled or cannot be committed leaves no trace.
StoreImplemented == Store!AbstractSpec

\* The state is well typed, no channel exceeds its capacity, and, unless the
\* states changed between the listing and the subscription, the receiver
\* lagged or a relay overflowed, what an observer says of its peers is what the
\* store said of all of them at one and the same moment, the one up to which
\* the observer has received.
ObserverFollowsStore ==
    /\ TypeOK
    /\ \A s \in Subscribers \ missed :
         observer[s].pc \in Watching /\ ConnStates \notin lost =>
            LET then == Store!After(Store!EmptyTable, SubSeq(published[ConnStates], 1, next[s]))
            IN  \A i \in observer[s].ids : observer[s].view[i] = StateOf(then[i])

\* CLEO's await returns, whatever the peers, CARL and other users do.
AwaitEnds == \A s \in Subscribers : cleo[s] = "waiting" ~> cleo[s] # "waiting"
=============================================================================
