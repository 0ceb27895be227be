------------------------- MODULE PeerMessagingBroker -------------------------
(***************************************************************************)
(* CARL's PeerMessagingBroker: the bidirectional gRPC stream every EDGAR   *)
(* keeps open, the map of connected peers, the PeerConnectionState kept in *)
(* the resource manager, and the effect that disconnects a peer whose      *)
(* descriptor was removed.                                                 *)
(*                                                                         *)
(* Every session is one call of `open` together with the stream task that  *)
(* call spawns; pc[s] names the lock section it executes next.  The code   *)
(* holds no lock across two of these sections, so each is one action.      *)
(***************************************************************************)
EXTENDS Naturals, Sequences

CONSTANTS
    Peers,            \* PeerIds
    Removable,        \* the peers whose descriptor operators may delete
    Sessions,         \* calls of open
    PeerOf,           \* the peer that makes each call
    NoSession,        \* "no entry" in the map of connected peers
    EventCapacity,    \* capacity of the PeerDescriptor broadcast channel
    OutboundCapacity, \* capacity of a downstream mpsc channel
    MaxVersion        \* bound on the number of configurations assigned

ASSUME SessionsAssumption ==
    /\ Peers # {}
    /\ Removable \subseteq Peers
    /\ PeerOf \in [Sessions -> Peers]
    /\ NoSession \notin Sessions
ASSUME BoundsAssumption ==
    /\ EventCapacity \in Nat \ {0}
    /\ OutboundCapacity \in Nat \ {0}
    /\ MaxVersion \in Nat

VARIABLES
    \* resource manager
    descriptors,   \* peers with a PeerDescriptor (persistent)
    connState,     \* PeerConnectionState, "None" when there is none (volatile)
    cfg,           \* version of OldPeerConfiguration and PeerConfiguration (volatile)
    events,        \* PeerDescriptor events the broker's effect has not received
    \* PeerMessagingBroker.peers
    downstream,    \* the session whose sender the entry holds, or NoSession
    disconnected,  \* the entry's flag
    \* sessions
    pc,            \* next lock section of open, of the stream task or of its clean-up
    session,       \* the session's channels and local variables, see Session
    \* the two other users of the broker
    effect,        \* task spawned by disconnect_peer_when_removed
    assign,        \* assign_cluster transaction that is under way
    \* history, read by no action's guard but for the bound on version
    version,       \* configurations assigned so far
    lastCfg,       \* last configuration put into each downstream channel
    unsettled,     \* sessions overtaken by an assignment or by a rollback
    everRemoved    \* peers whose descriptor was removed at least once

storeVars == <<descriptors, connState, cfg, events>>
mapVars == <<downstream, disconnected>>
historyVars == <<version, lastCfg, unsettled, everRemoved>>
vars == <<storeVars, mapVars, pc, session, effect, assign, historyVars>>

----------------------------------------------------------------------------
Opening == {"update", "register", "readOld", "readNew", "lookup", "send"}
Loop    == {"recv", "pong", "check"}
Closing == {"grace", "getState", "getDescriptor", "deleteState", "setOffline"}
\* Online has been stored and the step that takes it back is still ahead.
Owning  == (Opening \ {"update"}) \cup Loop \cup Closing
\* Online has been stored and nothing will take it back.
Stranded == {"leaked", "cancelled", "abandoned"}
PC      == {"idle", "rejected", "unregister", "ended"}
              \cup Stranded \cup Opening \cup Loop \cup Closing

ConnStates == {"None", "Offline", "Online"}
Versions   == 0 .. MaxVersion
Event      == [kind : {"Inserted", "Removed"}, peer : Peers]
Message    == {"apply", "pong", "notice"}
MaybeSession == Sessions \cup {NoSession}

Session == [rxClosed  : BOOLEAN,       \* rx_inbound closed by the stream task
            txDropped : BOOLEAN,       \* tx_inbound dropped by the gRPC facade
            rxDropped : BOOLEAN,       \* rx_outbound dropped with the response stream
            inbound   : Nat,           \* pings in the upstream channel
            outbound  : Seq(Message),  \* the downstream channel
            mayPing   : BOOLEAN,       \* EDGAR pings on opening and for each pong
            target    : MaybeSession,  \* sender cloned out of the map, not used yet
            seen      : Versions \X Versions] \* the two configurations read

SomePeer   == CHOOSE p \in Peers : TRUE
EffectIdle == [pc |-> "receive", peer |-> SomePeer, target |-> NoSession]
AssignIdle == [pc |-> "idle", peer |-> SomePeer, target |-> NoSession, raced |-> {}]
NewSession == [rxClosed |-> FALSE, txDropped |-> FALSE, rxDropped |-> FALSE,
               inbound |-> 0, outbound |-> <<>>, mayPing |-> TRUE,
               target |-> NoSession, seen |-> <<0, 0>>]

TypeOK ==
    /\ descriptors \subseteq Peers
    /\ connState \in [Peers -> ConnStates]
    /\ cfg \in [Peers -> Versions]
    /\ events \in Seq(Event) /\ Len(events) <= EventCapacity
    /\ downstream \in [Peers -> MaybeSession]
    /\ disconnected \in [Peers -> BOOLEAN]
    /\ pc \in [Sessions -> PC]
    /\ session \in [Sessions -> Session]
    /\ \A s \in Sessions : Len(session[s].outbound) <= OutboundCapacity
    /\ effect \in [pc : {"receive", "getState", "removeState", "lookup", "notice", "mark"},
                   peer : Peers, target : MaybeSession]
    /\ assign \in [pc : {"idle", "lookup", "send", "commit"}, peer : Peers,
                   target : MaybeSession, raced : SUBSET Sessions]
    /\ version \in Versions
    /\ lastCfg \in [Sessions -> Versions \X Versions]
    /\ unsettled \subseteq MaybeSession
    /\ everRemoved \subseteq Peers

Init ==
    /\ descriptors \in SUBSET Peers
    /\ connState = [p \in Peers |-> "None"]
    /\ cfg = [p \in Peers |-> 0]
    /\ events = <<>>
    /\ downstream = [p \in Peers |-> NoSession]
    /\ disconnected = [p \in Peers |-> FALSE]
    /\ pc = [s \in Sessions |-> "idle"]
    /\ session = [s \in Sessions |-> NewSession]
    /\ effect = EffectIdle
    /\ assign = AssignIdle
    /\ version = 0
    /\ lastCfg = [s \in Sessions |-> <<0, 0>>]
    /\ unsettled = {}
    /\ everRemoved = {}

----------------------------------------------------------------------------
\* The resource manager's lock.  An assign_cluster transaction keeps it while
\* it waits for room in a downstream channel; every other access is one step.
LockFree == assign.pc = "idle"

\* tokio broadcast: a full channel forgets its oldest event, which a slow
\* receiver only learns as Lagged, and the effect ignores that.
Notify(kind, p) ==
    events' = Append(IF Len(events) < EventCapacity THEN events ELSE Tail(events),
                     [kind |-> kind, peer |-> p])

Gone(s) == session[s].rxDropped
Room(s) == Len(session[s].outbound) < OutboundCapacity
Pushed(s, message) == [session EXCEPT ![s].outbound = Append(@, message)]
Goto(s, label) == pc' = [pc EXCEPT ![s] = label]

\* Both ends open's caller got or would have got, with what they hold.
HandlesDropped(s) ==
    [session EXCEPT ![s].rxDropped = TRUE, ![s].txDropped = TRUE, ![s].outbound = <<>>,
                    ![s].target = NoSession, ![s].seen = <<0, 0>>]

----------------------------------------------------------------------------
(* open.                                                                    *)

ExpectKnownPeerDescriptor(s) ==
    /\ pc[s] = "idle" /\ LockFree
    /\ IF PeerOf[s] \in descriptors
       THEN Goto(s, "update") /\ UNCHANGED session
       ELSE Goto(s, "rejected") /\ session' = HandlesDropped(s)
    /\ UNCHANGED <<storeVars, mapVars, effect, assign, historyVars>>

RejectConnected(s) ==
    /\ pc[s] = "update" /\ LockFree
    /\ connState[PeerOf[s]] = "Online"
    /\ Goto(s, "rejected")
    /\ session' = HandlesDropped(s)
    /\ UNCHANGED <<storeVars, mapVars, effect, assign, historyVars>>

\* Mutant: a second stream is not rejected.
UpdateUnchecked(s) ==
    /\ pc[s] = "update" /\ LockFree
    /\ connState' = [connState EXCEPT ![PeerOf[s]] = "Online"]
    /\ Goto(s, "register")
    /\ UNCHANGED <<descriptors, cfg, events, mapVars, session, effect, assign, historyVars>>

UpdatePeerConnectionState(s) ==
    /\ pc[s] = "update" /\ LockFree
    /\ connState[PeerOf[s]] # "Online"
    /\ connState' = [connState EXCEPT ![PeerOf[s]] = "Online"]
    /\ Goto(s, "register")
    /\ UNCHANGED <<descriptors, cfg, events, mapVars, session, effect, assign, historyVars>>

RegisterPeer(s) ==
    /\ pc[s] = "register"
    /\ downstream' = [downstream EXCEPT ![PeerOf[s]] = s]
    /\ disconnected' = [disconnected EXCEPT ![PeerOf[s]] = FALSE]
    /\ Goto(s, "readOld")
    /\ UNCHANGED <<storeVars, session, effect, assign, historyVars>>

ReadOldPeerConfiguration(s) ==
    /\ pc[s] = "readOld" /\ LockFree
    /\ session' = [session EXCEPT ![s].seen = <<cfg[PeerOf[s]], 0>>]
    /\ Goto(s, "readNew")
    /\ UNCHANGED <<storeVars, mapVars, effect, assign, historyVars>>

ReadPeerConfiguration(s) ==
    /\ pc[s] = "readNew" /\ LockFree
    /\ session' = [session EXCEPT ![s].seen = <<@[1], cfg[PeerOf[s]]>>]
    /\ Goto(s, "lookup")
    /\ UNCHANGED <<storeVars, mapVars, effect, assign, historyVars>>

\* send_to_peer clones the sender under the map's lock and uses it after.  An
\* open that fails from here on leaves its peer Online with no stream task.
LookupDownstream(s) ==
    /\ pc[s] = "lookup"
    /\ IF downstream[PeerOf[s]] = NoSession
       THEN Goto(s, "leaked") /\ session' = HandlesDropped(s)
       ELSE /\ Goto(s, "send")
            /\ session' = [session EXCEPT ![s].target = downstream[PeerOf[s]]]
    /\ UNCHANGED <<storeVars, mapVars, effect, assign, historyVars>>

SendInitialPeerConfiguration(s) ==
    LET to == session[s].target
    IN  /\ pc[s] = "send"
        /\ \/ /\ Gone(to)
              /\ Goto(s, "leaked")
              /\ session' = HandlesDropped(s)
              /\ UNCHANGED lastCfg
           \/ /\ ~ Gone(to) /\ Room(to)
              /\ Goto(s, "recv")
              /\ session' = [Pushed(to, "apply") EXCEPT ![s].target = NoSession,
                                                        ![s].seen = <<0, 0>>]
              /\ lastCfg' = [lastCfg EXCEPT ![to] = session[s].seen]
        /\ UNCHANGED <<storeVars, mapVars, effect, assign, version, unsettled, everRemoved>>

\* The gRPC server drops the future of a call whose client is gone, at
\* whichever await the call has reached; a call to which the database does not
\* answer ends at the same places and leaves the same behind.
CancelOpen(s) ==
    /\ pc[s] \in Opening
    /\ Goto(s, IF pc[s] = "update" THEN "rejected" ELSE "cancelled")
    /\ session' = HandlesDropped(s)
    /\ UNCHANGED <<storeVars, mapVars, effect, assign, historyVars>>

----------------------------------------------------------------------------
(* The stream task.                                                         *)

ReceiveMessage(s) ==
    /\ pc[s] = "recv" /\ session[s].inbound > 0
    /\ session' = [session EXCEPT ![s].inbound = @ - 1]
    /\ Goto(s, "pong")
    /\ UNCHANGED <<storeVars, mapVars, effect, assign, historyVars>>

\* Mutant: the pong does not wait for room in the channel.
PongWithoutRoom(s) ==
    /\ pc[s] = "pong"
    /\ session' = Pushed(s, "pong")
    /\ Goto(s, "check")
    /\ UNCHANGED <<storeVars, mapVars, effect, assign, historyVars>>

HandleStreamMessage(s) ==
    /\ pc[s] = "pong"
    /\ \/ Gone(s) /\ UNCHANGED session
       \/ ~ Gone(s) /\ Room(s) /\ session' = Pushed(s, "pong")
    /\ Goto(s, "check")
    /\ UNCHANGED <<storeVars, mapVars, effect, assign, historyVars>>

\* Mutant: an empty closed channel is taken for a timeout.
NoneWithoutBreak(s) ==
    /\ pc[s] = "recv" /\ session[s].inbound = 0
    /\ session[s].rxClosed \/ session[s].txDropped
    /\ Goto(s, "check")
    /\ UNCHANGED <<storeVars, mapVars, session, effect, assign, historyVars>>

ReceiveNone(s) ==
    /\ pc[s] = "recv" /\ session[s].inbound = 0
    /\ session[s].rxClosed \/ session[s].txDropped
    /\ Goto(s, "grace")
    /\ UNCHANGED <<storeVars, mapVars, session, effect, assign, historyVars>>

\* Mutant: a silent peer is only logged.
TimeoutWithoutClose(s) ==
    /\ pc[s] = "recv" /\ session[s].inbound = 0
    /\ ~ session[s].rxClosed /\ ~ session[s].txDropped
    /\ Goto(s, "check")
    /\ UNCHANGED <<storeVars, mapVars, session, effect, assign, historyVars>>

ReceiveTimeout(s) ==
    /\ pc[s] = "recv" /\ session[s].inbound = 0
    /\ ~ session[s].rxClosed /\ ~ session[s].txDropped
    /\ session' = [session EXCEPT ![s].rxClosed = TRUE]
    /\ Goto(s, "check")
    /\ UNCHANGED <<storeVars, mapVars, effect, assign, historyVars>>

\* The flag is that of the peer's current entry, whose sender may be another's.
CheckDisconnected(s) ==
    /\ pc[s] = "check"
    /\ session' = [session EXCEPT ![s].rxClosed = @ \/ disconnected[PeerOf[s]]]
    /\ Goto(s, "recv")
    /\ UNCHANGED <<storeVars, mapVars, effect, assign, historyVars>>

\* Mutant: a client that does not close in time is removed from the map only.
GraceTimeSkipsState(s) ==
    /\ pc[s] = "grace"
    /\ Goto(s, IF Gone(s) THEN "getState" ELSE "unregister")
    /\ UNCHANGED <<storeVars, mapVars, session, effect, assign, historyVars>>

\* tx_outbound.closed() or the grace time, whichever comes first.
ChannelCloseGraceTime(s) ==
    /\ pc[s] = "grace"
    /\ Goto(s, "getState")
    /\ UNCHANGED <<storeVars, mapVars, session, effect, assign, historyVars>>

----------------------------------------------------------------------------
(* remove_peer_impl, run by the stream task after its loop.                 *)

\* The task returns and drops rx_inbound with what it holds.
EndTask(s) ==
    /\ Goto(s, "ended")
    /\ session' = [session EXCEPT ![s].rxClosed = TRUE, ![s].inbound = 0]

GetConnectionState(s) ==
    /\ pc[s] = "getState" /\ LockFree
    /\ IF connState[PeerOf[s]] = "None"
       THEN EndTask(s)
       ELSE Goto(s, "getDescriptor") /\ UNCHANGED session
    /\ UNCHANGED <<storeVars, mapVars, effect, assign, historyVars>>

GetPeerDescriptor(s) ==
    /\ pc[s] = "getDescriptor" /\ LockFree
    /\ Goto(s, IF PeerOf[s] \in descriptors THEN "setOffline" ELSE "deleteState")
    /\ UNCHANGED <<storeVars, mapVars, session, effect, assign, historyVars>>

\* Stores the decision taken when the descriptor was read.
StoreConnectionState(s) ==
    /\ pc[s] \in {"deleteState", "setOffline"} /\ LockFree
    /\ connState' = [connState EXCEPT ![PeerOf[s]] =
                        IF pc[s] = "setOffline" THEN "Offline" ELSE "None"]
    /\ Goto(s, "unregister")
    /\ UNCHANGED <<descriptors, cfg, events, mapVars, session, effect, assign, historyVars>>

\* The database does not answer one of the clean-up's accesses: it ends there and
\* leaves the state and the entry as they are.
CleanUpFails(s) ==
    /\ pc[s] \in Closing \ {"grace"} /\ LockFree
    /\ Goto(s, "abandoned")
    /\ session' = [session EXCEPT ![s].rxClosed = TRUE, ![s].inbound = 0]
    /\ UNCHANGED <<storeVars, mapVars, effect, assign, historyVars>>

\* Removes whatever entry the peer has by now, its own or not.
UnregisterPeer(s) ==
    /\ pc[s] = "unregister"
    /\ downstream' = [downstream EXCEPT ![PeerOf[s]] = NoSession]
    /\ disconnected' = [disconnected EXCEPT ![PeerOf[s]] = FALSE]
    /\ EndTask(s)
    /\ UNCHANGED <<storeVars, effect, assign, historyVars>>

----------------------------------------------------------------------------
(* EDGAR at the other end, and the connection between them.                 *)

Answered(s) == pc[s] \in Loop \cup Closing \cup {"unregister", "ended", "abandoned"}

\* The facade stops forwarding once the stream task has closed the channel.
ClientPing(s) ==
    /\ Answered(s) /\ session[s].mayPing /\ ~ session[s].txDropped
    /\ session' = IF session[s].rxClosed
                  THEN [session EXCEPT ![s].mayPing = FALSE, ![s].txDropped = TRUE]
                  ELSE [session EXCEPT ![s].mayPing = FALSE, ![s].inbound = @ + 1]
    /\ UNCHANGED <<storeVars, mapVars, pc, effect, assign, historyVars>>

\* A pong is answered by the next ping; a DisconnectNotice shuts EDGAR down.
ClientReceive(s) ==
    /\ Answered(s) /\ ~ Gone(s) /\ session[s].outbound # <<>>
    /\ LET message == Head(session[s].outbound)
       IN session' = IF message = "notice"
                     THEN HandlesDropped(s)
                     ELSE [session EXCEPT ![s].outbound = Tail(@),
                                          ![s].mayPing = @ \/ message = "pong"]
    /\ UNCHANGED <<storeVars, mapVars, pc, effect, assign, historyVars>>

DropInbound(s) ==
    /\ Answered(s) /\ ~ session[s].txDropped
    /\ session' = [session EXCEPT ![s].txDropped = TRUE]
    /\ UNCHANGED <<storeVars, mapVars, pc, effect, assign, historyVars>>

DropOutbound(s) ==
    /\ Answered(s) /\ ~ Gone(s)
    /\ session' = [session EXCEPT ![s].rxDropped = TRUE, ![s].outbound = <<>>]
    /\ UNCHANGED <<storeVars, mapVars, pc, effect, assign, historyVars>>

----------------------------------------------------------------------------
(* Peer descriptors, as the peer manager stores and deletes them.           *)

StorePeerDescriptor(p) ==
    /\ LockFree
    /\ descriptors' = descriptors \cup {p}
    /\ Notify("Inserted", p)
    /\ UNCHANGED <<connState, cfg, mapVars, pc, session, effect, assign, historyVars>>

DeletePeerDescriptor(p) ==
    /\ LockFree
    /\ p \in descriptors \cap Removable
    /\ descriptors' = descriptors \ {p}
    /\ everRemoved' = everRemoved \cup {p}
    /\ Notify("Removed", p)
    /\ UNCHANGED <<connState, cfg, mapVars, pc, session, effect, assign,
                   version, lastCfg, unsettled>>

----------------------------------------------------------------------------
(* disconnect_peer_when_removed, remove_peer and disconnect.                *)

EffectReceive ==
    /\ effect.pc = "receive" /\ events # <<>>
    /\ events' = Tail(events)
    /\ effect' = IF Head(events).kind = "Removed"
                 THEN [effect EXCEPT !.pc = "getState", !.peer = Head(events).peer]
                 ELSE effect
    /\ UNCHANGED <<descriptors, connState, cfg, mapVars, pc, session, assign, historyVars>>

EffectGetState ==
    /\ effect.pc = "getState" /\ LockFree
    /\ effect' = CASE connState[effect.peer] = "None"    -> EffectIdle
                   [] connState[effect.peer] = "Offline" -> [effect EXCEPT !.pc = "removeState"]
                   [] connState[effect.peer] = "Online"  -> [effect EXCEPT !.pc = "lookup"]
    /\ UNCHANGED <<storeVars, mapVars, pc, session, assign, historyVars>>

EffectRemoveState ==
    /\ effect.pc = "removeState" /\ LockFree
    /\ connState' = [connState EXCEPT ![effect.peer] = "None"]
    /\ effect' = EffectIdle
    /\ UNCHANGED <<descriptors, cfg, events, mapVars, pc, session, assign, historyVars>>

\* Nobody looks at what the database answers to the effect.
EffectFails ==
    /\ effect.pc \in {"getState", "removeState"} /\ LockFree
    /\ effect' = EffectIdle
    /\ UNCHANGED <<storeVars, mapVars, pc, session, assign, historyVars>>

EffectLookup ==
    /\ effect.pc = "lookup"
    /\ effect' = IF downstream[effect.peer] = NoSession
                 THEN EffectIdle
                 ELSE [effect EXCEPT !.pc = "notice", !.target = downstream[effect.peer]]
    /\ UNCHANGED <<storeVars, mapVars, pc, session, assign, historyVars>>

EffectSendNotice ==
    /\ effect.pc = "notice"
    /\ \/ /\ Gone(effect.target)
          /\ effect' = EffectIdle
          /\ UNCHANGED session
       \/ /\ ~ Gone(effect.target) /\ Room(effect.target)
          /\ session' = Pushed(effect.target, "notice")
          /\ effect' = [effect EXCEPT !.pc = "mark"]
    /\ UNCHANGED <<storeVars, mapVars, pc, assign, historyVars>>

\* Puts the sender read before the notice back, whatever the entry is by now.
EffectMark ==
    /\ effect.pc = "mark"
    /\ downstream' = [downstream EXCEPT ![effect.peer] = effect.target]
    /\ disconnected' = [disconnected EXCEPT ![effect.peer] = TRUE]
    /\ effect' = EffectIdle
    /\ UNCHANGED <<storeVars, pc, session, assign, historyVars>>

----------------------------------------------------------------------------
(* assign_cluster: one transaction that stores a new configuration, sends   *)
(* it and is committed, or rolled back when this or another member fails.   *)

AssignBegin(p) ==
    /\ LockFree /\ version < MaxVersion
    /\ p \in descriptors
    /\ version' = version + 1
    /\ assign' = [pc |-> "lookup", peer |-> p, target |-> NoSession,
                  raced |-> {s \in Sessions : PeerOf[s] = p
                                              /\ pc[s] \in {"readNew", "lookup", "send"}}]
    /\ UNCHANGED <<storeVars, mapVars, pc, session, effect, lastCfg, unsettled, everRemoved>>

AssignLookup ==
    /\ assign.pc = "lookup"
    /\ assign' = IF downstream[assign.peer] = NoSession
                 THEN AssignIdle
                 ELSE [assign EXCEPT !.pc = "send", !.target = downstream[assign.peer]]
    /\ UNCHANGED <<storeVars, mapVars, pc, session, effect, historyVars>>

\* Mutant: a configuration is stored although it could not be sent.
AssignSendUnchecked ==
    /\ assign.pc = "send"
    /\ assign' = [assign EXCEPT !.pc = "commit"]
    /\ \/ ~ Room(assign.target) /\ UNCHANGED <<session, lastCfg>>
       \/ /\ Room(assign.target)
          /\ session' = Pushed(assign.target, "apply")
          /\ lastCfg' = [lastCfg EXCEPT ![assign.target] = <<version, version>>]
    /\ UNCHANGED <<storeVars, mapVars, pc, effect, version, unsettled, everRemoved>>

AssignSend ==
    /\ assign.pc = "send"
    /\ \/ /\ Gone(assign.target)
          /\ assign' = AssignIdle
          /\ UNCHANGED <<session, lastCfg>>
       \/ /\ ~ Gone(assign.target) /\ Room(assign.target)
          /\ session' = Pushed(assign.target, "apply")
          /\ lastCfg' = [lastCfg EXCEPT ![assign.target] = <<version, version>>]
          /\ assign' = [assign EXCEPT !.pc = "commit"]
    /\ UNCHANGED <<storeVars, mapVars, pc, effect, version, unsettled, everRemoved>>

AssignCommit ==
    /\ assign.pc = "commit"
    /\ cfg' = [cfg EXCEPT ![assign.peer] = version]
    /\ unsettled' = (unsettled \ {assign.target}) \cup assign.raced
    /\ assign' = AssignIdle
    /\ UNCHANGED <<descriptors, connState, events, mapVars, pc, session, effect,
                   version, lastCfg, everRemoved>>

AssignRollback ==
    /\ assign.pc = "commit"
    /\ unsettled' = unsettled \cup {assign.target}
    /\ assign' = AssignIdle
    /\ UNCHANGED <<storeVars, mapVars, pc, session, effect, version, lastCfg, everRemoved>>

----------------------------------------------------------------------------
(* CARL restarts: the descriptors survive, everything else was in memory.   *)

Restart ==
    /\ \E s \in Sessions : pc[s] \notin {"idle", "ended"}
    /\ connState' = [p \in Peers |-> "None"]
    /\ cfg' = [p \in Peers |-> 0]
    /\ events' = <<>>
    /\ downstream' = [p \in Peers |-> NoSession]
    /\ disconnected' = [p \in Peers |-> FALSE]
    /\ pc' = [s \in Sessions |-> IF pc[s] = "idle" THEN "idle" ELSE "ended"]
    /\ session' = [s \in Sessions |->
                      IF pc[s] = "idle" THEN NewSession
                      ELSE [NewSession EXCEPT !.rxClosed = TRUE, !.rxDropped = TRUE,
                                              !.txDropped = TRUE]]
    /\ effect' = EffectIdle
    /\ assign' = AssignIdle
    /\ UNCHANGED <<descriptors, historyVars>>

----------------------------------------------------------------------------
Open(s) ==
    \/ ExpectKnownPeerDescriptor(s)
    \/ RejectConnected(s)
    \/ UpdatePeerConnectionState(s)
    \/ RegisterPeer(s)
    \/ ReadOldPeerConfiguration(s)
    \/ ReadPeerConfiguration(s)
    \/ LookupDownstream(s)
    \/ SendInitialPeerConfiguration(s)

StreamTask(s) ==
    \/ ReceiveMessage(s)
    \/ HandleStreamMessage(s)
    \/ ReceiveNone(s)
    \/ ReceiveTimeout(s)
    \/ CheckDisconnected(s)
    \/ ChannelCloseGraceTime(s)
    \/ GetConnectionState(s)
    \/ GetPeerDescriptor(s)
    \/ StoreConnectionState(s)
    \/ CleanUpFails(s)
    \/ UnregisterPeer(s)

Client(s) ==
    \/ ClientPing(s)
    \/ ClientReceive(s)
    \/ DropInbound(s)
    \/ DropOutbound(s)

Effect ==
    \/ EffectReceive
    \/ EffectGetState
    \/ EffectRemoveState
    \/ EffectFails
    \/ EffectLookup
    \/ EffectSendNotice
    \/ EffectMark

AssignStep == AssignLookup \/ AssignSend \/ AssignCommit \/ AssignRollback

Next ==
    \/ \E s \in Sessions : Open(s) \/ CancelOpen(s) \/ StreamTask(s) \/ Client(s)
    \/ \E p \in Peers : StorePeerDescriptor(p) \/ DeletePeerDescriptor(p) \/ AssignBegin(p)
    \/ Effect
    \/ AssignStep
    \/ Restart

Spec == Init /\ [][Next]_vars

\* Spawned tasks and gRPC calls under way are polled until they finish; a
\* client either reads what was sent to it or TCP gives the connection up.
Fairness ==
    /\ \A s \in Sessions :
        /\ WF_vars(pc[s] # "idle" /\ Open(s))
        /\ WF_vars(StreamTask(s))
        /\ WF_vars(ClientReceive(s) \/ DropOutbound(s))
    /\ WF_vars(Effect)
    /\ WF_vars(AssignStep)

FairSpec == Spec /\ Fairness

----------------------------------------------------------------------------
(* Properties.                                                              *)

OwnedBy(s, p) == PeerOf[s] = p /\ pc[s] \in Owning \cup Stranded

\* As long as a peer's descriptor was never removed, at most one call of open
\* stands between the Online it stored and the Offline its clean-up stores: a
\* second connection is rejected however the two calls and the first one's
\* clean-up interleave.
ExclusiveSession ==
    \A p \in Peers \ everRemoved : \A s, t \in Sessions :
        OwnedBy(s, p) /\ OwnedBy(t, p) => s = t

\* A peer that PeerConnectionState says is Online is owned by some call of
\* open, removed peers included; and as long as its descriptor was never
\* removed, an owned peer is Online.  No clean-up is lost, and none takes down
\* the state of a newer stream.  (A call that failed or was cancelled after
\* storing Online owns the peer for good.)
OnlineIffOwned ==
    \A p \in Peers :
        /\ connState[p] = "Online" => \E s \in Sessions : OwnedBy(s, p)
        /\ p \notin everRemoved /\ (\E s \in Sessions : OwnedBy(s, p))
              => connState[p] = "Online"

\* A configuration is stored only together with its delivery: unless an
\* assignment overtook the opening of the stream or was rolled back after the
\* send, the last configuration put into a running stream is the stored one.
StoredConfigurationReachedStream ==
    \A s \in Sessions \ unsettled :
        PeerOf[s] \notin everRemoved /\ pc[s] \in Loop /\ assign.pc # "commit"
            => lastCfg[s] = <<cfg[PeerOf[s]], cfg[PeerOf[s]]>>

\* The stored state goes from Online to Offline only when no stream of the
\* peer is being opened or served: the clean-up of one stream never marks
\* Offline a peer whose newer stream is alive.
OfflineOnlyAfterLoop ==
    [][\A p \in Peers \ everRemoved :
          connState[p] = "Online" /\ connState'[p] = "Offline"
              => \A s \in Sessions :
                    PeerOf[s] = p => pc[s] \notin (Opening \ {"update"}) \cup Loop]_vars

\* No stream outlives a client that stops pinging: its task leaves the loop
\* and finishes its clean-up for good, unless the client pings for ever.
OnlyPingingStreamsSurvive ==
    \A s \in Sessions : []<><<ClientPing(s)>>_vars \/ <>[](pc[s] \notin Loop \cup Closing)

\* A stream whose entry is marked disconnected leaves its loop, be it that its
\* client obeys the notice or that the flag closes the channel under it, and
\* whatever pings are still in the channel.
DisconnectHonoured ==
    \A s \in Sessions :
        pc[s] \in Loop /\ downstream[PeerOf[s]] = s /\ disconnected[PeerOf[s]]
            ~> pc[s] \notin Loop

\* What PeerLinks calls the state of a peer: Online may have been stored by a
\* call that has not registered its stream.
OnlineOf(p) ==
    IF connState[p] # "Online" THEN "no"
    ELSE IF \E s \in Sessions : PeerOf[s] = p /\ pc[s] = "register" THEN "opening"
    ELSE "yes"

Reachable == {p \in Peers : downstream[p] # NoSession /\ ~ Gone(downstream[p])}

Links == INSTANCE PeerLinks WITH online <- [p \in Peers |-> OnlineOf(p)],
                                 reachable <- Reachable,
                                 removed <- everRemoved

\* To whoever sends to peers, the sessions of a peer are one link that is
\* opened, registered, lost and closed: an entry that works is only ever put
\* into the map by the call that has just stored Online, and Online is taken
\* back only when no call is about to do so.
LinksImplemented == Links!LinksSpec

----------------------------------------------------------------------------
(* What the repository says of the broker and the code does not keep.       *)

\* The broker's test asserts that a peer with an open stream has an entry in
\* the map of connected peers ("assert state contains peer connected and up").
RunningStreamRegistered ==
    \A s \in Sessions :
        PeerOf[s] \notin everRemoved /\ pc[s] \in Loop => downstream[PeerOf[s]] = s
=============================================================================
