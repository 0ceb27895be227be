---------------------- MODULE PeerMessagingBrokerProofs ----------------------
(***************************************************************************)
(* For every number of peers and sessions and every capacity: the broker's *)
(* type correctness, that PeerConnectionState tells exactly which peers    *)
(* are owned by one call of open, and that the stored configuration is     *)
(* what was last sent into the stream of a peer.                           *)
(***************************************************************************)
EXTENDS PeerMessagingBroker, TLAPS

USE SessionsAssumption, BoundsAssumption

\* What a sequence operator does to the length and to the elements.
LEMMA AppendFact ==
    ASSUME NEW S, NEW q \in Seq(S), NEW e \in S
    PROVE  /\ Append(q, e) \in Seq(S)
           /\ Len(Append(q, e)) = Len(q) + 1
           /\ Len(q) \in Nat
           /\ \A i \in 1 .. Len(q) + 1 :
                 Append(q, e)[i] = IF i = Len(q) + 1 THEN e ELSE q[i]
  OBVIOUS

LEMMA TailFact ==
    ASSUME NEW S, NEW q \in Seq(S), q # <<>>
    PROVE  /\ Tail(q) \in Seq(S)
           /\ Len(Tail(q)) = Len(q) - 1
           /\ Len(q) \in Nat \ {0}
           /\ Head(q) \in S /\ Head(q) = q[1]
           /\ \A i \in 1 .. Len(q) - 1 : Tail(q)[i] = q[i + 1]
  OBVIOUS

LEMMA EmptyFact == ASSUME NEW S PROVE <<>> \in Seq(S) /\ Len(<<>>) = 0
  OBVIOUS

LEMMA SomePeerFact == SomePeer \in Peers
  BY DEF SomePeer

\* A broadcast channel keeps its capacity and only gains the event sent.
LEMMA NotifyFact ==
    ASSUME TypeOK, NEW kind \in {"Inserted", "Removed"}, NEW p \in Peers,
           Notify(kind, p)
    PROVE  /\ events' \in Seq(Event) /\ Len(events') <= EventCapacity
           /\ \A i \in 1 .. Len(events') :
                 \/ events'[i] = [kind |-> kind, peer |-> p]
                 \/ \E j \in 1 .. Len(events) : events'[i] = events[j]
<1> DEFINE e == [kind |-> kind, peer |-> p]
<1>1. e \in Event
  BY DEF Event
<1>2. events \in Seq(Event) /\ Len(events) \in Nat /\ Len(events) <= EventCapacity
  BY DEF TypeOK
<1>3. CASE Len(events) < EventCapacity
  <2>1. events' = Append(events, e)
    BY <1>3 DEF Notify
  <2> HIDE DEF e
  <2> QED
    BY <1>1, <1>2, <1>3, <2>1, AppendFact DEF e
<1>4. CASE ~ (Len(events) < EventCapacity)
  <2>1. events' = Append(Tail(events), e)
    BY <1>4 DEF Notify
  <2>2. events # <<>>
    BY <1>2, <1>4
  <2> HIDE DEF e
  <2>3. /\ Tail(events) \in Seq(Event)
        /\ Len(Tail(events)) = Len(events) - 1
        /\ \A i \in 1 .. Len(events) - 1 : Tail(events)[i] = events[i + 1]
    BY <1>2, <2>2, TailFact
  <2>4. /\ events' \in Seq(Event)
        /\ Len(events') = Len(events)
        /\ \A i \in 1 .. Len(events) :
              events'[i] = IF i = Len(events) THEN e ELSE Tail(events)[i]
    <3> DEFINE q == Tail(events)
    <3>1. q \in Seq(Event) /\ Len(q) = Len(events) - 1
      BY <2>3
    <3> HIDE DEF q
    <3>2. /\ Append(q, e) \in Seq(Event)
          /\ Len(Append(q, e)) = Len(q) + 1
          /\ \A i \in 1 .. Len(q) + 1 :
                Append(q, e)[i] = IF i = Len(q) + 1 THEN e ELSE q[i]
      BY <1>1, <3>1, AppendFact
    <3>3. Len(q) + 1 = Len(events)
      BY <1>2, <3>1
    <3> QED
      BY <2>1, <3>2, <3>3 DEF q
  <2>5. ASSUME NEW i \in 1 .. Len(events), i # Len(events)
        PROVE  \E j \in 1 .. Len(events) : events'[i] = events[j]
    <3>1. i \in 1 .. Len(events) - 1 /\ i + 1 \in 1 .. Len(events)
      BY <1>2, <2>5
    <3>2. events'[i] = events[i + 1]
      BY <2>3, <2>4, <2>5, <3>1
    <3> QED
      BY <3>1, <3>2
  <2>6. ASSUME NEW i \in 1 .. Len(events')
        PROVE  \/ events'[i] = [kind |-> kind, peer |-> p]
               \/ \E j \in 1 .. Len(events) : events'[i] = events[j]
    <3>1. CASE i = Len(events)
      BY <1>2, <2>4, <2>6, <3>1 DEF e
    <3>2. CASE i # Len(events)
      BY <1>2, <2>4, <2>5, <2>6, <3>2
    <3> QED
      BY <3>1, <3>2
  <2>7. events' \in Seq(Event) /\ Len(events') <= EventCapacity
    BY <1>2, <2>4
  <2> QED
    BY <2>6, <2>7
<1> QED
  BY <1>3, <1>4

----------------------------------------------------------------------------
(* Type correctness.                                                        *)

SessionsOK(f) ==
    /\ f \in [Sessions -> Session]
    /\ \A s \in Sessions : Len(f[s].outbound) <= OutboundCapacity

LEMMA SessionsOKFact == TypeOK => SessionsOK(session)
  BY DEF TypeOK, SessionsOK

\* Replacing one session's record by a well-formed one.
LEMMA UpdateOK ==
    ASSUME TypeOK, NEW s \in Sessions, NEW r \in Session,
           Len(r.outbound) <= OutboundCapacity
    PROVE  SessionsOK([session EXCEPT ![s] = r])
  BY DEF SessionsOK, TypeOK

LEMMA RecordFact ==
    ASSUME TypeOK, NEW s \in Sessions
    PROVE  /\ session \in [Sessions -> Session]
           /\ session[s] \in Session
           /\ session[s].outbound \in Seq(Message)
           /\ Len(session[s].outbound) \in Nat
           /\ Len(session[s].outbound) <= OutboundCapacity
           /\ session[s].inbound \in Nat
           /\ session[s].seen \in Versions \X Versions
           /\ session[s].target \in MaybeSession
           /\ session[s].mayPing \in BOOLEAN
           /\ session[s].rxClosed \in BOOLEAN
  BY DEF TypeOK, Session

LEMMA DroppedOK ==
    ASSUME TypeOK, NEW s \in Sessions
    PROVE  SessionsOK(HandlesDropped(s))
<1> DEFINE x == session[s]
           v == <<0, 0>>
           e == <<>>
           r == [x EXCEPT !.rxDropped = TRUE, !.txDropped = TRUE, !.outbound = e,
                          !.target = NoSession, !.seen = v]
<1>1. x \in Session /\ session \in [Sessions -> Session]
  BY RecordFact
<1>2. v \in Versions \X Versions /\ NoSession \in MaybeSession
  BY DEF Versions, MaybeSession
<1>3. e \in Seq(Message) /\ Len(e) <= OutboundCapacity
  BY EmptyFact
<1>4. HandlesDropped(s) = [session EXCEPT ![s] = r]
  BY <1>1 DEF HandlesDropped, Session
<1> HIDE DEF x, v, e
<1>5. r \in Session
  BY <1>1, <1>2, <1>3, Zenon DEF Session
<1>6. r.outbound = e
  BY <1>1 DEF Session
<1> HIDE DEF r
<1> QED
  BY <1>3, <1>4, <1>5, <1>6, UpdateOK, ZenonT(60)

LEMMA PushedOK ==
    ASSUME TypeOK, NEW s \in MaybeSession, NEW m \in Message, Room(s)
    PROVE  SessionsOK(Pushed(s, m))
<1>1. CASE s \in Sessions
  <2> DEFINE x == session[s]
             q == Append(x.outbound, m)
             r == [x EXCEPT !.outbound = q]
  <2>1. x \in Session /\ session \in [Sessions -> Session]
    BY <1>1, RecordFact
  <2>2. x.outbound \in Seq(Message) /\ Len(x.outbound) < OutboundCapacity
        /\ Len(x.outbound) \in Nat
    BY <1>1, RecordFact DEF Room
  <2>3. q \in Seq(Message) /\ Len(q) <= OutboundCapacity
    <3> HIDE DEF x
    <3> QED
      BY <2>2, AppendFact
  <2>4. Pushed(s, m) = [session EXCEPT ![s] = r]
    BY <2>1 DEF Pushed, Session
  <2> HIDE DEF x, q
  <2>5. r \in Session
    BY <2>1, <2>3, Zenon DEF Session
  <2>6. r.outbound = q
    BY <2>1 DEF Session
  <2> QED
    BY <1>1, <2>3, <2>4, <2>5, <2>6, UpdateOK, ZenonT(60)
<1>2. CASE s \notin Sessions
  <2>1. Pushed(s, m) = session
    BY <1>2 DEF TypeOK, Pushed
  <2> QED
    BY <2>1, SessionsOKFact
<1> QED
  BY <1>1, <1>2

\* One lemma for each field, or pair of fields, that an action assigns.
LEMMA SeenOK ==
    ASSUME TypeOK, NEW s \in Sessions, NEW v \in Versions \X Versions
    PROVE  SessionsOK([session EXCEPT ![s].seen = v])
<1> DEFINE x == session[s]
           r == [x EXCEPT !.seen = v]
<1>1. x \in Session /\ Len(x.outbound) <= OutboundCapacity
  BY RecordFact
<1> HIDE DEF x
<1>2. r \in Session /\ r.outbound = x.outbound
  BY <1>1, Zenon DEF Session
<1>3. SessionsOK([session EXCEPT ![s] = r])
  <2> HIDE DEF r
  <2> QED
    BY <1>1, <1>2, UpdateOK
<1> QED
  BY <1>3 DEF x

LEMMA TargetOK ==
    ASSUME TypeOK, NEW s \in Sessions, NEW v \in MaybeSession
    PROVE  SessionsOK([session EXCEPT ![s].target = v])
<1> DEFINE x == session[s]
           r == [x EXCEPT !.target = v]
<1>1. x \in Session /\ Len(x.outbound) <= OutboundCapacity
  BY RecordFact
<1> HIDE DEF x
<1>2. r \in Session /\ r.outbound = x.outbound
  BY <1>1, Zenon DEF Session
<1>3. SessionsOK([session EXCEPT ![s] = r])
  <2> HIDE DEF r
  <2> QED
    BY <1>1, <1>2, UpdateOK
<1> QED
  BY <1>3 DEF x

LEMMA RxClosedOK ==
    ASSUME TypeOK, NEW s \in Sessions, NEW v \in BOOLEAN
    PROVE  SessionsOK([session EXCEPT ![s].rxClosed = v])
<1> DEFINE x == session[s]
           r == [x EXCEPT !.rxClosed = v]
<1>1. x \in Session /\ Len(x.outbound) <= OutboundCapacity
  BY RecordFact
<1> HIDE DEF x
<1>2. r \in Session /\ r.outbound = x.outbound
  BY <1>1, Zenon DEF Session
<1>3. SessionsOK([session EXCEPT ![s] = r])
  <2> HIDE DEF r
  <2> QED
    BY <1>1, <1>2, UpdateOK
<1> QED
  BY <1>3 DEF x

LEMMA TxDroppedOK ==
    ASSUME TypeOK, NEW s \in Sessions, NEW v \in BOOLEAN
    PROVE  SessionsOK([session EXCEPT ![s].txDropped = v])
<1> DEFINE x == session[s]
           r == [x EXCEPT !.txDropped = v]
<1>1. x \in Session /\ Len(x.outbound) <= OutboundCapacity
  BY RecordFact
<1> HIDE DEF x
<1>2. r \in Session /\ r.outbound = x.outbound
  BY <1>1, Zenon DEF Session
<1>3. SessionsOK([session EXCEPT ![s] = r])
  <2> HIDE DEF r
  <2> QED
    BY <1>1, <1>2, UpdateOK
<1> QED
  BY <1>3 DEF x

LEMMA InboundOK ==
    ASSUME TypeOK, NEW s \in Sessions, NEW v \in Nat
    PROVE  SessionsOK([session EXCEPT ![s].inbound = v])
<1> DEFINE x == session[s]
           r == [x EXCEPT !.inbound = v]
<1>1. x \in Session /\ Len(x.outbound) <= OutboundCapacity
  BY RecordFact
<1> HIDE DEF x
<1>2. r \in Session /\ r.outbound = x.outbound
  BY <1>1, Zenon DEF Session
<1>3. SessionsOK([session EXCEPT ![s] = r])
  <2> HIDE DEF r
  <2> QED
    BY <1>1, <1>2, UpdateOK
<1> QED
  BY <1>3 DEF x

LEMMA EndedOK ==
    ASSUME TypeOK, NEW s \in Sessions, NEW v \in BOOLEAN, NEW w \in Nat
    PROVE  SessionsOK([session EXCEPT ![s].rxClosed = v, ![s].inbound = w])
<1> DEFINE x == session[s]
           r == [x EXCEPT !.rxClosed = v, !.inbound = w]
<1>1. x \in Session /\ Len(x.outbound) <= OutboundCapacity
  BY RecordFact
<1>2. [session EXCEPT ![s].rxClosed = v, ![s].inbound = w] = [session EXCEPT ![s] = r]
  BY RecordFact DEF Session
<1> HIDE DEF x
<1>3. r \in Session /\ r.outbound = x.outbound
  BY <1>1, Zenon DEF Session
<1> HIDE DEF r
<1> QED
  BY <1>1, <1>2, <1>3, UpdateOK

LEMMA PingLostOK ==
    ASSUME TypeOK, NEW s \in Sessions, NEW v \in BOOLEAN, NEW w \in BOOLEAN
    PROVE  SessionsOK([session EXCEPT ![s].mayPing = v, ![s].txDropped = w])
<1> DEFINE x == session[s]
           r == [x EXCEPT !.mayPing = v, !.txDropped = w]
<1>1. x \in Session /\ Len(x.outbound) <= OutboundCapacity
  BY RecordFact
<1>2. [session EXCEPT ![s].mayPing = v, ![s].txDropped = w] = [session EXCEPT ![s] = r]
  BY RecordFact DEF Session
<1> HIDE DEF x
<1>3. r \in Session /\ r.outbound = x.outbound
  BY <1>1, Zenon DEF Session
<1> HIDE DEF r
<1> QED
  BY <1>1, <1>2, <1>3, UpdateOK

LEMMA PingOK ==
    ASSUME TypeOK, NEW s \in Sessions, NEW v \in BOOLEAN, NEW w \in Nat
    PROVE  SessionsOK([session EXCEPT ![s].mayPing = v, ![s].inbound = w])
<1> DEFINE x == session[s]
           r == [x EXCEPT !.mayPing = v, !.inbound = w]
<1>1. x \in Session /\ Len(x.outbound) <= OutboundCapacity
  BY RecordFact
<1>2. [session EXCEPT ![s].mayPing = v, ![s].inbound = w] = [session EXCEPT ![s] = r]
  BY RecordFact DEF Session
<1> HIDE DEF x
<1>3. r \in Session /\ r.outbound = x.outbound
  BY <1>1, Zenon DEF Session
<1> HIDE DEF r
<1> QED
  BY <1>1, <1>2, <1>3, UpdateOK

LEMMA SentOK ==
    ASSUME NEW f, SessionsOK(f), NEW s \in Sessions,
           NEW v \in MaybeSession, NEW w \in Versions \X Versions
    PROVE  SessionsOK([f EXCEPT ![s].target = v, ![s].seen = w])
<1> DEFINE x == f[s]
           r == [x EXCEPT !.target = v, !.seen = w]
<1>1. f \in [Sessions -> Session] /\ x \in Session /\ Len(x.outbound) <= OutboundCapacity
  BY DEF SessionsOK
<1>2. [f EXCEPT ![s].target = v, ![s].seen = w] = [f EXCEPT ![s] = r]
  BY <1>1 DEF Session
<1> HIDE DEF x
<1>3. r \in Session /\ r.outbound = x.outbound
  BY <1>1, Zenon DEF Session
<1> HIDE DEF r
<1> QED
  BY <1>1, <1>2, <1>3 DEF SessionsOK

LEMMA ReadOK ==
    ASSUME TypeOK, NEW s \in Sessions, NEW q \in Seq(Message),
           Len(q) <= OutboundCapacity, NEW v \in BOOLEAN
    PROVE  SessionsOK([session EXCEPT ![s].outbound = q, ![s].mayPing = v])
<1> DEFINE x == session[s]
           r == [x EXCEPT !.outbound = q, !.mayPing = v]
<1>1. x \in Session
  BY RecordFact
<1>2. [session EXCEPT ![s].outbound = q, ![s].mayPing = v] = [session EXCEPT ![s] = r]
  BY RecordFact DEF Session
<1> HIDE DEF x
<1>3. r \in Session /\ r.outbound = q
  BY <1>1, Zenon DEF Session
<1> HIDE DEF r
<1> QED
  BY <1>2, <1>3, UpdateOK

LEMMA RxDroppedOK ==
    ASSUME TypeOK, NEW s \in Sessions, NEW v \in BOOLEAN
    PROVE  SessionsOK([session EXCEPT ![s].rxDropped = v, ![s].outbound = <<>>])
<1> DEFINE x == session[s]
           e == <<>>
           r == [x EXCEPT !.rxDropped = v, !.outbound = e]
<1>1. x \in Session
  BY RecordFact
<1>2. [session EXCEPT ![s].rxDropped = v, ![s].outbound = <<>>] = [session EXCEPT ![s] = r]
  BY RecordFact DEF Session
<1>3. e \in Seq(Message) /\ Len(e) <= OutboundCapacity
  BY EmptyFact
<1> HIDE DEF x, e
<1>4. r \in Session /\ r.outbound = e
  BY <1>1, <1>3, Zenon DEF Session
<1> HIDE DEF r
<1> QED
  BY <1>2, <1>3, <1>4, UpdateOK

\* Every other variable keeps its type, so only the sessions are left to check.
LEMMA OnlySessions ==
    ASSUME TypeOK, NEW s \in Sessions, NEW label \in PC,
           SessionsOK(session'),
           pc' = pc \/ Goto(s, label),
           UNCHANGED <<storeVars, mapVars, effect, assign, historyVars>>
    PROVE  TypeOK'
<1>1. pc' \in [Sessions -> PC]
  BY DEF TypeOK, Goto
<1>2. session' \in [Sessions -> Session]
      /\ \A t \in Sessions : Len(session'[t].outbound) <= OutboundCapacity
  BY DEF SessionsOK
<1> QED
  BY <1>1, <1>2 DEF TypeOK, storeVars, mapVars, historyVars

LEMMA OpenType ==
    ASSUME TypeOK, NEW s \in Sessions, Open(s) \/ CancelOpen(s)
    PROVE  TypeOK'
<1> USE DEF PC, Opening, Loop, Closing, Stranded
<1>1. CASE ExpectKnownPeerDescriptor(s)
  BY <1>1, DroppedOK, SessionsOKFact, OnlySessions DEF ExpectKnownPeerDescriptor
<1>2. CASE RejectConnected(s)
  BY <1>2, DroppedOK, OnlySessions DEF RejectConnected
<1>3. CASE UpdatePeerConnectionState(s)
  BY <1>3 DEF TypeOK, UpdatePeerConnectionState, ConnStates, Goto, mapVars, historyVars
<1>4. CASE RegisterPeer(s)
  BY <1>4 DEF TypeOK, RegisterPeer, MaybeSession, Goto, storeVars, historyVars
<1>5. CASE ReadOldPeerConfiguration(s)
  <2>1. <<cfg[PeerOf[s]], 0>> \in Versions \X Versions
    BY DEF TypeOK, Versions
  <2> QED
    BY <1>5, <2>1, SeenOK, OnlySessions DEF ReadOldPeerConfiguration
<1>6. CASE ReadPeerConfiguration(s)
  <2>1. <<session[s].seen[1], cfg[PeerOf[s]]>> \in Versions \X Versions
    BY RecordFact DEF TypeOK
  <2> QED
    BY <1>6, <2>1, SeenOK, OnlySessions DEF ReadPeerConfiguration
<1>7. CASE LookupDownstream(s)
  <2>1. downstream[PeerOf[s]] \in MaybeSession
    BY DEF TypeOK
  <2> QED
    BY <1>7, <2>1, DroppedOK, TargetOK, OnlySessions DEF LookupDownstream
<1>8. CASE SendInitialPeerConfiguration(s)
  <2> DEFINE to == session[s].target
  <2>1. to \in MaybeSession /\ session[s].seen \in Versions \X Versions
    BY RecordFact
  <2>2. NoSession \in MaybeSession /\ <<0, 0>> \in Versions \X Versions
    BY DEF MaybeSession, Versions
  <2>3. CASE Gone(to) /\ Goto(s, "leaked") /\ session' = HandlesDropped(s)
             /\ UNCHANGED lastCfg
    BY <1>8, <2>3, DroppedOK, OnlySessions DEF SendInitialPeerConfiguration, historyVars
  <2>4. CASE /\ Room(to) /\ Goto(s, "recv")
             /\ session' = [Pushed(to, "apply") EXCEPT ![s].target = NoSession,
                                                       ![s].seen = <<0, 0>>]
             /\ lastCfg' = [lastCfg EXCEPT ![to] = session[s].seen]
    <3>1. SessionsOK(Pushed(to, "apply"))
      BY <2>1, <2>4, PushedOK DEF Message
    <3>2. SessionsOK(session')
      BY <2>2, <2>4, <3>1, SentOK
    <3>3. lastCfg' \in [Sessions -> Versions \X Versions]
      <4> HIDE DEF to
      <4> QED
        BY <2>1, <2>4 DEF TypeOK
    <3>4. pc' \in [Sessions -> PC]
      BY <2>4 DEF TypeOK, Goto
    <3>5. session' \in [Sessions -> Session]
          /\ \A t \in Sessions : Len(session'[t].outbound) <= OutboundCapacity
      BY <3>2 DEF SessionsOK
    <3> QED
      BY <1>8, <3>3, <3>4, <3>5
         DEF SendInitialPeerConfiguration, TypeOK, storeVars, mapVars
  <2> QED
    BY <1>8, <2>3, <2>4 DEF SendInitialPeerConfiguration
<1>9. CASE CancelOpen(s)
  BY <1>9, DroppedOK, OnlySessions DEF CancelOpen
<1> QED
  BY <1>1, <1>2, <1>3, <1>4, <1>5, <1>6, <1>7, <1>8, <1>9 DEF Open

LEMMA StreamTaskType ==
    ASSUME TypeOK, NEW s \in Sessions, StreamTask(s)
    PROVE  TypeOK'
<1> USE DEF PC, Opening, Loop, Closing, Stranded
<1>1. CASE ReceiveMessage(s)
  <2>1. session[s].inbound - 1 \in Nat
    BY <1>1, RecordFact DEF ReceiveMessage
  <2> QED
    BY <1>1, <2>1, InboundOK, OnlySessions DEF ReceiveMessage
<1>2. CASE HandleStreamMessage(s)
  <2>1. SessionsOK(session')
    BY <1>2, PushedOK, SessionsOKFact DEF HandleStreamMessage, MaybeSession, Message
  <2> QED
    BY <1>2, <2>1, OnlySessions DEF HandleStreamMessage
<1>3. CASE ReceiveNone(s)
  BY <1>3, SessionsOKFact, OnlySessions DEF ReceiveNone
<1>4. CASE ReceiveTimeout(s)
  BY <1>4, RxClosedOK, OnlySessions DEF ReceiveTimeout
<1>5. CASE CheckDisconnected(s)
  <2>1. (session[s].rxClosed \/ disconnected[PeerOf[s]]) \in BOOLEAN
    BY Zenon
  <2>2. SessionsOK(session')
    BY <1>5, <2>1, RxClosedOK DEF CheckDisconnected
  <2> QED
    BY <1>5, <2>2, OnlySessions DEF CheckDisconnected
<1>6. CASE ChannelCloseGraceTime(s)
  BY <1>6, SessionsOKFact, OnlySessions DEF ChannelCloseGraceTime
<1>7. CASE GetConnectionState(s)
  <2>1. SessionsOK(session')
    <3>1. SessionsOK([session EXCEPT ![s].rxClosed = TRUE, ![s].inbound = 0])
      BY EndedOK
    <3>2. CASE connState[PeerOf[s]] = "None"
      BY <1>7, <3>1, <3>2 DEF GetConnectionState, EndTask
    <3>3. CASE connState[PeerOf[s]] # "None"
      BY <1>7, <3>3, SessionsOKFact DEF GetConnectionState
    <3> QED
      BY <3>2, <3>3
  <2>2. Goto(s, "ended") \/ Goto(s, "getDescriptor")
    BY <1>7 DEF GetConnectionState, EndTask
  <2> QED
    BY <1>7, <2>1, <2>2, OnlySessions DEF GetConnectionState
<1>8. CASE GetPeerDescriptor(s)
  BY <1>8, SessionsOKFact, OnlySessions DEF GetPeerDescriptor
<1>9. CASE StoreConnectionState(s)
  BY <1>9 DEF TypeOK, StoreConnectionState, ConnStates, Goto, mapVars, historyVars
<1>10. CASE UnregisterPeer(s)
  <2>1. SessionsOK(session') /\ pc' \in [Sessions -> PC]
    BY <1>10, EndedOK DEF UnregisterPeer, EndTask, Goto, TypeOK
  <2>2. /\ downstream' \in [Peers -> MaybeSession]
        /\ disconnected' \in [Peers -> BOOLEAN]
    BY <1>10 DEF TypeOK, UnregisterPeer, MaybeSession
  <2> QED
    BY <1>10, <2>1, <2>2 DEF TypeOK, SessionsOK, UnregisterPeer, storeVars, historyVars
<1>11. CASE CleanUpFails(s)
  BY <1>11, EndedOK, OnlySessions DEF CleanUpFails
<1> QED
  BY <1>1, <1>2, <1>3, <1>4, <1>5, <1>6, <1>7, <1>8, <1>9, <1>10, <1>11 DEF StreamTask

LEMMA ClientType ==
    ASSUME TypeOK, NEW s \in Sessions, Client(s)
    PROVE  TypeOK'
<1> USE DEF PC
<1>1. CASE ClientPing(s)
  <2>1. session[s].inbound + 1 \in Nat
    BY RecordFact
  <2>2. SessionsOK(session')
    BY <1>1, <2>1, PingOK, PingLostOK DEF ClientPing
  <2> QED
    BY <1>1, <2>2, OnlySessions DEF ClientPing
<1>2. CASE ClientReceive(s)
  <2> DEFINE q == session[s].outbound
             more == session[s].mayPing \/ Head(q) = "pong"
  <2>1. q \in Seq(Message) /\ q # <<>> /\ Len(q) <= OutboundCapacity /\ Len(q) \in Nat
    BY <1>2, RecordFact DEF ClientReceive
  <2>2. more \in BOOLEAN
    BY Zenon
  <2>3. Tail(q) \in Seq(Message) /\ Len(Tail(q)) <= OutboundCapacity
    <3> HIDE DEF q
    <3> QED
      BY <2>1, TailFact
  <2>4. SessionsOK([session EXCEPT ![s].outbound = Tail(q), ![s].mayPing = more])
    <3> HIDE DEF q, more
    <3> QED
      BY <2>2, <2>3, ReadOK
  <2>5. SessionsOK(session')
    BY <1>2, <2>4, DroppedOK DEF ClientReceive
  <2> QED
    BY <1>2, <2>5, OnlySessions DEF ClientReceive
<1>3. CASE DropInbound(s)
  BY <1>3, TxDroppedOK, OnlySessions DEF DropInbound
<1>4. CASE DropOutbound(s)
  BY <1>4, RxDroppedOK, OnlySessions DEF DropOutbound
<1> QED
  BY <1>1, <1>2, <1>3, <1>4 DEF Client

LEMMA DescriptorType ==
    ASSUME TypeOK, NEW p \in Peers, StorePeerDescriptor(p) \/ DeletePeerDescriptor(p)
    PROVE  TypeOK'
<1>1. events' \in Seq(Event) /\ Len(events') <= EventCapacity
  BY NotifyFact DEF StorePeerDescriptor, DeletePeerDescriptor
<1>2. descriptors' \subseteq Peers /\ everRemoved' \subseteq Peers
  BY DEF TypeOK, StorePeerDescriptor, DeletePeerDescriptor, historyVars
<1> QED
  BY <1>1, <1>2 DEF TypeOK, StorePeerDescriptor, DeletePeerDescriptor, mapVars, historyVars

LEMMA IdleFact ==
    /\ EffectIdle \in [pc : {"receive", "getState", "removeState", "lookup", "notice", "mark"},
                       peer : Peers, target : MaybeSession]
    /\ AssignIdle \in [pc : {"idle", "lookup", "send", "commit"}, peer : Peers,
                       target : MaybeSession, raced : SUBSET Sessions]
  BY SomePeerFact DEF EffectIdle, AssignIdle, MaybeSession

LEMMA EffectType ==
    ASSUME TypeOK, Effect
    PROVE  TypeOK'
<1> DEFINE E == [pc : {"receive", "getState", "removeState", "lookup", "notice", "mark"},
                 peer : Peers, target : MaybeSession]
<1>1. effect \in E /\ EffectIdle \in E
  BY IdleFact DEF TypeOK
<1>2. CASE EffectReceive
  <2>1. events \in Seq(Event) /\ events # <<>> /\ Len(events) <= EventCapacity
    BY <1>2 DEF TypeOK, EffectReceive
  <2>2. /\ Tail(events) \in Seq(Event) /\ Len(Tail(events)) <= EventCapacity
        /\ Head(events) \in Event
    BY <2>1, TailFact
  <2>3. Head(events).peer \in Peers
    BY <2>2 DEF Event
  <2>4. effect' \in E
    BY <1>1, <1>2, <2>3 DEF EffectReceive
  <2> QED
    BY <1>2, <2>2, <2>4 DEF TypeOK, EffectReceive, mapVars, historyVars
<1>3. CASE EffectGetState
  <2>1. effect' \in E
    BY <1>1, <1>3 DEF TypeOK, EffectGetState, ConnStates
  <2> QED
    BY <1>3, <2>1 DEF TypeOK, EffectGetState, storeVars, mapVars, historyVars
<1>4. CASE EffectRemoveState
  <2>1. effect' \in E /\ connState' \in [Peers -> ConnStates]
    BY <1>1, <1>4 DEF TypeOK, EffectRemoveState, ConnStates
  <2> QED
    BY <1>4, <2>1 DEF TypeOK, EffectRemoveState, mapVars, historyVars
<1>5. CASE EffectLookup
  <2>1. effect' \in E
    BY <1>1, <1>5 DEF TypeOK, EffectLookup
  <2> QED
    BY <1>5, <2>1 DEF TypeOK, EffectLookup, storeVars, mapVars, historyVars
<1>6. CASE EffectSendNotice
  <2>1. effect' \in E
    BY <1>1, <1>6 DEF EffectSendNotice
  <2>2. effect.target \in MaybeSession
    BY <1>1
  <2>3. SessionsOK(session')
    BY <1>6, <2>2, PushedOK, SessionsOKFact DEF EffectSendNotice, Message
  <2> QED
    BY <1>6, <2>1, <2>3
       DEF TypeOK, SessionsOK, EffectSendNotice, storeVars, mapVars, historyVars
<1>7. CASE EffectMark
  <2>1. effect' \in E /\ downstream' \in [Peers -> MaybeSession]
        /\ disconnected' \in [Peers -> BOOLEAN]
    BY <1>1, <1>7 DEF TypeOK, EffectMark
  <2> QED
    BY <1>7, <2>1 DEF TypeOK, EffectMark, storeVars, historyVars
<1>8. CASE EffectFails
  BY <1>1, <1>8 DEF TypeOK, EffectFails, storeVars, mapVars, historyVars
<1> QED
  BY <1>2, <1>3, <1>4, <1>5, <1>6, <1>7, <1>8 DEF Effect

LEMMA AssignType ==
    ASSUME TypeOK, AssignStep \/ \E p \in Peers : AssignBegin(p)
    PROVE  TypeOK'
<1> DEFINE A == [pc : {"idle", "lookup", "send", "commit"}, peer : Peers,
                 target : MaybeSession, raced : SUBSET Sessions]
<1>1. assign \in A /\ AssignIdle \in A
  BY IdleFact DEF TypeOK
<1>2. CASE \E p \in Peers : AssignBegin(p)
  <2>1. PICK p \in Peers : AssignBegin(p)
    BY <1>2
  <2>2. assign' \in A
    BY <2>1 DEF AssignBegin, MaybeSession
  <2>3. version' \in Versions
    BY <2>1 DEF AssignBegin, TypeOK, Versions
  <2> QED
    BY <2>1, <2>2, <2>3 DEF TypeOK, AssignBegin, storeVars, mapVars
<1>3. CASE AssignLookup
  <2>1. assign' \in A
    BY <1>1, <1>3 DEF TypeOK, AssignLookup
  <2> QED
    BY <1>3, <2>1 DEF TypeOK, AssignLookup, storeVars, mapVars, historyVars
<1>4. CASE AssignSend
  <2>1. assign' \in A
    BY <1>1, <1>4 DEF AssignSend
  <2>2. assign.target \in MaybeSession
    BY <1>1
  <2>3. SessionsOK(session')
    BY <1>4, <2>2, PushedOK, SessionsOKFact DEF AssignSend, Message
  <2>4. lastCfg' \in [Sessions -> Versions \X Versions]
    <3> DEFINE v == <<version, version>>
               to == assign.target
    <3>1. v \in Versions \X Versions /\ lastCfg \in [Sessions -> Versions \X Versions]
      BY DEF TypeOK
    <3>2. lastCfg' = lastCfg \/ lastCfg' = [lastCfg EXCEPT ![to] = v]
      BY <1>4 DEF AssignSend
    <3> HIDE DEF v, to
    <3> QED
      BY <3>1, <3>2
  <2> QED
    BY <1>4, <2>1, <2>3, <2>4 DEF TypeOK, SessionsOK, AssignSend, storeVars, mapVars
<1>5. CASE AssignCommit
  <2>1. assign.target \in MaybeSession /\ assign.raced \subseteq Sessions
    BY <1>1
  <2>2. assign' \in A /\ unsettled' \subseteq MaybeSession
    BY <1>1, <1>5, <2>1 DEF AssignCommit, TypeOK, MaybeSession
  <2>3. cfg' \in [Peers -> Versions]
    BY <1>5 DEF AssignCommit, TypeOK
  <2> QED
    BY <1>5, <2>2, <2>3 DEF TypeOK, AssignCommit, mapVars
<1>6. CASE AssignRollback
  <2>1. assign.target \in MaybeSession
    BY <1>1
  <2>2. assign' \in A /\ unsettled' \subseteq MaybeSession
    BY <1>1, <1>6, <2>1 DEF AssignRollback, TypeOK
  <2> QED
    BY <1>6, <2>2 DEF TypeOK, AssignRollback, storeVars, mapVars
<1> QED
  BY <1>2, <1>3, <1>4, <1>5, <1>6 DEF AssignStep

LEMMA NewSessionFact ==
    /\ NewSession \in Session /\ NewSession.outbound = <<>>
    /\ [NewSession EXCEPT !.rxClosed = TRUE, !.rxDropped = TRUE, !.txDropped = TRUE] \in Session
    /\ [NewSession EXCEPT !.rxClosed = TRUE, !.rxDropped = TRUE,
                          !.txDropped = TRUE].outbound = <<>>
<1> DEFINE v == <<0, 0>>
           e == <<>>
<1>1. v \in Versions \X Versions /\ NoSession \in MaybeSession /\ 0 \in Nat
  BY DEF Versions, MaybeSession
<1>2. e \in Seq(Message)
  BY EmptyFact
<1> HIDE DEF v, e
<1>3. NewSession = [rxClosed |-> FALSE, txDropped |-> FALSE, rxDropped |-> FALSE,
                    inbound |-> 0, outbound |-> e, mayPing |-> TRUE,
                    target |-> NoSession, seen |-> v]
  BY DEF NewSession, v, e
<1>4. NewSession \in Session /\ NewSession.outbound = e
  BY <1>1, <1>2, <1>3, Zenon DEF Session
<1>5. /\ [NewSession EXCEPT !.rxClosed = TRUE, !.rxDropped = TRUE, !.txDropped = TRUE]
            \in Session
      /\ [NewSession EXCEPT !.rxClosed = TRUE, !.rxDropped = TRUE, !.txDropped = TRUE].outbound
            = NewSession.outbound
  BY <1>4, Zenon DEF Session
<1> QED
  BY <1>4, <1>5 DEF e

LEMMA RestartType ==
    ASSUME TypeOK, Restart
    PROVE  TypeOK'
<1> DEFINE n == NewSession
           d == [NewSession EXCEPT !.rxClosed = TRUE, !.rxDropped = TRUE, !.txDropped = TRUE]
<1>1. n \in Session /\ d \in Session /\ Len(n.outbound) = 0 /\ Len(d.outbound) = 0
  BY NewSessionFact, EmptyFact
<1>2. session' = [s \in Sessions |-> IF pc[s] = "idle" THEN n ELSE d]
  BY DEF Restart
<1>3. session' \in [Sessions -> Session]
      /\ \A s \in Sessions : Len(session'[s].outbound) <= OutboundCapacity
  <2> HIDE DEF n, d
  <2> QED
    BY <1>1, <1>2
<1>4. events' \in Seq(Event) /\ Len(events') <= EventCapacity
  BY EmptyFact DEF Restart
<1>5. /\ connState' \in [Peers -> ConnStates] /\ cfg' \in [Peers -> Versions]
      /\ downstream' \in [Peers -> MaybeSession] /\ disconnected' \in [Peers -> BOOLEAN]
  BY DEF Restart, ConnStates, Versions, MaybeSession
<1>6. pc' \in [Sessions -> PC]
  BY DEF Restart, PC
<1> QED
  BY <1>3, <1>4, <1>5, <1>6, IdleFact DEF TypeOK, Restart, historyVars

LEMMA TypeInit == Init => TypeOK
<1> SUFFICES ASSUME Init PROVE TypeOK
  OBVIOUS
<1>1. session \in [Sessions -> Session]
      /\ \A s \in Sessions : Len(session[s].outbound) <= OutboundCapacity
  <2> DEFINE n == NewSession
  <2>1. n \in Session /\ Len(n.outbound) = 0
    BY NewSessionFact, EmptyFact
  <2>2. session = [s \in Sessions |-> n]
    BY DEF Init
  <2> HIDE DEF n
  <2> QED
    BY <2>1, <2>2
<1>2. events \in Seq(Event) /\ Len(events) <= EventCapacity
  BY EmptyFact DEF Init
<1>3. <<0, 0>> \in Versions \X Versions /\ 0 \in Versions
  BY DEF Versions
<1>4. lastCfg \in [Sessions -> Versions \X Versions]
  <2> DEFINE v == <<0, 0>>
  <2>1. lastCfg = [s \in Sessions |-> v] /\ v \in Versions \X Versions
    BY <1>3 DEF Init
  <2> HIDE DEF v
  <2> QED
    BY <2>1
<1> QED
  BY <1>1, <1>2, <1>3, <1>4, IdleFact DEF Init, TypeOK, ConnStates, MaybeSession, PC

LEMMA TypeStep == TypeOK /\ [Next]_vars => TypeOK'
<1> SUFFICES ASSUME TypeOK, [Next]_vars PROVE TypeOK'
  OBVIOUS
<1>1. CASE UNCHANGED vars
  BY <1>1 DEF TypeOK, vars, storeVars, mapVars, historyVars
<1> QED
  BY <1>1, OpenType, StreamTaskType, ClientType, DescriptorType, EffectType,
     AssignType, RestartType DEF Next

\* In every behaviour of the broker the two channels it bounds keep their
\* capacity: the broadcast channel of descriptor events and every downstream
\* channel, whoever sends to it; and every state has its declared shape.
THEOREM TypeCorrect == Spec => []TypeOK
<1> QED
  BY TypeInit, TypeStep, PTL DEF Spec

----------------------------------------------------------------------------
(* One owner per peer.  Neither ExclusiveSession nor OnlineIffOwned is      *)
(* inductive: the first needs the second where a call stores Online, the    *)
(* second needs the first where a clean-up stores Offline, and both need to *)
(* know that what is done to the state of a removed peer is done only to    *)
(* peers in everRemoved.                                                    *)

\* Removal events, and the effect that handles one, are about removed peers.
RemovedKnown ==
    /\ \A i \in 1 .. Len(events) :
          events[i].kind = "Removed" => events[i].peer \in everRemoved
    /\ effect.pc # "receive" => effect.peer \in everRemoved

\* A call that passed expect_known_peer_descriptor still finds the descriptor
\* of a peer that was never removed, so its clean-up does not delete the state.
DescriptorKnown ==
    \A s \in Sessions :
        pc[s] \in Opening \cup Loop \cup Closing /\ PeerOf[s] \notin everRemoved
            => PeerOf[s] \in descriptors /\ pc[s] # "deleteState"

Inv == TypeOK /\ RemovedKnown /\ DescriptorKnown /\ ExclusiveSession /\ OnlineIffOwned

Owns(label) == label \in Owning \cup Stranded

\* A step that leaves PeerConnectionState alone and makes nobody start or stop
\* owning its peer.
Quiet ==
    /\ connState' = connState
    /\ everRemoved \subseteq everRemoved'
    /\ \A s \in Sessions : Owns(pc'[s]) <=> Owns(pc[s])

LEMMA QuietStep ==
    ASSUME ExclusiveSession, OnlineIffOwned, Quiet
    PROVE  ExclusiveSession' /\ OnlineIffOwned'
<1>1. \A s \in Sessions, p \in Peers : OwnedBy(s, p)' <=> OwnedBy(s, p)
  BY DEF OwnedBy, Quiet, Owns
<1>2. ExclusiveSession'
  BY <1>1 DEF ExclusiveSession, Quiet
<1>3. OnlineIffOwned'
  BY <1>1 DEF OnlineIffOwned, Quiet
<1> QED
  BY <1>2, <1>3

Facts == RemovedKnown /\ DescriptorKnown /\ ExclusiveSession /\ OnlineIffOwned

\* A step of one session that stores nothing: only its label matters.
LEMMA QuietGoto ==
    ASSUME Inv, NEW s \in Sessions, NEW label \in PC, Goto(s, label),
           UNCHANGED <<storeVars, effect, everRemoved>>,
           Owns(label) <=> Owns(pc[s]),
           label \in Opening \cup Loop \cup Closing =>
              \/ pc[s] \in Opening \cup Loop \cup Closing
              \/ PeerOf[s] \in descriptors,
           label = "deleteState" => PeerOf[s] \in everRemoved
    PROVE  Facts'
<1>1. pc'[s] = label /\ \A t \in Sessions \ {s} : pc'[t] = pc[t]
  BY DEF Inv, TypeOK, Goto
<1>2. Quiet
  BY <1>1 DEF Quiet, storeVars
<1>3. ExclusiveSession' /\ OnlineIffOwned'
  BY <1>2, QuietStep DEF Inv
<1>4. RemovedKnown'
  BY DEF Inv, RemovedKnown, storeVars
<1>5. DescriptorKnown'
  BY <1>1 DEF Inv, DescriptorKnown, storeVars
<1> QED
  BY <1>3, <1>4, <1>5 DEF Facts

\* A step that moves no session and stores no connection state.
LEMMA QuietElsewhere ==
    ASSUME Inv, UNCHANGED <<storeVars, pc, everRemoved>>,
           effect'.pc # "receive" => effect'.peer \in everRemoved
    PROVE  Facts'
<1>1. Quiet
  BY DEF Quiet, storeVars
<1>2. ExclusiveSession' /\ OnlineIffOwned'
  BY <1>1, QuietStep DEF Inv
<1>3. RemovedKnown'
  BY DEF Inv, RemovedKnown, storeVars
<1>4. DescriptorKnown'
  BY DEF Inv, DescriptorKnown, storeVars
<1> QED
  BY <1>2, <1>3, <1>4 DEF Facts

\* Storing Online: nobody owned the peer, because it was not Online.
LEMMA UpdateInv ==
    ASSUME Inv, NEW s \in Sessions, UpdatePeerConnectionState(s)
    PROVE  Facts'
<1> DEFINE p == PeerOf[s]
<1>1. /\ pc[s] = "update" /\ pc'[s] = "register"
      /\ \A t \in Sessions \ {s} : pc'[t] = pc[t]
      /\ connState[p] # "Online" /\ connState'[p] = "Online"
      /\ \A q \in Peers \ {p} : connState'[q] = connState[q]
      /\ UNCHANGED <<descriptors, events, effect, everRemoved>>
  BY DEF Inv, TypeOK, UpdatePeerConnectionState, Goto, historyVars
<1>2. \A t \in Sessions, q \in Peers :
         OwnedBy(t, q)' <=> OwnedBy(t, q) \/ (t = s /\ q = p)
  BY <1>1 DEF OwnedBy, Owning, Opening, Loop, Closing, Stranded
<1>3. p \notin everRemoved => \A t \in Sessions : ~ OwnedBy(t, p)
  BY <1>1 DEF Inv, OnlineIffOwned
<1>4. ExclusiveSession'
  BY <1>1, <1>2, <1>3 DEF Inv, ExclusiveSession
<1>5. OnlineIffOwned'
  BY <1>1, <1>2 DEF Inv, OnlineIffOwned
<1>6. RemovedKnown'
  BY <1>1 DEF Inv, RemovedKnown
<1>7. DescriptorKnown'
  BY <1>1 DEF Inv, DescriptorKnown, Opening
<1> QED
  BY <1>4, <1>5, <1>6, <1>7 DEF Facts

\* Storing Offline, or deleting the state: the session was the only owner.
LEMMA StoreInv ==
    ASSUME Inv, NEW s \in Sessions, StoreConnectionState(s)
    PROVE  Facts'
<1> DEFINE p == PeerOf[s]
<1>1. /\ pc[s] \in {"deleteState", "setOffline"} /\ pc'[s] = "unregister"
      /\ \A t \in Sessions \ {s} : pc'[t] = pc[t]
      /\ connState'[p] # "Online"
      /\ \A q \in Peers \ {p} : connState'[q] = connState[q]
      /\ UNCHANGED <<descriptors, events, effect, everRemoved>>
  BY DEF Inv, TypeOK, StoreConnectionState, Goto, historyVars
<1>2. \A t \in Sessions, q \in Peers : OwnedBy(t, q)' <=> OwnedBy(t, q) /\ t # s
  BY <1>1 DEF OwnedBy, Owning, Opening, Loop, Closing, Stranded
<1>3. OwnedBy(s, p)
  BY <1>1 DEF OwnedBy, Owning, Closing
<1>4. ExclusiveSession'
  BY <1>1, <1>2 DEF Inv, ExclusiveSession
<1>5. p \notin everRemoved => \A t \in Sessions : ~ OwnedBy(t, p)'
  BY <1>2, <1>3 DEF Inv, ExclusiveSession
<1>6. \A t \in Sessions, q \in Peers \ {p} : OwnedBy(t, q)' <=> OwnedBy(t, q)
  BY <1>2 DEF OwnedBy
<1>7. OnlineIffOwned'
  BY <1>1, <1>5, <1>6 DEF Inv, OnlineIffOwned
<1>8. RemovedKnown'
  BY <1>1 DEF Inv, RemovedKnown
<1>9. DescriptorKnown'
  BY <1>1 DEF Inv, DescriptorKnown, Opening, Loop, Closing
<1> QED
  BY <1>4, <1>7, <1>8, <1>9 DEF Facts

\* A clean-up that finds no state ends early: the peer is not Online, so if it
\* was never removed nobody owned it, not even the session itself.
LEMMA EndInv ==
    ASSUME Inv, NEW s \in Sessions, pc[s] \in Closing \cup {"unregister"},
           connState[PeerOf[s]] # "Online" \/ pc[s] = "unregister",
           Goto(s, "ended"), UNCHANGED <<storeVars, effect, everRemoved>>
    PROVE  Facts'
<1>1. pc'[s] = "ended" /\ \A t \in Sessions \ {s} : pc'[t] = pc[t]
  BY DEF Inv, TypeOK, Goto
<1>2. \A t \in Sessions, q \in Peers : OwnedBy(t, q)' <=> OwnedBy(t, q) /\ t # s
  BY <1>1 DEF OwnedBy, Owning, Opening, Loop, Closing, Stranded
<1>3. ExclusiveSession'
  BY <1>2 DEF Inv, ExclusiveSession
<1>4. pc[s] = "unregister" => \A q \in Peers : ~ OwnedBy(s, q)
  BY DEF OwnedBy, Owning, Opening, Loop, Closing, Stranded
<1>5. \A q \in Peers : q # PeerOf[s] => ~ OwnedBy(s, q)
  BY DEF OwnedBy
<1>6. OnlineIffOwned'
  BY <1>2, <1>4, <1>5 DEF Inv, OnlineIffOwned, storeVars
<1>7. RemovedKnown'
  BY DEF Inv, RemovedKnown, storeVars
<1>8. DescriptorKnown'
  BY <1>1 DEF Inv, DescriptorKnown, Opening, Loop, Closing, storeVars
<1> QED
  BY <1>3, <1>6, <1>7, <1>8 DEF Facts

LEMMA SessionInv ==
    ASSUME Inv, NEW s \in Sessions, Open(s) \/ CancelOpen(s) \/ StreamTask(s) \/ Client(s)
    PROVE  Facts'
<1> USE DEF PC, Owns, Owning, Opening, Loop, Closing, Stranded, historyVars
<1>1. CASE ExpectKnownPeerDescriptor(s)
  BY <1>1, QuietGoto DEF ExpectKnownPeerDescriptor
<1>2. CASE RejectConnected(s)
  BY <1>2, QuietGoto DEF RejectConnected
<1>3. CASE UpdatePeerConnectionState(s)
  BY <1>3, UpdateInv
<1>4. CASE RegisterPeer(s)
  BY <1>4, QuietGoto DEF RegisterPeer
<1>5. CASE ReadOldPeerConfiguration(s)
  BY <1>5, QuietGoto DEF ReadOldPeerConfiguration
<1>6. CASE ReadPeerConfiguration(s)
  BY <1>6, QuietGoto DEF ReadPeerConfiguration
<1>7. CASE LookupDownstream(s)
  BY <1>7, QuietGoto DEF LookupDownstream
<1>8. CASE SendInitialPeerConfiguration(s)
  BY <1>8, QuietGoto DEF SendInitialPeerConfiguration
<1>9. CASE CancelOpen(s)
  BY <1>9, QuietGoto DEF CancelOpen
<1>10. CASE ReceiveMessage(s)
  BY <1>10, QuietGoto DEF ReceiveMessage
<1>11. CASE HandleStreamMessage(s)
  BY <1>11, QuietGoto DEF HandleStreamMessage
<1>12. CASE ReceiveNone(s)
  BY <1>12, QuietGoto DEF ReceiveNone
<1>13. CASE ReceiveTimeout(s)
  BY <1>13, QuietGoto DEF ReceiveTimeout
<1>14. CASE CheckDisconnected(s)
  BY <1>14, QuietGoto DEF CheckDisconnected
<1>15. CASE ChannelCloseGraceTime(s)
  BY <1>15, QuietGoto DEF ChannelCloseGraceTime
<1>16. CASE GetConnectionState(s)
  BY <1>16, QuietGoto, EndInv DEF GetConnectionState, EndTask
<1>17. CASE GetPeerDescriptor(s)
  <2>1. PeerOf[s] \notin everRemoved => PeerOf[s] \in descriptors
    BY <1>17 DEF Inv, DescriptorKnown, GetPeerDescriptor
  <2> QED
    BY <1>17, <2>1, QuietGoto DEF GetPeerDescriptor
<1>18. CASE StoreConnectionState(s)
  BY <1>18, StoreInv
<1>19. CASE UnregisterPeer(s)
  BY <1>19, EndInv DEF UnregisterPeer, EndTask
<1>20. CASE Client(s)
  BY <1>20, QuietElsewhere
     DEF Inv, RemovedKnown, Client, ClientPing, ClientReceive, DropInbound, DropOutbound
<1>21. CASE CleanUpFails(s)
  BY <1>21, QuietGoto DEF CleanUpFails
<1> QED
  BY <1>1, <1>2, <1>3, <1>4, <1>5, <1>6, <1>7, <1>8, <1>9, <1>10, <1>11, <1>12,
     <1>13, <1>14, <1>15, <1>16, <1>17, <1>18, <1>19, <1>20, <1>21 DEF Open, StreamTask

LEMMA DescriptorInv ==
    ASSUME Inv, NEW p \in Peers, StorePeerDescriptor(p) \/ DeletePeerDescriptor(p)
    PROVE  Facts'
<1>1. /\ connState' = connState /\ pc' = pc /\ effect' = effect
      /\ everRemoved \subseteq everRemoved'
      /\ \A q \in descriptors : q \in descriptors' \/ q \in everRemoved'
  BY DEF StorePeerDescriptor, DeletePeerDescriptor, historyVars
<1>2. ExclusiveSession' /\ OnlineIffOwned'
  BY <1>1, QuietStep DEF Inv, Quiet
<1>3. DescriptorKnown'
  BY <1>1 DEF Inv, DescriptorKnown
<1>4. PICK kind \in {"Inserted", "Removed"} :
         Notify(kind, p) /\ (kind = "Removed" => p \in everRemoved')
  BY DEF StorePeerDescriptor, DeletePeerDescriptor
<1>5. \A i \in 1 .. Len(events') :
         \/ events'[i] = [kind |-> kind, peer |-> p]
         \/ \E j \in 1 .. Len(events) : events'[i] = events[j]
  BY <1>4, NotifyFact DEF Inv
<1>6. RemovedKnown'
  BY <1>1, <1>4, <1>5 DEF Inv, RemovedKnown
<1> QED
  BY <1>2, <1>3, <1>6 DEF Facts

LEMMA EffectInv ==
    ASSUME Inv, Effect
    PROVE  Facts'
<1>0. effect.pc # "receive" => effect.peer \in everRemoved
  BY DEF Inv, RemovedKnown
<1>1. effect \in [pc : {"receive", "getState", "removeState", "lookup", "notice", "mark"},
                  peer : Peers, target : MaybeSession]
  BY DEF Inv, TypeOK
<1>2. CASE EffectReceive
  <2>1. Quiet /\ UNCHANGED <<pc, everRemoved, descriptors>>
    BY <1>2 DEF EffectReceive, Quiet, historyVars
  <2>2. events \in Seq(Event) /\ events # <<>>
    BY <1>2 DEF EffectReceive, Inv, TypeOK
  <2>3. /\ Len(Tail(events)) = Len(events) - 1 /\ Len(events) \in Nat \ {0}
        /\ Head(events) = events[1]
        /\ \A i \in 1 .. Len(events) - 1 : Tail(events)[i] = events[i + 1]
    BY <2>2, TailFact
  <2>4. \A i \in 1 .. Len(events) :
           events[i].kind = "Removed" => events[i].peer \in everRemoved
    BY DEF Inv, RemovedKnown
  <2>5. \A i \in 1 .. Len(events') :
           events'[i].kind = "Removed" => events'[i].peer \in everRemoved'
    <3>1. SUFFICES ASSUME NEW i \in 1 .. Len(events')
                   PROVE  events'[i].kind = "Removed" => events'[i].peer \in everRemoved'
      OBVIOUS
    <3>2. i \in 1 .. Len(events) - 1 /\ i + 1 \in 1 .. Len(events)
          /\ events'[i] = events[i + 1]
      BY <1>2, <2>3 DEF EffectReceive
    <3> QED
      BY <2>1, <2>4, <3>2
  <2>6. effect'.pc # "receive" => effect'.peer \in everRemoved'
    <3>1. 1 \in 1 .. Len(events)
      BY <2>3
    <3>2. Head(events).kind = "Removed" => Head(events).peer \in everRemoved
      BY <2>3, <2>4, <3>1
    <3> QED
      BY <1>1, <1>2, <2>1, <3>2 DEF EffectReceive
  <2>7. RemovedKnown'
    BY <2>5, <2>6 DEF RemovedKnown
  <2>8. DescriptorKnown'
    BY <2>1 DEF Inv, DescriptorKnown
  <2> QED
    BY <2>1, <2>7, <2>8, QuietStep DEF Inv, Facts
<1>3. CASE EffectGetState
  <2>1. effect'.pc = "receive" \/ effect'.peer = effect.peer
    BY <1>1, <1>3 DEF EffectGetState, EffectIdle, Inv, TypeOK, ConnStates
  <2>2. effect.pc # "receive" /\ UNCHANGED <<storeVars, pc, everRemoved>>
    BY <1>3 DEF EffectGetState, historyVars
  <2> QED
    BY <1>0, <2>1, <2>2, QuietElsewhere
<1>4. CASE EffectRemoveState
  <2> DEFINE p == effect.peer
  <2>1. /\ p \in everRemoved /\ connState'[p] # "Online"
        /\ \A q \in Peers \ {p} : connState'[q] = connState[q]
        /\ effect'.pc = "receive"
        /\ UNCHANGED <<descriptors, events, pc, everRemoved>>
    BY <1>0, <1>1, <1>4 DEF EffectRemoveState, EffectIdle, Inv, TypeOK, historyVars
  <2>2. \A s \in Sessions, q \in Peers : OwnedBy(s, q)' <=> OwnedBy(s, q)
    BY <2>1 DEF OwnedBy
  <2>3. ExclusiveSession'
    BY <2>1, <2>2 DEF Inv, ExclusiveSession
  <2>4. OnlineIffOwned'
    BY <2>1, <2>2 DEF Inv, OnlineIffOwned
  <2>5. RemovedKnown' /\ DescriptorKnown'
    BY <2>1 DEF Inv, RemovedKnown, DescriptorKnown
  <2> QED
    BY <2>3, <2>4, <2>5 DEF Facts
<1>5. CASE EffectLookup
  <2>1. effect'.pc = "receive" \/ effect'.peer = effect.peer
    BY <1>1, <1>5 DEF EffectLookup, EffectIdle
  <2>2. effect.pc # "receive" /\ UNCHANGED <<storeVars, pc, everRemoved>>
    BY <1>5 DEF EffectLookup, historyVars
  <2> QED
    BY <1>0, <2>1, <2>2, QuietElsewhere
<1>6. CASE EffectSendNotice
  <2>1. effect'.pc = "receive" \/ effect'.peer = effect.peer
    BY <1>1, <1>6 DEF EffectSendNotice, EffectIdle
  <2>2. effect.pc # "receive" /\ UNCHANGED <<storeVars, pc, everRemoved>>
    BY <1>6 DEF EffectSendNotice, historyVars
  <2> QED
    BY <1>0, <2>1, <2>2, QuietElsewhere
<1>7. CASE EffectMark
  <2>1. effect'.pc = "receive"
    BY <1>7 DEF EffectMark, EffectIdle
  <2>2. effect.pc # "receive" /\ UNCHANGED <<storeVars, pc, everRemoved>>
    BY <1>7 DEF EffectMark, historyVars
  <2> QED
    BY <1>0, <2>1, <2>2, QuietElsewhere
<1>8. CASE EffectFails
  <2>1. effect'.pc = "receive" /\ UNCHANGED <<storeVars, pc, everRemoved>>
    BY <1>8 DEF EffectFails, EffectIdle, historyVars
  <2> QED
    BY <2>1, QuietElsewhere
<1> QED
  BY <1>2, <1>3, <1>4, <1>5, <1>6, <1>7, <1>8 DEF Effect

LEMMA AssignInv ==
    ASSUME Inv, AssignStep \/ \E p \in Peers : AssignBegin(p)
    PROVE  Facts'
<1>1. CASE AssignCommit
  <2>1. /\ Quiet
        /\ UNCHANGED <<descriptors, events, pc, effect, everRemoved>>
    BY <1>1 DEF AssignCommit, Quiet
  <2>2. RemovedKnown' /\ DescriptorKnown'
    BY <2>1 DEF Inv, RemovedKnown, DescriptorKnown
  <2> QED
    BY <2>1, <2>2, QuietStep DEF Inv, Facts
<1>2. CASE ~ AssignCommit
  BY <1>2, QuietElsewhere
     DEF Inv, RemovedKnown, AssignStep, AssignBegin, AssignLookup, AssignSend, AssignRollback,
         historyVars
<1> QED
  BY <1>1, <1>2

LEMMA RestartInv ==
    ASSUME Inv, Restart
    PROVE  Facts'
<1>1. /\ \A s \in Sessions : pc'[s] \in {"idle", "ended"}
      /\ \A p \in Peers : connState'[p] = "None"
      /\ events' = <<>> /\ effect'.pc = "receive"
  BY DEF Restart, EffectIdle
<1>2. \A s \in Sessions, p \in Peers : ~ OwnedBy(s, p)'
  BY <1>1 DEF OwnedBy, Owning, Opening, Loop, Closing, Stranded
<1>3. ExclusiveSession' /\ OnlineIffOwned'
  BY <1>1, <1>2 DEF ExclusiveSession, OnlineIffOwned
<1>4. RemovedKnown'
  BY <1>1 DEF RemovedKnown
<1>5. DescriptorKnown'
  BY <1>1 DEF DescriptorKnown, Opening, Loop, Closing
<1> QED
  BY <1>3, <1>4, <1>5 DEF Facts

LEMMA InvInit == Init => Inv
<1> SUFFICES ASSUME Init PROVE Inv
  OBVIOUS
<1>1. \A s \in Sessions : pc[s] = "idle"
  BY DEF Init
<1>2. \A s \in Sessions, p \in Peers : ~ OwnedBy(s, p)
  BY <1>1 DEF OwnedBy, Owning, Opening, Loop, Closing, Stranded
<1>3. ExclusiveSession /\ OnlineIffOwned
  BY <1>2 DEF Init, ExclusiveSession, OnlineIffOwned
<1>4. RemovedKnown
  BY DEF Init, RemovedKnown, EffectIdle
<1>5. DescriptorKnown
  BY <1>1 DEF DescriptorKnown, Opening, Loop, Closing
<1> QED
  BY <1>3, <1>4, <1>5, TypeInit DEF Inv

LEMMA InvStep == Inv /\ [Next]_vars => Inv'
<1> SUFFICES ASSUME Inv, [Next]_vars PROVE Inv'
  OBVIOUS
<1>1. TypeOK'
  BY TypeStep DEF Inv
<1>2. CASE UNCHANGED vars
  BY <1>2, QuietElsewhere, <1>1 DEF Inv, RemovedKnown, Facts, vars, historyVars
<1>3. CASE Next
  <2>1. Facts'
    BY <1>3, SessionInv, DescriptorInv, EffectInv, AssignInv, RestartInv DEF Next
  <2> QED
    BY <1>1, <2>1 DEF Inv, Facts
<1> QED
  BY <1>2, <1>3

LEMMA InvHolds == Spec => []Inv
<1> QED
  BY InvInit, InvStep, PTL DEF Spec

\* However opens, clean-ups, assignments, removals and restarts interleave, a
\* peer whose descriptor was never removed has at most one call of open that
\* has stored Online and not taken it back.
THEOREM Exclusive == Spec => []ExclusiveSession
<1>1. Inv => ExclusiveSession
  BY DEF Inv
<1> QED
  BY <1>1, InvHolds, PTL

\* PeerConnectionState is Online only for a peer that some call owns, and for
\* every owned peer whose descriptor was never removed: the clean-up of an old
\* stream takes down neither too little nor the state of a newer stream.
THEOREM OnlineOwned == Spec => []OnlineIffOwned
<1>1. Inv => OnlineIffOwned
  BY DEF Inv
<1> QED
  BY <1>1, InvHolds, PTL

\* No step marks a peer Offline while a stream of it is being opened or served.
THEOREM OfflineAfterLoop == Spec => OfflineOnlyAfterLoop
<1> DEFINE A == \A p \in Peers \ everRemoved :
                   connState[p] = "Online" /\ connState'[p] = "Offline"
                       => \A s \in Sessions :
                             PeerOf[s] = p => pc[s] \notin (Opening \ {"update"}) \cup Loop
<1>1. Inv /\ [Next]_vars => [A]_vars
  <2> SUFFICES ASSUME Inv, Next PROVE A
    OBVIOUS
  <2>1. SUFFICES ASSUME NEW p \in Peers \ everRemoved, NEW t \in Sessions, PeerOf[t] = p,
                        connState[p] = "Online", connState'[p] = "Offline"
                 PROVE  pc[t] \notin (Opening \ {"update"}) \cup Loop
    OBVIOUS
  <2>2. CASE \E s \in Sessions : Open(s) \/ CancelOpen(s) \/ StreamTask(s) \/ Client(s)
    <3>1. PICK s \in Sessions : Open(s) \/ CancelOpen(s) \/ StreamTask(s) \/ Client(s)
      BY <2>2
    <3>2. StoreConnectionState(s) /\ PeerOf[s] = p
      <4>1. CASE StoreConnectionState(s)
        BY <2>1, <4>1 DEF StoreConnectionState, Inv, TypeOK
      <4>2. CASE UpdatePeerConnectionState(s)
        BY <2>1, <4>2 DEF UpdatePeerConnectionState, Inv, TypeOK
      <4>3. CASE ~ StoreConnectionState(s) /\ ~ UpdatePeerConnectionState(s)
        <5>1. connState' = connState
          BY <3>1, <4>3
             DEF storeVars, Open, StreamTask, Client, CancelOpen, ExpectKnownPeerDescriptor,
                 RejectConnected, RegisterPeer, ReadOldPeerConfiguration,
                 ReadPeerConfiguration, LookupDownstream, SendInitialPeerConfiguration,
                 ReceiveMessage, HandleStreamMessage, ReceiveNone, ReceiveTimeout,
                 CheckDisconnected, ChannelCloseGraceTime, GetConnectionState,
                 GetPeerDescriptor, CleanUpFails, UnregisterPeer, ClientPing, ClientReceive,
                 DropInbound, DropOutbound
        <5> QED
          BY <2>1, <5>1
      <4> QED
        BY <4>1, <4>2, <4>3
    <3>3. pc[s] \in {"deleteState", "setOffline"}
      BY <3>2 DEF StoreConnectionState
    <3>4. OwnedBy(s, p)
      BY <3>2, <3>3 DEF OwnedBy, Owning, Closing
    <3>5. pc[t] \in (Opening \ {"update"}) \cup Loop => OwnedBy(t, p)
      BY <2>1 DEF OwnedBy, Owning
    <3>6. OwnedBy(t, p) => t = s
      BY <3>4 DEF Inv, ExclusiveSession
    <3> QED
      BY <3>3, <3>5, <3>6 DEF Opening, Loop
  <2>3. CASE \E q \in Peers :
                StorePeerDescriptor(q) \/ DeletePeerDescriptor(q) \/ AssignBegin(q)
    BY <2>1, <2>3 DEF StorePeerDescriptor, DeletePeerDescriptor, AssignBegin, storeVars
  <2>4. CASE Effect
    <3>1. effect.peer \in Peers /\ connState \in [Peers -> ConnStates]
      BY DEF Inv, TypeOK
    <3> QED
      BY <2>1, <2>4, <3>1 DEF Effect, EffectReceive, EffectGetState, EffectRemoveState,
         EffectFails, EffectLookup, EffectSendNotice, EffectMark, storeVars
  <2>5. CASE AssignStep
    BY <2>1, <2>5 DEF AssignStep, AssignLookup, AssignSend, AssignCommit,
       AssignRollback, storeVars
  <2>6. CASE Restart
    BY <2>1, <2>6 DEF Restart
  <2> QED
    BY <2>2, <2>3, <2>4, <2>5, <2>6 DEF Next
<1>2. OfflineOnlyAfterLoop <=> [][A]_vars
  BY PTL DEF OfflineOnlyAfterLoop
<1> QED
  BY <1>1, <1>2, InvHolds, PTL DEF Spec

----------------------------------------------------------------------------
(* Configurations.  A call reads the stored configuration in two steps and  *)
(* sends it in a third, while assignments send and store new ones, so what  *)
(* is in a stream is known only from what every call under way has read     *)
(* (Settled), from what the assignment under way has sent (Assigning), and  *)
(* because nobody sends into the stream of another call (DeliversOwn).      *)

Reading == {"readNew", "lookup", "send"}
Served  == {"readOld"} \cup Reading \cup Loop

Known(s) == PeerOf[s] \notin everRemoved

\* A sender taken from the map is one of a call of the peer it was taken for.
TargetsFit ==
    /\ \A p \in Peers : downstream[p] # NoSession => PeerOf[downstream[p]] = p
    /\ effect.pc \in {"notice", "mark"} =>
           effect.target # NoSession /\ PeerOf[effect.target] = effect.peer
    /\ assign.pc \in {"send", "commit"} =>
           assign.target # NoSession /\ PeerOf[assign.target] = assign.peer
    /\ \A s \in Sessions : pc[s] = "send" =>
           session[s].target # NoSession /\ PeerOf[session[s].target] = PeerOf[s]

DeliversOwn ==
    \A s \in Sessions : Known(s) /\ pc[s] \in Served =>
        /\ downstream[PeerOf[s]] \in {s, NoSession}
        /\ pc[s] = "send" => session[s].target = s

Settled ==
    \A s \in Sessions \ unsettled : Known(s) =>
        /\ pc[s] = "readNew" => session[s].seen[1] = cfg[PeerOf[s]]
        /\ pc[s] \in {"lookup", "send"} => session[s].seen = <<cfg[PeerOf[s]], cfg[PeerOf[s]]>>
        /\ pc[s] \in Loop /\ ~ (assign.pc = "commit" /\ assign.target = s) =>
               lastCfg[s] = <<cfg[PeerOf[s]], cfg[PeerOf[s]]>>

\* The calls that the assignment did not find reading.
Assigning ==
    \A s \in Sessions \ assign.raced : PeerOf[s] = assign.peer /\ assign.pc # "idle" =>
        /\ pc[s] \notin Reading
        /\ Known(s) /\ pc[s] \in Loop /\ assign.pc \in {"send", "commit"} => assign.target = s
        /\ Known(s) /\ pc[s] \in Loop /\ assign.pc = "commit" => lastCfg[s] = <<version, version>>

Delivery == TargetsFit /\ DeliversOwn /\ Settled /\ Assigning

\* A step that neither reads, sends nor stores a configuration.
Unaffected ==
    /\ UNCHANGED <<cfg, downstream, assign, version, lastCfg, unsettled>>
    /\ everRemoved \subseteq everRemoved'
    /\ effect'.pc \in {"notice", "mark"} =>
           effect'.target # NoSession /\ PeerOf[effect'.target] = effect'.peer
    /\ \A s \in Sessions :
          /\ pc'[s] \in Reading =>
                 /\ pc'[s] = pc[s] /\ session'[s].target = session[s].target
                 /\ session'[s].seen = session[s].seen
          /\ pc'[s] = "readOld" => pc[s] = "readOld"
          /\ pc'[s] \in Loop => pc[s] \in Loop

LEMMA UnaffectedStep ==
    ASSUME Delivery, Unaffected
    PROVE  Delivery'
<1>1. TargetsFit'
  BY DEF Delivery, TargetsFit, Unaffected, Reading
<1>2. DeliversOwn'
  <2>1. SUFFICES ASSUME NEW s \in Sessions, Known(s)', pc'[s] \in Served
                 PROVE  /\ downstream'[PeerOf[s]] \in {s, NoSession}
                        /\ pc'[s] = "send" => session'[s].target = s
    BY DEF DeliversOwn
  <2>2. Known(s) /\ pc[s] \in Served
    BY <2>1 DEF Unaffected, Known, Served
  <2> QED
    BY <2>2 DEF Delivery, DeliversOwn, Unaffected, Reading
<1>3. Settled'
  BY DEF Delivery, Settled, Unaffected, Reading, Known
<1>4. Assigning'
  BY DEF Delivery, Assigning, Unaffected, Known
<1> QED
  BY <1>1, <1>2, <1>3, <1>4 DEF Delivery

LEMMA SessionUnaffected ==
    ASSUME Inv, Delivery, NEW s \in Sessions, NEW label,
           UNCHANGED <<cfg, downstream, effect, assign, historyVars>>,
           Goto(s, label) \/ (pc' = pc /\ label = pc[s]),
           label \notin Reading \cup {"readOld"}, label \in Loop => pc[s] \in Loop,
           \A t \in Sessions \ {s} : session'[t] = session[t]
    PROVE  Delivery'
<1>1. pc'[s] = label /\ \A t \in Sessions \ {s} : pc'[t] = pc[t]
  BY DEF Inv, TypeOK, Goto
<1>2. Unaffected
  BY <1>1 DEF Unaffected, historyVars, Delivery, TargetsFit
<1> QED
  BY <1>2, UnaffectedStep

\* A message is put into a channel.
LEMMA PushKeeps ==
    ASSUME Inv, NEW s \in Sessions, NEW message
    PROVE  /\ \A t \in Sessions : /\ Pushed(s, message)[t].target = session[t].target
                                  /\ Pushed(s, message)[t].seen = session[t].seen
           /\ \A t \in Sessions \ {s} : Pushed(s, message)[t] = session[t]
           /\ DOMAIN Pushed(s, message) = Sessions
<1> DEFINE q == Append(session[s].outbound, message)
           r == [session[s] EXCEPT !.outbound = q]
<1>1. session \in [Sessions -> Session] /\ session[s] \in Session
  BY DEF Inv, TypeOK
<1>2. Pushed(s, message) = [session EXCEPT ![s] = r]
  BY DEF Pushed
<1> HIDE DEF q
<1>3. r.target = session[s].target /\ r.seen = session[s].seen
  BY <1>1 DEF Session
<1> HIDE DEF r
<1> QED
  BY <1>1, <1>2, <1>3

\* The steps of a stream and of its client send no configuration.
LEMMA StreamDelivery ==
    ASSUME Inv, Delivery, NEW s \in Sessions, StreamTask(s) \/ Client(s)
    PROVE  Delivery'
<1>1. session \in [Sessions -> Session] /\ DOMAIN session = Sessions
  BY DEF Inv, TypeOK
<1>2. CASE UnregisterPeer(s)
  <2>1. /\ UNCHANGED <<cfg, effect, assign, historyVars>> /\ Goto(s, "ended")
        /\ downstream' = [downstream EXCEPT ![PeerOf[s]] = NoSession]
        /\ \A t \in Sessions \ {s} : session'[t] = session[t]
    BY <1>1, <1>2 DEF UnregisterPeer, EndTask, storeVars
  <2>2. pc'[s] = "ended" /\ \A t \in Sessions \ {s} : pc'[t] = pc[t] /\ session'[t] = session[t]
    BY <2>1 DEF Goto, Inv, TypeOK
  <2>3. \A p \in Peers : downstream'[p] \in {downstream[p], NoSession}
    BY <2>1 DEF Inv, TypeOK
  <2>4. TargetsFit'
    BY <2>1, <2>2, <2>3 DEF Delivery, TargetsFit
  <2>5. DeliversOwn'
    BY <2>1, <2>2, <2>3
       DEF Delivery, DeliversOwn, Known, Served, Reading, Loop, historyVars
  <2>6. Settled'
    BY <2>1, <2>2 DEF Delivery, Settled, Known, Reading, Loop, historyVars
  <2>7. Assigning'
    BY <2>1, <2>2 DEF Delivery, Assigning, Known, Reading, Loop, historyVars
  <2> QED
    BY <2>4, <2>5, <2>6, <2>7 DEF Delivery
<1>3. CASE ~ UnregisterPeer(s)
  <2>1. UNCHANGED <<cfg, downstream, effect, assign, historyVars>>
    BY <1>3 DEF StreamTask, Client, ReceiveMessage, HandleStreamMessage, ReceiveNone,
       ReceiveTimeout, CheckDisconnected, ChannelCloseGraceTime, GetConnectionState,
       GetPeerDescriptor, CleanUpFails, StoreConnectionState, ClientPing, ClientReceive, DropInbound,
       DropOutbound, storeVars, mapVars
  <2>2. \A t \in Sessions \ {s} : session'[t] = session[t]
    BY <1>1, <1>3 DEF StreamTask, Client, ReceiveMessage, HandleStreamMessage, ReceiveNone,
       ReceiveTimeout, CheckDisconnected, ChannelCloseGraceTime, GetConnectionState, EndTask,
       GetPeerDescriptor, CleanUpFails, StoreConnectionState, ClientPing, ClientReceive, DropInbound,
       DropOutbound, Pushed, HandlesDropped
  <2>3. PICK label : /\ Goto(s, label) \/ (pc' = pc /\ label = pc[s])
                     /\ label \notin Reading \cup {"readOld"} /\ (label \in Loop => pc[s] \in Loop)
    <3>1. CASE Client(s)
      <4>1. pc' = pc /\ pc[s] \in Loop \cup Closing \cup {"unregister", "ended", "abandoned"}
        BY <3>1 DEF Client, ClientPing, ClientReceive, DropInbound, DropOutbound, Answered
      <4> QED
        BY <4>1 DEF Loop, Closing, Reading
    <3>2. CASE StreamTask(s)
      <4>1. \E label \in Loop \cup Closing \cup {"unregister", "ended", "abandoned"} :
                Goto(s, label) /\ (label \in Loop => pc[s] \in Loop)
        BY <1>3, <3>2 DEF StreamTask, ReceiveMessage, HandleStreamMessage, ReceiveNone,
           ReceiveTimeout, CheckDisconnected, ChannelCloseGraceTime, GetConnectionState, EndTask,
           GetPeerDescriptor, CleanUpFails, StoreConnectionState, Loop, Closing
      <4> QED
        BY <4>1 DEF Loop, Closing, Reading
    <3> QED
      BY <3>1, <3>2
  <2> QED
    BY <2>1, <2>2, <2>3, SessionUnaffected
<1> QED
  BY <1>2, <1>3

LEMMA OnlyOwner ==
    ASSUME Inv, NEW s \in Sessions, NEW t \in Sessions, Known(s), PeerOf[s] = PeerOf[t],
           pc[s] \in Served \cup {"register"}, pc[t] \in Served \cup {"register"}
    PROVE  s = t
<1>1. PeerOf[s] \in Peers
  OBVIOUS
<1>2. OwnedBy(s, PeerOf[s]) /\ OwnedBy(t, PeerOf[s])
  BY DEF OwnedBy, Owning, Opening, Served, Reading
<1> QED
  BY <1>1, <1>2 DEF Known, Inv, ExclusiveSession

\* Only s moves, and the others' channels keep what was read from them.
OnlyMoves(s, label) ==
    /\ pc'[s] = label /\ \A t \in Sessions \ {s} : pc'[t] = pc[t]
    /\ \A t \in Sessions \ {s} : /\ session'[t].target = session[t].target
                                 /\ session'[t].seen = session[t].seen
    /\ UNCHANGED <<cfg, effect, assign, version, unsettled, everRemoved>>

LEMMA RegisterDelivery ==
    ASSUME Inv, Delivery, NEW s \in Sessions, RegisterPeer(s)
    PROVE  Delivery'
<1>1. /\ pc[s] = "register" /\ OnlyMoves(s, "readOld") /\ lastCfg' = lastCfg
      /\ PeerOf[s] \in Peers /\ downstream'[PeerOf[s]] = s
      /\ \A p \in Peers \ {PeerOf[s]} : downstream'[p] = downstream[p]
  BY DEF RegisterPeer, OnlyMoves, Goto, Inv, TypeOK, storeVars, historyVars
<1>2. TargetsFit'
  BY <1>1 DEF Delivery, TargetsFit, OnlyMoves
<1>3. DeliversOwn'
  <2>1. SUFFICES ASSUME NEW t \in Sessions, Known(t)', pc'[t] \in Served
                 PROVE  /\ downstream'[PeerOf[t]] \in {t, NoSession}
                        /\ pc'[t] = "send" => session'[t].target = t
    BY DEF DeliversOwn
  <2>2. CASE t = s
    BY <1>1, <2>2 DEF OnlyMoves
  <2>3. CASE t # s
    <3>1. Known(t) /\ pc[t] \in Served /\ pc'[t] = pc[t]
      BY <1>1, <2>1, <2>3 DEF OnlyMoves, Known
    <3>2. PeerOf[t] # PeerOf[s]
      BY <1>1, <2>3, <3>1, OnlyOwner
    <3>3. downstream[PeerOf[t]] \in {t, NoSession} /\ (pc[t] = "send" => session[t].target = t)
      BY <3>1 DEF Delivery, DeliversOwn
    <3> QED
      BY <1>1, <2>3, <3>1, <3>2, <3>3 DEF OnlyMoves
  <2> QED
    BY <2>2, <2>3
<1>4. Settled'
  BY <1>1 DEF Delivery, Settled, OnlyMoves, Known, Loop
<1>5. Assigning'
  BY <1>1 DEF Delivery, Assigning, OnlyMoves, Known, Reading, Loop
<1> QED
  BY <1>2, <1>3, <1>4, <1>5 DEF Delivery

\* What a call does with its own channels, field by field.
LEMMA SeenAfter ==
    ASSUME Inv, NEW s \in Sessions, NEW v, session' = [session EXCEPT ![s].seen = v]
    PROVE  /\ session'[s].seen = v /\ session'[s].target = session[s].target
           /\ \A t \in Sessions \ {s} : session'[t] = session[t]
<1>1. session \in [Sessions -> Session] /\ session[s] \in Session
  BY DEF Inv, TypeOK
<1> QED
  BY <1>1 DEF Session

LEMMA TargetAfter ==
    ASSUME Inv, NEW s \in Sessions, NEW v, session' = [session EXCEPT ![s].target = v]
    PROVE  /\ session'[s].target = v /\ session'[s].seen = session[s].seen
           /\ \A t \in Sessions \ {s} : session'[t] = session[t]
<1>1. session \in [Sessions -> Session] /\ session[s] \in Session
  BY DEF Inv, TypeOK
<1> QED
  BY <1>1 DEF Session

LEMMA ReadDelivery ==
    ASSUME Inv, Delivery, NEW s \in Sessions,
           ReadOldPeerConfiguration(s) \/ ReadPeerConfiguration(s)
    PROVE  Delivery'
<1> DEFINE label == IF pc[s] = "readOld" THEN "readNew" ELSE "lookup"
           now == cfg[PeerOf[s]]
           old == <<now, 0>>
           both == <<session[s].seen[1], now>>
           v == IF pc[s] = "readOld" THEN old ELSE both
<1>1. \/ pc[s] = "readOld" /\ label = "readNew" /\ v[1] = now
      \/ pc[s] = "readNew" /\ label = "lookup" /\ v = <<session[s].seen[1], now>>
  <2>1. pc[s] = "readOld" \/ pc[s] = "readNew"
    BY DEF ReadOldPeerConfiguration, ReadPeerConfiguration
  <2>2. old[1] = now
    OBVIOUS
  <2>3. both = <<session[s].seen[1], now>>
    OBVIOUS
  <2> HIDE DEF old, both
  <2> QED
    BY <2>1, <2>2, <2>3
<1>2. /\ session' = [session EXCEPT ![s].seen = v] /\ Goto(s, label) /\ assign.pc = "idle"
      /\ UNCHANGED <<storeVars, mapVars, effect, assign, historyVars>>
  <2>1. CASE ReadOldPeerConfiguration(s)
    BY <2>1 DEF ReadOldPeerConfiguration, LockFree
  <2>2. CASE ReadPeerConfiguration(s)
    <3>1. pc[s] = "readNew" /\ session' = [session EXCEPT ![s].seen = both]
      BY <2>2, Zenon DEF ReadPeerConfiguration
    <3> QED
      BY <2>2, <3>1 DEF ReadPeerConfiguration, LockFree
  <2> QED
    BY <2>1, <2>2
<1> HIDE DEF v, label
<1>3. session'[s].seen = v /\ \A t \in Sessions \ {s} : session'[t] = session[t]
  BY <1>2, SeenAfter
<1>4. OnlyMoves(s, label) /\ UNCHANGED <<downstream, lastCfg>>
  BY <1>2, <1>3 DEF OnlyMoves, Goto, Inv, TypeOK, storeVars, mapVars, historyVars
<1>5. TargetsFit'
  BY <1>1, <1>4 DEF Delivery, TargetsFit, OnlyMoves
<1>6. DeliversOwn'
  BY <1>1, <1>4 DEF Delivery, DeliversOwn, OnlyMoves, Known, Served, Reading
<1>7. Settled'
  <2>1. SUFFICES ASSUME NEW t \in Sessions \ unsettled', Known(t)'
                 PROVE  /\ pc'[t] = "readNew" => session'[t].seen[1] = cfg'[PeerOf[t]]
                        /\ pc'[t] \in {"lookup", "send"} =>
                               session'[t].seen = <<cfg'[PeerOf[t]], cfg'[PeerOf[t]]>>
                        /\ pc'[t] \in Loop /\ ~ (assign'.pc = "commit" /\ assign'.target = t) =>
                               lastCfg'[t] = <<cfg'[PeerOf[t]], cfg'[PeerOf[t]]>>
    BY DEF Settled
  <2>2. t \in Sessions \ unsettled /\ Known(t)
    BY <1>4, <2>1 DEF OnlyMoves, Known
  <2>3. CASE t = s
    <3>1. pc[s] = "readNew" => session[s].seen[1] = now
      BY <2>2, <2>3 DEF Delivery, Settled
    <3> QED
      BY <1>1, <1>3, <1>4, <2>3, <3>1 DEF OnlyMoves, Loop
  <2>4. CASE t # s
    BY <1>4, <2>2, <2>4 DEF Delivery, Settled, OnlyMoves
  <2> QED
    BY <2>3, <2>4
<1>8. Assigning'
  BY <1>2 DEF Assigning
<1> QED
  BY <1>5, <1>6, <1>7, <1>8 DEF Delivery

LEMMA LookupDelivery ==
    ASSUME Inv, Delivery, NEW s \in Sessions, LookupDownstream(s)
    PROVE  Delivery'
<1> DEFINE to == downstream[PeerOf[s]]
<1>1. pc[s] = "lookup" /\ UNCHANGED <<storeVars, mapVars, effect, assign, historyVars>>
  BY DEF LookupDownstream
<1>2. CASE to = NoSession
  <2>1. Goto(s, "leaked") /\ session' = HandlesDropped(s)
    BY <1>2 DEF LookupDownstream
  <2>2. \A t \in Sessions \ {s} : session'[t] = session[t]
    BY <2>1 DEF HandlesDropped, Inv, TypeOK
  <2> QED
    BY <1>1, <2>1, <2>2, SessionUnaffected DEF Reading, Loop, storeVars, mapVars
<1>3. CASE to # NoSession
  <2>1. Goto(s, "send") /\ session' = [session EXCEPT ![s].target = to]
    BY <1>3 DEF LookupDownstream
  <2>2. /\ session'[s].target = to /\ session'[s].seen = session[s].seen
        /\ \A t \in Sessions \ {s} : session'[t] = session[t]
    <3> HIDE DEF to
    <3> QED
      BY <2>1, TargetAfter
  <2>3. OnlyMoves(s, "send") /\ UNCHANGED <<downstream, lastCfg>>
    BY <1>1, <2>1, <2>2 DEF OnlyMoves, Goto, Inv, TypeOK, storeVars, mapVars, historyVars
  <2>4. PeerOf[s] \in Peers /\ PeerOf[to] = PeerOf[s]
    BY <1>3 DEF Delivery, TargetsFit
  <2>5. TargetsFit'
    BY <1>3, <2>2, <2>3, <2>4 DEF Delivery, TargetsFit, OnlyMoves
  <2>6. Known(s) => to = s
    BY <1>1, <1>3 DEF Delivery, DeliversOwn, Served, Reading
  <2> HIDE DEF to
  <2>7. DeliversOwn'
    BY <1>1, <2>2, <2>3, <2>6 DEF Delivery, DeliversOwn, OnlyMoves, Known, Served, Reading
  <2>8. Settled'
    BY <1>1, <2>2, <2>3 DEF Delivery, Settled, OnlyMoves, Known, Loop
  <2>9. Assigning'
    BY <1>1, <2>3 DEF Delivery, Assigning, OnlyMoves, Known, Reading, Loop
  <2> QED
    BY <2>5, <2>7, <2>8, <2>9 DEF Delivery
<1> QED
  BY <1>2, <1>3

\* What a call sends is what is stored, and goes into its own stream.
LEMMA SendDelivery ==
    ASSUME Inv, Delivery, NEW s \in Sessions, SendInitialPeerConfiguration(s)
    PROVE  Delivery'
<1> DEFINE to == session[s].target
           seen == session[s].seen
           f == Pushed(to, "apply")
<1>1. pc[s] = "send" /\ UNCHANGED <<storeVars, mapVars, effect, assign, version, unsettled, everRemoved>>
  BY DEF SendInitialPeerConfiguration
<1>2. session \in [Sessions -> Session] /\ lastCfg \in [Sessions -> Versions \X Versions]
      /\ to \in MaybeSession
  BY RecordFact DEF Inv, TypeOK
<1>3. to \in Sessions /\ PeerOf[to] = PeerOf[s]
  BY <1>1, <1>2 DEF Delivery, TargetsFit, MaybeSession
<1>4. CASE Goto(s, "leaked") /\ session' = HandlesDropped(s) /\ UNCHANGED lastCfg
  <2>1. \A t \in Sessions \ {s} : session'[t] = session[t]
    BY <1>2, <1>4 DEF HandlesDropped
  <2> QED
    BY <1>1, <1>4, <2>1, SessionUnaffected DEF Reading, Loop, storeVars, mapVars, historyVars
<1>5. CASE /\ Goto(s, "recv") /\ lastCfg' = [lastCfg EXCEPT ![to] = seen]
           /\ session' = [f EXCEPT ![s].target = NoSession, ![s].seen = <<0, 0>>]
  <2>1. /\ \A t \in Sessions : f[t].target = session[t].target /\ f[t].seen = session[t].seen
        /\ DOMAIN f = Sessions
    BY <1>3, PushKeeps
  <2>2. \A t \in Sessions \ {s} : session'[t] = f[t]
    <3> HIDE DEF f
    <3> QED
      BY <1>5, <2>1
  <2>3. OnlyMoves(s, "recv") /\ UNCHANGED downstream
    <3>1. \A t \in Sessions \ {s} : session'[t].target = session[t].target
                                    /\ session'[t].seen = session[t].seen
      BY <2>1, <2>2
    <3>2. pc'[s] = "recv" /\ \A t \in Sessions \ {s} : pc'[t] = pc[t]
      BY <1>5 DEF Goto, Inv, TypeOK
    <3> QED
      BY <1>1, <3>1, <3>2 DEF OnlyMoves, storeVars, mapVars
  <2> HIDE DEF f
  <2>4. Known(s) => to = s
    BY <1>1 DEF Delivery, DeliversOwn, Served, Reading
  <2>5. /\ lastCfg'[to] = seen
        /\ \A t \in Sessions : t # to => lastCfg'[t] = lastCfg[t]
    <3> HIDE DEF to, seen
    <3> QED
      BY <1>2, <1>3, <1>5
  <2> HIDE DEF to
  <2>6. ASSUME NEW t \in Sessions, t # s, Known(t), pc[t] \in Loop PROVE lastCfg'[t] = lastCfg[t]
    <3>1. SUFFICES ASSUME t = to PROVE FALSE
      BY <2>5
    <3>2. PeerOf[t] = PeerOf[s]
      BY <1>3, <3>1
    <3> QED
      BY <1>1, <2>6, <3>2, OnlyOwner DEF Served, Reading
  <2>7. TargetsFit'
    BY <2>3 DEF Delivery, TargetsFit, OnlyMoves
  <2>8. DeliversOwn'
    BY <1>1, <2>3 DEF Delivery, DeliversOwn, OnlyMoves, Known, Served, Reading, Loop
  <2>9. Settled'
    <3>1. SUFFICES ASSUME NEW t \in Sessions \ unsettled', Known(t)'
                   PROVE  /\ pc'[t] = "readNew" => session'[t].seen[1] = cfg'[PeerOf[t]]
                          /\ pc'[t] \in {"lookup", "send"} =>
                                 session'[t].seen = <<cfg'[PeerOf[t]], cfg'[PeerOf[t]]>>
                          /\ pc'[t] \in Loop /\ ~ (assign'.pc = "commit" /\ assign'.target = t) =>
                                 lastCfg'[t] = <<cfg'[PeerOf[t]], cfg'[PeerOf[t]]>>
      BY DEF Settled
    <3>2. t \in Sessions \ unsettled /\ Known(t)
      BY <2>3, <3>1 DEF OnlyMoves, Known
    <3>3. CASE t = s
      <4>1. seen = <<cfg[PeerOf[s]], cfg[PeerOf[s]]>>
        BY <1>1, <3>2, <3>3 DEF Delivery, Settled
      <4>2. lastCfg'[s] = seen
        BY <2>4, <2>5, <3>2, <3>3
      <4> QED
        BY <2>3, <3>3, <4>1, <4>2 DEF OnlyMoves
    <3>4. CASE t # s
      BY <2>3, <2>6, <3>2, <3>4 DEF Delivery, Settled, OnlyMoves
    <3> QED
      BY <3>3, <3>4
  <2>10. Assigning'
    <3>1. SUFFICES ASSUME NEW t \in Sessions \ assign.raced, PeerOf[t] = assign.peer,
                          assign.pc # "idle"
                   PROVE  /\ pc'[t] \notin Reading
                          /\ Known(t) /\ pc'[t] \in Loop /\ assign.pc \in {"send", "commit"} =>
                                 assign.target = t
                          /\ Known(t) /\ pc'[t] \in Loop /\ assign.pc = "commit" =>
                                 lastCfg'[t] = <<version, version>>
      BY <2>3 DEF Assigning, Known, OnlyMoves
    <3>2. /\ pc[t] \notin Reading
          /\ Known(t) /\ pc[t] \in Loop /\ assign.pc \in {"send", "commit"} => assign.target = t
          /\ Known(t) /\ pc[t] \in Loop /\ assign.pc = "commit" => lastCfg[t] = <<version, version>>
      BY <3>1 DEF Delivery, Assigning
    <3>3. t # s /\ pc'[t] = pc[t]
      BY <1>1, <2>3, <3>2 DEF Reading, OnlyMoves
    <3> QED
      BY <2>6, <3>2, <3>3
  <2> QED
    BY <2>7, <2>8, <2>9, <2>10 DEF Delivery
<1> QED
  BY <1>4, <1>5 DEF SendInitialPeerConfiguration

LEMMA OpenDelivery ==
    ASSUME Inv, Delivery, NEW s \in Sessions, Open(s) \/ CancelOpen(s)
    PROVE  Delivery'
<1>1. session \in [Sessions -> Session]
  BY DEF Inv, TypeOK
<1>2. CASE ExpectKnownPeerDescriptor(s) \/ RejectConnected(s) \/ UpdatePeerConnectionState(s)
           \/ CancelOpen(s)
  <2>1. UNCHANGED <<cfg, downstream, effect, assign, historyVars>>
    BY <1>2 DEF ExpectKnownPeerDescriptor, RejectConnected, UpdatePeerConnectionState,
       CancelOpen, storeVars, mapVars
  <2>2. \A t \in Sessions \ {s} : session'[t] = session[t]
    BY <1>1, <1>2 DEF ExpectKnownPeerDescriptor, RejectConnected, UpdatePeerConnectionState,
       CancelOpen, HandlesDropped
  <2>3. PICK label \in {"update", "rejected", "register", "cancelled"} : Goto(s, label)
    BY <1>2 DEF ExpectKnownPeerDescriptor, RejectConnected, UpdatePeerConnectionState, CancelOpen
  <2> QED
    BY <2>1, <2>2, <2>3, SessionUnaffected DEF Reading, Loop
<1> QED
  BY <1>2, RegisterDelivery, ReadDelivery, LookupDelivery, SendDelivery DEF Open

\* A step that moves no session and touches no channel but to push into it.
LEMMA StillUnaffected ==
    ASSUME Inv, Delivery, UNCHANGED <<cfg, downstream, pc, assign, version, lastCfg, unsettled>>,
           everRemoved \subseteq everRemoved',
           \A t \in Sessions : /\ session'[t].target = session[t].target
                               /\ session'[t].seen = session[t].seen,
           effect'.pc \in {"notice", "mark"} =>
               effect'.target # NoSession /\ PeerOf[effect'.target] = effect'.peer
    PROVE  Delivery'
<1>1. Unaffected
  BY DEF Unaffected
<1> QED
  BY <1>1, UnaffectedStep

LEMMA DescriptorDelivery ==
    ASSUME Inv, Delivery, NEW p \in Peers, StorePeerDescriptor(p) \/ DeletePeerDescriptor(p)
    PROVE  Delivery'
<1>1. /\ UNCHANGED <<cfg, downstream, pc, session, effect, assign, version, lastCfg, unsettled>>
      /\ everRemoved \subseteq everRemoved'
  BY DEF StorePeerDescriptor, DeletePeerDescriptor, mapVars, historyVars
<1>2. effect.pc \in {"notice", "mark"} =>
          effect.target # NoSession /\ PeerOf[effect.target] = effect.peer
  BY DEF Delivery, TargetsFit
<1> QED
  BY <1>1, <1>2, StillUnaffected

\* The effect sends notices, and puts senders back of removed peers only.
LEMMA EffectDelivery ==
    ASSUME Inv, Delivery, Effect
    PROVE  Delivery'
<1>1. /\ effect \in [pc : {"receive", "getState", "removeState", "lookup", "notice", "mark"},
                     peer : Peers, target : MaybeSession]
      /\ downstream \in [Peers -> MaybeSession]
  BY DEF Inv, TypeOK
<1>2. effect.pc \in {"notice", "mark"} =>
          effect.target # NoSession /\ PeerOf[effect.target] = effect.peer
  BY DEF Delivery, TargetsFit
<1>3. CASE EffectReceive \/ EffectGetState \/ EffectRemoveState \/ EffectFails \/ EffectLookup
  <2>1. UNCHANGED <<cfg, downstream, pc, session, assign, historyVars>>
    BY <1>3 DEF EffectReceive, EffectGetState, EffectRemoveState, EffectFails, EffectLookup,
       storeVars, mapVars
  <2>2. effect'.pc \in {"notice", "mark"} =>
            effect'.target # NoSession /\ PeerOf[effect'.target] = effect'.peer
    <3>1. CASE EffectReceive
      BY <1>1, <3>1 DEF EffectReceive
    <3>2. CASE EffectGetState
      <4>1. connState[effect.peer] \in ConnStates
        BY <1>1 DEF Inv, TypeOK
      <4> QED
        BY <1>1, <3>2, <4>1 DEF EffectGetState, EffectIdle, ConnStates
    <3>3. CASE EffectRemoveState \/ EffectFails
      BY <3>3 DEF EffectRemoveState, EffectFails, EffectIdle
    <3>4. CASE EffectLookup
      <4> DEFINE to == downstream[effect.peer]
      <4>1. CASE to = NoSession
        BY <3>4, <4>1 DEF EffectLookup, EffectIdle
      <4>2. CASE to # NoSession
        <5>1. effect' = [effect EXCEPT !.pc = "notice", !.target = to]
          BY <3>4, <4>2 DEF EffectLookup
        <5>2. PeerOf[to] = effect.peer
          BY <1>1, <4>2 DEF Delivery, TargetsFit
        <5> HIDE DEF to
        <5> QED
          BY <1>1, <4>2, <5>1, <5>2
      <4> QED
        BY <4>1, <4>2
    <3> QED
      BY <1>3, <3>1, <3>2, <3>3, <3>4
  <2> QED
    BY <2>1, <2>2, StillUnaffected DEF historyVars
<1>4. CASE EffectSendNotice
  <2>1. UNCHANGED <<cfg, downstream, pc, assign, historyVars>>
    BY <1>4 DEF EffectSendNotice, storeVars, mapVars
  <2>2. effect.target \in Sessions
    BY <1>1, <1>2, <1>4 DEF EffectSendNotice, MaybeSession
  <2>3. \A t \in Sessions : /\ session'[t].target = session[t].target
                            /\ session'[t].seen = session[t].seen
    BY <1>4, <2>2, PushKeeps DEF EffectSendNotice
  <2>4. effect'.pc \in {"notice", "mark"} =>
            effect'.target # NoSession /\ PeerOf[effect'.target] = effect'.peer
    BY <1>1, <1>2, <1>4 DEF EffectSendNotice, EffectIdle
  <2> QED
    BY <2>1, <2>3, <2>4, StillUnaffected DEF historyVars
<1>5. CASE EffectMark
  <2> DEFINE p == effect.peer
             to == effect.target
  <2>1. /\ UNCHANGED <<storeVars, pc, session, assign, historyVars>> /\ effect'.pc = "receive"
        /\ downstream' = [downstream EXCEPT ![p] = to]
    BY <1>5 DEF EffectMark, EffectIdle
  <2>2. p \in Peers /\ p \in everRemoved /\ to # NoSession /\ PeerOf[to] = p
    BY <1>1, <1>2, <1>5 DEF EffectMark, Inv, RemovedKnown
  <2> HIDE DEF p, to
  <2>3. downstream'[p] = to /\ \A q \in Peers \ {p} : downstream'[q] = downstream[q]
    BY <1>1, <2>1, <2>2
  <2>4. TargetsFit'
    BY <2>1, <2>2, <2>3 DEF Delivery, TargetsFit
  <2>5. DeliversOwn'
    BY <2>1, <2>2, <2>3 DEF Delivery, DeliversOwn, Known, historyVars
  <2>6. Settled'
    BY <2>1 DEF Delivery, Settled, Known, storeVars, historyVars
  <2>7. Assigning'
    BY <2>1 DEF Delivery, Assigning, Known, historyVars
  <2> QED
    BY <2>4, <2>5, <2>6, <2>7 DEF Delivery
<1> QED
  BY <1>3, <1>4, <1>5 DEF Effect

LEMMA AssignRecord ==
    ASSUME Inv
    PROVE  /\ assign \in [pc : {"idle", "lookup", "send", "commit"}, peer : Peers,
                          target : MaybeSession, raced : SUBSET Sessions]
           /\ AssignIdle.pc = "idle"
  BY DEF Inv, TypeOK, AssignIdle

LEMMA AssignBeginDelivery ==
    ASSUME Inv, Delivery, NEW p \in Peers, AssignBegin(p)
    PROVE  Delivery'
<1> DEFINE raced == {s \in Sessions : PeerOf[s] = p /\ pc[s] \in {"readNew", "lookup", "send"}}
<1>1. /\ assign' = [pc |-> "lookup", peer |-> p, target |-> NoSession, raced |-> raced]
      /\ assign.pc = "idle"
      /\ UNCHANGED <<storeVars, mapVars, pc, session, effect, lastCfg, unsettled, everRemoved>>
  BY DEF AssignBegin, LockFree
<1>2. \A s \in Sessions \ raced : PeerOf[s] = p => pc[s] \notin Reading
  BY DEF Reading
<1> HIDE DEF raced
<1>3. assign'.pc = "lookup" /\ assign'.peer = p /\ assign'.raced = raced
  BY <1>1
<1>4. TargetsFit'
  BY <1>1, <1>3 DEF Delivery, TargetsFit, mapVars
<1>5. DeliversOwn'
  BY <1>1 DEF Delivery, DeliversOwn, Known, mapVars
<1>6. Settled'
  BY <1>1, <1>3 DEF Delivery, Settled, Known, storeVars
<1>7. Assigning'
  BY <1>1, <1>2, <1>3 DEF Assigning
<1> QED
  BY <1>4, <1>5, <1>6, <1>7 DEF Delivery

\* An assignment that ends without having sent leaves everything as it was.
LEMMA AssignGivenUp ==
    ASSUME Inv, Delivery, assign.pc # "commit", assign' = AssignIdle,
           UNCHANGED <<storeVars, mapVars, pc, session, effect, historyVars>>
    PROVE  Delivery'
<1>1. assign'.pc = "idle"
  BY AssignRecord
<1>2. TargetsFit'
  BY <1>1 DEF Delivery, TargetsFit, mapVars
<1>3. DeliversOwn'
  BY DEF Delivery, DeliversOwn, Known, mapVars, historyVars
<1>4. Settled'
  BY <1>1 DEF Delivery, Settled, Known, storeVars, historyVars
<1>5. Assigning'
  BY <1>1 DEF Assigning
<1> QED
  BY <1>2, <1>3, <1>4, <1>5 DEF Delivery

LEMMA AssignLookupDelivery ==
    ASSUME Inv, Delivery, AssignLookup
    PROVE  Delivery'
<1> DEFINE to == downstream[assign.peer]
<1>1. assign.pc = "lookup" /\ UNCHANGED <<storeVars, mapVars, pc, session, effect, historyVars>>
  BY DEF AssignLookup
<1>2. CASE to = NoSession
  BY <1>1, <1>2, AssignGivenUp DEF AssignLookup
<1>3. CASE to # NoSession
  <2>1. assign' = [assign EXCEPT !.pc = "send", !.target = to]
    BY <1>3 DEF AssignLookup
  <2>2. PeerOf[to] = assign.peer
    BY <1>3, AssignRecord DEF Delivery, TargetsFit
  <2>3. \A s \in Sessions : PeerOf[s] = assign.peer /\ Known(s) /\ pc[s] \in Loop => to = s
    BY <1>3 DEF Delivery, DeliversOwn, Served
  <2> HIDE DEF to
  <2>4. assign'.pc = "send" /\ assign'.target = to /\ assign'.peer = assign.peer
        /\ assign'.raced = assign.raced
    BY <2>1, AssignRecord
  <2>5. TargetsFit'
    BY <1>1, <1>3, <2>2, <2>4 DEF Delivery, TargetsFit, mapVars
  <2>6. DeliversOwn'
    BY <1>1 DEF Delivery, DeliversOwn, Known, mapVars, historyVars
  <2>7. Settled'
    BY <1>1, <2>4 DEF Delivery, Settled, Known, storeVars, historyVars
  <2>8. Assigning'
    BY <1>1, <2>3, <2>4 DEF Delivery, Assigning, Known, historyVars
  <2> QED
    BY <2>5, <2>6, <2>7, <2>8 DEF Delivery
<1> QED
  BY <1>2, <1>3

LEMMA AssignSendDelivery ==
    ASSUME Inv, Delivery, AssignSend
    PROVE  Delivery'
<1> DEFINE to == assign.target
           v == <<version, version>>
<1>1. /\ assign.pc = "send"
      /\ UNCHANGED <<storeVars, mapVars, pc, effect, version, unsettled, everRemoved>>
  BY DEF AssignSend
<1>2. to \in Sessions /\ PeerOf[to] = assign.peer
  BY <1>1, AssignRecord DEF Delivery, TargetsFit, MaybeSession
<1>3. CASE assign' = AssignIdle /\ UNCHANGED <<session, lastCfg>>
  BY <1>1, <1>3, AssignGivenUp DEF historyVars
<1>4. CASE /\ session' = Pushed(to, "apply") /\ lastCfg' = [lastCfg EXCEPT ![to] = v]
           /\ assign' = [assign EXCEPT !.pc = "commit"]
  <2>1. \A t \in Sessions : /\ session'[t].target = session[t].target
                            /\ session'[t].seen = session[t].seen
    <3> HIDE DEF to
    <3> QED
      BY <1>2, <1>4, PushKeeps
  <2>2. assign'.pc = "commit" /\ assign'.target = to /\ assign'.peer = assign.peer
        /\ assign'.raced = assign.raced
    BY <1>4, AssignRecord
  <2>3. lastCfg'[to] = v /\ \A t \in Sessions \ {to} : lastCfg'[t] = lastCfg[t]
    <3> HIDE DEF to, v
    <3> QED
      BY <1>2, <1>4 DEF Inv, TypeOK
  <2>4. TargetsFit'
    BY <1>1, <1>2, <2>1, <2>2 DEF Delivery, TargetsFit, mapVars
  <2>5. DeliversOwn'
    BY <1>1, <2>1 DEF Delivery, DeliversOwn, Known, mapVars
  <2>6. Settled'
    BY <1>1, <2>1, <2>2, <2>3 DEF Delivery, Settled, Known, storeVars
  <2>7. Assigning'
    BY <1>1, <2>2, <2>3 DEF Delivery, Assigning, Known
  <2> QED
    BY <2>4, <2>5, <2>6, <2>7 DEF Delivery
<1> QED
  BY <1>3, <1>4 DEF AssignSend

\* What is stored is what the stream got, if the stream is not overtaken.
LEMMA AssignCommitDelivery ==
    ASSUME Inv, Delivery, AssignCommit
    PROVE  Delivery'
<1>1. /\ assign.pc = "commit" /\ assign'.pc = "idle"
      /\ cfg' = [cfg EXCEPT ![assign.peer] = version]
      /\ unsettled' = (unsettled \ {assign.target}) \cup assign.raced
      /\ UNCHANGED <<mapVars, pc, session, effect, version, lastCfg, everRemoved>>
  BY AssignRecord DEF AssignCommit
<1>2. PeerOf[assign.target] = assign.peer
  BY <1>1 DEF Delivery, TargetsFit
<1>3. cfg'[assign.peer] = version /\ \A p \in Peers \ {assign.peer} : cfg'[p] = cfg[p]
  BY <1>1, AssignRecord DEF Inv, TypeOK
<1>4. TargetsFit'
  BY <1>1 DEF Delivery, TargetsFit, mapVars
<1>5. DeliversOwn'
  BY <1>1 DEF Delivery, DeliversOwn, Known, mapVars
<1>6. Settled'
  <2>1. SUFFICES ASSUME NEW s \in Sessions \ unsettled', Known(s)
                 PROVE  /\ pc[s] = "readNew" => session[s].seen[1] = cfg'[PeerOf[s]]
                        /\ pc[s] \in {"lookup", "send"} =>
                               session[s].seen = <<cfg'[PeerOf[s]], cfg'[PeerOf[s]]>>
                        /\ pc[s] \in Loop => lastCfg[s] = <<cfg'[PeerOf[s]], cfg'[PeerOf[s]]>>
    BY <1>1 DEF Settled, Known
  <2>2. s \notin assign.raced
    BY <1>1, <2>1
  <2>3. CASE PeerOf[s] # assign.peer
    <3>1. s # assign.target /\ s \notin unsettled /\ cfg'[PeerOf[s]] = cfg[PeerOf[s]]
      BY <1>1, <1>2, <1>3, <2>1, <2>3
    <3> QED
      BY <2>1, <3>1 DEF Delivery, Settled
  <2>4. CASE PeerOf[s] = assign.peer
    <3>1. pc[s] \notin Reading /\ (pc[s] \in Loop => lastCfg[s] = <<version, version>>)
      BY <1>1, <2>1, <2>2, <2>4 DEF Delivery, Assigning
    <3> QED
      BY <1>3, <2>4, <3>1 DEF Reading
  <2> QED
    BY <2>3, <2>4
<1>7. Assigning'
  BY <1>1 DEF Assigning
<1> QED
  BY <1>4, <1>5, <1>6, <1>7 DEF Delivery

LEMMA AssignRollbackDelivery ==
    ASSUME Inv, Delivery, AssignRollback
    PROVE  Delivery'
<1>1. /\ assign'.pc = "idle" /\ unsettled' = unsettled \cup {assign.target}
      /\ UNCHANGED <<storeVars, mapVars, pc, session, effect, version, lastCfg, everRemoved>>
  BY AssignRecord DEF AssignRollback
<1>2. TargetsFit'
  BY <1>1 DEF Delivery, TargetsFit, mapVars
<1>3. DeliversOwn'
  BY <1>1 DEF Delivery, DeliversOwn, Known, mapVars
<1>4. Settled'
  BY <1>1 DEF Delivery, Settled, Known, storeVars
<1>5. Assigning'
  BY <1>1 DEF Assigning
<1> QED
  BY <1>2, <1>3, <1>4, <1>5 DEF Delivery

\* A restart ends every call, so that nothing is read, served or assigned.
LEMMA NoCallDelivery ==
    ASSUME \A s \in Sessions : pc[s] \in {"idle", "ended"},
           \A p \in Peers : downstream[p] = NoSession,
           effect.pc = "receive", assign.pc = "idle"
    PROVE  Delivery
<1>1. TargetsFit
  BY DEF TargetsFit
<1>2. DeliversOwn
  BY DEF DeliversOwn, Served, Reading, Loop
<1>3. Settled
  BY DEF Settled, Loop
<1>4. Assigning
  BY DEF Assigning
<1> QED
  BY <1>1, <1>2, <1>3, <1>4 DEF Delivery

LEMMA InitDelivery == Init => Delivery
<1> SUFFICES ASSUME Init PROVE Delivery
  OBVIOUS
<1>1. /\ \A s \in Sessions : pc[s] \in {"idle", "ended"}
      /\ \A p \in Peers : downstream[p] = NoSession
      /\ effect.pc = "receive" /\ assign.pc = "idle"
  BY DEF Init, EffectIdle, AssignIdle
<1> QED
  BY <1>1, NoCallDelivery

LEMMA RestartDelivery ==
    ASSUME Restart
    PROVE  Delivery'
<1>1. /\ \A s \in Sessions : pc'[s] \in {"idle", "ended"}
      /\ \A p \in Peers : downstream'[p] = NoSession
      /\ effect'.pc = "receive" /\ assign'.pc = "idle"
  BY DEF Restart, EffectIdle, AssignIdle
<1>2. TargetsFit'
  BY <1>1 DEF TargetsFit
<1>3. DeliversOwn'
  BY <1>1 DEF DeliversOwn, Served, Reading, Loop
<1>4. Settled'
  BY <1>1 DEF Settled, Loop
<1>5. Assigning'
  BY <1>1 DEF Assigning
<1> QED
  BY <1>2, <1>3, <1>4, <1>5 DEF Delivery

LEMMA DeliveryStep == Inv /\ Delivery /\ [Next]_vars => Delivery'
<1> SUFFICES ASSUME Inv, Delivery, [Next]_vars PROVE Delivery'
  OBVIOUS
<1>1. CASE UNCHANGED vars
  <2>1. UNCHANGED <<cfg, downstream, pc, session, effect, assign, version, lastCfg, unsettled,
                    everRemoved>>
    BY <1>1 DEF vars, storeVars, mapVars, historyVars
  <2>2. effect.pc \in {"notice", "mark"} =>
            effect.target # NoSession /\ PeerOf[effect.target] = effect.peer
    BY DEF Delivery, TargetsFit
  <2> QED
    BY <2>1, <2>2, StillUnaffected
<1>2. CASE \E s \in Sessions : Open(s) \/ CancelOpen(s) \/ StreamTask(s) \/ Client(s)
  BY <1>2, OpenDelivery, StreamDelivery
<1>3. CASE \E p \in Peers : StorePeerDescriptor(p) \/ DeletePeerDescriptor(p) \/ AssignBegin(p)
  BY <1>3, DescriptorDelivery, AssignBeginDelivery
<1>4. CASE AssignStep
  BY <1>4, AssignLookupDelivery, AssignSendDelivery, AssignCommitDelivery, AssignRollbackDelivery
     DEF AssignStep
<1> QED
  BY <1>1, <1>2, <1>3, <1>4, EffectDelivery, RestartDelivery DEF Next

\* A peer whose descriptor was never removed and that is in the loop of its
\* call was last sent exactly the configuration that is stored for it, unless
\* an assignment raced with the call's reads or is about to store its own.
THEOREM ConfigurationsDelivered == Spec => []StoredConfigurationReachedStream
<1>1. Delivery => StoredConfigurationReachedStream
  <2> SUFFICES ASSUME Delivery, NEW s \in Sessions \ unsettled,
                      PeerOf[s] \notin everRemoved, pc[s] \in Loop, assign.pc # "commit"
               PROVE  lastCfg[s] = <<cfg[PeerOf[s]], cfg[PeerOf[s]]>>
    BY DEF StoredConfigurationReachedStream
  <2> QED
    BY DEF Delivery, Settled, Known
<1> QED
  BY <1>1, InvInit, InvStep, InitDelivery, DeliveryStep, PTL DEF Spec

----------------------------------------------------------------------------
(* The broker implements PeerLinks.  Two facts more are needed: a call that *)
(* has yet to answer still has its response stream, and it has no entry     *)
(* before it registers one.                                                 *)

Young        == {"idle"} \cup Opening
Unregistered == {"idle", "rejected", "update", "register"}

StreamsOpen == \A s \in Sessions : pc[s] \in Young => ~ Gone(s)

EntriesRegistered ==
    \A p \in Peers \ everRemoved :
        downstream[p] # NoSession => pc[downstream[p]] \notin Unregistered

LinkInv == StreamsOpen /\ EntriesRegistered

\* What a step of call s leaves alone, and what it can do to its own stream.
OwnStep(s) ==
    /\ everRemoved' = everRemoved
    /\ \A t \in Sessions \ {s} : pc'[t] = pc[t] /\ Gone(t)' = Gone(t)
    /\ \A q \in Peers \ {PeerOf[s]} : connState'[q] = connState[q] /\ downstream'[q] = downstream[q]
    /\ pc'[s] \in Young => pc[s] \in Young /\ Gone(s)' = Gone(s)
    /\ pc'[s] \in Unregistered => pc[s] \in {"idle", "update"}
    /\ Gone(s) => Gone(s)'

\* Whether a receiver is gone, in the sessions that the actions build.
LEMMA DroppedGone ==
    ASSUME TypeOK, NEW s \in Sessions
    PROVE  /\ HandlesDropped(s)[s].rxDropped
           /\ \A t \in Sessions \ {s} : HandlesDropped(s)[t].rxDropped = session[t].rxDropped
  BY DEF HandlesDropped, TypeOK, Session

LEMMA PushedGone ==
    ASSUME TypeOK, NEW to, NEW message
    PROVE  \A t \in Sessions : Pushed(to, message)[t].rxDropped = session[t].rxDropped
<1> DEFINE q == Append(session[to].outbound, message)
<1>1. Pushed(to, message) = [session EXCEPT ![to].outbound = q]
  BY DEF Pushed
<1> HIDE DEF q
<1> QED
  BY <1>1 DEF TypeOK, Session

LEMMA SentGone ==
    ASSUME TypeOK, NEW s \in Sessions, NEW to \in MaybeSession, Room(to)
    PROVE  LET f == [Pushed(to, "apply") EXCEPT ![s].target = NoSession, ![s].seen = <<0, 0>>]
           IN  \A t \in Sessions : f[t].rxDropped = session[t].rxDropped
<1> DEFINE g == Pushed(to, "apply")
           v == <<0, 0>>
<1>1. g \in [Sessions -> Session]
  BY PushedOK DEF SessionsOK, Message
<1>2. \A t \in Sessions : g[t].rxDropped = session[t].rxDropped
  BY PushedGone
<1> HIDE DEF g, v
<1>3. \A t \in Sessions :
         [g EXCEPT ![s].target = NoSession, ![s].seen = v][t].rxDropped = g[t].rxDropped
  BY <1>1 DEF Session
<1> QED
  BY <1>2, <1>3 DEF g, v

LEMMA OpenShape ==
    ASSUME TypeOK, NEW s \in Sessions, Open(s) \/ CancelOpen(s)
    PROVE  OwnStep(s)
<1> USE DEF Young, Unregistered, Opening, Gone
<1>0. /\ pc \in [Sessions -> PC] /\ session \in [Sessions -> Session]
      /\ connState \in [Peers -> ConnStates] /\ downstream \in [Peers -> MaybeSession]
  BY DEF TypeOK
<1>1. CASE ExpectKnownPeerDescriptor(s)
  BY <1>0, <1>1, DroppedGone
     DEF ExpectKnownPeerDescriptor, OwnStep, Goto, storeVars, mapVars, historyVars
<1>2. CASE RejectConnected(s)
  BY <1>0, <1>2, DroppedGone DEF RejectConnected, OwnStep, Goto, storeVars, mapVars, historyVars
<1>3. CASE UpdatePeerConnectionState(s)
  BY <1>0, <1>3 DEF UpdatePeerConnectionState, OwnStep, Goto, mapVars, historyVars
<1>4. CASE RegisterPeer(s)
  BY <1>0, <1>4 DEF RegisterPeer, OwnStep, Goto, storeVars, historyVars
<1>5. CASE ReadOldPeerConfiguration(s)
  <2>1. \A t \in Sessions : Gone(t)' = Gone(t)
    BY <1>0, <1>5 DEF ReadOldPeerConfiguration, Session
  <2> QED
    BY <1>0, <1>5, <2>1
       DEF ReadOldPeerConfiguration, OwnStep, Goto, storeVars, mapVars, historyVars
<1>6. CASE ReadPeerConfiguration(s)
  <2>1. \A t \in Sessions : Gone(t)' = Gone(t)
    BY <1>0, <1>6 DEF ReadPeerConfiguration, Session
  <2> QED
    BY <1>0, <1>6, <2>1
       DEF ReadPeerConfiguration, OwnStep, Goto, storeVars, mapVars, historyVars
<1>7. CASE LookupDownstream(s)
  <2>1. CASE session' = HandlesDropped(s) /\ Goto(s, "leaked")
    BY <1>0, <1>7, <2>1, DroppedGone
       DEF LookupDownstream, OwnStep, Goto, storeVars, mapVars, historyVars
  <2>2. CASE session' = [session EXCEPT ![s].target = downstream[PeerOf[s]]] /\ Goto(s, "send")
    <3>1. \A t \in Sessions : Gone(t)' = Gone(t)
      BY <1>0, <2>2 DEF Session
    <3> QED
      BY <1>0, <1>7, <2>2, <3>1
         DEF LookupDownstream, OwnStep, Goto, storeVars, mapVars, historyVars
  <2> QED
    BY <1>7, <2>1, <2>2 DEF LookupDownstream
<1>8. CASE SendInitialPeerConfiguration(s)
  <2>1. \/ session' = HandlesDropped(s) /\ Goto(s, "leaked")
        \/ (\A t \in Sessions : Gone(t)' = Gone(t)) /\ Goto(s, "recv")
    <3> DEFINE to == session[s].target
               f == [Pushed(to, "apply") EXCEPT ![s].target = NoSession, ![s].seen = <<0, 0>>]
    <3>1. to \in MaybeSession
      BY RecordFact
    <3>2. Room(to) => \A t \in Sessions : f[t].rxDropped = session[t].rxDropped
      BY <3>1, SentGone
    <3>3. \/ session' = HandlesDropped(s) /\ Goto(s, "leaked")
          \/ Room(to) /\ session' = f /\ Goto(s, "recv")
      BY <1>8 DEF SendInitialPeerConfiguration
    <3> HIDE DEF f
    <3> QED
      BY <3>2, <3>3
  <2> QED
    BY <1>0, <1>8, <2>1, DroppedGone
       DEF SendInitialPeerConfiguration, OwnStep, Goto, storeVars, mapVars
<1>9. CASE CancelOpen(s)
  BY <1>0, <1>9, DroppedGone DEF CancelOpen, OwnStep, Goto, storeVars, mapVars, historyVars
<1> QED
  BY <1>1, <1>2, <1>3, <1>4, <1>5, <1>6, <1>7, <1>8, <1>9 DEF Open

LEMMA StreamShape ==
    ASSUME TypeOK, NEW s \in Sessions, StreamTask(s) \/ Client(s)
    PROVE  OwnStep(s)
<1>0. /\ pc \in [Sessions -> PC] /\ session \in [Sessions -> Session]
      /\ connState \in [Peers -> ConnStates] /\ downstream \in [Peers -> MaybeSession]
  BY DEF TypeOK
<1>1. everRemoved' = everRemoved
  BY DEF StreamTask, Client, ReceiveMessage, HandleStreamMessage, ReceiveNone, ReceiveTimeout,
     CheckDisconnected, ChannelCloseGraceTime, GetConnectionState, GetPeerDescriptor, CleanUpFails,
     StoreConnectionState, UnregisterPeer, ClientPing, ClientReceive, DropInbound, DropOutbound,
     historyVars
<1>2. \A q \in Peers \ {PeerOf[s]} : connState'[q] = connState[q] /\ downstream'[q] = downstream[q]
  BY <1>0
     DEF StreamTask, Client, ReceiveMessage, HandleStreamMessage, ReceiveNone, ReceiveTimeout,
     CheckDisconnected, ChannelCloseGraceTime, GetConnectionState, GetPeerDescriptor, CleanUpFails,
     StoreConnectionState, UnregisterPeer, ClientPing, ClientReceive, DropInbound, DropOutbound,
     storeVars, mapVars
<1>3. /\ \A t \in Sessions \ {s} : pc'[t] = pc[t]
      /\ pc'[s] \notin Young \cup Unregistered
  <2>1. CASE Client(s)
    BY <2>1 DEF Client, ClientPing, ClientReceive, DropInbound, DropOutbound, Answered, Loop,
       Closing, Young, Opening, Unregistered
  <2>2. CASE StreamTask(s)
    <3>1. PICK label \in Loop \cup Closing \cup {"unregister", "ended", "abandoned"} : Goto(s, label)
      BY <2>2 DEF StreamTask, ReceiveMessage, HandleStreamMessage, ReceiveNone, ReceiveTimeout,
         CheckDisconnected, ChannelCloseGraceTime, GetConnectionState, GetPeerDescriptor, CleanUpFails,
         StoreConnectionState, UnregisterPeer, EndTask, Loop, Closing
    <3> QED
      BY <1>0, <3>1 DEF Goto, Loop, Closing, Young, Opening, Unregistered
  <2> QED
    BY <2>1, <2>2
<1>4. \A t \in Sessions \ {s} : session'[t] = session[t]
  BY <1>0
     DEF StreamTask, Client, ReceiveMessage, HandleStreamMessage, ReceiveNone, ReceiveTimeout,
     CheckDisconnected, ChannelCloseGraceTime, GetConnectionState, GetPeerDescriptor, CleanUpFails, EndTask,
     StoreConnectionState, UnregisterPeer, ClientPing, ClientReceive, DropInbound, DropOutbound,
     Pushed, HandlesDropped
<1>5. Gone(s) => Gone(s)'
  <2> SUFFICES ASSUME Gone(s) PROVE Gone(s)'
    OBVIOUS
  <2> USE DEF Gone, Session
  <2>1. CASE ClientPing(s)
    <3>1. CASE session' = [session EXCEPT ![s].mayPing = FALSE, ![s].txDropped = TRUE]
      BY <1>0, <3>1
    <3>2. CASE session' = [session EXCEPT ![s].mayPing = FALSE, ![s].inbound = @ + 1]
      BY <1>0, <3>2
    <3> QED
      BY <2>1, <3>1, <3>2 DEF ClientPing
  <2>2. CASE DropInbound(s)
    BY <1>0, <2>2 DEF DropInbound
  <2>3. CASE HandleStreamMessage(s)
    BY <2>3 DEF HandleStreamMessage
  <2>4. CASE ReceiveMessage(s)
    BY <1>0, <2>4 DEF ReceiveMessage
  <2>5. CASE ReceiveTimeout(s)
    BY <1>0, <2>5 DEF ReceiveTimeout
  <2>6. CASE CheckDisconnected(s)
    BY <1>0, <2>6 DEF CheckDisconnected
  <2>7. CASE EndTask(s)
    BY <1>0, <2>7 DEF EndTask
  <2>8. CASE session' = session
    BY <2>8
  <2>9. CASE CleanUpFails(s)
    BY <1>0, <2>9 DEF CleanUpFails
  <2> QED
    BY <2>1, <2>2, <2>3, <2>4, <2>5, <2>6, <2>7, <2>8, <2>9
       DEF StreamTask, Client, ReceiveNone, ChannelCloseGraceTime, GetConnectionState,
       GetPeerDescriptor, CleanUpFails, StoreConnectionState, UnregisterPeer, ClientReceive, DropOutbound
<1> QED
  BY <1>1, <1>2, <1>3, <1>4, <1>5 DEF OwnStep, Gone

LEMMA LinkInvInit == Init => LinkInv
<1> SUFFICES ASSUME Init PROVE LinkInv
  OBVIOUS
<1>1. \A s \in Sessions : ~ Gone(s)
  BY DEF Init, NewSession, Gone
<1>2. \A p \in Peers : downstream[p] = NoSession
  BY DEF Init
<1> QED
  BY <1>1, <1>2 DEF LinkInv, StreamsOpen, EntriesRegistered

\* A step that opens no stream and puts no entry into the map.
LEMMA QuietLinks ==
    ASSUME LinkInv, pc' = pc, everRemoved \subseteq everRemoved',
           \A s \in Sessions : pc[s] \in Young => Gone(s)' = Gone(s),
           \A p \in Peers \ everRemoved : downstream'[p] = downstream[p]
    PROVE  LinkInv'
  BY DEF LinkInv, StreamsOpen, EntriesRegistered

LEMMA OwnStepLinkInv ==
    ASSUME Inv, Delivery, LinkInv, NEW s \in Sessions, OwnStep(s),
           RegisterPeer(s) \/ downstream'[PeerOf[s]] \in {downstream[PeerOf[s]], NoSession}
    PROVE  LinkInv'
<1>1. StreamsOpen'
  BY DEF LinkInv, StreamsOpen, OwnStep
<1>2. EntriesRegistered'
  <2> SUFFICES ASSUME NEW q \in Peers \ everRemoved, downstream'[q] # NoSession
               PROVE  pc'[downstream'[q]] \notin Unregistered
    BY DEF EntriesRegistered, OwnStep
  <2>1. CASE RegisterPeer(s) /\ q = PeerOf[s]
    <3>1. downstream'[q] = s /\ pc'[s] = "readOld"
      BY <2>1 DEF RegisterPeer, Goto, Inv, TypeOK
    <3> QED
      BY <3>1 DEF Unregistered
  <2>2. CASE ~ (RegisterPeer(s) /\ q = PeerOf[s])
    <3>1. downstream'[q] = downstream[q]
      BY <2>2 DEF OwnStep
    <3>2. downstream[q] \in Sessions /\ pc[downstream[q]] \notin Unregistered
      BY <3>1 DEF Inv, TypeOK, MaybeSession, LinkInv, EntriesRegistered
    <3> QED
      BY <3>1, <3>2 DEF OwnStep, Unregistered
  <2> QED
    BY <2>1, <2>2
<1> QED
  BY <1>1, <1>2 DEF LinkInv

\* Only UnregisterPeer and RegisterPeer touch the map, of all steps of a call.
LEMMA OwnEntry ==
    ASSUME TypeOK, NEW s \in Sessions, Open(s) \/ CancelOpen(s) \/ StreamTask(s) \/ Client(s)
    PROVE  RegisterPeer(s) \/ downstream'[PeerOf[s]] \in {downstream[PeerOf[s]], NoSession}
<1>1. CASE UnregisterPeer(s)
  BY <1>1 DEF UnregisterPeer, TypeOK
<1>2. CASE ~ UnregisterPeer(s) /\ ~ RegisterPeer(s)
  BY <1>2
     DEF Open, StreamTask, Client, CancelOpen, ExpectKnownPeerDescriptor, RejectConnected,
     UpdatePeerConnectionState, ReadOldPeerConfiguration, ReadPeerConfiguration,
     LookupDownstream, SendInitialPeerConfiguration, ReceiveMessage, HandleStreamMessage,
     ReceiveNone, ReceiveTimeout, CheckDisconnected, ChannelCloseGraceTime, GetConnectionState,
     GetPeerDescriptor, CleanUpFails, StoreConnectionState, ClientPing, ClientReceive, DropInbound,
     DropOutbound, mapVars
<1> QED
  BY <1>1, <1>2

\* The other steps: which of them touch a peer's state, entry or streams.
LEMMA EffectShape ==
    ASSUME TypeOK, RemovedKnown, Effect
    PROVE  /\ pc' = pc /\ everRemoved' = everRemoved
           /\ \A s \in Sessions : Gone(s)' = Gone(s)
           /\ \/ connState' = connState /\ downstream' = downstream
              \/ /\ effect.peer \in Peers \cap everRemoved
                 /\ \A q \in Peers \ {effect.peer} :
                       connState'[q] = connState[q] /\ downstream'[q] = downstream[q]
<1>0. /\ effect.peer \in Peers
      /\ connState \in [Peers -> ConnStates] /\ downstream \in [Peers -> MaybeSession]
  BY DEF TypeOK
<1>1. CASE EffectReceive \/ EffectGetState \/ EffectFails \/ EffectLookup
  BY <1>1 DEF EffectReceive, EffectGetState, EffectFails, EffectLookup, Gone, storeVars, mapVars, historyVars
<1>2. CASE EffectSendNotice
  BY <1>2, PushedGone DEF EffectSendNotice, Gone, storeVars, mapVars, historyVars
<1>3. CASE EffectRemoveState \/ EffectMark
  BY <1>0, <1>3
     DEF EffectRemoveState, EffectMark, RemovedKnown, Gone, storeVars, mapVars, historyVars
<1> QED
  BY <1>1, <1>2, <1>3 DEF Effect

LEMMA AssignShape ==
    ASSUME TypeOK, AssignStep \/ \E p \in Peers : AssignBegin(p)
    PROVE  /\ UNCHANGED <<pc, everRemoved, connState, downstream>>
           /\ \A s \in Sessions : Gone(s)' = Gone(s)
<1>1. CASE AssignSend
  BY <1>1, PushedGone DEF AssignSend, Gone, storeVars, mapVars
<1>2. CASE ~ AssignSend
  BY <1>2 DEF AssignStep, AssignBegin, AssignLookup, AssignCommit, AssignRollback, Gone,
     storeVars, mapVars, historyVars
<1> QED
  BY <1>1, <1>2

LEMMA DescriptorShape ==
    ASSUME NEW p \in Peers, StorePeerDescriptor(p) \/ DeletePeerDescriptor(p)
    PROVE  /\ UNCHANGED <<pc, session, connState, downstream>>
           /\ everRemoved' \in {everRemoved, everRemoved \cup {p}}
  BY DEF StorePeerDescriptor, DeletePeerDescriptor, mapVars, historyVars

LEMMA RestartShape ==
    ASSUME Restart
    PROVE  /\ everRemoved' = everRemoved
           /\ \A s \in Sessions : pc'[s] \in {"idle", "ended"} /\ (pc'[s] = "idle" => ~ Gone(s)')
           /\ \A p \in Peers : connState'[p] = "None" /\ downstream'[p] = NoSession
  BY DEF Restart, NewSession, Gone, historyVars

LEMMA LinkInvStep == Inv /\ Delivery /\ LinkInv /\ [Next]_vars => LinkInv'
<1> SUFFICES ASSUME Inv, Delivery, LinkInv, [Next]_vars PROVE LinkInv'
  OBVIOUS
<1>0. TypeOK /\ RemovedKnown
  BY DEF Inv
<1>1. CASE UNCHANGED vars
  BY <1>1, QuietLinks DEF vars, mapVars, historyVars, Gone
<1>2. CASE \E s \in Sessions : Open(s) \/ CancelOpen(s) \/ StreamTask(s) \/ Client(s)
  BY <1>0, <1>2, OpenShape, StreamShape, OwnEntry, OwnStepLinkInv
<1>3. CASE \E p \in Peers : StorePeerDescriptor(p) \/ DeletePeerDescriptor(p)
  BY <1>3, DescriptorShape, QuietLinks DEF Gone
<1>4. CASE AssignStep \/ \E p \in Peers : AssignBegin(p)
  BY <1>0, <1>4, AssignShape, QuietLinks
<1>5. CASE Effect
  BY <1>0, <1>5, EffectShape, QuietLinks
<1>6. CASE Restart
  BY <1>6, RestartShape DEF LinkInv, StreamsOpen, EntriesRegistered, Young, Opening
<1> QED
  BY <1>1, <1>2, <1>3, <1>4, <1>5, <1>6 DEF Next

\* Which steps of the broker are which steps of a link.
Registering(p) == \E s \in Sessions : PeerOf[s] = p /\ pc[s] = "register"

LEMMA LinkFacts ==
    ASSUME Inv, NEW s \in Sessions, Known(s), Owns(pc[s])
    PROVE  /\ connState[PeerOf[s]] = "Online"
           /\ \A t \in Sessions : PeerOf[t] = PeerOf[s] /\ Owns(pc[t]) => t = s
<1>1. PeerOf[s] \in Peers /\ OwnedBy(s, PeerOf[s])
  BY DEF OwnedBy, Owns
<1> QED
  BY <1>1 DEF Inv, OnlineIffOwned, ExclusiveSession, OwnedBy, Owns, Known

\* The link of a peer follows from its state, its entry and its sessions alone.
LEMMA OtherLinks ==
    ASSUME Inv, Delivery, NEW s \in Sessions, OwnStep(s)
    PROVE  \A q \in Peers \ {PeerOf[s]} :
              OnlineOf(q)' = OnlineOf(q) /\ (q \in Reachable' <=> q \in Reachable)
<1> SUFFICES ASSUME NEW q \in Peers, q # PeerOf[s]
             PROVE  OnlineOf(q)' = OnlineOf(q) /\ (q \in Reachable' <=> q \in Reachable)
  OBVIOUS
<1>1. connState'[q] = connState[q] /\ downstream'[q] = downstream[q]
  BY DEF OwnStep
<1>2. Registering(q)' <=> Registering(q)
  BY DEF OwnStep, Registering
<1>3. downstream[q] # NoSession => downstream[q] \in Sessions /\ downstream[q] # s
  BY DEF Inv, TypeOK, MaybeSession, Delivery, TargetsFit
<1> QED
  BY <1>1, <1>2, <1>3 DEF OnlineOf, Registering, Reachable, OwnStep

\* An entry whose session moves may lose its stream and is not given a new one.
LEMMA OwnReachable ==
    ASSUME Inv, Delivery, NEW s \in Sessions, OwnStep(s),
           downstream'[PeerOf[s]] \in {downstream[PeerOf[s]], NoSession}
    PROVE  Reachable' \in {Reachable, Reachable \ {PeerOf[s]}}
<1> DEFINE p == PeerOf[s]
<1>1. \A q \in Peers \ {p} : q \in Reachable' <=> q \in Reachable
  BY OtherLinks
<1>2. p \in Reachable' => p \in Reachable
  <2>1. SUFFICES ASSUME p \in Reachable' PROVE p \in Reachable
    OBVIOUS
  <2>2. downstream'[p] # NoSession /\ ~ session'[downstream'[p]].rxDropped /\ p \in Peers
    BY <2>1 DEF Reachable, Gone
  <2>3. downstream[p] = downstream'[p] /\ downstream[p] \in Sessions
    BY <2>2 DEF Inv, TypeOK, MaybeSession
  <2>4. ~ Gone(downstream[p])
    BY <2>2, <2>3 DEF OwnStep, Gone
  <2> QED
    BY <2>2, <2>3, <2>4 DEF Reachable
<1>3. Reachable \subseteq Peers /\ Reachable' \subseteq Peers
  BY DEF Reachable
<1> QED
  BY <1>1, <1>2, <1>3

LEMMA OnlineOK == \A p : OnlineOf(p) \in Links!Online
  BY DEF OnlineOf, Links!Online

OnlineMap == [p \in Peers |-> OnlineOf(p)]

LEMMA OnlineAfter ==
    ASSUME NEW p \in Peers, \A q \in Peers \ {p} : OnlineOf(q)' = OnlineOf(q)
    PROVE  OnlineMap' = [OnlineMap EXCEPT ![p] = OnlineOf(p)']
  BY DEF OnlineMap

LEMMA DisturbImplements ==
    ASSUME NEW p \in Peers \cap everRemoved, everRemoved' = everRemoved,
           \A q \in Peers \ {p} :
              OnlineOf(q)' = OnlineOf(q) /\ (q \in Reachable' <=> q \in Reachable)
    PROVE  Links!Disturb(p)
<1>1. OnlineMap' \in [Peers -> Links!Online] /\ Reachable' \subseteq Peers
  <2>1. \A q : OnlineOf(q)' \in Links!Online
    BY DEF OnlineOf, Links!Online
  <2> QED
    BY <2>1 DEF OnlineMap, Reachable
<1>2. \A q \in Peers \ {p} : OnlineMap'[q] = OnlineMap[q]
  BY DEF OnlineMap
<1> QED
  BY <1>1, <1>2 DEF Links!Disturb, OnlineMap

\* Online is stored: nobody was about to register, because nobody was Online.
LEMMA GoOnlineImplements ==
    ASSUME Inv, Delivery, NEW s \in Sessions, UpdatePeerConnectionState(s), OwnStep(s)
    PROVE  Links!GoOnline(PeerOf[s])
<1> DEFINE p == PeerOf[s]
<1>1. p \in Peers /\ connState[p] # "Online" /\ connState'[p] = "Online" /\ pc'[s] = "register"
      /\ UNCHANGED <<downstream, session, everRemoved>>
  BY DEF UpdatePeerConnectionState, Goto, Inv, TypeOK, mapVars, historyVars
<1>2. OnlineOf(p) = "no" /\ OnlineOf(p)' = "opening"
  BY <1>1 DEF OnlineOf
<1>3. OnlineMap[p] = "no" /\ OnlineMap' = [OnlineMap EXCEPT ![p] = "opening"]
  BY <1>1, <1>2, OtherLinks, OnlineAfter DEF OnlineMap
<1>4. Reachable' = Reachable
  BY <1>1 DEF Reachable, Gone
<1> QED
  BY <1>1, <1>3, <1>4 DEF Links!GoOnline, OnlineMap

LEMMA RegisterImplements ==
    ASSUME Inv, Delivery, LinkInv, NEW s \in Sessions, RegisterPeer(s), OwnStep(s), Known(s)
    PROVE  Links!Register(PeerOf[s])
<1> DEFINE p == PeerOf[s]
<1>1. p \in Peers /\ pc[s] = "register" /\ pc'[s] = "readOld" /\ downstream'[p] = s
      /\ UNCHANGED <<connState, session, everRemoved>>
  BY DEF RegisterPeer, Goto, Inv, TypeOK, storeVars, historyVars
<1>2. connState[p] = "Online" /\ \A t \in Sessions : PeerOf[t] = p /\ Owns(pc[t]) => t = s
  BY <1>1, LinkFacts DEF Owns, Owning, Opening
<1>3. OnlineOf(p) = "opening"
  BY <1>1, <1>2 DEF OnlineOf
<1>4. ~ Registering(p)'
  BY <1>1, <1>2 DEF Registering, OwnStep, Owns, Owning, Opening
<1>5. OnlineOf(p)' = "yes"
  BY <1>1, <1>2, <1>4 DEF OnlineOf, Registering
<1>6. OnlineMap[p] = "opening" /\ OnlineMap' = [OnlineMap EXCEPT ![p] = "yes"]
  BY <1>1, <1>3, <1>5, OtherLinks, OnlineAfter DEF OnlineMap
<1>7. ~ Gone(s) /\ s # NoSession
  BY <1>1 DEF LinkInv, StreamsOpen, Young, Opening
<1>8. p \in Reachable'
  BY <1>1, <1>7 DEF Reachable, Gone
<1>9. Reachable' = Reachable \cup {p}
  BY <1>1, <1>8, OtherLinks DEF Reachable
<1> QED
  BY <1>1, <1>6, <1>9 DEF Links!Register, OnlineMap

\* A call that is cancelled before it registers has no entry to take with it.
LEMMA AbandonImplements ==
    ASSUME Inv, Delivery, LinkInv, NEW s \in Sessions, CancelOpen(s), OwnStep(s), Known(s),
           pc[s] = "register"
    PROVE  Links!Abandon(PeerOf[s])
<1> DEFINE p == PeerOf[s]
<1>1. p \in Peers /\ pc'[s] = "cancelled" /\ UNCHANGED <<connState, downstream, everRemoved>>
  BY DEF CancelOpen, Goto, Inv, TypeOK, storeVars, mapVars, historyVars
<1>2. connState[p] = "Online" /\ \A t \in Sessions : PeerOf[t] = p /\ Owns(pc[t]) => t = s
  BY <1>1, LinkFacts DEF Owns, Owning, Opening
<1>3. OnlineOf(p) = "opening"
  BY <1>1, <1>2 DEF OnlineOf
<1>4. ~ Registering(p)'
  BY <1>1, <1>2 DEF Registering, OwnStep, Owns, Owning, Opening
<1>5. OnlineOf(p)' = "yes"
  BY <1>1, <1>2, <1>4 DEF OnlineOf, Registering
<1>6. OnlineMap[p] = "opening" /\ OnlineMap' = [OnlineMap EXCEPT ![p] = "yes"]
  BY <1>1, <1>3, <1>5, OtherLinks, OnlineAfter DEF OnlineMap
<1>7. downstream[p] # s
  BY <1>1 DEF LinkInv, EntriesRegistered, Known, Unregistered
<1>8. p \in Reachable' <=> p \in Reachable
  BY <1>1, <1>7 DEF Reachable, OwnStep, Inv, TypeOK, MaybeSession
<1>9. Reachable' = Reachable
  BY <1>8, OtherLinks DEF Reachable
<1> QED
  BY <1>1, <1>6, <1>9 DEF Links!Abandon, OnlineMap

\* Online is taken back by its only owner, which registered long ago.
LEMMA GoOfflineImplements ==
    ASSUME Inv, Delivery, NEW s \in Sessions, StoreConnectionState(s), OwnStep(s), Known(s)
    PROVE  Links!GoOffline(PeerOf[s])
<1> DEFINE p == PeerOf[s]
<1>1. p \in Peers /\ pc[s] \in {"deleteState", "setOffline"} /\ connState'[p] # "Online"
      /\ UNCHANGED <<downstream, session, everRemoved>>
  BY DEF StoreConnectionState, Goto, Inv, TypeOK, mapVars, historyVars
<1>2. connState[p] = "Online" /\ \A t \in Sessions : PeerOf[t] = p /\ Owns(pc[t]) => t = s
  BY <1>1, LinkFacts DEF Owns, Owning, Closing
<1>3. ~ Registering(p)
  BY <1>1, <1>2 DEF Registering, Owns, Owning, Opening
<1>4. OnlineOf(p) = "yes" /\ OnlineOf(p)' = "no"
  BY <1>1, <1>2, <1>3 DEF OnlineOf, Registering
<1>5. OnlineMap[p] = "yes" /\ OnlineMap' = [OnlineMap EXCEPT ![p] = "no"]
  BY <1>1, <1>4, OtherLinks, OnlineAfter DEF OnlineMap
<1>6. Reachable' = Reachable
  BY <1>1 DEF Reachable, Gone
<1> QED
  BY <1>1, <1>5, <1>6 DEF Links!GoOffline, OnlineMap

\* Every other step of a call takes nothing but an entry or a stream away.
LEMMA LoseImplements ==
    ASSUME Inv, Delivery, NEW s \in Sessions, OwnStep(s),
           connState' = connState, pc[s] # "register", pc'[s] # "register",
           downstream'[PeerOf[s]] \in {downstream[PeerOf[s]], NoSession}
    PROVE  Links!Lose(PeerOf[s]) \/ UNCHANGED Links!linkVars
<1> DEFINE p == PeerOf[s]
<1>1. p \in Peers /\ everRemoved' = everRemoved
  BY DEF OwnStep
<1>2. \A q \in Peers : Registering(q)' <=> Registering(q)
  BY DEF Registering, OwnStep
<1>3. OnlineMap' = OnlineMap
  BY <1>2 DEF OnlineMap, OnlineOf, Registering
<1>4. Reachable' = Reachable \/ (p \in Reachable /\ Reachable' = Reachable \ {p})
  BY OwnReachable
<1> QED
  BY <1>1, <1>3, <1>4 DEF Links!Lose, Links!linkVars, OnlineMap

LEMMA SessionImplements ==
    ASSUME Inv, Delivery, LinkInv, NEW s \in Sessions,
           Open(s) \/ CancelOpen(s) \/ StreamTask(s) \/ Client(s)
    PROVE  Links!LinksNext \/ UNCHANGED Links!linkVars
<1> DEFINE p == PeerOf[s]
<1>1. p \in Peers /\ TypeOK /\ OwnStep(s)
  BY OpenShape, StreamShape DEF Inv
<1>2. CASE ~ Known(s)
  <2>1. Links!Disturb(p)
    BY <1>1, <1>2, OtherLinks, DisturbImplements DEF Known, OwnStep
  <2> QED
    BY <1>1, <2>1 DEF Links!LinksNext
<1>3. CASE Known(s) /\ UpdatePeerConnectionState(s)
  BY <1>1, <1>3, GoOnlineImplements DEF Links!LinksNext
<1>4. CASE Known(s) /\ RegisterPeer(s)
  BY <1>1, <1>4, RegisterImplements DEF Links!LinksNext
<1>5. CASE Known(s) /\ CancelOpen(s) /\ pc[s] = "register"
  BY <1>1, <1>5, AbandonImplements DEF Links!LinksNext
<1>6. CASE Known(s) /\ StoreConnectionState(s)
  BY <1>1, <1>6, GoOfflineImplements DEF Links!LinksNext
<1>7. CASE /\ ~ UpdatePeerConnectionState(s) /\ ~ RegisterPeer(s) /\ ~ StoreConnectionState(s)
           /\ ~ (CancelOpen(s) /\ pc[s] = "register")
  <2>1. connState' = connState /\ pc[s] # "register" /\ pc'[s] # "register"
    <3>0. pc \in [Sessions -> PC]
      BY <1>1 DEF TypeOK
    <3>1. CASE Open(s)
      BY <1>7, <3>0, <3>1
         DEF Open, ExpectKnownPeerDescriptor, RejectConnected, ReadOldPeerConfiguration,
         ReadPeerConfiguration, LookupDownstream, SendInitialPeerConfiguration, Goto, storeVars
    <3>2. CASE CancelOpen(s)
      BY <1>7, <3>0, <3>2 DEF CancelOpen, Goto, storeVars
    <3>3. CASE StreamTask(s)
      BY <1>7, <3>0, <3>3
         DEF StreamTask, ReceiveMessage, HandleStreamMessage, ReceiveNone, ReceiveTimeout,
         CheckDisconnected, ChannelCloseGraceTime, GetConnectionState, GetPeerDescriptor, CleanUpFails,
         UnregisterPeer, EndTask, Goto, Closing, storeVars
    <3>4. CASE Client(s)
      BY <3>4 DEF Client, ClientPing, ClientReceive, DropInbound, DropOutbound, Answered, Loop,
         Closing, storeVars
    <3> QED
      BY <3>1, <3>2, <3>3, <3>4
  <2>2. downstream'[p] \in {downstream[p], NoSession}
    BY <1>1, <1>7, OwnEntry
  <2>3. Links!Lose(p) \/ UNCHANGED Links!linkVars
    BY <1>1, <2>1, <2>2, LoseImplements
  <2> QED
    BY <1>1, <2>3 DEF Links!LinksNext
<1> QED
  BY <1>2, <1>3, <1>4, <1>5, <1>6, <1>7

\* A step after which every peer has the link it had.
LEMMA SameLinks ==
    ASSUME UNCHANGED <<pc, connState, downstream>>, \A s \in Sessions : Gone(s)' = Gone(s), TypeOK
    PROVE  OnlineMap' = OnlineMap /\ Reachable' = Reachable
<1>1. OnlineMap' = OnlineMap
  BY DEF OnlineMap, OnlineOf
<1>2. \A p \in Peers : downstream[p] # NoSession => downstream[p] \in Sessions
  BY DEF TypeOK, MaybeSession
<1>3. Reachable' = Reachable
  BY <1>2 DEF Reachable, Gone
<1> QED
  BY <1>1, <1>3

LEMMA EffectImplements ==
    ASSUME Inv, Effect
    PROVE  Links!LinksNext \/ UNCHANGED Links!linkVars
<1> DEFINE p == effect.peer
<1>1. /\ pc' = pc /\ everRemoved' = everRemoved /\ TypeOK
      /\ \A s \in Sessions : Gone(s)' = Gone(s)
  BY EffectShape DEF Inv
<1>2. CASE connState' = connState /\ downstream' = downstream
  <2>1. OnlineMap' = OnlineMap /\ Reachable' = Reachable
    BY <1>1, <1>2, SameLinks
  <2> QED
    BY <1>1, <2>1 DEF Links!linkVars, OnlineMap
<1>3. CASE /\ p \in Peers \cap everRemoved
           /\ \A q \in Peers \ {p} : connState'[q] = connState[q] /\ downstream'[q] = downstream[q]
  <2>1. \A q \in Peers : downstream[q] # NoSession => downstream[q] \in Sessions
    BY <1>1 DEF TypeOK, MaybeSession
  <2>2. ASSUME NEW q \in Peers \ {p}
        PROVE  OnlineOf(q)' = OnlineOf(q) /\ (q \in Reachable' <=> q \in Reachable)
    BY <1>1, <1>3, <2>1 DEF OnlineOf, Reachable, Gone
  <2>3. Links!Disturb(p)
    BY <1>1, <1>3, <2>2, DisturbImplements
  <2> QED
    BY <1>3, <2>3 DEF Links!LinksNext
<1> QED
  BY <1>2, <1>3, EffectShape DEF Inv

LEMMA StepImplements ==
    ASSUME Inv, Delivery, LinkInv, [Next]_vars
    PROVE  Links!LinksNext \/ UNCHANGED Links!linkVars
<1>0. TypeOK
  BY DEF Inv
<1>1. CASE UNCHANGED vars
  <2>1. UNCHANGED <<pc, connState, downstream, session, everRemoved>>
    BY <1>1 DEF vars, storeVars, mapVars, historyVars
  <2>2. OnlineMap' = OnlineMap /\ Reachable' = Reachable
    BY <1>0, <2>1, SameLinks DEF Gone
  <2> QED
    BY <2>1, <2>2 DEF Links!linkVars, OnlineMap
<1>2. CASE \E s \in Sessions : Open(s) \/ CancelOpen(s) \/ StreamTask(s) \/ Client(s)
  BY <1>2, SessionImplements
<1>3. CASE \E p \in Peers : StorePeerDescriptor(p) \/ DeletePeerDescriptor(p)
  <2>1. PICK p \in Peers : /\ UNCHANGED <<pc, session, connState, downstream>>
                           /\ everRemoved' \in {everRemoved, everRemoved \cup {p}}
    BY <1>3, DescriptorShape
  <2>2. OnlineMap' = OnlineMap /\ Reachable' = Reachable
    BY <1>0, <2>1, SameLinks DEF Gone
  <2> QED
    BY <2>1, <2>2 DEF Links!linkVars, Links!LinksNext, Links!RemoveDescriptor, OnlineMap
<1>4. CASE AssignStep \/ \E p \in Peers : AssignBegin(p)
  <2>1. /\ UNCHANGED <<pc, everRemoved, connState, downstream>>
        /\ \A s \in Sessions : Gone(s)' = Gone(s)
    BY <1>0, <1>4, AssignShape
  <2>2. OnlineMap' = OnlineMap /\ Reachable' = Reachable
    BY <1>0, <2>1, SameLinks
  <2> QED
    BY <2>1, <2>2 DEF Links!linkVars, OnlineMap
<1>5. CASE Effect
  BY <1>5, EffectImplements
<1>6. CASE Restart
  <2>1. /\ everRemoved' = everRemoved
        /\ \A p \in Peers : connState'[p] = "None" /\ downstream'[p] = NoSession
    BY <1>6, RestartShape
  <2>2. OnlineMap' = [p \in Peers |-> "no"] /\ Reachable' = {}
    BY <2>1 DEF OnlineMap, OnlineOf, Reachable
  <2> QED
    BY <2>1, <2>2 DEF Links!LinksNext, Links!Forget, OnlineMap
<1> QED
  BY <1>1, <1>2, <1>3, <1>4, <1>5, <1>6 DEF Next

LEMMA InitImplements == Init => Links!LinksInit
<1> SUFFICES ASSUME Init PROVE Links!LinksInit
  OBVIOUS
<1>1. /\ \A p \in Peers : connState[p] = "None" /\ downstream[p] = NoSession
      /\ everRemoved = {}
  BY DEF Init
<1>2. OnlineMap = [p \in Peers |-> "no"] /\ Reachable = {}
  BY <1>1 DEF OnlineMap, OnlineOf, Reachable
<1> QED
  BY <1>1, <1>2 DEF Links!LinksInit, OnlineMap

\* However many calls of open, clean-ups and removals interleave, those who
\* send to a peer whose descriptor was never removed see one link: what makes
\* it usable is only the call that has just stored Online, and Online is not
\* taken back under a call that is about to register its stream.
THEOREM BrokerImplementsLinks == Spec => LinksImplemented
<1>1. Init => Links!LinksInit
  BY InitImplements
<1>2. Inv /\ Delivery /\ LinkInv /\ [Next]_vars => [Links!LinksNext]_(Links!linkVars)
  BY StepImplements
<1> QED
  BY <1>1, <1>2, InvInit, InvStep, InitDelivery, DeliveryStep, LinkInvInit, LinkInvStep, PTL
     DEF Spec, LinksImplemented, Links!LinksSpec
=============================================================================
