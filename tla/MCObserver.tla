----------------------------- MODULE MCObserver -----------------------------
(* ObserverMessagingBroker, and with it ResourceManager, on small instances. *)
EXTENDS ObserverMessagingBroker, TLC

MCKindOf    == [s \in Subscribers |-> ConnStates]
MCValuesOf  == (ConnStates :> {"Online", "Offline"}) @@ (Descriptors :> {"descriptor"})
MCMaxEvents == (ConnStates :> 2) @@ (Descriptors :> 1)
MCLegacy    == [k \in Persistent |-> [i \in Ids |-> "descriptor"]]

\* Descriptors are read only when a call begins: they change, and a call begins
\* with a channel of theirs that was not used, only before the first call; and
\* no transaction begins once CLEO is gone.  The peers are interchangeable, and
\* One is the peer that a call for a single peer asks for.
One == CHOOSE i \in Ids : TRUE
MCNext ==
    /\ Next
    /\ \A s \in Subscribers : observer'[s].ids \in {{}, {One}, Ids}
    /\ txn'.open /\ txn # txn' => \E s \in Subscribers : cleo[s] \in {"idle", "waiting"}
    /\ (\E s \in Subscribers : cleo'[s] # "idle") =>
        /\ published'[Descriptors] = <<>> /\ tables'[Descriptors][One] # NoValue
        /\ txn'.open => txn'.relay[Descriptors] = <<>>

MCFairSpec == Init /\ [][MCNext]_vars /\ Fairness
=============================================================================
