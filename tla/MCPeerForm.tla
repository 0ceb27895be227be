----------------------------- MODULE MCPeerForm -----------------------------
(***************************************************************************)
(* LEA's page of a peer that is new, or that another client stored: with a *)
(* device that has tags and no description and a container with one of     *)
(* everything, or with an executor that is no container.                   *)
(***************************************************************************)
EXTENDS PeerForm

T(length, chars) == [length |-> length, chars |-> chars]

\* On both sides of the limits that tell the types apart.
MCTexts ==
    {Empty, T(1, "word"), T(4, "word"), T(16, "word"), T(65, "word"),
     T(4, "dashed"), T(5, "padded"), T(281, "free"), T(9, "bare")}

MCSamplePoints == {-1, 9994, 9996}

MCContainer ==
    [engine |-> "Docker", name |-> T(4, "word"), image |-> T(9, "free"),
     command |-> None, results |-> T(10, "url"),
     lists |-> [list \in VectorFields |-> IF list = "args" THEN <<T(1, "word")>> ELSE <<>>],
     envs |-> <<[name |-> T(1, "word"), value |-> Empty]>>]

MCExecutable ==
    [engine |-> "Docker", name |-> None, image |-> None, command |-> None, results |-> None,
     lists |-> [list \in VectorFields |-> <<>>], envs |-> <<>>]

MCPeer(executor) ==
    [name |-> T(4, "word"), location |-> None, bridge |-> None,
     interfaces |-> [i \in {"n1"} |->
        [name |-> T(4, "word"), configuration |-> [kind |-> "Ethernet"]]],
     devices |-> [d \in {"d1"} |->
        [name |-> T(1, "word"), description |-> None, interface |-> "n1",
         tags |-> {T(3, "free")}]],
     executors |-> [e \in {"e1"} |-> executor]]

MCDescriptors == {MCPeer(MCContainer), MCPeer(MCExecutable)}

-----------------------------------------------------------------------------
(* The network tab, whose inputs no other one reads, is used on the page   *)
(* of a stored peer that is not edited otherwise, a number at a time; the  *)
(* other tabs are edited at most MaxOtherEdits times, before an interface  *)
(* is selected for a device.                                               *)

CONSTANT MaxOtherEdits

OtherwiseUntouched ==
    /\ typing \in {<<>>} \cup {DraftName :> t : t \in Texts}
    /\ kept = None /\ request = None /\ outcome = "none" /\ ~deleting
    /\ stored # None
    /\ [form EXCEPT !.interfaces = <<>>]
         = [Shows(FromProto(stored)) EXCEPT !.interfaces = <<>>]

\* The peer is deleted while no input is in its pause and, but for one edit of
\* another tab, the page is as it was opened; no more is edited meanwhile.
Untyped == typing = <<>> /\ draft = NewDraft /\ edits <= 1

MCNext ==
    \/ OtherwiseUntouched /\ EditInterfaces
    \/ /\ draft = NewDraft /\ DraftName \notin DOMAIN typing /\ ~deleting
       /\ \/ edits < MaxOtherEdits /\ (EditTexts \/ EditDevices \/ EditExecutors)
          \/ /\ edits = MaxOtherEdits
             /\ \E d \in DOMAIN form.devices, i \in DOMAIN form.interfaces :
                    SelectInterface(d, i)
    \/ \E f \in DOMAIN typing : Settle(f)
    \/ Save \/ StorePeerDescriptor
    \/ Load \/ LoadNothing \/ Reload
    \/ Untyped /\ (Delete \/ DeletedElsewhere)
    \/ DeletePeerDescriptor

MCSpec == Init /\ [][MCNext]_vars
=============================================================================
