------------------------------ MODULE PeerForm ------------------------------
(***************************************************************************)
(* LEA's page of one peer: what is typed into its inputs and validated,    *)
(* some of it only after a pause (UserInput); the interfaces, devices and  *)
(* executors added and deleted; saving, with the message that reaches CARL *)
(* and what CARL stores; deleting the peer, here or by another client; and *)
(* loading the page again.                                                 *)
(***************************************************************************)
EXTENDS PeerConversions, Integers, FiniteSets

CONSTANTS
    Texts,          \* what an operator types
    Bitrates,       \* the numbers typed as bitrates, in kb/s
    SamplePoints,   \* the numbers typed as sample points, in ten-thousandths; NaN is
                    \* as a negative one
    NotANumber,     \* a text that is no number
    Descriptors,    \* what other clients may have stored before
    MaxEdits,       \* bound on what an operator does to the page
    MaxEntries      \* bound on the entries of a list

ASSUME PeerFormAssumption ==
    /\ Texts \subseteq Text
    /\ Bitrates \subseteq 0..(U32 - 1) /\ SamplePoints \subseteq Int
    /\ U32 \in Nat \ {0} /\ NotANumber \notin Int
    /\ \A d \in Descriptors : IsDescriptor(d)
    /\ MaxEdits \in Nat /\ MaxEntries \in Nat

VARIABLES
    page,       \* "loading", "shown", "crashed", or "left" once its peer is deleted
    form,       \* the validated inputs (UserPeerConfiguration)
    draft,      \* the inputs of the interface to be added
    typing,     \* texts typed into inputs that are not validated yet
    isNew,      \* whether the page knows of no stored peer
    request,    \* the message on its way to CARL, or None
    awaiting,   \* whether the page waits for its answer
    stored,     \* the message CARL keeps, or None
    outcome,    \* what the last click on Save came to
    clicked,    \* the form at that click, while it has an effect
    kept,       \* the form that was last stored, or None
    deleting,   \* whether the page waits for its peer to be deleted
    deleted,    \* whether it was another client that deleted what was stored
    origin,     \* the descriptor the page shows, None once it was edited
    edits       \* how often the operator did something to the page

vars == <<page, form, draft, typing, isNew, request, awaiting, stored,
          outcome, clicked, kept, deleting, deleted, origin, edits>>

carl == <<request, awaiting, stored, outcome, clicked, kept, deleting, deleted>>

-----------------------------------------------------------------------------
(* The validators of the inputs.                                           *)

Checked(valid, t) == IF valid THEN Right(t) ELSE Both(t)

PeerNameInput(t) == Checked(PeerName(t), t)

PeerLocationInput(t) == Checked(PeerLocation(t), t)

BridgeNameInput(t) == Checked(IsEmpty(t) \/ NetworkInterfaceName(t), t)

DeviceNameInput(t) == Checked(DeviceName(t), t)

DeviceDescriptionInput(t) == Checked(DeviceDescription(t), t)

ExecutorContainerNameInput(t) == Checked(ContainerName(t), t)

ExecutorContainerImageInput(t) == Checked(ContainerImage(t), t)

ExecutorContainerCommandInput(t) == Checked(ContainerCommand(t), t)

ExecutorContainerVolumesInput(t) == Checked(ContainerVolume(t), t)

ExecutorContainerDevicesInput(t) == Checked(ContainerDevice(t), t)

ExecutorContainerPortsInput(t) == Checked(ContainerPortSpec(t), t)

ExecutorContainerArgsInput(t) == Checked(ContainerCommandArgument(t), t)

EnvNameInput(t) == Checked(~IsEmpty(t), t)

\* An empty URL is refused here, although the form is saved without one.
ExecutorContainerResultsUrlInput(t) == Checked(ResultsUrl(t), t)

NameTaken(t) == \E i \in DOMAIN form.interfaces : form.interfaces[i].name = t

\* The mutant does not look at the names that are taken.
AnyName(t) ==
    LET name == Trim(t) IN
    IF IsEmpty(name) THEN Left
    ELSE IF NetworkInterfaceName(name) THEN Right(t)
    ELSE Both(name)

\* The name is checked without the spaces around it, and kept with them.
InterfaceNameInput(t) ==
    LET name == Trim(t) IN
    IF IsEmpty(name) THEN Left
    ELSE IF NetworkInterfaceName(name) THEN Checked(~NameTaken(name), t)
    ELSE Both(name)

BitrateValidator(n) == Checked(n # NotANumber, n)

SamplePointsValidator(s) ==
    Checked(s # NotANumber /\ 0 <= s /\ s < 10000 /\ CanSamplePoint(Rounded(s)), s)

-----------------------------------------------------------------------------
(* An input, by the part of the page it belongs to.                        *)

Field(part, id, name) == [part |-> part, id |-> id, name |-> name]

DebouncedFields ==
    {Field("peer", None, n) : n \in {"name", "location", "bridge"}}
        \cup {Field("device", d, "name") : d \in DOMAIN form.devices}
        \cup {Field("executor", e, n) : e \in DOMAIN form.executors,
                                        n \in {"name", "image", "command", "results"}}

DraftName == Field("draft", None, "name")

\* The numbers are shown for a CAN interface, those of the data phase for CAN FD.
NumberFields ==
    IF draft.kind = "Ethernet" THEN {}
    ELSE {"bitrate", "sample"} \cup (IF draft.fd THEN {"dataBitrate", "dataSample"} ELSE {})

Numbers(name) ==
    {NotANumber} \cup
        IF name \in {"bitrate", "dataBitrate"} THEN Bitrates ELSE SamplePoints

Validate(f, t) ==
    CASE f.part = "peer" /\ f.name = "name"        -> PeerNameInput(t)
      [] f.part = "peer" /\ f.name = "location"    -> PeerLocationInput(t)
      [] f.part = "peer" /\ f.name = "bridge"      -> BridgeNameInput(t)
      [] f.part = "device"                         -> DeviceNameInput(t)
      [] f.part = "executor" /\ f.name = "name"    -> ExecutorContainerNameInput(t)
      [] f.part = "executor" /\ f.name = "image"   -> ExecutorContainerImageInput(t)
      [] f.part = "executor" /\ f.name = "command" -> ExecutorContainerCommandInput(t)
      [] f.part = "executor" /\ f.name = "results" -> ExecutorContainerResultsUrlInput(t)
      [] f.part = "draft" /\ f.name = "name"       -> InterfaceNameInput(t)
      [] f.part = "draft" /\ f.name \in {"bitrate", "dataBitrate"} -> BitrateValidator(t)
      [] f.part = "draft" /\ f.name \in {"sample", "dataSample"}   -> SamplePointsValidator(t)

ValidateEntry(list, t) ==
    CASE list = "volumes" -> ExecutorContainerVolumesInput(t)
      [] list = "devices" -> ExecutorContainerDevicesInput(t)
      [] list = "ports"   -> ExecutorContainerPortsInput(t)
      [] list = "args"    -> ExecutorContainerArgsInput(t)

\* The setter of an input of the form.
Set(f, input) ==
    CASE f.part = "peer"     -> [form EXCEPT ![f.name] = input]
      [] f.part = "device"   -> [form EXCEPT !.devices[f.id][f.name] = input]
      [] f.part = "executor" -> [form EXCEPT !.executors[f.id][f.name] = input]

\* The operator does something to a page that is shown.
Edit ==
    /\ page = "shown"
    /\ edits < MaxEdits
    /\ edits' = edits + 1
    /\ UNCHANGED <<page, isNew, carl>>

\* What is left of the typing when a device or an executor is deleted.
TypingWithout(part, id) ==
    Restrict(typing, {f \in DOMAIN typing : ~(f.part = part /\ f.id = id)})

Edited(new) == form' = new /\ origin' = None

-----------------------------------------------------------------------------
(* Text inputs.                                                            *)

\* A key was pressed in a UserInput: its text is validated after a pause.
TypeText(f, t) ==
    /\ Edit
    /\ typing' = With(typing, f, t)
    /\ UNCHANGED <<form, draft, origin>>

\* The pause is over.
Settle(f) ==
    /\ page = "shown"
    /\ f \in DOMAIN typing
    /\ typing' = Without(typing, f)
    /\ IF f.part = "draft"
       THEN /\ draft' = [draft EXCEPT ![f.name] = Validate(f, typing[f])]
            /\ UNCHANGED <<form, origin>>
       ELSE /\ Edited(Set(f, Validate(f, typing[f])))
            /\ UNCHANGED draft
    /\ UNCHANGED <<page, isNew, carl, edits>>

\* A UserTextarea validates at once, and so do the inputs of a list.
TypeDescription(d, t) ==
    /\ Edit
    /\ Edited([form EXCEPT !.devices[d].description = DeviceDescriptionInput(t)])
    /\ UNCHANGED <<draft, typing>>

AddEntry(e, list) ==
    /\ Edit
    /\ Len(form.executors[e].lists[list]) < MaxEntries
    /\ Edited([form EXCEPT !.executors[e].lists[list] = Append(@, Left)])
    /\ UNCHANGED <<draft, typing>>

TypeEntry(e, list, n, t) ==
    /\ Edit
    /\ Edited([form EXCEPT !.executors[e].lists[list][n] = ValidateEntry(list, t)])
    /\ UNCHANGED <<draft, typing>>

\* Every entry with the text of the deleted one goes.
DeleteEntry(e, list, n) ==
    /\ Edit
    /\ LET entries == form.executors[e].lists[list]
       IN  Edited([form EXCEPT !.executors[e].lists[list] =
                       EntriesAt(@, {k \in DOMAIN @ : @[k].text # entries[n].text})])
    /\ UNCHANGED <<draft, typing>>

AddEnv(e) ==
    /\ Edit
    /\ Len(form.executors[e].envs) < MaxEntries
    /\ Edited([form EXCEPT !.executors[e].envs = Append(@, [name |-> Left, value |-> Empty])])
    /\ UNCHANGED <<draft, typing>>

TypeEnv(e, n, name, value) ==
    /\ Edit
    /\ \/ Edited([form EXCEPT !.executors[e].envs[n].name = EnvNameInput(name)])
       \/ Edited([form EXCEPT !.executors[e].envs[n].value = value])
    /\ UNCHANGED <<draft, typing>>

DeleteEnv(e, n) ==
    /\ Edit
    /\ LET envs == form.executors[e].envs
       IN  Edited([form EXCEPT !.executors[e].envs =
                       EntriesAt(@, {k \in DOMAIN @ : @[k].name.text # envs[n].name.text})])
    /\ UNCHANGED <<draft, typing>>

-----------------------------------------------------------------------------
(* Network interfaces.                                                     *)

NewDraft ==
    [name |-> Left, kind |-> "Ethernet", fd |-> FALSE,
     bitrate |-> Right(500), sample |-> Right(7000),
     dataBitrate |-> Right(2000), dataSample |-> Right(7000)]

\* The kind of the interface, and whether it has CAN FD.
ChooseKind(kind) ==
    /\ Edit
    /\ draft' = [draft EXCEPT !.kind = kind]
    /\ UNCHANGED <<form, typing, origin>>

ToggleFd ==
    /\ Edit
    /\ draft.kind = "Can"
    /\ draft' = [draft EXCEPT !.fd = ~@]
    /\ UNCHANGED <<form, typing, origin>>

TypeNumber(name, n) ==
    /\ Edit
    /\ typing' = With(typing, Field("draft", None, name), n)
    /\ UNCHANGED <<form, draft, origin>>

\* The mutant only looks at the name.
EnabledByName == IsRight(draft.name)

\* The button to add the interface looks at the numbers that are shown.
AddEnabled == IsRight(draft.name) /\ \A n \in NumberFields : IsRight(draft[n])

\* The numbers are read again, those of the data phase whether shown or not,
\* and unwrapped.
Readable(bitrate, sample) ==
    /\ bitrate.text # NotANumber
    /\ sample.text # NotANumber
    /\ CanSamplePoint(Rounded(sample.text))

CanPanics ==
    ~(Readable(draft.bitrate, draft.sample) /\ Readable(draft.dataBitrate, draft.dataSample))

\* A product of u32 that is too large: a debug build panics, a release build
\* wraps around.
Overflows ==
    \E n \in {draft.bitrate.text, draft.dataBitrate.text} \ {NotANumber} : n * 1000 >= U32

Configuration ==
    IF draft.kind = "Ethernet" THEN [kind |-> "Ethernet"]
    ELSE [kind |-> "Can", fd |-> draft.fd,
          bitrate |-> (draft.bitrate.text * 1000) % U32,
          sample |-> Rounded(draft.sample.text),
          dataBitrate |-> (draft.dataBitrate.text * 1000) % U32,
          dataSample |-> Rounded(draft.dataSample.text)]

Crash ==
    /\ page' = "crashed"
    /\ UNCHANGED <<form, draft, typing, isNew, carl, origin, edits>>

\* The name is added with its spaces, and the input emptied, what is typed
\* into it included.
AddInterface(i) ==
    /\ Edit
    /\ AddEnabled
    /\ NetworkInterfaceName(draft.name.text)
    /\ draft.kind = "Can" => ~CanPanics
    /\ Edited([form EXCEPT !.interfaces =
                  With(@, i, [name |-> draft.name.text, configuration |-> Configuration])])
    /\ draft' = [draft EXCEPT !.name = Right(Empty)]
    /\ typing' = [f \in DOMAIN typing |->
                     IF f = DraftName THEN Empty ELSE typing[f]]

AddInterfacePanics ==
    /\ page = "shown"
    /\ AddEnabled
    /\ NetworkInterfaceName(draft.name.text)
    /\ draft.kind = "Can"
    /\ CanPanics \/ Overflows
    /\ Crash

\* An interface that a device of the form uses is not deleted.
DeleteInterface(i) ==
    /\ Edit
    /\ \A d \in DOMAIN form.devices : form.devices[d].interface # i
    /\ Edited([form EXCEPT !.interfaces = Without(@, i)])
    /\ UNCHANGED <<draft, typing>>

-----------------------------------------------------------------------------
(* Devices and executors.                                                  *)

AddDevice(d) ==
    /\ Edit
    /\ Edited([form EXCEPT !.devices =
                  With(@, d, [name |-> Left, description |-> Right(Empty),
                              interface |-> None])])
    /\ UNCHANGED <<draft, typing>>

SelectInterface(d, i) ==
    /\ Edit
    /\ Edited([form EXCEPT !.devices[d].interface = i])
    /\ UNCHANGED <<draft, typing>>

\* The page lets a device go that is in no cluster; here none is.
DeleteDevice(d) ==
    /\ Edit
    /\ Edited([form EXCEPT !.devices = Without(@, d)])
    /\ typing' = TypingWithout("device", d)
    /\ UNCHANGED draft

AddExecutor(e) ==
    /\ Edit
    /\ Edited([form EXCEPT !.executors =
                  With(@, e, [engine |-> "Podman", name |-> Right(Empty), image |-> Left,
                              command |-> Right(Empty), results |-> Right(Empty),
                              lists |-> [list \in VectorFields |-> <<>>],
                              envs |-> <<>>])])
    /\ UNCHANGED <<draft, typing>>

ChooseEngine(e, engine) ==
    /\ Edit
    /\ Edited([form EXCEPT !.executors[e].engine = engine])
    /\ UNCHANGED <<draft, typing>>

DeleteExecutor(e) ==
    /\ Edit
    /\ Edited([form EXCEPT !.executors = Without(@, e)])
    /\ typing' = TypingWithout("executor", e)
    /\ UNCHANGED draft

-----------------------------------------------------------------------------
(* Saving.                                                                 *)

ValidExecutor(e) ==
    /\ IsRight(e.name) /\ IsRight(e.image) /\ IsRight(e.command) /\ IsRight(e.results)
    /\ \A list \in VectorFields : All(e.lists[list], IsRight)
    /\ All(e.envs, LAMBDA env : IsRight(env.name))

\* The mutant does not look at executors.
ValidWithoutExecutors(f) ==
    /\ IsRight(f.name) /\ IsRight(f.location)
    /\ All(f.devices, LAMBDA d : IsRight(d.name) /\ d.interface # None)

\* Whether the button Save is enabled. Descriptions and the name of the bridge
\* are not looked at.
IsValidPeerConfiguration(f) ==
    /\ IsRight(f.name) /\ IsRight(f.location)
    /\ All(f.devices, LAMBDA d : IsRight(d.name) /\ d.interface # None)
    /\ All(f.executors, ValidExecutor)

\* The form is sent, or the click is dropped with nothing but a log line. One
\* request is on its way at a time.
Save ==
    /\ page = "shown"
    /\ ~awaiting /\ request = None
    /\ IsValidPeerConfiguration(form)
    /\ clicked' = form
    /\ IF FormPanics(form) \/ ~FormConverts(form)
       THEN /\ page' = IF FormPanics(form) THEN "crashed" ELSE page
            /\ outcome' = "dropped"
            /\ UNCHANGED <<request, awaiting>>
       ELSE /\ request' = ToProto(DescriptorOf(form))
            /\ awaiting' = TRUE
            /\ outcome' = "none"
            /\ UNCHANGED page
    /\ UNCHANGED <<form, draft, typing, isNew, stored, kept, deleting, deleted, origin, edits>>

\* CARL converts the message and stores the descriptor, as a message again;
\* the page, if it still waits, reports the answer. Storing may fail.
StorePeerDescriptor ==
    /\ request # None
    /\ request' = None
    /\ awaiting' = FALSE
    /\ \/ /\ Accepted(request)
          /\ stored' = ToProto(FromProto(request))
          /\ kept' = clicked
          /\ outcome' = "stored"
          /\ isNew' = (isNew /\ ~awaiting)
          /\ deleted' = FALSE
       \/ /\ outcome' = IF Accepted(request) THEN "failed" ELSE "refused"
          /\ UNCHANGED <<stored, kept, isNew, deleted>>
    /\ clicked' = NewForm
    /\ UNCHANGED <<page, form, draft, typing, deleting, origin, edits>>

-----------------------------------------------------------------------------
(* Loading. A peer that cannot be read is shown as a new one.              *)

Load ==
    /\ page = "loading"
    /\ stored # None
    /\ LET d == FromProto(stored) IN
       IF Showable(d)
       THEN /\ page' = "shown"
            /\ form' = Shows(d)
            /\ isNew' = FALSE
            /\ origin' = d
            /\ UNCHANGED <<draft, typing, carl, edits>>
       ELSE Crash

LoadNothing ==
    /\ page = "loading"
    /\ page' = "shown"
    /\ UNCHANGED <<form, draft, typing, isNew, carl, origin, edits>>

\* The page is gone, and with it the answers to its requests.
Closed ==
    /\ form' = NewForm
    /\ draft' = NewDraft
    /\ typing' = <<>>
    /\ isNew' = TRUE
    /\ awaiting' = FALSE
    /\ deleting' = FALSE
    /\ origin' = None
    /\ outcome' = "none"
    /\ clicked' = IF request = None THEN NewForm ELSE clicked
    /\ UNCHANGED <<request, edits>>

\* The operator opens the page again.
Reload ==
    /\ page # "loading"
    /\ page' = "loading"
    /\ Closed
    /\ UNCHANGED <<stored, kept, deleted>>

-----------------------------------------------------------------------------
(* Deleting. The button does not look at a save that is under way.         *)

Delete ==
    /\ page = "shown"
    /\ ~deleting
    /\ deleting' = TRUE
    /\ UNCHANGED <<page, form, draft, typing, isNew, request, awaiting, stored, outcome,
                   clicked, kept, deleted, origin, edits>>

\* The mutant leaves the page whether or not CARL deleted the peer.
DeletedOrNot ==
    /\ page = "shown"
    /\ deleting
    /\ page' = "left"
    /\ Closed
    /\ stored' \in {stored, None}
    /\ kept' = IF stored' = None THEN None ELSE kept
    /\ UNCHANGED deleted

\* CARL deletes the peer, and the page is left for the overview; or it fails,
\* as it does when there is none, and nothing comes of the click.
DeletePeerDescriptor ==
    /\ page = "shown"
    /\ deleting
    /\ \/ /\ stored # None
          /\ stored' = None
          /\ kept' = None
          /\ page' = "left"
          /\ Closed
          /\ UNCHANGED deleted
       \/ /\ deleting' = FALSE
          /\ UNCHANGED <<page, form, draft, typing, isNew, request, awaiting, stored, outcome,
                         clicked, kept, deleted, origin, edits>>

\* Another client deletes the peer, or a request of a page that is gone does.
DeletedElsewhere ==
    /\ stored # None
    /\ stored' = None
    /\ kept' = None
    /\ deleted' = TRUE
    /\ UNCHANGED <<page, form, draft, typing, isNew, request, awaiting, outcome, clicked,
                   deleting, origin, edits>>

-----------------------------------------------------------------------------

Init ==
    /\ page = "loading"
    /\ form = NewForm
    /\ draft = NewDraft
    /\ typing = <<>>
    /\ isNew = TRUE
    /\ request = None
    /\ awaiting = FALSE
    /\ stored \in {None} \cup {ToProto(d) : d \in Descriptors}
    /\ outcome = "none"
    /\ clicked = NewForm
    /\ kept = None
    /\ deleting = FALSE
    /\ deleted = FALSE
    /\ origin = None
    /\ edits = 0

EditTexts == \E f \in DebouncedFields, t \in Texts : TypeText(f, t)

EditInterfaces ==
    \/ \E t \in Texts : TypeText(DraftName, t)
    \/ \E kind \in {"Ethernet", "Can"} : ChooseKind(kind)
    \/ ToggleFd
    \/ \E n \in NumberFields : \E x \in Numbers(n) : TypeNumber(n, x)
    \/ \E i \in InterfaceIds \ DOMAIN form.interfaces : AddInterface(i)
    \/ AddInterfacePanics
    \/ \E i \in DOMAIN form.interfaces : DeleteInterface(i)

EditDevices ==
    \/ \E d \in DeviceIds \ DOMAIN form.devices : AddDevice(d)
    \/ \E d \in DOMAIN form.devices :
          \/ \E t \in Texts : TypeDescription(d, t)
          \/ \E i \in DOMAIN form.interfaces \cup {None} : SelectInterface(d, i)
          \/ DeleteDevice(d)

EditExecutors ==
    \/ \E e \in ExecutorIds \ DOMAIN form.executors : AddExecutor(e)
    \/ \E e \in DOMAIN form.executors :
          \/ \E engine \in {"Docker", "Podman"} : ChooseEngine(e, engine)
          \/ DeleteExecutor(e)
          \/ AddEnv(e)
          \/ \E n \in DOMAIN form.executors[e].envs :
                \/ \E t \in Texts : TypeEnv(e, n, t, t)
                \/ DeleteEnv(e, n)
          \/ \E list \in VectorFields :
                \/ AddEntry(e, list)
                \/ \E n \in DOMAIN form.executors[e].lists[list] :
                      \/ \E t \in Texts : TypeEntry(e, list, n, t)
                      \/ DeleteEntry(e, list, n)

Next ==
    \/ EditTexts \/ EditInterfaces \/ EditDevices \/ EditExecutors
    \/ \E f \in DOMAIN typing : Settle(f)
    \/ Save \/ StorePeerDescriptor
    \/ Load \/ LoadNothing \/ Reload
    \/ Delete \/ DeletePeerDescriptor \/ DeletedElsewhere

Spec == Init /\ [][Next]_vars

-----------------------------------------------------------------------------
(* Properties.                                                             *)

Number == [kind : {"Right", "Both"}, text : Int \cup {NotANumber}]

Draft ==
    [name : Input, kind : {"Ethernet", "Can"}, fd : BOOLEAN,
     bitrate : Number, sample : Number, dataBitrate : Number, dataSample : Number]

\* Whatever was typed, an input is right for a valid text and for no other.
Validated(input, Valid(_)) == HasText(input) => (IsRight(input) <=> Valid(input.text))

ValidatedDevice(d) ==
    Validated(d.name, DeviceName) /\ Validated(d.description, DeviceDescription)

\* An empty URL, refused when it is typed, is right as long as none was.
ValidatedExecutor(e) ==
    /\ Validated(e.name, ContainerName)
    /\ Validated(e.image, ContainerImage)
    /\ Validated(e.command, ContainerCommand)
    /\ IsRight(e.results) => IsEmpty(e.results.text) \/ ResultsUrl(e.results.text)
    /\ \A list \in VectorFields :
          All(e.lists[list], LAMBDA i : Validated(i, LAMBDA t : ContainerText(list, t)))
    /\ All(e.envs, LAMBDA env : Validated(env.name, LAMBDA t : ~IsEmpty(t)))

IsForm(f) ==
    /\ IsUserPeerConfiguration(f)
    /\ Validated(f.name, PeerName)
    /\ Validated(f.location, PeerLocation)
    /\ Validated(f.bridge, LAMBDA t : IsEmpty(t) \/ NetworkInterfaceName(t))
    /\ All(f.interfaces, InterfaceAccepted)
    /\ All(f.devices, ValidatedDevice)
    /\ All(f.executors, ValidatedExecutor)

\* The inputs of the page, and what CARL keeps, are of their types: the form
\* only holds what its validators made of the texts, and what is stored, by
\* whatever way it came, is a message that can be read back.
TypeOK ==
    /\ page \in {"loading", "shown", "crashed", "left"}
    /\ IsForm(form) /\ IsForm(clicked) /\ (kept # None => IsForm(kept))
    /\ draft \in Draft
    /\ isNew \in BOOLEAN /\ awaiting \in BOOLEAN /\ deleting \in BOOLEAN /\ deleted \in BOOLEAN
    /\ stored # None => Accepted(stored)
    /\ awaiting => request # None
    /\ outcome \in {"none", "stored", "failed", "refused", "dropped"}
    /\ edits \in 0..MaxEdits

\* A click on Save or on Delete is answered, in a well typed state. CARL never
\* refuses what the form let through, and a click on Save is dropped with only
\* a log line just for the inputs the button does not look at, the descriptions
\* of devices and the name of the bridge. A page that offers the setup of its
\* peer (~isNew) has a stored one, whatever saves and deletions of this page
\* were under way at the same time, unless another client deleted it; and the
\* peer is gone when the page was left as deleted, unless a save came later
\* that was under way at the time.
SaveAnswered ==
    /\ TypeOK
    /\ outcome # "refused"
    /\ ~isNew => stored # None \/ deleted
    /\ page = "left" /\ stored # None => outcome = "stored" /\ request = None
    /\ outcome = "dropped" =>
         \/ ~IsRight(clicked.bridge)
         \/ \E d \in DOMAIN clicked.devices : ~IsRight(clicked.devices[d].description)

\* The form as it is shown again, the URLs of the results as they are printed.
Reprinted(f) ==
    [f EXCEPT !.executors =
        Each(@, LAMBDA e : [e EXCEPT !.results.text = Printed(@)])]

\* What was saved is what the page shows when it is opened again: through the
\* descriptor, the message, the store and back, nothing of the form is lost.
\* (A text still in its pause at the click is not part of the form that was
\* saved, although the operator sees it in its input.)
ReloadShowsSaved ==
    (origin # None /\ kept # None /\ ToProto(origin) = stored) => form = Reprinted(kept)

\* Saving a page that nobody edited is possible, and changes nothing but the
\* tags of the devices, which the form has no input for.
UntouchedSaveKeeps ==
    origin # None =>
        /\ IsValidPeerConfiguration(form)
        /\ FormConverts(form)
        /\ ToProto(DescriptorOf(form))
             = [ToProto(origin) EXCEPT !.devices =
                   Each(@, LAMBDA d : [d EXCEPT !.tags = {}])]

\* No two names are the same, but for those excused below.
DistinctNames(interfaces) ==
    \A i, j \in DOMAIN interfaces :
        interfaces[i].name = interfaces[j].name =>
            \/ i = j
            \/ interfaces[i].name.chars = "padded"
            \/ \E d \in Descriptors :
                  /\ {i, j} \subseteq DOMAIN d.interfaces
                  /\ d.interfaces[i].name = interfaces[i].name
                  /\ d.interfaces[j].name = interfaces[i].name

\* Two interfaces of the form have one name only if it has spaces around it,
\* as the check for names that are taken leaves them out and the list has
\* them, or if another client stored the two under that name.
DistinctInterfaceNames == DistinctNames(form.interfaces)

\* The page panics only when it loads an executor that is no container, when
\* CAN FD was turned off over numbers that are none, or when a bitrate does
\* not fit into a u32: never by saving, and never with every number valid.
PanicsExplained ==
    [][page' = "crashed" /\ page # "crashed" =>
          \/ page = "loading" /\ ~Showable(stored)
          \/ /\ draft.kind = "Can"
             /\ \/ ~draft.fd /\ ~(IsRight(draft.dataBitrate) /\ IsRight(draft.dataSample))
                \/ Overflows]_vars

-----------------------------------------------------------------------------
(* The inductive invariant that these properties follow from.              *)

TextField ==
    [part : {"peer"}, id : {None}, name : {"name", "location", "bridge"}]
        \cup [part : {"device"}, id : DeviceIds, name : {"name"}]
        \cup [part : {"executor"}, id : ExecutorIds,
              name : {"name", "image", "command", "results"}]
        \cup {DraftName}

NumberField ==
    [part : {"draft"}, id : {None},
     name : {"bitrate", "sample", "dataBitrate", "dataSample"}]

TypingOK ==
    \A f \in DOMAIN typing :
        \/ f \in TextField /\ typing[f] \in Text
        \/ f \in NumberField /\ typing[f] \in Int \cup {NotANumber}

\* A number that is right can be read again when the interface is added.
RightBitrate(n) == IsRight(n) => n.text # NotANumber

RightSample(s) == IsRight(s) => s.text # NotANumber /\ CanSamplePoint(Rounded(s.text))

RightNumbers ==
    /\ RightBitrate(draft.bitrate) /\ RightBitrate(draft.dataBitrate)
    /\ RightSample(draft.sample) /\ RightSample(draft.dataSample)

\* A name found free stays free until it is added, unless it has spaces.
RightNameFree ==
    IsRight(draft.name) /\ NetworkInterfaceName(draft.name.text)
        => draft.name.text.chars = "padded" \/ ~NameTaken(draft.name.text)

\* What is on its way to CARL, and what it keeps, has the names of some form,
\* or of the descriptor that was there before.
DistinctMessageNames ==
    /\ request # None => DistinctNames(request.interfaces)
    /\ stored # None => DistinctNames(stored.interfaces)

LoadingUntouched == page = "loading" => draft = NewDraft

\* A form that Save has let through.
Savable(f) == IsForm(f) /\ IsValidPeerConfiguration(f) /\ FormConverts(f)

RequestIsClicked ==
    request # None => Savable(clicked) /\ request = ToProto(DescriptorOf(clicked))

StoredIsKept ==
    kept # None => Savable(kept) /\ stored = ToProto(DescriptorOf(kept))

StoredReadable ==
    stored # None =>
        IsDescriptor(FromProto(stored)) /\ ToProto(FromProto(stored)) = stored

OriginShown ==
    origin # None => IsDescriptor(origin) /\ Showable(origin) /\ form = Shows(origin)

IInv ==
    /\ SaveAnswered /\ DistinctInterfaceNames /\ DistinctMessageNames
    /\ TypingOK /\ RightNumbers /\ RightNameFree /\ LoadingUntouched
    /\ RequestIsClicked /\ StoredIsKept /\ StoredReadable /\ OriginShown
=============================================================================
