-------------------------- MODULE PeerConversions --------------------------
(***************************************************************************)
(* The conversions a peer goes through between LEA's form and CARL's store *)
(* and back: form to descriptor, descriptor to message, message to         *)
(* descriptor, descriptor to form. PeerDescriptors keeps of them what      *)
(* operators can do to each other's changes; here every text of the form   *)
(* is kept, with what may be typed into it.                                *)
(***************************************************************************)
EXTENDS ValidatedTexts, Sequences, Functions, TLC

CONSTANTS
    InterfaceIds, DeviceIds, ExecutorIds,
    U32,        \* how many values a u32 has
    None        \* no value

\* The lists of texts of a container.
VectorFields == {"volumes", "devices", "ports", "args"}

ContainerText(list, t) ==
    CASE list = "volumes" -> ContainerVolume(t)
      [] list = "devices" -> ContainerDevice(t)
      [] list = "ports"   -> ContainerPortSpec(t)
      [] list = "args"    -> ContainerCommandArgument(t)

OrEmpty(t) == IF t = None THEN Empty ELSE t

NoneIfEmpty(t) == IF IsEmpty(t) THEN None ELSE t

Each(f, Conversion(_)) == [x \in DOMAIN f |-> Conversion(f[x])]

All(f, Test(_)) == \A x \in DOMAIN f : Test(f[x])

\* f with the value v for x.
With(f, x, v) == [y \in DOMAIN f \cup {x} |-> IF y = x THEN v ELSE f[y]]

Without(f, x) == Restrict(f, DOMAIN f \ {x})

\* The entries of a sequence at some of its places.
EntriesAt(s, places) ==
    LET upTo[n \in 0..Len(s)] ==
            IF n = 0 THEN <<>>
            ELSE IF n \in places THEN Append(upTo[n - 1], s[n])
            ELSE upTo[n - 1]
    IN  upTo[Len(s)]

-----------------------------------------------------------------------------
(* What a descriptor and a message are made of.                            *)

Optional == Text \cup {None}

Interface ==
    [name : Text,
     configuration :
        [kind : {"Ethernet"}] \cup
        [kind : {"Can"}, fd : BOOLEAN, bitrate : 0..(U32 - 1), sample : Nat,
         dataBitrate : 0..(U32 - 1), dataSample : Nat]]

Device ==
    [name : Text, description : Optional, interface : InterfaceIds, tags : SUBSET Text]

Executor ==
    [engine : {"Docker", "Podman"}, name : Optional, image : Optional,
     command : Optional, results : Optional, lists : [VectorFields -> Seq(Text)],
     envs : Seq([name : Text, value : Text])]

\* The parts of a peer have identifiers; which ones there are, says Identified.
Peer(interfaces, devices, executors) ==
    [name : Text, location : Optional, bridge : Optional,
     interfaces : [interfaces -> Interface], devices : [devices -> Device],
     executors : [executors -> Executor]]

Identified(interfaces, devices, executors) ==
    /\ interfaces \subseteq InterfaceIds
    /\ devices \subseteq DeviceIds
    /\ executors \subseteq ExecutorIds

IsPeer(d) ==
    /\ Identified(DOMAIN d.interfaces, DOMAIN d.devices, DOMAIN d.executors)
    /\ d \in Peer(DOMAIN d.interfaces, DOMAIN d.devices, DOMAIN d.executors)

ASSUME NoneIsNoValue ==
    /\ None \notin Text \cup InterfaceIds
    /\ \A interfaces \in SUBSET InterfaceIds, devices \in SUBSET DeviceIds,
          executors \in SUBSET ExecutorIds : None \notin Peer(interfaces, devices, executors)

-----------------------------------------------------------------------------
(* Descriptor and message. A message has empty texts where the descriptor  *)
(* has no location or description, no container name or no command. An     *)
(* executor without an image is an Executable.                             *)

ExecutorToProto(e) ==
    IF e.image = None THEN e
    ELSE [e EXCEPT !.name = OrEmpty(@), !.command = OrEmpty(@)]

DeviceToProto(d) == [d EXCEPT !.description = OrEmpty(@)]

ToProto(d) ==
    [d EXCEPT !.location = OrEmpty(@),
              !.devices = Each(@, DeviceToProto),
              !.executors = Each(@, ExecutorToProto)]

\* What the conversions of the parts of a message require of its texts.
EnvAccepted(env) == ContainerEnvironmentVariable(env.name, env.value)

ContainerAccepted(p) ==
    /\ ContainerName(p.name)
    /\ ContainerImage(p.image)
    /\ \A list \in VectorFields : All(p.lists[list], LAMBDA t : ContainerText(list, t))
    /\ All(p.envs, EnvAccepted)
    /\ ContainerCommand(p.command)

ExecutorAccepted(p) ==
    /\ p.image # None => ContainerAccepted(p)
    /\ p.results # None => ResultsUrl(p.results)

DeviceAccepted(p) ==
    /\ DeviceName(p.name)
    /\ DeviceDescription(p.description)
    /\ \A tag \in p.tags : DeviceTag(tag)

InterfaceAccepted(p) ==
    /\ NetworkInterfaceName(p.name)
    /\ p.configuration.kind = "Can" =>
         /\ CanSamplePoint(p.configuration.sample)
         /\ CanSamplePoint(p.configuration.dataSample)

Accepted(p) ==
    /\ PeerName(p.name)
    /\ PeerLocation(p.location)
    /\ p.bridge # None => NetworkInterfaceName(p.bridge)
    /\ All(p.interfaces, InterfaceAccepted)
    /\ All(p.devices, DeviceAccepted)
    /\ All(p.executors, ExecutorAccepted)

ExecutorFromProto(p) ==
    IF p.image = None THEN p
    ELSE [p EXCEPT !.name = NoneIfEmpty(@), !.command = NoneIfEmpty(@)]

FromProto(p) == [p EXCEPT !.executors = Each(@, ExecutorFromProto)]

\* There is a descriptor only of texts that were accepted, and of URLs that
\* were parsed.
IsDescriptor(d) ==
    /\ IsPeer(d)
    /\ Accepted(ToProto(d))
    /\ All(d.executors, LAMBDA e : e.results # None => Printed(e.results) = e.results)

-----------------------------------------------------------------------------
(* Inputs of the form: an error, a value, or both (Ior).                   *)

Input == [kind : {"Left", "Right", "Both"}, text : Text]

DeviceForm ==
    [name : Input, description : Input, interface : InterfaceIds \cup {None}]

ExecutorForm ==
    [engine : {"Docker", "Podman"}, name : Input, image : Input, command : Input,
     results : Input, lists : [VectorFields -> Seq(Input)],
     envs : Seq([name : Input, value : Text])]

UserPeerConfiguration(interfaces, devices, executors) ==
    [name : Input, location : Input, bridge : Input,
     interfaces : [interfaces -> Interface], devices : [devices -> DeviceForm],
     executors : [executors -> ExecutorForm]]

IsUserPeerConfiguration(f) ==
    /\ Identified(DOMAIN f.interfaces, DOMAIN f.devices, DOMAIN f.executors)
    /\ f \in UserPeerConfiguration(DOMAIN f.interfaces, DOMAIN f.devices, DOMAIN f.executors)

Left == [kind |-> "Left", text |-> Empty]

Right(t) == [kind |-> "Right", text |-> t]

Both(t) == [kind |-> "Both", text |-> t]

IsRight(input) == input.kind = "Right"

\* right_ok_or: there is a text, whether or not it was found valid.
HasText(input) == input.kind # "Left"

-----------------------------------------------------------------------------
(* Form to descriptor. Tags have no input, and are lost.                   *)

EnvConverts(env) ==
    HasText(env.name) /\ ContainerEnvironmentVariable(env.name.text, env.value)

ExecutorConverts(e) ==
    /\ HasText(e.name) /\ ContainerName(e.name.text)
    /\ HasText(e.image) /\ ContainerImage(e.image.text)
    /\ HasText(e.command) /\ ContainerCommand(e.command.text)
    /\ \A list \in VectorFields :
          All(e.lists[list], LAMBDA i : HasText(i) /\ ContainerText(list, i.text))
    /\ All(e.envs, EnvConverts)
    /\ HasText(e.results)
    /\ IsEmpty(e.results.text) \/ ResultsUrl(e.results.text)

DeviceConverts(d) ==
    /\ HasText(d.name) /\ DeviceName(d.name.text)
    /\ HasText(d.description) /\ DeviceDescription(d.description.text)

BridgeConverts(input) ==
    HasText(input) /\ (IsEmpty(input.text) \/ NetworkInterfaceName(input.text))

FormConverts(f) ==
    /\ HasText(f.name) /\ PeerName(f.name.text)
    /\ HasText(f.location) /\ PeerLocation(f.location.text)
    /\ BridgeConverts(f.bridge)
    /\ All(f.devices, DeviceConverts)
    /\ All(f.executors, ExecutorConverts)

\* The interface of a device is unwrapped.
DevicePanics(d) == HasText(d.name) /\ DeviceName(d.name.text) /\ d.interface = None

FormPanics(f) == \E d \in DOMAIN f.devices : DevicePanics(f.devices[d])

EnvOf(env) == [name |-> env.name.text, value |-> env.value]

TextOf(input) == input.text

ResultsOf(input) == NoneIfEmpty(Printed(input.text))

ExecutorOf(e) ==
    [engine |-> e.engine, name |-> NoneIfEmpty(e.name.text), image |-> e.image.text,
     command |-> NoneIfEmpty(e.command.text), results |-> ResultsOf(e.results),
     lists |-> [list \in VectorFields |-> Each(e.lists[list], TextOf)],
     envs |-> Each(e.envs, EnvOf)]

DeviceOf(d) ==
    [name |-> d.name.text, description |-> d.description.text,
     interface |-> d.interface, tags |-> {}]

DescriptorOf(f) ==
    [name |-> f.name.text, location |-> f.location.text,
     bridge |-> NoneIfEmpty(f.bridge.text), interfaces |-> f.interfaces,
     devices |-> Each(f.devices, DeviceOf), executors |-> Each(f.executors, ExecutorOf)]

-----------------------------------------------------------------------------
(* Descriptor to form. Only a descriptor whose executors are all containers *)
(* can be shown.                                                           *)

NewForm ==
    [name |-> Left, location |-> Right(Empty), bridge |-> Right(Empty),
     interfaces |-> <<>>, devices |-> <<>>, executors |-> <<>>]

ShowsDevice(d) ==
    [name |-> Right(d.name), description |-> Right(OrEmpty(d.description)),
     interface |-> d.interface]

ShowsEnv(env) == [name |-> Right(env.name), value |-> env.value]

\* The mutant shows no environment variables.
ShowsExecutorWithoutEnvs(e) ==
    [engine |-> e.engine, name |-> Right(OrEmpty(e.name)), image |-> Right(e.image),
     command |-> Right(OrEmpty(e.command)), results |-> Right(OrEmpty(e.results)),
     lists |-> [list \in VectorFields |-> Each(e.lists[list], Right)],
     envs |-> <<>>]

ShowsExecutor(e) ==
    [engine |-> e.engine, name |-> Right(OrEmpty(e.name)), image |-> Right(e.image),
     command |-> Right(OrEmpty(e.command)), results |-> Right(OrEmpty(e.results)),
     lists |-> [list \in VectorFields |-> Each(e.lists[list], Right)],
     envs |-> Each(e.envs, ShowsEnv)]

\* The mutant shows an empty location as one that is still to be entered.
ShowsLocationMissing(d) ==
    [name |-> Right(d.name),
     location |-> IF IsEmpty(OrEmpty(d.location)) THEN Left ELSE Right(d.location),
     bridge |-> Right(OrEmpty(d.bridge)), interfaces |-> d.interfaces,
     devices |-> Each(d.devices, ShowsDevice),
     executors |-> Each(d.executors, ShowsExecutor)]

Shows(d) ==
    [name |-> Right(d.name), location |-> Right(OrEmpty(d.location)),
     bridge |-> Right(OrEmpty(d.bridge)), interfaces |-> d.interfaces,
     devices |-> Each(d.devices, ShowsDevice),
     executors |-> Each(d.executors, ShowsExecutor)]

Showable(d) == \A e \in DOMAIN d.executors : d.executors[e].image # None
=============================================================================
