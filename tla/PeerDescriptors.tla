-------------------------- MODULE PeerDescriptors --------------------------
(***************************************************************************)
(* The peer descriptor and its conversions: to the protobuf messages on    *)
(* the wire and back, to the form LEA lets an operator edit and back, and  *)
(* from a specification document that CLEO applies. Texts are "" or a      *)
(* member of a small set; what a conversion does to an absent text is what *)
(* tells them apart.                                                       *)
(***************************************************************************)
EXTENDS Naturals, FiniteSets, Functions, TLC

CONSTANTS
    InterfaceIds,   \* identifiers of network interfaces
    Names,          \* their names
    DeviceIds,      \* identifiers of devices
    ExecutorIds,    \* identifiers of executors
    Images,         \* container images
    Texts,          \* texts that are not empty
    SamplePoints,   \* sample points of CAN interfaces, in thousandths
    None            \* no value

ASSUME TextAssumption ==
    /\ "" \notin Texts
    /\ SamplePoints \subseteq Nat
    /\ None \notin Texts \cup {""} \cup Images \cup InterfaceIds \cup Names

\* An optional text.
Optional == Texts \cup {"", None}

\* The partial functions from S to T.
Partial(S, T) == UNION {[D -> T] : D \in SUBSET S}

\* A sample point is below one; an Ethernet interface has none.
IsSamplePoint(n) == n < 1000

Interface ==
    [name : Names, sample : {n \in SamplePoints : IsSamplePoint(n)} \cup {None}]

Device ==
    [interface : InterfaceIds, description : Optional, tags : SUBSET Texts]

\* An executor without an image is an Executable. A container without a name
\* of its own has the name Empty, which is None here.
Executor ==
    [image : Images \cup {None}, name : Texts \cup {None},
     results : Texts \cup {None}]

Descriptor ==
    [location   : Optional,
     bridge     : Texts \cup {None},
     interfaces : Partial(InterfaceIds, Interface),
     devices    : Partial(DeviceIds, Device),
     executors  : Partial(ExecutorIds, Executor)]

\* What `cleo create peer` stores, and an empty form.
EmptyDescriptor(location, bridge) ==
    [location |-> location, bridge |-> bridge, interfaces |-> <<>>,
     devices |-> <<>>, executors |-> <<>>]

\* Both ways of reading an empty text.
UnwrapOrDefault(text) == IF text = None THEN "" ELSE text

NoneIfEmpty(text) == IF text = "" THEN None ELSE text

Mapped(f, Conversion(_)) == [id \in DOMAIN f |-> Conversion(f[id])]

-----------------------------------------------------------------------------
(* The wire. A missing location or description is sent as an empty text,   *)
(* in a message that is present, and arrives as an empty text; the name    *)
(* Empty is sent as an empty text and arrives as Empty.                    *)

WireDevice(device) ==
    [device EXCEPT !.description = UnwrapOrDefault(@)]

WireExecutor(executor) ==
    [executor EXCEPT !.name = NoneIfEmpty(UnwrapOrDefault(@))]

Wire(d) ==
    [d EXCEPT !.location = UnwrapOrDefault(@),
              !.devices = Mapped(@, WireDevice),
              !.executors = Mapped(@, WireExecutor)]

-----------------------------------------------------------------------------
(* LEA's form. It has no field for the tags of a device, and knows         *)
(* containers only. It is shown here as the descriptor it is saved as.     *)

Loadable(d) == \A id \in DOMAIN d.executors : d.executors[id].image # None

FormDevice(device) ==
    [device EXCEPT !.description = UnwrapOrDefault(@), !.tags = {}]

FormExecutor(executor) ==
    [executor EXCEPT !.name = NoneIfEmpty(UnwrapOrDefault(@)),
                     !.results = NoneIfEmpty(UnwrapOrDefault(@))]

Form(d) ==
    [d EXCEPT !.location = UnwrapOrDefault(@),
              !.bridge = NoneIfEmpty(UnwrapOrDefault(@)),
              !.devices = Mapped(@, FormDevice),
              !.executors = Mapped(@, FormExecutor)]

-----------------------------------------------------------------------------
(* Specification documents: optional texts where a descriptor has a name   *)
(* or Empty, and sample points that may be out of range.                   *)

SpecificationExecutor ==
    [image : Images \cup {None}, name : Optional, results : Texts \cup {None}]

SpecificationInterface == [name : Names, sample : SamplePoints \cup {None}]

Specification ==
    [location : Optional, bridge : Texts \cup {None},
     interfaces : Partial(InterfaceIds, SpecificationInterface),
     devices : Partial(DeviceIds, Device),
     executors : Partial(ExecutorIds, SpecificationExecutor)]

ConvertibleInterface(interface) ==
    interface.sample # None => IsSamplePoint(interface.sample)

Convertible(spec) ==
    \A id \in DOMAIN spec.interfaces : ConvertibleInterface(spec.interfaces[id])

ConvertExecutor(executor) ==
    [executor EXCEPT !.name = NoneIfEmpty(@)]

ConvertDocument(spec) == [spec EXCEPT !.executors = Mapped(@, ConvertExecutor)]

-----------------------------------------------------------------------------
(* Which of its own interfaces the devices of a descriptor name.           *)

UsedInterfaces(d) == {d.devices[id].interface : id \in DOMAIN d.devices}

InterfaceNames(d) == {d.interfaces[id].name : id \in DOMAIN d.interfaces}

Resolves(d) == UsedInterfaces(d) \subseteq DOMAIN d.interfaces

Without(f, S) == Restrict(f, DOMAIN f \ S)

With(f, id, value) == [x \in DOMAIN f \cup {id} |-> IF x = id THEN value ELSE f[x]]
=============================================================================
