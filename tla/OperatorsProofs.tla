-------------------------- MODULE OperatorsProofs --------------------------
(***************************************************************************)
(* Theorems about Operators: whatever commands of CLEO and pages of LEA    *)
(* run at the same time, each with its own copy, for any number of         *)
(* operators, peers and clusters.                                          *)
(*                                                                         *)
(* A client that nobody has overtaken holds what CARL has stored; one that *)
(* somebody has is marked stale, and the properties excuse what it does.   *)
(* So every client is described by what it holds (Holding), and, unless it *)
(* is stale, by how that agrees with what is stored (Current).  A store    *)
(* makes all others stale, so that only the first needs to be shown for    *)
(* them.                                                                   *)
(***************************************************************************)
EXTENDS Operators, TLAPS

-----------------------------------------------------------------------------
(* Partial functions.                                                      *)

LEMMA PartialIs ==
    ASSUME NEW S, NEW T, NEW f \in Partial(S, T)
    PROVE  /\ DOMAIN f \in SUBSET S /\ f = [x \in DOMAIN f |-> f[x]]
           /\ \A x \in DOMAIN f : f[x] \in T
  BY DEF Partial

LEMMA IsPartial ==
    ASSUME NEW S, NEW T, NEW D \in SUBSET S, NEW f \in [D -> T]
    PROVE  f \in Partial(S, T) /\ DOMAIN f = D
  BY DEF Partial

LEMMA EmptyPartial ==
    ASSUME NEW S, NEW T
    PROVE  <<>> \in Partial(S, T) /\ DOMAIN <<>> = {}
  <1>1. DOMAIN <<>> = {}
    OBVIOUS
  <1>2. <<>> \in [{} -> T]
    OBVIOUS
  <1> QED
    BY <1>1, <1>2, IsPartial

\* g is f with the value v for i, and f without X.
IsWith(g, f, i, v) ==
    /\ DOMAIN g = DOMAIN f \cup {i} /\ g[i] = v
    /\ \A x \in DOMAIN f \ {i} : g[x] = f[x]

IsWithout(g, f, X) == DOMAIN g = DOMAIN f \ X /\ \A x \in DOMAIN f \ X : g[x] = f[x]

LEMMA Added ==
    ASSUME NEW S, NEW T, NEW f \in Partial(S, T), NEW i \in S, NEW v \in T
    PROVE  With(f, i, v) \in Partial(S, T) /\ IsWith(With(f, i, v), f, i, v)
  <1> DEFINE D == DOMAIN f \cup {i}
             g == [x \in D |-> IF x = i THEN v ELSE f[x]]
  <1>1. With(f, i, v) = g
    BY DEF With
  <1>2. D \in SUBSET S /\ g \in [D -> T]
    BY PartialIs
  <1>3. g[i] = v /\ \A x \in DOMAIN f \ {i} : g[x] = f[x]
    OBVIOUS
  <1> HIDE DEF g, D
  <1>4. g \in Partial(S, T) /\ DOMAIN g = D
    BY <1>2, IsPartial
  <1> QED
    BY <1>1, <1>3, <1>4 DEF D, IsWith

LEMMA Dropped ==
    ASSUME NEW S, NEW T, NEW f \in Partial(S, T), NEW X
    PROVE  Without(f, X) \in Partial(S, T) /\ IsWithout(Without(f, X), f, X)
  <1> DEFINE D == DOMAIN f \ X
             g == [x \in D |-> f[x]]
  <1>1. Without(f, X) = g
    BY DEF Without, Restrict
  <1>2. D \in SUBSET S /\ g \in [D -> T]
    BY PartialIs
  <1>3. \A x \in D : g[x] = f[x]
    OBVIOUS
  <1> HIDE DEF g
  <1>4. g \in Partial(S, T) /\ DOMAIN g = D
    BY <1>2, IsPartial
  <1> QED
    BY <1>1, <1>3, <1>4 DEF IsWithout

-----------------------------------------------------------------------------
(* Conversions.                                                            *)

LEMMA TextsUnwrapped ==
    ASSUME NEW t \in Optional
    PROVE  /\ UnwrapOrDefault(t) \in Texts \cup {""} /\ UnwrapOrDefault(t) \in Optional
           /\ UnwrapOrDefault(t) # None
           /\ UnwrapOrDefault(UnwrapOrDefault(t)) = UnwrapOrDefault(t)
           /\ NoneIfEmpty(t) \in Texts \cup {None}
           /\ NoneIfEmpty(UnwrapOrDefault(t)) \in Texts \cup {None}
  BY TextAssumption DEF Optional, UnwrapOrDefault, NoneIfEmpty

LEMMA NamesUnwrapped ==
    ASSUME NEW t \in Texts \cup {None}
    PROVE  NoneIfEmpty(UnwrapOrDefault(t)) = t
  BY TextAssumption DEF UnwrapOrDefault, NoneIfEmpty

LEMMA MapsPartial ==
    ASSUME NEW S, NEW T, NEW f \in Partial(S, T), NEW g, DOMAIN g = DOMAIN f,
           g = [x \in DOMAIN g |-> g[x]], \A x \in DOMAIN f : g[x] \in T
    PROVE  g \in Partial(S, T)
  <1> DEFINE D == DOMAIN f
  <1>1. D \in SUBSET S
    BY PartialIs
  <1>2. g \in [D -> T]
    OBVIOUS
  <1> QED
    BY <1>1, <1>2, IsPartial

LEMMA FieldsOf ==
    ASSUME NEW d \in Descriptor
    PROVE  /\ d.location \in Optional /\ d.bridge \in Texts \cup {None}
           /\ d.interfaces \in Partial(InterfaceIds, Interface)
           /\ d.devices \in Partial(DeviceIds, Device)
           /\ d.executors \in Partial(ExecutorIds, Executor)
           /\ d = [location |-> d.location, bridge |-> d.bridge, interfaces |-> d.interfaces,
                   devices |-> d.devices, executors |-> d.executors]
  BY DEF Descriptor

\* The devices of a descriptor name the interfaces I.
AllName(devices, I) == \A x \in DOMAIN devices : devices[x].interface \in I

LEMMA ResolvesIs ==
    ASSUME NEW d
    PROVE  Resolves(d) <=> AllName(d.devices, DOMAIN d.interfaces)
  BY DEF Resolves, UsedInterfaces, AllName

LEMMA WiredDevice ==
    ASSUME NEW v \in Device
    PROVE  /\ WireDevice(v) \in Device /\ WireDevice(v).interface = v.interface
           /\ WireDevice(WireDevice(v)) = WireDevice(v)
  <1> DEFINE t == UnwrapOrDefault(v.description)
             w == [v EXCEPT !.description = t]
  <1>1. v.description \in Optional
    BY DEF Device
  <1>2. t \in Optional /\ UnwrapOrDefault(t) = t
    BY <1>1, TextsUnwrapped
  <1>3. WireDevice(v) = w
    BY DEF WireDevice
  <1> HIDE DEF t
  <1>4. w \in Device /\ w.interface = v.interface /\ w.description = t
    BY <1>2 DEF Device
  <1> HIDE DEF w
  <1>5. WireDevice(w) = w
    BY <1>2, <1>4 DEF WireDevice, Device
  <1> QED
    BY <1>3, <1>4, <1>5

LEMMA WiredExecutor ==
    ASSUME NEW v \in Executor
    PROVE  WireExecutor(v) = v
  <1> DEFINE t == NoneIfEmpty(UnwrapOrDefault(v.name))
  <1>1. t = v.name
    BY NamesUnwrapped DEF Executor
  <1>2. WireExecutor(v) = [v EXCEPT !.name = t]
    BY DEF WireExecutor
  <1> HIDE DEF t
  <1> QED
    BY <1>1, <1>2 DEF Executor

\* What a descriptor is on the wire, field by field.
LEMMA WireFields ==
    ASSUME NEW d \in Descriptor
    PROVE  /\ Wire(d).location = UnwrapOrDefault(d.location)
           /\ Wire(d).bridge = d.bridge /\ Wire(d).interfaces = d.interfaces
           /\ Wire(d).devices = [x \in DOMAIN d.devices |-> WireDevice(d.devices[x])]
           /\ Wire(d).executors = d.executors
           /\ Wire(d) = [location |-> Wire(d).location, bridge |-> Wire(d).bridge,
                         interfaces |-> Wire(d).interfaces, devices |-> Wire(d).devices,
                         executors |-> Wire(d).executors]
  <1> DEFINE t == UnwrapOrDefault(d.location)
             v == Mapped(d.devices, WireDevice)
             e == Mapped(d.executors, WireExecutor)
  <1>1. Wire(d) = [d EXCEPT !.location = t, !.devices = v, !.executors = e]
    BY DEF Wire
  <1>2. v = [x \in DOMAIN d.devices |-> WireDevice(d.devices[x])]
    BY DEF Mapped
  <1>3. e = d.executors
    <2>1. e = [x \in DOMAIN d.executors |-> WireExecutor(d.executors[x])]
      BY DEF Mapped
    <2>2. d.executors = [x \in DOMAIN d.executors |-> d.executors[x]]
          /\ \A x \in DOMAIN d.executors : d.executors[x] \in Executor
      BY FieldsOf, PartialIs
    <2> HIDE DEF e
    <2>3. \A x \in DOMAIN d.executors : WireExecutor(d.executors[x]) = d.executors[x]
      BY <2>2, WiredExecutor
    <2> QED
      BY <2>1, <2>2, <2>3
  <1> HIDE DEF t, v, e
  <1>4. d = [location |-> d.location, bridge |-> d.bridge, interfaces |-> d.interfaces,
             devices |-> d.devices, executors |-> d.executors]
    BY FieldsOf
  <1>5. Wire(d) = [location |-> t, bridge |-> d.bridge, interfaces |-> d.interfaces,
                   devices |-> v, executors |-> e]
    BY <1>1, <1>4
  <1> QED
    BY <1>2, <1>3, <1>5 DEF t

\* The wire keeps the type, the devices and what they name; a second trip
\* changes nothing.
LEMMA Wired ==
    ASSUME NEW d \in Descriptor
    PROVE  /\ Wire(d) \in Descriptor /\ Wire(Wire(d)) = Wire(d)
           /\ DOMAIN Wire(d).devices = DOMAIN d.devices
           /\ Resolves(Wire(d)) <=> Resolves(d)
  <1> DEFINE w == Wire(d)
             v == [x \in DOMAIN d.devices |-> WireDevice(d.devices[x])]
  <1>1. d.devices \in Partial(DeviceIds, Device) /\ d.location \in Optional
        /\ \A x \in DOMAIN d.devices : d.devices[x] \in Device
    BY FieldsOf, PartialIs
  <1>2. /\ DOMAIN v = DOMAIN d.devices /\ v = [x \in DOMAIN v |-> v[x]]
        /\ \A x \in DOMAIN d.devices : v[x] = WireDevice(d.devices[x])
    OBVIOUS
  <1> HIDE DEF v
  <1>3. \A x \in DOMAIN d.devices : /\ v[x] \in Device /\ v[x].interface = d.devices[x].interface
                                    /\ WireDevice(v[x]) = v[x]
    BY <1>1, <1>2, WiredDevice
  <1>4. v \in Partial(DeviceIds, Device)
    BY <1>1, <1>2, <1>3, MapsPartial
  <1>5. /\ w.location = UnwrapOrDefault(d.location) /\ w.bridge = d.bridge
        /\ w.interfaces = d.interfaces /\ w.devices = v /\ w.executors = d.executors
        /\ w = [location |-> w.location, bridge |-> w.bridge, interfaces |-> w.interfaces,
                devices |-> w.devices, executors |-> w.executors]
    BY WireFields DEF v
  <1>6. w.location \in Optional /\ UnwrapOrDefault(w.location) = w.location
    BY <1>1, <1>5, TextsUnwrapped
  <1> HIDE DEF w
  <1>7. w \in Descriptor
    BY <1>4, <1>5, <1>6, FieldsOf DEF Descriptor
  <1>8. [x \in DOMAIN w.devices |-> WireDevice(w.devices[x])] = w.devices
    BY <1>2, <1>3, <1>5
  <1>9. Wire(w) = w
    BY <1>5, <1>6, <1>7, <1>8, WireFields
  <1>10. Resolves(w) <=> Resolves(d)
    BY <1>2, <1>3, <1>5, ResolvesIs DEF AllName
  <1> QED
    BY <1>2, <1>5, <1>7, <1>9, <1>10 DEF w

LEMMA FormedDevice ==
    ASSUME NEW v \in Device
    PROVE  FormDevice(v) \in Device /\ FormDevice(v).interface = v.interface
  <1> DEFINE t == UnwrapOrDefault(v.description)
             none == {}
             w == [v EXCEPT !.description = t, !.tags = none]
  <1>1. t \in Optional /\ none \in SUBSET Texts
    BY TextsUnwrapped DEF Device
  <1>2. FormDevice(v) = w
    BY DEF FormDevice
  <1> HIDE DEF t, none
  <1>3. w \in Device /\ w.interface = v.interface
    BY <1>1 DEF Device
  <1> QED
    BY <1>2, <1>3

LEMMA FormedExecutor ==
    ASSUME NEW v \in Executor
    PROVE  FormExecutor(v) = v
  <1> DEFINE t == NoneIfEmpty(UnwrapOrDefault(v.name))
             u == NoneIfEmpty(UnwrapOrDefault(v.results))
  <1>1. t = v.name /\ u = v.results
    BY NamesUnwrapped DEF Executor
  <1>2. FormExecutor(v) = [v EXCEPT !.name = t, !.results = u]
    BY DEF FormExecutor
  <1> HIDE DEF t, u
  <1> QED
    BY <1>1, <1>2 DEF Executor

\* The form keeps the type, the devices and what they name.
LEMMA Formed ==
    ASSUME NEW d \in Descriptor
    PROVE  /\ Form(d) \in Descriptor
           /\ DOMAIN Form(d).devices = DOMAIN d.devices
           /\ Resolves(Form(d)) <=> Resolves(d)
  <1> DEFINE t == UnwrapOrDefault(d.location)
             b == NoneIfEmpty(UnwrapOrDefault(d.bridge))
             v == [x \in DOMAIN d.devices |-> FormDevice(d.devices[x])]
             e == [x \in DOMAIN d.executors |-> FormExecutor(d.executors[x])]
  <1>1. Form(d) = [d EXCEPT !.location = t, !.bridge = b, !.devices = v, !.executors = e]
    BY DEF Form, Mapped
  <1>2. /\ d.devices \in Partial(DeviceIds, Device) /\ d.location \in Optional
        /\ d.bridge \in Texts \cup {None} /\ d.executors \in Partial(ExecutorIds, Executor)
        /\ \A x \in DOMAIN d.devices : d.devices[x] \in Device
        /\ \A x \in DOMAIN d.executors : d.executors[x] \in Executor
        /\ d.executors = [x \in DOMAIN d.executors |-> d.executors[x]]
    BY FieldsOf, PartialIs
  <1>3. t \in Optional /\ b = d.bridge
    BY <1>2, TextsUnwrapped, NamesUnwrapped
  <1>4. e = d.executors
    BY <1>2, FormedExecutor
  <1>5. /\ DOMAIN v = DOMAIN d.devices /\ v = [x \in DOMAIN v |-> v[x]]
        /\ \A x \in DOMAIN d.devices : v[x] = FormDevice(d.devices[x])
    OBVIOUS
  <1> HIDE DEF t, b, v, e
  <1>6. \A x \in DOMAIN d.devices : v[x] \in Device /\ v[x].interface = d.devices[x].interface
    BY <1>2, <1>5, FormedDevice
  <1>7. v \in Partial(DeviceIds, Device)
    BY <1>2, <1>5, <1>6, MapsPartial
  <1>8. d = [location |-> d.location, bridge |-> d.bridge, interfaces |-> d.interfaces,
             devices |-> d.devices, executors |-> d.executors]
    BY FieldsOf
  <1>9. Form(d) = [location |-> t, bridge |-> b, interfaces |-> d.interfaces,
                   devices |-> v, executors |-> e]
    BY <1>1, <1>8
  <1>10. d.interfaces \in Partial(InterfaceIds, Interface)
    BY FieldsOf
  <1>11. Form(d) \in Descriptor
    BY <1>2, <1>3, <1>4, <1>7, <1>9, <1>10 DEF Descriptor
  <1>12. Form(d).devices = v /\ Form(d).interfaces = d.interfaces
    BY <1>9
  <1>13. Resolves(Form(d)) <=> Resolves(d)
    BY <1>5, <1>6, <1>12, ResolvesIs DEF AllName
  <1> QED
    BY <1>5, <1>11, <1>12, <1>13

LEMMA Empty ==
    ASSUME NEW t \in Optional
    PROVE  /\ EmptyDescriptor(t, None) \in Descriptor /\ Resolves(EmptyDescriptor(t, None))
           /\ DOMAIN EmptyDescriptor(t, None).devices = {}
  <1> DEFINE e == <<>>
             d == EmptyDescriptor(t, None)
  <1>1. /\ e \in Partial(InterfaceIds, Interface) /\ e \in Partial(DeviceIds, Device)
        /\ e \in Partial(ExecutorIds, Executor) /\ DOMAIN e = {}
    BY EmptyPartial
  <1>2. d = [location |-> t, bridge |-> None, interfaces |-> e, devices |-> e, executors |-> e]
    BY DEF EmptyDescriptor
  <1> HIDE DEF e, d
  <1>3. d \in Descriptor
    BY <1>1, <1>2 DEF Descriptor
  <1>4. d.devices = e
    BY <1>2
  <1>5. Resolves(d)
    BY <1>1, <1>4, ResolvesIs DEF AllName
  <1> QED
    BY <1>1, <1>3, <1>4, <1>5 DEF d

LEMMA ConvertedExecutor ==
    ASSUME NEW v \in SpecificationExecutor
    PROVE  ConvertExecutor(v) \in Executor
  <1> DEFINE t == NoneIfEmpty(v.name)
  <1>1. t \in Texts \cup {None}
    BY TextsUnwrapped DEF SpecificationExecutor
  <1>2. ConvertExecutor(v) = [v EXCEPT !.name = t]
    BY DEF ConvertExecutor
  <1> HIDE DEF t
  <1> QED
    BY <1>1, <1>2 DEF SpecificationExecutor, Executor

LEMMA ConvertedInterface ==
    ASSUME NEW v \in SpecificationInterface, ConvertibleInterface(v)
    PROVE  v \in Interface
  BY DEF SpecificationInterface, ConvertibleInterface, Interface

\* A document that can be converted becomes a descriptor that names what it did.
LEMMA Converted ==
    ASSUME NEW s \in Specification, Convertible(s)
    PROVE  ConvertDocument(s) \in Descriptor /\ (Resolves(ConvertDocument(s)) <=> Resolves(s))
  <1> DEFINE e == [x \in DOMAIN s.executors |-> ConvertExecutor(s.executors[x])]
             d == ConvertDocument(s)
  <1>1. d = [s EXCEPT !.executors = e]
    BY DEF ConvertDocument, Mapped
  <1>2. /\ s.location \in Optional /\ s.bridge \in Texts \cup {None}
        /\ s.interfaces \in Partial(InterfaceIds, SpecificationInterface)
        /\ s.devices \in Partial(DeviceIds, Device)
        /\ s.executors \in Partial(ExecutorIds, SpecificationExecutor)
        /\ s = [location |-> s.location, bridge |-> s.bridge, interfaces |-> s.interfaces,
                devices |-> s.devices, executors |-> s.executors]
    BY DEF Specification
  <1>3. /\ DOMAIN e = DOMAIN s.executors /\ e = [x \in DOMAIN e |-> e[x]]
        /\ \A x \in DOMAIN s.executors : e[x] = ConvertExecutor(s.executors[x])
    OBVIOUS
  <1> HIDE DEF e, d
  <1>4. e \in Partial(ExecutorIds, Executor)
    <2>1. DOMAIN s.executors \in SUBSET ExecutorIds
          /\ \A x \in DOMAIN s.executors : s.executors[x] \in SpecificationExecutor
      BY <1>2, PartialIs
    <2>2. e \in [DOMAIN s.executors -> Executor]
      BY <1>3, <2>1, ConvertedExecutor
    <2> QED
      BY <2>1, <2>2, IsPartial
  <1>5. s.interfaces \in Partial(InterfaceIds, Interface)
    <2> DEFINE f == s.interfaces
    <2>1. /\ DOMAIN f \in SUBSET InterfaceIds /\ f = [x \in DOMAIN f |-> f[x]]
          /\ \A x \in DOMAIN f : f[x] \in SpecificationInterface
      BY <1>2, PartialIs
    <2>2. \A x \in DOMAIN f : f[x] \in Interface
      BY <2>1, ConvertedInterface DEF Convertible
    <2> HIDE DEF f
    <2>3. f \in [DOMAIN f -> Interface]
      BY <2>1, <2>2
    <2> QED
      BY <2>1, <2>3, IsPartial DEF f
  <1>6. d = [location |-> s.location, bridge |-> s.bridge, interfaces |-> s.interfaces,
             devices |-> s.devices, executors |-> e]
    BY <1>1, <1>2
  <1>7. d \in Descriptor
    BY <1>2, <1>4, <1>5, <1>6 DEF Descriptor
  <1>8. d.devices = s.devices /\ d.interfaces = s.interfaces
    BY <1>6
  <1>9. Resolves(d) <=> Resolves(s)
    BY <1>8, ResolvesIs
  <1> QED
    BY <1>7, <1>9 DEF d

-----------------------------------------------------------------------------
(* Edits of a descriptor.                                                  *)

LEMMA DevicesReplaced ==
    ASSUME NEW d \in Descriptor, NEW v \in Partial(DeviceIds, Device)
    PROVE  /\ [d EXCEPT !.devices = v] \in Descriptor /\ [d EXCEPT !.devices = v].devices = v
           /\ [d EXCEPT !.devices = v].interfaces = d.interfaces
  BY DEF Descriptor

LEMMA InterfacesReplaced ==
    ASSUME NEW d \in Descriptor, NEW v \in Partial(InterfaceIds, Interface)
    PROVE  /\ [d EXCEPT !.interfaces = v] \in Descriptor
           /\ [d EXCEPT !.interfaces = v].devices = d.devices
           /\ [d EXCEPT !.interfaces = v].interfaces = v
  BY DEF Descriptor

LEMMA ExecutorsReplaced ==
    ASSUME NEW d \in Descriptor, NEW v \in Partial(ExecutorIds, Executor)
    PROVE  /\ [d EXCEPT !.executors = v] \in Descriptor
           /\ [d EXCEPT !.executors = v].devices = d.devices
           /\ [d EXCEPT !.executors = v].interfaces = d.interfaces
  BY DEF Descriptor

LEMMA GeneralReplaced ==
    ASSUME NEW d \in Descriptor, NEW t \in Optional, NEW b \in Texts \cup {None}
    PROVE  /\ [d EXCEPT !.location = t] \in Descriptor
           /\ [d EXCEPT !.location = t].devices = d.devices
           /\ [d EXCEPT !.location = t].interfaces = d.interfaces
           /\ [d EXCEPT !.bridge = b] \in Descriptor
           /\ [d EXCEPT !.bridge = b].devices = d.devices
           /\ [d EXCEPT !.bridge = b].interfaces = d.interfaces
  BY DEF Descriptor

\* e is d edited: its devices, which are those of D, find their interfaces if
\* those of d do.
Edited(d, e, D) ==
    /\ e \in Descriptor /\ DOMAIN e.devices = D
    /\ Resolves(d) => Resolves(e)

LEMMA DeviceSet ==
    ASSUME NEW d \in Descriptor, NEW id \in DeviceIds, NEW v \in Device,
           \/ v.interface \in DOMAIN d.interfaces
           \/ id \in DOMAIN d.devices /\ v.interface = d.devices[id].interface
    PROVE  Edited(d, [d EXCEPT !.devices = With(@, id, v)], DOMAIN d.devices \cup {id})
  <1> DEFINE f == d.devices
             g == With(f, id, v)
             e == [d EXCEPT !.devices = g]
  <1>1. f \in Partial(DeviceIds, Device)
    BY FieldsOf
  <1> HIDE DEF f
  <1>2. g \in Partial(DeviceIds, Device) /\ IsWith(g, f, id, v)
    BY <1>1, Added
  <1> HIDE DEF g
  <1>3. /\ g \in Partial(DeviceIds, Device) /\ DOMAIN g = DOMAIN f \cup {id} /\ g[id] = v
        /\ \A x \in DOMAIN f \ {id} : g[x] = f[x]
    BY <1>2 DEF IsWith
  <1>4. e \in Descriptor /\ e.devices = g /\ e.interfaces = d.interfaces
    BY <1>3, DevicesReplaced
  <1> HIDE DEF e
  <1>5. ASSUME Resolves(d) PROVE Resolves(e)
    <2>1. \A x \in DOMAIN f : f[x].interface \in DOMAIN d.interfaces
      BY <1>5, ResolvesIs DEF AllName, f
    <2>2. v.interface \in DOMAIN d.interfaces
      BY <2>1 DEF f
    <2>3. \A x \in DOMAIN g : g[x].interface \in DOMAIN d.interfaces
      BY <1>3, <2>1, <2>2
    <2> QED
      BY <1>4, <2>3, ResolvesIs DEF AllName
  <1> QED
    BY <1>3, <1>4, <1>5 DEF Edited, e, g, f

LEMMA DeviceDropped ==
    ASSUME NEW d \in Descriptor, NEW id
    PROVE  Edited(d, [d EXCEPT !.devices = Without(@, {id})], DOMAIN d.devices \ {id})
  <1> DEFINE f == d.devices
             X == {id}
             g == Without(f, X)
             e == [d EXCEPT !.devices = g]
  <1>1. f \in Partial(DeviceIds, Device)
    BY FieldsOf
  <1> HIDE DEF f, X
  <1>2. g \in Partial(DeviceIds, Device) /\ IsWithout(g, f, X)
    BY <1>1, Dropped
  <1> HIDE DEF g
  <1>3. /\ g \in Partial(DeviceIds, Device) /\ DOMAIN g = DOMAIN f \ X
        /\ \A x \in DOMAIN f \ X : g[x] = f[x]
    BY <1>2 DEF IsWithout
  <1>4. e \in Descriptor /\ e.devices = g /\ e.interfaces = d.interfaces
    BY <1>3, DevicesReplaced
  <1> HIDE DEF e
  <1>5. Resolves(d) => Resolves(e)
    BY <1>3, <1>4, ResolvesIs DEF AllName, f
  <1> QED
    BY <1>3, <1>4, <1>5 DEF Edited, e, g, f, X

LEMMA InterfaceSet ==
    ASSUME NEW d \in Descriptor, NEW id \in InterfaceIds, NEW v \in Interface
    PROVE  Edited(d, [d EXCEPT !.interfaces = With(@, id, v)], DOMAIN d.devices)
  <1> DEFINE f == d.interfaces
             g == With(f, id, v)
             e == [d EXCEPT !.interfaces = g]
  <1>1. f \in Partial(InterfaceIds, Interface)
    BY FieldsOf
  <1> HIDE DEF f
  <1>2. g \in Partial(InterfaceIds, Interface) /\ IsWith(g, f, id, v)
    BY <1>1, Added
  <1> HIDE DEF g
  <1>3. g \in Partial(InterfaceIds, Interface) /\ DOMAIN g = DOMAIN f \cup {id}
    BY <1>2 DEF IsWith
  <1>4. e \in Descriptor /\ e.devices = d.devices /\ e.interfaces = g
    BY <1>3, InterfacesReplaced
  <1> HIDE DEF e
  <1>5. Resolves(d) => Resolves(e)
    BY <1>3, <1>4, ResolvesIs DEF AllName, f
  <1> QED
    BY <1>4, <1>5 DEF Edited, e, g, f

LEMMA InterfaceDropped ==
    ASSUME NEW d \in Descriptor, NEW id, id \notin UsedInterfaces(d)
    PROVE  Edited(d, [d EXCEPT !.interfaces = Without(@, {id})], DOMAIN d.devices)
  <1> DEFINE f == d.interfaces
             X == {id}
             g == Without(f, X)
             e == [d EXCEPT !.interfaces = g]
  <1>1. f \in Partial(InterfaceIds, Interface)
    BY FieldsOf
  <1> HIDE DEF f, X
  <1>2. g \in Partial(InterfaceIds, Interface) /\ IsWithout(g, f, X)
    BY <1>1, Dropped
  <1> HIDE DEF g
  <1>3. g \in Partial(InterfaceIds, Interface) /\ DOMAIN g = DOMAIN f \ X
    BY <1>2 DEF IsWithout
  <1>4. e \in Descriptor /\ e.devices = d.devices /\ e.interfaces = g
    BY <1>3, InterfacesReplaced
  <1> HIDE DEF e
  <1>5. ASSUME Resolves(d) PROVE Resolves(e)
    <2>1. \A x \in DOMAIN d.devices : d.devices[x].interface \in DOMAIN f
      BY <1>5, ResolvesIs DEF AllName, f
    <2>2. \A x \in DOMAIN d.devices : d.devices[x].interface \notin X
      BY DEF UsedInterfaces, X
    <2>3. \A x \in DOMAIN d.devices : d.devices[x].interface \in DOMAIN g
      BY <1>3, <2>1, <2>2
    <2> QED
      BY <1>4, <2>3, ResolvesIs DEF AllName
  <1> QED
    BY <1>4, <1>5 DEF Edited, e, g, f, X

LEMMA ExecutorsEdited ==
    ASSUME NEW d \in Descriptor, NEW v \in Partial(ExecutorIds, Executor)
    PROVE  Edited(d, [d EXCEPT !.executors = v], DOMAIN d.devices)
  BY ExecutorsReplaced, ResolvesIs DEF Edited

LEMMA ExecutorSet ==
    ASSUME NEW d \in Descriptor, NEW id \in ExecutorIds, NEW v \in Executor
    PROVE  Edited(d, [d EXCEPT !.executors = With(@, id, v)], DOMAIN d.devices)
  <1> DEFINE g == With(d.executors, id, v)
  <1>1. g \in Partial(ExecutorIds, Executor)
    BY FieldsOf, Added
  <1> HIDE DEF g
  <1>2. Edited(d, [d EXCEPT !.executors = g], DOMAIN d.devices)
    BY <1>1, ExecutorsEdited
  <1> QED
    BY <1>2 DEF g

LEMMA ExecutorsDropped ==
    ASSUME NEW d \in Descriptor, NEW X
    PROVE  Edited(d, [d EXCEPT !.executors = Without(@, X)], DOMAIN d.devices)
  <1> DEFINE g == Without(d.executors, X)
  <1>1. g \in Partial(ExecutorIds, Executor)
    BY FieldsOf, Dropped
  <1> HIDE DEF g
  <1>2. Edited(d, [d EXCEPT !.executors = g], DOMAIN d.devices)
    BY <1>1, ExecutorsEdited
  <1> QED
    BY <1>2 DEF g

LEMMA GeneralEdited ==
    ASSUME NEW d \in Descriptor, NEW t \in Optional, NEW b \in Texts \cup {None}
    PROVE  /\ Edited(d, [d EXCEPT !.location = t], DOMAIN d.devices)
           /\ Edited(d, [d EXCEPT !.bridge = b], DOMAIN d.devices)
  BY GeneralReplaced, ResolvesIs DEF Edited

-----------------------------------------------------------------------------
(* The inductive invariant.                                                *)

Editing == Commands \cup {"delete peer", "delete peer checked", "delete device",
                          "delete device checked", "form loading", "form"}

AboutDevice  == {"delete device", "delete device checked"}
AboutCluster == {"create cluster", "create cluster listed", "delete cluster",
                 "cluster loading", "cluster form"}

\* The commands and pages whose copy has all devices of what is stored.
Copying == Editing \ {"form"}

\* Those that have seen that their cluster is not deployed.
Undeployed == AboutCluster \ {"cluster loading"}

FileOK(file) ==
    /\ file \in Seq(Document) \ {<<>>}
    /\ \A i \in DOMAIN file : "spec" \in DOMAIN file[i] => Convertible(file[i].spec)

Fields == {"at", "peer", "target", "copy", "used", "known", "file", "stale", "unchecked"}

\* What client r holds, overtaken or not; M are the misapplied peers.
Holding(r, M) ==
    /\ DOMAIN r = Fields /\ r = [x \in Fields |-> r[x]]
    /\ r.at \in Ats /\ r.used \subseteq DeviceIds /\ r.known \subseteq DeviceIds
    /\ r.stale \in BOOLEAN /\ r.unchecked \in BOOLEAN
    /\ r.at \in Editing =>
        r.peer \in Peers /\ r.copy \in Descriptor /\ (Resolves(r.copy) \/ r.peer \in M)
    /\ r.at \in AboutDevice => r.target \in DeviceIds
    /\ r.at \in AboutCluster => r.target \in Clusters
    /\ r.at = "apply" => FileOK(r.file)
    /\ r.at = "cluster loading" => r.unchecked = TRUE

\* What is stored: descriptors ds, the devices C of clusters, deployments D and
\* the devices X that are excused. How a client r that has not been overtaken
\* agrees with it.
Current(r, ds, C, D, X) ==
    /\ r.at \in Copying => ds[r.peer] # None /\ DOMAIN r.copy.devices = DOMAIN ds[r.peer].devices
    /\ r.at = "delete peer checked" => DOMAIN r.copy.devices \cap C = {}
    /\ r.at = "delete device checked" => r.target \notin C
    /\ r.at = "form" /\ r.unchecked = FALSE =>
        /\ DOMAIN r.copy.devices \cap C \subseteq r.used \cup X
        /\ ds[r.peer] # None => DOMAIN ds[r.peer].devices \cap C \subseteq DOMAIN r.copy.devices \cup X
    /\ r.at = "create cluster listed" => r.known = DevicesOf(ds)
    /\ r.at \in {"cluster loading", "cluster form"} =>
        r.known \subseteq DevicesOf(ds) /\ r.used \ r.known \subseteq X
    /\ r.at \in Undeployed => r.target \notin D

ClientOK(r, M, ds, C, D, X) == Holding(r, M) /\ (r.stale = FALSE => Current(r, ds, C, D, X))

ClientsInv ==
    /\ DOMAIN clients = Clients /\ clients = [c \in Clients |-> clients[c]]
    /\ \A c \in Clients :
        ClientOK(clients[c], misapplied, descriptors, InClusters(configurations), deployed, excused)

\* Descriptors ds, configurations cs and deployments D that may be stored, with
\* the misapplied peers M and the excused devices X.
StoredOK(ds, cs, D, M, X) ==
    /\ ds \in [Peers -> Descriptor \cup {None}] /\ cs \in [Clusters -> (SUBSET DeviceIds) \cup {None}]
    /\ D \subseteq Clusters
    /\ \A p \in Peers : ds[p] # None => Wire(ds[p]) = ds[p] /\ (Resolves(ds[p]) \/ p \in M)
    /\ Missing(ds, cs) \subseteq X

IInv ==
    /\ StoredOK(descriptors, configurations, deployed, misapplied, excused)
    /\ ops \in 0 .. MaxOps
    /\ ClientsInv

-----------------------------------------------------------------------------
(* What is stored.                                                         *)

LEMMA DevicesOfIs ==
    ASSUME NEW ds, NEW x
    PROVE  x \in DevicesOf(ds) <=> \E p \in Peers : ds[p] # None /\ x \in DOMAIN ds[p].devices
  BY DEF DevicesOf

LEMMA InClustersIs ==
    ASSUME NEW cs, NEW x
    PROVE  x \in InClusters(cs) <=> \E k \in Clusters : cs[k] # None /\ x \in cs[k]
  BY DEF InClusters

\* The devices that are lost when p has the descriptor d, or none.
LEMMA DevicesAfter ==
    ASSUME NEW ds, DOMAIN ds = Peers, NEW p \in Peers, NEW d, NEW x \in DevicesOf(ds),
           x \notin DevicesOf([ds EXCEPT ![p] = d])
    PROVE  /\ ds[p] # None /\ x \in DOMAIN ds[p].devices
           /\ d = None \/ x \notin DOMAIN d.devices
  <1> DEFINE e == [ds EXCEPT ![p] = d]
  <1>1. e[p] = d /\ \A q \in Peers \ {p} : e[q] = ds[q]
    OBVIOUS
  <1> HIDE DEF e
  <1>2. \A q \in Peers : e[q] # None => x \notin DOMAIN e[q].devices
    BY DevicesOfIs DEF e
  <1>3. PICK q \in Peers : ds[q] # None /\ x \in DOMAIN ds[q].devices
    BY DevicesOfIs
  <1>4. q = p
    BY <1>1, <1>2, <1>3
  <1> QED
    BY <1>1, <1>2, <1>3, <1>4

LEMMA ClustersAfter ==
    ASSUME NEW cs, DOMAIN cs = Clusters, NEW k \in Clusters, NEW v,
           NEW x \in InClusters([cs EXCEPT ![k] = v])
    PROVE  x \in InClusters(cs) \/ (v # None /\ x \in v)
  <1> DEFINE e == [cs EXCEPT ![k] = v]
  <1>1. e[k] = v /\ \A j \in Clusters \ {k} : e[j] = cs[j]
    OBVIOUS
  <1> HIDE DEF e
  <1>2. PICK j \in Clusters : e[j] # None /\ x \in e[j]
    BY InClustersIs DEF e
  <1> QED
    BY <1>1, <1>2, InClustersIs

LEMMA NoDescriptor == ASSUME NEW d \in Descriptor PROVE d # None
  BY OperatorsAssumption

LEMMA NoDevices == ASSUME NEW devices \in SUBSET DeviceIds PROVE devices # None
  BY OperatorsAssumption

\* A descriptor is stored.
LEMMA DescriptorStored ==
    ASSUME NEW ds, NEW cs, NEW D, NEW M, NEW X, StoredOK(ds, cs, D, M, X),
           NEW p \in Peers, NEW d \in Descriptor, NEW M2, NEW X2, M \subseteq M2, X \subseteq X2,
           Resolves(d) \/ p \in M2, Missing([ds EXCEPT ![p] = Wire(d)], cs) \subseteq X2
    PROVE  StoredOK([ds EXCEPT ![p] = Wire(d)], cs, D, M2, X2)
  <1> DEFINE w == Wire(d)
             e == [ds EXCEPT ![p] = w]
  <1>1. w \in Descriptor /\ Wire(w) = w /\ (Resolves(w) <=> Resolves(d))
    BY Wired
  <1> HIDE DEF w
  <1>2. ds \in [Peers -> Descriptor \cup {None}]
    BY DEF StoredOK
  <1>3. /\ e \in [Peers -> Descriptor \cup {None}] /\ e[p] = w
        /\ \A q \in Peers \ {p} : e[q] = ds[q]
    BY <1>1, <1>2
  <1>4. Missing(e, cs) \subseteq X2
    BY DEF w
  <1> HIDE DEF e
  <1>5. ASSUME NEW q \in Peers, e[q] # None
        PROVE  Wire(e[q]) = e[q] /\ (Resolves(e[q]) \/ q \in M2)
    <2>1. CASE q = p
      BY <1>1, <1>3, <2>1
    <2>2. CASE q # p
      BY <1>3, <1>5, <2>2 DEF StoredOK
    <2> QED
      BY <2>1, <2>2
  <1>6. StoredOK(e, cs, D, M2, X2)
    BY <1>3, <1>4, <1>5 DEF StoredOK
  <1> QED
    BY <1>6 DEF e, w

LEMMA DescriptorDeleted ==
    ASSUME NEW ds, NEW cs, NEW D, NEW M, NEW X, StoredOK(ds, cs, D, M, X),
           NEW p \in Peers, NEW X2, X \subseteq X2, Missing([ds EXCEPT ![p] = None], cs) \subseteq X2
    PROVE  StoredOK([ds EXCEPT ![p] = None], cs, D, M, X2)
  <1> DEFINE e == [ds EXCEPT ![p] = None]
  <1>1. /\ e \in [Peers -> Descriptor \cup {None}] /\ e[p] = None
        /\ \A q \in Peers \ {p} : e[q] = ds[q]
    BY DEF StoredOK
  <1>2. Missing(e, cs) \subseteq X2
    OBVIOUS
  <1> HIDE DEF e
  <1>3. \A q \in Peers : e[q] # None => q # p /\ e[q] = ds[q]
    BY <1>1
  <1>4. StoredOK(e, cs, D, M, X2)
    BY <1>1, <1>2, <1>3 DEF StoredOK
  <1> QED
    BY <1>4 DEF e

LEMMA ConfigurationStored ==
    ASSUME NEW ds, NEW cs, NEW D, NEW M, NEW X, StoredOK(ds, cs, D, M, X),
           NEW k \in Clusters, NEW v \in (SUBSET DeviceIds) \cup {None}, NEW X2, X \subseteq X2,
           Missing(ds, [cs EXCEPT ![k] = v]) \subseteq X2
    PROVE  StoredOK(ds, [cs EXCEPT ![k] = v], D, M, X2)
  <1> DEFINE e == [cs EXCEPT ![k] = v]
  <1>1. e \in [Clusters -> (SUBSET DeviceIds) \cup {None}]
    BY DEF StoredOK
  <1>2. Missing(ds, e) \subseteq X2
    OBVIOUS
  <1> HIDE DEF e
  <1>3. StoredOK(ds, e, D, M, X2)
    BY <1>1, <1>2 DEF StoredOK
  <1> QED
    BY <1>3 DEF e

-----------------------------------------------------------------------------
(* Steps of a client.                                                      *)

LEMMA Here ==
    ASSUME IInv, NEW c \in Clients
    PROVE  /\ Holding(clients[c], misapplied)
           /\ clients[c].stale = FALSE =>
                Current(clients[c], descriptors, InClusters(configurations), deployed, excused)
           /\ DOMAIN clients = Clients
           /\ StoredOK(descriptors, configurations, deployed, misapplied, excused)
           /\ ops \in 0 .. MaxOps /\ MaxOps \in Nat
  BY OperatorsAssumption DEF IInv, ClientsInv, ClientOK

LEMMA IdleOK ==
    ASSUME NEW M, NEW ds, NEW C, NEW D, NEW X
    PROVE  ClientOK(Idle, M, ds, C, D, X)
  <1>1. Idle.at = "idle" /\ Idle.used = {} /\ Idle.known = {} /\ Idle.stale = FALSE
        /\ Idle.unchecked = FALSE /\ DOMAIN Idle = Fields /\ Idle = [x \in Fields |-> Idle[x]]
    BY DEF Idle, Fields
  <1>2. Holding(Idle, M)
    BY <1>1 DEF Holding, Ats, Commands, Editing, AboutDevice, AboutCluster
  <1>3. Current(Idle, ds, C, D, X)
    BY <1>1 DEF Current, Copying, Editing, Commands, Undeployed, AboutCluster
  <1> QED
    BY <1>2, <1>3 DEF ClientOK

LEMMA Begun ==
    ASSUME IInv, Begin
    PROVE  ops' \in 0 .. MaxOps
  BY OperatorsAssumption DEF IInv, Begin

LEMMA Unbegun ==
    ASSUME IInv, ops' = ops
    PROVE  ops' \in 0 .. MaxOps
  BY DEF IInv

\* A client that stores nothing.
LEMMA ReadStep ==
    ASSUME IInv, NEW c \in Clients, NEW r, Holds(c, r), Frame, ops' \in 0 .. MaxOps,
           ClientOK(r, misapplied, descriptors, InClusters(configurations), deployed, excused)
    PROVE  IInv'
  <1>1. UNCHANGED <<descriptors, configurations, deployed, misapplied, excused>>
    BY DEF Frame
  <1>2. /\ clients' = [clients EXCEPT ![c] = r] /\ DOMAIN clients = Clients
        /\ clients = [b \in Clients |-> clients[b]]
    BY DEF Holds, IInv, ClientsInv
  <1>3. /\ DOMAIN clients' = Clients /\ clients' = [b \in Clients |-> clients'[b]]
        /\ clients'[c] = r /\ \A b \in Clients \ {c} : clients'[b] = clients[b]
    BY <1>2
  <1>4. StoredOK(descriptors, configurations, deployed, misapplied, excused)'
    BY <1>1, Here
  <1>5. ASSUME NEW b \in Clients
        PROVE  ClientOK(clients'[b], misapplied, descriptors, InClusters(configurations), deployed,
                        excused)
    BY <1>3 DEF IInv, ClientsInv
  <1>6. InClusters(configurations)' = InClusters(configurations)
    BY <1>1
  <1> QED
    BY <1>1, <1>3, <1>4, <1>5, <1>6 DEF IInv, ClientsInv

\* An overtaken client holds what it held.
LEMMA MadeStale ==
    ASSUME NEW r, NEW M, NEW M2, M \subseteq M2, Holding(r, M)
    PROVE  /\ Holding(r, M2) /\ Holding([r EXCEPT !.stale = TRUE], M2)
           /\ [r EXCEPT !.stale = TRUE].stale = TRUE
  <1> DEFINE yes == TRUE
             s == [r EXCEPT !.stale = yes]
  <1>1. yes \in BOOLEAN /\ yes = TRUE
    OBVIOUS
  <1> HIDE DEF yes
  <1>2. DOMAIN r = Fields /\ r = [x \in Fields |-> r[x]]
    BY DEF Holding
  <1>3. /\ DOMAIN s = Fields /\ s = [x \in Fields |-> s[x]] /\ s.at = r.at /\ s.peer = r.peer
        /\ s.target = r.target /\ s.copy = r.copy /\ s.used = r.used /\ s.known = r.known
        /\ s.file = r.file /\ s.stale = yes /\ s.unchecked = r.unchecked
    BY <1>2 DEF Fields
  <1> HIDE DEF s
  <1>4. Holding(s, M2)
    BY <1>1, <1>3 DEF Holding
  <1>5. Holding(r, M2)
    BY DEF Holding
  <1> QED
    BY <1>1, <1>3, <1>4, <1>5 DEF s, yes

LEMMA IdleCurrent ==
    ASSUME NEW r, r.at = "idle", NEW ds, NEW C, NEW D, NEW X
    PROVE  Current(r, ds, C, D, X)
  BY DEF Current, Copying, Editing, Commands, Undeployed, AboutCluster

\* A client that stores something.
LEMMA StoreStep ==
    ASSUME IInv, NEW c \in Clients, NEW r, HoldsAfterStore(c, r), ops' \in 0 .. MaxOps,
           StoredOK(descriptors', configurations', deployed', misapplied', excused'),
           misapplied \subseteq misapplied',
           ClientOK(r, misapplied', descriptors', InClusters(configurations'), deployed', excused')
    PROVE  IInv'
  <1> DEFINE ok(x) == ClientOK(x, misapplied', descriptors', InClusters(configurations'),
                               deployed', excused')
  <1>1. /\ DOMAIN clients' = Clients /\ clients' = [b \in Clients |-> clients'[b]]
        /\ clients'[c] = r
    BY DEF HoldsAfterStore
  <1>2. ASSUME NEW b \in Clients PROVE ok(clients'[b])
    <2> DEFINE s == [clients[b] EXCEPT !.stale = TRUE]
    <2>1. /\ Holding(clients[b], misapplied') /\ Holding(s, misapplied') /\ s.stale = TRUE
      BY Here, MadeStale
    <2>2. CASE b = c
      BY <1>1, <2>2
    <2>3. CASE b # c /\ clients[b].at = "idle"
      <3>1. clients'[b] = clients[b]
        BY <2>3 DEF HoldsAfterStore
      <3>2. Current(clients[b], descriptors', InClusters(configurations'), deployed', excused')
        BY <2>3, IdleCurrent
      <3> QED
        BY <2>1, <3>1, <3>2 DEF ClientOK
    <2>4. CASE b # c /\ clients[b].at # "idle"
      <3>1. clients'[b] = s
        BY <2>4 DEF HoldsAfterStore
      <3> HIDE DEF s
      <3>2. s.stale # FALSE
        BY <2>1
      <3> QED
        BY <2>1, <3>1, <3>2 DEF ClientOK
    <2> QED
      BY <2>2, <2>3, <2>4
  <1>3. InClusters(configurations)' = InClusters(configurations')
    BY DEF InClusters
  <1> QED
    BY <1>1, <1>2, <1>3 DEF IInv, ClientsInv

\* What a store excuses.
ExcusesMissing ==
    excused \subseteq excused' /\ Missing(descriptors', configurations') \subseteq excused'

LEMMA ExcusedAlways ==
    ASSUME Excuse(TRUE)
    PROVE  ExcusesMissing
  BY DEF Excuse, ExcusesMissing

LEMMA ExcusedIf ==
    ASSUME NEW c, Excuse(OutOfDate(c)),
           ~ OutOfDate(c) => Missing(descriptors', configurations') \subseteq excused
    PROVE  ExcusesMissing
  <1>1. CASE OutOfDate(c)
    BY <1>1 DEF Excuse, ExcusesMissing
  <1>2. CASE ~ OutOfDate(c)
    BY <1>2 DEF Excuse, ExcusesMissing
  <1> QED
    BY <1>1, <1>2

LEMMA InDate ==
    ASSUME IInv, NEW c \in Clients, ~ OutOfDate(c)
    PROVE  /\ clients[c].stale = FALSE /\ clients[c].unchecked = FALSE
           /\ Current(clients[c], descriptors, InClusters(configurations), deployed, excused)
  <1>1. clients[c].stale \in BOOLEAN /\ clients[c].unchecked \in BOOLEAN
    BY Here DEF Holding
  <1>2. clients[c].stale = FALSE /\ clients[c].unchecked = FALSE
    BY <1>1 DEF OutOfDate
  <1> QED
    BY <1>2, Here

\* A store that loses no device of a cluster leaves none missing.
LEMMA NothingLost ==
    ASSUME IInv, NEW p \in Peers, NEW d, d = None \/ d \in Descriptor,
           descriptors' = [descriptors EXCEPT ![p] = IF d = None THEN None ELSE Wire(d)],
           configurations' = configurations,
           \A x \in InClusters(configurations) :
               descriptors[p] # None /\ x \in DOMAIN descriptors[p].devices =>
                   x \in excused \/ (d # None /\ x \in DOMAIN d.devices)
    PROVE  Missing(descriptors', configurations') \subseteq excused
  <1> DEFINE w == IF d = None THEN None ELSE Wire(d)
  <1>1. d # None => w = Wire(d) /\ DOMAIN w.devices = DOMAIN d.devices
    BY Wired
  <1>2. d = None => w = None
    OBVIOUS
  <1>3. descriptors' = [descriptors EXCEPT ![p] = w]
    OBVIOUS
  <1> HIDE DEF w
  <1>4. DOMAIN descriptors = Peers /\ Missing(descriptors, configurations) \subseteq excused
    BY DEF IInv, StoredOK
  <1>5. ASSUME NEW x \in InClusters(configurations), x \notin DevicesOf(descriptors')
        PROVE  x \in excused
    <2>1. CASE x \notin DevicesOf(descriptors)
      BY <1>4, <2>1 DEF Missing
    <2>2. CASE x \in DevicesOf(descriptors)
      <3>1. /\ descriptors[p] # None /\ x \in DOMAIN descriptors[p].devices
            /\ w = None \/ x \notin DOMAIN w.devices
        BY <1>3, <1>4, <1>5, <2>2, DevicesAfter
      <3>2. x \in excused \/ (d # None /\ x \in DOMAIN d.devices)
        BY <3>1
      <3>3. d # None => w # None
        BY <1>1, Wired, NoDescriptor
      <3> QED
        BY <1>1, <3>1, <3>2, <3>3
    <2> QED
      BY <2>1, <2>2
  <1>6. InClusters(configurations') = InClusters(configurations)
    BY DEF InClusters
  <1> QED
    BY <1>5, <1>6 DEF Missing

LEMMA PeerStored ==
    ASSUME IInv, NEW c \in Clients, NEW p \in Peers, NEW d \in Descriptor, NEW r,
           descriptors' = [descriptors EXCEPT ![p] = Wire(d)], HoldsAfterStore(c, r),
           UNCHANGED <<configurations, deployed>>, ExcusesMissing,
           misapplied \subseteq misapplied', Resolves(d) \/ p \in misapplied', ops' \in 0 .. MaxOps,
           ClientOK(r, misapplied', descriptors', InClusters(configurations'), deployed', excused')
    PROVE  IInv'
  <1>1. StoredOK(descriptors, configurations, deployed, misapplied, excused)
    BY Here
  <1>2. excused \subseteq excused'
        /\ Missing([descriptors EXCEPT ![p] = Wire(d)], configurations) \subseteq excused'
    BY DEF ExcusesMissing
  <1>3. StoredOK([descriptors EXCEPT ![p] = Wire(d)], configurations, deployed, misapplied', excused')
    BY <1>1, <1>2, DescriptorStored
  <1>4. StoredOK(descriptors', configurations', deployed', misapplied', excused')
    BY <1>3
  <1> QED
    BY <1>4, StoreStep

LEMMA PeerDeleted ==
    ASSUME IInv, NEW c \in Clients, NEW p \in Peers, DeletePeerDescriptor(c, p),
           ~ OutOfDate(c) =>
               \A x \in InClusters(configurations) :
                   descriptors[p] # None /\ x \in DOMAIN descriptors[p].devices => x \in excused
    PROVE  IInv'
  <1>1. /\ descriptors' = [descriptors EXCEPT ![p] = None] /\ HoldsAfterStore(c, Idle)
        /\ UNCHANGED <<configurations, deployed, ops, misapplied>> /\ Excuse(OutOfDate(c))
    BY DEF DeletePeerDescriptor
  <1>2. ~ OutOfDate(c) => Missing(descriptors', configurations') \subseteq excused
    BY <1>1, NothingLost
  <1>3. ExcusesMissing
    BY <1>1, <1>2, ExcusedIf
  <1>4. StoredOK(descriptors, configurations, deployed, misapplied, excused)
    BY Here
  <1>5. excused \subseteq excused'
        /\ Missing([descriptors EXCEPT ![p] = None], configurations) \subseteq excused'
    BY <1>1, <1>3 DEF ExcusesMissing
  <1>6. StoredOK([descriptors EXCEPT ![p] = None], configurations, deployed, misapplied, excused')
    BY <1>4, <1>5, DescriptorDeleted
  <1>7. StoredOK(descriptors', configurations', deployed', misapplied', excused')
    BY <1>1, <1>6
  <1>8. ops' \in 0 .. MaxOps /\ misapplied \subseteq misapplied'
    BY <1>1, Unbegun
  <1>9. ClientOK(Idle, misapplied', descriptors', InClusters(configurations'), deployed', excused')
    BY IdleOK
  <1> QED
    BY <1>1, <1>7, <1>8, <1>9, StoreStep

LEMMA ClusterStored ==
    ASSUME IInv, NEW c \in Clients, NEW k \in Clusters, NEW v \in SUBSET DeviceIds, NEW r,
           configurations' = [configurations EXCEPT ![k] = v], HoldsAfterStore(c, r),
           UNCHANGED <<descriptors, deployed, misapplied>>, ExcusesMissing, ops' \in 0 .. MaxOps,
           ClientOK(r, misapplied', descriptors', InClusters(configurations'), deployed', excused')
    PROVE  IInv'
  <1>1. StoredOK(descriptors, configurations, deployed, misapplied, excused)
    BY Here
  <1>2. excused \subseteq excused'
        /\ Missing(descriptors, [configurations EXCEPT ![k] = v]) \subseteq excused'
    BY DEF ExcusesMissing
  <1>3. StoredOK(descriptors, [configurations EXCEPT ![k] = v], deployed, misapplied, excused')
    BY <1>1, <1>2, ConfigurationStored
  <1>4. StoredOK(descriptors', configurations', deployed', misapplied', excused')
    BY <1>3
  <1> QED
    BY <1>4, StoreStep

\* A configuration of devices that exist, or are excused, leaves none missing.
LEMMA NothingAdded ==
    ASSUME IInv, NEW k \in Clusters, NEW v, v = None \/ v \in SUBSET DeviceIds,
           configurations' = [configurations EXCEPT ![k] = v], descriptors' = descriptors,
           v # None => v \subseteq DevicesOf(descriptors) \cup excused
    PROVE  Missing(descriptors', configurations') \subseteq excused
  <1>1. DOMAIN configurations = Clusters /\ Missing(descriptors, configurations) \subseteq excused
    BY DEF IInv, StoredOK
  <1>2. \A x \in InClusters(configurations') : x \in InClusters(configurations) \/ (v # None /\ x \in v)
    BY <1>1, ClustersAfter
  <1>3. DevicesOf(descriptors') = DevicesOf(descriptors)
    BY DEF DevicesOf
  <1> QED
    BY <1>1, <1>2, <1>3 DEF Missing

LEMMA ConfigurationDeleted ==
    ASSUME IInv, NEW c \in Clients, NEW k \in Clusters, DeleteClusterConfiguration(c, k)
    PROVE  IInv'
  <1>1. /\ HoldsAfterStore(c, Idle)
        /\ UNCHANGED <<descriptors, deployed, ops, misapplied, excused>>
    BY DEF DeleteClusterConfiguration
  <1>2. ops' \in 0 .. MaxOps /\ misapplied \subseteq misapplied'
    BY <1>1, Unbegun
  <1>3. ClientOK(Idle, misapplied', descriptors', InClusters(configurations'), deployed', excused')
    BY IdleOK
  <1>4. StoredOK(descriptors, configurations, deployed, misapplied, excused)
    BY Here
  <1>5. StoredOK(descriptors', configurations', deployed', misapplied', excused')
    <2>1. CASE k \in deployed
      BY <1>1, <1>4, <2>1 DEF DeleteClusterConfiguration
    <2>2. CASE k \notin deployed
      <3>1. configurations' = [configurations EXCEPT ![k] = None]
        BY <2>2 DEF DeleteClusterConfiguration
      <3>2. Missing(descriptors', configurations') \subseteq excused
        BY <1>1, <3>1, NothingAdded
      <3>3. Missing(descriptors, [configurations EXCEPT ![k] = None]) \subseteq excused
        BY <1>1, <3>1, <3>2
      <3>4. StoredOK(descriptors, [configurations EXCEPT ![k] = None], deployed, misapplied, excused)
        <4> DEFINE v == None
        <4>1. v \in (SUBSET DeviceIds) \cup {None} /\ excused \subseteq excused
              /\ Missing(descriptors, [configurations EXCEPT ![k] = v]) \subseteq excused
          BY <3>3
        <4> HIDE DEF v
        <4>2. StoredOK(descriptors, [configurations EXCEPT ![k] = v], deployed, misapplied, excused)
          BY <1>4, <4>1, ConfigurationStored
        <4> QED
          BY <4>2 DEF v
      <3> QED
        BY <1>1, <3>1, <3>4
    <2> QED
      BY <2>1, <2>2
  <1> QED
    BY <1>1, <1>2, <1>3, <1>5, StoreStep

-----------------------------------------------------------------------------
(* CLEO: commands that edit one descriptor.                                *)

LEMMA EditStored ==
    ASSUME IInv, NEW c \in Clients, clients[c].at \in Copying, NEW e, NEW D, StoreEdited(c, e),
           Edited(clients[c].copy, e, D),
           ~ OutOfDate(c) =>
               \A x \in DOMAIN clients[c].copy.devices : x \in D \/ x \notin InClusters(configurations)
    PROVE  IInv'
  <1> DEFINE p == clients[c].peer
             d == clients[c].copy
  <1>1. /\ p \in Peers /\ d \in Descriptor /\ (Resolves(d) \/ p \in misapplied)
    BY Here DEF Holding, Copying
  <1>2. e \in Descriptor /\ DOMAIN e.devices = D /\ (Resolves(d) => Resolves(e))
    BY DEF Edited
  <1>3. /\ descriptors' = [descriptors EXCEPT ![p] = Wire(e)] /\ HoldsAfterStore(c, Idle)
        /\ UNCHANGED <<configurations, deployed, ops, misapplied>> /\ Excuse(OutOfDate(c))
    BY DEF StoreEdited, StorePeerDescriptor
  <1>4. ~ OutOfDate(c) => Missing(descriptors', configurations') \subseteq excused
    <2> SUFFICES ASSUME ~ OutOfDate(c) PROVE Missing(descriptors', configurations') \subseteq excused
      OBVIOUS
    <2>1. DOMAIN d.devices = DOMAIN descriptors[p].devices
      BY InDate DEF Current
    <2>2. \A x \in InClusters(configurations) :
              descriptors[p] # None /\ x \in DOMAIN descriptors[p].devices => x \in DOMAIN e.devices
      BY <1>2, <2>1
    <2>3. e # None
      BY <1>2, NoDescriptor
    <2> HIDE DEF p, d
    <2>4. descriptors' = [descriptors EXCEPT ![p] = IF e = None THEN None ELSE Wire(e)]
      BY <1>3, <2>3
    <2> QED
      BY <1>1, <1>2, <1>3, <2>2, <2>3, <2>4, NothingLost
  <1>5. ExcusesMissing
    BY <1>3, <1>4, ExcusedIf
  <1>6. ops' \in 0 .. MaxOps
    BY <1>3, Unbegun
  <1>7. ClientOK(Idle, misapplied', descriptors', InClusters(configurations'), deployed', excused')
    BY IdleOK
  <1>8. Resolves(e) \/ p \in misapplied'
    BY <1>1, <1>2, <1>3
  <1> HIDE DEF p, d
  <1>9. UNCHANGED <<configurations, deployed>> /\ misapplied \subseteq misapplied'
    BY <1>3
  <1> QED
    BY <1>1, <1>2, <1>3, <1>5, <1>6, <1>7, <1>8, <1>9, PeerStored

LEMMA CopyHere ==
    ASSUME IInv, NEW c \in Clients, clients[c].at \in Editing
    PROVE  clients[c].copy \in Descriptor /\ clients[c].peer \in Peers
  BY Here DEF Holding

LEMMA CreatePeerStep ==
    ASSUME IInv, NEW c \in Clients, NEW p \in Peers, CreatePeer(c, p)
    PROVE  IInv'
  <1>1. PICK t \in Optional : StorePeerDescriptor(c, p, EmptyDescriptor(t, None), Idle, TRUE)
    BY DEF CreatePeer
  <1> DEFINE d == EmptyDescriptor(t, None)
  <1>2. d \in Descriptor /\ Resolves(d)
    BY Empty
  <1> HIDE DEF d
  <1>3. /\ descriptors' = [descriptors EXCEPT ![p] = Wire(d)] /\ HoldsAfterStore(c, Idle)
        /\ UNCHANGED <<configurations, deployed>> /\ Excuse(TRUE)
    BY <1>1 DEF StorePeerDescriptor, d
  <1>4. misapplied' = misapplied /\ ops' \in 0 .. MaxOps
    BY Begun DEF CreatePeer
  <1>5. ClientOK(Idle, misapplied', descriptors', InClusters(configurations'), deployed', excused')
    BY IdleOK
  <1> QED
    BY <1>2, <1>3, <1>4, <1>5, ExcusedAlways, PeerStored

LEMMA CreateDeviceStep ==
    ASSUME IInv, NEW c \in Clients, CreateDevice(c)
    PROVE  IInv'
  <1> DEFINE copy == clients[c].copy
  <1>1. clients[c].at \in Copying
    BY DEF CreateDevice, Copying, Editing, Commands
  <1>2. copy \in Descriptor
    BY <1>1, CopyHere DEF Copying
  <1> DEFINE known(id) == DOMAIN copy.interfaces
                          \cup {copy.devices[x].interface : x \in DOMAIN copy.devices \cap {id}}
  <1>3. PICK id \in DeviceIds, t \in Optional, tags \in SUBSET Texts :
            \E i \in known(id) : StoreEdited(c, [copy EXCEPT !.devices =
                With(@, id, [interface |-> i, description |-> t, tags |-> tags])])
    BY DEF CreateDevice
  <1>4. PICK i \in known(id) : StoreEdited(c, [copy EXCEPT !.devices =
            With(@, id, [interface |-> i, description |-> t, tags |-> tags])])
    BY <1>3
  <1> DEFINE v == [interface |-> i, description |-> t, tags |-> tags]
             e == [copy EXCEPT !.devices = With(@, id, v)]
  <1>5. /\ \/ i \in DOMAIN copy.interfaces
           \/ id \in DOMAIN copy.devices /\ i = copy.devices[id].interface
    OBVIOUS
  <1>6. i \in InterfaceIds
    <2>1. DOMAIN copy.interfaces \subseteq InterfaceIds
          /\ \A x \in DOMAIN copy.devices : copy.devices[x] \in Device
      BY <1>2, FieldsOf, PartialIs
    <2> QED
      BY <1>5, <2>1 DEF Device
  <1>7. v \in Device /\ v.interface = i
    BY <1>6 DEF Device
  <1>8. StoreEdited(c, e)
    BY <1>4
  <1> HIDE DEF v, copy
  <1>9. Edited(copy, e, DOMAIN copy.devices \cup {id})
    BY <1>2, <1>5, <1>7, DeviceSet
  <1> HIDE DEF e
  <1>10. \A x \in DOMAIN copy.devices : x \in DOMAIN copy.devices \cup {id}
    OBVIOUS
  <1> QED
    BY <1>1, <1>8, <1>9, <1>10, EditStored DEF copy

LEMMA EditKeepsDevices ==
    ASSUME IInv, NEW c \in Clients, clients[c].at \in Copying, NEW e, StoreEdited(c, e),
           Edited(clients[c].copy, e, DOMAIN clients[c].copy.devices)
    PROVE  IInv'
  BY EditStored

LEMMA CleoEditsStep ==
    ASSUME IInv, NEW c \in Clients, CleoEdits(c)
    PROVE  IInv'
  <1> DEFINE copy == clients[c].copy
  <1>1. CASE CreateNetworkInterface(c)
    <2>1. clients[c].at \in Copying
      BY <1>1 DEF CreateNetworkInterface, Copying, Editing, Commands
    <2>2. PICK id \in InterfaceIds, i \in Interface :
              StoreEdited(c, [copy EXCEPT !.interfaces = With(@, id, i)])
      BY <1>1 DEF CreateNetworkInterface, FreshInterfaces
    <2>3. copy \in Descriptor
      BY <2>1, CopyHere DEF Copying
    <2> HIDE DEF copy
    <2>4. Edited(copy, [copy EXCEPT !.interfaces = With(@, id, i)], DOMAIN copy.devices)
      BY <2>3, InterfaceSet
    <2> QED
      BY <2>1, <2>2, <2>4, EditKeepsDevices DEF copy
  <1>2. CASE DeleteNetworkInterface(c)
    <2>1. clients[c].at \in Copying
      BY <1>2 DEF DeleteNetworkInterface, Copying, Editing, Commands
    <2>2. PICK id \in DOMAIN copy.interfaces \ UsedInterfaces(copy) :
              StoreEdited(c, [copy EXCEPT !.interfaces = Without(@, {id})])
      BY <1>2 DEF DeleteNetworkInterface
    <2>3. copy \in Descriptor
      BY <2>1, CopyHere DEF Copying
    <2> HIDE DEF copy
    <2>4. Edited(copy, [copy EXCEPT !.interfaces = Without(@, {id})], DOMAIN copy.devices)
      BY <2>3, InterfaceDropped
    <2> QED
      BY <2>1, <2>2, <2>4, EditKeepsDevices DEF copy
  <1>3. CASE CreateExecutor(c)
    <2>1. clients[c].at \in Copying
      BY <1>3 DEF CreateExecutor, Copying, Editing, Commands
    <2>2. PICK id \in ExecutorIds, i \in Executor :
              StoreEdited(c, [copy EXCEPT !.executors = With(@, id, i)])
      BY <1>3 DEF CreateExecutor, FreshExecutors
    <2>3. copy \in Descriptor
      BY <2>1, CopyHere DEF Copying
    <2> HIDE DEF copy
    <2>4. Edited(copy, [copy EXCEPT !.executors = With(@, id, i)], DOMAIN copy.devices)
      BY <2>3, ExecutorSet
    <2> QED
      BY <2>1, <2>2, <2>4, EditKeepsDevices DEF copy
  <1>4. CASE DeleteExecutor(c)
    <2>1. clients[c].at \in Copying
      BY <1>4 DEF DeleteExecutor, Copying, Editing, Commands
    <2>2. PICK X : StoreEdited(c, [copy EXCEPT !.executors = Without(@, X)])
      BY <1>4 DEF DeleteExecutor
    <2>3. copy \in Descriptor
      BY <2>1, CopyHere DEF Copying
    <2> HIDE DEF copy
    <2>4. Edited(copy, [copy EXCEPT !.executors = Without(@, X)], DOMAIN copy.devices)
      BY <2>3, ExecutorsDropped
    <2> QED
      BY <2>1, <2>2, <2>4, EditKeepsDevices DEF copy
  <1> QED
    BY <1>1, <1>2, <1>3, <1>4, CreateDeviceStep DEF CleoEdits

-----------------------------------------------------------------------------
(* CLEO: reading a descriptor, and looking at the clusters.                *)

\* What is stored of a peer, and what a client may hold of it.
LEMMA StoredHere ==
    ASSUME IInv, NEW p \in Stored
    PROVE  /\ p \in Peers /\ descriptors[p] # None /\ descriptors[p] \in Descriptor
           /\ Resolves(descriptors[p]) \/ p \in misapplied
  BY DEF IInv, StoredOK, Stored

\* Client r holds the copy d of the descriptor of p, which it just read.
HoldsCopy(r, p, d) ==
    /\ DOMAIN r = Fields /\ r = [x \in Fields |-> r[x]]
    /\ r.peer = p /\ r.copy = d /\ r.used = {} /\ r.known = {}
    /\ r.stale = FALSE /\ r.unchecked = FALSE

LEMMA CopyRead ==
    ASSUME IInv, NEW p \in Stored, NEW d \in Descriptor, NEW r, HoldsCopy(r, p, d),
           DOMAIN d.devices = DOMAIN descriptors[p].devices, Resolves(descriptors[p]) => Resolves(d),
           r.at \in Copying \ {"delete peer checked", "delete device checked"},
           r.at = "delete device" => r.target \in DeviceIds
    PROVE  ClientOK(r, misapplied, descriptors, InClusters(configurations), deployed, excused)
  <1>1. Holding(r, misapplied)
    BY StoredHere DEF Holding, HoldsCopy, Ats, Copying, Editing, Commands, AboutDevice, AboutCluster
  <1>2. Current(r, descriptors, InClusters(configurations), deployed, excused)
    BY StoredHere DEF Current, HoldsCopy, Copying, Editing, Commands, Undeployed, AboutCluster
  <1> QED
    BY <1>1, <1>2 DEF ClientOK

LEMMA WiredHere ==
    ASSUME IInv, NEW p \in Stored
    PROVE  /\ Wire(descriptors[p]) \in Descriptor
           /\ DOMAIN Wire(descriptors[p]).devices = DOMAIN descriptors[p].devices
           /\ Resolves(descriptors[p]) => Resolves(Wire(descriptors[p]))
  BY StoredHere, Wired

LEMMA IdleFields ==
    /\ DOMAIN Idle = Fields /\ Idle = [x \in Fields |-> Idle[x]]
    /\ Idle.at = "idle" /\ Idle.used = {} /\ Idle.known = {} /\ Idle.stale = FALSE
    /\ Idle.unchecked = FALSE
  BY DEF Idle, Fields

LEMMA GetPeerDescriptorStep ==
    ASSUME IInv, NEW c \in Clients, NEW p \in Peers, GetPeerDescriptor(c, p)
    PROVE  IInv'
  <1> DEFINE w == Wire(descriptors[p])
  <1>1. p \in Stored /\ Begin /\ Frame
    BY DEF GetPeerDescriptor
  <1>2. /\ w \in Descriptor /\ DOMAIN w.devices = DOMAIN descriptors[p].devices
        /\ Resolves(descriptors[p]) => Resolves(w)
    BY <1>1, WiredHere
  <1>3. PICK a \in Commands : Holds(c, [Idle EXCEPT !.at = a, !.peer = p, !.copy = w])
    BY DEF GetPeerDescriptor
  <1> DEFINE r == [Idle EXCEPT !.at = a, !.peer = p, !.copy = w]
  <1> HIDE DEF w
  <1>4. HoldsCopy(r, p, w) /\ r.at = a
    BY IdleFields DEF HoldsCopy, Fields
  <1> HIDE DEF r
  <1>5. a \in Copying \ {"delete peer checked", "delete device checked"} /\ a # "delete device"
    BY DEF Copying, Editing, Commands
  <1>6. ClientOK(r, misapplied, descriptors, InClusters(configurations), deployed, excused)
    BY <1>1, <1>2, <1>4, <1>5, CopyRead
  <1> QED
    BY <1>1, <1>3, <1>6, Begun, ReadStep DEF r

LEMMA BeginDeletePeerStep ==
    ASSUME IInv, NEW c \in Clients, NEW p \in Peers, BeginDeletePeer(c, p)
    PROVE  IInv'
  <1> DEFINE w == Wire(descriptors[p])
             a == "delete peer"
             r == [Idle EXCEPT !.at = a, !.peer = p, !.copy = w]
  <1>1. p \in Stored /\ Begin /\ Frame /\ Holds(c, r)
    BY DEF BeginDeletePeer
  <1>2. /\ w \in Descriptor /\ DOMAIN w.devices = DOMAIN descriptors[p].devices
        /\ Resolves(descriptors[p]) => Resolves(w)
    BY <1>1, WiredHere
  <1>3. a \in Copying \ {"delete peer checked", "delete device checked"} /\ a # "delete device"
    BY DEF Copying, Editing, Commands
  <1> HIDE DEF w, a
  <1>4. HoldsCopy(r, p, w) /\ r.at = a
    BY IdleFields DEF HoldsCopy, Fields
  <1> HIDE DEF r
  <1>5. ClientOK(r, misapplied, descriptors, InClusters(configurations), deployed, excused)
    BY <1>1, <1>2, <1>3, <1>4, CopyRead
  <1> QED
    BY <1>1, <1>5, Begun, ReadStep

LEMMA BeginDeleteDeviceStep ==
    ASSUME IInv, NEW c \in Clients, NEW p \in Peers, BeginDeleteDevice(c, p)
    PROVE  IInv'
  <1> DEFINE w == Wire(descriptors[p])
             a == "delete device"
  <1>1. p \in Stored /\ Begin /\ Frame
    BY DEF BeginDeleteDevice
  <1>2. /\ w \in Descriptor /\ DOMAIN w.devices = DOMAIN descriptors[p].devices
        /\ Resolves(descriptors[p]) => Resolves(w)
    BY <1>1, WiredHere
  <1>3. PICK id \in DOMAIN descriptors[p].devices :
            Holds(c, [Idle EXCEPT !.at = a, !.peer = p, !.target = id, !.copy = w])
    BY DEF BeginDeleteDevice
  <1> DEFINE r == [Idle EXCEPT !.at = a, !.peer = p, !.target = id, !.copy = w]
  <1>4. a \in Copying \ {"delete peer checked", "delete device checked"}
    BY DEF Copying, Editing, Commands
  <1>5. id \in DeviceIds
    BY <1>1, StoredHere, FieldsOf, PartialIs
  <1> HIDE DEF w, a
  <1>6. HoldsCopy(r, p, w) /\ r.at = a /\ r.target = id
    BY IdleFields DEF HoldsCopy, Fields
  <1> HIDE DEF r
  <1>7. ClientOK(r, misapplied, descriptors, InClusters(configurations), deployed, excused)
    BY <1>1, <1>2, <1>4, <1>5, <1>6, CopyRead
  <1> QED
    BY <1>1, <1>3, <1>7, Begun, ReadStep DEF r

\* The client goes on at a; everything else it holds stays.
LEMMA GoesOn ==
    ASSUME NEW r, NEW M, Holding(r, M), NEW a
    PROVE  LET s == [r EXCEPT !.at = a]
           IN /\ DOMAIN s = Fields /\ s = [x \in Fields |-> s[x]] /\ s.at = a /\ s.peer = r.peer
              /\ s.target = r.target /\ s.copy = r.copy /\ s.used = r.used /\ s.known = r.known
              /\ s.file = r.file /\ s.stale = r.stale /\ s.unchecked = r.unchecked
  <1>1. DOMAIN r = Fields /\ r = [x \in Fields |-> r[x]]
    BY DEF Holding
  <1> QED
    BY <1>1 DEF Fields

LEMMA PeerChecked ==
    ASSUME IInv, NEW c \in Clients, clients[c].at = "delete peer",
           DOMAIN clients[c].copy.devices \cap InClusters(configurations) = {}
    PROVE  ClientOK([clients[c] EXCEPT !.at = "delete peer checked"], misapplied, descriptors,
                    InClusters(configurations), deployed, excused)
  <1> DEFINE r == clients[c]
             a == "delete peer checked"
             s == [r EXCEPT !.at = a]
  <1>1. Holding(r, misapplied) /\ (r.stale = FALSE =>
            Current(r, descriptors, InClusters(configurations), deployed, excused))
    BY Here
  <1>2. r.at \in Copying /\ r.at = "delete peer"
        /\ DOMAIN r.copy.devices \cap InClusters(configurations) = {}
    BY DEF Copying, Editing
  <1> HIDE DEF r, a
  <1>3. /\ DOMAIN s = Fields /\ s = [x \in Fields |-> s[x]] /\ s.at = a /\ s.peer = r.peer
        /\ s.target = r.target /\ s.copy = r.copy /\ s.used = r.used /\ s.known = r.known
        /\ s.file = r.file /\ s.stale = r.stale /\ s.unchecked = r.unchecked
    BY <1>1, GoesOn
  <1> HIDE DEF s
  <1>4. Holding(s, misapplied)
    BY <1>1, <1>2, <1>3 DEF Holding, a, Ats, Copying, Editing, Commands, AboutDevice, AboutCluster
  <1>5. ASSUME s.stale = FALSE
        PROVE  Current(s, descriptors, InClusters(configurations), deployed, excused)
    BY <1>1, <1>2, <1>3, <1>5
       DEF Current, a, Copying, Editing, Commands, Undeployed, AboutCluster
  <1> QED
    BY <1>4, <1>5 DEF ClientOK, s, r, a

LEMMA DeviceChecked ==
    ASSUME IInv, NEW c \in Clients, clients[c].at = "delete device",
           clients[c].target \notin InClusters(configurations)
    PROVE  ClientOK([clients[c] EXCEPT !.at = "delete device checked"], misapplied, descriptors,
                    InClusters(configurations), deployed, excused)
  <1> DEFINE r == clients[c]
             a == "delete device checked"
             s == [r EXCEPT !.at = a]
  <1>1. Holding(r, misapplied) /\ (r.stale = FALSE =>
            Current(r, descriptors, InClusters(configurations), deployed, excused))
    BY Here
  <1>2. r.at \in Copying /\ r.at = "delete device" /\ r.target \notin InClusters(configurations)
    BY DEF Copying, Editing
  <1> HIDE DEF r, a
  <1>3. /\ DOMAIN s = Fields /\ s = [x \in Fields |-> s[x]] /\ s.at = a /\ s.peer = r.peer
        /\ s.target = r.target /\ s.copy = r.copy /\ s.used = r.used /\ s.known = r.known
        /\ s.file = r.file /\ s.stale = r.stale /\ s.unchecked = r.unchecked
    BY <1>1, GoesOn
  <1> HIDE DEF s
  <1>4. Holding(s, misapplied)
    BY <1>1, <1>2, <1>3 DEF Holding, a, Ats, Copying, Editing, Commands, AboutDevice, AboutCluster
  <1>5. ASSUME s.stale = FALSE
        PROVE  Current(s, descriptors, InClusters(configurations), deployed, excused)
    BY <1>1, <1>2, <1>3, <1>5
       DEF Current, a, Copying, Editing, Commands, Undeployed, AboutCluster
  <1> QED
    BY <1>4, <1>5 DEF ClientOK, s, r, a

LEMMA ListClusterConfigurationsStep ==
    ASSUME IInv, NEW c \in Clients, ListClusterConfigurations(c)
    PROVE  IInv'
  <1>1. Frame /\ ops' \in 0 .. MaxOps
    BY Unbegun DEF ListClusterConfigurations
  <1>2. CASE Holds(c, Idle)
    BY <1>1, <1>2, IdleOK, ReadStep
  <1>3. CASE clients[c].at = "delete peer" /\ ~ Holds(c, Idle)
    <2>1. /\ Holds(c, [clients[c] EXCEPT !.at = "delete peer checked"])
          /\ DOMAIN clients[c].copy.devices \cap InClusters(configurations) = {}
      BY <1>3 DEF ListClusterConfigurations
    <2> QED
      BY <1>1, <1>3, <2>1, PeerChecked, ReadStep
  <1>4. CASE clients[c].at = "delete device" /\ ~ Holds(c, Idle)
    <2>1. /\ Holds(c, [clients[c] EXCEPT !.at = "delete device checked"])
          /\ clients[c].target \notin InClusters(configurations)
      BY <1>4 DEF ListClusterConfigurations
    <2> QED
      BY <1>1, <1>4, <2>1, DeviceChecked, ReadStep
  <1> QED
    BY <1>2, <1>3, <1>4 DEF ListClusterConfigurations

LEMMA DeletePeerStep ==
    ASSUME IInv, NEW c \in Clients, DeletePeer(c)
    PROVE  IInv'
  <1>1. clients[c].at = "delete peer checked" /\ clients[c].at \in Copying
        /\ DeletePeerDescriptor(c, clients[c].peer)
    BY DEF DeletePeer, Copying, Editing
  <1>2. clients[c].peer \in Peers
    BY <1>1, CopyHere DEF Copying
  <1>3. ASSUME ~ OutOfDate(c)
        PROVE  \A x \in InClusters(configurations) : x \notin DOMAIN descriptors[clients[c].peer].devices
    BY <1>1, <1>3, InDate DEF Current
  <1> QED
    BY <1>1, <1>2, <1>3, PeerDeleted

LEMMA DeleteDeviceStep ==
    ASSUME IInv, NEW c \in Clients, DeleteDevice(c)
    PROVE  IInv'
  <1> DEFINE copy == clients[c].copy
             id == clients[c].target
             e == [copy EXCEPT !.devices = Without(@, {id})]
  <1>1. clients[c].at = "delete device checked" /\ clients[c].at \in Copying /\ StoreEdited(c, e)
    BY DEF DeleteDevice, Copying, Editing
  <1>2. copy \in Descriptor
    BY <1>1, CopyHere DEF Copying
  <1>3. ~ OutOfDate(c) => id \notin InClusters(configurations)
    BY <1>1, InDate DEF Current
  <1> HIDE DEF copy, id
  <1>4. Edited(copy, e, DOMAIN copy.devices \ {id})
    BY <1>2, DeviceDropped
  <1> HIDE DEF e
  <1>5. ~ OutOfDate(c) => \A x \in DOMAIN copy.devices :
            x \in DOMAIN copy.devices \ {id} \/ x \notin InClusters(configurations)
    BY <1>3
  <1> QED
    BY <1>1, <1>4, <1>5, EditStored DEF copy

-----------------------------------------------------------------------------
(* CLEO: clusters and specification files.                                 *)

LEMMA ListClusterDeploymentsStep ==
    ASSUME IInv, NEW c \in Clients, NEW k \in Clusters, ListClusterDeployments(c, k)
    PROVE  IInv'
  <1>1. Begin /\ Frame /\ k \notin deployed
    BY DEF ListClusterDeployments
  <1>2. PICK a \in {"create cluster", "delete cluster"} : Holds(c, [Idle EXCEPT !.at = a, !.target = k])
    BY DEF ListClusterDeployments
  <1> DEFINE r == [Idle EXCEPT !.at = a, !.target = k]
  <1>3. /\ DOMAIN r = Fields /\ r = [x \in Fields |-> r[x]] /\ r.at = a /\ r.target = k
        /\ r.used = {} /\ r.known = {} /\ r.stale = FALSE /\ r.unchecked = FALSE
    BY IdleFields DEF Fields
  <1> HIDE DEF r
  <1>4. Holding(r, misapplied)
    BY <1>2, <1>3 DEF Holding, Ats, Editing, Commands, AboutDevice, AboutCluster
  <1>5. Current(r, descriptors, InClusters(configurations), deployed, excused)
    BY <1>1, <1>2, <1>3 DEF Current, Copying, Editing, Commands
  <1> QED
    BY <1>1, <1>2, <1>4, <1>5, Begun, ReadStep DEF ClientOK, r

LEMMA DevicesAreIds ==
    ASSUME IInv
    PROVE  DevicesOf(descriptors) \subseteq DeviceIds
  <1> SUFFICES ASSUME NEW x \in DevicesOf(descriptors) PROVE x \in DeviceIds
    OBVIOUS
  <1>1. PICK p \in Peers : descriptors[p] # None /\ x \in DOMAIN descriptors[p].devices
    BY DevicesOfIs
  <1>2. descriptors[p] \in Descriptor
    BY <1>1, StoredHere DEF Stored
  <1> QED
    BY <1>1, <1>2, FieldsOf, PartialIs

LEMMA ListDevicesStep ==
    ASSUME IInv, NEW c \in Clients, ListDevices(c)
    PROVE  IInv'
  <1> DEFINE r == clients[c]
             a == "create cluster listed"
             known == DevicesOf(descriptors)
             s == [r EXCEPT !.at = a, !.known = known]
  <1>1. Frame /\ ops' = ops /\ r.at = "create cluster" /\ Holds(c, s)
    BY DEF ListDevices
  <1>2. Holding(r, misapplied) /\ (r.stale = FALSE =>
            Current(r, descriptors, InClusters(configurations), deployed, excused))
    BY Here
  <1>3. DOMAIN r = Fields /\ r = [x \in Fields |-> r[x]]
    BY <1>2 DEF Holding
  <1>4. known \subseteq DeviceIds
    BY DevicesAreIds
  <1> HIDE DEF r, a, known
  <1>5. /\ DOMAIN s = Fields /\ s = [x \in Fields |-> s[x]] /\ s.at = a /\ s.target = r.target
        /\ s.used = r.used /\ s.known = known /\ s.stale = r.stale /\ s.unchecked = r.unchecked
    BY <1>3 DEF Fields
  <1> HIDE DEF s
  <1>6. Holding(s, misapplied)
    BY <1>1, <1>2, <1>4, <1>5 DEF Holding, a, Ats, Editing, Commands, AboutDevice, AboutCluster
  <1>7. ASSUME s.stale = FALSE
        PROVE  Current(s, descriptors, InClusters(configurations), deployed, excused)
    BY <1>1, <1>2, <1>5, <1>7
       DEF Current, a, known, Copying, Editing, Commands, Undeployed, AboutCluster
  <1>8. ClientOK(s, misapplied, descriptors, InClusters(configurations), deployed, excused)
    BY <1>6, <1>7 DEF ClientOK
  <1> QED
    BY <1>1, <1>8, Unbegun, ReadStep

LEMMA CreateClusterStep ==
    ASSUME IInv, NEW c \in Clients, CreateCluster(c)
    PROVE  IInv'
  <1> DEFINE k == clients[c].target
  <1>1. PICK v \in SUBSET clients[c].known :
            StoreClusterConfiguration(c, k, v, Idle, OutOfDate(c))
    BY DEF CreateCluster
  <1>2. clients[c].at = "create cluster listed" /\ misapplied' = misapplied /\ ops' = ops
    BY DEF CreateCluster
  <1>3. k \in Clusters /\ clients[c].known \subseteq DeviceIds
    BY <1>2, Here DEF Holding, AboutCluster
  <1>4. /\ configurations' = [configurations EXCEPT ![k] = v] /\ HoldsAfterStore(c, Idle)
        /\ UNCHANGED <<descriptors, deployed, misapplied>> /\ Excuse(OutOfDate(c))
    BY <1>1, <1>2 DEF StoreClusterConfiguration
  <1>5. ~ OutOfDate(c) => clients[c].known = DevicesOf(descriptors)
    BY <1>2, InDate DEF Current
  <1> HIDE DEF k
  <1>6. ASSUME ~ OutOfDate(c) PROVE Missing(descriptors', configurations') \subseteq excused
    <2>1. v \in SUBSET DeviceIds /\ v \subseteq DevicesOf(descriptors) \cup excused
      BY <1>3, <1>5, <1>6
    <2>2. descriptors' = descriptors
      BY <1>4
    <2> QED
      BY <1>3, <1>4, <2>1, <2>2, NothingAdded
  <1>7. ExcusesMissing
    BY <1>4, <1>6, ExcusedIf
  <1>8. ClientOK(Idle, misapplied', descriptors', InClusters(configurations'), deployed', excused')
    BY IdleOK
  <1>9. v \in SUBSET DeviceIds /\ ops' \in 0 .. MaxOps
    BY <1>2, <1>3, Unbegun
  <1> QED
    BY <1>3, <1>4, <1>7, <1>8, <1>9, ClusterStored

LEMMA DeleteClusterStep ==
    ASSUME IInv, NEW c \in Clients, DeleteCluster(c)
    PROVE  IInv'
  <1>1. clients[c].target \in Clusters
    BY Here DEF DeleteCluster, Holding, AboutCluster
  <1> QED
    BY <1>1, ConfigurationDeleted DEF DeleteCluster

LEMMA AbortStep ==
    ASSUME IInv, NEW c \in Clients, Abort(c)
    PROVE  IInv'
  <1>1. Holds(c, Idle) /\ ops' = ops /\ Frame
    BY DEF Abort
  <1> QED
    BY <1>1, IdleOK, Unbegun, ReadStep

\* The first document of a file, and the file that is left after it.
LEMMA FilesAre ==
    ASSUME NEW file, FileOK(file)
    PROVE  /\ "spec" \in DOMAIN Head(file) =>
                /\ Head(file).peer \in Peers /\ Head(file).spec \in Specification
                /\ Convertible(Head(file).spec)
           /\ "cluster" \in DOMAIN Head(file) =>
                Head(file).cluster \in Clusters /\ Head(file).devices \in SUBSET DeviceIds
           /\ Len(file) # 1 => FileOK(Tail(file))
  <1>1. /\ file \in Seq(Document) /\ file # <<>>
        /\ \A i \in DOMAIN file : "spec" \in DOMAIN file[i] => Convertible(file[i].spec)
    BY DEF FileOK
  <1>2. Head(file) = file[1] /\ 1 \in DOMAIN file /\ file[1] \in Document
    BY <1>1
  <1>3. "spec" \in DOMAIN file[1] => file[1].peer \in Peers /\ file[1].spec \in Specification
    BY <1>2 DEF Document
  <1>4. "cluster" \in DOMAIN file[1] =>
            file[1].cluster \in Clusters /\ file[1].devices \in SUBSET DeviceIds
    BY <1>2 DEF Document
  <1>5. ASSUME Len(file) # 1 PROVE FileOK(Tail(file))
    <2> DEFINE t == Tail(file)
               n == Len(file)
    <2>1. n \in Nat /\ n > 1 /\ DOMAIN file = 1 .. n
      BY <1>1, <1>5
    <2>2. t \in Seq(Document) /\ Len(t) = n - 1 /\ \A i \in 1 .. (n - 1) : t[i] = file[i + 1]
      BY <1>1, <1>5
    <2> HIDE DEF t, n
    <2>3. Len(t) # 0 /\ DOMAIN t = 1 .. (n - 1)
      BY <2>1, <2>2
    <2>4. t # <<>>
      BY <2>3
    <2>5. ASSUME NEW i \in DOMAIN t PROVE i + 1 \in DOMAIN file /\ t[i] = file[i + 1]
      BY <2>1, <2>2, <2>3
    <2>6. \A i \in DOMAIN t : "spec" \in DOMAIN t[i] => Convertible(t[i].spec)
      BY <1>1, <2>5
    <2> QED
      BY <2>2, <2>4, <2>6 DEF FileOK, t
  <1> QED
    BY <1>1, <1>2, <1>3, <1>4, <1>5

LEMMA BeginApplyStep ==
    ASSUME IInv, NEW c \in Clients, BeginApply(c)
    PROVE  IInv'
  <1>1. Begin /\ Frame
    BY DEF BeginApply
  <1> DEFINE a == "apply"
  <1>2. PICK f \in Files :
            /\ \A i \in DOMAIN f : "spec" \in DOMAIN f[i] => Convertible(f[i].spec)
            /\ Holds(c, [Idle EXCEPT !.at = a, !.file = f])
    BY DEF BeginApply
  <1>3. FileOK(f)
    BY <1>2, OperatorsAssumption DEF FileOK
  <1> DEFINE r == [Idle EXCEPT !.at = a, !.file = f]
  <1> HIDE DEF a
  <1>4. /\ DOMAIN r = Fields /\ r = [x \in Fields |-> r[x]] /\ r.at = a /\ r.file = f
        /\ r.used = {} /\ r.known = {} /\ r.stale = FALSE /\ r.unchecked = FALSE
    BY IdleFields DEF Fields
  <1> HIDE DEF r
  <1>5. Holding(r, misapplied)
    BY <1>3, <1>4 DEF Holding, a, Ats, Editing, Commands, AboutDevice, AboutCluster
  <1>6. Current(r, descriptors, InClusters(configurations), deployed, excused)
    BY <1>4 DEF Current, a, Copying, Editing, Commands, Undeployed, AboutCluster
  <1> QED
    BY <1>1, <1>2, <1>5, <1>6, Begun, ReadStep DEF ClientOK, r

\* What is left of a file once its first document is applied.
LEMMA NextFile ==
    ASSUME IInv, NEW c \in Clients, clients[c].at = "apply", NEW M, NEW ds, NEW C, NEW D, NEW X
    PROVE  ClientOK(IF Len(clients[c].file) = 1 THEN Idle
                    ELSE [clients[c] EXCEPT !.file = Tail(clients[c].file)], M, ds, C, D, X)
  <1> DEFINE r == clients[c]
             f == Tail(r.file)
             s == [r EXCEPT !.file = f]
  <1>1. CASE Len(r.file) = 1
    BY <1>1, IdleOK
  <1>2. CASE Len(r.file) # 1
    <2>1. Holding(r, misapplied) /\ r.at = "apply"
      BY Here
    <2>2. DOMAIN r = Fields /\ r = [x \in Fields |-> r[x]] /\ FileOK(f)
      BY <1>2, <2>1, FilesAre DEF Holding
    <2> HIDE DEF r, f
    <2>3. /\ DOMAIN s = Fields /\ s = [x \in Fields |-> s[x]] /\ s.at = r.at /\ s.file = f
          /\ s.used = r.used /\ s.known = r.known /\ s.stale = r.stale /\ s.unchecked = r.unchecked
      BY <2>2 DEF Fields
    <2> HIDE DEF s
    <2>4. Holding(s, M)
      BY <2>1, <2>2, <2>3 DEF Holding, Editing, Commands, AboutDevice, AboutCluster
    <2>5. Current(s, ds, C, D, X)
      BY <2>1, <2>3 DEF Current, Copying, Editing, Commands, Undeployed, AboutCluster
    <2>6. ClientOK(s, M, ds, C, D, X)
      BY <2>4, <2>5 DEF ClientOK
    <2> QED
      BY <1>2, <2>6 DEF s, r, f
  <1> QED
    BY <1>1, <1>2

LEMMA ApplyDocumentStep ==
    ASSUME IInv, NEW c \in Clients, ApplyDocument(c)
    PROVE  IInv'
  <1> DEFINE f == clients[c].file
             next == IF Len(f) = 1 THEN Idle ELSE [clients[c] EXCEPT !.file = Tail(f)]
  <1>1. clients[c].at = "apply" /\ ops' = ops
    BY DEF ApplyDocument
  <1>2. FileOK(f)
    BY <1>1, Here DEF Holding
  <1>3. ClientOK(next, misapplied', descriptors', InClusters(configurations'), deployed', excused')
    BY <1>1, NextFile
  <1>4. ops' \in 0 .. MaxOps
    BY <1>1, Unbegun
  <1>5. \/ /\ "spec" \in DOMAIN Head(f)
           /\ StorePeerDescriptor(c, Head(f).peer, ConvertDocument(Head(f).spec), next, TRUE)
           /\ misapplied' = misapplied \cup (IF Resolves(Head(f).spec) THEN {} ELSE {Head(f).peer})
        \/ /\ "cluster" \in DOMAIN Head(f)
           /\ StoreClusterConfiguration(c, Head(f).cluster, Head(f).devices, next, TRUE)
           /\ misapplied' = misapplied
    BY DEF ApplyDocument
  <1> HIDE DEF f, next
  <1>6. ASSUME "spec" \in DOMAIN Head(f),
               StorePeerDescriptor(c, Head(f).peer, ConvertDocument(Head(f).spec), next, TRUE),
               misapplied' = misapplied \cup (IF Resolves(Head(f).spec) THEN {} ELSE {Head(f).peer})
        PROVE  IInv'
    <2> DEFINE p == Head(f).peer
               s == Head(f).spec
               d == ConvertDocument(s)
    <2>1. p \in Peers /\ s \in Specification /\ Convertible(s)
      BY <1>2, <1>6, FilesAre
    <2>2. misapplied \subseteq misapplied' /\ (Resolves(s) \/ p \in misapplied')
      BY <1>6
    <2>3. StorePeerDescriptor(c, p, d, next, TRUE)
      BY <1>6
    <2> HIDE DEF p, s
    <2>4. d \in Descriptor /\ (Resolves(d) \/ p \in misapplied')
      BY <2>1, <2>2, Converted
    <2> HIDE DEF d
    <2>5. /\ descriptors' = [descriptors EXCEPT ![p] = Wire(d)] /\ HoldsAfterStore(c, next)
          /\ UNCHANGED <<configurations, deployed>> /\ ExcusesMissing
      BY <2>3, ExcusedAlways DEF StorePeerDescriptor
    <2> QED
      BY <1>3, <1>4, <2>1, <2>2, <2>4, <2>5, PeerStored
  <1>7. ASSUME "cluster" \in DOMAIN Head(f),
               StoreClusterConfiguration(c, Head(f).cluster, Head(f).devices, next, TRUE),
               misapplied' = misapplied
        PROVE  IInv'
    <2> DEFINE k == Head(f).cluster
               v == Head(f).devices
    <2>1. k \in Clusters /\ v \in SUBSET DeviceIds
      BY <1>2, <1>7, FilesAre
    <2>2. /\ configurations' = [configurations EXCEPT ![k] = v] /\ HoldsAfterStore(c, next)
          /\ UNCHANGED <<descriptors, deployed, misapplied>> /\ ExcusesMissing
      BY <1>7, ExcusedAlways DEF StoreClusterConfiguration
    <2> HIDE DEF k, v
    <2> QED
      BY <1>3, <1>4, <2>1, <2>2, ClusterStored
  <1> QED
    BY <1>5, <1>6, <1>7

-----------------------------------------------------------------------------
(* LEA: the page of a peer.                                                *)

LEMMA LeaOpenPeerStep ==
    ASSUME IInv, NEW c \in Clients, NEW p \in Peers, LeaOpenPeer(c, p)
    PROVE  IInv'
  <1>1. Begin /\ Frame
    BY DEF LeaOpenPeer
  <1> DEFINE w == Wire(descriptors[p])
             g == Form(w)
             a == "form loading"
             b == "form"
             r == [Idle EXCEPT !.at = a, !.peer = p, !.copy = g]
             e == EmptyDescriptor("", None)
             u == p \in Stored
             s == [Idle EXCEPT !.at = b, !.peer = p, !.copy = e, !.unchecked = u]
  <1>2. CASE p \in Stored /\ Holds(c, r)
    <2>1. /\ w \in Descriptor /\ DOMAIN w.devices = DOMAIN descriptors[p].devices
          /\ Resolves(descriptors[p]) => Resolves(w)
      BY <1>2, WiredHere
    <2> HIDE DEF w
    <2>2. /\ g \in Descriptor /\ DOMAIN g.devices = DOMAIN descriptors[p].devices
          /\ Resolves(descriptors[p]) => Resolves(g)
      BY <2>1, Formed
    <2>3. a \in Copying \ {"delete peer checked", "delete device checked"} /\ a # "delete device"
      BY DEF Copying, Editing, Commands
    <2> HIDE DEF g, a
    <2>4. HoldsCopy(r, p, g) /\ r.at = a
      BY IdleFields DEF HoldsCopy, Fields
    <2> HIDE DEF r
    <2>5. ClientOK(r, misapplied, descriptors, InClusters(configurations), deployed, excused)
      BY <1>2, <2>2, <2>3, <2>4, CopyRead
    <2> QED
      BY <1>1, <1>2, <2>5, Begun, ReadStep
  <1>3. CASE Holds(c, s)
    <2>1. e \in Descriptor /\ Resolves(e) /\ DOMAIN e.devices = {}
      BY Empty DEF Optional
    <2>2. u \in BOOLEAN /\ (u = FALSE => descriptors[p] = None)
      BY DEF Stored
    <2> HIDE DEF e, b, u
    <2>3. /\ DOMAIN s = Fields /\ s = [x \in Fields |-> s[x]] /\ s.at = b /\ s.peer = p
          /\ s.copy = e /\ s.used = {} /\ s.known = {} /\ s.stale = FALSE /\ s.unchecked = u
      BY IdleFields DEF Fields
    <2> HIDE DEF s
    <2>4. Holding(s, misapplied)
      BY <2>1, <2>2, <2>3 DEF Holding, b, Ats, Editing, Commands, AboutDevice, AboutCluster
    <2>5. Current(s, descriptors, InClusters(configurations), deployed, excused)
      BY <2>1, <2>2, <2>3 DEF Current, b, Copying, Editing, Commands, Undeployed, AboutCluster
    <2> QED
      BY <1>1, <1>3, <2>4, <2>5, Begun, ReadStep DEF ClientOK
  <1> QED
    BY <1>2, <1>3 DEF LeaOpenPeer

LEMMA ClustersAreIds ==
    ASSUME IInv
    PROVE  InClusters(configurations) \subseteq DeviceIds
  <1>1. configurations \in [Clusters -> (SUBSET DeviceIds) \cup {None}]
    BY DEF IInv, StoredOK
  <1> SUFFICES ASSUME NEW x \in InClusters(configurations) PROVE x \in DeviceIds
    OBVIOUS
  <1>2. PICK k \in Clusters : configurations[k] # None /\ x \in configurations[k]
    BY InClustersIs
  <1> QED
    BY <1>1, <1>2

LEMMA LeaListClustersStep ==
    ASSUME IInv, NEW c \in Clients, LeaListClusters(c)
    PROVE  IInv'
  <1> DEFINE r == clients[c]
             a == "form"
             used == InClusters(configurations)
             yes == TRUE
             s == [r EXCEPT !.at = a, !.used = used]
             t == [r EXCEPT !.at = a, !.unchecked = yes]
  <1>1. /\ Frame /\ ops' = ops /\ r.at = "form loading" /\ r.at \in Copying
        /\ Holds(c, s) \/ Holds(c, t)
    BY DEF LeaListClusters, Copying, Editing
  <1>2. Holding(r, misapplied) /\ (r.stale = FALSE =>
            Current(r, descriptors, InClusters(configurations), deployed, excused))
    BY Here
  <1>3. DOMAIN r = Fields /\ r = [x \in Fields |-> r[x]]
    BY <1>2 DEF Holding
  <1>4. used \subseteq DeviceIds /\ yes \in BOOLEAN
    BY ClustersAreIds
  <1> HIDE DEF r, a, used, yes
  <1>5. CASE Holds(c, s)
    <2>1. /\ DOMAIN s = Fields /\ s = [x \in Fields |-> s[x]] /\ s.at = a /\ s.peer = r.peer
          /\ s.copy = r.copy /\ s.target = r.target /\ s.used = used /\ s.known = r.known
          /\ s.stale = r.stale /\ s.unchecked = r.unchecked
      BY <1>3 DEF Fields
    <2> HIDE DEF s
    <2>2. Holding(s, misapplied)
      BY <1>1, <1>2, <1>4, <2>1
         DEF Holding, a, Ats, Copying, Editing, Commands, AboutDevice, AboutCluster
    <2>3. ASSUME s.stale = FALSE
          PROVE  Current(s, descriptors, InClusters(configurations), deployed, excused)
      BY <1>1, <1>2, <2>1, <2>3
         DEF Current, a, used, Copying, Editing, Commands, Undeployed, AboutCluster
    <2> QED
      BY <1>1, <1>5, <2>2, <2>3, Unbegun, ReadStep DEF ClientOK
  <1>6. CASE Holds(c, t)
    <2>1. /\ DOMAIN t = Fields /\ t = [x \in Fields |-> t[x]] /\ t.at = a /\ t.peer = r.peer
          /\ t.copy = r.copy /\ t.target = r.target /\ t.used = r.used /\ t.known = r.known
          /\ t.stale = r.stale /\ t.unchecked = yes
      BY <1>3 DEF Fields
    <2> HIDE DEF t
    <2>2. Holding(t, misapplied)
      BY <1>1, <1>2, <1>4, <2>1
         DEF Holding, a, Ats, Copying, Editing, Commands, AboutDevice, AboutCluster
    <2>3. Current(t, descriptors, InClusters(configurations), deployed, excused)
      BY <2>1 DEF Current, a, yes, Copying, Editing, Commands, Undeployed, AboutCluster
    <2> QED
      BY <1>1, <1>6, <2>2, <2>3, Unbegun, ReadStep DEF ClientOK
  <1> QED
    BY <1>1, <1>5, <1>6

\* An edit may add devices that are in no cluster, and drop those of no cluster.
LEMMA LeaEditStep ==
    ASSUME IInv, NEW c \in Clients, clients[c].at = "form", NEW e, NEW D, LeaEdit(c, e),
           Edited(clients[c].copy, e, D),
           \A x \in InClusters(configurations) : x \in D =>
               x \in DOMAIN clients[c].copy.devices \cup excused,
           \A x \in DOMAIN clients[c].copy.devices : x \in D \/ x \notin clients[c].used
    PROVE  IInv'
  <1> DEFINE r == clients[c]
             s == [r EXCEPT !.copy = e]
  <1>1. Begin /\ Frame /\ Holds(c, s)
    BY DEF LeaEdit
  <1>2. /\ r.at = "form" /\ r.at \in Editing /\ Edited(r.copy, e, D)
        /\ \A x \in InClusters(configurations) : x \in D => x \in DOMAIN r.copy.devices \cup excused
        /\ \A x \in DOMAIN r.copy.devices : x \in D \/ x \notin r.used
    BY DEF Editing
  <1>3. Holding(r, misapplied) /\ (r.stale = FALSE =>
            Current(r, descriptors, InClusters(configurations), deployed, excused))
    BY Here
  <1>4. DOMAIN r = Fields /\ r = [x \in Fields |-> r[x]]
    BY <1>3 DEF Holding
  <1>5. e \in Descriptor /\ DOMAIN e.devices = D /\ (Resolves(r.copy) => Resolves(e))
    BY <1>2 DEF Edited
  <1> HIDE DEF r
  <1>6. /\ DOMAIN s = Fields /\ s = [x \in Fields |-> s[x]] /\ s.at = r.at /\ s.peer = r.peer
        /\ s.copy = e /\ s.target = r.target /\ s.used = r.used /\ s.known = r.known
        /\ s.stale = r.stale /\ s.unchecked = r.unchecked
    BY <1>4 DEF Fields
  <1> HIDE DEF s
  <1>7. Holding(s, misapplied)
    BY <1>2, <1>3, <1>5, <1>6 DEF Holding, AboutDevice, AboutCluster
  <1>8. ASSUME s.stale = FALSE
        PROVE  Current(s, descriptors, InClusters(configurations), deployed, excused)
    <2> DEFINE C == InClusters(configurations)
    <2>1. Current(r, descriptors, C, deployed, excused)
      BY <1>3, <1>6, <1>8
    <2>2. ASSUME s.unchecked = FALSE
          PROVE  /\ D \cap C \subseteq r.used \cup excused
                 /\ descriptors[r.peer] # None =>
                        DOMAIN descriptors[r.peer].devices \cap C \subseteq D \cup excused
      <3>1. /\ DOMAIN r.copy.devices \cap C \subseteq r.used \cup excused
            /\ descriptors[r.peer] # None =>
                   DOMAIN descriptors[r.peer].devices \cap C \subseteq DOMAIN r.copy.devices \cup excused
        BY <1>2, <1>6, <2>1, <2>2 DEF Current
      <3> QED
        BY <1>2, <3>1
    <2> HIDE DEF C
    <2>3. Current(s, descriptors, C, deployed, excused)
      BY <1>2, <1>5, <1>6, <2>2
         DEF Current, Copying, Editing, Commands, Undeployed, AboutCluster
    <2> QED
      BY <2>3 DEF C
  <1> QED
    BY <1>1, <1>7, <1>8, Begun, ReadStep DEF ClientOK

\* An edit that leaves the devices alone.
LEMMA LeaKeepsDevices ==
    ASSUME IInv, NEW c \in Clients, clients[c].at = "form", NEW e, LeaEdit(c, e),
           Edited(clients[c].copy, e, DOMAIN clients[c].copy.devices)
    PROVE  IInv'
  BY LeaEditStep

LEMMA LeaEditGeneralStep ==
    ASSUME IInv, NEW c \in Clients, clients[c].at = "form", LeaEditGeneral(c)
    PROVE  IInv'
  <1> DEFINE copy == clients[c].copy
  <1>1. copy \in Descriptor
    BY CopyHere DEF Editing
  <1>2. PICK t \in Texts \cup {""} :
            \/ LeaEdit(c, [copy EXCEPT !.location = t])
            \/ LeaEdit(c, [copy EXCEPT !.bridge = IF t = "" THEN None ELSE t])
    BY DEF LeaEditGeneral
  <1> DEFINE b == IF t = "" THEN None ELSE t
  <1>3. t \in Optional /\ b \in Texts \cup {None}
    BY DEF Optional
  <1>4. LeaEdit(c, [copy EXCEPT !.location = t]) \/ LeaEdit(c, [copy EXCEPT !.bridge = b])
    BY <1>2
  <1> HIDE DEF b, copy
  <1>5. /\ Edited(copy, [copy EXCEPT !.location = t], DOMAIN copy.devices)
        /\ Edited(copy, [copy EXCEPT !.bridge = b], DOMAIN copy.devices)
    BY <1>1, <1>3, GeneralEdited
  <1> QED
    BY <1>4, <1>5, LeaKeepsDevices DEF copy

LEMMA LeaEditInterfacesStep ==
    ASSUME IInv, NEW c \in Clients, clients[c].at = "form", LeaEditInterfaces(c)
    PROVE  IInv'
  <1> DEFINE copy == clients[c].copy
  <1>1. copy \in Descriptor
    BY CopyHere DEF Editing
  <1>2. \/ \E id \in InterfaceIds, i \in Interface :
               LeaEdit(c, [copy EXCEPT !.interfaces = With(@, id, i)])
        \/ \E id \in DOMAIN copy.interfaces \ UsedInterfaces(copy) :
               LeaEdit(c, [copy EXCEPT !.interfaces = Without(@, {id})])
    BY DEF LeaEditInterfaces, FreshInterfaces
  <1>3. ASSUME NEW id \in InterfaceIds, NEW i \in Interface,
               LeaEdit(c, [copy EXCEPT !.interfaces = With(@, id, i)])
        PROVE  IInv'
    <2> HIDE DEF copy
    <2>1. Edited(copy, [copy EXCEPT !.interfaces = With(@, id, i)], DOMAIN copy.devices)
      BY <1>1, InterfaceSet
    <2> QED
      BY <1>3, <2>1, LeaKeepsDevices DEF copy
  <1>4. ASSUME NEW id \in DOMAIN copy.interfaces \ UsedInterfaces(copy),
               LeaEdit(c, [copy EXCEPT !.interfaces = Without(@, {id})])
        PROVE  IInv'
    <2> HIDE DEF copy
    <2>1. Edited(copy, [copy EXCEPT !.interfaces = Without(@, {id})], DOMAIN copy.devices)
      BY <1>1, InterfaceDropped
    <2> QED
      BY <1>4, <2>1, LeaKeepsDevices DEF copy
  <1> QED
    BY <1>2, <1>3, <1>4

LEMMA LeaEditExecutorsStep ==
    ASSUME IInv, NEW c \in Clients, clients[c].at = "form", LeaEditExecutors(c)
    PROVE  IInv'
  <1> DEFINE copy == clients[c].copy
  <1>1. copy \in Descriptor
    BY CopyHere DEF Editing
  <1>2. DOMAIN copy.executors \subseteq ExecutorIds
    BY <1>1, FieldsOf, PartialIs
  <1>3. \/ \E id \in ExecutorIds, i \in Executor :
               LeaEdit(c, [copy EXCEPT !.executors = With(@, id, i)])
        \/ \E id : LeaEdit(c, [copy EXCEPT !.executors = Without(@, {id})])
    BY <1>2 DEF LeaEditExecutors, FreshExecutors
  <1>4. ASSUME NEW id \in ExecutorIds, NEW i \in Executor,
               LeaEdit(c, [copy EXCEPT !.executors = With(@, id, i)])
        PROVE  IInv'
    <2> HIDE DEF copy
    <2>1. Edited(copy, [copy EXCEPT !.executors = With(@, id, i)], DOMAIN copy.devices)
      BY <1>1, ExecutorSet
    <2> QED
      BY <1>4, <2>1, LeaKeepsDevices DEF copy
  <1>5. ASSUME NEW id, LeaEdit(c, [copy EXCEPT !.executors = Without(@, {id})])
        PROVE  IInv'
    <2> HIDE DEF copy
    <2> DEFINE X == {id}
    <2> HIDE DEF X
    <2>1. Edited(copy, [copy EXCEPT !.executors = Without(@, X)], DOMAIN copy.devices)
      BY <1>1, ExecutorsDropped
    <2> QED
      BY <1>5, <2>1, LeaKeepsDevices DEF copy, X
  <1> QED
    BY <1>3, <1>4, <1>5

\* A random identifier is that of no stored device.
LEMMA FreshIsNew ==
    ASSUME NEW id \in FreshDevices
    PROVE  id \in DeviceIds /\ id \notin DevicesOf(descriptors)
  <1> DEFINE Of(d) == DOMAIN d.devices
  <1>1. id \in DeviceIds /\ id \notin TakenIds(Of)
    BY DEF FreshDevices
  <1>2. \A p \in Stored : Of(descriptors[p]) \subseteq TakenIds(Of)
    BY DEF TakenIds
  <1> QED
    BY <1>1, <1>2, DevicesOfIs DEF Stored

LEMMA LeaEditDevicesStep ==
    ASSUME IInv, NEW c \in Clients, clients[c].at = "form", LeaEditDevices(c)
    PROVE  IInv'
  <1> DEFINE copy == clients[c].copy
             tags == {}
             v(i, t) == [interface |-> i, description |-> t, tags |-> tags]
  <1>1. copy \in Descriptor
    BY CopyHere DEF Editing
  <1>2. DOMAIN copy.devices \subseteq DeviceIds /\ DOMAIN copy.interfaces \subseteq InterfaceIds
    BY <1>1, FieldsOf, PartialIs
  <1>3. Missing(descriptors, configurations) \subseteq excused
    BY DEF IInv, StoredOK
  <1>4. \/ \E id \in DOMAIN copy.devices \cup FreshDevices, i \in DOMAIN copy.interfaces,
              t \in Texts \cup {""} :
               LeaEdit(c, [copy EXCEPT !.devices = With(@, id, v(i, t))])
        \/ \E id \in DOMAIN copy.devices \ clients[c].used :
               LeaEdit(c, [copy EXCEPT !.devices = Without(@, {id})])
    BY DEF LeaEditDevices
  <1>5. ASSUME NEW id \in DOMAIN copy.devices \cup FreshDevices, NEW i \in DOMAIN copy.interfaces,
               NEW t \in Texts \cup {""},
               LeaEdit(c, [copy EXCEPT !.devices = With(@, id, v(i, t))])
        PROVE  IInv'
    <2> DEFINE e == [copy EXCEPT !.devices = With(@, id, v(i, t))]
               D == DOMAIN copy.devices \cup {id}
    <2>1. id \in DeviceIds
      BY <1>2, FreshIsNew
    <2>2. v(i, t) \in Device /\ v(i, t).interface = i
      BY <1>2 DEF Device, Optional
    <2> HIDE DEF v, copy
    <2>3. Edited(copy, e, D)
      BY <1>1, <2>1, <2>2, DeviceSet
    <2>4. \A x \in InClusters(configurations) : x \in D => x \in DOMAIN copy.devices \cup excused
      BY <1>3, FreshIsNew DEF Missing
    <2>5. \A x \in DOMAIN copy.devices : x \in D
      OBVIOUS
    <2> HIDE DEF e, D
    <2> QED
      BY <1>5, <2>3, <2>4, <2>5, LeaEditStep DEF copy, e
  <1>6. ASSUME NEW id \in DOMAIN copy.devices \ clients[c].used,
               LeaEdit(c, [copy EXCEPT !.devices = Without(@, {id})])
        PROVE  IInv'
    <2> DEFINE e == [copy EXCEPT !.devices = Without(@, {id})]
               D == DOMAIN copy.devices \ {id}
    <2> HIDE DEF copy
    <2>1. Edited(copy, e, D)
      BY <1>1, DeviceDropped
    <2>2. \A x \in InClusters(configurations) : x \in D => x \in DOMAIN copy.devices \cup excused
      OBVIOUS
    <2>3. \A x \in DOMAIN copy.devices : x \in D \/ x \notin clients[c].used
      BY <1>6
    <2> HIDE DEF e, D
    <2> QED
      BY <1>6, <2>1, <2>2, <2>3, LeaEditStep DEF copy, e
  <1> QED
    BY <1>4, <1>5, <1>6

LEMMA LeaEditsStep ==
    ASSUME IInv, NEW c \in Clients, LeaEdits(c)
    PROVE  IInv'
  BY LeaEditGeneralStep, LeaEditInterfacesStep, LeaEditDevicesStep, LeaEditExecutorsStep
     DEF LeaEdits

LEMMA LeaSavePeerStep ==
    ASSUME IInv, NEW c \in Clients, LeaSavePeer(c)
    PROVE  IInv'
  <1> DEFINE r == clients[c]
             p == r.peer
             d == r.copy
             C == InClusters(configurations)
  <1>1. r.at = "form" /\ misapplied' = misapplied /\ ops' = ops
    BY DEF LeaSavePeer
  <1>2. /\ descriptors' = [descriptors EXCEPT ![p] = Wire(d)] /\ HoldsAfterStore(c, r)
        /\ UNCHANGED <<configurations, deployed>> /\ Excuse(OutOfDate(c))
    BY DEF LeaSavePeer, StorePeerDescriptor
  <1>3. /\ Holding(r, misapplied) /\ p \in Peers /\ d \in Descriptor
        /\ Resolves(d) \/ p \in misapplied
    BY <1>1, Here DEF Holding, Editing
  <1>4. ~ OutOfDate(c) =>
            /\ DOMAIN d.devices \cap C \subseteq r.used \cup excused
            /\ descriptors[p] # None => DOMAIN descriptors[p].devices \cap C \subseteq DOMAIN d.devices \cup excused
    BY <1>1, InDate DEF Current
  <1>5. ~ OutOfDate(c) => Missing(descriptors', configurations') \subseteq excused
    <2> SUFFICES ASSUME ~ OutOfDate(c) PROVE Missing(descriptors', configurations') \subseteq excused
      OBVIOUS
    <2>1. d # None
      BY <1>3, NoDescriptor
    <2>2. \A x \in InClusters(configurations) :
              descriptors[p] # None /\ x \in DOMAIN descriptors[p].devices =>
                  x \in excused \/ (d # None /\ x \in DOMAIN d.devices)
      BY <1>4, <2>1
    <2> HIDE DEF r, p, d, C
    <2>3. descriptors' = [descriptors EXCEPT ![p] = IF d = None THEN None ELSE Wire(d)]
      BY <1>2, <2>1
    <2>4. configurations' = configurations
      BY <1>2
    <2> QED
      BY <1>3, <2>2, <2>3, <2>4, NothingLost
  <1>6. ExcusesMissing
    BY <1>2, <1>5, ExcusedIf
  <1>7. ClientOK(r, misapplied', descriptors', InClusters(configurations'), deployed', excused')
    <2>1. ASSUME r.stale = FALSE
          PROVE  Current(r, descriptors', InClusters(configurations'), deployed', excused')
      <3>1. InClusters(configurations') = C
        BY <1>2 DEF InClusters
      <3>2. descriptors'[p] = Wire(d) /\ DOMAIN Wire(d).devices = DOMAIN d.devices
        <4>1. DOMAIN descriptors = Peers
          BY DEF IInv, StoredOK
        <4> HIDE DEF r, p, d
        <4> QED
          BY <1>2, <1>3, <4>1, Wired
      <3>3. excused \subseteq excused'
        BY <1>6 DEF ExcusesMissing
      <3>4. ASSUME r.unchecked = FALSE
            PROVE  /\ DOMAIN d.devices \cap C \subseteq r.used \cup excused'
                   /\ DOMAIN descriptors'[p].devices \cap C \subseteq DOMAIN d.devices \cup excused'
        BY <1>4, <2>1, <3>2, <3>3, <3>4 DEF OutOfDate
      <3> HIDE DEF r, C
      <3> QED
        BY <1>1, <3>1, <3>4
           DEF Current, Copying, Editing, Commands, Undeployed, AboutCluster
    <2> QED
      BY <1>1, <1>3, <2>1 DEF ClientOK
  <1>8. ops' \in 0 .. MaxOps
    BY <1>1, Unbegun
  <1>9. UNCHANGED <<configurations, deployed>> /\ misapplied \subseteq misapplied'
        /\ (Resolves(d) \/ p \in misapplied')
    BY <1>1, <1>2, <1>3
  <1> HIDE DEF r, p, d, C
  <1> QED
    BY <1>2, <1>3, <1>6, <1>7, <1>8, <1>9, PeerStored

LEMMA LeaDeletePeerStep ==
    ASSUME IInv, NEW c \in Clients, LeaDeletePeer(c)
    PROVE  IInv'
  <1> DEFINE r == clients[c]
             C == InClusters(configurations)
  <1>1. /\ r.at = "form" /\ DOMAIN r.copy.devices \cap r.used = {}
        /\ DeletePeerDescriptor(c, r.peer)
    BY DEF LeaDeletePeer
  <1>2. r.peer \in Peers
    BY <1>1, CopyHere DEF Editing
  <1>3. ASSUME ~ OutOfDate(c), NEW x \in C, descriptors[r.peer] # None,
               x \in DOMAIN descriptors[r.peer].devices
        PROVE  x \in excused
    <2>1. /\ DOMAIN r.copy.devices \cap C \subseteq r.used \cup excused
          /\ DOMAIN descriptors[r.peer].devices \cap C \subseteq DOMAIN r.copy.devices \cup excused
      BY <1>1, <1>3, InDate DEF Current
    <2> QED
      BY <1>1, <1>3, <2>1
  <1> QED
    BY <1>1, <1>2, <1>3, PeerDeleted

-----------------------------------------------------------------------------
(* LEA: the page of a cluster, and the overview.                           *)

LEMMA LeaOpenClusterStep ==
    ASSUME IInv, NEW c \in Clients, NEW k \in Clusters, LeaOpenCluster(c, k)
    PROVE  IInv'
  <1> DEFINE a == "cluster loading"
             used == IF configurations[k] = None THEN {} ELSE configurations[k]
             known == DevicesOf(descriptors)
             yes == TRUE
             r == [Idle EXCEPT !.at = a, !.target = k, !.used = used, !.known = known,
                               !.unchecked = yes]
  <1>1. Begin /\ Frame /\ Holds(c, r)
    BY DEF LeaOpenCluster
  <1>2. used \subseteq InClusters(configurations)
    BY InClustersIs
  <1>3. used \subseteq DeviceIds /\ known \subseteq DeviceIds
    BY <1>2, ClustersAreIds, DevicesAreIds
  <1>4. used \ known \subseteq excused
    BY <1>2 DEF IInv, StoredOK, Missing
  <1>5. yes = TRUE /\ known = DevicesOf(descriptors)
    OBVIOUS
  <1> HIDE DEF a, used, known, yes
  <1>6. /\ DOMAIN r = Fields /\ r = [x \in Fields |-> r[x]] /\ r.at = a /\ r.target = k
        /\ r.used = used /\ r.known = known /\ r.stale = FALSE /\ r.unchecked = yes
    BY IdleFields DEF Fields
  <1> HIDE DEF r
  <1>7. Holding(r, misapplied)
    BY <1>3, <1>5, <1>6 DEF Holding, a, Ats, Editing, Commands, AboutDevice, AboutCluster
  <1>8. Current(r, descriptors, InClusters(configurations), deployed, excused)
    BY <1>4, <1>5, <1>6 DEF Current, a, Copying, Editing, Commands, Undeployed, AboutCluster
  <1> QED
    BY <1>1, <1>7, <1>8, Begun, ReadStep DEF ClientOK

LEMMA LeaListDeploymentsStep ==
    ASSUME IInv, NEW c \in Clients, LeaListDeployments(c)
    PROVE  IInv'
  <1> DEFINE r == clients[c]
             a == "cluster form"
             no == FALSE
             s == [r EXCEPT !.at = a, !.unchecked = no]
  <1>1. Frame /\ ops' \in 0 .. MaxOps /\ r.at = "cluster loading"
    BY Unbegun DEF LeaListDeployments
  <1>2. Holding(r, misapplied) /\ (r.stale = FALSE =>
            Current(r, descriptors, InClusters(configurations), deployed, excused))
    BY Here
  <1>3. DOMAIN r = Fields /\ r = [x \in Fields |-> r[x]]
    BY <1>2 DEF Holding
  <1>4. CASE r.target \in deployed
    BY <1>1, <1>4, IdleOK, ReadStep DEF LeaListDeployments
  <1>5. CASE r.target \notin deployed
    <2>1. Holds(c, s)
      BY <1>5 DEF LeaListDeployments
    <2>2. no \in BOOLEAN
      OBVIOUS
    <2> HIDE DEF r, a, no
    <2>3. /\ DOMAIN s = Fields /\ s = [x \in Fields |-> s[x]] /\ s.at = a /\ s.peer = r.peer
          /\ s.copy = r.copy /\ s.target = r.target /\ s.used = r.used /\ s.known = r.known
          /\ s.stale = r.stale /\ s.unchecked = no
      BY <1>3 DEF Fields
    <2> HIDE DEF s
    <2>4. Holding(s, misapplied)
      BY <1>1, <1>2, <2>2, <2>3 DEF Holding, a, Ats, Editing, Commands, AboutDevice, AboutCluster
    <2>5. ASSUME s.stale = FALSE
          PROVE  Current(s, descriptors, InClusters(configurations), deployed, excused)
      BY <1>1, <1>2, <1>5, <2>3, <2>5
         DEF Current, a, Copying, Editing, Commands, Undeployed, AboutCluster
    <2> QED
      BY <1>1, <2>1, <2>4, <2>5, ReadStep DEF ClientOK
  <1> QED
    BY <1>4, <1>5

LEMMA LeaSaveClusterStep ==
    ASSUME IInv, NEW c \in Clients, LeaSaveCluster(c)
    PROVE  IInv'
  <1> DEFINE r == clients[c]
             k == r.target
             C == InClusters(configurations)
  <1>1. r.at \in {"cluster loading", "cluster form"} /\ misapplied' = misapplied /\ ops' = ops
    BY DEF LeaSaveCluster
  <1>2. PICK listed \in SUBSET r.known :
            StoreClusterConfiguration(c, k, listed \cup (r.used \ r.known),
                [r EXCEPT !.used = listed \cup (r.used \ r.known)], OutOfDate(c))
    BY DEF LeaSaveCluster, DeviceSelector
  <1> DEFINE v == listed \cup (r.used \ r.known)
             s == [r EXCEPT !.used = v]
  <1>3. /\ configurations' = [configurations EXCEPT ![k] = v] /\ HoldsAfterStore(c, s)
        /\ UNCHANGED <<descriptors, deployed, misapplied>> /\ Excuse(OutOfDate(c))
    BY <1>1, <1>2 DEF StoreClusterConfiguration
  <1>4. Holding(r, misapplied) /\ (r.stale = FALSE => Current(r, descriptors, C, deployed, excused))
    BY Here
  <1>5. /\ DOMAIN r = Fields /\ r = [x \in Fields |-> r[x]] /\ k \in Clusters
        /\ r.used \subseteq DeviceIds /\ r.known \subseteq DeviceIds
    BY <1>1, <1>4 DEF Holding, AboutCluster
  <1>6. v \in SUBSET DeviceIds /\ v \ r.known \subseteq r.used \ r.known
    BY <1>5
  <1>7. r.stale = FALSE => r.known \subseteq DevicesOf(descriptors) /\ r.used \ r.known \subseteq excused
    BY <1>1, <1>4 DEF Current
  <1>8. ASSUME ~ OutOfDate(c) PROVE Missing(descriptors', configurations') \subseteq excused
    <2>1. v \subseteq DevicesOf(descriptors) \cup excused
      BY <1>7, <1>8, InDate
    <2>2. descriptors' = descriptors
      BY <1>3
    <2> HIDE DEF r, v, k
    <2> QED
      BY <1>3, <1>5, <1>6, <2>1, <2>2, NothingAdded
  <1>9. ExcusesMissing
    BY <1>3, <1>8, ExcusedIf
  <1>10. /\ DOMAIN s = Fields /\ s = [x \in Fields |-> s[x]] /\ s.at = r.at /\ s.peer = r.peer
         /\ s.copy = r.copy /\ s.target = r.target /\ s.used = v /\ s.known = r.known
         /\ s.stale = r.stale /\ s.unchecked = r.unchecked
    <2> HIDE DEF r, v
    <2> QED
      BY <1>5 DEF Fields
  <1>11. misapplied' = misapplied /\ descriptors' = descriptors /\ deployed' = deployed
         /\ excused \subseteq excused' /\ DevicesOf(descriptors') = DevicesOf(descriptors)
    BY <1>3, <1>9 DEF ExcusesMissing, DevicesOf
  <1>12. Holding(s, misapplied')
    <2> HIDE DEF r, v, s
    <2> QED
      BY <1>1, <1>4, <1>6, <1>10, <1>11 DEF Holding, Editing, Commands, AboutDevice, AboutCluster
  <1>13. ASSUME s.stale = FALSE
         PROVE  Current(s, descriptors', InClusters(configurations'), deployed', excused')
    <2>1. s.known \subseteq DevicesOf(descriptors') /\ s.used \ s.known \subseteq excused'
      BY <1>6, <1>7, <1>10, <1>11, <1>13
    <2>2. Current(r, descriptors, C, deployed, excused)
      BY <1>4, <1>10, <1>13
    <2> HIDE DEF r, v, s, C
    <2> QED
      BY <1>1, <1>10, <1>11, <2>1, <2>2
         DEF Current, Copying, Editing, Commands, Undeployed, AboutCluster
  <1>14. ClientOK(s, misapplied', descriptors', InClusters(configurations'), deployed', excused')
    BY <1>12, <1>13 DEF ClientOK
  <1>15. ops' \in 0 .. MaxOps
    BY <1>1, Unbegun
  <1> HIDE DEF r, k, C, v, s
  <1> QED
    BY <1>3, <1>5, <1>6, <1>9, <1>14, <1>15, ClusterStored

LEMMA LeaDeleteClusterStep ==
    ASSUME IInv, NEW c \in Clients, LeaDeleteCluster(c)
    PROVE  IInv'
  <1>1. clients[c].target \in Clusters
    BY Here DEF LeaDeleteCluster, Holding, AboutCluster
  <1> QED
    BY <1>1, ConfigurationDeleted DEF LeaDeleteCluster

LEMMA DeployStep ==
    ASSUME IInv, NEW c \in Clients, NEW k \in Clusters, Deploy(c, k)
    PROVE  IInv'
  <1>1. /\ Begin /\ HoldsAfterStore(c, Idle)
        /\ UNCHANGED <<descriptors, configurations, misapplied, excused>>
    BY DEF Deploy
  <1>2. StoredOK(descriptors, configurations, deployed, misapplied, excused)
    BY Here
  <1>3. deployed' \subseteq Clusters
    BY <1>2 DEF Deploy, StoredOK
  <1>4. StoredOK(descriptors', configurations', deployed', misapplied', excused')
    <2>1. StoredOK(descriptors, configurations, deployed', misapplied, excused)
      BY <1>2, <1>3 DEF StoredOK
    <2> QED
      BY <1>1, <2>1
  <1>5. ClientOK(Idle, misapplied', descriptors', InClusters(configurations'), deployed', excused')
    BY IdleOK
  <1>6. misapplied \subseteq misapplied' /\ ops' \in 0 .. MaxOps
    BY <1>1, Begun
  <1> QED
    BY <1>1, <1>4, <1>5, <1>6, StoreStep

-----------------------------------------------------------------------------
(* The invariant is inductive.                                             *)

LEMMA InitHolds ==
    ASSUME Init
    PROVE  IInv
  <1>1. /\ descriptors = [p \in Peers |-> None] /\ configurations = [k \in Clusters |-> None]
        /\ deployed = {} /\ clients = [c \in Clients |-> Idle] /\ ops = 0
    BY DEF Init
  <1>2. InClusters(configurations) = {}
    BY <1>1 DEF InClusters
  <1>3. StoredOK(descriptors, configurations, deployed, misapplied, excused)
    <2>1. \A p \in Peers : descriptors[p] = None
      BY <1>1
    <2> QED
      BY <1>1, <1>2, <2>1 DEF StoredOK, Missing
  <1>4. ops \in 0 .. MaxOps
    BY <1>1, OperatorsAssumption
  <1>5. ClientsInv
    <2>1. DOMAIN clients = Clients /\ \A c \in Clients : clients[c] = Idle
      BY <1>1
    <2>2. clients = [c \in Clients |-> clients[c]]
      BY <1>1
    <2> QED
      BY <2>1, <2>2, IdleOK DEF ClientsInv
  <1> QED
    BY <1>3, <1>4, <1>5 DEF IInv

LEMMA CleoStep ==
    ASSUME IInv, NEW c \in Clients, Cleo(c)
    PROVE  IInv'
  <1>1. CASE \E p \in Peers : CreatePeer(c, p) \/ GetPeerDescriptor(c, p)
    BY <1>1, CreatePeerStep, GetPeerDescriptorStep
  <1>2. CASE \E p \in Peers : BeginDeletePeer(c, p) \/ BeginDeleteDevice(c, p)
    BY <1>2, BeginDeletePeerStep, BeginDeleteDeviceStep
  <1>3. CASE ListClusterConfigurations(c) \/ DeletePeer(c) \/ DeleteDevice(c)
    BY <1>3, ListClusterConfigurationsStep, DeletePeerStep, DeleteDeviceStep
  <1>4. CASE \E k \in Clusters : ListClusterDeployments(c, k)
    BY <1>4, ListClusterDeploymentsStep
  <1>5. CASE ListDevices(c) \/ CreateCluster(c) \/ DeleteCluster(c)
    BY <1>5, ListDevicesStep, CreateClusterStep, DeleteClusterStep
  <1>6. CASE BeginApply(c) \/ ApplyDocument(c) \/ Abort(c)
    BY <1>6, BeginApplyStep, ApplyDocumentStep, AbortStep
  <1> QED
    BY <1>1, <1>2, <1>3, <1>4, <1>5, <1>6, CleoEditsStep DEF Cleo

LEMMA LeaStep ==
    ASSUME IInv, NEW c \in Clients, Lea(c)
    PROVE  IInv'
  <1>1. CASE \E p \in Peers : LeaOpenPeer(c, p)
    BY <1>1, LeaOpenPeerStep
  <1>2. CASE LeaListClusters(c) \/ LeaEdits(c)
    BY <1>2, LeaListClustersStep, LeaEditsStep
  <1>3. CASE LeaSavePeer(c) \/ LeaDeletePeer(c)
    BY <1>3, LeaSavePeerStep, LeaDeletePeerStep
  <1>4. CASE \E k \in Clusters : LeaOpenCluster(c, k) \/ Deploy(c, k)
    BY <1>4, LeaOpenClusterStep, DeployStep
  <1>5. CASE LeaListDeployments(c) \/ LeaSaveCluster(c) \/ LeaDeleteCluster(c)
    BY <1>5, LeaListDeploymentsStep, LeaSaveClusterStep, LeaDeleteClusterStep
  <1> QED
    BY <1>1, <1>2, <1>3, <1>4, <1>5 DEF Lea

LEMMA StepHolds ==
    ASSUME IInv, [Next]_vars
    PROVE  IInv'
  <1>1. CASE UNCHANGED vars
    <2>1. UNCHANGED <<descriptors, configurations, deployed, clients, ops, misapplied, excused>>
      BY <1>1 DEF vars
    <2>2. InClusters(configurations)' = InClusters(configurations)
      BY <2>1
    <2> QED
      BY <2>1, <2>2 DEF IInv, ClientsInv
  <1>2. CASE Next
    BY <1>2, CleoStep, LeaStep DEF Next
  <1> QED
    BY <1>1, <1>2

LEMMA AlwaysIInv == Spec => []IInv
  <1>1. Init => IInv
    BY InitHolds
  <1>2. IInv /\ [Next]_vars => IInv'
    BY StepHolds
  <1> QED
    BY <1>1, <1>2, PTL DEF Spec

-----------------------------------------------------------------------------
(* The theorems.                                                           *)

\* However the commands and pages of any operators interleave, each with a
\* copy of a descriptor that others may have replaced since, every device that
\* CARL stores names an interface of its own descriptor, unless an applied
\* document named none; and a second trip over the wire changes no descriptor.
THEOREM DevicesFindTheirInterfaces == Spec => []InterfacesResolve
  <1>1. IInv => InterfacesResolve
    <2> SUFFICES ASSUME IInv PROVE InterfacesResolve
      OBVIOUS
    <2>1. StoredOK(descriptors, configurations, deployed, misapplied, excused) /\ ops \in 0 .. MaxOps
      BY DEF IInv
    <2>2. \A p \in Stored : descriptors[p] \in Descriptor /\ Wire(descriptors[p]) = descriptors[p]
      BY <2>1, StoredHere DEF StoredOK, Stored
    <2>3. \A k \in Clusters : configurations[k] = None \/ configurations[k] \subseteq DeviceIds
      BY <2>1 DEF StoredOK
    <2>4. \A c \in Clients : clients[c].at \in Ats
      BY Here DEF Holding
    <2>5. TypeOK
      BY <2>1, <2>2, <2>3, <2>4 DEF TypeOK, StoredOK
    <2> QED
      BY <2>5, StoredHere DEF InterfacesResolve
  <1> QED
    BY <1>1, AlwaysIInv, PTL

\* The devices of every configured cluster exist, unless a client that did not
\* look, or that others had overtaken since it looked, took them away: a peer
\* or a device that a cluster uses cannot be deleted, and a cluster cannot be
\* given devices that are not there, by commands and pages that are up to date.
THEOREM ClusterDevicesStayKnown == Spec => []ClusterDevicesExist
  <1>1. IInv => ClusterDevicesExist
    BY DEF IInv, StoredOK, ClusterDevicesExist
  <1> QED
    BY <1>1, AlwaysIInv, PTL

\* The commands that store no configuration.
LEMMA CleoLeavesClusters ==
    ASSUME NEW c \in Clients, Cleo(c), ~ CreateCluster(c), ~ DeleteCluster(c), ~ ApplyDocument(c)
    PROVE  configurations' = configurations
  <1>1. CASE \E p \in Peers : CreatePeer(c, p) \/ GetPeerDescriptor(c, p)
                              \/ BeginDeletePeer(c, p) \/ BeginDeleteDevice(c, p)
    BY <1>1 DEF CreatePeer, GetPeerDescriptor, BeginDeletePeer, BeginDeleteDevice,
                StorePeerDescriptor, Frame
  <1>2. CASE CleoEdits(c)
    <2>1. \E e : StoreEdited(c, e)
      BY <1>2 DEF CleoEdits, CreateDevice, CreateNetworkInterface, DeleteNetworkInterface,
                  CreateExecutor, DeleteExecutor
    <2> QED
      BY <2>1 DEF StoreEdited, StorePeerDescriptor
  <1>3. CASE ListClusterConfigurations(c) \/ DeletePeer(c) \/ DeleteDevice(c)
    BY <1>3 DEF ListClusterConfigurations, DeletePeer, DeletePeerDescriptor, DeleteDevice,
                StoreEdited, StorePeerDescriptor, Frame
  <1>4. CASE \E k \in Clusters : ListClusterDeployments(c, k)
    BY <1>4 DEF ListClusterDeployments, Frame
  <1>5. CASE ListDevices(c) \/ BeginApply(c) \/ Abort(c)
    BY <1>5 DEF ListDevices, BeginApply, Abort, Frame
  <1> QED
    BY <1>1, <1>2, <1>3, <1>4, <1>5 DEF Cleo

\* The pages that store none.
LEMMA LeaLeavesClusters ==
    ASSUME NEW c \in Clients, Lea(c), ~ LeaSaveCluster(c), ~ LeaDeleteCluster(c)
    PROVE  configurations' = configurations
  <1>1. CASE \E p \in Peers : LeaOpenPeer(c, p)
    BY <1>1 DEF LeaOpenPeer, Frame
  <1>2. CASE LeaListClusters(c) \/ LeaListDeployments(c)
    BY <1>2 DEF LeaListClusters, LeaListDeployments, Frame
  <1>3. CASE LeaEdits(c)
    <2>1. \E e : LeaEdit(c, e)
      BY <1>3 DEF LeaEdits, LeaEditGeneral, LeaEditInterfaces, LeaEditDevices, LeaEditExecutors
    <2> QED
      BY <2>1 DEF LeaEdit, Frame
  <1>4. CASE LeaSavePeer(c) \/ LeaDeletePeer(c)
    BY <1>4 DEF LeaSavePeer, LeaDeletePeer, StorePeerDescriptor, DeletePeerDescriptor
  <1>5. CASE \E k \in Clusters : LeaOpenCluster(c, k) \/ Deploy(c, k)
    BY <1>5 DEF LeaOpenCluster, Deploy, Frame
  <1> QED
    BY <1>1, <1>2, <1>3, <1>4, <1>5 DEF Lea

\* A client that is up to date stores no configuration of a deployed cluster.
LEMMA TargetUndeployed ==
    ASSUME IInv, NEW c \in Clients, clients[c].at \in AboutCluster, ~ OutOfDate(c)
    PROVE  clients[c].target \notin deployed
  <1>1. clients[c].at # "cluster loading"
    BY Here, InDate DEF Holding
  <1> QED
    BY <1>1, InDate DEF Current, Undeployed

LEMMA DeployedKept ==
    ASSUME IInv, NEW c \in Clients, Cleo(c) \/ Lea(c), NEW k \in deployed,
           configurations'[k] # configurations[k]
    PROVE  OutOfDate(c) \/ clients[c].at = "apply"
  <1>1. DOMAIN configurations = Clusters /\ k \in Clusters
    BY DEF IInv, StoredOK
  <1>2. CASE CreateCluster(c) \/ LeaSaveCluster(c)
    <2>1. clients[c].at \in AboutCluster
      BY <1>2 DEF CreateCluster, LeaSaveCluster, AboutCluster
    <2>2. \E v, r, x : StoreClusterConfiguration(c, clients[c].target, v, r, x)
      BY <1>2 DEF CreateCluster, LeaSaveCluster
    <2>3. PICK v : configurations' = [configurations EXCEPT ![clients[c].target] = v]
      BY <2>2 DEF StoreClusterConfiguration
    <2>4. k = clients[c].target
      BY <1>1, <2>3
    <2> QED
      BY <2>1, <2>4, TargetUndeployed
  <1>3. CASE DeleteCluster(c) \/ LeaDeleteCluster(c)
    <2>1. DeleteClusterConfiguration(c, clients[c].target)
      BY <1>3 DEF DeleteCluster, LeaDeleteCluster
    <2> QED
      BY <1>1, <2>1 DEF DeleteClusterConfiguration
  <1>4. CASE ApplyDocument(c)
    BY <1>4 DEF ApplyDocument
  <1> QED
    BY <1>2, <1>3, <1>4, CleoLeavesClusters, LeaLeavesClusters

\* CARL refuses to delete the configuration of a deployed cluster, but stores
\* a changed one: that no operator changes it is up to the clients, who do not
\* unless they are overtaken, do not know the deployments yet, or apply a file.
THEOREM DeployedConfigurationsKept == Spec => DeployedConfigurationKept
  <1> DEFINE kept == \A k \in deployed :
                         configurations'[k] # configurations[k] =>
                             \E c \in Clients : \/ OutOfDate(c)
                                                \/ clients[c].at = "apply"
  <1>1. IInv /\ [Next]_vars => [kept]_vars
    <2> SUFFICES ASSUME IInv, Next PROVE kept
      OBVIOUS
    <2>1. PICK c \in Clients : Cleo(c) \/ Lea(c)
      BY DEF Next
    <2> QED
      BY <2>1, DeployedKept
  <1> QED
    BY <1>1, AlwaysIInv, PTL DEF Spec, DeployedConfigurationKept
=============================================================================
