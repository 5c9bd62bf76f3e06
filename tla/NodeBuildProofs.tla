--------------------------- MODULE NodeBuildProofs ---------------------------
(***************************************************************************)
(* Proofs about NodeBuild, for any list of devices of any length: the ids  *)
(* and the parts lists of the node, that every request it invites has a    *)
(* handler, and that every endpoint is wired to what main gave it.         *)
(*                                                                         *)
(* The invariant: every table is the one of the places that have had their *)
(* turn.  A step adds a place, and the entries it adds are not those of    *)
(* another, for no two places have the same id.                            *)
(***************************************************************************)
EXTENDS NodeBuild, Integers, FiniteSetTheorems, TLAPS

-----------------------------------------------------------------------------
(* The inductive invariant.                                                  *)

Place    == Nat \X Nat
Config   == [kind : Kinds, label : Labels,
             handler : Place, temperature : Place, humidity : Place, button : Place]
Device   == [label : Labels, endpoints : Seq(Config), info : BOOLEAN]
Allotted == [parent : Nat, children : Seq(Nat)]

TypeOK ==
  /\ phase \in {"describe", "build", "wire", "serve"}
  /\ devices \in Seq(Device)
  /\ device \in 1..Len(devices) + 1
  /\ child \in Nat
  /\ device = Len(devices) + 1 => child = 0
  /\ device \in 1..Len(devices) => child \in 0..Len(This.endpoints) + 1
  /\ nextId \in Nat
  /\ ids \in Allotted
  /\ parts \in Seq(Nat \X Seq(Nat))
  /\ mappings \in Seq(Allotted)

\* Every endpoint is described with the source of its place.
Described ==
  \A i \in DOMAIN devices : \A j \in DOMAIN devices[i].endpoints :
    devices[i].endpoints[j] =
      EndpointConfig(devices[i].endpoints[j].kind, devices[i].endpoints[j].label, <<i, j>>)

Here  == <<device, child>>
First == <<1, 0>>
End   == <<Len(devices) + 1, 0>>

\* The place whose turn it is in build_node, and in the wiring.
ToBuild == IF phase = "describe" THEN First ELSE IF phase = "build" THEN Here ELSE End
ToWire  == IF phase = "wire" THEN Here ELSE IF phase = "serve" THEN End ELSE First

\* The places before h.
Upto(s, h) == {p \in Places(s) : Precedes(p, h)}

\* The node up to the place h.
NodeUpto(s, h) ==
  /\ nextId = IdOf(s, h)
  /\ node = [e \in 0..nextId - 1 |-> node[e]]
  /\ \A e \in 0..2 : node[e] = RootEndpoints[e]
  /\ \A p \in Upto(s, h) : node[IdOf(s, p)] = EndpointOf(s, p)
  /\ \A e \in 3..nextId - 1 : \E p \in Upto(s, h) : IdOf(s, p) = e

\* m holds the ids of device i and of its first n children.
Holds(m, s, i, n) ==
  /\ m.parent = IdOf(s, <<i, 0>>)
  /\ Len(m.children) = n
  /\ \A j \in 1..n : m.children[j] = IdOf(s, <<i, j>>)

\* The mappings and parts lists up to the place h.
MappedUpto(s, h) ==
  /\ Len(mappings) = h[1] - 1 /\ Len(parts) = h[1] - 1
  /\ \A i \in 1..h[1] - 1 :
       /\ Holds(mappings[i], s, i, Len(s[i].endpoints))
       /\ parts[i] = <<mappings[i].parent, mappings[i].children>>
  /\ h[2] > 0 => Holds(ids, s, h[1], h[2] - 1)

ConfigOf(p) == devices[p[1]].endpoints[p[2]]

\* The handler's entries of the place p, and the pairs its notifier is for.
EntriesOf(s, p) ==
  IF p[2] = 0 THEN ParentEntries(IdOf(s, p), devices[p[1]], p[1]) ELSE ChildEntries(IdOf(s, p), ConfigOf(p), p)

PairsOf(s, p) == {IdOf(s, p)} \X FunctionClusters(ConfigOf(p).kind)

HandledUpto(s, h) ==
  /\ \A p \in Upto(s, h) : \A key \in DOMAIN EntriesOf(s, p) :
       key \in DOMAIN handlers /\ handlers[key] = EntriesOf(s, p)[key]
  /\ \A key \in DOMAIN handlers : \E p \in Upto(s, h) : key \in DOMAIN EntriesOf(s, p)

\* The children before h.
ChildrenUpto(s, h) == {p \in Upto(s, h) : p[2] > 0}

\* The clusters of all functions.
Functional == UNION {FunctionClusters(kind) : kind \in Kinds}

Pair == Nat \X Functional

NotifiedUpto(s, h) ==
  /\ notified \in Seq(Pair)
  /\ \A n \in DOMAIN notified : \E p \in ChildrenUpto(s, h) : notified[n] \in PairsOf(s, p)
  /\ \A m, n \in DOMAIN notified : notified[m] = notified[n] => m = n
  /\ \A p \in ChildrenUpto(s, h) : \A pair \in PairsOf(s, p) :
       /\ \E n \in DOMAIN notified : notified[n] = pair
       /\ p \in DOMAIN notifiers /\ notifiers[p] = pair

ButtonsUpto(s, h) ==
  /\ sources \in Seq(Place)
  /\ \A p \in ChildrenUpto(s, h) : ConfigOf(p).kind = "GenericSwitch" =>
       /\ p \in DOMAIN buttonIds /\ buttonIds[p] = IdOf(s, p)
       /\ \E n \in DOMAIN sources : sources[n] = p

Cascade == [switches : SUBSET Place, flags : SUBSET Place]

CascadesUpto(s, h) ==
  /\ cascades \in Seq(Cascade)
  /\ Len(cascades) = IF h[2] = 0 THEN h[1] - 1 ELSE h[1]
  /\ \A d \in DOMAIN cascades :
       /\ cascades[d].flags = {p \in ChildrenUpto(s, h) : p[1] = d}
       /\ cascades[d].switches =
            {p \in ChildrenUpto(s, h) : p[1] = d /\ ConfigOf(p).kind \in {"Switch", "LightSwitch"}}

WiredUpto(s, h) ==
  HandledUpto(s, h) /\ NotifiedUpto(s, h) /\ ButtonsUpto(s, h) /\ CascadesUpto(s, h)

IInv ==
  /\ TypeOK /\ Described
  /\ phase = "describe" => device = 1 /\ child = 0 /\ nextId = 3
  /\ phase # "describe" => NodeUpto(Schema, ToBuild)
  /\ MappedUpto(Schema, ToBuild)
  /\ WiredUpto(Schema, ToWire)
  /\ phase = "serve" => targets = [i \in DOMAIN devices |-> i]

-----------------------------------------------------------------------------
(* The ids that a list of devices gives.                                     *)

\* What the ids are taken from: the lengths of s and of its entries.
Listed(s) ==
  /\ Len(s) \in Nat /\ DOMAIN s = 1..Len(s)
  /\ \A d \in 1..Len(s) : Len(s[d].endpoints) \in Nat

\* The places, one by one.
LEMMA PlacesAre ==
  ASSUME NEW s, Listed(s)
  PROVE  /\ \A p : p \in Places(s) <=> \E d \in 1..Len(s) : \E j \in 0..Len(s[d].endpoints) : p = <<d, j>>
         /\ \A p \in Places(s) : /\ p = <<p[1], p[2]>> /\ p[1] \in 1..Len(s) /\ p[2] \in 0..Len(s[p[1]].endpoints)
                                 /\ p[1] \in Nat /\ p[2] \in Nat
<1>1. \A p : p \in Places(s) <=> \E d \in 1..Len(s) : \E j \in 0..Len(s[d].endpoints) : p = <<d, j>>
  <2>1. DOMAIN s = 1..Len(s)
    BY DEF Listed
  <2>2. ASSUME NEW p, p \in Places(s) PROVE \E d \in 1..Len(s) : \E j \in 0..Len(s[d].endpoints) : p = <<d, j>>
    <3>1. PICK d \in 1..Len(s) : p \in {d} \X (0..Len(s[d].endpoints))
      BY <2>1, <2>2 DEF Places
    <3> QED
      BY <3>1
  <2>3. ASSUME NEW d \in 1..Len(s), NEW j \in 0..Len(s[d].endpoints) PROVE <<d, j>> \in Places(s)
    BY <2>1 DEF Places
  <2> QED
    BY <2>2, <2>3
<1>2. ASSUME NEW p \in Places(s)
      PROVE  /\ p = <<p[1], p[2]>> /\ p[1] \in 1..Len(s) /\ p[2] \in 0..Len(s[p[1]].endpoints)
             /\ p[1] \in Nat /\ p[2] \in Nat
  <2>1. PICK d, j : d \in 1..Len(s) /\ j \in 0..Len(s[d].endpoints) /\ p = <<d, j>>
    BY <1>1
  <2>2. Len(s[d].endpoints) \in Nat /\ Len(s) \in Nat
    BY DEF Listed
  <2> QED
    BY <2>1, <2>2
<1> QED
  BY <1>1, <1>2

\* They are finitely many.
LEMMA PlacesFinite ==
  ASSUME NEW s, Listed(s)
  PROVE  IsFiniteSet(Places(s))
<1> DEFINE Of == [d \in 1..Len(s) |-> {d} \X (0..Len(s[d].endpoints))]
           T  == {Of[d] : d \in 1..Len(s)}
<1>1. IsFiniteSet(1..Len(s))
  BY FS_Interval DEF Listed
<1>2. Of \in Surjection(1..Len(s), T)
  BY DEF Surjection
<1>3. IsFiniteSet(T)
  <2> HIDE DEF Of, T
  <2> QED
    BY <1>1, <1>2, FS_Surjection
<1>4. \A d \in 1..Len(s) : IsFiniteSet(Of[d])
  <2> SUFFICES ASSUME NEW d \in 1..Len(s) PROVE IsFiniteSet({d} \X (0..Len(s[d].endpoints)))
    OBVIOUS
  <2>1. PICK n \in Nat : n = Len(s[d].endpoints)
    BY DEF Listed
  <2>2. IsFiniteSet(0..n)
    BY FS_Interval
  <2>3. IsFiniteSet({d})
    BY FS_Singleton
  <2> QED
    BY <2>1, <2>2, <2>3, FS_Product
<1>5. IsFiniteSet(UNION T)
  <2>1. \A t \in T : IsFiniteSet(t)
    <3> HIDE DEF Of
    <3> QED
      BY <1>4
  <2> HIDE DEF T
  <2> QED
    BY <1>3, <2>1, FS_UNION
<1>6. Places(s) = UNION T
  <2>1. DOMAIN s = 1..Len(s)
    BY DEF Listed
  <2> QED
    BY <2>1 DEF Places
<1> QED
  BY <1>5, <1>6

\* An id is a number from 3 on.
LEMMA IdIsNumber ==
  ASSUME NEW s, Listed(s), NEW h
  PROVE  /\ IsFiniteSet(Upto(s, h)) /\ Cardinality(Upto(s, h)) \in Nat
         /\ IdOf(s, h) = 3 + Cardinality(Upto(s, h))
         /\ IdOf(s, h) \in Nat /\ IdOf(s, h) >= 3
<1>1. Upto(s, h) \in SUBSET Places(s)
  BY DEF Upto
<1>2. IsFiniteSet(Upto(s, h))
  BY <1>1, PlacesFinite, FS_Subset
<1>3. Cardinality(Upto(s, h)) \in Nat
  BY <1>2, FS_CardinalityType
<1>4. IdOf(s, h) = 3 + Cardinality(Upto(s, h))
  BY DEF IdOf, Upto
<1> QED
  BY <1>2, <1>3, <1>4

\* Before the first place there is none.
LEMMA FirstId ==
  ASSUME NEW s, Listed(s)
  PROVE  Upto(s, <<1, 0>>) = {} /\ IdOf(s, <<1, 0>>) = 3
<1>1. Upto(s, <<1, 0>>) = {}
  <2> SUFFICES ASSUME NEW p \in Places(s), Precedes(p, <<1, 0>>) PROVE FALSE
    BY DEF Upto
  <2> QED
    BY PlacesAre DEF Precedes
<1> QED
  BY <1>1, IdIsNumber, FS_EmptySet

\* Before the place after the last one there are all.
LEMMA LastId ==
  ASSUME NEW s, Listed(s)
  PROVE  Upto(s, <<Len(s) + 1, 0>>) = Places(s) /\ IdOf(s, <<Len(s) + 1, 0>>) = 3 + Cardinality(Places(s))
<1>1. Upto(s, <<Len(s) + 1, 0>>) = Places(s)
  <2> SUFFICES ASSUME NEW p \in Places(s) PROVE Precedes(p, <<Len(s) + 1, 0>>)
    BY DEF Upto
  <2>1. Len(s) \in Nat /\ p[1] \in 1..Len(s)
    BY PlacesAre DEF Listed
  <2> QED
    BY <2>1 DEF Precedes
<1> QED
  BY <1>1, IdIsNumber

\* The next place of a device comes right after the one before it.
LEMMA NextId ==
  ASSUME NEW s, Listed(s), NEW d \in 1..Len(s), NEW j \in 0..Len(s[d].endpoints)
  PROVE  /\ <<d, j>> \in Places(s) /\ <<d, j>> \notin Upto(s, <<d, j>>)
         /\ Upto(s, <<d, j + 1>>) = Upto(s, <<d, j>>) \cup {<<d, j>>}
         /\ IdOf(s, <<d, j + 1>>) = IdOf(s, <<d, j>>) + 1
<1>1. Len(s) \in Nat /\ Len(s[d].endpoints) \in Nat /\ d \in Nat /\ j \in Nat
  BY DEF Listed
<1>2. <<d, j>> \in Places(s)
  BY PlacesAre
<1>3. <<d, j>> \notin Upto(s, <<d, j>>)
  BY <1>1 DEF Upto, Precedes
<1>4. Upto(s, <<d, j + 1>>) = Upto(s, <<d, j>>) \cup {<<d, j>>}
  <2>1. ASSUME NEW p \in Places(s)
        PROVE  Precedes(p, <<d, j + 1>>) <=> Precedes(p, <<d, j>>) \/ p = <<d, j>>
    <3>1. p = <<p[1], p[2]>> /\ p[1] \in Nat /\ p[2] \in Nat
      BY PlacesAre
    <3> QED
      BY <1>1, <3>1 DEF Precedes
  <2> QED
    BY <1>2, <2>1 DEF Upto
<1>5. IdOf(s, <<d, j + 1>>) = IdOf(s, <<d, j>>) + 1
  <2>1. Cardinality(Upto(s, <<d, j + 1>>)) = Cardinality(Upto(s, <<d, j>>)) + 1
    BY <1>3, <1>4, IdIsNumber, FS_AddElement
  <2> QED
    BY <2>1, IdIsNumber
<1> QED
  BY <1>2, <1>3, <1>4, <1>5

\* The next device comes right after the last child.
LEMMA NextDeviceId ==
  ASSUME NEW s, Listed(s), NEW d \in 1..Len(s), NEW j, j = Len(s[d].endpoints) + 1
  PROVE  Upto(s, <<d + 1, 0>>) = Upto(s, <<d, j>>) /\ IdOf(s, <<d + 1, 0>>) = IdOf(s, <<d, j>>)
<1>1. Len(s) \in Nat /\ Len(s[d].endpoints) \in Nat /\ d \in Nat /\ j \in Nat
  BY DEF Listed
<1>2. Upto(s, <<d + 1, 0>>) = Upto(s, <<d, j>>)
  <2>1. ASSUME NEW p \in Places(s)
        PROVE  Precedes(p, <<d + 1, 0>>) <=> Precedes(p, <<d, j>>)
    <3>1. p[1] \in Nat /\ p[2] \in Nat /\ p[2] \in 0..Len(s[p[1]].endpoints)
      BY PlacesAre
    <3>2. p[1] = d => p[2] < j
      BY <1>1, <3>1
    <3> QED
      BY <1>1, <3>1, <3>2 DEF Precedes
  <2> QED
    BY <2>1 DEF Upto
<1> QED
  BY <1>2, IdIsNumber

\* Ids grow from place to place.
LEMMA IdsGrow ==
  ASSUME NEW s, Listed(s), NEW p \in Places(s), NEW h \in Place, Precedes(p, h)
  PROVE  IdOf(s, p) < IdOf(s, h)
<1>1. p[1] \in Nat /\ p[2] \in Nat /\ h[1] \in Nat /\ h[2] \in Nat
  BY PlacesAre DEF Place
<1>2. p \notin Upto(s, p)
  BY <1>1 DEF Upto, Precedes
<1>3. Upto(s, p) \cup {p} \in SUBSET Upto(s, h)
  <2>1. ASSUME NEW q \in Places(s), Precedes(q, p) PROVE Precedes(q, h)
    <3>1. q[1] \in Nat /\ q[2] \in Nat
      BY PlacesAre
    <3> QED
      BY <1>1, <2>1, <3>1 DEF Precedes
  <2> QED
    BY <2>1 DEF Upto
<1>4. Cardinality(Upto(s, p) \cup {p}) = Cardinality(Upto(s, p)) + 1
  BY <1>2, IdIsNumber, FS_AddElement
<1>5. Cardinality(Upto(s, p) \cup {p}) <= Cardinality(Upto(s, h))
  BY <1>3, IdIsNumber, FS_Subset
<1> QED
  BY <1>4, <1>5, IdIsNumber

\* No two places have the same id.
LEMMA IdsDiffer ==
  ASSUME NEW s, Listed(s), NEW p \in Places(s), NEW q \in Places(s), IdOf(s, p) = IdOf(s, q)
  PROVE  p = q
<1>1. /\ p = <<p[1], p[2]>> /\ p[1] \in Nat /\ p[2] \in Nat
      /\ q = <<q[1], q[2]>> /\ q[1] \in Nat /\ q[2] \in Nat
  BY PlacesAre
<1>2. p \in Place /\ q \in Place
  BY <1>1 DEF Place
<1>3. ~Precedes(p, q)
  BY <1>2, IdsGrow, IdIsNumber
<1>4. ~Precedes(q, p)
  BY <1>2, IdsGrow, IdIsNumber
<1> QED
  BY <1>1, <1>3, <1>4 DEF Precedes

\* The schema of a list of devices.
SchemaOf(devs) ==
  [i \in DOMAIN devs |->
     [label |-> devs[i].label,
      endpoints |-> [j \in DOMAIN devs[i].endpoints |->
                       [kind |-> devs[i].endpoints[j].kind,
                        label |-> devs[i].endpoints[j].label]]]]

\* The schema of one device.
LEMMA SchemaAt ==
  ASSUME NEW devs, NEW d \in DOMAIN devs
  PROVE  SchemaOf(devs)[d].endpoints = [j \in DOMAIN devs[d].endpoints |->
                                          [kind |-> devs[d].endpoints[j].kind,
                                           label |-> devs[d].endpoints[j].label]]
BY DEF SchemaOf

\* It has the lengths and kinds of the list.
LEMMA SchemaIs ==
  ASSUME NEW devs \in Seq(Device), NEW s, s = SchemaOf(devs)
  PROVE  /\ Listed(s) /\ Len(s) = Len(devs)
         /\ \A d \in 1..Len(devs) :
              /\ Len(s[d].endpoints) = Len(devs[d].endpoints)
              /\ DOMAIN devs[d].endpoints = 1..Len(devs[d].endpoints)
              /\ \A j \in 1..Len(devs[d].endpoints) :
                   s[d].endpoints[j].kind = devs[d].endpoints[j].kind
<1>1. PICK n \in Nat : n = Len(devs) /\ DOMAIN devs = 1..n
  OBVIOUS
<1>2. ASSUME NEW d \in 1..n
      PROVE  /\ Len(devs[d].endpoints) \in Nat
             /\ DOMAIN devs[d].endpoints = 1..Len(devs[d].endpoints)
  BY <1>1 DEF Device
<1>3. DOMAIN SchemaOf(devs) = 1..n
  BY <1>1 DEF SchemaOf
<1>4. Len(s) = n /\ DOMAIN s = 1..n
  <2>1. SchemaOf(devs) = [d \in 1..n |-> SchemaOf(devs)[d]]
    BY <1>1 DEF SchemaOf
  <2> QED
    BY <2>1
<1>5. ASSUME NEW d \in 1..n
      PROVE  /\ Len(s[d].endpoints) = Len(devs[d].endpoints)
             /\ \A j \in 1..Len(devs[d].endpoints) :
                  s[d].endpoints[j].kind = devs[d].endpoints[j].kind
  <2>1. PICK es, m : es = s[d].endpoints /\ m = Len(devs[d].endpoints)
    OBVIOUS
  <2>2. es = [j \in 1..m |-> [kind |-> devs[d].endpoints[j].kind, label |-> devs[d].endpoints[j].label]]
    <3>1. d \in DOMAIN devs /\ DOMAIN devs[d].endpoints = 1..m
      BY <1>1, <1>2, <2>1
    <3>2. es = [j \in DOMAIN devs[d].endpoints |->
                  [kind |-> devs[d].endpoints[j].kind, label |-> devs[d].endpoints[j].label]]
      BY <2>1, <3>1, SchemaAt, Zenon
    <3> QED
      BY <3>1, <3>2
  <2>3. m \in Nat
    BY <1>2, <2>1
  <2>4. Len(es) = m /\ \A j \in 1..m : es[j].kind = devs[d].endpoints[j].kind
    BY <2>2, <2>3
  <2> QED
    BY <2>1, <2>4
<1> QED
  BY <1>1, <1>2, <1>4, <1>5 DEF Listed

\* The schema before and after a step that leaves the devices alone.
LEMMA SchemaKept ==
  ASSUME TypeOK, devices' = devices
  PROVE  /\ Schema' = Schema /\ Listed(Schema) /\ Len(Schema) = Len(devices) /\ Len(devices) \in Nat
         /\ DOMAIN devices = 1..Len(devices)
         /\ \A d \in 1..Len(devices) :
              /\ Len(Schema[d].endpoints) = Len(devices[d].endpoints)
              /\ DOMAIN devices[d].endpoints = 1..Len(devices[d].endpoints)
              /\ \A j \in 1..Len(devices[d].endpoints) :
                   Schema[d].endpoints[j].kind = devices[d].endpoints[j].kind
<1>1. PICK s, devs : s = Schema /\ devs = devices
  OBVIOUS
<1>2. s = SchemaOf(devs) /\ devs \in Seq(Device)
  BY <1>1 DEF Schema, SchemaOf, TypeOK
<1>3. Schema' = Schema
  BY DEF Schema
<1>4. Len(devices) \in Nat /\ DOMAIN devices = 1..Len(devices)
  BY DEF TypeOK
<1>5. /\ Listed(s) /\ Len(s) = Len(devs)
      /\ \A d \in 1..Len(devs) :
           /\ Len(s[d].endpoints) = Len(devs[d].endpoints)
           /\ DOMAIN devs[d].endpoints = 1..Len(devs[d].endpoints)
           /\ \A j \in 1..Len(devs[d].endpoints) :
                s[d].endpoints[j].kind = devs[d].endpoints[j].kind
  BY <1>2, SchemaIs
<1> QED
  BY <1>1, <1>3, <1>4, <1>5

-----------------------------------------------------------------------------
(* The entries of the handler.                                               *)

\* What the clusters of a kind are.
LEMMA ClustersOfKind ==
  ASSUME NEW kind \in Kinds
  PROVE  \/ kind = "ContactSensor" /\ FunctionClusters(kind) = {"BooleanState"}
         \/ kind = "OccupancySensor" /\ FunctionClusters(kind) = {"OccupancySensing"}
         \/ kind \in {"Switch", "LightSwitch"} /\ FunctionClusters(kind) = {"OnOff"}
         \/ kind = "VideoDoorbellCamera" /\ FunctionClusters(kind) = {}
         \/ kind = "TemperatureSensor" /\ FunctionClusters(kind) = {"TemperatureMeasurement"}
         \/ kind = "HumiditySensor" /\ FunctionClusters(kind) = {"RelativeHumidity"}
         \/ kind = "GenericSwitch" /\ FunctionClusters(kind) = {"GenericSwitch"}
<1>1. CASE kind = "ContactSensor"
  BY <1>1 DEF FunctionClusters
<1>2. CASE kind = "OccupancySensor"
  BY <1>2 DEF FunctionClusters
<1>3. CASE kind \in {"Switch", "LightSwitch"}
  BY <1>3 DEF FunctionClusters
<1>4. CASE kind = "VideoDoorbellCamera"
  BY <1>4 DEF FunctionClusters
<1>5. CASE kind = "TemperatureSensor"
  BY <1>5 DEF FunctionClusters
<1>6. CASE kind = "HumiditySensor"
  BY <1>6 DEF FunctionClusters
<1>7. CASE kind = "GenericSwitch"
  BY <1>7 DEF FunctionClusters
<1> QED
  BY <1>1, <1>2, <1>3, <1>4, <1>5, <1>6, <1>7 DEF Kinds

\* An endpoint has one function at most, which is neither its label nor its parts.
LEMMA OneFunction ==
  ASSUME NEW kind \in Kinds
  PROVE  /\ \A c, d \in FunctionClusters(kind) : c = d
         /\ kind # "VideoDoorbellCamera" <=> FunctionClusters(kind) # {}
         /\ FunctionClusters(kind) \subseteq Functional
         /\ "Descriptor" \notin FunctionClusters(kind) /\ "Bridged" \notin FunctionClusters(kind)
<1> DEFINE Good(f) == /\ \A c, d \in f : c = d
                      /\ "Descriptor" \notin f /\ "Bridged" \notin f
<1>1. /\ Good({}) /\ Good({"BooleanState"}) /\ Good({"OccupancySensing"}) /\ Good({"OnOff"})
      /\ Good({"TemperatureMeasurement"}) /\ Good({"RelativeHumidity"}) /\ Good({"GenericSwitch"})
  OBVIOUS
<1>2. Good(FunctionClusters(kind))
  <2> HIDE DEF Good
  <2> QED
    BY <1>1, ClustersOfKind, Zenon
<1>3. kind # "VideoDoorbellCamera" <=> FunctionClusters(kind) # {}
  <2>1. PICK f : f = FunctionClusters(kind)
    OBVIOUS
  <2>2. /\ {"BooleanState"} # {} /\ {"OccupancySensing"} # {} /\ {"OnOff"} # {}
        /\ {"TemperatureMeasurement"} # {} /\ {"RelativeHumidity"} # {} /\ {"GenericSwitch"} # {}
    OBVIOUS
  <2> QED
    BY <2>1, <2>2, ClustersOfKind
<1>4. FunctionClusters(kind) \subseteq Functional
  BY Zenon DEF Functional
<1> QED
  BY <1>2, <1>3, <1>4

\* What the constructors make of a source, and what is read of it.
LEMMA ConfigIs ==
  ASSUME NEW kind \in Kinds, NEW label, NEW place, place # None,
         NEW config, config = EndpointConfig(kind, label, place)
  PROVE  /\ config.kind = kind /\ config.label = label /\ Source(config) = place
         /\ Wirable(config) <=> FunctionClusters(kind) # {}
<1>1. config.kind = kind /\ config.label = label
  BY DEF EndpointConfig
<1>2. Source(config) = place
  <2>1. CASE kind \in {"TemperatureSensor", "HumiditySensor", "GenericSwitch"}
    BY <2>1 DEF EndpointConfig, Source
  <2>2. CASE kind \notin {"TemperatureSensor", "HumiditySensor", "GenericSwitch"}
    BY <2>2 DEF EndpointConfig, Source
  <2> QED
    BY <2>1, <2>2
<1> QED
  BY <1>1, <1>2, OneFunction DEF Wirable

\* The clusters of the endpoints.
LEMMA EndpointClusters ==
  ASSUME NEW kind
  PROVE  /\ ParentEndpoint.clusters = {"Bridged", "OnOff", "Descriptor"}
         /\ ChildEndpoint(kind).clusters = {"Bridged", "Descriptor"} \cup FunctionClusters(kind)
<1>1. ParentEndpoint.clusters = {"Bridged", "OnOff", "Descriptor"}
  BY DEF ParentEndpoint, Endpoint
<1>2. ChildEndpoint(kind).clusters = ({"Bridged"} \cup FunctionClusters(kind)) \cup {"Descriptor"}
  BY Zenon DEF ChildEndpoint, Endpoint
<1> QED
  BY <1>1, <1>2

\* The endpoints that every node has.
LEMMA RootIs ==
  /\ DOMAIN RootEndpoints = 0..2
  /\ RootEndpoints[0].clusters = {"TimeSync", "Descriptor"}
  /\ RootEndpoints[1].clusters = {"OnOff", "Descriptor"}
  /\ RootEndpoints[2].clusters = {"Descriptor"}
<1>1. DOMAIN RootEndpoints = 0..2
  BY DEF RootEndpoints
<1>2. /\ RootEndpoints[0] = Endpoint({"RootNode"}, {"TimeSync"})
      /\ RootEndpoints[1] = Endpoint({"OnOffPlugInUnit"}, {"OnOff"})
      /\ RootEndpoints[2] = Endpoint({"Aggregator"}, {})
  <2>1. 0 \in 0..2 /\ 1 \in 0..2 /\ 2 \in 0..2
    OBVIOUS
  <2> QED
    BY <2>1 DEF RootEndpoints
<1> QED
  BY <1>1, <1>2 DEF Endpoint

\* A parent has an entry for each of its clusters.
LEMMA ParentEntriesDomain ==
  ASSUME NEW id, NEW dev, NEW i
  PROVE  DOMAIN ParentEntries(id, dev, i) = {id} \X ParentEndpoint.clusters
<1>1. DOMAIN ParentEntries(id, dev, i) = {id} \X {"Descriptor", "Bridged", "OnOff"}
  BY DEF ParentEntries
<1>2. {"Descriptor", "Bridged", "OnOff"} = ParentEndpoint.clusters
  BY EndpointClusters
<1> QED
  BY <1>1, <1>2

\* What they are.
LEMMA ParentEntriesAre ==
  ASSUME NEW id, NEW dev, NEW i
  PROVE  /\ ParentEntries(id, dev, i)[<<id, "Descriptor">>].variant = "DescWithParts"
         /\ ParentEntries(id, dev, i)[<<id, "Bridged">>].variant = "Bridged"
         /\ ParentEntries(id, dev, i)[<<id, "OnOff">>].variant = "DeviceOnOff"
<1>2. ASSUME NEW c \in {"Descriptor", "Bridged", "OnOff"}
      PROVE  <<id, c>> \in {id} \X {"Descriptor", "Bridged", "OnOff"} /\ <<id, c>>[2] = c
  OBVIOUS
<1>3. /\ ParentEntries(id, dev, i)[<<id, "Descriptor">>] = Entry("DescWithParts", None)
      /\ ParentEntries(id, dev, i)[<<id, "Bridged">>] = BridgedEntry(dev.label, dev.info, None)
      /\ ParentEntries(id, dev, i)[<<id, "OnOff">>] = Entry("DeviceOnOff", <<i, 0>>)
  BY <1>2 DEF ParentEntries
<1> QED
  BY <1>3 DEF Entry, BridgedEntry

\* A child has an entry for each of its clusters.
LEMMA ChildEntriesDomain ==
  ASSUME NEW id, NEW kind \in Kinds, NEW label, NEW place, place # None,
         NEW config, config = EndpointConfig(kind, label, place)
  PROVE  DOMAIN ChildEntries(id, config, place) = {id} \X ChildEndpoint(kind).clusters
<1>1. config.kind = kind /\ (Wirable(config) <=> FunctionClusters(kind) # {})
  BY ConfigIs
<1>2. {"Descriptor", "Bridged"} \cup (IF Wirable(config) THEN FunctionClusters(config.kind) ELSE {})
        = ChildEndpoint(kind).clusters
  BY <1>1, EndpointClusters
<1> QED
  BY <1>1, <1>2 DEF ChildEntries

\* They are one for the parts,
LEMMA ChildPartsIs ==
  ASSUME NEW id, NEW kind \in Kinds, NEW label, NEW place, place # None,
         NEW config, config = EndpointConfig(kind, label, place)
  PROVE  ChildEntries(id, config, place)[<<id, "Descriptor">>] = Entry("Desc", None)
<1>1. config.label = label
  BY ConfigIs
<1>2. <<id, "Descriptor">> \in DOMAIN ChildEntries(id, config, place)
  BY DEF ChildEntries
<1> QED
  BY <1>1, <1>2 DEF ChildEntries

\* one for the label,
LEMMA ChildLabelIs ==
  ASSUME NEW id, NEW kind \in Kinds, NEW label, NEW place, place # None,
         NEW config, config = EndpointConfig(kind, label, place)
  PROVE  /\ ChildEntries(id, config, place)[<<id, "Bridged">>].variant = "Bridged"
         /\ ChildEntries(id, config, place)[<<id, "Bridged">>].name = label
         /\ ChildEntries(id, config, place)[<<id, "Bridged">>].flag = place
<1>1. config.label = label
  BY ConfigIs
<1>2. <<id, "Bridged">> \in DOMAIN ChildEntries(id, config, place)
  BY DEF ChildEntries
<1>3. ChildEntries(id, config, place)[<<id, "Bridged">>] = BridgedEntry(label, FALSE, place)
  BY <1>1, <1>2 DEF ChildEntries
<1> QED
  BY <1>3 DEF BridgedEntry

\* and that of the function, which is built around the source.
LEMMA ChildFunctionIs ==
  ASSUME NEW id, NEW kind \in Kinds, NEW label, NEW place, place # None,
         NEW config, config = EndpointConfig(kind, label, place),
         NEW c \in FunctionClusters(kind)
  PROVE  ChildEntries(id, config, place)[<<id, c>>] = Entry(c, place)
<1>1. Source(config) = place
  BY ConfigIs
<1>2. c # "Descriptor" /\ c # "Bridged"
  BY OneFunction
<1>3. <<id, c>> \in DOMAIN ChildEntries(id, config, place)
  <2>1. DOMAIN ChildEntries(id, config, place) = {id} \X ChildEndpoint(kind).clusters
    BY ChildEntriesDomain
  <2>2. c \in ChildEndpoint(kind).clusters
    BY EndpointClusters
  <2> QED
    BY <2>1, <2>2
<1> QED
  BY <1>1, <1>2, <1>3 DEF ChildEntries

-----------------------------------------------------------------------------
(* Describing the devices.                                                   *)

\* What a constructor makes is a configuration.
LEMMA ConfigType ==
  ASSUME NEW kind \in Kinds, NEW label \in Labels, NEW place \in Place
  PROVE  EndpointConfig(kind, label, place) \in Config
BY DEF EndpointConfig, Config, Place, None

\* As long as nothing is wired the tables are empty, whatever the list.
LEMMA WiredNothing ==
  ASSUME NEW s, NEW t, Upto(s, First) = {}, Upto(t, First) = {},
         WiredUpto(s, First), UNCHANGED wiredVars
  PROVE  WiredUpto(t, First)'
<1> USE DEF wiredVars, First
<1>1. ChildrenUpto(s, First) = {} /\ ChildrenUpto(t, First) = {}
  BY DEF ChildrenUpto
<1>2. HandledUpto(t, First)'
  BY DEF WiredUpto, HandledUpto
<1>3. NotifiedUpto(t, First)'
  BY <1>1 DEF WiredUpto, NotifiedUpto
<1>4. ButtonsUpto(t, First)'
  BY <1>1 DEF WiredUpto, ButtonsUpto
<1>5. CascadesUpto(t, First)'
  BY <1>1 DEF WiredUpto, CascadesUpto
<1> QED
  BY <1>2, <1>3, <1>4, <1>5 DEF WiredUpto

\* A step that describes the devices keeps the rest of the invariant.
LEMMA DescribeStep ==
  ASSUME IInv, phase = "describe", TypeOK', Described',
         UNCHANGED <<phase, turnVars, builtVars, wiredVars, targets>>
  PROVE  IInv'
<1>1. PICK s, t, ds, dt : s = Schema /\ t = Schema' /\ ds = devices /\ dt = devices'
  OBVIOUS
<1>2. s = SchemaOf(ds) /\ t = SchemaOf(dt) /\ ds \in Seq(Device) /\ dt \in Seq(Device)
  BY <1>1 DEF IInv, TypeOK, Schema, SchemaOf
<1>3. Listed(s) /\ Listed(t)
  BY <1>2, SchemaIs
<1>4. Upto(s, First) = {} /\ Upto(t, First) = {}
  BY <1>3, FirstId DEF First
<1>5. ToBuild = First /\ ToWire = First /\ ToBuild' = First /\ ToWire' = First
  BY DEF ToBuild, ToWire
<1>6. WiredUpto(t, First)'
  <2>1. WiredUpto(s, First)
    BY <1>1, <1>5 DEF IInv
  <2> QED
    BY <1>4, <2>1, WiredNothing
<1>7. MappedUpto(t, First)'
  <2>1. MappedUpto(s, First)
    BY <1>1, <1>5 DEF IInv
  <2> QED
    BY <2>1 DEF MappedUpto, First, builtVars
<1>8. MappedUpto(Schema, ToBuild)' /\ WiredUpto(Schema, ToWire)'
  BY <1>1, <1>5, <1>6, <1>7
<1> QED
  BY <1>8 DEF IInv, turnVars, builtVars

\* A device more.
LEMMA NewDeviceStep ==
  ASSUME IInv, NEW label \in Labels, NewDevice(label)
  PROVE  IInv'
<1> DEFINE new == [label |-> label, endpoints |-> <<>>, info |-> FALSE]
<1>1. TypeOK /\ Described /\ phase = "describe" /\ device = 1 /\ child = 0
  BY DEF IInv, NewDevice
<1>2. new \in Device
  BY DEF Device
<1>3. /\ devices' = Append(devices, new) /\ devices \in Seq(Device)
  BY <1>1 DEF NewDevice, TypeOK
<1>4. PICK n \in Nat : n = Len(devices)
  BY <1>3
<1>5. /\ devices' \in Seq(Device) /\ Len(devices') = n + 1 /\ DOMAIN devices' = 1..n + 1
      /\ DOMAIN devices = 1..n
      /\ \A i \in 1..n : devices'[i] = devices[i]
      /\ devices'[n + 1] = new
  <2> HIDE DEF new
  <2> QED
    BY <1>2, <1>3, <1>4
<1>6. TypeOK'
  <2>1. UNCHANGED <<phase, device, child, nextId, ids, parts, mappings>>
    BY DEF NewDevice, turnVars, builtVars
  <2>2. Len(devices'[1].endpoints) \in Nat
    BY <1>5 DEF Device
  <2>3. device' \in 1..Len(devices') + 1 /\ child' \in 0..Len(This.endpoints)' + 1
    BY <1>1, <1>4, <1>5, <2>1, <2>2 DEF This
  <2> QED
    BY <1>1, <1>5, <2>1, <2>3 DEF TypeOK
<1>7. Described'
  <2>1. ASSUME NEW i \in 1..n + 1, NEW j \in DOMAIN devices'[i].endpoints
        PROVE  devices'[i].endpoints[j] =
                 EndpointConfig(devices'[i].endpoints[j].kind, devices'[i].endpoints[j].label, <<i, j>>)
    <3>1. CASE i = n + 1
      BY <1>5, <2>1, <3>1
    <3>2. CASE i \in 1..n
      BY <1>1, <1>5, <2>1, <3>2 DEF Described
    <3> QED
      BY <1>4, <3>1, <3>2
  <2> QED
    BY <1>5, <2>1 DEF Described
<1> QED
  BY <1>1, <1>6, <1>7, DescribeStep DEF NewDevice

\* An endpoint more.
LEMMA WithEndpointStep ==
  ASSUME IInv, NEW kind \in Kinds, NEW label \in Labels, WithEndpoint(kind, label)
  PROVE  IInv'
<1>1. TypeOK /\ Described /\ phase = "describe" /\ device = 1 /\ child = 0
  BY DEF IInv, WithEndpoint
<1>2. PICK n \in Nat \ {0} : n = Len(devices) /\ DOMAIN devices = 1..n
  BY <1>1 DEF WithEndpoint, TypeOK
<1>3. PICK es \in Seq(Config), m \in Nat : es = devices[n].endpoints /\ m = Len(es) /\ DOMAIN es = 1..m
  <2>1. devices[n] \in Device
    BY <1>1, <1>2 DEF TypeOK
  <2>2. PICK es \in Seq(Config) : es = devices[n].endpoints
    BY <2>1 DEF Device
  <2>3. Len(es) \in Nat /\ DOMAIN es = 1..Len(es)
    OBVIOUS
  <2> QED
    BY <2>2, <2>3
<1>4. PICK new \in Config : new = EndpointConfig(kind, label, <<n, m + 1>>)
  <2>1. <<n, m + 1>> \in Place
    BY DEF Place
  <2> QED
    BY <2>1, ConfigType
<1>5. devices' = [devices EXCEPT ![n].endpoints = Append(es, new)]
  BY <1>2, <1>3, <1>4 DEF WithEndpoint
<1>6. Append(es, new) \in Seq(Config) /\ DOMAIN Append(es, new) = 1..m + 1
      /\ (\A j \in 1..m : Append(es, new)[j] = es[j]) /\ Append(es, new)[m + 1] = new
  BY <1>3
<1>7. /\ devices' \in Seq(Device) /\ Len(devices') = n /\ DOMAIN devices' = 1..n
      /\ \A i \in 1..n : i # n => devices'[i] = devices[i]
      /\ devices'[n].endpoints = Append(es, new)
  <2>1. devices[n] \in Device /\ devices \in Seq(Device)
    BY <1>1, <1>2 DEF TypeOK
  <2>2. [devices[n] EXCEPT !.endpoints = Append(es, new)] \in Device
    BY <1>6, <2>1 DEF Device
  <2>3. devices' = [devices EXCEPT ![n] = [devices[n] EXCEPT !.endpoints = Append(es, new)]]
    BY <1>5
  <2>4. devices'[n].endpoints = Append(es, new)
    BY <1>2, <2>1, <2>3 DEF Device
  <2> QED
    BY <1>2, <2>1, <2>2, <2>3, <2>4
<1>8. TypeOK'
  <2>1. UNCHANGED <<phase, device, child, nextId, ids, parts, mappings>>
    BY DEF WithEndpoint, turnVars, builtVars
  <2>2. Len(devices'[1].endpoints) \in Nat
    BY <1>7 DEF Device
  <2>3. device' \in 1..Len(devices') + 1 /\ child' \in 0..Len(This.endpoints)' + 1
    BY <1>1, <1>2, <1>7, <2>1, <2>2 DEF This
  <2> QED
    BY <1>1, <1>7, <2>1, <2>3 DEF TypeOK
<1>9. Described'
  <2>1. ASSUME NEW i \in 1..n, NEW j \in DOMAIN devices'[i].endpoints
        PROVE  devices'[i].endpoints[j] =
                 EndpointConfig(devices'[i].endpoints[j].kind, devices'[i].endpoints[j].label, <<i, j>>)
    <3>1. CASE i = n /\ j = m + 1
      <4>1. devices'[i].endpoints[j] = new
        BY <1>6, <1>7, <3>1
      <4>2. new.kind = kind /\ new.label = label
        BY <1>4 DEF EndpointConfig
      <4> QED
        BY <1>4, <3>1, <4>1, <4>2
    <3>2. CASE i = n /\ j \in 1..m
      <4>1. devices'[i].endpoints[j] = devices[i].endpoints[j] /\ j \in DOMAIN devices[i].endpoints
        BY <1>3, <1>6, <1>7, <3>2
      <4> QED
        BY <1>1, <1>2, <4>1 DEF Described
    <3>3. CASE i # n
      BY <1>1, <1>2, <1>7, <2>1, <3>3 DEF Described
    <3> QED
      BY <1>6, <1>7, <2>1, <3>1, <3>2, <3>3
  <2> QED
    BY <1>7, <2>1 DEF Described
<1> QED
  BY <1>1, <1>8, <1>9, DescribeStep DEF WithEndpoint

\* The last device's information.
LEMMA WithDeviceInfoStep ==
  ASSUME IInv, WithDeviceInfo
  PROVE  IInv'
<1>1. TypeOK /\ Described /\ phase = "describe" /\ device = 1 /\ child = 0
  BY DEF IInv, WithDeviceInfo
<1>2. PICK n \in Nat \ {0} : n = Len(devices) /\ DOMAIN devices = 1..n
  BY <1>1 DEF WithDeviceInfo, TypeOK
<1>3. /\ devices' \in Seq(Device) /\ Len(devices') = n /\ DOMAIN devices' = 1..n
      /\ \A i \in 1..n : devices'[i].endpoints = devices[i].endpoints
  <2>1. devices[n] \in Device /\ devices \in Seq(Device)
    BY <1>1, <1>2 DEF TypeOK
  <2>2. [devices[n] EXCEPT !.info = TRUE] \in Device /\ [devices[n] EXCEPT !.info = TRUE].endpoints = devices[n].endpoints
    BY <2>1 DEF Device
  <2>3. devices' = [devices EXCEPT ![n] = [devices[n] EXCEPT !.info = TRUE]]
    BY <1>2 DEF WithDeviceInfo
  <2> QED
    BY <1>2, <2>1, <2>2, <2>3
<1>4. TypeOK'
  <2>1. UNCHANGED <<phase, device, child, nextId, ids, parts, mappings>>
    BY DEF WithDeviceInfo, turnVars, builtVars
  <2>2. Len(devices'[1].endpoints) \in Nat
    BY <1>3 DEF Device
  <2>3. device' \in 1..Len(devices') + 1 /\ child' \in 0..Len(This.endpoints)' + 1
    BY <1>1, <1>2, <1>3, <2>1, <2>2 DEF This
  <2> QED
    BY <1>1, <1>3, <2>1, <2>3 DEF TypeOK
<1>5. Described'
  <2>1. ASSUME NEW i \in 1..n, NEW j \in DOMAIN devices'[i].endpoints
        PROVE  devices'[i].endpoints[j] =
                 EndpointConfig(devices'[i].endpoints[j].kind, devices'[i].endpoints[j].label, <<i, j>>)
    BY <1>1, <1>2, <1>3, <2>1 DEF Described
  <2> QED
    BY <1>3, <2>1 DEF Described
<1> QED
  BY <1>1, <1>4, <1>5, DescribeStep DEF WithDeviceInfo

-----------------------------------------------------------------------------
(* build_node.                                                               *)

\* What a step leaves alone stays as far as it was.
LEMMA NodeKept ==
  ASSUME NEW s, NEW h, NodeUpto(s, h), UNCHANGED <<nextId, node>>
  PROVE  NodeUpto(s, h)'
BY DEF NodeUpto

\* The same of the mappings.
LEMMA MappedKept ==
  ASSUME NEW s, NEW h, MappedUpto(s, h), UNCHANGED <<ids, mappings, parts>>
  PROVE  MappedUpto(s, h)'
BY DEF MappedUpto, Holds

\* The same of the tables of the wiring.
LEMMA WiredKept ==
  ASSUME NEW s, NEW h, WiredUpto(s, h), UNCHANGED <<devices, wiredVars>>
  PROVE  WiredUpto(s, h)'
<1>1. UNCHANGED <<handlers, notified, notifiers, buttonIds, sources, cascades, devices>>
  BY DEF wiredVars
<1>2. \A p : EntriesOf(s, p)' = EntriesOf(s, p) /\ PairsOf(s, p)' = PairsOf(s, p) /\ ConfigOf(p)' = ConfigOf(p)
  BY <1>1 DEF EntriesOf, PairsOf, ConfigOf
<1>3. HandledUpto(s, h)'
  BY <1>1, <1>2 DEF WiredUpto, HandledUpto
<1>4. NotifiedUpto(s, h)'
  BY <1>1, <1>2 DEF WiredUpto, NotifiedUpto
<1>5. ButtonsUpto(s, h)'
  BY <1>1, <1>2 DEF WiredUpto, ButtonsUpto
<1>6. CascadesUpto(s, h)'
  BY <1>1, <1>2 DEF WiredUpto, CascadesUpto
<1> QED
  BY <1>3, <1>4, <1>5, <1>6 DEF WiredUpto

\* The next endpoint takes the next id.
LEMMA NodeGrows ==
  ASSUME NEW s, Listed(s), NEW d \in 1..Len(s), NEW j \in 0..Len(s[d].endpoints),
         NEW h, h = <<d, j>>, NodeUpto(s, h),
         nextId' = nextId + 1, node' = Insert(node, At(nextId, EndpointOf(s, h)))
  PROVE  NodeUpto(s, <<d, j + 1>>)'
<1>1. PICK k, id, e, n : k = <<d, j + 1>> /\ id = nextId /\ e = EndpointOf(s, h) /\ n = node
  OBVIOUS
<1>2. /\ h \in Places(s) /\ h \notin Upto(s, h) /\ Upto(s, k) = Upto(s, h) \cup {h}
      /\ IdOf(s, k) = IdOf(s, h) + 1
  BY <1>1, NextId
<1>3. id = IdOf(s, h) /\ id \in Nat /\ id >= 3
  BY <1>1, IdIsNumber DEF NodeUpto
<1>4. h \in Place
  BY DEF Place, Listed
<1>5. /\ DOMAIN n = 0..id - 1
      /\ \A i \in 0..2 : n[i] = RootEndpoints[i]
      /\ \A p \in Upto(s, h) : n[IdOf(s, p)] = EndpointOf(s, p)
      /\ \A i \in 3..id - 1 : \E p \in Upto(s, h) : IdOf(s, p) = i
  <2>1. n = [i \in 0..id - 1 |-> n[i]]
    BY <1>1 DEF NodeUpto
  <2>2. DOMAIN n = 0..id - 1
    BY <2>1
  <2> QED
    BY <1>1, <2>2 DEF NodeUpto
<1>6. /\ node' = [i \in DOMAIN node' |-> node'[i]]
      /\ DOMAIN node' = (DOMAIN n) \cup {id}
      /\ node'[id] = e
      /\ \A i \in DOMAIN n : i # id => node'[i] = n[i]
  <2>1. node' = Insert(n, At(id, e))
    BY <1>1
  <2> QED
    BY <2>1 DEF Insert, At
<1>7. nextId' = IdOf(s, k) /\ nextId' = id + 1
  BY <1>1, <1>2, <1>3
<1>8. node' = [i \in 0..nextId' - 1 |-> node'[i]]
  <2>1. (0..id - 1) \cup {id} = 0..(id + 1) - 1
    BY <1>3
  <2>2. DOMAIN node' = 0..nextId' - 1
    BY <1>5, <1>6, <1>7, <2>1
  <2> QED
    BY <1>6, <2>2
<1>9. \A i \in 0..2 : node'[i] = RootEndpoints[i]
  BY <1>3, <1>5, <1>6
<1>10. ASSUME NEW p \in Upto(s, k)
       PROVE  node'[IdOf(s, p)] = EndpointOf(s, p)
  <2>1. CASE p = h
    BY <1>1, <1>3, <1>6, <2>1
  <2>2. CASE p \in Upto(s, h)
    <3>1. p \in Places(s) /\ Precedes(p, h)
      BY <2>2 DEF Upto
    <3>2. IdOf(s, p) < id /\ IdOf(s, p) \in Nat
      BY <1>3, <1>4, <3>1, IdsGrow, IdIsNumber
    <3> QED
      BY <1>3, <1>5, <1>6, <2>2, <3>2
  <2> QED
    BY <1>2, <2>1, <2>2
<1>11. ASSUME NEW i \in 3..nextId' - 1
       PROVE  \E p \in Upto(s, k) : IdOf(s, p) = i
  <2>1. CASE i = id
    BY <1>2, <1>3, <2>1
  <2>2. CASE i \in 3..id - 1
    BY <1>2, <1>5, <2>2
  <2> QED
    BY <1>3, <1>7, <2>1, <2>2
<1> QED
  BY <1>1, <1>7, <1>8, <1>9, <1>10, <1>11 DEF NodeUpto

\* What holds during a turn of build_node.
LEMMA Building ==
  ASSUME IInv, phase = "build", devices' = devices, phase' = "build", UNCHANGED wiredVars
  PROVE  /\ NodeUpto(Schema, Here) /\ MappedUpto(Schema, Here)
         /\ TypeOK' /\ NodeUpto(Schema, Here)' /\ MappedUpto(Schema, Here)' => IInv'
<1>1. TypeOK /\ Described
  BY DEF IInv
<1>2. ToBuild = Here /\ ToBuild' = Here' /\ ToWire = First /\ ToWire' = First
  BY DEF ToBuild, ToWire, First
<1>3. Schema' = Schema
  BY <1>1, SchemaKept
<1>4. WiredUpto(Schema, ToWire)'
  <2>1. PICK s, h : s = Schema /\ h = First
    OBVIOUS
  <2>2. WiredUpto(s, h)
    BY <1>2, <2>1 DEF IInv
  <2>3. WiredUpto(s, h)'
    BY <2>2, WiredKept
  <2> QED
    BY <1>2, <1>3, <2>1, <2>3
<1>5. NodeUpto(Schema, Here) /\ MappedUpto(Schema, Here)
  BY <1>2 DEF IInv
<1>6. Described'
  BY <1>1 DEF Described
<1>7. ASSUME TypeOK', NodeUpto(Schema, Here)', MappedUpto(Schema, Here)' PROVE IInv'
  <2>1. NodeUpto(Schema, ToBuild)' /\ MappedUpto(Schema, ToBuild)'
    BY <1>2, <1>7
  <2> QED
    BY <1>4, <1>6, <1>7, <2>1 DEF IInv
<1> QED
  BY <1>5, <1>7

\* The first endpoints.
LEMMA BeginBuildStep ==
  ASSUME IInv, BeginBuild
  PROVE  IInv'
<1>1. /\ TypeOK /\ Described /\ phase = "describe" /\ phase' = "build" /\ device = 1 /\ child = 0 /\ nextId = 3
      /\ UNCHANGED <<devices, device, child, nextId, ids, parts, mappings, wiredVars, targets>>
      /\ node' = RootEndpoints
  BY DEF IInv, BeginBuild, deviceVars, turnVars
<1>2. PICK s, h : s = Schema /\ h = First
  OBVIOUS
<1>3. Schema' = s /\ Listed(s)
  BY <1>1, <1>2, SchemaKept
<1>4. ToBuild = h /\ ToBuild' = h /\ ToWire = h /\ ToWire' = h
  BY <1>1, <1>2 DEF ToBuild, ToWire, Here, First
<1>5. NodeUpto(s, h)'
  <2>1. h = <<1, 0>>
    BY <1>2 DEF First
  <2>2. Upto(s, h) = {} /\ IdOf(s, h) = 3
    BY <1>3, <2>1, FirstId
  <2>3. node' = [e \in 0..nextId' - 1 |-> node'[e]] /\ \A e \in 0..2 : node'[e] = RootEndpoints[e]
    BY <1>1 DEF RootEndpoints
  <2> QED
    BY <1>1, <2>2, <2>3 DEF NodeUpto
<1>6. MappedUpto(s, h)'
  <2>1. MappedUpto(s, h)
    BY <1>2, <1>4 DEF IInv
  <2> QED
    BY <1>1, <2>1, MappedKept
<1>7. WiredUpto(s, h)'
  <2>1. WiredUpto(s, h)
    BY <1>2, <1>4 DEF IInv
  <2> QED
    BY <1>1, <2>1, WiredKept
<1>8. TypeOK' /\ Described'
  BY <1>1 DEF TypeOK, Described, This
<1>9. NodeUpto(Schema, ToBuild)' /\ MappedUpto(Schema, ToBuild)' /\ WiredUpto(Schema, ToWire)'
  BY <1>3, <1>4, <1>5, <1>6, <1>7
<1> QED
  BY <1>1, <1>8, <1>9 DEF IInv

\* The parent takes the next id.
LEMMA BuildParentStep ==
  ASSUME IInv, BuildParent
  PROVE  IInv'
<1>1. /\ TypeOK /\ phase = "build" /\ phase' = "build" /\ device \in DOMAIN devices /\ child = 0 /\ child' = 1
      /\ UNCHANGED <<devices, device, parts, mappings, wiredVars>>
      /\ ids' = [parent |-> nextId, children |-> <<>>] /\ nextId' = nextId + 1
      /\ node' = Insert(node, At(nextId, ParentEndpoint))
  BY DEF IInv, BuildParent, deviceVars
<1>2. PICK s, d, h, k : s = Schema /\ d = device /\ h = <<d, 0>> /\ k = <<d, 0 + 1>>
  OBVIOUS
<1>3. /\ Schema' = s /\ Listed(s) /\ d \in 1..Len(s) /\ Len(s[d].endpoints) \in Nat
      /\ Len(devices[d].endpoints) \in Nat
  BY <1>1, <1>2, SchemaKept DEF Listed
<1>4. Here = h /\ Here' = k
  BY <1>1, <1>2 DEF Here
<1>5. NodeUpto(s, h) /\ MappedUpto(s, h)
  BY <1>1, <1>2, <1>4, Building
<1>6. NodeUpto(s, k)'
  <2>1. node' = Insert(node, At(nextId, EndpointOf(s, h)))
    BY <1>1, <1>2 DEF EndpointOf
  <2>2. 0 \in 0..Len(s[d].endpoints)
    BY <1>3
  <2> QED
    BY <1>1, <1>2, <1>3, <1>5, <2>1, <2>2, NodeGrows
<1>7. MappedUpto(s, k)'
  <2>1. Holds(ids', s, d, 0)
    BY <1>1, <1>2, <1>5 DEF Holds, NodeUpto
  <2> QED
    BY <1>1, <1>2, <1>5, <2>1 DEF MappedUpto, Holds
<1>8. TypeOK'
  <2>1. nextId' \in Nat /\ ids' \in Allotted
    BY <1>1 DEF TypeOK, Allotted
  <2>2. child' \in 0..Len(This.endpoints)' + 1
    BY <1>1, <1>2, <1>3 DEF This
  <2>3. device' # Len(devices') + 1
    BY <1>1 DEF TypeOK
  <2> QED
    BY <1>1, <2>1, <2>2, <2>3 DEF TypeOK
<1> QED
  BY <1>1, <1>3, <1>4, <1>6, <1>7, <1>8, Building

\* So does the next child.
LEMMA BuildChildStep ==
  ASSUME IInv, BuildChild
  PROVE  IInv'
<1>1. /\ TypeOK /\ phase = "build" /\ phase' = "build" /\ device \in DOMAIN devices
      /\ child \in DOMAIN devices[device].endpoints /\ child' = child + 1
      /\ UNCHANGED <<devices, device, parts, mappings, wiredVars>>
      /\ ids' = [ids EXCEPT !.children = Append(@, nextId)] /\ nextId' = nextId + 1
      /\ node' = Insert(node, At(nextId, ChildEndpoint(devices[device].endpoints[child].kind)))
  BY DEF IInv, BuildChild, deviceVars, This
<1>2. PICK s, d, c, h, k : s = Schema /\ d = device /\ c = child /\ h = <<d, c>> /\ k = <<d, c + 1>>
  OBVIOUS
<1>3. /\ Schema' = s /\ Listed(s) /\ d \in 1..Len(s) /\ Len(s[d].endpoints) \in Nat
      /\ Len(devices[d].endpoints) = Len(s[d].endpoints) /\ c \in 1..Len(s[d].endpoints)
      /\ s[d].endpoints[c].kind = devices[d].endpoints[c].kind
  BY <1>1, <1>2, SchemaKept DEF Listed
<1>4. Here = h /\ Here' = k
  BY <1>1, <1>2 DEF Here
<1>5. NodeUpto(s, h) /\ MappedUpto(s, h)
  BY <1>1, <1>2, <1>4, Building
<1>6. NodeUpto(s, k)'
  <2>1. node' = Insert(node, At(nextId, EndpointOf(s, h)))
    BY <1>1, <1>2, <1>3 DEF EndpointOf
  <2>2. c \in 0..Len(s[d].endpoints)
    BY <1>3
  <2> QED
    BY <1>1, <1>2, <1>3, <1>5, <2>1, <2>2, NodeGrows
<1>7. MappedUpto(s, k)'
  <2>1. Holds(ids, s, d, c - 1) /\ nextId = IdOf(s, <<d, c>>)
    BY <1>2, <1>3, <1>5 DEF MappedUpto, NodeUpto
  <2>2. PICK m, n : m = ids /\ n = nextId
    OBVIOUS
  <2>3. m \in Allotted /\ n \in Nat /\ ids' = [m EXCEPT !.children = Append(@, n)]
    BY <1>1, <2>2 DEF TypeOK
  <2>4. m.children \in Seq(Nat) /\ ids'.parent = m.parent /\ ids'.children = Append(m.children, n)
    BY <2>3 DEF Allotted
  <2>5. /\ Len(m.children) = c - 1 /\ m.parent = IdOf(s, <<d, 0>>)
        /\ \A j \in 1..c - 1 : m.children[j] = IdOf(s, <<d, j>>)
        /\ n = IdOf(s, <<d, c>>)
    BY <2>1, <2>2 DEF Holds
  <2>6. /\ Len(ids'.children) = c /\ ids'.parent = IdOf(s, <<d, 0>>)
        /\ \A j \in 1..c - 1 : ids'.children[j] = IdOf(s, <<d, j>>)
        /\ ids'.children[c] = IdOf(s, <<d, c>>)
    <3>1. PICK cs \in Seq(Nat) : cs = m.children
      BY <2>4
    <3>2. ids'.children = Append(cs, n) /\ Len(cs) = c - 1 /\ c \in Nat
      BY <1>3, <2>4, <2>5, <3>1
    <3>3. /\ Len(Append(cs, n)) = c /\ Append(cs, n)[c] = n
          /\ \A j \in 1..c - 1 : Append(cs, n)[j] = cs[j]
      BY <2>3, <3>2
    <3> QED
      BY <2>4, <2>5, <3>1, <3>2, <3>3
  <2>7. Holds(ids', s, d, c)
    BY <1>3, <2>6 DEF Holds
  <2>8. k[1] = d /\ k[2] = c + 1 /\ h[1] = d /\ (c + 1) - 1 = c
    BY <1>2, <1>3
  <2>9. Holds(ids', s, k[1], k[2] - 1)
    BY <2>7, <2>8
  <2>10. /\ Len(mappings') = k[1] - 1 /\ Len(parts') = k[1] - 1
         /\ \A i \in 1..k[1] - 1 :
              /\ Holds(mappings'[i], s, i, Len(s[i].endpoints))
              /\ parts'[i] = <<mappings'[i].parent, mappings'[i].children>>
    BY <1>1, <1>5, <2>8 DEF MappedUpto
  <2> QED
    BY <2>9, <2>10 DEF MappedUpto
<1>8. TypeOK'
  <2>1. nextId' \in Nat /\ ids' \in Allotted
    <3>1. PICK m, n : m = ids /\ n = nextId /\ m \in Allotted /\ n \in Nat
      BY <1>1 DEF TypeOK
    <3>2. m.children \in Seq(Nat) /\ m.parent \in Nat /\ DOMAIN m = {"parent", "children"}
      BY <3>1 DEF Allotted
    <3>3. PICK cs : cs = Append(m.children, n)
      OBVIOUS
    <3>4. cs \in Seq(Nat)
      BY <3>1, <3>2, <3>3
    <3>5. ids' = [m EXCEPT !.children = cs]
      BY <1>1, <3>1, <3>3
    <3>6. ids' \in Allotted
      BY <3>1, <3>4, <3>5 DEF Allotted
    <3> QED
      BY <1>1, <3>1, <3>6
  <2>2. child' \in 0..Len(This.endpoints)' + 1 /\ child' \in Nat
    BY <1>1, <1>2, <1>3 DEF This
  <2>3. device' # Len(devices') + 1
    BY <1>1 DEF TypeOK
  <2> QED
    BY <1>1, <2>1, <2>2, <2>3 DEF TypeOK
<1> QED
  BY <1>1, <1>3, <1>4, <1>6, <1>7, <1>8, Building

\* The ids of a device go to the matcher and the mappings.
LEMMA BuildPartsStep ==
  ASSUME IInv, BuildParts
  PROVE  IInv'
<1>1. /\ TypeOK /\ phase = "build" /\ phase' = "build" /\ device \in DOMAIN devices
      /\ child = Len(devices[device].endpoints) + 1 /\ device' = device + 1 /\ child' = 0
      /\ parts' = Append(parts, <<ids.parent, ids.children>>) /\ mappings' = Append(mappings, ids)
      /\ UNCHANGED <<devices, nextId, ids, node, wiredVars>>
  BY DEF IInv, BuildParts, deviceVars, This
<1>2. PICK s, d, c, h, k : s = Schema /\ d = device /\ c = child /\ h = <<d, c>> /\ k = <<d + 1, 0>>
  OBVIOUS
<1>3. /\ Schema' = s /\ Listed(s) /\ d \in 1..Len(s) /\ Len(s[d].endpoints) \in Nat
      /\ c = Len(s[d].endpoints) + 1 /\ Len(s) = Len(devices) /\ Len(s) \in Nat
      /\ \A i \in 1..Len(s) : Len(devices[i].endpoints) \in Nat
  BY <1>1, <1>2, SchemaKept DEF Listed
<1>4. Here = h /\ Here' = k
  BY <1>1, <1>2 DEF Here
<1>5. NodeUpto(s, h) /\ MappedUpto(s, h)
  BY <1>1, <1>2, <1>4, Building
<1>6. NodeUpto(s, k)'
  <2>1. Upto(s, k) = Upto(s, h) /\ IdOf(s, k) = IdOf(s, h)
    BY <1>2, <1>3, NextDeviceId
  <2> QED
    BY <1>1, <1>5, <2>1 DEF NodeUpto
<1>7. MappedUpto(s, k)'
  <2>1. PICK m, mm, pp : m = ids /\ mm = mappings /\ pp = parts
    OBVIOUS
  <2>2. m \in Allotted /\ mm \in Seq(Allotted) /\ pp \in Seq(Nat \X Seq(Nat))
    BY <1>1, <2>1 DEF TypeOK
  <2>3. <<m.parent, m.children>> \in Nat \X Seq(Nat)
    BY <2>2 DEF Allotted
  <2>4. /\ Len(mm) = d - 1 /\ Len(pp) = d - 1
        /\ \A i \in 1..d - 1 : Holds(mm[i], s, i, Len(s[i].endpoints)) /\ pp[i] = <<mm[i].parent, mm[i].children>>
        /\ Holds(m, s, d, Len(s[d].endpoints))
    BY <1>2, <1>3, <1>5, <2>1 DEF MappedUpto
  <2>5. mappings' = Append(mm, m) /\ parts' = Append(pp, <<m.parent, m.children>>)
    BY <1>1, <2>1
  <2>6. /\ Len(mappings') = d /\ (\A i \in 1..d - 1 : mappings'[i] = mm[i]) /\ mappings'[d] = m
    BY <1>3, <2>2, <2>4, <2>5
  <2>7. /\ Len(parts') = d /\ (\A i \in 1..d - 1 : parts'[i] = pp[i]) /\ parts'[d] = <<m.parent, m.children>>
    <3> DEFINE new == <<m.parent, m.children>>
    <3> HIDE DEF new
    <3>1. parts' = Append(pp, new) /\ new \in Nat \X Seq(Nat)
      BY <2>3, <2>5 DEF new
    <3>2. /\ Len(parts') = d /\ (\A i \in 1..d - 1 : parts'[i] = pp[i]) /\ parts'[d] = new
      BY <1>3, <2>2, <2>4, <3>1
    <3> QED
      BY <3>2 DEF new
  <2>8. ASSUME NEW i \in 1..d
        PROVE  Holds(mappings'[i], s, i, Len(s[i].endpoints)) /\ parts'[i] = <<mappings'[i].parent, mappings'[i].children>>
    <3>1. CASE i = d
      BY <2>4, <2>6, <2>7, <3>1
    <3>2. CASE i \in 1..d - 1
      BY <2>4, <2>6, <2>7, <3>2
    <3> QED
      BY <1>3, <3>1, <3>2
  <2>9. k[1] - 1 = d /\ k[2] = 0
    BY <1>2, <1>3
  <2> QED
    BY <2>6, <2>7, <2>8, <2>9 DEF MappedUpto, Holds
<1>8. TypeOK'
  <2>1. parts' \in Seq(Nat \X Seq(Nat)) /\ mappings' \in Seq(Allotted)
    BY <1>1 DEF TypeOK, Allotted
  <2>2. device' \in 1..Len(devices') + 1
    BY <1>1, <1>2, <1>3
  <2>3. device' \in 1..Len(devices') => child' \in 0..Len(This.endpoints)' + 1
    BY <1>1, <1>3 DEF This
  <2> QED
    BY <1>1, <2>1, <2>2, <2>3 DEF TypeOK
<1> QED
  BY <1>1, <1>3, <1>4, <1>6, <1>7, <1>8, Building

\* The node is built.
LEMMA EndBuildStep ==
  ASSUME IInv, EndBuild
  PROVE  IInv'
<1>1. /\ TypeOK /\ Described /\ phase = "build" /\ phase' = "wire" /\ device = Len(devices) + 1 /\ device' = 1 /\ child = 0
      /\ UNCHANGED <<devices, child, nextId, ids, node, parts, mappings, wiredVars, targets>>
  BY DEF IInv, EndBuild, deviceVars, builtVars, TypeOK
<1>2. PICK s, h, f : s = Schema /\ h = End /\ f = First
  OBVIOUS
<1>3. /\ Schema' = s /\ Len(devices) \in Nat /\ \A i \in 1..Len(devices) : Len(devices[i].endpoints) \in Nat
  BY <1>1, <1>2, SchemaKept DEF Listed
<1>4. ToBuild = h /\ ToBuild' = h /\ ToWire = f /\ ToWire' = f
  BY <1>1, <1>2 DEF ToBuild, ToWire, Here, First, End
<1>5. NodeUpto(s, h)'
  <2>1. NodeUpto(s, h)
    BY <1>1, <1>2, <1>4 DEF IInv
  <2> QED
    BY <1>1, <2>1, NodeKept
<1>6. MappedUpto(s, h)'
  <2>1. MappedUpto(s, h)
    BY <1>2, <1>4 DEF IInv
  <2> QED
    BY <1>1, <2>1, MappedKept
<1>7. WiredUpto(s, f)'
  <2>1. WiredUpto(s, f)
    BY <1>2, <1>4 DEF IInv
  <2> QED
    BY <1>1, <2>1, WiredKept
<1>8. TypeOK' /\ Described'
  <2>1. device' \in 1..Len(devices') + 1 /\ (device' \in 1..Len(devices') => child' \in 0..Len(This.endpoints)' + 1)
    BY <1>1, <1>3 DEF This
  <2> QED
    BY <1>1, <2>1 DEF TypeOK, Described
<1>9. NodeUpto(Schema, ToBuild)' /\ MappedUpto(Schema, ToBuild)' /\ WiredUpto(Schema, ToWire)'
  BY <1>3, <1>4, <1>5, <1>6, <1>7
<1> QED
  BY <1>1, <1>8, <1>9 DEF IInv

-----------------------------------------------------------------------------
(* Wiring.                                                                   *)

\* A child's place holds the configuration that was made with it as its source.
LEMMA ChildAt ==
  ASSUME TypeOK, Described, NEW p \in Places(Schema), p[2] > 0
  PROVE  /\ p = <<p[1], p[2]>> /\ p \in Place /\ p # None
         /\ p[1] \in DOMAIN devices /\ p[2] \in DOMAIN devices[p[1]].endpoints
         /\ ConfigOf(p) = EndpointConfig(ConfigOf(p).kind, ConfigOf(p).label, p)
         /\ ConfigOf(p).kind \in Kinds
         /\ Schema[p[1]].endpoints[p[2]].kind = ConfigOf(p).kind
<1>1. PICK s, ds : s = Schema /\ ds = devices
  OBVIOUS
<1>2. s = SchemaOf(ds) /\ ds \in Seq(Device)
  BY <1>1 DEF Schema, SchemaOf, TypeOK
<1>3. /\ Listed(s) /\ Len(s) = Len(ds)
      /\ \A d \in 1..Len(ds) :
           /\ Len(s[d].endpoints) = Len(ds[d].endpoints)
           /\ DOMAIN ds[d].endpoints = 1..Len(ds[d].endpoints)
           /\ \A j \in 1..Len(ds[d].endpoints) :
                s[d].endpoints[j].kind = ds[d].endpoints[j].kind
  BY <1>2, SchemaIs
<1>4. PICK i, j : i = p[1] /\ j = p[2]
  OBVIOUS
<1>5. p = <<i, j>> /\ i \in 1..Len(s) /\ j \in 0..Len(s[i].endpoints) /\ i \in Nat /\ j \in Nat
  BY <1>1, <1>3, <1>4, PlacesAre
<1>6. p \in Place /\ p # None
  BY <1>4, <1>5 DEF Place, None
<1>7. Len(ds) \in Nat /\ DOMAIN ds = 1..Len(ds) /\ ds[i] \in Device
  BY <1>2, <1>3, <1>5
<1>8. Len(ds[i].endpoints) \in Nat
  BY <1>7 DEF Device
<1>9. i \in DOMAIN ds /\ j \in DOMAIN ds[i].endpoints /\ j \in 1..Len(ds[i].endpoints)
  BY <1>3, <1>4, <1>5, <1>7, <1>8
<1>10. ds[i].endpoints[j] \in Config
  BY <1>7, <1>9 DEF Device
<1>11. ds[i].endpoints[j].kind \in Kinds
  BY <1>10 DEF Config
<1>12. ds[i].endpoints[j] = EndpointConfig(ds[i].endpoints[j].kind, ds[i].endpoints[j].label, <<i, j>>)
  BY <1>1, <1>9 DEF Described
<1>13. s[i].endpoints[j].kind = ds[i].endpoints[j].kind
  BY <1>3, <1>5, <1>9
<1>14. ConfigOf(p) = ds[i].endpoints[j]
  BY <1>1, <1>4 DEF ConfigOf
<1> QED
  BY <1>1, <1>4, <1>5, <1>6, <1>9, <1>11, <1>12, <1>13, <1>14

\* The handler has an entry for exactly the clusters that the node declares.
LEMMA EntriesDomain ==
  ASSUME TypeOK, Described, NEW p \in Places(Schema)
  PROVE  DOMAIN EntriesOf(Schema, p) = {IdOf(Schema, p)} \X EndpointOf(Schema, p).clusters
<1>1. PICK s, id : s = Schema /\ id = IdOf(s, p)
  OBVIOUS
<1>2. CASE p[2] = 0
  <2>1. PICK dev, i : dev = devices[p[1]] /\ i = p[1]
    OBVIOUS
  <2>2. EntriesOf(Schema, p) = ParentEntries(id, dev, i)
    BY <1>1, <1>2, <2>1 DEF EntriesOf
  <2>3. DOMAIN ParentEntries(id, dev, i) = {id} \X ParentEndpoint.clusters
    BY ParentEntriesDomain
  <2> QED
    BY <1>1, <1>2, <2>2, <2>3 DEF EndpointOf
<1>3. CASE p[2] # 0
  <2>1. p[2] > 0
    <3>1. Listed(Schema)
      <4>1. PICK ds : ds = devices
        OBVIOUS
      <4>2. ds \in Seq(Device) /\ s = SchemaOf(ds)
        BY <1>1, <4>1 DEF TypeOK, Schema, SchemaOf
      <4> QED
        BY <1>1, <4>2, SchemaIs
    <3>2. p[2] \in Nat
      BY <1>1, <3>1, PlacesAre
    <3> QED
      BY <1>3, <3>2
  <2>2. PICK config, kind, label : config = ConfigOf(p) /\ kind = config.kind /\ label = config.label
    OBVIOUS
  <2>3. /\ kind \in Kinds /\ p # None /\ config = EndpointConfig(kind, label, p)
    BY <1>1, <2>1, <2>2, ChildAt
  <2>8. s[p[1]].endpoints[p[2]].kind = kind
    BY <1>1, <2>1, <2>2, ChildAt
  <2>4. DOMAIN ChildEntries(id, config, p) = {id} \X ChildEndpoint(kind).clusters
    BY <2>3, ChildEntriesDomain
  <2>5. EntriesOf(Schema, p) = ChildEntries(id, config, p)
    BY <1>1, <1>3, <2>2 DEF EntriesOf
  <2>6. EndpointOf(Schema, p) = ChildEndpoint(kind)
    BY <1>1, <1>3, <2>8 DEF EndpointOf
  <2> QED
    BY <1>1, <2>4, <2>5, <2>6
<1> QED
  BY <1>2, <1>3

\* The children before the next place.
LEMMA NextChildren ==
  ASSUME NEW s, Listed(s), NEW d \in 1..Len(s), NEW j \in 0..Len(s[d].endpoints),
         NEW h, h = <<d, j>>, NEW k, k = <<d, j + 1>>
  PROVE  /\ j = 0 => ChildrenUpto(s, k) = ChildrenUpto(s, h)
         /\ j > 0 => ChildrenUpto(s, k) = ChildrenUpto(s, h) \cup {h}
<1>1. Upto(s, k) = Upto(s, h) \cup {h}
  BY NextId
<1>2. h[2] = j /\ j \in Nat
  BY DEF Listed
<1> QED
  BY <1>1, <1>2 DEF ChildrenUpto

\* The handler takes the entries of the next place.
LEMMA HandledGrows ==
  ASSUME NEW s, Listed(s), NEW d \in 1..Len(s), NEW j \in 0..Len(s[d].endpoints),
         NEW h, h = <<d, j>>, NEW k, k = <<d, j + 1>>,
         \A p \in Places(s) : \A key \in DOMAIN EntriesOf(s, p) : key[1] = IdOf(s, p),
         HandledUpto(s, h), devices' = devices,
         handlers' = Insert(handlers, EntriesOf(s, h))
  PROVE  HandledUpto(s, k)'
<1>1. PICK g, f : g = EntriesOf(s, h) /\ f = handlers
  OBVIOUS
<1>2. /\ DOMAIN handlers' = (DOMAIN f) \cup (DOMAIN g)
      /\ \A key \in DOMAIN g : handlers'[key] = g[key]
      /\ \A key \in DOMAIN f : key \notin DOMAIN g => handlers'[key] = f[key]
  BY <1>1 DEF Insert
<1>3. h \in Places(s) /\ h \notin Upto(s, h) /\ Upto(s, k) = Upto(s, h) \cup {h}
  BY NextId
<1>4. \A p : EntriesOf(s, p)' = EntriesOf(s, p)
  BY DEF EntriesOf, ConfigOf
<1>5. ASSUME NEW p \in Upto(s, k), NEW key \in DOMAIN EntriesOf(s, p)
      PROVE  key \in DOMAIN handlers' /\ handlers'[key] = EntriesOf(s, p)[key]
  <2>1. CASE p = h
    BY <1>1, <1>2, <1>5, <2>1
  <2>2. CASE p \in Upto(s, h)
    <3>1. p \in Places(s) /\ p # h
      BY <1>3, <2>2 DEF Upto
    <3>2. IdOf(s, p) # IdOf(s, h)
      BY <1>3, <3>1, IdsDiffer
    <3>3. key \notin DOMAIN g
      BY <1>1, <1>3, <1>5, <3>1, <3>2
    <3>4. key \in DOMAIN f /\ f[key] = EntriesOf(s, p)[key]
      BY <1>1, <1>5, <2>2 DEF HandledUpto
    <3> QED
      BY <1>2, <3>3, <3>4
  <2> QED
    BY <1>3, <2>1, <2>2
<1>6. ASSUME NEW key \in DOMAIN handlers'
      PROVE  \E p \in Upto(s, k) : key \in DOMAIN EntriesOf(s, p)
  <2>1. CASE key \in DOMAIN g
    BY <1>1, <1>3, <2>1
  <2>2. CASE key \in DOMAIN f
    <3>1. PICK p \in Upto(s, h) : key \in DOMAIN EntriesOf(s, p)
      BY <1>1, <2>2 DEF HandledUpto
    <3> QED
      BY <1>3, <3>1
  <2> QED
    BY <1>2, <2>1, <2>2
<1> QED
  BY <1>4, <1>5, <1>6 DEF HandledUpto

\* The notifier of the next child is one more, for a pair that no other has.
LEMMA NotifiedGrows ==
  ASSUME NEW s, Listed(s), NEW h \in Places(s), NEW k,
         ChildrenUpto(s, k) = ChildrenUpto(s, h) \cup {h}, h \notin ChildrenUpto(s, h),
         NotifiedUpto(s, h), devices' = devices,
         NEW pair \in Pair, PairsOf(s, h) = {pair},
         notified' = Append(notified, pair), notifiers' = Insert(notifiers, At(h, pair))
  PROVE  NotifiedUpto(s, k)'
<1>1. PICK f, t : f = notified /\ t = notifiers
  OBVIOUS
<1>2. PICK n \in Nat : n = Len(f) /\ DOMAIN f = 1..n /\ f \in Seq(Pair)
  BY <1>1 DEF NotifiedUpto
<1>3. /\ notified' \in Seq(Pair) /\ DOMAIN notified' = 1..n + 1 /\ notified'[n + 1] = pair
      /\ \A m \in 1..n : notified'[m] = f[m]
  BY <1>1, <1>2
<1>4. /\ h \in DOMAIN notifiers' /\ notifiers'[h] = pair
      /\ \A p \in DOMAIN t : p # h => p \in DOMAIN notifiers' /\ notifiers'[p] = t[p]
  BY <1>1 DEF Insert, At
<1>8. \A p : PairsOf(s, p)' = PairsOf(s, p)
  BY DEF PairsOf, ConfigOf
<1>9. ASSUME NEW m \in 1..n
      PROVE  f[m] # pair /\ \E p \in ChildrenUpto(s, h) : f[m] \in PairsOf(s, p)
  <2>1. PICK p \in ChildrenUpto(s, h) : f[m] \in PairsOf(s, p)
    BY <1>1, <1>2 DEF NotifiedUpto
  <2>2. p \in Places(s) /\ p # h
    BY <2>1 DEF ChildrenUpto, Upto
  <2>3. IdOf(s, p) # IdOf(s, h)
    BY <2>2, IdsDiffer
  <2>4. f[m][1] = IdOf(s, p)
    BY <2>1 DEF PairsOf
  <2>5. pair[1] = IdOf(s, h)
    <3>1. pair \in PairsOf(s, h)
      OBVIOUS
    <3> QED
      BY <3>1 DEF PairsOf
  <2> QED
    BY <2>1, <2>3, <2>4, <2>5
<1>10. \A m \in DOMAIN notified' : \E p \in ChildrenUpto(s, k) : notified'[m] \in PairsOf(s, p)
  <2>1. ASSUME NEW m \in 1..n + 1 PROVE \E p \in ChildrenUpto(s, k) : notified'[m] \in PairsOf(s, p)
    <3>1. CASE m = n + 1
      BY <1>3, <3>1
    <3>2. CASE m \in 1..n
      <4>1. PICK p \in ChildrenUpto(s, h) : f[m] \in PairsOf(s, p)
        BY <1>9, <3>2
      <4> QED
        BY <1>3, <3>2, <4>1
    <3>3. m = n + 1 \/ m \in 1..n
      OBVIOUS
    <3> QED
      BY <3>1, <3>2, <3>3, Zenon
  <2> QED
    BY <1>3, <2>1
<1>11. \A l, m \in DOMAIN notified' : notified'[l] = notified'[m] => l = m
  <2>1. \A l, m \in 1..n : f[l] = f[m] => l = m
    BY <1>1, <1>2 DEF NotifiedUpto
  <2>2. \A m \in 1..n : f[m] # pair
    BY <1>9
  <2> QED
    BY <1>3, <2>1, <2>2
<1>12. ASSUME NEW p \in ChildrenUpto(s, k), NEW q \in PairsOf(s, p)
       PROVE  /\ \E m \in DOMAIN notified' : notified'[m] = q
              /\ p \in DOMAIN notifiers' /\ notifiers'[p] = q
  <2>1. CASE p = h
    <3>1. q = pair
      BY <1>12, <2>1
    <3> QED
      BY <1>3, <1>4, <2>1, <3>1
  <2>2. CASE p \in ChildrenUpto(s, h)
    <3>1. /\ \E m \in DOMAIN f : f[m] = q
          /\ p \in DOMAIN t /\ t[p] = q
      BY <1>1, <1>12, <2>2 DEF NotifiedUpto
    <3>2. p # h
      BY <2>2
    <3> QED
      BY <1>2, <1>3, <1>4, <3>1, <3>2
  <2> QED
    BY <2>1, <2>2
<1> QED
  BY <1>3, <1>8, <1>10, <1>11, <1>12 DEF NotifiedUpto

\* A place without a pair changes nothing.
LEMMA NotifiedSame ==
  ASSUME NEW s, NEW h, NEW k, ChildrenUpto(s, k) \subseteq ChildrenUpto(s, h) \cup {h},
         ChildrenUpto(s, h) \subseteq ChildrenUpto(s, k),
         NotifiedUpto(s, h), UNCHANGED <<devices, notified, notifiers>>,
         h \in ChildrenUpto(s, k) => PairsOf(s, h) = {}
  PROVE  NotifiedUpto(s, k)'
<1>1. \A p : PairsOf(s, p)' = PairsOf(s, p)
  BY DEF PairsOf, ConfigOf
<1>2. \A n \in DOMAIN notified : \E p \in ChildrenUpto(s, k) : notified[n] \in PairsOf(s, p)
  BY DEF NotifiedUpto
<1>3. \A p \in ChildrenUpto(s, k) : \A pair \in PairsOf(s, p) :
        /\ \E n \in DOMAIN notified : notified[n] = pair
        /\ p \in DOMAIN notifiers /\ notifiers[p] = pair
  BY DEF NotifiedUpto
<1> QED
  BY <1>1, <1>2, <1>3 DEF NotifiedUpto

\* A button's state and source.
LEMMA ButtonsGrow ==
  ASSUME NEW s, NEW h, NEW k, ChildrenUpto(s, k) = ChildrenUpto(s, h) \cup {h}, h \in Place,
         ButtonsUpto(s, h), devices' = devices,
         buttonIds' = Insert(buttonIds, At(h, IdOf(s, h))), sources' = Append(sources, h),
         h \notin ChildrenUpto(s, h)
  PROVE  ButtonsUpto(s, k)'
<1>1. PICK f, t, id : f = sources /\ t = buttonIds /\ id = IdOf(s, h)
  OBVIOUS
<1>2. PICK n \in Nat : n = Len(f) /\ DOMAIN f = 1..n /\ f \in Seq(Place)
  BY <1>1 DEF ButtonsUpto
<1>3. /\ sources' \in Seq(Place) /\ DOMAIN sources' = 1..n + 1 /\ sources'[n + 1] = h
      /\ \A m \in 1..n : sources'[m] = f[m]
  BY <1>1, <1>2
<1>4. /\ h \in DOMAIN buttonIds' /\ buttonIds'[h] = id
      /\ \A p \in DOMAIN t : p # h => p \in DOMAIN buttonIds' /\ buttonIds'[p] = t[p]
  BY <1>1 DEF Insert, At
<1>5. \A p : ConfigOf(p)' = ConfigOf(p)
  BY DEF ConfigOf
<1>6. ASSUME NEW p \in ChildrenUpto(s, k), ConfigOf(p).kind = "GenericSwitch"
      PROVE  /\ p \in DOMAIN buttonIds' /\ buttonIds'[p] = IdOf(s, p)
             /\ \E m \in DOMAIN sources' : sources'[m] = p
  <2>1. CASE p = h
    BY <1>1, <1>3, <1>4, <2>1
  <2>2. CASE p \in ChildrenUpto(s, h)
    <3>1. p \in DOMAIN t /\ t[p] = IdOf(s, p) /\ \E m \in DOMAIN f : f[m] = p
      BY <1>1, <1>6, <2>2 DEF ButtonsUpto
    <3>2. p # h
      BY <2>2
    <3> QED
      BY <1>2, <1>3, <1>4, <3>1, <3>2
  <2> QED
    BY <2>1, <2>2
<1> QED
  BY <1>3, <1>5, <1>6 DEF ButtonsUpto

\* A place that is no button changes nothing.
LEMMA ButtonsSame ==
  ASSUME NEW s, NEW h, NEW k, ChildrenUpto(s, k) \subseteq ChildrenUpto(s, h) \cup {h},
         ButtonsUpto(s, h), UNCHANGED <<devices, buttonIds, sources>>,
         h \in ChildrenUpto(s, k) => ConfigOf(h).kind # "GenericSwitch"
  PROVE  ButtonsUpto(s, k)'
<1>1. \A p : ConfigOf(p)' = ConfigOf(p)
  BY DEF ConfigOf
<1> QED
  BY <1>1 DEF ButtonsUpto

\* A list with one more entry.
LEMMA Appended ==
  ASSUME NEW S, NEW f \in Seq(S), NEW x \in S, NEW n \in Nat, Len(f) = n, NEW g, g = Append(f, x)
  PROVE  /\ g \in Seq(S) /\ Len(g) = n + 1 /\ DOMAIN g = 1..n + 1
         /\ g[n + 1] = x /\ \A i \in 1..n : g[i] = f[i]
OBVIOUS

\* What a new DeviceSwitch cascades to.
Opened == [switches |-> {}, flags |-> {}]

\* A DeviceSwitch more, which cascades to nothing yet.
LEMMA CascadesOpen ==
  ASSUME NEW s, Listed(s), NEW d \in 1..Len(s), NEW h, h = <<d, 0>>, NEW k, k = <<d, 1>>,
         CascadesUpto(s, h), devices' = devices,
         cascades' = Append(cascades, Opened)
  PROVE  CascadesUpto(s, k)'
<1>1. PICK f, g : f = cascades /\ g = cascades'
  OBVIOUS
<1>2. d \in Nat \ {0} /\ Len(s) \in Nat
  BY DEF Listed
<1>3. f \in Seq(Cascade) /\ Len(f) = d - 1 /\ DOMAIN f = 1..d - 1
  <2>1. f \in Seq(Cascade) /\ Len(f) = d - 1
    BY <1>1 DEF CascadesUpto
  <2> QED
    BY <2>1
<1>4. Opened \in Cascade
  BY DEF Cascade, Opened
<1>5. /\ g \in Seq(Cascade) /\ Len(g) = d /\ DOMAIN g = 1..d
      /\ (\A i \in 1..d - 1 : g[i] = f[i]) /\ g[d] = Opened
  <2>1. g = Append(f, Opened)
    BY <1>1
  <2>2. PICK n \in Nat : n = d - 1
    BY <1>2
  <2>3. /\ g \in Seq(Cascade) /\ Len(g) = n + 1 /\ DOMAIN g = 1..n + 1
        /\ g[n + 1] = Opened /\ \A i \in 1..n : g[i] = f[i]
    BY <1>3, <1>4, <2>1, <2>2, Appended
  <2> QED
    BY <1>2, <2>2, <2>3
<1>6. ChildrenUpto(s, k) = ChildrenUpto(s, h)
  <2>1. 0 \in 0..Len(s[d].endpoints) /\ k = <<d, 0 + 1>>
    BY DEF Listed
  <2> QED
    BY <2>1, NextChildren
<1>7. ASSUME NEW p \in ChildrenUpto(s, h) PROVE p[1] # d
  <2>1. p \in Places(s) /\ Precedes(p, h) /\ p[2] > 0
    BY DEF ChildrenUpto, Upto
  <2>2. p[1] \in Nat /\ p[2] \in Nat
    BY <2>1, PlacesAre
  <2> QED
    BY <1>2, <2>1, <2>2 DEF Precedes
<1>8. \A p : ConfigOf(p)' = ConfigOf(p)
  BY DEF ConfigOf
<1>9. ASSUME NEW i \in 1..d
      PROVE  /\ g[i].flags = {p \in ChildrenUpto(s, k) : p[1] = i}
             /\ g[i].switches =
                  {p \in ChildrenUpto(s, k) : p[1] = i /\ ConfigOf(p).kind \in {"Switch", "LightSwitch"}}
  <2>1. CASE i = d
    <3>1. g[i].flags = {} /\ g[i].switches = {}
      BY <1>5, <2>1 DEF Opened
    <3>2. {p \in ChildrenUpto(s, k) : p[1] = i} = {}
      BY <1>6, <1>7, <2>1
    <3>3. {p \in ChildrenUpto(s, k) : p[1] = i /\ ConfigOf(p).kind \in {"Switch", "LightSwitch"}} = {}
      BY <1>6, <1>7, <2>1
    <3> QED
      BY <3>1, <3>2, <3>3
  <2>2. CASE i \in 1..d - 1
    <3>1. g[i] = f[i] /\ i \in DOMAIN f
      BY <1>3, <1>5, <2>2
    <3>2. /\ f[i].flags = {p \in ChildrenUpto(s, h) : p[1] = i}
          /\ f[i].switches =
               {p \in ChildrenUpto(s, h) : p[1] = i /\ ConfigOf(p).kind \in {"Switch", "LightSwitch"}}
      BY <1>1, <3>1 DEF CascadesUpto
    <3> QED
      BY <1>6, <3>1, <3>2
  <2>3. i = d \/ i \in 1..d - 1
    BY <1>2
  <2> QED
    BY <2>1, <2>2, <2>3, Zenon
<1>10. Len(g) = IF k[2] = 0 THEN k[1] - 1 ELSE k[1]
  BY <1>2, <1>5
<1>11. ASSUME NEW i \in DOMAIN cascades'
       PROVE  /\ cascades'[i].flags = {p \in ChildrenUpto(s, k) : p[1] = i}
              /\ cascades'[i].switches =
                   {p \in ChildrenUpto(s, k) : p[1] = i /\ ConfigOf(p)'.kind \in {"Switch", "LightSwitch"}}
  <2>1. i \in 1..d
    BY <1>1, <1>5
  <2>2. {p \in ChildrenUpto(s, k) : p[1] = i /\ ConfigOf(p)'.kind \in {"Switch", "LightSwitch"}}
          = {p \in ChildrenUpto(s, k) : p[1] = i /\ ConfigOf(p).kind \in {"Switch", "LightSwitch"}}
    BY <1>8
  <2>3. g[i].flags = {p \in ChildrenUpto(s, k) : p[1] = i}
    BY <1>9, <2>1
  <2>4. g[i].switches = {p \in ChildrenUpto(s, k) : p[1] = i /\ ConfigOf(p).kind \in {"Switch", "LightSwitch"}}
    BY <1>9, <2>1
  <2> QED
    BY <1>1, <2>2, <2>3, <2>4
<1>12. cascades' \in Seq(Cascade) /\ Len(cascades') = IF k[2] = 0 THEN k[1] - 1 ELSE k[1]
  BY <1>1, <1>5, <1>10
<1> QED
  BY <1>11, <1>12 DEF CascadesUpto

\* The next child joins those of its own DeviceSwitch.
LEMMA CascadesGrow ==
  ASSUME NEW s, Listed(s), NEW d \in 1..Len(s), NEW j \in 1..Len(s[d].endpoints),
         NEW h, h = <<d, j>>, NEW k, k = <<d, j + 1>>,
         CascadesUpto(s, h), devices' = devices,
         NEW on, on = IF ConfigOf(h).kind \in {"Switch", "LightSwitch"} THEN {h} ELSE {},
         cascades' = [cascades EXCEPT ![d].flags = @ \cup {h}, ![d].switches = @ \cup on]
  PROVE  CascadesUpto(s, k)'
<1>1. PICK f, g, c : f = cascades /\ g = cascades' /\ c = cascades[d]
  OBVIOUS
<1>2. d \in Nat \ {0} /\ j \in Nat \ {0} /\ j \in 0..Len(s[d].endpoints) /\ h \in Place
  BY DEF Listed, Place
<1>3. f \in Seq(Cascade) /\ Len(f) = d /\ DOMAIN f = 1..d /\ c = f[d] /\ c \in Cascade
  <2>1. f \in Seq(Cascade) /\ Len(f) = d /\ c = f[d]
    BY <1>1, <1>2 DEF CascadesUpto
  <2> QED
    BY <1>2, <2>1
<1>4. PICK new : new = [c EXCEPT !.flags = @ \cup {h}, !.switches = @ \cup on]
  OBVIOUS
<1>5. new \in Cascade /\ new.flags = c.flags \cup {h} /\ new.switches = c.switches \cup on
  BY <1>2, <1>3, <1>4 DEF Cascade
<1>6. g = [f EXCEPT ![d] = new]
  BY <1>1, <1>3, <1>4
<1>7. /\ g \in Seq(Cascade) /\ Len(g) = d /\ DOMAIN g = 1..d
      /\ (\A i \in 1..d : i # d => g[i] = f[i]) /\ g[d] = new
  <2> QED
    BY <1>2, <1>3, <1>5, <1>6
<1>8. ChildrenUpto(s, k) = ChildrenUpto(s, h) \cup {h} /\ h[1] = d
  BY <1>2, NextChildren
<1>9. \A p : ConfigOf(p)' = ConfigOf(p)
  BY DEF ConfigOf
<1>10. ASSUME NEW i \in 1..d
       PROVE  /\ g[i].flags = {p \in ChildrenUpto(s, k) : p[1] = i}
              /\ g[i].switches =
                   {p \in ChildrenUpto(s, k) : p[1] = i /\ ConfigOf(p).kind \in {"Switch", "LightSwitch"}}
  <2>1. /\ f[i].flags = {p \in ChildrenUpto(s, h) : p[1] = i}
        /\ f[i].switches =
             {p \in ChildrenUpto(s, h) : p[1] = i /\ ConfigOf(p).kind \in {"Switch", "LightSwitch"}}
    BY <1>1, <1>3 DEF CascadesUpto
  <2>2. CASE i = d
    <3>1. g[i].flags = f[i].flags \cup {h} /\ g[i].switches = f[i].switches \cup on
      BY <1>3, <1>5, <1>7, <2>2
    <3>2. {p \in ChildrenUpto(s, k) : p[1] = i} = {p \in ChildrenUpto(s, h) : p[1] = i} \cup {h}
      BY <1>8, <2>2
    <3>3. {p \in ChildrenUpto(s, k) : p[1] = i /\ ConfigOf(p).kind \in {"Switch", "LightSwitch"}}
            = {p \in ChildrenUpto(s, h) : p[1] = i /\ ConfigOf(p).kind \in {"Switch", "LightSwitch"}} \cup on
      BY <1>8, <2>2
    <3> QED
      BY <2>1, <3>1, <3>2, <3>3
  <2>3. CASE i # d
    <3>1. g[i] = f[i]
      BY <1>7, <2>3
    <3>2. {p \in ChildrenUpto(s, k) : p[1] = i} = {p \in ChildrenUpto(s, h) : p[1] = i}
      BY <1>8, <2>3
    <3>3. {p \in ChildrenUpto(s, k) : p[1] = i /\ ConfigOf(p).kind \in {"Switch", "LightSwitch"}}
            = {p \in ChildrenUpto(s, h) : p[1] = i /\ ConfigOf(p).kind \in {"Switch", "LightSwitch"}}
      BY <1>8, <2>3
    <3> QED
      BY <2>1, <3>1, <3>2, <3>3
  <2> QED
    BY <2>2, <2>3
<1>11. Len(g) = IF k[2] = 0 THEN k[1] - 1 ELSE k[1]
  BY <1>2, <1>7
<1> QED
  BY <1>1, <1>7, <1>9, <1>10, <1>11 DEF CascadesUpto

\* What holds during a turn of the wiring.
LEMMA Wiring ==
  ASSUME IInv, phase = "wire", phase' = "wire", UNCHANGED <<devices, nextId, ids, node, parts, mappings>>
  PROVE  /\ WiredUpto(Schema, Here)
         /\ \A i \in 1..Len(devices) : Holds(mappings[i], Schema, i, Len(Schema[i].endpoints))
         /\ TypeOK' /\ WiredUpto(Schema, Here)' => IInv'
<1>1. TypeOK /\ Described
  BY DEF IInv
<1>2. PICK s, h : s = Schema /\ h = End
  OBVIOUS
<1>3. ToBuild = h /\ ToBuild' = h /\ ToWire = Here /\ ToWire' = Here'
  BY <1>2 DEF ToBuild, ToWire, End
<1>4. Schema' = s /\ Len(devices) \in Nat
  BY <1>1, <1>2, SchemaKept
<1>5. NodeUpto(s, h) /\ MappedUpto(s, h) /\ WiredUpto(Schema, Here)
  BY <1>2, <1>3 DEF IInv
<1>6. NodeUpto(s, h)'
  BY <1>5, NodeKept
<1>7. MappedUpto(s, h)'
  BY <1>5, MappedKept
<1>8. \A i \in 1..Len(devices) : Holds(mappings[i], Schema, i, Len(Schema[i].endpoints))
  <2>1. h[1] - 1 = Len(devices)
    BY <1>2, <1>4 DEF End
  <2> QED
    BY <1>2, <1>5, <2>1 DEF MappedUpto
<1>9. Described'
  BY <1>1 DEF Described
<1>10. ASSUME TypeOK', WiredUpto(Schema, Here)' PROVE IInv'
  <2>1. NodeUpto(Schema, ToBuild)' /\ MappedUpto(Schema, ToBuild)' /\ WiredUpto(Schema, ToWire)'
    BY <1>3, <1>4, <1>6, <1>7, <1>10
  <2> QED
    BY <1>9, <1>10, <2>1 DEF IInv
<1> QED
  BY <1>5, <1>8, <1>10

\* The first entry of every key of a place's entries is its id.
LEMMA EntryKeys ==
  ASSUME TypeOK, Described, NEW p \in Places(Schema), NEW key \in DOMAIN EntriesOf(Schema, p)
  PROVE  key[1] = IdOf(Schema, p)
<1>1. PICK id, clusters : id = IdOf(Schema, p) /\ clusters = EndpointOf(Schema, p).clusters
  OBVIOUS
<1>2. key \in {id} \X clusters
  BY <1>1, EntriesDomain
<1> QED
  BY <1>1, <1>2

\* A turn begins with the parent.
LEMMA WireParentStep ==
  ASSUME IInv, WireParent
  PROVE  IInv'
<1>1. /\ TypeOK /\ Described /\ phase = "wire" /\ phase' = "wire" /\ device \in DOMAIN devices
      /\ child = 0 /\ child' = 1
      /\ UNCHANGED <<devices, device, nextId, ids, node, parts, mappings, notified, notifiers, buttonIds, sources>>
      /\ cascades' = Append(cascades, Opened)
      /\ handlers' = Insert(handlers, ParentEntries(mappings[device].parent, devices[device], device))
  BY DEF IInv, WireParent, deviceVars, builtVars, This, Opened
<1>2. PICK s, d, h, k : s = Schema /\ d = device /\ h = <<d, 0>> /\ k = <<d, 1>>
  OBVIOUS
<1>3. /\ Schema' = s /\ Listed(s) /\ d \in 1..Len(s) /\ d \in 1..Len(devices) /\ Len(s[d].endpoints) \in Nat
      /\ Len(devices[d].endpoints) \in Nat
  BY <1>1, <1>2, SchemaKept DEF Listed
<1>4. Here = h /\ Here' = k
  BY <1>1, <1>2 DEF Here
<1>5. WiredUpto(s, h) /\ Holds(mappings[d], s, d, Len(s[d].endpoints))
  BY <1>1, <1>2, <1>3, <1>4, Wiring
<1>6. 0 \in 0..Len(s[d].endpoints) /\ k = <<d, 0 + 1>>
  BY <1>2, <1>3
<1>7. ChildrenUpto(s, k) = ChildrenUpto(s, h)
  BY <1>2, <1>3, <1>6, NextChildren
<1>8. HandledUpto(s, k)'
  <2>1. \A p \in Places(s) : \A key \in DOMAIN EntriesOf(s, p) : key[1] = IdOf(s, p)
    BY <1>1, <1>2, EntryKeys
  <2>2. EntriesOf(s, h) = ParentEntries(mappings[device].parent, devices[device], device)
    BY <1>2, <1>5 DEF EntriesOf, Holds
  <2>3. HandledUpto(s, h) /\ handlers' = Insert(handlers, EntriesOf(s, h))
    BY <1>1, <1>5, <2>2 DEF WiredUpto
  <2> QED
    BY <1>1, <1>2, <1>3, <1>6, <2>1, <2>3, HandledGrows
<1>9. NotifiedUpto(s, k)'
  <2>1. NotifiedUpto(s, h) /\ h \notin ChildrenUpto(s, k)
    BY <1>2, <1>5, <1>7 DEF WiredUpto, ChildrenUpto
  <2> QED
    BY <1>1, <1>7, <2>1, NotifiedSame
<1>10. ButtonsUpto(s, k)'
  <2>1. ButtonsUpto(s, h) /\ h \notin ChildrenUpto(s, k)
    BY <1>2, <1>5, <1>7 DEF WiredUpto, ChildrenUpto
  <2> QED
    BY <1>1, <1>7, <2>1, ButtonsSame
<1>11. CascadesUpto(s, k)'
  <2>1. CascadesUpto(s, h)
    BY <1>5 DEF WiredUpto
  <2> QED
    BY <1>1, <1>2, <1>3, <2>1, CascadesOpen
<1>12. TypeOK'
  <2>1. child' \in 0..Len(This.endpoints)' + 1
    BY <1>1, <1>2, <1>3 DEF This
  <2>2. device' # Len(devices') + 1
    BY <1>1 DEF TypeOK
  <2> QED
    BY <1>1, <2>1, <2>2 DEF TypeOK
<1>13. WiredUpto(Schema, Here)'
  BY <1>3, <1>4, <1>8, <1>9, <1>10, <1>11 DEF WiredUpto
<1> QED
  BY <1>1, <1>12, <1>13, Wiring

\* A child.
LEMMA WireChildStep ==
  ASSUME IInv, WireChild
  PROVE  IInv'
<1>1. /\ TypeOK /\ Described /\ phase = "wire" /\ phase' = "wire" /\ device \in DOMAIN devices
      /\ child \in DOMAIN devices[device].endpoints /\ child' = child + 1
      /\ UNCHANGED <<devices, device, nextId, ids, node, parts, mappings>>
  BY DEF IInv, WireChild, deviceVars, builtVars, This
<1>2. PICK s, d, c, h, k, config, id, kind, label :
        /\ s = Schema /\ d = device /\ c = child /\ h = <<d, c>> /\ k = <<d, c + 1>>
        /\ config = devices[device].endpoints[child] /\ id = mappings[device].children[child]
        /\ kind = config.kind /\ label = config.label
  OBVIOUS
<1>3. /\ Schema' = s /\ Listed(s) /\ d \in 1..Len(s) /\ d \in 1..Len(devices) /\ Len(s[d].endpoints) \in Nat
      /\ Len(devices[d].endpoints) = Len(s[d].endpoints) /\ c \in 1..Len(s[d].endpoints)
      /\ c \in 0..Len(s[d].endpoints) /\ c > 0
  BY <1>1, <1>2, SchemaKept DEF Listed
<1>4. Here = h /\ Here' = k
  BY <1>1, <1>2 DEF Here
<1>5. WiredUpto(s, h) /\ Holds(mappings[d], s, d, Len(s[d].endpoints))
  BY <1>1, <1>2, <1>3, <1>4, Wiring
<1>6. id = IdOf(s, h)
  BY <1>2, <1>3, <1>5 DEF Holds
<1>7. h \in Places(s) /\ h \notin Upto(s, h)
  BY <1>2, <1>3, NextId
<1>8. ChildrenUpto(s, k) = ChildrenUpto(s, h) \cup {h} /\ h \notin ChildrenUpto(s, h)
  <2>1. h \notin ChildrenUpto(s, h)
    BY <1>7 DEF ChildrenUpto
  <2> QED
    BY <1>2, <1>3, <2>1, NextChildren
<1>9. ConfigOf(h) = config
  BY <1>2 DEF ConfigOf
<1>10. h \in Place /\ h # None /\ config = EndpointConfig(kind, label, h) /\ kind \in Kinds
  <2>1. h[2] > 0 /\ h \in Places(Schema)
    BY <1>2, <1>3, <1>7
  <2> QED
    BY <1>1, <1>2, <1>9, <2>1, ChildAt
<1>11. Source(config) = h /\ (Wirable(config) <=> FunctionClusters(kind) # {})
  BY <1>10, ConfigIs
<1>12. NotifyPairs(device, child) = PairsOf(s, h)
  BY <1>2, <1>6, <1>9 DEF NotifyPairs, PairsOf
<1>13. PICK pair : pair = CHOOSE p \in PairsOf(s, h) : TRUE
  OBVIOUS
<1>14. /\ handlers' = Insert(handlers, ChildEntries(id, config, h))
       /\ cascades' = [cascades EXCEPT
            ![d].flags    = @ \cup {h},
            ![d].switches = @ \cup IF kind \in {"Switch", "LightSwitch"} THEN {h} ELSE {}]
       /\ IF Wirable(config)
            THEN notified' = Append(notified, pair) /\ notifiers' = Insert(notifiers, At(h, pair))
            ELSE UNCHANGED <<notified, notifiers>>
       /\ IF Wirable(config) /\ kind = "GenericSwitch"
            THEN buttonIds' = Insert(buttonIds, At(h, id)) /\ sources' = Append(sources, h)
            ELSE UNCHANGED <<buttonIds, sources>>
  BY <1>2, <1>11, <1>12, <1>13 DEF WireChild, This
<1>15. HandledUpto(s, k)'
  <2>1. \A p \in Places(s) : \A key \in DOMAIN EntriesOf(s, p) : key[1] = IdOf(s, p)
    BY <1>1, <1>2, EntryKeys
  <2>2. EntriesOf(s, h) = ChildEntries(id, config, h)
    BY <1>2, <1>3, <1>6, <1>9 DEF EntriesOf
  <2>3. HandledUpto(s, h) /\ handlers' = Insert(handlers, EntriesOf(s, h))
    BY <1>5, <1>14, <2>2 DEF WiredUpto
  <2> QED
    BY <1>1, <1>2, <1>3, <2>1, <2>3, HandledGrows
<1>16. NotifiedUpto(s, k)'
  <2>1. NotifiedUpto(s, h)
    BY <1>5 DEF WiredUpto
  <2>2. CASE Wirable(config)
    <3>1. PICK cluster : FunctionClusters(kind) = {cluster} /\ cluster \in Functional
      BY <1>10, <1>11, <2>2, OneFunction
    <3>2. PairsOf(s, h) = {<<id, cluster>>}
      BY <1>2, <1>6, <1>9, <3>1 DEF PairsOf
    <3>3. pair = <<id, cluster>> /\ pair \in Pair
      BY <1>3, <1>6, <1>13, <3>1, <3>2, IdIsNumber DEF Pair
    <3> QED
      BY <1>1, <1>3, <1>7, <1>8, <1>14, <2>1, <2>2, <3>2, <3>3, NotifiedGrows
  <2>3. CASE ~Wirable(config)
    <3>1. PairsOf(s, h) = {}
      BY <1>2, <1>9, <1>11, <2>3 DEF PairsOf
    <3>2. UNCHANGED <<notified, notifiers>>
      BY <1>14, <2>3
    <3> QED
      BY <1>1, <1>8, <2>1, <3>1, <3>2, NotifiedSame
  <2> QED
    BY <2>2, <2>3
<1>17. ButtonsUpto(s, k)'
  <2>1. ButtonsUpto(s, h)
    BY <1>5 DEF WiredUpto
  <2>2. CASE kind = "GenericSwitch"
    <3>1. Wirable(config)
      BY <1>10, <1>11, <2>2, OneFunction
    <3>2. buttonIds' = Insert(buttonIds, At(h, IdOf(s, h))) /\ sources' = Append(sources, h)
      BY <1>6, <1>14, <2>2, <3>1
    <3> QED
      BY <1>1, <1>8, <1>10, <2>1, <3>2, ButtonsGrow
  <2>3. CASE kind # "GenericSwitch"
    <3>1. UNCHANGED <<buttonIds, sources>> /\ ConfigOf(h).kind # "GenericSwitch"
      BY <1>2, <1>9, <1>14, <2>3
    <3> QED
      BY <1>1, <1>8, <2>1, <3>1, ButtonsSame
  <2> QED
    BY <2>2, <2>3
<1>18. CascadesUpto(s, k)'
  <2>1. CascadesUpto(s, h)
    BY <1>5 DEF WiredUpto
  <2>2. PICK on : on = IF kind \in {"Switch", "LightSwitch"} THEN {h} ELSE {}
    OBVIOUS
  <2>3. on = IF ConfigOf(h).kind \in {"Switch", "LightSwitch"} THEN {h} ELSE {}
    BY <1>2, <1>9, <2>2
  <2>4. cascades' = [cascades EXCEPT ![d].flags = @ \cup {h}, ![d].switches = @ \cup on]
    BY <1>14, <2>2
  <2> QED
    BY <1>1, <1>2, <1>3, <2>1, <2>3, <2>4, CascadesGrow
<1>19. TypeOK'
  <2>1. child' \in 0..Len(This.endpoints)' + 1 /\ child' \in Nat
    BY <1>1, <1>2, <1>3 DEF This
  <2>2. device' # Len(devices') + 1
    BY <1>1 DEF TypeOK
  <2> QED
    BY <1>1, <2>1, <2>2 DEF TypeOK
<1>20. WiredUpto(Schema, Here)'
  BY <1>3, <1>4, <1>15, <1>16, <1>17, <1>18 DEF WiredUpto
<1> QED
  BY <1>1, <1>19, <1>20, Wiring

\* The next device.
LEMMA WireNextStep ==
  ASSUME IInv, WireNext
  PROVE  IInv'
<1>1. /\ TypeOK /\ Described /\ phase = "wire" /\ phase' = "wire" /\ device \in DOMAIN devices
      /\ child = Len(devices[device].endpoints) + 1 /\ device' = device + 1 /\ child' = 0
      /\ UNCHANGED <<devices, nextId, ids, node, parts, mappings,
                     handlers, notified, notifiers, buttonIds, sources, cascades>>
  BY DEF IInv, WireNext, deviceVars, builtVars, wiredVars, This
<1>2. PICK s, d, c, h, k : s = Schema /\ d = device /\ c = child /\ h = <<d, c>> /\ k = <<d + 1, 0>>
  OBVIOUS
<1>3. /\ Schema' = s /\ Listed(s) /\ d \in 1..Len(s) /\ Len(s[d].endpoints) \in Nat
      /\ c = Len(s[d].endpoints) + 1 /\ Len(s) = Len(devices) /\ Len(s) \in Nat
      /\ \A i \in 1..Len(s) : Len(devices[i].endpoints) \in Nat
  BY <1>1, <1>2, SchemaKept DEF Listed
<1>4. Here = h /\ Here' = k
  BY <1>1, <1>2 DEF Here
<1>5. WiredUpto(s, h)
  BY <1>1, <1>2, <1>4, Wiring
<1>6. WiredUpto(s, h)'
  BY <1>1, <1>5, WiredKept DEF wiredVars
<1>7. Upto(s, k) = Upto(s, h) /\ ChildrenUpto(s, k) = ChildrenUpto(s, h)
  <2>1. Upto(s, k) = Upto(s, h)
    BY <1>2, <1>3, NextDeviceId
  <2> QED
    BY <2>1 DEF ChildrenUpto
<1>8. WiredUpto(s, k)'
  <2>1. HandledUpto(s, k)'
    BY <1>6, <1>7 DEF WiredUpto, HandledUpto
  <2>2. NotifiedUpto(s, k)'
    BY <1>6, <1>7 DEF WiredUpto, NotifiedUpto
  <2>3. ButtonsUpto(s, k)'
    BY <1>6, <1>7 DEF WiredUpto, ButtonsUpto
  <2>4. CascadesUpto(s, k)'
    <3>1. h[2] # 0 /\ h[1] = d /\ k[2] = 0 /\ k[1] - 1 = d
      BY <1>2, <1>3
    <3> QED
      BY <1>6, <1>7, <3>1 DEF WiredUpto, CascadesUpto
  <2> QED
    BY <2>1, <2>2, <2>3, <2>4 DEF WiredUpto
<1>9. TypeOK'
  <2>1. device' \in 1..Len(devices') + 1
    BY <1>1, <1>2, <1>3
  <2>2. device' \in 1..Len(devices') => child' \in 0..Len(This.endpoints)' + 1
    BY <1>1, <1>3 DEF This
  <2> QED
    BY <1>1, <2>1, <2>2 DEF TypeOK
<1>10. WiredUpto(Schema, Here)'
  BY <1>3, <1>4, <1>8
<1> QED
  BY <1>1, <1>9, <1>10, Wiring

\* Everything is wired.
LEMMA ServeStep ==
  ASSUME IInv, Serve
  PROVE  IInv'
<1>1. /\ TypeOK /\ Described /\ phase = "wire" /\ phase' = "serve" /\ device = Len(devices) + 1 /\ child = 0
      /\ targets' = [i \in DOMAIN devices |-> i]
      /\ UNCHANGED <<devices, device, child, nextId, ids, node, parts, mappings, wiredVars>>
  BY DEF IInv, Serve, deviceVars, turnVars, builtVars, TypeOK
<1>2. PICK s, h : s = Schema /\ h = End
  OBVIOUS
<1>3. Schema' = s
  BY <1>1, <1>2, SchemaKept
<1>4. ToBuild = h /\ ToBuild' = h /\ ToWire = h /\ ToWire' = h
  BY <1>1, <1>2 DEF ToBuild, ToWire, Here, End
<1>5. NodeUpto(s, h) /\ MappedUpto(s, h) /\ WiredUpto(s, h)
  BY <1>1, <1>2, <1>4 DEF IInv
<1>6. NodeUpto(s, h)'
  BY <1>1, <1>5, NodeKept
<1>7. MappedUpto(s, h)'
  BY <1>1, <1>5, MappedKept
<1>8. WiredUpto(s, h)'
  BY <1>1, <1>5, WiredKept
<1>9. TypeOK' /\ Described'
  BY <1>1 DEF TypeOK, Described, This
<1>10. NodeUpto(Schema, ToBuild)' /\ MappedUpto(Schema, ToBuild)' /\ WiredUpto(Schema, ToWire)'
  BY <1>3, <1>4, <1>6, <1>7, <1>8
<1> QED
  BY <1>1, <1>9, <1>10 DEF IInv

-----------------------------------------------------------------------------
(* The invariant holds.                                                      *)

\* No device yet, and nothing built.
LEMMA InitInv == Init => IInv
<1> SUFFICES ASSUME Init PROVE IInv
  OBVIOUS
<1>1. TypeOK
  BY DEF Init, TypeOK, Allotted
<1>2. Described
  BY DEF Init, Described
<1>3. PICK s, ds : s = Schema /\ ds = devices
  OBVIOUS
<1>4. Upto(s, First) = {}
  <2>1. ds \in Seq(Device) /\ s = SchemaOf(ds)
    BY <1>1, <1>3 DEF TypeOK, Schema, SchemaOf
  <2>2. Listed(s)
    BY <2>1, SchemaIs
  <2> QED
    BY <2>2, FirstId DEF First
<1>5. ToBuild = First /\ ToWire = First
  BY DEF Init, ToBuild, ToWire
<1>6. MappedUpto(s, First)
  BY DEF Init, MappedUpto, First
<1>7. WiredUpto(s, First)
  <2>1. ChildrenUpto(s, First) = {}
    BY <1>4 DEF ChildrenUpto
  <2>2. HandledUpto(s, First)
    BY <1>4 DEF Init, HandledUpto
  <2>3. NotifiedUpto(s, First)
    BY <2>1 DEF Init, NotifiedUpto
  <2>4. ButtonsUpto(s, First)
    BY <2>1 DEF Init, ButtonsUpto
  <2>5. CascadesUpto(s, First)
    BY <2>1 DEF Init, CascadesUpto, First
  <2> QED
    BY <2>2, <2>3, <2>4, <2>5 DEF WiredUpto
<1> QED
  BY <1>1, <1>2, <1>3, <1>5, <1>6, <1>7 DEF Init, IInv

\* A step that changes nothing.
LEMMA Stutter ==
  ASSUME IInv, UNCHANGED vars
  PROVE  IInv'
<1>1. UNCHANGED <<phase, devices, device, child, nextId, ids, node, parts, mappings, wiredVars, targets>>
  BY DEF vars, deviceVars, turnVars, builtVars
<1>2. PICK s, b, w : s = Schema /\ b = ToBuild /\ w = ToWire
  OBVIOUS
<1>3. TypeOK /\ Described /\ Schema' = s /\ ToBuild' = b /\ ToWire' = w
  BY <1>1, <1>2 DEF IInv, Schema, ToBuild, ToWire, Here, First, End
<1>4. phase # "describe" => NodeUpto(s, b)'
  BY <1>1, <1>2, NodeKept DEF IInv
<1>5. MappedUpto(s, b)'
  <2>1. MappedUpto(s, b)
    BY <1>2 DEF IInv
  <2> QED
    BY <1>1, <2>1, MappedKept
<1>6. WiredUpto(s, w)'
  <2>1. WiredUpto(s, w)
    BY <1>2 DEF IInv
  <2> QED
    BY <1>1, <2>1, WiredKept
<1>7. TypeOK' /\ Described'
  BY <1>1, <1>3 DEF TypeOK, Described, This
<1>8. /\ phase' # "describe" => NodeUpto(Schema, ToBuild)'
      /\ MappedUpto(Schema, ToBuild)' /\ WiredUpto(Schema, ToWire)'
  BY <1>1, <1>3, <1>4, <1>5, <1>6
<1> QED
  BY <1>1, <1>7, <1>8 DEF IInv

\* Every step keeps the invariant.
LEMMA StepInv == IInv /\ [Next]_vars => IInv'
<1> SUFFICES ASSUME IInv, [Next]_vars PROVE IInv'
  OBVIOUS
<1>1. ASSUME NEW label \in Labels, NewDevice(label) PROVE IInv'
  BY <1>1, NewDeviceStep
<1>2. ASSUME NEW kind \in Kinds, NEW label \in Labels, WithEndpoint(kind, label) PROVE IInv'
  BY <1>2, WithEndpointStep
<1>3. CASE WithDeviceInfo
  BY <1>3, WithDeviceInfoStep
<1>4. CASE BeginBuild
  BY <1>4, BeginBuildStep
<1>5. CASE BuildParent
  BY <1>5, BuildParentStep
<1>6. CASE BuildChild
  BY <1>6, BuildChildStep
<1>7. CASE BuildParts
  BY <1>7, BuildPartsStep
<1>8. CASE EndBuild
  BY <1>8, EndBuildStep
<1>9. CASE WireParent
  BY <1>9, WireParentStep
<1>10. CASE WireChild
  BY <1>10, WireChildStep
<1>11. CASE WireNext
  BY <1>11, WireNextStep
<1>12. CASE Serve
  BY <1>12, ServeStep
<1>13. CASE UNCHANGED vars
  BY <1>13, Stutter
<1> QED
  BY <1>1, <1>2, <1>3, <1>4, <1>5, <1>6, <1>7, <1>8, <1>9, <1>10, <1>11, <1>12, <1>13 DEF Next

\* At every moment the node, the mappings and the parts lists are those of the
\* places built, and the tables of run_matter_stack those of the places wired.
THEOREM Invariance == Spec => []IInv
<1>1. Init => IInv
  BY InitInv
<1>2. IInv /\ [Next]_vars => IInv'
  BY StepInv
<1> QED
  BY <1>1, <1>2, PTL DEF Spec

-----------------------------------------------------------------------------
(* What the invariant says of the finished node.                             *)

\* Once the node is built, all places are.
LEMMA Built ==
  ASSUME IInv, phase \in {"wire", "serve"}
  PROVE  /\ Listed(Schema) /\ Len(Schema) = Len(devices)
         /\ Upto(Schema, End) = Places(Schema)
         /\ NodeUpto(Schema, End) /\ MappedUpto(Schema, End)
<1>1. PICK s, ds : s = Schema /\ ds = devices
  OBVIOUS
<1>2. s = SchemaOf(ds) /\ ds \in Seq(Device)
  BY <1>1 DEF Schema, SchemaOf, IInv, TypeOK
<1>3. Listed(s) /\ Len(s) = Len(ds)
  BY <1>2, SchemaIs
<1>4. Upto(s, <<Len(s) + 1, 0>>) = Places(s)
  BY <1>3, LastId
<1>5. ToBuild = End /\ End = <<Len(s) + 1, 0>>
  BY <1>1, <1>3 DEF ToBuild, End
<1> QED
  BY <1>1, <1>3, <1>4, <1>5 DEF IInv

\* Every id is in the node.
LEMMA IdInNode ==
  ASSUME NEW s, Listed(s), NEW n, n = 2 + Cardinality(Places(s)), NEW p \in Places(s)
  PROVE  IdOf(s, p) \in 3..n
<1>1. PICK h : h = <<Len(s) + 1, 0>>
  OBVIOUS
<1>2. IdOf(s, h) = 3 + Cardinality(Places(s)) /\ Upto(s, h) = Places(s)
  BY <1>1, LastId
<1>3. h \in Place
  BY <1>1 DEF Place, Listed
<1>4. Precedes(p, h)
  BY <1>2 DEF Upto
<1>5. IdOf(s, p) < IdOf(s, h)
  BY <1>3, <1>4, IdsGrow
<1>6. IdOf(s, p) \in Nat /\ IdOf(s, p) >= 3
  BY IdIsNumber
<1>7. Cardinality(Places(s)) \in Nat
  BY PlacesFinite, FS_CardinalityType
<1> QED
  BY <1>2, <1>5, <1>6, <1>7

\* The node is the one that the schema says.
LEMMA NodeIs ==
  ASSUME IInv, phase \in {"wire", "serve"}
  PROVE  node = NodeOf(Schema)
<1>1. PICK s, n : s = Schema /\ n = Cardinality(Places(s))
  OBVIOUS
<1>2. Listed(s) /\ Upto(s, End) = Places(s) /\ NodeUpto(s, End) /\ Len(s) = Len(devices)
  BY <1>1, Built
<1>3. n \in Nat
  BY <1>1, <1>2, PlacesFinite, FS_CardinalityType
<1>4. nextId = 3 + n
  <2>1. IdOf(s, <<Len(s) + 1, 0>>) = 3 + n
    BY <1>1, <1>2, LastId
  <2> QED
    BY <1>2, <2>1 DEF NodeUpto, End
<1>5. node = [e \in 0..2 + n |-> node[e]]
  <2>1. 0..nextId - 1 = 0..2 + n
    BY <1>3, <1>4
  <2> QED
    BY <1>2, <2>1 DEF NodeUpto
<1>6. ASSUME NEW e \in 0..2 + n
      PROVE  node[e] = IF e \in 0..2 THEN RootEndpoints[e]
                       ELSE EndpointOf(s, CHOOSE p \in Places(s) : IdOf(s, p) = e)
  <2>1. CASE e \in 0..2
    BY <1>2, <2>1 DEF NodeUpto
  <2>2. CASE e \notin 0..2
    <3>1. e \in 3..nextId - 1
      BY <1>3, <1>4, <2>2
    <3>2. PICK r \in Places(s) : IdOf(s, r) = e
      BY <1>2, <3>1 DEF NodeUpto
    <3>3. PICK q : q = CHOOSE p \in Places(s) : IdOf(s, p) = e
      OBVIOUS
    <3>4. q \in Places(s) /\ IdOf(s, q) = e
      BY <3>2, <3>3
    <3>5. node[IdOf(s, q)] = EndpointOf(s, q)
      BY <1>2, <3>4 DEF NodeUpto
    <3> QED
      BY <2>2, <3>3, <3>4, <3>5
  <2> QED
    BY <2>1, <2>2
<1>7. NodeOf(s) = [e \in 0..2 + n |-> IF e \in 0..2 THEN RootEndpoints[e]
                                      ELSE EndpointOf(s, CHOOSE p \in Places(s) : IdOf(s, p) = e)]
  BY <1>1 DEF NodeOf
<1> QED
  BY <1>1, <1>5, <1>6, <1>7

\* The matcher lists what the schema says.
LEMMA MatchesIs ==
  ASSUME IInv, phase \in {"wire", "serve"}, NEW ours, NEW e
  PROVE  Matches(ours, e) <=> \E p \in Places(Schema) : ours = ListedBy(Schema, p) /\ e = IdOf(Schema, p)
<1>1. PICK s, n, t, m : s = Schema /\ n = Len(s) /\ t = parts /\ m = mappings
  OBVIOUS
<1>2. Listed(s) /\ MappedUpto(s, End) /\ Len(devices) = n /\ n \in Nat
  BY <1>1, Built DEF Listed
<1>3. End[1] - 1 = n
  BY <1>2 DEF End
<1>4. /\ Len(t) = n /\ DOMAIN t = 1..n
      /\ \A i \in 1..n : Holds(m[i], s, i, Len(s[i].endpoints)) /\ t[i] = <<m[i].parent, m[i].children>>
  <2>1. t \in Seq(Nat \X Seq(Nat))
    BY <1>1 DEF IInv, TypeOK
  <2>2. /\ Len(t) = n
        /\ \A i \in 1..n : Holds(m[i], s, i, Len(s[i].endpoints)) /\ t[i] = <<m[i].parent, m[i].children>>
    BY <1>1, <1>2, <1>3 DEF MappedUpto
  <2>3. DOMAIN t = 1..n
    BY <2>1, <2>2
  <2> QED
    BY <2>2, <2>3
<1>5. ASSUME NEW i \in 1..n
      PROVE  /\ t[i][1] = IdOf(s, <<i, 0>>) /\ Len(t[i][2]) = Len(s[i].endpoints)
             /\ \A j \in 1..Len(s[i].endpoints) : t[i][2][j] = IdOf(s, <<i, j>>)
             /\ <<i, 0>> \in Places(s) /\ IdOf(s, <<i, 0>>) # 2 /\ Len(s[i].endpoints) \in Nat
             /\ \A j \in 1..Len(s[i].endpoints) : <<i, j>> \in Places(s)
  <2>1. Holds(m[i], s, i, Len(s[i].endpoints)) /\ t[i] = <<m[i].parent, m[i].children>>
    BY <1>4
  <2>2. t[i][1] = m[i].parent /\ t[i][2] = m[i].children
    BY <2>1
  <2>3. /\ t[i][1] = IdOf(s, <<i, 0>>) /\ Len(t[i][2]) = Len(s[i].endpoints)
        /\ \A j \in 1..Len(s[i].endpoints) : t[i][2][j] = IdOf(s, <<i, j>>)
    BY <2>1, <2>2 DEF Holds
  <2>4. Len(s[i].endpoints) \in Nat
    BY <1>1, <1>2 DEF Listed
  <2>5. \A j \in 0..Len(s[i].endpoints) : <<i, j>> \in Places(s)
    BY <1>1, <1>2, PlacesAre
  <2>6. IdOf(s, <<i, 0>>) \in Nat /\ IdOf(s, <<i, 0>>) >= 3
    BY <1>2, IdIsNumber
  <2> QED
    BY <2>3, <2>4, <2>5, <2>6
<1>6. ASSUME Matches(ours, e)
      PROVE  \E p \in Places(s) : ours = ListedBy(s, p) /\ e = IdOf(s, p)
  <2>1. PICK i \in 1..n : IF ours = 2 THEN t[i][1] = e
                          ELSE t[i][1] = ours /\ Contains(t[i][2], e)
    BY <1>1, <1>4, <1>6 DEF Matches
  <2>2. CASE ours = 2
    <3>1. ListedBy(s, <<i, 0>>) = 2
      BY DEF ListedBy
    <3> QED
      BY <1>5, <2>1, <2>2, <3>1
  <2>3. CASE ours # 2
    <3> DEFINE cs == t[i][2]
    <3>1. Contains(cs, e) /\ Len(cs) = Len(s[i].endpoints) /\ Len(s[i].endpoints) \in Nat
      BY <1>5, <2>1, <2>3
    <3> HIDE DEF cs
    <3>2. PICK j : j \in 1..Len(cs) /\ cs[j] = e
      BY <3>1 DEF Contains
    <3>3. j \in 1..Len(s[i].endpoints) /\ j # 0
      BY <3>1, <3>2
    <3>4. t[i][2][j] = e
      BY <3>2 DEF cs
    <3>5. ListedBy(s, <<i, j>>) = IdOf(s, <<i, 0>>)
      BY <3>3 DEF ListedBy
    <3>6. IdOf(s, <<i, j>>) = e /\ <<i, j>> \in Places(s) /\ ours = IdOf(s, <<i, 0>>)
      BY <1>5, <2>1, <2>3, <3>3, <3>4
    <3> QED
      BY <3>5, <3>6
  <2> QED
    BY <2>2, <2>3
<1>7. ASSUME NEW p \in Places(s), ours = ListedBy(s, p), e = IdOf(s, p)
      PROVE  Matches(ours, e)
  <2>1. PICK i, j : p = <<i, j>> /\ i \in 1..n /\ j \in 0..Len(s[i].endpoints) /\ i = p[1] /\ j = p[2]
    BY <1>1, <1>2, <1>7, PlacesAre
  <2>2. CASE j = 0
    <3>1. ours = 2 /\ t[i][1] = e
      BY <1>5, <1>7, <2>1, <2>2 DEF ListedBy
    <3> QED
      BY <1>1, <1>4, <2>1, <3>1 DEF Matches
  <2>3. CASE j # 0
    <3>1. j \in 1..Len(s[i].endpoints)
      BY <1>5, <2>1, <2>3
    <3>2. ours = IdOf(s, <<i, 0>>) /\ ours # 2 /\ t[i][1] = ours
      BY <1>5, <1>7, <2>1, <2>3 DEF ListedBy
    <3>3. t[i][2][j] = e /\ j \in 1..Len(t[i][2])
      BY <1>5, <1>7, <2>1, <3>1
    <3>4. Contains(t[i][2], e)
      BY <3>3 DEF Contains
    <3>5. ASSUME NEW k \in 1..(i - 1) PROVE t[k][1] # ours
      <4>1. k \in 1..n /\ k # i
        BY <1>2, <2>1
      <4>2. t[k][1] = IdOf(s, <<k, 0>>) /\ <<k, 0>> \in Places(s) /\ <<i, 0>> \in Places(s)
        BY <1>5, <2>1, <4>1
      <4>3. IdOf(s, <<k, 0>>) # IdOf(s, <<i, 0>>)
        <5>1. PICK a, b : a = <<k, 0>> /\ b = <<i, 0>>
          OBVIOUS
        <5>2. a # b
          BY <4>1, <5>1
        <5>3. IdOf(s, a) # IdOf(s, b)
          BY <1>2, <4>2, <5>1, <5>2, IdsDiffer
        <5> QED
          BY <5>1, <5>3
      <4> QED
        BY <3>2, <4>2, <4>3
    <3> QED
      BY <1>1, <1>4, <2>1, <3>2, <3>4, <3>5 DEF Matches
  <2> QED
    BY <2>2, <2>3
<1> QED
  BY <1>1, <1>6, <1>7

\* The node and its parts lists depend on the schema alone, and every endpoint
\* from 3 on is listed exactly once.
THEOREM TreeCorrect == Spec => []TreeExact
<1>1. ASSUME IInv PROVE TreeExact
  <2> SUFFICES ASSUME phase \in {"wire", "serve"}
               PROVE  /\ node = NodeOf(Schema)
                      /\ {l \in (DOMAIN node) \X (DOMAIN node) : Matches(l[1], l[2])}
                           = {<<ListedBy(Schema, p), IdOf(Schema, p)>> : p \in Places(Schema)}
    BY DEF TreeExact
  <2>1. node = NodeOf(Schema)
    BY <1>1, NodeIs
  <2>2. PICK s, n, D : s = Schema /\ n = 2 + Cardinality(Places(s)) /\ D = DOMAIN node
    OBVIOUS
  <2>3. D = 0..n
    BY <2>1, <2>2 DEF NodeOf
  <2>4. Listed(s) /\ Cardinality(Places(s)) \in Nat
    BY <1>1, <2>2, Built, PlacesFinite, FS_CardinalityType
  <2>5. ASSUME NEW p \in Places(s) PROVE ListedBy(s, p) \in D /\ IdOf(s, p) \in D
    <3>1. PICK q : q = <<p[1], 0>>
      OBVIOUS
    <3>2. q \in Places(s)
      <4>1. p[1] \in 1..Len(s) /\ 0 \in 0..Len(s[p[1]].endpoints)
        BY <2>4, PlacesAre DEF Listed
      <4> QED
        BY <2>4, <3>1, <4>1, PlacesAre
    <3>3. IdOf(s, p) \in 3..n /\ IdOf(s, q) \in 3..n
      BY <2>2, <2>4, <3>2, IdInNode
    <3>4. 2 \in D /\ 3..n \subseteq D
      BY <2>2, <2>3, <2>4
    <3> QED
      BY <3>1, <3>3, <3>4 DEF ListedBy
  <2>6. ASSUME NEW l
        PROVE  l \in D \X D /\ Matches(l[1], l[2])
                 <=> l \in {<<ListedBy(s, p), IdOf(s, p)>> : p \in Places(s)}
    <3>1. ASSUME l \in D \X D, Matches(l[1], l[2])
          PROVE  l \in {<<ListedBy(s, p), IdOf(s, p)>> : p \in Places(s)}
      <4>1. PICK a, b : l = <<a, b>> /\ l[1] = a /\ l[2] = b
        BY <3>1
      <4>2. PICK p \in Places(s) : a = ListedBy(s, p) /\ b = IdOf(s, p)
        BY <1>1, <2>2, <3>1, <4>1, MatchesIs
      <4> QED
        BY <4>1, <4>2
    <3>2. ASSUME NEW p \in Places(s), l = <<ListedBy(s, p), IdOf(s, p)>>
          PROVE  l \in D \X D /\ Matches(l[1], l[2])
      <4>1. PICK a, b : a = ListedBy(s, p) /\ b = IdOf(s, p)
        OBVIOUS
      <4>2. Matches(a, b)
        BY <1>1, <2>2, <4>1, MatchesIs
      <4>3. a \in D /\ b \in D /\ l = <<a, b>>
        BY <2>5, <3>2, <4>1
      <4> QED
        BY <4>2, <4>3
    <3> QED
      BY <3>1, <3>2
  <2>7. {l \in D \X D : Matches(l[1], l[2])} = {<<ListedBy(s, p), IdOf(s, p)>> : p \in Places(s)}
    BY <2>6
  <2> QED
    BY <2>1, <2>2, <2>7
<1> QED
  BY <1>1, Invariance, PTL

-----------------------------------------------------------------------------
(* What it says of the handlers.                                             *)

\* Once everything is wired, every place is.
LEMMA Wired ==
  ASSUME IInv, phase = "serve"
  PROVE  WiredUpto(Schema, End)
BY DEF IInv, ToWire

\* A variant serves a cluster: it has a case for all that the cluster declares.
Serves(variant, cluster) ==
  /\ variant # "none"
  /\ Attributes(cluster) \subseteq Readable(variant)
  /\ Commands(cluster) \subseteq Invocable(variant)

\* The variants that serve clusters of their own, or share them.
LEMMA VariantsServe ==
  /\ Serves("TimeSync", "TimeSync") /\ Serves("rs-matter", "Descriptor")
  /\ Serves("OnOffHandler", "OnOff") /\ Serves("DeviceOnOff", "OnOff")
  /\ Serves("Desc", "Descriptor") /\ Serves("DescWithParts", "Descriptor")
  /\ Serves("Bridged", "Bridged")
<1> USE DEF Serves, Attributes, Readable, Commands, Invocable
<1>1. Serves("TimeSync", "TimeSync")
  BY DEF TimeSyncAttributes, TimeSyncReads
<1>2. Serves("rs-matter", "Descriptor") /\ Serves("Desc", "Descriptor") /\ Serves("DescWithParts", "Descriptor")
  OBVIOUS
<1>3. Serves("OnOffHandler", "OnOff")
  BY DEF OnOffAttributes, OnOffReads
<1>4. Serves("DeviceOnOff", "OnOff")
  BY DEF OnOffAttributes, DeviceOnOffReads
<1>5. Serves("Bridged", "Bridged")
  BY DEF BridgedAttributes, BridgedReads
<1> QED
  BY <1>1, <1>2, <1>3, <1>4, <1>5

\* The functions of the children do too.
LEMMA FunctionsServe ==
  ASSUME NEW kind \in Kinds, NEW c \in FunctionClusters(kind)
  PROVE  Serves(c, c)
<1>1. Serves("BooleanState", "BooleanState")
  BY DEF Serves, Attributes, Readable, Commands, Invocable, BooleanStateAttributes, BooleanStateReads
<1>2. Serves("OccupancySensing", "OccupancySensing")
  BY DEF Serves, Attributes, Readable, Commands, Invocable, OccupancyAttributes, OccupancyReads
<1>3. Serves("OnOff", "OnOff")
  BY DEF Serves, Attributes, Readable, Commands, Invocable, OnOffAttributes, OnOffReads
<1>4. Serves("TemperatureMeasurement", "TemperatureMeasurement")
  BY DEF Serves, Attributes, Readable, Commands, Invocable, TemperatureAttributes, TemperatureReads
<1>5. Serves("RelativeHumidity", "RelativeHumidity")
  BY DEF Serves, Attributes, Readable, Commands, Invocable, HumidityAttributes, HumidityReads
<1>6. Serves("GenericSwitch", "GenericSwitch")
  BY DEF Serves, Attributes, Readable, Commands, Invocable, SwitchAttributes, SwitchReads
<1>7. c \in {"BooleanState", "OccupancySensing", "OnOff", "TemperatureMeasurement", "RelativeHumidity", "GenericSwitch"}
  BY ClustersOfKind
<1> QED
  BY <1>1, <1>2, <1>3, <1>4, <1>5, <1>6, <1>7

\* The entry that a place has for a cluster of its endpoint serves it.
LEMMA EntriesServe ==
  ASSUME TypeOK, Described, NEW p \in Places(Schema), NEW c \in EndpointOf(Schema, p).clusters
  PROVE  Serves(EntriesOf(Schema, p)[<<IdOf(Schema, p), c>>].variant, c)
<1>1. PICK s, id : s = Schema /\ id = IdOf(s, p)
  OBVIOUS
<1>2. p[2] \in Nat
  <2>1. PICK ds : ds = devices
    OBVIOUS
  <2>2. ds \in Seq(Device) /\ s = SchemaOf(ds)
    BY <1>1, <2>1 DEF TypeOK, Schema, SchemaOf
  <2>3. Listed(s)
    BY <2>2, SchemaIs
  <2> QED
    BY <1>1, <2>3, PlacesAre
<1>3. CASE p[2] = 0
  <2>1. PICK dev, i : dev = devices[p[1]] /\ i = p[1]
    OBVIOUS
  <2>2. EntriesOf(Schema, p) = ParentEntries(id, dev, i)
    BY <1>1, <1>3, <2>1 DEF EntriesOf
  <2>3. c \in {"Bridged", "OnOff", "Descriptor"}
    BY <1>1, <1>3, EndpointClusters DEF EndpointOf
  <2>4. PICK g : g = ParentEntries(id, dev, i)
    OBVIOUS
  <2>5. /\ g[<<id, "Descriptor">>].variant = "DescWithParts"
        /\ g[<<id, "Bridged">>].variant = "Bridged"
        /\ g[<<id, "OnOff">>].variant = "DeviceOnOff"
    BY <2>4, ParentEntriesAre
  <2>6. Serves(g[<<id, c>>].variant, c)
    <3>1. CASE c = "Bridged"
      BY <2>5, <3>1, VariantsServe
    <3>2. CASE c = "OnOff"
      BY <2>5, <3>2, VariantsServe
    <3>3. CASE c = "Descriptor"
      BY <2>5, <3>3, VariantsServe
    <3> QED
      BY <2>3, <3>1, <3>2, <3>3
  <2> QED
    BY <1>1, <2>2, <2>4, <2>6
<1>4. CASE p[2] > 0
  <2>1. PICK config, kind, label : config = ConfigOf(p) /\ kind = config.kind /\ label = config.label
    OBVIOUS
  <2>2. kind \in Kinds /\ p # None /\ config = EndpointConfig(kind, label, p)
    BY <1>1, <1>4, <2>1, ChildAt
  <2>3. Schema[p[1]].endpoints[p[2]].kind = kind
    BY <1>4, <2>1, ChildAt
  <2>4. EntriesOf(Schema, p) = ChildEntries(id, config, p)
    BY <1>1, <1>4, <2>1 DEF EntriesOf
  <2>5. c \in {"Bridged", "Descriptor"} \cup FunctionClusters(kind)
    <3>1. EndpointOf(Schema, p) = ChildEndpoint(kind)
      BY <1>4, <2>3 DEF EndpointOf
    <3> QED
      BY <3>1, EndpointClusters
  <2>6. PICK g : g = ChildEntries(id, config, p)
    OBVIOUS
  <2>7. g[<<id, "Descriptor">>].variant = "Desc"
    <3>1. ChildEntries(id, config, p)[<<id, "Descriptor">>] = Entry("Desc", None)
      BY <2>2, ChildPartsIs
    <3> QED
      BY <2>6, <3>1 DEF Entry
  <2>8. g[<<id, "Bridged">>].variant = "Bridged"
    <3>1. ChildEntries(id, config, p)[<<id, "Bridged">>].variant = "Bridged"
      BY <2>2, ChildLabelIs
    <3> QED
      BY <2>6, <3>1
  <2>9. ASSUME NEW f \in FunctionClusters(kind) PROVE g[<<id, f>>].variant = f
    <3>1. ChildEntries(id, config, p)[<<id, f>>] = Entry(f, p)
      BY <2>2, ChildFunctionIs
    <3> QED
      BY <2>6, <3>1 DEF Entry
  <2>10. Serves(g[<<id, c>>].variant, c)
    <3>1. CASE c = "Bridged"
      BY <2>8, <3>1, VariantsServe
    <3>2. CASE c = "Descriptor"
      BY <2>7, <3>2, VariantsServe
    <3>3. CASE c \in FunctionClusters(kind)
      BY <2>2, <2>9, <3>3, FunctionsServe
    <3> QED
      BY <2>5, <3>1, <3>2, <3>3
  <2> QED
    BY <1>1, <2>4, <2>6, <2>10
<1> QED
  BY <1>2, <1>3, <1>4

\* A request for whatever the node declares reaches a handler with a case for
\* it, and no handler stands behind a cluster that the node does not declare.
THEOREM ServedCorrect == Spec => []EveryRequestServed
<1>1. ASSUME IInv PROVE EveryRequestServed
  <2> SUFFICES ASSUME phase = "serve"
               PROVE  /\ \A e \in DOMAIN node : \A c \in node[e].clusters : Serves(Route(e, c), c)
                      /\ \A key \in DOMAIN handlers : key[2] \in node[key[1]].clusters
    BY DEF EveryRequestServed, Serves
  <2>1. PICK s : s = Schema
    OBVIOUS
  <2>2. TypeOK /\ Described /\ Listed(s) /\ Upto(s, End) = Places(s) /\ NodeUpto(s, End) /\ HandledUpto(s, End)
    BY <1>1, <2>1, Built, Wired DEF IInv, WiredUpto
  <2>3. ASSUME NEW p \in Places(s)
        PROVE  /\ node[IdOf(s, p)] = EndpointOf(s, p) /\ IdOf(s, p) \in Nat /\ IdOf(s, p) >= 3
               /\ DOMAIN EntriesOf(s, p) = {IdOf(s, p)} \X EndpointOf(s, p).clusters
               /\ \A key \in DOMAIN EntriesOf(s, p) :
                    key \in DOMAIN handlers /\ handlers[key] = EntriesOf(s, p)[key]
    <3>1. node[IdOf(s, p)] = EndpointOf(s, p)
      BY <2>2 DEF NodeUpto
    <3>2. IdOf(s, p) \in Nat /\ IdOf(s, p) >= 3
      BY <2>2, IdIsNumber
    <3>3. DOMAIN EntriesOf(s, p) = {IdOf(s, p)} \X EndpointOf(s, p).clusters
      BY <2>1, <2>2, EntriesDomain
    <3>4. \A key \in DOMAIN EntriesOf(s, p) : key \in DOMAIN handlers /\ handlers[key] = EntriesOf(s, p)[key]
      BY <2>2 DEF HandledUpto
    <3> QED
      BY <3>1, <3>2, <3>3, <3>4
  <2>4. ASSUME NEW e \in DOMAIN node, NEW c \in node[e].clusters PROVE Serves(Route(e, c), c)
    <3>1. CASE e \in 0..2
      <4>1. node[e].clusters = RootEndpoints[e].clusters
        BY <2>2, <3>1 DEF NodeUpto
      <4>2. CASE e = 0
        <5>1. c \in {"TimeSync", "Descriptor"}
          BY <2>4, <4>1, <4>2, RootIs
        <5>2. Route(0, "TimeSync") = "TimeSync" /\ Route(0, "Descriptor") = "rs-matter"
          BY DEF Route
        <5> QED
          BY <4>2, <5>1, <5>2, VariantsServe
      <4>3. CASE e = 1
        <5>1. c \in {"OnOff", "Descriptor"}
          BY <2>4, <4>1, <4>3, RootIs
        <5>2. Route(1, "OnOff") = "OnOffHandler" /\ Route(1, "Descriptor") = "Desc"
          BY DEF Route
        <5> QED
          BY <4>3, <5>1, <5>2, VariantsServe
      <4>4. CASE e = 2
        <5>1. c = "Descriptor"
          BY <2>4, <4>1, <4>4, RootIs
        <5>2. Route(2, "Descriptor") = "DescWithParts"
          BY DEF Route
        <5> QED
          BY <4>4, <5>1, <5>2, VariantsServe
      <4> QED
        BY <3>1, <4>2, <4>3, <4>4
    <3>2. CASE e \notin 0..2
      <4>1. e \in 3..nextId - 1
        <5>1. node = [i \in 0..nextId - 1 |-> node[i]] /\ nextId \in Nat
          BY <2>2 DEF NodeUpto, TypeOK
        <5>2. e \in 0..nextId - 1
          BY <2>4, <5>1
        <5> QED
          BY <3>2, <5>1, <5>2
      <4>2. PICK p \in Places(s) : IdOf(s, p) = e
        BY <2>2, <4>1 DEF NodeUpto
      <4>3. c \in EndpointOf(s, p).clusters
        BY <2>3, <2>4, <4>2
      <4>4. Serves(EntriesOf(s, p)[<<e, c>>].variant, c)
        BY <2>1, <2>2, <4>2, <4>3, EntriesServe
      <4>5. <<e, c>> \in DOMAIN EntriesOf(s, p)
        BY <2>3, <4>2, <4>3
      <4>6. <<e, c>> \in DOMAIN handlers /\ handlers[<<e, c>>] = EntriesOf(s, p)[<<e, c>>]
        BY <2>3, <4>5
      <4>7. Route(e, c) = handlers[<<e, c>>].variant
        BY <3>2, <4>6 DEF Route
      <4> QED
        BY <4>4, <4>6, <4>7
    <3> QED
      BY <3>1, <3>2
  <2>5. ASSUME NEW key \in DOMAIN handlers PROVE key[2] \in node[key[1]].clusters
    <3>1. PICK p \in Places(s) : key \in DOMAIN EntriesOf(s, p)
      BY <2>2 DEF HandledUpto
    <3>2. PICK id, clusters : id = IdOf(s, p) /\ clusters = EndpointOf(s, p).clusters
      OBVIOUS
    <3>3. key \in {id} \X clusters /\ node[id] = EndpointOf(s, p)
      BY <2>3, <3>1, <3>2
    <3>4. key[1] = id /\ key[2] \in clusters
      BY <3>3
    <3> QED
      BY <3>2, <3>3, <3>4
  <2> QED
    BY <2>4, <2>5
<1> QED
  BY <1>1, Invariance, PTL

\* Every child is read from, reported for and switched off as what main gave its
\* place, and by its own device alone.
THEOREM WiredCorrect == Spec => []WiredToItsEndpoint
<1>1. ASSUME IInv PROVE WiredToItsEndpoint
  <2> SUFFICES ASSUME phase = "serve" PROVE WiredToItsEndpoint
    BY DEF WiredToItsEndpoint
  <2>1. PICK s : s = Schema
    OBVIOUS
  <2>2. /\ TypeOK /\ Described /\ Listed(s) /\ Len(s) = Len(devices) /\ Upto(s, End) = Places(s)
        /\ MappedUpto(s, End) /\ HandledUpto(s, End) /\ NotifiedUpto(s, End) /\ ButtonsUpto(s, End) /\ CascadesUpto(s, End)
        /\ targets = [i \in DOMAIN devices |-> i]
    BY <1>1, <2>1, Built, Wired DEF IInv, WiredUpto
  <2>3. PICK n \in Nat : n = Len(devices) /\ DOMAIN devices = 1..n
    BY <2>2 DEF TypeOK
  <2>4. /\ Len(cascades) = n /\ DOMAIN cascades = 1..n
        /\ \A d \in 1..n :
             /\ cascades[d].flags = {p \in ChildrenUpto(s, End) : p[1] = d}
             /\ cascades[d].switches =
                  {p \in ChildrenUpto(s, End) : p[1] = d /\ ConfigOf(p).kind \in {"Switch", "LightSwitch"}}
    <3>1. End[1] - 1 = n /\ End[2] = 0
      BY <2>3 DEF End
    <3>2. Len(cascades) = n /\ cascades \in Seq(Cascade)
      BY <2>2, <3>1 DEF CascadesUpto
    <3>3. DOMAIN cascades = 1..n
      BY <3>2
    <3> QED
      BY <2>2, <3>2, <3>3 DEF CascadesUpto
  <2>5. ASSUME NEW i \in 1..n, NEW j \in DOMAIN devices[i].endpoints,
               NEW id, id = mappings[i].children[j],
               NEW config, config = devices[i].endpoints[j],
               NEW place, place = <<i, j>>,
               NEW flag, flag = handlers[<<id, "Bridged">>].flag
        PROVE  /\ handlers[<<id, "Bridged">>].name = config.label
               /\ {d \in 1..n : flag \in cascades[d].flags} = {i}
               /\ \A cluster \in FunctionClusters(config.kind) :
                    /\ handlers[<<id, cluster>>].source = place
                    /\ notifiers[place] = <<id, cluster>>
                    /\ Contains(notified, <<id, cluster>>)
               /\ config.kind = "GenericSwitch" => buttonIds[place] = id /\ Contains(sources, place)
               /\ config.kind \in {"Switch", "LightSwitch"} =>
                    {d \in 1..n : place \in cascades[d].switches} = {i}
    <3>1. /\ j \in 1..Len(s[i].endpoints) /\ j \in 0..Len(s[i].endpoints) /\ j > 0
          /\ i \in 1..Len(s)
      <4>1. PICK ds : ds = devices
        OBVIOUS
      <4>2. ds \in Seq(Device) /\ s = SchemaOf(ds)
        BY <2>1, <2>2, <4>1 DEF TypeOK, Schema, SchemaOf
      <4>3. Len(s[i].endpoints) = Len(ds[i].endpoints) /\ DOMAIN ds[i].endpoints = 1..Len(ds[i].endpoints)
        BY <2>3, <4>1, <4>2, SchemaIs
      <4>4. Len(s[i].endpoints) \in Nat
        BY <2>2, <2>3 DEF Listed
      <4> QED
        BY <2>2, <2>3, <2>5, <4>1, <4>3, <4>4
    <3>2. id = IdOf(s, place)
      <4>1. End[1] - 1 = n
        BY <2>3 DEF End
      <4>2. Holds(mappings[i], s, i, Len(s[i].endpoints))
        BY <2>2, <4>1 DEF MappedUpto
      <4> QED
        BY <2>5, <3>1, <4>2 DEF Holds
    <3>3. place \in Places(s) /\ place[1] = i /\ place[2] > 0 /\ place \in ChildrenUpto(s, End)
      <4>1. place \in Places(s)
        BY <2>2, <2>5, <3>1, PlacesAre
      <4> QED
        BY <2>2, <2>5, <3>1, <4>1 DEF ChildrenUpto
    <3>4. PICK kind, label : kind = config.kind /\ label = config.label
      OBVIOUS
    <3>5. config = ConfigOf(place)
      BY <2>5 DEF ConfigOf
    <3>6. kind \in Kinds /\ place # None /\ config = EndpointConfig(kind, label, place)
      BY <2>1, <2>2, <3>3, <3>4, <3>5, ChildAt
    <3>7. PICK g : g = ChildEntries(id, config, place)
      OBVIOUS
    <3>8. \A c \in {"Bridged"} \cup FunctionClusters(kind) : handlers[<<id, c>>] = g[<<id, c>>]
      <4>1. EntriesOf(s, place) = g
        BY <3>2, <3>3, <3>5, <3>7 DEF EntriesOf
      <4>2. DOMAIN g = {id} \X ChildEndpoint(kind).clusters
        BY <3>6, <3>7, ChildEntriesDomain
      <4>3. \A key \in DOMAIN g : handlers[key] = g[key]
        BY <2>2, <3>3, <4>1 DEF HandledUpto
      <4>4. {"Bridged"} \cup FunctionClusters(kind) \subseteq ChildEndpoint(kind).clusters
        BY EndpointClusters
      <4> QED
        BY <4>2, <4>3, <4>4
    <3>9. g[<<id, "Bridged">>].name = label /\ g[<<id, "Bridged">>].flag = place
      <4>1. ChildEntries(id, config, place)[<<id, "Bridged">>].name = label
        BY <3>6, ChildLabelIs
      <4>2. ChildEntries(id, config, place)[<<id, "Bridged">>].flag = place
        BY <3>6, ChildLabelIs
      <4> QED
        BY <3>7, <4>1, <4>2
    <3>10. ASSUME NEW c \in FunctionClusters(kind) PROVE g[<<id, c>>].source = place
      <4>1. ChildEntries(id, config, place)[<<id, c>>] = Entry(c, place)
        BY <3>6, ChildFunctionIs
      <4> QED
        BY <3>7, <4>1 DEF Entry
    <3>11. handlers[<<id, "Bridged">>].name = config.label /\ flag = place
      BY <2>5, <3>4, <3>8, <3>9
    <3>12. {d \in 1..n : flag \in cascades[d].flags} = {i}
      BY <2>4, <3>3, <3>11
    <3>13. ASSUME NEW c \in FunctionClusters(config.kind)
           PROVE  /\ handlers[<<id, c>>].source = place
                  /\ notifiers[place] = <<id, c>>
                  /\ Contains(notified, <<id, c>>)
      <4>1. c \in FunctionClusters(kind)
        BY <3>4
      <4>2. handlers[<<id, c>>].source = place
        BY <3>8, <3>10, <4>1
      <4>3. PICK pair, t : pair = <<id, c>> /\ t = notified
        OBVIOUS
      <4>4. pair \in PairsOf(s, place)
        BY <3>2, <3>4, <3>5, <4>1, <4>3 DEF PairsOf
      <4>5. notifiers[place] = pair /\ \E m \in DOMAIN t : t[m] = pair
        BY <2>2, <3>3, <4>3, <4>4 DEF NotifiedUpto
      <4>6. DOMAIN t = 1..Len(t)
        BY <2>2, <4>3 DEF NotifiedUpto
      <4>7. Contains(t, pair)
        BY <4>5, <4>6 DEF Contains
      <4> QED
        BY <4>2, <4>3, <4>5, <4>7
    <3>14. ASSUME config.kind = "GenericSwitch" PROVE buttonIds[place] = id /\ Contains(sources, place)
      <4>1. PICK t : t = sources
        OBVIOUS
      <4>2. buttonIds[place] = id /\ \E m \in DOMAIN t : t[m] = place
        BY <2>2, <3>2, <3>3, <3>5, <3>14, <4>1 DEF ButtonsUpto
      <4>3. DOMAIN t = 1..Len(t)
        BY <2>2, <4>1 DEF ButtonsUpto
      <4>4. Contains(t, place)
        BY <4>2, <4>3 DEF Contains
      <4> QED
        BY <4>1, <4>2, <4>4
    <3>15. ASSUME config.kind \in {"Switch", "LightSwitch"}
           PROVE  {d \in 1..n : place \in cascades[d].switches} = {i}
      BY <2>4, <3>3, <3>5, <3>15
    <3> QED
      BY <3>11, <3>12, <3>13, <3>14, <3>15
  <2>6. \A a, b \in DOMAIN notified : notified[a] = notified[b] => a = b
    BY <2>2 DEF NotifiedUpto
  <2> QED
    BY <2>2, <2>3, <2>5, <2>6 DEF WiredToItsEndpoint
<1> QED
  BY <1>1, Invariance, PTL
=============================================================================
