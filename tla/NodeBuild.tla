------------------------------ MODULE NodeBuild ------------------------------
(***************************************************************************)
(* From the list of virtual devices in main to the node a controller sees: *)
(* the devices are described, build_node numbers their endpoints, and      *)
(* run_matter_stack wires every endpoint to a handler, a notifier and the  *)
(* switch of its device, before the first request is served.               *)
(*                                                                         *)
(* A place is a pair: the number of a device and that of one of its        *)
(* endpoints, or 0 for the device's own, its parent endpoint.  A source is *)
(* what an endpoint is built around: the handler, sensor or button state   *)
(* main passes in; it goes by the place of the endpoint, and so does the   *)
(* flag that says the endpoint is reachable.                               *)
(* Clusters, handler entries and device types go by their names.  Endpoint *)
(* 0's clusters, but for time synchronisation, are rs-matter's own.        *)
(***************************************************************************)
EXTENDS Naturals, FiniteSets, SequencesExt

CONSTANTS
  Labels,        \* the labels of devices and endpoints
  MaxDevices,    \* bound: the devices in the list
  MaxEndpoints   \* bound: their endpoints, together

ASSUME BoundAssumption == MaxDevices \in Nat /\ MaxEndpoints \in Nat

VARIABLES
  phase,      \* "describe", "build", "wire", "serve"
  devices,    \* the virtual devices
  described,  \* how many endpoints they have together
  \* ---- the loops of build_node and run_matter_stack ----
  device,     \* the device whose turn it is
  child,      \* its next child; 0: its parent endpoint
  \* ---- build_node ----
  nextId,     \* the next endpoint id
  ids,        \* the ids of this turn: of the parent and of the children so far
  node,       \* by endpoint id: its device types and clusters
  parts,      \* DynamicPartsMatcher: <<parent, children>>, in order
  mappings,   \* by device: the ids of its parent endpoint and of its children
  \* ---- run_matter_stack ----
  handlers,   \* DynamicHandler: by endpoint and cluster, the entry
  notified,   \* notification_endpoints
  notifiers,  \* by source: the endpoint and cluster of its notifier
  buttonIds,  \* by button state: its endpoint id
  sources,    \* the event sources
  cascades,   \* by device: what its DeviceSwitch turns off and makes unreachable
  targets     \* the devices virtual_bridge_onoff cascades to

deviceVars == <<devices, described>>
turnVars   == <<device, child>>
builtVars  == <<nextId, ids, node, parts, mappings>>
wiredVars  == <<handlers, notified, notifiers, buttonIds, sources, cascades>>
vars == <<phase, deviceVars, turnVars, builtVars, wiredVars, targets>>

None == <<0, 0>>

Kinds == {"ContactSensor", "OccupancySensor", "Switch", "LightSwitch", "VideoDoorbellCamera",
          "TemperatureSensor", "HumiditySensor", "GenericSwitch"}

At(key, value) == [k \in {key} |-> value]

\* A table with new entries; they replace those it has under the same key.
Insert(table, entries) ==
  [key \in DOMAIN table \cup DOMAIN entries |->
     IF key \in DOMAIN entries THEN entries[key] ELSE table[key]]

Init ==
  /\ phase = "describe"
  /\ devices = <<>> /\ described = 0
  /\ device = 1 /\ child = 0
  /\ nextId = 3 /\ ids = [parent |-> 0, children |-> <<>>]
  /\ node = <<>> /\ parts = <<>> /\ mappings = <<>>
  /\ handlers = <<>> /\ notified = <<>> /\ notifiers = <<>>
  /\ buttonIds = <<>> /\ sources = <<>>
  /\ cascades = <<>> /\ targets = <<>>
-----------------------------------------------------------------------------
(* Describing the devices. *)

\* Mutant: the constructor of humidity sensors forgets the sensor.
ConfigWithoutHumidity(kind, label, source) ==
  [kind |-> kind, label |-> label,
   handler     |-> IF kind \in {"TemperatureSensor", "HumiditySensor", "GenericSwitch"} THEN None ELSE source,
   temperature |-> IF kind = "TemperatureSensor" THEN source ELSE None,
   humidity    |-> None,
   button      |-> IF kind = "GenericSwitch" THEN source ELSE None]

\* The constructors of EndpointConfig; DummyHandler is None.
EndpointConfig(kind, label, source) ==
  [kind |-> kind, label |-> label,
   handler     |-> IF kind \in {"TemperatureSensor", "HumiditySensor", "GenericSwitch"} THEN None ELSE source,
   temperature |-> IF kind = "TemperatureSensor" THEN source ELSE None,
   humidity    |-> IF kind = "HumiditySensor" THEN source ELSE None,
   button      |-> IF kind = "GenericSwitch" THEN source ELSE None]

NewDevice(label) ==
  /\ phase = "describe"
  /\ Len(devices) < MaxDevices
  /\ devices' = Append(devices, [label |-> label, endpoints |-> <<>>, info |-> FALSE])
  /\ UNCHANGED <<phase, described, turnVars, builtVars, wiredVars, targets>>

WithEndpoint(kind, label) ==
  /\ phase = "describe"
  /\ devices # <<>>
  /\ described < MaxEndpoints
  /\ LET i == Len(devices)
         j == Len(devices[i].endpoints) + 1
     IN  devices' = [devices EXCEPT ![i].endpoints = Append(@, EndpointConfig(kind, label, <<i, j>>))]
  /\ described' = described + 1
  /\ UNCHANGED <<phase, turnVars, builtVars, wiredVars, targets>>

WithDeviceInfo ==
  /\ phase = "describe"
  /\ devices # <<>>
  /\ devices' = [devices EXCEPT ![Len(devices)].info = TRUE]
  /\ UNCHANGED <<phase, described, turnVars, builtVars, wiredVars, targets>>

\* What compute_schema_hash hashes of the devices: equal hashes mean that this is
\* equal, leaving collisions aside.  Device information is not in it.
Schema ==
  [i \in DOMAIN devices |->
     [label |-> devices[i].label,
      endpoints |-> [j \in DOMAIN devices[i].endpoints |->
                       [kind |-> devices[i].endpoints[j].kind,
                        label |-> devices[i].endpoints[j].label]]]]
-----------------------------------------------------------------------------
(* build_node. *)

\* The clusters of a child's own function.
FunctionClusters(kind) ==
  CASE kind = "ContactSensor"                -> {"BooleanState"}
    [] kind = "OccupancySensor"              -> {"OccupancySensing"}
    [] kind \in {"Switch", "LightSwitch"}    -> {"OnOff"}
    [] kind = "VideoDoorbellCamera"          -> {}
    [] kind = "TemperatureSensor"            -> {"TemperatureMeasurement"}
    [] kind = "HumiditySensor"               -> {"RelativeHumidity"}
    [] kind = "GenericSwitch"                -> {"GenericSwitch"}

DeviceType(kind) == IF kind = "Switch" THEN "OnOffPlugInUnit" ELSE kind

Endpoint(types, clusters) == [types |-> types, clusters |-> clusters \cup {"Descriptor"}]

RootEndpoints ==
  [e \in 0..2 |-> CASE e = 0 -> Endpoint({"RootNode"}, {"TimeSync"})
                    [] e = 1 -> Endpoint({"OnOffPlugInUnit"}, {"OnOff"})
                    [] e = 2 -> Endpoint({"Aggregator"}, {})]

ParentEndpoint == Endpoint({"OnOffPlugInUnit", "BridgedNode"}, {"Bridged", "OnOff"})

ChildEndpoint(kind) == Endpoint({DeviceType(kind)}, {"Bridged"} \cup FunctionClusters(kind))

BeginBuild ==
  /\ phase = "describe"
  /\ phase' = "build"
  /\ node' = RootEndpoints
  /\ UNCHANGED <<deviceVars, turnVars, nextId, ids, parts, mappings, wiredVars, targets>>

\* The device whose turn it is.
This == devices[device]

\* Mutant: next_id is not advanced past the parent.
BuildParentOnly ==
  /\ phase = "build" /\ device \in DOMAIN devices /\ child = 0
  /\ ids' = [parent |-> nextId, children |-> <<>>]
  /\ node' = Insert(node, At(nextId, ParentEndpoint))
  /\ child' = 1
  /\ UNCHANGED <<phase, deviceVars, device, nextId, parts, mappings, wiredVars, targets>>

\* A turn of the loop over the devices: the parent takes the next id,
BuildParent ==
  /\ phase = "build" /\ device \in DOMAIN devices /\ child = 0
  /\ ids' = [parent |-> nextId, children |-> <<>>]
  /\ node' = Insert(node, At(nextId, ParentEndpoint))
  /\ nextId' = nextId + 1
  /\ child' = 1
  /\ UNCHANGED <<phase, deviceVars, device, parts, mappings, wiredVars, targets>>

\* then one child after the other,
BuildChild ==
  /\ phase = "build" /\ device \in DOMAIN devices /\ child \in DOMAIN This.endpoints
  /\ ids' = [ids EXCEPT !.children = Append(@, nextId)]
  /\ node' = Insert(node, At(nextId, ChildEndpoint(This.endpoints[child].kind)))
  /\ nextId' = nextId + 1
  /\ child' = child + 1
  /\ UNCHANGED <<phase, deviceVars, device, parts, mappings, wiredVars, targets>>

\* and the ids go to the parts matcher and to the mappings.
BuildParts ==
  /\ phase = "build" /\ device \in DOMAIN devices /\ child = Len(This.endpoints) + 1
  /\ parts' = Append(parts, <<ids.parent, ids.children>>)
  /\ mappings' = Append(mappings, ids)
  /\ device' = device + 1 /\ child' = 0
  /\ UNCHANGED <<phase, deviceVars, nextId, ids, node, wiredVars, targets>>

EndBuild ==
  /\ phase = "build" /\ device = Len(devices) + 1
  /\ phase' = "wire"
  /\ device' = 1
  /\ UNCHANGED <<deviceVars, child, builtVars, wiredVars, targets>>

\* The parts matcher: does the Descriptor of endpoint ours list endpoint e?
Matches(ours, e) ==
  \E i \in DOMAIN parts :
    IF ours = 2 THEN parts[i][1] = e
    ELSE /\ parts[i][1] = ours
         /\ \A k \in 1..(i - 1) : parts[k][1] # ours
         /\ Contains(parts[i][2], e)
-----------------------------------------------------------------------------
(* Wiring. *)

Entry(variant, source) == [variant |-> variant, source |-> source]

\* What a child is read from: the optional fields of the configuration for the
\* kinds that have one, the handler for the others.
Source(config) ==
  CASE config.kind = "TemperatureSensor" -> config.temperature
    [] config.kind = "HumiditySensor"    -> config.humidity
    [] config.kind = "GenericSwitch"     -> config.button
    [] OTHER                             -> config.handler

\* A camera is not wired, nor an endpoint whose configuration lacks its sensor.
Wirable(config) == config.kind # "VideoDoorbellCamera" /\ Source(config) # None

BridgedEntry(name, info, flag) == [variant |-> "Bridged", name |-> name, info |-> info, flag |-> flag]

\* The entries of a child: its Descriptor without parts, its label with the
\* reachable flag of its own, and the handler of its function.
ChildEntries(id, config, place) ==
  [key \in {id} \X ({"Descriptor", "Bridged"}
                      \cup IF Wirable(config) THEN FunctionClusters(config.kind) ELSE {}) |->
     CASE key[2] = "Descriptor" -> Entry("Desc", None)
       [] key[2] = "Bridged"    -> BridgedEntry(config.label, FALSE, place)
       [] OTHER                 -> Entry(key[2], Source(config))]

\* Those of a parent: its flag is always TRUE, and is no child's; its OnOff is
\* the DeviceSwitch of the device, device i.
ParentEntries(id, dev, i) ==
  [key \in {id} \X {"Descriptor", "Bridged", "OnOff"} |->
     CASE key[2] = "Descriptor" -> Entry("DescWithParts", None)
       [] key[2] = "Bridged"    -> BridgedEntry(dev.label, dev.info, None)
       [] key[2] = "OnOff"      -> Entry("DeviceOnOff", <<i, 0>>)]

\* Mutant: notifiers are made for the parent endpoint.
NotifyParent(i, j) == {mappings[i].parent} \X FunctionClusters(devices[i].endpoints[j].kind)

\* The endpoint and cluster a wired child's notifier names.
NotifyPairs(i, j) == {mappings[i].children[j]} \X FunctionClusters(devices[i].endpoints[j].kind)

\* A turn of the loop over the devices: a DeviceSwitch and the parent's entries,
WireParent ==
  /\ phase = "wire" /\ device \in DOMAIN devices /\ child = 0
  /\ cascades' = Append(cascades, [switches |-> {}, flags |-> {}])
  /\ handlers' = Insert(handlers, ParentEntries(mappings[device].parent, This, device))
  /\ child' = 1
  /\ UNCHANGED <<phase, deviceVars, device, builtVars, notified, notifiers, buttonIds, sources, targets>>

\* then one child after the other: its flag goes to the DeviceSwitch, its
\* entries to the handler, and what its kind needs is wired.
WireChild ==
  /\ phase = "wire" /\ device \in DOMAIN devices /\ child \in DOMAIN This.endpoints
  /\ LET config == This.endpoints[child]
         id     == mappings[device].children[child]
         pair   == CHOOSE p \in NotifyPairs(device, child) : TRUE
         source == Source(config)
     IN  /\ handlers' = Insert(handlers, ChildEntries(id, config, <<device, child>>))
         /\ cascades' = [cascades EXCEPT
              ![device].flags    = @ \cup {<<device, child>>},
              ![device].switches = @ \cup IF config.kind \in {"Switch", "LightSwitch"} THEN {source} ELSE {}]
         /\ IF Wirable(config)
              THEN notified' = Append(notified, pair) /\ notifiers' = Insert(notifiers, At(source, pair))
              ELSE UNCHANGED <<notified, notifiers>>
         /\ IF Wirable(config) /\ config.kind = "GenericSwitch"
              THEN buttonIds' = Insert(buttonIds, At(source, id)) /\ sources' = Append(sources, source)
              ELSE UNCHANGED <<buttonIds, sources>>
  /\ child' = child + 1
  /\ UNCHANGED <<phase, deviceVars, device, builtVars, targets>>

WireNext ==
  /\ phase = "wire" /\ device \in DOMAIN devices /\ child = Len(This.endpoints) + 1
  /\ device' = device + 1 /\ child' = 0
  /\ UNCHANGED <<phase, deviceVars, builtVars, wiredVars, targets>>

\* The master switch gets every DeviceSwitch, and the handler chain is built.
Serve ==
  /\ phase = "wire" /\ device = Len(devices) + 1
  /\ phase' = "serve"
  /\ targets' = [i \in DOMAIN devices |-> i]
  /\ UNCHANGED <<deviceVars, turnVars, builtVars, wiredVars>>

Next ==
  \/ \E label \in Labels : NewDevice(label)
  \/ \E kind \in Kinds, label \in Labels : WithEndpoint(kind, label)
  \/ WithDeviceInfo
  \/ BeginBuild \/ BuildParent \/ BuildChild \/ BuildParts \/ EndBuild
  \/ WireParent \/ WireChild \/ WireNext \/ Serve

Spec == Init /\ [][Next]_vars
-----------------------------------------------------------------------------
(* Serving. *)

\* The handler chain: the variant that answers for a cluster of an endpoint.
Route(e, cluster) ==
  CASE e = 0 -> IF cluster = "TimeSync" THEN "TimeSync" ELSE "rs-matter"
    [] e = 1 -> IF cluster = "OnOff" THEN "OnOffHandler"
                ELSE IF cluster = "Descriptor" THEN "Desc" ELSE "none"
    [] e = 2 -> IF cluster = "Descriptor" THEN "DescWithParts" ELSE "none"
    [] OTHER -> IF <<e, cluster>> \in DOMAIN handlers THEN handlers[<<e, cluster>>].variant ELSE "none"

\* The attributes that each CLUSTER declares, the global ones left out.
BooleanStateAttributes == {0}
OccupancyAttributes    == 0..2
OnOffAttributes        == {0}
TemperatureAttributes  == 0..3
HumidityAttributes     == 0..3
SwitchAttributes       == 0..2
BridgedAttributes      == {1, 3, 5, 7, 9, 15, 17}
TimeSyncAttributes     == {0, 1, 2, 6, 7}

Attributes(cluster) ==
  CASE cluster = "BooleanState"           -> BooleanStateAttributes
    [] cluster = "OccupancySensing"       -> OccupancyAttributes
    [] cluster = "OnOff"                  -> OnOffAttributes
    [] cluster = "TemperatureMeasurement" -> TemperatureAttributes
    [] cluster = "RelativeHumidity"       -> HumidityAttributes
    [] cluster = "GenericSwitch"          -> SwitchAttributes
    [] cluster = "Bridged"                -> BridgedAttributes
    [] cluster = "TimeSync"               -> TimeSyncAttributes
    [] OTHER                              -> {}

Commands(cluster) == IF cluster = "OnOff" THEN {"Off", "On", "Toggle"} ELSE {}

\* The attributes that the read of each handler has a case for.
BooleanStateReads == {0}
OccupancyReads    == {0, 1, 2}
OnOffReads        == {0}
DeviceOnOffReads  == {0}
TemperatureReads  == {0, 1, 2, 3}
HumidityReads     == {0, 1, 2, 3}
SwitchReads       == {0, 1, 2}
BridgedReads      == {1, 3, 5, 7, 9, 15, 17}
TimeSyncReads     == {0, 1, 2, 6, 7}

Readable(variant) ==
  CASE variant = "BooleanState"           -> BooleanStateReads
    [] variant = "OccupancySensing"       -> OccupancyReads
    [] variant \in {"OnOff", "OnOffHandler"} -> OnOffReads
    [] variant = "DeviceOnOff"            -> DeviceOnOffReads
    [] variant = "TemperatureMeasurement" -> TemperatureReads
    [] variant = "RelativeHumidity"       -> HumidityReads
    [] variant = "GenericSwitch"          -> SwitchReads
    [] variant = "Bridged"                -> BridgedReads
    [] variant = "TimeSync"               -> TimeSyncReads
    [] OTHER                              -> {}

\* The commands each handler's invoke has a case for.
Invocable(variant) ==
  IF variant \in {"OnOff", "DeviceOnOff", "OnOffHandler"} THEN {"Off", "On", "Toggle"} ELSE {}
-----------------------------------------------------------------------------
(* The node as its schema alone says.                                        *)

\* The endpoints of all devices.
Places(schema) == UNION {{d} \X (0..Len(schema[d].endpoints)) : d \in DOMAIN schema}

Precedes(p, q) == p[1] < q[1] \/ (p[1] = q[1] /\ p[2] < q[2])

\* The id of an endpoint: 3, and the number of endpoints before it.
IdOf(schema, p) == 3 + Cardinality({q \in Places(schema) : Precedes(q, p)})

EndpointOf(schema, p) ==
  IF p[2] = 0 THEN ParentEndpoint ELSE ChildEndpoint(schema[p[1]].endpoints[p[2]].kind)

NodeOf(schema) ==
  [e \in 0..2 + Cardinality(Places(schema)) |->
     IF e \in 0..2 THEN RootEndpoints[e]
     ELSE EndpointOf(schema, CHOOSE p \in Places(schema) : IdOf(schema, p) = e)]

\* The endpoint that lists an endpoint in its Descriptor.
ListedBy(schema, p) == IF p[2] = 0 THEN 2 ELSE IdOf(schema, <<p[1], 0>>)

\* The node depends on the hashed schema alone, so that a stored commissioning
\* of an equal hash finds the endpoints it knows: the endpoints are numbered
\* without a gap, and from 3 on each is listed by exactly one Descriptor, a
\* parent by the aggregator, a child by the parent of its device.
TreeExact ==
  phase \in {"wire", "serve"} =>
    /\ node = NodeOf(Schema)
    /\ {l \in (DOMAIN node) \X (DOMAIN node) : Matches(l[1], l[2])}
         = {<<ListedBy(Schema, p), IdOf(Schema, p)>> : p \in Places(Schema)}

\* Whatever cluster of whatever endpoint the node declares, a request for one of
\* its attributes or commands reaches a handler that has a case for it; and no
\* handler stands behind a cluster the node does not declare.
EveryRequestServed ==
  phase = "serve" =>
    /\ \A e \in DOMAIN node : \A cluster \in node[e].clusters :
         /\ Route(e, cluster) # "none"
         /\ Attributes(cluster) \subseteq Readable(Route(e, cluster))
         /\ Commands(cluster) \subseteq Invocable(Route(e, cluster))
    /\ \A key \in DOMAIN handlers : key[2] \in node[key[1]].clusters

\* The child of device i, endpoint j is read from the source main gave it and
\* shows its label; its changes are reported once, under its own endpoint; a
\* button's events name it; and the switch of its own device, and no other,
\* turns it off and makes it unreachable.
WiredToItsEndpoint ==
  phase = "serve" =>
    /\ targets = [i \in DOMAIN devices |-> i]
    /\ \A m, n \in DOMAIN notified : notified[m] = notified[n] => m = n
    /\ \A i \in DOMAIN devices : \A j \in DOMAIN devices[i].endpoints :
         LET id     == mappings[i].children[j]
             config == devices[i].endpoints[j]
             place  == <<i, j>>
             flag   == handlers[<<id, "Bridged">>].flag
         IN  /\ handlers[<<id, "Bridged">>].name = config.label
             /\ {d \in DOMAIN devices : flag \in cascades[d].flags} = {i}
             /\ \A cluster \in FunctionClusters(config.kind) :
                  /\ handlers[<<id, cluster>>].source = place
                  /\ notifiers[place] = <<id, cluster>>
                  /\ Contains(notified, <<id, cluster>>)
             /\ config.kind = "GenericSwitch" => buttonIds[place] = id /\ Contains(sources, place)
             /\ config.kind \in {"Switch", "LightSwitch"} =>
                  {d \in DOMAIN devices : place \in cascades[d].switches} = {i}
=============================================================================
