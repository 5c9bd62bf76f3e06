# Verification of the Virtual Matter Bridge

TLA+ models of `virtual_matter_bridge`, a Rust program that presents virtual
devices (switches, outlets, contact, occupancy, temperature and humidity
sensors, remote buttons) as one Matter bridge. Inputs come from MQTT, from a
simulation and, in the future, from a camera; controllers talk to the bridge
through `rs-matter`. Paths below are relative to the repository; `stack.rs`
means `src/matter/stack.rs` and so on.

`PROJECT.json` lists the components, the runs, the line of code behind every
definition, the hazards and the theorems. To repeat a result:

    tlc -workers 2 -config OnOffBridge.cfg MCOnOffBridge
    tlapm OnOffBridgeProofs.tla

## 1. The system

Three kinds of threads share memory:

- the **Matter thread** (`matter-stack`, started by `main.rs`) runs
  `run_matter_stack`: one `block_on` over the responder, the data model, the
  transport, mDNS, the persist future, `sensor_forward` and the shutdown future.
  Everything here is polled by one thread, and the handlers are synchronous:
  two requests never interleave, and `sensor_forward`'s loop is never
  interrupted by a request;
- the **tokio runtime**: `main`, the MQTT integration task with the event loop
  it spawns, the sensor simulation;
- an **auto-commission thread**, when a server is configured.

They interact through atomics (values, versions, flags), one `Signal` for all
notifications, a mutex per button queue, and files.

| Component | State | Operations | Why it is hard | Correct when |
|---|---|---|---|---|
| On/Off controls (`controls/switch.rs`, `controls/device_switch.rs`, `handler_bridge.rs`, `handler.rs`, the On/Off part of `DynamicHandler`) | master, one state per device, state and reachable flag per child | On, Off, Toggle, attribute writes; cascade of a device and of the master; hardware changes | hardware threads change children in the middle of a cascade; cascades skip what has not changed | flags follow devices, a master Off reaches everything, order "switches off, then unreachable", no change hidden from subscribers |
| Notification path (`notifier.rs`, `sensor_forward`) | one signal, subscriptions' changed attributes | notify, take, mark, report | many notifiers, one slot; values are read when the report is sent | a changed value is always still on its way, and arrives |
| Measured values (`temperature_measurement.rs`, `relative_humidity.rs`, `handle_*_read` of `stack.rs`) | value, version, handler's last version, `Dataver` | update in three stores; read; report | reads fall between the stores; reads filtered by data version | a filter never hides a change |
| Buttons (`generic_switch.rs`, `AggregatedEventSource`) | position, event number, queue of each button | press, release, double press; wiring; collection | events recorded before the wiring and during a collection; bounded lists | order, no duplicates, losses only when crowded, nothing stuck, a release agrees with its press |
| Persistence and schema check (`stack.rs`) | `matter.bin`, `schema.hash`, fabrics in memory | check, reset, load, store | crash between any two disk accesses; failing accesses; restarts with other devices | stale fabrics never served, valid ones never thrown away |
| Instance lock (`instance_lock.rs`) | socket file, listeners | acquire, drop | processes race, or die and leave files | one instance; nobody who can remove its file is locked out by a dead one |
| Lifecycle (`main.rs`, `signal_shutdown`) | running threads, shutdown signal | start, ctrl-c, shutdown | signal before initialisation, wait of at most 5 s | ctrl-c ends the process, whatever the Matter thread is doing |
| MQTT link (`client.rs`, `integration.rs`) | connection, subscriptions, two bounded channels | connect, subscribe, forward, reconnect, shut down | lost connections, channel back pressure, timeout, presses published twice | no message dropped or counted twice, the two tasks never wait for each other |
| Camera input and clusters (`input/camera`, `camera_av_stream_mgmt.rs`, `webrtc_transport_provider.rs`) | sessions, bridges, allocated streams, encoders | offer, answer, end, allocate, deallocate | sessions are set up over several awaits; limits; id reuse | a request under way keeps its stream and session, an ended one gives its encoder back, every call returns. Not wired to the node at this commit |
| Node construction and wiring (`virtual_device.rs`, `endpoints_helpers.rs`, `build_node`, the wiring loop and the read and invoke functions of `stack.rs`) | described devices, endpoint tree, handler table, notifiers, cascades | describe, hash, build, wire, route | eight kinds of endpoint, each with branches of its own in four places; optional fields | the tree follows from the hashed schema; every declared attribute and command is answered; every endpoint has its own source, notifier and switch |
| Commissioning and pairing code (`commissioning.rs`, `dev-commission.rs`) | the thread's cleanup, the controller's nodes, requests and answers | list, remove, commission, encode; the tool's commands | answers late, lost or out of order; time limits; processes that end in between; bit fields and a check digit | the cleanup removes what it says and nothing else; the code tells the configured pair; the attempt ends |
| Configuration, network interfaces, logging, stubs | none worth a model | | | |

## 2. Modules

| Module | Models | Checked by | Proved in |
|---|---|---|---|
| `LiveView` | abstract: what a subscriber is promised | as a refinement target | – |
| `NotifyChannel` | notification path; library of actions | within the next two | within the next two |
| `OnOffBridge` | On/Off controls over `NotifyChannel` | `MCOnOffBridge` | `OnOffBridgeProofs` |
| `SensorReporting` | measured values over `NotifyChannel` | `MCSensorReporting` | `SensorReportingProofs` |
| `ButtonEvents` | buttons, wiring, collection of events | `MCButtonEvents` | `ButtonEventsProofs` |
| `SchemaPersistence` | files and restarts | `MCSchemaPersistence` | `RestartProofs` |
| `InstanceLock` | the lock | `MCInstanceLock` | `RestartProofs` |
| `MqttLink` | both MQTT tasks and their channels, the broker | within the next | within the next |
| `Lifecycle` | main, the Matter thread and the shutdown signal around `MqttLink` | `MCLifecycle` | `LifecycleProofs` |
| `CameraSessions` | camera input, its bridge and its two clusters | `MCCameraSessions` | `CameraSessionsProofs` |
| `PairingCode` | the manual pairing code, its check digit, and how a controller reads it | within the next | within the next |
| `Commissioning` | the commissioning thread, dev-commission and the controller, over `PairingCode` | `MCCommissioning` | `CommissioningProofs` |
| `NodeBuild` | from the described devices to the served node | `MCNodeBuild` | `NodeBuildProofs` |

### NotifyChannel and LiveView

`Notify` is `ClusterNotifier::notify`; the `Signal` is a Boolean, since raising
it twice leaves one value. `TakeSignal` and `MarkChanged` are the `wait` and the
loop of `sensor_forward`. Every registered endpoint is marked on every signal,
whichever raised it. `Report` is external: `rs-matter` sends a marked attribute
with the value the handler reads then, not filtered by data version.
`LiveView` has a value and a shown value per cell, an arbitrary `Change`, and a
fair `Refresh` that copies the present value; it is the abstract specification
of both `OnOffBridge` and `SensorReporting`.

### OnOffBridge

`master`, `device`, `state` and `reach` are the helper of endpoint 1, the helper
of each parent, the `SimulatedHandler`s of the children and their reachable
flags. A call on the Matter thread is a small call stack: `serving` names the
request, `devLeft`, `swLeft` and `rcLeft` are what the loops of `cascade_off`
and of `set_with_cascade` have not visited, `target` and `val` are the frame of
a `SwitchBridge::set`, whose command and notification are two steps (`Store`,
`NotifyStored`). The loops visit sets: the order within one loop is left open.
`HwChange` and `HwPush` are the swap and the pusher call of `SimulatedHandler`,
taken by another thread. `Toggle` reads the state in the step that receives it
and stores in a later one, as the code does.

### SensorReporting

`StoreValue`, `BumpVersion`, `NotifyChange` are the three statements of an
update. `BeginReport` and `BeginFilteredRead` are the start of a read: the
`sync_dataver` of the two handlers that have one (`Synced`), the comparison of
`with_dataver`, and `LoadValue` the load that follows. The other clusters answer
with a `Dataver` nobody advances. Values are a small set; the data version is
counted from its random start and does not wrap.

### ButtonEvents

A button call is three steps, as in the code: the position (`Move`), the
endpoint id (`Address`), and the number, push and notification (`Record`). Only
one MQTT task calls, so taking the number and pushing are one step: nothing
reads the number in between. `WireEndpoint` and `WireNotifier` are the loop of
`run_matter_stack` over the buttons. `TakeSource` takes one button's queue under
its lock, and drops what does not fit into the report's list; `Deliver` ends
the collection. `asked` counts the calls for the bound; `delivered` and the
`loud` flag of an event are history.

### SchemaPersistence

The disk is `bin`, `stored` and `hash`; the rest is the process, lost with
`Stop` at any point. Creating a file and writing it are two steps. Every access
may fail where the code logs the failure and goes on; `disturbed` remembers
that, and that a start was forced to reset. A fabric is the schema it was
commissioned under. A hash collision is not modelled.

### InstanceLock

Each system call of `acquire` and `Drop` is a step of one process; `bind` and
`listen` are two, as they are for the kernel. A connection to a bound socket
that does not listen yet is refused and the file taken for stale. The processes
may be of several users, who share `/tmp` when `XDG_RUNTIME_DIR` is not set
(`instance_lock.rs:79`): `Access` says who may connect to whose socket and remove
it. Any `remove_file` may fail, and `acquire` and `Drop` go on as if it had not
(`RemoveFile`). `overlap` remembers that two processes were in `acquire` at once,
`unremoved` whose last removal in `acquire` failed; both are history. Its names differ from
those of `SchemaPersistence` (`stage`, `lockVars`, `LockNext`), so that one
module can hold the proofs about what one process leaves to the next.

### MqttLink and Lifecycle

`loop` is where `MqttClient::run` is: in `poll`, waiting to send a message to
the task, or asleep after an error; `Receive`, `Forward` and `ForwardFails` are
the three parts of its Publish arm. `task` is where `MqttIntegration::run` is.
`requests` is the channel of 100 inside `AsyncClient`, `messages` the channel of
64. The broker, the network and `rumqttc`'s `poll` are external: a lost
connection loses the subscriptions (clean sessions), some of what is on the
wire, and either keeps or loses the requests that wait. A press is published
on both topics of its device. `AbortLoop` is a step after `TimeOut`: the loop
may still connect in between. An aborted task leaves its loop running until the
loop's next message finds the channel closed. The pause of 100 ms, the
keep-alive and the arms that cannot be reached while the loop lives
(`Ok(Err(_))`, the end of the `while let`) are left out.

`Lifecycle` adds `main` and the Matter thread. `shutdown` is the `Signal` behind
`SHUTDOWN_SIGNAL`: `unset` before `get_or_init`, when `SignalShutdown` does
nothing, then `idle` or `raised`. The thread is `starting` up to that point,
`wiring` up to `select4`, `serving` in it, `storing` within a store, or
`ended`. What it does in the first two is in `SchemaPersistence`, `NodeBuild`
and `ButtonEvents`.

### CameraSessions

A request is a sequence of steps, one per lock it takes: `TakeEncoder`,
`Solicit`, `ReadBridge`, `CreatePeer`, `StartPeer`, and for its end
`EndOwnSession`, `GiveBackEncoder`. Commands of controllers are one step each:
their handlers hold the cluster's lock for the whole command. Streams and
sessions carry the number they were counted with; the code sees `IdOf`, the
number modulo 2^16, and finds, replaces and removes by that. `reading` is the
read guard of the block in which `shutdown` collects the ids. `freed` and
`closed` are history: the requests whose stream or session a controller named.

### PairingCode and Commissioning

`PairingCodeOf` follows `generate_pairing_code`: three chunks of decimal digits
and the digit of `verhoeff_checksum`, with its three tables. `ReadCode`,
`ValidCode` and `Mistaken` are the other side, written after the Matter
specification and not after the code: what a controller reads, when it accepts,
and the slips the digit is there for. A table is a function because a proof
about a module cannot reach a `RECURSIVE` operator; the sums are recursive
functions for the same reason.

`Commissioning` is the thread message by message. `step` is where
`auto_commission` is: `cleanup`, `listing`, `choosing` and `removing` are
`remove_bridge_nodes`, `settle` the pause before the code is sent,
`commissioning` the wait for the answer, `manual` the printed code, `done` and
`none` no thread. Its locals are `listed`, `left`, `removed`, `kept` and the
node asked for, `target`. `listed` is the whole list of the controller, each
node with what its entry has where the code looks for the vendor id (`Vendors`);
`BridgeNodes` are those whose entry has the bridge's own. An entry of a bridge
node may have nothing there, and is then passed over without a word, as in
`commissioning.rs:149-162`; which entries tell is the controller's choice at every
answer (`tells`). The thread passes over answers with another message
id (`AnswersRemoval`), and a wait that ends after 30 s goes on to the next node
over the same connection. The controller is external: it answers in any order,
refuses as it likes, closes connections, and may still serve what was asked
over a closed one (at most `MaxGone` of these). It never gives a node number
twice. A process ends at any point and its connections with it; `Boot` may find
any state of the disk, `SchemaPersistence` says which. `dev-commission` shares
the controller with the thread.

### NodeBuild

`NewDevice`, `WithEndpoint`, `WithDeviceInfo` are the builder calls of `main`;
`EndpointConfig` the eight constructors, with the optional field each fills.
Both loops go child by child: `BuildParent`, `BuildChild` and `BuildParts` are
the turns of `build_node`'s loop, `WireParent`, `WireChild` and `WireNext` those
of the wiring loop, and `device` and `child` say whose turn it is. `Matches` is
the `DynamicPartsMatcher`. A place `<<i, j>>` is endpoint `j` of device `i`, 0
being its parent; sources and reachable flags go by their places, so that a
crossed wire shows. The wrap of the 16-bit ids, past 65532 endpoints, is left out. `Route` is the handler chain, `Attributes` and `Commands` what each `CLUSTER` declares, and
`Readable` and `Invocable` what each read or invoke has a case for, taken from
different places of the code and compared by `EveryRequestServed`. `Schema` is
what `compute_schema_hash` hashes; `NodeOf` computes the node from that alone,
`IdOf` the id of a place by counting the places before it.

## 3. Runs

| Run | Instance | Shows |
|---|---|---|
| `onoff` | two devices; one has a plain and a hardware-driven switch, the other a sensor | types, `ReachableFollowsDevice`, `NoLostNotification`, `MasterOffReachesAll`, `OffBeforeUnreachable`, refinement of `LiveView` with its liveness |
| `onoff_children_off` | same | finding 1 |
| `sensors` | a temperature and a contact cell, two values, two updates each | types, `SyncedFilterSafe`, `NoLostUpdate`, refinement of `LiveView` |
| `buttons` | two buttons, lists of two, three events | types, `InOrderOnce`, `ReleaseMatchesPress`, `NoStuckEvent`, `LostOnlyWhenCrowded`, `NotifiedIsCollected` |
| `persistence` | three schemas | types, `FabricsMatchSchema`, `StoredIsServed`, `ResetsOnlyStale` |
| `persistence_reconnect` | same | finding 2 |
| `lock` | three processes of two users, the two of one user symmetric | types, `SoleUnlessOverlap`, `RefusedOnlyIfHeld` |
| `lock_race` | same | finding 3 |
| `commissioning` | two configurations, 32 pairs, two nodes at first of which one is foreign, one more, any subset of the bridge's entries telling its vendor | types, `CodeTellsDevice`, `CleanupExact`, `AttemptEnds` |
| `lifecycle` | one device, room for its three requests and one message, two things to say | types, `AllAccountedFor`, `PressedOnceInOrder`, `GetAfterSubscribe`, `ReceivedIsHandled`, `CtrlCEnds` |
| `camera` | two requests, two ids, two encoders, two commands | types with the encoder limit, `UniqueStreams`, `StreamLedger`, `CallsReturn` |
| `startup` | every list of up to two devices and two endpoints, of all eight kinds, two symmetric labels | `TreeExact`, `EveryRequestServed`, `WiredToItsEndpoint` |

**Bounds.** `OnOffBridge`, `SchemaPersistence` and `InstanceLock` have no bound
on behaviours, only small sets: two devices let a cascade be between them, a
device with two switches lets it be between them, and the sensor shows the
flags of a child without switch; three schemas let the hash, the fabrics and
the start all differ; three processes let one die and two race for what it left, and the second user's
socket is one the others can neither connect to nor remove.
`MaxVersion = 2` lets an update fall into the read of the one before.
`Cap = 2` (`MAX_PENDING_EVENTS` of `rs-matter`) and `MaxEvents = 3` overflow a
queue and a report. `MsgCap = 1` with two presses, four messages, keeps the
message channel full; `ReqCap = 3` is the least that `RequestsFit` allows (100
for 3 in the code), the mutant shows what happens with less. `MaxSent` bounds
messages, not attempts to connect: those and their losses are unbounded.
`IdSpace = 2` with up to four streams and sessions makes ids come round while
the older stream or session lives; `MaxEncoders = 2` makes requests be refused.
In `commissioning` the list holds a foreign node, one of the bridge's, and one
that was commissioned meanwhile, so that a cleanup removes two nodes in a row
and the late answer to the first can meet the wait for the second; starts,
connections and commands are unbounded, nodes are numbered up to `MaxNodes = 3`,
and one request of a closed connection is still served (`MaxGone = 1`). The
pairs are the documented one, another, and all combinations of the
discriminators and passcodes at which a field or chunk begins or ends; the
payload is linear in each field, so that a wrong shift, mask or width shows at
these. In `startup` two devices and two endpoints are enough for every pair of
kinds in one device and in two, in either order, and for a device without
endpoints before or after: numbering, parts lists and wiring of a device depend
on the devices before it only by their count of endpoints; `NodeBuildProofs` is
about lists of any length.

**Fairness.** Weak fairness for what a thread has begun: a call that is being
served, a push, an update, a collection, the wiring. Strong fairness for
`sensor_forward` and for the report of each attribute, because other requests
disable them for a moment again and again, and the executor polls every ready
future in turn, so that a request that keeps coming cannot starve them. No
fairness for requests, hardware, measurements, button presses, starts or
crashes: nothing has to happen. In `lifecycle`, `TakeShutdown` is
strongly fair because stores disable it for a moment and `select4` polls every
ready future in turn; the broker, the devices and ctrl-c are not fair, and
`main`'s wait ends with the thread or with its time limit. In `commissioning`
the waits of the thread end (an answer, a closed connection or a time limit);
`connect_async` has no limit, so the two steps that connect are not fair, and
the controller never is. In `camera` it is
enough that, while some call can go on, one does. Deadlock checking is off
where the system may stop: `buttons`, when its bounded events are spent;
`lifecycle`, when the process has ended; `camera`, when all calls have returned;
`startup`, when the node is served.

**Mutants.** Every property of every passing run has a mutant: an operator in
the module, marked `Mutant:`, that stands for a plausible mistake in the code
and makes the property fail in the same run.

## 4. Proofs

Each theorem holds for every value of the constants under the named assumptions
of its module (for instance disjoint switches and sensors with a parent each,
room for the requests of one run, a finite set of requests). The safety theorems
follow one line: an inductive invariant `IInv`, initial and kept by each action.
Every invariant and every action property that a run checks is the property of
one of these theorems.

- `OnOffBridgeProofs`: `IInv` adds to the properties where the call stands.
  `CallFrame`: the frame of a `set` exists exactly while one is under way.
  `LoopValue`: what the reachable loop stores is the state of the device of the
  children it has left. `OffSoFar`: while it has flags to clear, the switches of
  that device are off, being stored, or not visited yet. `DevicesOffSoFar`: in a
  master Off every device not in `devLeft` is off. Without `LoopValue` the
  property `ReachableFollowsDevice` is not inductive: a loop could store any
  value. Theorems: `TypeCorrect`, `ReachableCorrect`, `NotificationCorrect`,
  `MasterOffCorrect`, `OffBeforeUnreachableCorrect`, `ImplementsLiveView`.
- `SensorReportingProofs`: `NothingAhead` (handler and controller never have a
  version the sensor or handler has not had) and `UpdateWithinBound`. Theorems:
  `TypeCorrect`, `FilterCorrect`, `UpdateCorrect`, `ImplementsLiveView`.
- `ButtonEventsProofs`: `Ordered`, each of the reported, the taken and the
  pending events ascending in their numbers and before the next; `Asked`, which
  bounds the numbers by the calls made; `PositionTells`, the link between the
  atomic position and the queue: the position says whether the last numbered
  event of a button, if it was kept, was a press, and between `Move` and
  `Record` a release carries what the position said before. Without it
  `ReleaseMatchesPress` is not inductive, since the payload is fixed two steps
  before the event has its number. `LostOnlyWhenCrowded` compares two states and
  counts over all queues: `EventsSplit` says which events a button has,
  `PlacesCounted` that a queue has no more than all pending together, and one
  lemma per action that can lose an event (`RecordLoses`, `TakeSourceLoses`,
  `DeliverLoses`) what it finds when it does. Theorems: `TypeCorrect`,
  `OrderCorrect`, `ReleaseCorrect`, `StuckCorrect`, `LostCorrect`.
- `RestartProofs`, about `InstanceLock` and `SchemaPersistence`, which leave a
  socket and files to the next process. `OnlyHoldersListen` and `AcquireAlone`:
  what an `acquire` nobody overlaps may rely on between two system calls.
  Theorems: `LockTypeCorrect`, `SoleCorrect`, `RefusalCorrect`, for any number of
  processes and users, whichever removals fail: the file in the way of a refused
  process is a living one's, or the process failed to remove it.
  `HashTellsSchema`, what one start leaves to the next: the stored hash is the
  schema of the fabrics on disk, and from the end of the check the process's own. Theorems: `TypeCorrect`, `FabricsCorrect`, `StoredCorrect`,
  `ResetsCorrect`.
- `LifecycleProofs`, about `MqttLink` and `Lifecycle`: `Room` (requests in the
  channel and to be made fit into it), `OneLink` (nothing is asked before the
  first connection), `AskedInOrder` (no get before its two subscriptions, in the
  channel and the requests to be made taken as one sequence) and `SaidInOrder`
  (presses, messages read and messages on the wire are in the order they were
  said). Theorems: `TypeCorrect`, `MessagesAccountedFor`, `PressesCorrect`,
  `AnswersReceived`, and `GridlockFree`, the safety half of `ReceivedIsHandled`:
  loop and task never both wait for room.
- `CommissioningProofs`: `ServerInv` (what is asked, answered and open, and that
  nothing foreign is asked over the cleanup's connection; in a list, `Lists`, no
  foreign entry has the bridge's vendor id), `ThreadInv` (the locals of the
  cleanup, and that the listed nodes whose entry tells the bridge's vendor are
  those left, asked for, removed and kept), `RemovedGone`: node numbers are not reused, so that a node
  once removed stays away whoever commissions next. Theorems: `TypeCorrect`,
  `CleanupCorrect`. `CodeCorrect` is about the code itself, for every 12-bit
  discriminator and 27-bit passcode. Sums and digit sequences are recursive
  functions; `Recursion` gives their equation, and what holds for every length is
  proved by `LeastNumber` (from the library's `WFMin`): there is no least length
  for which it fails. `DIsGroup` shows that the table `D` of the code is a
  group's, so that adding a digit is one to one, and `Swapped` that two different
  neighbours sum to something else when they change places. So two sums that differ at one place stay apart from
  there on (`SumsStayApart`) and a slip shows (`OneDigitShows`, `SwapShows`); the
  chunks are put together and read back by `DigitsReadBack` and `PairReadBack`.
- `NodeBuildProofs`: `IInv` says that every table is the one of the places that
  have had their turn (`NodeUpto`, `MappedUpto`, `HandledUpto`, `NotifiedUpto`,
  `ButtonsUpto`, `CascadesUpto`), each defined from the list alone. A step adds
  the entries of one place, and they replace none: `IdsGrow` and `IdsDiffer` say
  that ids ascend from place to place, so that two places never share one, nor
  a handler, a notifier or an event source; `NextId` and `NextDeviceId` that the
  counter of the loop is the count of the places before. At the end the tables
  are those of all places, which is what the three properties speak of. Theorems,
  for lists of any length: `TreeCorrect`, `ServedCorrect`, `WiredCorrect`.
- `CameraSessionsProofs`: `StreamsInv`, `RequestsInv` and `SessionsInv` (numbers
  ascend, and no two requests have one), `StreamBooks` and `SessionBooks` (what
  a request holds from the step that takes it to the step that gives it back),
  `CountInv` (every number was asked for by a command or one request). The
  argument about ids: two numbers with one id are `IdSpace` apart (`ModApart`),
  so that a command which names an id takes another request's stream only after
  the counter came round. Theorems: `TypeCorrect`, `UniqueCorrect`,
  `LedgerCorrect`.

`ImplementsLiveView` is the safety half of the refinement `RefinesLiveView`:
initial states and steps. **Only model-checked:** its liveness half and the other
liveness properties (`NotifiedIsCollected`, `ReceivedIsHandled`, `CtrlCEnds`,
`AttemptEnds`, `CallsReturn`), since fairness and `ENABLED` are beyond the prover.
The library's induction theorems take the fact to be proved as an operator,
which the provers cannot instantiate; where a proof needs induction over the
length of a code it uses the least number instead.

## 5. Findings

1. `onoff_children_off`: `device_switch.rs:21-27` promises that turning a device
   off turns its child switches off and that they can be controlled again once
   it is on. A child can be turned on while its device is off, and the next Off
   (of device or master) skips a device that is off already: the child stays on.
2. `persistence_reconnect`: a start with `DEV_AUTO_RESET` does not write the schema
   hash, so a later plain restart with the same devices can find an older hash
   and throw the commissioning away.
3. `lock_race`: of two starts that race over a stale socket, or over one that is
   bound and not yet listening, the second removes the first one's socket and
   both run.

**Observed while modelling, not run.** Where code and documents differ:

- `traits.rs:12-14` says handlers compare versions and update their `Dataver`.
  Those of boolean state, occupancy and On/Off do not (`stack.rs:536`): a read
  filtered by data version returns nothing though the value changed.
  `SyncedFilterSafe` speaks of the two clusters that keep the promise.
- `main` starts the MQTT task before the Matter thread wires the buttons: an
  early event is built with endpoint 0 (`generic_switch.rs:159`,
  `stack.rs:1440`) and raises no signal.
- `README.md:195-196` and `514-515` offer `MATTER_DISCRIMINATOR` and
  `MATTER_PASSCODE`. The code sent to the controller and printed is built from
  them; the device itself is built with `TEST_DEV_COMM` (`stack.rs:1084`,
  `1201`), so that with other values the code told is not the device's.
  `CodeTellsDevice` speaks of the configured pair.
- `README.md:588` says that fabric credentials "are stored in memory and lost on
  restart". The code stores them in `matter.bin` and loads them at the next start
  (`stack.rs:1619`, `1172`), as `README.md:597` says ("Credentials stored in
  file") and `README.md:495` relies on. `StoredIsServed` and `ResetsOnlyStale`
  state what the code does, against line 588.
- `docs/W100_MQTT_INTEGRATION.md:1573` and `generic_switch.rs:103` say that event
  numbers never reset. The generator is made anew in every
  process (`generic_switch.rs:120`) and nothing stores it: a restart numbers the events of every
  button from the start again. The models speak of one process.
- `commissioning.rs:94-97` says `remove_bridge_nodes` removes the bridge's nodes to
  clean up orphaned entries, and line 144 that it finds those "matching our vendor
  ID". The code takes the number at `attributes["0"]["40"]["1"]` and passes over a
  node that has none there, without a warning. Attribute 1 of Basic Information is
  the vendor's name, a string, and 2 its id; python-matter-server keys attributes
  by flat paths such as `"0/40/2"`. With such a list every bridge node is passed
  over. `CleanupExact` speaks of the nodes whose entry tells the vendor at that path.
- `instance_lock.rs:38` gives `AlreadyRunning` "if another instance holds the lock",
  and lines 26-28 say that the operating system removes the socket of a process
  that crashed, "preventing stale locks". It does not remove it, and a failed
  removal in `acquire` (line 54), say of another user's socket in the sticky `/tmp`,
  is ignored: `bind` finds the address in use and the start is refused though
  nobody holds the lock. `RefusedOnlyIfHeld` names this case.
- `device_types.rs:13-16` names the clusters of a video doorbell; the endpoint
  declares none of them, and the camera is not wired.

And where no document says otherwise: a `Toggle` overwrites a change of the
hardware; a store that fails is not retried; a crash during a store loses every
fabric, since `matter.bin` is written in place; a removal of `matter.bin` that
fails is followed by the new hash, which keeps the stale fabrics for good; a data version
that wraps within one interval of reads hides every update in between; an MQTT
integration that timed out, or lost its connection, gets no messages any more
(`docs/W100_MQTT_INTEGRATION.md:275` has reconnection as work to do); a shutdown
signalled before the Matter thread initialised its signal is only ended by the
limit of 5 s; the lock's listener never accepts, so a full backlog of refused
starts would make the next one wait; `end_video_stream` keeps the encoder when a
controller ended the session first, and never stops the bridge session; a
shutdown between `create_session` and `start_session` leaves that bridge session
active, since `start_session` does not look at its state; an offer may name a
stream that does not exist. The cleanup removes every node of the vendor, be it
another bridge's or one commissioned by hand a moment ago; a cleanup that failed
is not tried again; connecting has no time limit; the thread treats 120 s without an
answer as a success (`commissioning.rs:319`); `dev-commission`'s remove and
status commands wait without limit; a value in `.env` that is one quotation mark
makes `load_dotenv` panic (`config.rs:32-35`).

## 6. What the models assume of code outside the repository

`rs-matter` calls a cluster handler's hooks for On, Off and Toggle; its subscriptions
send a marked attribute unfiltered, with the value read then; a report calls
`collect_events` once; `psm.store` creates the file and then writes it;
`psm.load` fails on a file that was not written whole and leaves no fabrics.
The kernel closes the sockets of a dead process and leaves its files; who may
remove a socket may connect to it, as in a sticky `/tmp`, and connecting to a
listener one has access to succeeds. `rumqttc`
connects, sends requests and yields messages only within `poll`, opens clean
sessions, and closes the connection when the event loop is dropped;
zigbee2mqtt publishes an action within the state and on the action topic.
python-matter-server answers a request over the connection it came from, under
its message id, in any order or never; it numbers nodes upwards and commissions
only by the device's own code; an entry that has the bridge's vendor id (0xFFF1,
`config.rs:111`) where the code looks for it is a node of that vendor, while
nothing is assumed of the other entries; a closed WebSocket loses its unread answers.

## 7. Not modelled

- The older `input/mqtt/w100.rs`: `main` uses `integration.rs`, which replaces it.
- Frame forwarding with its counters, `start_streaming`, `stop_streaming` and
  `remove_session` of the camera, which nothing calls together with the rest;
  SDP texts, and ICE candidates, which the handler acknowledges and drops; the
  camera attributes a controller can write and nothing reads; snapshot streams,
  which the code refuses.
- The hooks for `StartUpOnOff`: the clusters do not expose the attribute, and
  nothing reads the stored value at start-up. The version counters of the
  On/Off bridges, which nothing reads.
- Values of plain attributes (labels, serial numbers, time zones, the clock
  behind time synchronisation): constants or the operating system's. The
  conversion of degrees and percent to hundredths. Hash collisions.
- Sensor and control helpers, `BooleanStateHandler` and
  `OccupancySensingHandler`: no endpoint of `run_matter_stack` uses them.
- Parsing of `.env` and the environment (sequential and total but for the case
  above), the filter over network interfaces, UDP logging, error types, stubs
  and `src/bin/mqtt-test.rs`: pure input and output, or no state.
