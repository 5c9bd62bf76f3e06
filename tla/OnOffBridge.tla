----------------------------- MODULE OnOffBridge -----------------------------
(***************************************************************************)
(* The On/Off side of the bridge: the master switch of endpoint 1          *)
(* (Switch), one DeviceSwitch per virtual device, and the children of each *)
(* device, whose state lives in an EndpointHandler behind a SwitchBridge   *)
(* (a switch) or a SensorBridge (a sensor).                                *)
(*                                                                         *)
(* Two kinds of thread run here.  The Matter thread serves one request,    *)
(* write or read at a time, because run_matter_stack polls all its futures *)
(* on one thread and no handler awaits; the atomics it touches are separate*)
(* steps.  Each hardware-driven child has a thread outside Matter that     *)
(* changes its state and then pushes, and its steps fall between any two   *)
(* steps of the Matter thread.                                             *)
(*                                                                         *)
(* The version counters of the bridges are left out: nothing reads them.   *)
(***************************************************************************)
EXTENDS Naturals

CONSTANTS
  Devices,         \* virtual devices: parent endpoints
  Switches,        \* children with an On/Off cluster
  Sensors,         \* children with a boolean state or occupancy cluster
  Parent,          \* the device of each child
  HardwareDriven,  \* children whose handler the hardware side changes
  NoChild          \* no SwitchBridge::set is in progress

Children == Switches \cup Sensors

ASSUME ChildrenAssumption ==
  /\ Switches \cap Sensors = {}
  /\ Parent \in [Children -> Devices]
  /\ HardwareDriven \subseteq Children
  /\ NoChild \notin Children

VARIABLES
  master,     \* Switch.helper of endpoint 1
  device,     \* DeviceSwitch.helper of each parent
  state,      \* SimulatedHandler.state of each child
  reach,      \* the reachable flag of each child
  \* ---- the Matter thread: where its current call stands ----
  pc,         \* "idle", or the next step of the call
  serving,    \* whose command is being served
  target,     \* the child of the SwitchBridge::set in progress
  val,        \* the value it sets
  devLeft,    \* cascade_off: devices not visited yet
  swLeft,     \* set_with_cascade: child switches not turned off yet
  rcLeft,     \* set_with_cascade: reachable flags not stored yet
  rcVal,      \* the value it stores in them
  \* ---- the hardware threads ----
  hw,         \* "idle", or "changed": state changed, pusher not called yet
  \* ---- the way to the subscriber ----
  sig, forwarding, dirty, shown

Channel == INSTANCE NotifyChannel WITH Registered <- Children

stateVars  == <<master, device, state, reach>>
frameVars  == <<serving, target, val>>
loopVars   == <<devLeft, swLeft, rcLeft, rcVal>>
matterVars == <<pc, serving, target, val, devLeft, swLeft, rcLeft, rcVal>>
channelVars == <<sig, forwarding, dirty, shown>>
vars == <<stateVars, matterVars, hw, channelVars>>

ChildrenOf(d) == {c \in Children : Parent[c] = d}
\* Mutant: every child of the device is put on the list of its switches.
SwitchesOfAnyKind(d) == ChildrenOf(d)
SwitchesOf(d) == {c \in Switches : Parent[c] = d}

TypeInvariant ==
  /\ master \in BOOLEAN
  /\ device \in [Devices -> BOOLEAN]
  /\ state \in [Children -> BOOLEAN]
  /\ reach \in [Children -> BOOLEAN]
  /\ pc \in {"idle", "store", "notify", "loop"}
  /\ serving \in {"none", "switch", "device", "master"}
  /\ target \in Switches \cup {NoChild}
  /\ val \in BOOLEAN
  /\ devLeft \subseteq Devices
  /\ swLeft \subseteq Switches
  /\ rcLeft \subseteq Children
  /\ rcVal \in BOOLEAN
  /\ hw \in [Children -> {"idle", "changed"}]
  /\ Channel!ChannelType(BOOLEAN)

\* Master, devices and children start On and reachable; the handlers start
\* with the state main gives them.
Init ==
  /\ master = TRUE
  /\ device = [d \in Devices |-> TRUE]
  /\ state \in [Children -> BOOLEAN]
  /\ reach = [c \in Children |-> TRUE]
  /\ pc = "idle"
  /\ serving = "none"
  /\ target = NoChild
  /\ val = FALSE
  /\ devLeft = {}
  /\ swLeft = {}
  /\ rcLeft = {}
  /\ rcVal = FALSE
  /\ hw = [c \in Children |-> "idle"]
  /\ Channel!ChannelInit(state)
-----------------------------------------------------------------------------
\* The Matter thread takes a new request only between two others, and not
\* while sensor_forward is in its loop.
Free == pc = "idle" /\ ~forwarding

\* Off, On, or a write of the OnOff attribute of a child: bridge.set(on).
CommandSwitch(c, on) ==
  /\ Free
  /\ pc' = "store"
  /\ serving' = "switch"
  /\ target' = c
  /\ val' = on
  /\ UNCHANGED <<stateVars, loopVars, hw, channelVars>>

\* Toggle of a child: the new value is computed from the state of this
\* moment and stored by the steps of bridge.set.
ToggleSwitch(c) == CommandSwitch(c, ~state[c])

\* handler.on_command(value)
Store ==
  /\ pc = "store"
  /\ state' = [state EXCEPT ![target] = val]
  /\ pc' = "notify"
  /\ UNCHANGED <<master, device, reach, frameVars, loopVars, hw, channelVars>>

\* The rest of SwitchBridge::set; it returns to the cascade that called it,
\* or, when no cascade is under way, to the end of the request.
NotifyStored ==
  /\ pc = "notify"
  /\ Channel!Notify
  /\ pc' = "loop"
  /\ target' = NoChild
  /\ val' = FALSE
  /\ UNCHANGED <<stateVars, serving, loopVars, hw>>

\* Mutant: only turning off touches the reachable flags.
SetDeviceOffOnly(d, on) ==
  /\ device' = [device EXCEPT ![d] = on]
  /\ swLeft' = IF device[d] /\ ~on THEN SwitchesOf(d) ELSE {}
  /\ rcLeft' = IF device[d] /\ ~on THEN ChildrenOf(d) ELSE {}
  /\ rcVal' = on

\* DeviceSwitch::set_with_cascade up to its loops: they have work only when
\* the device's own state changed.  The helper of a device has no notifier.
SetDevice(d, on) ==
  /\ device' = [device EXCEPT ![d] = on]
  /\ swLeft' = IF device[d] /\ ~on THEN SwitchesOf(d) ELSE {}
  /\ rcLeft' = IF device[d] # on THEN ChildrenOf(d) ELSE {}
  /\ rcVal' = on

\* Off, On or Toggle of a parent endpoint, or a write of its OnOff attribute.
CommandDevice(d, on) ==
  /\ Free
  /\ pc' = "loop"
  /\ serving' = "device"
  /\ SetDevice(d, on)
  /\ UNCHANGED <<master, state, reach, target, val, devLeft, hw, channelVars>>

\* Mutant: the master cascades on a change only, as the devices do.
CommandMasterOnChange(on) ==
  /\ Free
  /\ pc' = "loop"
  /\ serving' = "master"
  /\ master' = on
  /\ devLeft' = IF on \/ ~master THEN {} ELSE Devices
  /\ UNCHANGED <<device, state, reach, target, val, swLeft, rcLeft, rcVal, hw,
                 channelVars>>

\* Switch::set_on_off of endpoint 1: cascade_off whenever the value is Off.
CommandMaster(on) ==
  /\ Free
  /\ pc' = "loop"
  /\ serving' = "master"
  /\ master' = on
  /\ devLeft' = IF on THEN {} ELSE Devices
  /\ UNCHANGED <<device, state, reach, target, val, swLeft, rcLeft, rcVal, hw,
                 channelVars>>

\* cascade_off: set_from_master(false) of the next device.
CascadeDevice(d) ==
  /\ pc = "loop"
  /\ swLeft = {} /\ rcLeft = {}
  /\ d \in devLeft
  /\ devLeft' = devLeft \ {d}
  /\ SetDevice(d, FALSE)
  /\ UNCHANGED <<master, state, reach, pc, frameVars, hw, channelVars>>

\* set_with_cascade, first loop: switch.set(false).
CascadeSwitch(c) ==
  /\ pc = "loop"
  /\ c \in swLeft
  /\ swLeft' = swLeft \ {c}
  /\ pc' = "store"
  /\ target' = c
  /\ val' = FALSE
  /\ UNCHANGED <<stateVars, serving, devLeft, rcLeft, rcVal, hw, channelVars>>

\* Mutant: the flags do not wait for the switches.
CascadeReachableFirst(c) ==
  /\ pc = "loop"
  /\ c \in rcLeft
  /\ rcLeft' = rcLeft \ {c}
  /\ reach' = [reach EXCEPT ![c] = rcVal]
  /\ UNCHANGED <<master, device, state, pc, frameVars, devLeft, swLeft, rcVal, hw,
                 channelVars>>

\* set_with_cascade, second loop: reachable.store(on).
CascadeReachable(c) ==
  /\ pc = "loop"
  /\ swLeft = {}
  /\ c \in rcLeft
  /\ rcLeft' = rcLeft \ {c}
  /\ reach' = [reach EXCEPT ![c] = rcVal]
  /\ UNCHANGED <<master, device, state, pc, frameVars, devLeft, swLeft, rcVal, hw,
                 channelVars>>

\* No loop has work left: the request has been served.
Return ==
  /\ pc = "loop"
  /\ devLeft = {} /\ swLeft = {} /\ rcLeft = {}
  /\ pc' = "idle"
  /\ serving' = "none"
  /\ rcVal' = FALSE
  /\ UNCHANGED <<stateVars, target, val, devLeft, swLeft, rcLeft, hw, channelVars>>
-----------------------------------------------------------------------------
\* SimulatedHandler::toggle, or set_state with another value: the swap.  A
\* set_state with the value already there changes nothing and pushes nothing.
HwChange(c) ==
  /\ hw[c] = "idle"
  /\ state' = [state EXCEPT ![c] = ~@]
  /\ hw' = [hw EXCEPT ![c] = "changed"]
  /\ UNCHANGED <<master, device, reach, matterVars, channelVars>>

\* Mutant: the handler has no pusher.
HwPushNothing(c) ==
  /\ hw[c] = "changed"
  /\ hw' = [hw EXCEPT ![c] = "idle"]
  /\ UNCHANGED <<stateVars, matterVars, channelVars>>

\* pusher(new): on_state_changed of the bridge.
HwPush(c) ==
  /\ hw[c] = "changed"
  /\ Channel!Notify
  /\ hw' = [hw EXCEPT ![c] = "idle"]
  /\ UNCHANGED <<stateVars, matterVars>>
-----------------------------------------------------------------------------
\* sensor_forward and the subscription reports run on the Matter thread.
TakeSignal ==
  /\ pc = "idle"
  /\ Channel!TakeSignal
  /\ UNCHANGED <<stateVars, matterVars, hw>>

MarkChanged ==
  /\ Channel!MarkChanged
  /\ UNCHANGED <<stateVars, matterVars, hw>>

Report(c) ==
  /\ pc = "idle"
  /\ Channel!Report(c, state[c])
  /\ UNCHANGED <<stateVars, matterVars, hw>>
-----------------------------------------------------------------------------
Request ==
  \/ \E c \in Switches :
        \/ \E on \in BOOLEAN : CommandSwitch(c, on)
        \/ ToggleSwitch(c)
  \/ \E d \in Devices, on \in BOOLEAN : CommandDevice(d, on)
  \/ \E on \in BOOLEAN : CommandMaster(on)

Serve ==
  \/ Store
  \/ NotifyStored
  \/ \E d \in Devices : CascadeDevice(d)
  \/ \E c \in Switches : CascadeSwitch(c)
  \/ \E c \in Children : CascadeReachable(c)
  \/ Return

Next ==
  \/ Request
  \/ Serve
  \/ \E c \in HardwareDriven : HwChange(c) \/ HwPush(c)
  \/ TakeSignal
  \/ MarkChanged
  \/ \E c \in Children : Report(c)

\* A started call and a started push run to their end.  The executor polls
\* every ready future of the Matter thread again and again, however many
\* requests arrive: strong fairness for sensor_forward and for each report.
Fairness ==
  /\ WF_vars(Serve)
  /\ WF_vars(MarkChanged)
  /\ SF_vars(TakeSignal)
  /\ \A c \in HardwareDriven : WF_vars(HwPush(c))
  /\ \A c \in Children : SF_vars(Report(c))

Spec == Init /\ [][Next]_vars

FairSpec == Spec /\ Fairness
-----------------------------------------------------------------------------
\* Between two requests a child is reachable exactly when its device is on,
\* whatever master, device and child commands came before: the flags that
\* set_with_cascade only touches on a change never drift from the switch.
ReachableFollowsDevice ==
  \A c \in Children : c \notin rcLeft => reach[c] = device[Parent[c]]

\* No change of a child is lost on its way to the subscriber: as long as the
\* value last shown is not the value, somebody still has to notify, or the
\* signal, the forwarder or the subscription still carries it.
NoLostNotification ==
  \A c \in Children :
    shown[c] # state[c] =>
      \/ Channel!OnItsWay(c)
      \/ hw[c] = "changed"
      \/ pc = "notify" /\ target = c

\* When a request that turned the master off is over, every device is off and
\* every child unreachable, though set_with_cascade skips devices already off.
MasterOffReachesAll ==
  [][ (serving = "master" /\ serving' = "none" /\ ~master)
        => /\ \A d \in Devices : ~device'[d]
           /\ \A c \in Children : ~reach'[c] ]_vars

\* A child loses its reachable flag only after every switch of its device has
\* been turned off (a switch the hardware drives may be back on by then), the
\* order DeviceSwitch documents.
OffBeforeUnreachable ==
  [][ \A c \in Children :
        (reach[c] /\ ~reach'[c])
          => \A s \in SwitchesOf(Parent[c]) \ HardwareDriven : ~state[s] ]_vars

\* DeviceSwitch's documentation: turned off, a device has its switches off;
\* they can be controlled only once it is on again.  So no switch is on when
\* a request that turned the master off is over.
MasterOffTurnsAllOff ==
  [][ (serving = "master" /\ serving' = "none" /\ ~master)
        => \A s \in Switches \ HardwareDriven : ~state'[s] ]_vars

View == INSTANCE LiveView WITH Cells <- Children, Values <- BOOLEAN,
                               value <- state, shown <- shown

\* A subscriber sees only values a child has at that moment, and a child shown
\* out of date is brought up to date.
RefinesLiveView == View!Spec
=============================================================================
