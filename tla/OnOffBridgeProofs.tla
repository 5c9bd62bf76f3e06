-------------------------- MODULE OnOffBridgeProofs --------------------------
(***************************************************************************)
(* Theorems about OnOffBridge, for every set of devices and children.      *)
(***************************************************************************)
EXTENDS OnOffBridge, TLAPS

\* A request leaves no loop unfinished, a SwitchBridge::set in progress has a
\* switch as its target, and one that a cascade started turns it off.
CallFrame ==
  /\ pc = "idle" => devLeft = {} /\ swLeft = {} /\ rcLeft = {}
  /\ pc \in {"store", "notify"} => target \in Switches
  /\ pc = "store" /\ rcLeft # {} => ~val

\* The value the second loop stores is the new state of the children's device.
LoopValue == \A c \in rcLeft : rcVal = device[Parent[c]]

\* While flags are still to be cleared, a switch of that device is off, or the
\* first loop has not visited it, or is just storing its value.
OffSoFar ==
  \A c \in rcLeft : ~rcVal =>
    \A s \in SwitchesOf(Parent[c]) \ HardwareDriven :
      s \in swLeft \/ (pc = "store" /\ target = s) \/ ~state[s]

\* In a request that turns the master off, every device visited is off.
DevicesOffSoFar ==
  serving = "master" /\ ~master => \A d \in Devices \ devLeft : ~device[d]

IInv ==
  /\ TypeInvariant
  /\ CallFrame
  /\ LoopValue
  /\ ReachableFollowsDevice
  /\ OffSoFar
  /\ DevicesOffSoFar
-----------------------------------------------------------------------------
LEMMA InitIInv == Init => IInv
<1> SUFFICES ASSUME Init PROVE IInv
  OBVIOUS
<1> USE ChildrenAssumption DEF Init
<1>1. TypeInvariant
  BY DEF TypeInvariant, Channel!ChannelType, Channel!ChannelInit
<1>2. ReachableFollowsDevice
  BY DEF ReachableFollowsDevice
<1>3. CallFrame /\ LoopValue /\ OffSoFar /\ DevicesOffSoFar
  BY DEF CallFrame, LoopValue, OffSoFar, DevicesOffSoFar
<1> QED
  BY <1>1, <1>2, <1>3 DEF IInv

\* What each step keeps, one lemma for the requests, one for the steps that
\* serve them, one for the rest.
LEMMA RequestIInv == IInv /\ Request => IInv'
<1> SUFFICES ASSUME IInv, Request PROVE IInv'
  OBVIOUS
<1> USE ChildrenAssumption
    DEF IInv, TypeInvariant, Channel!ChannelType, Free, stateVars, frameVars,
        loopVars, channelVars, Children
<1>1. CASE \E c \in Switches, on \in BOOLEAN : CommandSwitch(c, on)
  <2>1. PICK c \in Switches, on \in BOOLEAN : CommandSwitch(c, on)
    BY <1>1
  <2>2. TypeInvariant' /\ CallFrame' /\ LoopValue' /\ ReachableFollowsDevice'
    BY <2>1 DEF CommandSwitch, CallFrame, LoopValue, ReachableFollowsDevice
  <2>3. OffSoFar' /\ DevicesOffSoFar'
    BY <2>1 DEF CommandSwitch, CallFrame, OffSoFar, DevicesOffSoFar
  <2> QED
    BY <2>2, <2>3
<1>2. CASE \E d \in Devices, on \in BOOLEAN : CommandDevice(d, on)
  <2>1. PICK d \in Devices, on \in BOOLEAN : CommandDevice(d, on)
    BY <1>2
  <2> USE <2>1 DEF CommandDevice, SetDevice, ChildrenOf, SwitchesOf
  <2>2. TypeInvariant' /\ CallFrame'
    BY DEF CallFrame
  <2>3. LoopValue' /\ ReachableFollowsDevice'
    BY DEF CallFrame, LoopValue, ReachableFollowsDevice
  <2>4. OffSoFar' /\ DevicesOffSoFar'
    BY DEF CallFrame, OffSoFar, DevicesOffSoFar
  <2> QED
    BY <2>2, <2>3, <2>4
<1>3. CASE \E on \in BOOLEAN : CommandMaster(on)
  <2>1. PICK on \in BOOLEAN : CommandMaster(on)
    BY <1>3
  <2>2. TypeInvariant' /\ CallFrame' /\ LoopValue' /\ ReachableFollowsDevice'
    BY <2>1 DEF CommandMaster, CallFrame, LoopValue, ReachableFollowsDevice
  <2>3. OffSoFar' /\ DevicesOffSoFar'
    BY <2>1 DEF CommandMaster, CallFrame, OffSoFar, DevicesOffSoFar
  <2> QED
    BY <2>2, <2>3
<1> QED
  BY <1>1, <1>2, <1>3 DEF Request, ToggleSwitch

LEMMA ServeIInv == IInv /\ Serve => IInv'
<1> SUFFICES ASSUME IInv, Serve PROVE IInv'
  OBVIOUS
<1> USE ChildrenAssumption
    DEF IInv, TypeInvariant, Channel!ChannelType, stateVars, frameVars,
        loopVars, channelVars, Children
<1>1. CASE Store
  <2>1. TypeInvariant' /\ CallFrame' /\ LoopValue' /\ ReachableFollowsDevice'
    BY <1>1 DEF Store, CallFrame, LoopValue, ReachableFollowsDevice
  <2>2. OffSoFar' /\ DevicesOffSoFar'
    BY <1>1 DEF Store, CallFrame, OffSoFar, DevicesOffSoFar, SwitchesOf
  <2> QED
    BY <2>1, <2>2
<1>2. CASE NotifyStored
  <2>1. TypeInvariant' /\ CallFrame' /\ LoopValue' /\ ReachableFollowsDevice'
    BY <1>2 DEF NotifyStored, Channel!Notify, CallFrame, LoopValue,
                ReachableFollowsDevice
  <2>2. OffSoFar' /\ DevicesOffSoFar'
    BY <1>2 DEF NotifyStored, Channel!Notify, OffSoFar, DevicesOffSoFar
  <2> QED
    BY <2>1, <2>2
<1>3. CASE \E d \in Devices : CascadeDevice(d)
  <2>1. PICK d \in Devices : CascadeDevice(d)
    BY <1>3
  <2> USE <2>1 DEF CascadeDevice, SetDevice, ChildrenOf, SwitchesOf
  <2>2. TypeInvariant' /\ CallFrame'
    BY DEF CallFrame
  <2>3. LoopValue' /\ ReachableFollowsDevice'
    BY DEF LoopValue, ReachableFollowsDevice
  <2>4. OffSoFar' /\ DevicesOffSoFar'
    BY DEF OffSoFar, DevicesOffSoFar
  <2> QED
    BY <2>2, <2>3, <2>4
<1>4. CASE \E c \in Switches : CascadeSwitch(c)
  <2>1. PICK c \in Switches : CascadeSwitch(c)
    BY <1>4
  <2>2. TypeInvariant' /\ CallFrame' /\ LoopValue' /\ ReachableFollowsDevice'
    BY <2>1 DEF CascadeSwitch, CallFrame, LoopValue, ReachableFollowsDevice
  <2>3. OffSoFar' /\ DevicesOffSoFar'
    BY <2>1 DEF CascadeSwitch, OffSoFar, DevicesOffSoFar
  <2> QED
    BY <2>2, <2>3
<1>5. CASE \E c \in Children : CascadeReachable(c)
  <2>1. PICK c \in Children : CascadeReachable(c)
    BY <1>5
  <2>2. TypeInvariant' /\ CallFrame'
    BY <2>1 DEF CascadeReachable, CallFrame
  <2>3. LoopValue' /\ ReachableFollowsDevice'
    BY <2>1 DEF CascadeReachable, LoopValue, ReachableFollowsDevice
  <2>4. OffSoFar' /\ DevicesOffSoFar'
    BY <2>1 DEF CascadeReachable, OffSoFar, DevicesOffSoFar
  <2> QED
    BY <2>2, <2>3, <2>4
<1>6. CASE Return
  <2>1. TypeInvariant' /\ CallFrame' /\ LoopValue' /\ ReachableFollowsDevice'
    BY <1>6 DEF Return, CallFrame, LoopValue, ReachableFollowsDevice
  <2>2. OffSoFar' /\ DevicesOffSoFar'
    BY <1>6 DEF Return, OffSoFar, DevicesOffSoFar
  <2> QED
    BY <2>1, <2>2
<1> QED
  BY <1>1, <1>2, <1>3, <1>4, <1>5, <1>6 DEF Serve

\* The hardware threads change only states of hardware-driven children; the
\* forwarder and the reports change nothing but the channel.
LEMMA OtherIInv ==
  ASSUME IInv,
         \/ \E c \in HardwareDriven : HwChange(c) \/ HwPush(c)
         \/ TakeSignal
         \/ MarkChanged
         \/ \E c \in Children : Report(c)
         \/ UNCHANGED vars
  PROVE  IInv'
<1> USE ChildrenAssumption
    DEF IInv, TypeInvariant, Channel!ChannelType, stateVars, matterVars,
        channelVars, Children
<1>1. CASE \E c \in HardwareDriven : HwChange(c)
  <2>1. PICK c \in HardwareDriven : HwChange(c)
    BY <1>1
  <2>2. TypeInvariant' /\ CallFrame' /\ LoopValue' /\ ReachableFollowsDevice'
    BY <2>1 DEF HwChange, CallFrame, LoopValue, ReachableFollowsDevice
  <2>3. OffSoFar' /\ DevicesOffSoFar'
    BY <2>1 DEF HwChange, OffSoFar, DevicesOffSoFar, SwitchesOf
  <2> QED
    BY <2>2, <2>3
<1>2. CASE \/ \E c \in HardwareDriven : HwPush(c)
           \/ TakeSignal
           \/ MarkChanged
           \/ \E c \in Children : Report(c)
           \/ UNCHANGED vars
  <2>1. UNCHANGED <<stateVars, matterVars>>
    BY <1>2 DEF HwPush, TakeSignal, MarkChanged, Report, vars
  <2>2. hw' \in [Children -> {"idle", "changed"}]
    BY <1>2 DEF HwPush, TakeSignal, MarkChanged, Report, vars
  <2>3. Channel!ChannelType(BOOLEAN)'
    BY <1>2 DEF HwPush, TakeSignal, MarkChanged, Report, vars, Channel!Notify,
                Channel!TakeSignal, Channel!MarkChanged, Channel!Report
  <2>4. TypeInvariant'
    BY <2>1, <2>2, <2>3
  <2>5. CallFrame' /\ LoopValue' /\ ReachableFollowsDevice'
    BY <2>1 DEF CallFrame, LoopValue, ReachableFollowsDevice
  <2>6. OffSoFar' /\ DevicesOffSoFar'
    BY <2>1 DEF OffSoFar, DevicesOffSoFar
  <2> QED
    BY <2>4, <2>5, <2>6
<1> QED
  BY <1>1, <1>2

\* The inductive invariant: all the conjuncts above hold of every state.
THEOREM Invariance == Spec => []IInv
<1>1. IInv /\ [Next]_vars => IInv'
  BY RequestIInv, ServeIInv, OtherIInv DEF Next
<1> QED
  BY InitIInv, <1>1, PTL DEF Spec

\* Every variable keeps its type.
THEOREM TypeCorrect == Spec => []TypeInvariant
<1>1. IInv => TypeInvariant
  BY DEF IInv
<1> QED
  BY Invariance, <1>1, PTL

\* A child whose flag no loop is about to store is reachable exactly when its
\* device is on, for any number of devices and children.
THEOREM ReachableCorrect == Spec => []ReachableFollowsDevice
<1>1. IInv => ReachableFollowsDevice
  BY DEF IInv
<1> QED
  BY Invariance, <1>1, PTL
-----------------------------------------------------------------------------
\* While a change is neither notified, nor on its way, its writer still has to
\* notify it: the handler's thread or the Matter thread between its store and
\* its notify.  Every step that changes a state or takes a stage of the channel
\* hands the obligation to the next one.
THEOREM NotificationCorrect == Spec => []NoLostNotification
<1>1. Init => NoLostNotification
  BY DEF Init, Channel!ChannelInit, NoLostNotification
<1>2. IInv /\ NoLostNotification /\ [Next]_vars => NoLostNotification'
  <2> SUFFICES ASSUME IInv, NoLostNotification, [Next]_vars
               PROVE  NoLostNotification'
    OBVIOUS
  <2> USE ChildrenAssumption
      DEF IInv, TypeInvariant, CallFrame, Channel!ChannelType, Channel!OnItsWay,
          NoLostNotification, stateVars, frameVars, loopVars, matterVars,
          channelVars, Children
  <2>1. CASE \/ \E c \in Switches, on \in BOOLEAN : CommandSwitch(c, on)
             \/ \E d \in Devices, on \in BOOLEAN : CommandDevice(d, on)
             \/ \E on \in BOOLEAN : CommandMaster(on)
    BY <2>1 DEF CommandSwitch, CommandDevice, CommandMaster, Free
  <2>2. CASE Store
    BY <2>2 DEF Store
  <2>3. CASE NotifyStored
    BY <2>3 DEF NotifyStored, Channel!Notify
  <2>4. CASE \/ \E d \in Devices : CascadeDevice(d)
             \/ \E c \in Switches : CascadeSwitch(c)
             \/ \E c \in Children : CascadeReachable(c)
             \/ Return
    BY <2>4 DEF CascadeDevice, CascadeSwitch, CascadeReachable, Return
  <2>5. CASE \E c \in HardwareDriven : HwChange(c)
    BY <2>5 DEF HwChange
  <2>6. CASE \E c \in HardwareDriven : HwPush(c)
    BY <2>6 DEF HwPush, Channel!Notify
  <2>7. CASE TakeSignal
    BY <2>7 DEF TakeSignal, Channel!TakeSignal
  <2>8. CASE MarkChanged
    BY <2>8 DEF MarkChanged, Channel!MarkChanged
  <2>9. CASE \E c \in Children : Report(c)
    BY <2>9 DEF Report, Channel!Report
  <2>10. CASE UNCHANGED vars
    BY <2>10 DEF vars
  <2> QED
    BY <2>1, <2>2, <2>3, <2>4, <2>5, <2>6, <2>7, <2>8, <2>9, <2>10
       DEF Next, Request, Serve, ToggleSwitch
<1> QED
  BY <1>1, <1>2, Invariance, PTL DEF Spec

\* Only Return ends a request; by then cascade_off has visited every device and
\* no flag is left to store.
THEOREM MasterOffCorrect == Spec => MasterOffReachesAll
<1>1. IInv /\ [Next]_vars =>
        [ (serving = "master" /\ serving' = "none" /\ ~master)
            => /\ \A d \in Devices : ~device'[d]
               /\ \A c \in Children : ~reach'[c] ]_vars
  <2> SUFFICES ASSUME IInv, Next,
                      serving = "master", serving' = "none", ~master
               PROVE  /\ \A d \in Devices : ~device'[d]
                      /\ \A c \in Children : ~reach'[c]
    OBVIOUS
  <2>1. Return
    BY DEF Next, Request, Serve, ToggleSwitch, CommandSwitch, CommandDevice,
           CommandMaster, Store, NotifyStored, CascadeDevice, CascadeSwitch,
           CascadeReachable, HwChange, HwPush, TakeSignal, MarkChanged, Report,
           frameVars, matterVars
  <2>2. device' = device /\ reach' = reach
    BY <2>1 DEF Return, stateVars
  <2>3. \A d \in Devices : ~device[d]
    BY <2>1 DEF Return, IInv, DevicesOffSoFar
  <2>4. \A c \in Children : ~reach[c]
    BY <2>1, <2>3, ChildrenAssumption
       DEF Return, IInv, ReachableFollowsDevice, Children
  <2> QED
    BY <2>2, <2>3, <2>4
<1> QED
  BY <1>1, Invariance, PTL DEF Spec, MasterOffReachesAll

\* Only CascadeReachable stores a flag, after the first loop has emptied.
THEOREM OffBeforeUnreachableCorrect == Spec => OffBeforeUnreachable
<1>1. IInv /\ [Next]_vars =>
        [ \A c \in Children :
            (reach[c] /\ ~reach'[c])
              => \A s \in SwitchesOf(Parent[c]) \ HardwareDriven : ~state[s] ]_vars
  <2> SUFFICES ASSUME IInv, Next, NEW c \in Children, reach[c], ~reach'[c],
                      NEW s \in SwitchesOf(Parent[c]) \ HardwareDriven
               PROVE  ~state[s]
    OBVIOUS
  <2>1. \E b \in Children : CascadeReachable(b)
    BY DEF Next, Request, Serve, ToggleSwitch, CommandSwitch, CommandDevice,
           CommandMaster, Store, NotifyStored, CascadeDevice, CascadeSwitch,
           Return, HwChange, HwPush, TakeSignal, MarkChanged, Report, stateVars
  <2>2. pc = "loop" /\ swLeft = {} /\ c \in rcLeft /\ ~rcVal
    BY <2>1 DEF CascadeReachable, IInv, TypeInvariant
  <2> QED
    BY <2>2 DEF IInv, OffSoFar
<1> QED
  BY <1>1, Invariance, PTL DEF Spec, OffBeforeUnreachable

\* The safety half of the refinement: every step of the bridge is a step of the
\* abstract view, or leaves what it sees unchanged.
THEOREM ImplementsLiveView == Spec => View!Init /\ [][View!Next]_View!vars
<1>1. Init => View!Init
  <2> SUFFICES ASSUME Init PROVE View!Init
    OBVIOUS
  <2>1. shown = state
    BY DEF Init, Channel!ChannelInit
  <2> QED
    BY <2>1 DEF Init, View!Init
<1>2. IInv /\ IInv' /\ [Next]_vars => [View!Next]_View!vars
  <2> SUFFICES ASSUME IInv, IInv', [Next]_vars
               PROVE  View!Next \/ UNCHANGED View!vars
    OBVIOUS
  <2>1. CASE \E c \in Children : Report(c)
    <3>1. PICK c \in Children : Report(c)
      BY <2>1
    <3>2. /\ shown' = [shown EXCEPT ![c] = state[c]]
          /\ state' = state
      BY <3>1 DEF Report, Channel!Report, stateVars
    <3>3. CASE shown[c] = state[c]
      BY <3>2, <3>3 DEF IInv, TypeInvariant, Channel!ChannelType, View!vars
    <3>4. CASE shown[c] # state[c]
      BY <3>2, <3>4 DEF View!Next, View!Refresh
    <3> QED
      BY <3>3, <3>4
  <2>2. CASE ~ \E c \in Children : Report(c)
    <3>1. UNCHANGED shown
      BY <2>2 DEF Next, Request, Serve, ToggleSwitch, CommandSwitch, CommandDevice,
           CommandMaster, Store, NotifyStored, CascadeDevice, CascadeSwitch,
           CascadeReachable, Return, HwChange, HwPush, TakeSignal, MarkChanged,
           Channel!Notify, Channel!TakeSignal, Channel!MarkChanged, channelVars, vars
    <3>2. state' \in [Children -> BOOLEAN]
      BY DEF IInv, TypeInvariant
    <3> QED
      BY <3>1, <3>2 DEF View!Next, View!Change
  <2> QED
    BY <2>1, <2>2
<1> QED
  BY <1>1, <1>2, Invariance, PTL DEF Spec
=============================================================================
