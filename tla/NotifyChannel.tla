---------------------------- MODULE NotifyChannel ----------------------------
(***************************************************************************)
(* The path from a changed cell to the subscriber, shared by every sensor  *)
(* and control of the bridge: ClusterNotifier::notify raises one Signal,   *)
(* the sensor_forward future of run_matter_stack takes it and tells the    *)
(* subscriptions that EVERY registered attribute changed, and rs-matter    *)
(* later sends each changed attribute with the value it reads then.        *)
(*                                                                         *)
(* A library of actions: the modules that own the cells (OnOffBridge,      *)
(* SensorReporting) instantiate it and say when the Matter thread may run  *)
(* them.                                                                   *)
(***************************************************************************)
CONSTANT Registered   \* notification_endpoints

VARIABLES
  sig,         \* SENSOR_NOTIFY holds a value
  forwarding,  \* sensor_forward has taken the signal, not yet done its loop
  dirty,       \* attributes the subscriptions were told about, not yet sent
  shown        \* the value each subscribed attribute was last sent with

channelVars == <<sig, forwarding, dirty, shown>>

ChannelType(Values) ==
  /\ sig \in BOOLEAN
  /\ forwarding \in BOOLEAN
  /\ dirty \subseteq Registered
  /\ shown \in [Registered -> Values]

\* A subscription is primed with the values read when it is set up.
ChannelInit(value) ==
  /\ sig = FALSE
  /\ forwarding = FALSE
  /\ dirty = {}
  /\ shown = [c \in Registered |-> value[c]]

\* signal.signal(()): the signal holds one value however often it is raised.
Notify ==
  /\ sig' = TRUE
  /\ UNCHANGED <<forwarding, dirty, shown>>

\* sensor_notify_ref.wait() returns and resets the signal.
TakeSignal ==
  /\ sig
  /\ ~forwarding
  /\ sig' = FALSE
  /\ forwarding' = TRUE
  /\ UNCHANGED <<dirty, shown>>

\* Mutant: the loop ends with its first endpoint.
MarkFirst ==
  /\ forwarding
  /\ forwarding' = FALSE
  /\ dirty' = dirty \cup {CHOOSE c \in Registered : TRUE}
  /\ UNCHANGED <<sig, shown>>

\* The loop over notification_endpoints, which never awaits.
MarkChanged ==
  /\ forwarding
  /\ forwarding' = FALSE
  /\ dirty' = Registered
  /\ UNCHANGED <<sig, shown>>

\* rs-matter sends a changed attribute with the value its handler reads now.
Report(c, now) ==
  /\ ~forwarding
  /\ c \in dirty
  /\ dirty' = dirty \ {c}
  /\ shown' = [shown EXCEPT ![c] = now]
  /\ UNCHANGED <<sig, forwarding>>

\* A change of c that has been notified is still on its way to the subscriber.
OnItsWay(c) == sig \/ forwarding \/ c \in dirty
=============================================================================
