---------------------------- MODULE ButtonEvents ----------------------------
(***************************************************************************)
(* The buttons: the MQTT task turns the actions of a remote into events of *)
(* a GenericSwitchState, one call after the other; the Matter thread wires *)
(* the buttons to their endpoints while that task may already be running,  *)
(* and from then on takes the pending events of every button, one button   *)
(* after the other, into one bounded list and sends them in a report.      *)
(*                                                                         *)
(* Buttons are numbered in the order of their endpoints, the order in      *)
(* which the Matter thread wires them and takes their events.              *)
(***************************************************************************)
EXTENDS Naturals, Sequences, FiniteSets, SequencesExt

CONSTANTS
  N,           \* number of buttons
  EndpointOf,  \* the endpoint id of each button
  Cap,         \* MAX_PENDING_EVENTS: of a button's queue and of a report
  MaxEvents    \* bound: number of events recorded

Buttons == 1..N

\* An endpoint id is a u16; of it an event carries the low byte.
EndpointIds == 1..65535
Byte        == 0..255

ASSUME ButtonsAssumption ==
  /\ N \in Nat \ {0}
  /\ EndpointOf \in [Buttons -> EndpointIds]
  /\ Cap \in Nat \ {0}
  /\ MaxEvents \in Nat

VARIABLES
  position,   \* current_position of each button
  number,     \* events numbered so far, of each button
  queue,      \* pending_events of each button
  \* ---- the MQTT task ----
  asked,      \* the calls its actions asked for so far, of all buttons
  button,     \* the button of the action under way
  calls,      \* its calls that have not returned, the current one first
  step,       \* the next atomic step of the current call
  from, pos,  \* the endpoint and the position the event is built with
  \* ---- the Matter thread ----
  addressed,  \* buttons whose endpoint_id has been stored
  notifying,  \* buttons whose notifier has been set
  sig,        \* SENSOR_NOTIFY holds a value
  due,        \* a subscription report is due
  source,     \* collect_events: the next button, N + 1 all taken, 0 not running
  batch,      \* the events it has taken
  delivered   \* the events reported, in their order

mqttVars   == <<asked, button, calls, step, from, pos>>
wiringVars == <<addressed, notifying>>
reportVars == <<due, source, batch, delivered>>
vars == <<position, number, queue, mqttVars, wiringVars, sig, reportVars>>

Kinds == {"press", "release", "double"}

\* What an action of the remote calls: single_press, double_press, hold_start,
\* hold_release.
Actions == {<<"press", "release">>, <<"double">>, <<"press">>, <<"release">>}

\* loud: the event was recorded with a notifier set.
Event == [button : Buttons, num : 1..MaxEvents, kind : Kinds, pos : 0..1,
          endpoint : Byte, loud : BOOLEAN]

TypeInvariant ==
  /\ position \in [Buttons -> 0..1]
  /\ number \in [Buttons -> 0..MaxEvents]
  /\ queue \in [Buttons -> Seq(Event)] /\ \A b \in Buttons : Len(queue[b]) <= Cap
  /\ asked \in 0..MaxEvents
  /\ button \in Buttons
  /\ calls \in Seq(Kinds)
  /\ step \in {"move", "address", "record"}
  /\ from \in Byte
  /\ pos \in 0..1
  /\ addressed \in 0..N
  /\ notifying \in 0..addressed
  /\ sig \in BOOLEAN
  /\ due \in BOOLEAN
  /\ source \in 0..N + 1
  /\ batch \in Seq(Event) /\ Len(batch) <= Cap
  /\ delivered \in Seq(Event)

Init ==
  /\ position = [b \in Buttons |-> 0]
  /\ number = [b \in Buttons |-> 0]
  /\ queue = [b \in Buttons |-> <<>>]
  /\ asked = 0
  /\ button = 1
  /\ calls = <<>>
  /\ step = "move"
  /\ from = 0
  /\ pos = 0
  /\ addressed = 0
  /\ notifying = 0
  /\ sig = FALSE
  /\ due = FALSE
  /\ source = 0
  /\ batch = <<>>
  /\ delivered = <<>>
-----------------------------------------------------------------------------
\* process_action_message: the calls an action makes on its button.
Receive(b, action) ==
  /\ calls = <<>>
  /\ asked + Len(action) <= MaxEvents
  /\ asked' = asked + Len(action)
  /\ button' = b
  /\ calls' = action
  /\ UNCHANGED <<position, number, queue, step, from, pos, wiringVars, sig, reportVars>>

\* Mutant: a press counts the position up.
MoveCounting ==
  /\ calls # <<>> /\ step = "move"
  /\ position' = [position EXCEPT ![button] = IF Head(calls) = "press" THEN @ + 1 ELSE 0]
  /\ pos' = IF Head(calls) = "release" THEN position[button] ELSE 1
  /\ step' = "address"
  /\ UNCHANGED <<number, queue, asked, button, calls, from, wiringVars, sig, reportVars>>

\* Mutant: double_press leaves the position as the hold before it did.
MoveKeepingDouble ==
  /\ calls # <<>> /\ step = "move"
  /\ position' = [position EXCEPT ![button] =
                    IF Head(calls) = "double" THEN @ ELSE IF Head(calls) = "press" THEN 1 ELSE 0]
  /\ pos' = IF Head(calls) = "release" THEN position[button] ELSE 1
  /\ step' = "address"
  /\ UNCHANGED <<number, queue, asked, button, calls, from, wiringVars, sig, reportVars>>

\* The first step of press, release and double_press: the store or swap of the
\* position.  A release reports the position before it, the others position 1.
Move ==
  /\ calls # <<>> /\ step = "move"
  /\ position' = [position EXCEPT ![button] = IF Head(calls) = "press" THEN 1 ELSE 0]
  /\ pos' = IF Head(calls) = "release" THEN position[button] ELSE 1
  /\ step' = "address"
  /\ UNCHANGED <<number, queue, asked, button, calls, from, wiringVars, sig, reportVars>>

\* get_endpoint_id: 0 until the button is wired, then the low byte of its id.
EndpointId(b) == IF b <= addressed THEN EndpointOf[b] % 256 ELSE 0

Address ==
  /\ step = "address"
  /\ from' = EndpointId(button)
  /\ step' = "record"
  /\ UNCHANGED <<position, number, queue, asked, button, calls, pos, wiringVars, sig, reportVars>>

BuiltEvent ==
  [button |-> button, num |-> number[button] + 1, kind |-> Head(calls), pos |-> pos,
   endpoint |-> from, loud |-> button <= notifying]

\* Mutant: the event is pushed under the lock and the signal not raised.
RecordSilently ==
  /\ step = "record"
  /\ number' = [number EXCEPT ![button] = @ + 1]
  /\ queue' = [queue EXCEPT ![button] = IF Len(@) < Cap THEN Append(@, BuiltEvent) ELSE @]
  /\ calls' = Tail(calls)
  /\ step' = "move"
  /\ from' = 0
  /\ pos' = 0
  /\ UNCHANGED <<position, asked, button, wiringVars, sig, reportVars>>

\* The event takes its number, is pushed unless the queue is full, and the
\* notifier, if one is set, raises the signal before the lock is released.
Record ==
  /\ step = "record"
  /\ number' = [number EXCEPT ![button] = @ + 1]
  /\ queue' = [queue EXCEPT ![button] = IF Len(@) < Cap THEN Append(@, BuiltEvent) ELSE @]
  /\ sig' = (sig \/ button <= notifying)
  /\ calls' = Tail(calls)
  /\ step' = "move"
  /\ from' = 0
  /\ pos' = 0
  /\ UNCHANGED <<position, asked, button, wiringVars, reportVars>>
-----------------------------------------------------------------------------
\* run_matter_stack wires the buttons before it runs anything else:
\* set_endpoint_id, then set_notifier.
WireEndpoint ==
  /\ addressed = notifying
  /\ addressed < N
  /\ addressed' = addressed + 1
  /\ UNCHANGED <<position, number, queue, mqttVars, notifying, sig, reportVars>>

WireNotifier ==
  /\ notifying < addressed
  /\ notifying' = notifying + 1
  /\ UNCHANGED <<position, number, queue, mqttVars, addressed, sig, reportVars>>

\* sensor_forward: take the signal, tell the subscriptions.
Forward ==
  /\ notifying = N
  /\ source = 0
  /\ sig
  /\ sig' = FALSE
  /\ due' = TRUE
  /\ UNCHANGED <<position, number, queue, mqttVars, wiringVars, source, batch, delivered>>

\* rs-matter starts a report and calls collect_events.
BeginCollect ==
  /\ source = 0
  /\ due
  /\ due' = FALSE
  /\ source' = 1
  /\ UNCHANGED <<position, number, queue, mqttVars, wiringVars, sig, batch, delivered>>

Fitting(events, room) == IF Len(events) <= room THEN events ELSE SubSeq(events, 1, room)

\* Mutant: the events are copied, not taken.
TakeSourceCopied ==
  /\ source \in Buttons
  /\ batch' = batch \o Fitting(queue[source], Cap - Len(batch))
  /\ source' = source + 1
  /\ UNCHANGED <<position, number, queue, mqttVars, wiringVars, sig, due, delivered>>

\* Mutant: the events of a button replace those taken before.
TakeSourceOver ==
  /\ source \in Buttons
  /\ batch' = queue[source]
  /\ queue' = [queue EXCEPT ![source] = <<>>]
  /\ source' = source + 1
  /\ UNCHANGED <<position, number, mqttVars, wiringVars, sig, due, delivered>>

\* take_pending_events of one button, under its lock, and the pushes of its
\* events to the list: those that find no room are gone.
TakeSource ==
  /\ source \in Buttons
  /\ batch' = batch \o Fitting(queue[source], Cap - Len(batch))
  /\ queue' = [queue EXCEPT ![source] = <<>>]
  /\ source' = source + 1
  /\ UNCHANGED <<position, number, mqttVars, wiringVars, sig, due, delivered>>

\* Mutant: the signal is reset when the report goes out.
DeliverResettingSignal ==
  /\ source = N + 1
  /\ delivered' = delivered \o batch
  /\ batch' = <<>>
  /\ source' = 0
  /\ sig' = FALSE
  /\ UNCHANGED <<position, number, queue, mqttVars, wiringVars, due>>

\* The collected events go out with the report.
Deliver ==
  /\ source = N + 1
  /\ delivered' = delivered \o batch
  /\ batch' = <<>>
  /\ source' = 0
  /\ UNCHANGED <<position, number, queue, mqttVars, wiringVars, sig, due>>
-----------------------------------------------------------------------------
Call == Move \/ Address \/ Record

Next ==
  \/ \E b \in Buttons, action \in Actions : Receive(b, action)
  \/ Call
  \/ WireEndpoint
  \/ WireNotifier
  \/ Forward
  \/ BeginCollect
  \/ TakeSource
  \/ Deliver

\* The Matter thread wires the buttons to the end; its executor polls
\* sensor_forward and the reports again and again.  The MQTT task need not go on.
Fairness ==
  /\ WF_vars(WireEndpoint \/ WireNotifier)
  /\ SF_vars(Forward)
  /\ WF_vars(BeginCollect)
  /\ WF_vars(TakeSource \/ Deliver)

Spec == Init /\ [][Next]_vars

FairSpec == Spec /\ Fairness
-----------------------------------------------------------------------------
\* What was reported, what is taken for a report, and what is pending of b.
History(b) == delivered \o batch \o queue[b]

Events(b) == {e \in ToSet(History(b)) : e.button = b}

\* The events of a button are reported in the order they were recorded, and
\* none twice, however the calls fall between the steps of collect_events.
InOrderOnce ==
  \A b \in Buttons :
    /\ \A i, j \in DOMAIN History(b) :
         i < j /\ History(b)[i].button = History(b)[j].button => History(b)[i].num < History(b)[j].num
    /\ \A e \in Events(b) : e.num <= number[b]

Lost(b) == number[b] - Cardinality(Events(b))

\* The places that are taken in the queues of all buttons.
Pendings == {p \in Buttons \X (1..Cap) : p[2] <= Len(queue[p[1]])}

\* Events recorded or being recorded and not reported, of all buttons.
Outstanding ==
  Len(batch) + Cardinality(Pendings) + (IF step = "record" THEN 1 ELSE 0)

\* An event is lost only when there are more outstanding, of all buttons
\* together, than one queue or one report holds.
LostOnlyWhenCrowded ==
  [][ Outstanding <= Cap => \A b \in Buttons : Lost(b)' = Lost(b) ]_vars

\* A ShortRelease says the button was pressed exactly when the event before it
\* was its InitialPress: the position written before the lock is taken never
\* disagrees with the order of the events.
ReleaseMatchesPress ==
  \A b \in Buttons : \A e \in Events(b) :
    e.kind = "release" =>
      /\ e.num = 1 => e.pos = 0
      /\ \A f \in Events(b) : f.num = e.num - 1 => (e.pos = 1 <=> f.kind = "press")

Pending(b, n) == \E i \in DOMAIN queue[b] : queue[b][i].num = n /\ queue[b][i].loud

\* A pending event that was notified is always about to be collected: by the
\* signal, a report that is due, or the collection under way.
NoStuckEvent ==
  \A b \in Buttons, n \in 1..MaxEvents :
    Pending(b, n) => sig \/ due \/ source \in 1..b

\* So every notified event leaves its queue.
NotifiedIsCollected ==
  \A b \in Buttons, n \in 1..MaxEvents : Pending(b, n) ~> ~Pending(b, n)
=============================================================================
