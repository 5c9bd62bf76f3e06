------------------------------ MODULE MqttLink ------------------------------
(***************************************************************************)
(* The MQTT integration: a task that waits for the first connection, asks  *)
(* the broker for the topics and the present state of every device and     *)
(* then handles messages; and the event loop it spawns, which owns the     *)
(* connection.  Two bounded channels join them: requests to the loop,      *)
(* messages to the task.  The broker, the network and the devices are the  *)
(* environment.                                                            *)
(***************************************************************************)
EXTENDS Naturals, Sequences, SequencesExt

CONSTANTS
  Devices,   \* the W100 devices, in the order they were added
  ReqCap,    \* capacity of the request channel (100 in client.rs)
  MsgCap,    \* capacity of the message channel (64 in integration.rs)
  MaxSent,   \* bound: number of times a device has something to say
  None       \* no message held

Device == ToSet(Devices)

ASSUME LinkAssumption ==
  /\ Devices \in Seq(Device) /\ Devices # <<>>
  /\ MsgCap \in Nat \ {0} /\ MaxSent \in Nat
  /\ ReqCap \in Nat

VARIABLES
  \* ---- environment ----
  link,      \* the connection: "down", "up", or "broken" and not noticed yet
  subs,      \* topics the broker's session for this connection is subscribed to
  wire,      \* messages the broker has sent on this connection
  sent,      \* number of things the devices have said
  lost,      \* a connection has been lost
  \* ---- the event loop ----
  loop,      \* what it is doing
  held,      \* the message it wants to forward
  connected, \* connected_tx has been used
  \* ---- between the two ----
  requests,  \* the request channel
  messages,  \* the message channel
  \* ---- the integration task ----
  task,      \* what it is doing
  todo,      \* requests it has still to make
  \* ---- history ----
  owed,      \* messages the loop has read and decoded and the task not handled
  presses    \* what was handled as a press of a button

brokerVars == <<link, subs, wire>>
worldVars  == <<sent, lost>>
loopVars   == <<loop, held, connected>>
taskVars   == <<task, todo, presses>>
linkVars   == <<brokerVars, worldVars, loopVars, requests, messages, taskVars, owed>>

\* The two topics of a device; a request subscribes to one of them or
\* publishes to the device's get topic.
TopicKinds == {"state", "action"}
Topics     == Device \X TopicKinds
Request    == Device \X (TopicKinds \cup {"get"})

\* pressed: a state message that repeats the button action in a field, or the
\* action message itself.
Message == [device : Device, kind : TopicKinds, num : 1..MaxSent, pressed : BOOLEAN]

\* W100Device::subscribe_topics
SubscribeTopics(d) == << <<d, "state">>, <<d, "action">> >>

\* Device after device, its two topics one after the other.
Subscriptions ==
  [i \in 1..(2 * Len(Devices)) |-> SubscribeTopics(Devices[(i + 1) \div 2])[2 - (i % 2)]]

Gets == [i \in 1..Len(Devices) |-> <<Devices[i], "get">>]

\* Mutant: the gets come first.
GetsFirst == Gets \o Subscriptions

\* The requests of one run: all subscriptions, then all gets.
RequestList == Subscriptions \o Gets

\* 100 places for three requests of the one device of main.
ASSUME RequestsFit == Len(RequestList) <= ReqCap

ASSUME NoneAssumption == None \notin Message

TypeInvariant ==
  /\ link \in {"down", "up", "broken"}
  /\ subs \subseteq Topics
  /\ wire \in Seq(Message)
  /\ sent \in 0..MaxSent /\ lost \in BOOLEAN
  /\ loop \in {"unstarted", "poll", "forward", "sleep", "ended"}
  /\ held \in Message \cup {None} /\ (held = None <=> loop # "forward")
  /\ connected \in BOOLEAN
  /\ requests \in Seq(Request) /\ Len(requests) <= ReqCap
  /\ messages \in Seq(Message) /\ Len(messages) <= MsgCap
  /\ task \in {"unstarted", "connecting", "timedout", "requesting", "serving", "ended"}
  /\ todo \in Seq(Request)
  /\ owed \in Seq(Message) /\ presses \in Seq(1..MaxSent)

LinkInit ==
  /\ link = "down" /\ subs = {} /\ wire = <<>> /\ sent = 0 /\ lost = FALSE
  /\ loop = "unstarted" /\ held = None /\ connected = FALSE
  /\ requests = <<>> /\ messages = <<>>
  /\ task = "unstarted" /\ todo = <<>>
  /\ owed = <<>> /\ presses = <<>>

-----------------------------------------------------------------------------
(* The devices and the network. *)

\* The broker passes on what this session is subscribed to.
Subscribed(m) == IF <<m.device, m.kind>> \in subs THEN <<m>> ELSE <<>>
Publish(ms) == wire' = IF link = "up" THEN wire \o ms ELSE wire

Says(d, kind, pressed) == [device |-> d, kind |-> kind, num |-> sent + 1, pressed |-> pressed]

\* A device reports its state, by itself or because it was asked to.
Measure(d) ==
  /\ sent < MaxSent
  /\ sent' = sent + 1
  /\ Publish(Subscribed(Says(d, "state", FALSE)))
  /\ UNCHANGED <<link, subs, lost, loopVars, requests, messages, taskVars, owed>>

\* A button is pressed: zigbee2mqtt publishes the action twice, within the
\* state and on the action topic.
Press(d) ==
  /\ sent < MaxSent
  /\ sent' = sent + 1
  /\ Publish(Subscribed(Says(d, "state", TRUE)) \o Subscribed(Says(d, "action", TRUE)))
  /\ UNCHANGED <<link, subs, lost, loopVars, requests, messages, taskVars, owed>>

\* The connection breaks; some of what is under way may still be read.
Lose ==
  /\ link = "up"
  /\ link' = "broken" /\ subs' = {} /\ lost' = TRUE
  /\ \E k \in 0..Len(wire) : wire' = SubSeq(wire, 1, k)
  /\ UNCHANGED <<sent, loopVars, requests, messages, taskVars, owed>>

-----------------------------------------------------------------------------
(* The event loop. *)

\* A connection is made within poll, with a clean session.
Connect ==
  /\ loop = "poll" /\ link = "down"
  /\ link' = "up" /\ subs' = {} /\ wire' = <<>>
  /\ connected' = TRUE
  /\ UNCHANGED <<worldVars, loop, held, requests, messages, taskVars, owed>>

\* poll reports that there is no connection, or no longer one.  Requests that
\* were waiting are kept for the next connection, or lost with this one.
PollError ==
  /\ loop = "poll" /\ link \in {"down", "broken"}
  /\ loop' = "sleep"
  /\ link' = "down" /\ subs' = {} /\ wire' = <<>>
  /\ requests' \in IF link = "broken" THEN {requests, <<>>} ELSE {requests}
  /\ UNCHANGED <<worldVars, held, connected, messages, taskVars, owed>>

Wake ==
  /\ loop = "sleep"
  /\ loop' = "poll"
  /\ UNCHANGED <<brokerVars, worldVars, held, connected, requests, messages, taskVars, owed>>

\* poll takes a request and sends it; the broker is subscribed, or passes the
\* get on to the device (Measure is the answer).
SendRequest ==
  /\ loop = "poll" /\ link = "up" /\ requests # <<>>
  /\ requests' = Tail(requests)
  /\ subs' = subs \cup ({Head(requests)} \cap Topics)
  /\ UNCHANGED <<link, wire, worldVars, loopVars, messages, taskVars, owed>>

\* poll returns a publication, which is forwarded if its payload is UTF-8.
Receive(valid) ==
  /\ loop = "poll" /\ link # "down" /\ wire # <<>>
  /\ wire' = Tail(wire)
  /\ IF valid
       THEN /\ loop' = "forward" /\ held' = Head(wire)
            /\ owed' = Append(owed, Head(wire))
       ELSE UNCHANGED <<loop, held, owed>>
  /\ UNCHANGED <<link, subs, worldVars, connected, requests, messages, taskVars>>

\* Mutant: an unbounded channel.
ForwardUnbounded ==
  /\ loop = "forward" /\ task # "ended"
  /\ messages' = Append(messages, held)
  /\ loop' = "poll" /\ held' = None
  /\ UNCHANGED <<brokerVars, worldVars, connected, requests, taskVars, owed>>

\* Mutant: try_send, which gives up when there is no room.
ForwardOrDrop ==
  /\ loop = "forward" /\ task # "ended"
  /\ messages' = IF Len(messages) < MsgCap THEN Append(messages, held) ELSE messages
  /\ loop' = "poll" /\ held' = None
  /\ UNCHANGED <<brokerVars, worldVars, connected, requests, taskVars, owed>>

\* tx.send(msg).await: waits for room.
Forward ==
  /\ loop = "forward" /\ task # "ended" /\ Len(messages) < MsgCap
  /\ messages' = Append(messages, held)
  /\ loop' = "poll" /\ held' = None
  /\ UNCHANGED <<brokerVars, worldVars, connected, requests, taskVars, owed>>

\* The end of the loop's task closes the connection.
EndLoop ==
  /\ loop' = "ended" /\ held' = None
  /\ link' = "down" /\ subs' = {} /\ wire' = <<>>

\* tx.send fails: the task and its receiver are gone.
ForwardFails ==
  /\ loop = "forward" /\ task = "ended"
  /\ EndLoop
  /\ UNCHANGED <<worldVars, connected, requests, messages, taskVars, owed>>

-----------------------------------------------------------------------------
(* The integration task. *)

\* MqttIntegration::start, and run up to the wait for the connection.
Start ==
  /\ task = "unstarted"
  /\ task' = "connecting"
  /\ loop' = "poll"
  /\ UNCHANGED <<brokerVars, worldVars, held, connected, requests, messages, todo, presses, owed>>

\* connected_rx completes.
Connected ==
  /\ task = "connecting" /\ connected
  /\ task' = "requesting"
  /\ todo' = RequestList
  /\ UNCHANGED <<brokerVars, worldVars, loopVars, requests, messages, presses, owed>>

\* Ten seconds have passed.  The loop may still connect before it is aborted.
TimeOut ==
  /\ task = "connecting" /\ ~connected
  /\ task' = "timedout"
  /\ UNCHANGED <<brokerVars, worldVars, loopVars, requests, messages, todo, presses, owed>>

AbortLoop ==
  /\ task = "timedout"
  /\ task' = "ended"
  /\ messages' = <<>>
  /\ EndLoop
  /\ UNCHANGED <<worldVars, connected, requests, todo, presses, owed>>

\* Mutant: a request channel with room for one.
RoomForOne == Len(requests) < 1

\* The request channel, AsyncClient::new(options, 100).
RoomForRequest == Len(requests) < ReqCap

\* subscribe and publish wait for room in the request channel.
MakeRequest ==
  /\ task = "requesting" /\ todo # <<>> /\ RoomForRequest
  /\ requests' = Append(requests, Head(todo))
  /\ todo' = Tail(todo)
  /\ UNCHANGED <<brokerVars, worldVars, loopVars, messages, task, presses, owed>>

BeginServing ==
  /\ task = "requesting" /\ todo = <<>>
  /\ task' = "serving"
  /\ UNCHANGED <<brokerVars, worldVars, loopVars, requests, messages, todo, presses, owed>>

\* Mutant: the action field of a state message counts as well.
PressedInState(m) == IF m.kind = "action" \/ m.pressed THEN <<m.num>> ELSE <<>>

\* process_message: an action message presses a button.  A state message sets
\* the sensors, whatever else it says; what that does is in SensorReporting.
Pressed(m) == IF m.kind = "action" THEN <<m.num>> ELSE <<>>

\* msg_rx.recv, and process_message of the device the message is for; one that
\* does not parse, or names no known button, is only logged.
Handle(understood) ==
  /\ task = "serving" /\ messages # <<>>
  /\ messages' = Tail(messages)
  /\ owed' = Tail(owed)
  /\ presses' = IF understood THEN presses \o Pressed(Head(messages)) ELSE presses
  /\ UNCHANGED <<brokerVars, worldVars, loopVars, requests, task, todo>>

\* main aborts the task at an await: its receiver goes, the loop it spawned
\* stays.  A task past its timeout does not wait any more and ends by itself.
AbortTask ==
  /\ task' = IF task = "timedout" THEN "timedout" ELSE "ended"
  /\ messages' = <<>>
  /\ UNCHANGED <<brokerVars, worldVars, loopVars, requests, todo, presses, owed>>

-----------------------------------------------------------------------------
World == \/ \E d \in Device : Measure(d) \/ Press(d)
         \/ Lose

LoopStep == \/ Connect \/ PollError \/ Wake \/ SendRequest
            \/ \E valid \in BOOLEAN : Receive(valid)
            \/ Forward \/ ForwardFails

TaskStep == \/ Connected \/ TimeOut \/ AbortLoop \/ MakeRequest \/ BeginServing
            \/ \E understood \in BOOLEAN : Handle(understood)

-----------------------------------------------------------------------------
(* Properties. *)

\* While the task lives, every message the loop has read and the task has not
\* handled is in the channel or in the loop's hand, in the order it came: back
\* pressure delays messages and drops none (the send of MqttClient::run).
AllAccountedFor ==
  task # "ended" => owed = messages \o (IF held = None THEN <<>> ELSE <<held>>)

\* No button is pressed twice, or out of order, for one press, although each is
\* published on both topics ("to avoid duplicate processing").
PressedOnceInOrder ==
  \A i, j \in DOMAIN presses : i < j => presses[i] < presses[j]

\* The loop waiting for room for a message while the task waits for room for
\* a request, each for the other.
NoGridlock ==
  ~ /\ loop = "forward" /\ Len(messages) = MsgCap
    /\ task = "requesting" /\ todo # <<>> /\ ~RoomForRequest

\* A device is asked for its state only when its answer will be received: the
\* topics are subscribed to by then, unless a connection was lost in between.
GetAfterSubscribe ==
  [][~lost /\ requests # <<>> /\ requests' = Tail(requests) /\ Head(requests)[2] = "get"
       => {Head(requests)[1]} \X TopicKinds \subseteq subs]_linkVars

\* A message that was read is handled eventually, unless the task ends.
ReceivedIsHandled ==
  \A n \in 1..MaxSent :
    (\E m \in ToSet(owed) : m.num = n) ~> (task = "ended" \/ ~ \E m \in ToSet(owed) : m.num = n)
=============================================================================
