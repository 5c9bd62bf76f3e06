--------------------------- MODULE LifecycleProofs ---------------------------
(***************************************************************************)
(* Theorems about MqttLink and Lifecycle, for every list of devices, every *)
(* capacity of the two channels and every number of messages.              *)
(***************************************************************************)
EXTENDS Lifecycle, Integers, SequenceTheorems, TLAPS
-----------------------------------------------------------------------------
(* Sequences used as queues: an element is taken from the front or put at the *)
(* end.                                                                       *)

\* Taking the first element.
LEMMA Taken ==
  ASSUME NEW S, NEW s \in Seq(S), s # <<>>
  PROVE  /\ Head(s) \in S /\ Head(s) = s[1] /\ Len(s) \in Nat \ {0}
         /\ Tail(s) \in Seq(S) /\ Len(Tail(s)) = Len(s) - 1
         /\ \A i \in 1..Len(Tail(s)) : Tail(s)[i] = s[i + 1]
  OBVIOUS

\* Putting an element at the end.
LEMMA Put ==
  ASSUME NEW S, NEW s \in Seq(S), NEW e \in S
  PROVE  /\ Append(s, e) \in Seq(S) /\ Len(s) \in Nat /\ Len(Append(s, e)) = Len(s) + 1
         /\ \A i \in 1..Len(s) : Append(s, e)[i] = s[i]
         /\ Append(s, e)[Len(s) + 1] = e
         /\ Append(s, e) = s \o <<e>>
<1>1. Append(s, e) = s \o <<e>>
  BY AppendIsConcat, Zenon
<1> QED
  BY <1>1

\* Taking the first element of a concatenation takes it from the first part.
LEMMA TakenFromConcat ==
  ASSUME NEW S, NEW s \in Seq(S), NEW t \in Seq(S), s # <<>>
  PROVE  s \o t # <<>> /\ Head(s \o t) = Head(s) /\ Tail(s \o t) = Tail(s) \o t
<1>1. /\ s \o t \in Seq(S) /\ Len(s \o t) = Len(s) + Len(t)
      /\ \A i \in 1..(Len(s) + Len(t)) :
           (s \o t)[i] = IF i <= Len(s) THEN s[i] ELSE t[i - Len(s)]
  BY ConcatProperties, Zenon
<1>2. /\ Len(s) \in Nat \ {0} /\ Len(t) \in Nat
      /\ Tail(s) \in Seq(S) /\ Len(Tail(s)) = Len(s) - 1
      /\ \A i \in 1..(Len(s) - 1) : Tail(s)[i] = s[i + 1]
  BY Taken
<1>3. s \o t # <<>>
  BY <1>1, <1>2
<1>4. /\ Head(s \o t) = (s \o t)[1] /\ Tail(s \o t) \in Seq(S)
      /\ Len(Tail(s \o t)) = Len(s) + Len(t) - 1
      /\ \A i \in 1..(Len(s) + Len(t) - 1) : Tail(s \o t)[i] = (s \o t)[i + 1]
  BY <1>1, <1>3, Taken
<1>5. /\ Tail(s) \o t \in Seq(S) /\ Len(Tail(s) \o t) = (Len(s) - 1) + Len(t)
      /\ \A i \in 1..((Len(s) - 1) + Len(t)) :
           (Tail(s) \o t)[i] = IF i <= Len(s) - 1 THEN Tail(s)[i] ELSE t[i - (Len(s) - 1)]
  <2>1. /\ Tail(s) \o t \in Seq(S) /\ Len(Tail(s) \o t) = Len(Tail(s)) + Len(t)
        /\ \A i \in 1..(Len(Tail(s)) + Len(t)) :
             (Tail(s) \o t)[i] = IF i <= Len(Tail(s)) THEN Tail(s)[i] ELSE t[i - Len(Tail(s))]
    BY <1>2, ConcatProperties, Zenon
  <2> QED
    BY <1>2, <2>1
<1>6. \A i \in 1..Len(Tail(s \o t)) : Tail(s \o t)[i] = (Tail(s) \o t)[i]
  <2> SUFFICES ASSUME NEW i \in 1..Len(Tail(s \o t))
               PROVE  Tail(s \o t)[i] = (Tail(s) \o t)[i]
    OBVIOUS
  <2>1. /\ i \in 1..(Len(s) + Len(t) - 1) /\ i + 1 \in 1..(Len(s) + Len(t))
        /\ i <= Len(s) - 1 <=> i + 1 <= Len(s)
        /\ i - (Len(s) - 1) = (i + 1) - Len(s)
        /\ i <= Len(s) - 1 => i \in 1..(Len(s) - 1)
    BY <1>2, <1>4
  <2> QED
    BY <2>1, <1>1, <1>2, <1>4, <1>5
<1>7. Tail(s \o t) = Tail(s) \o t
  <2>1. Len(Tail(s \o t)) = Len(Tail(s) \o t)
    BY <1>2, <1>4, <1>5
  <2> QED
    BY <1>4, <1>5, <1>6, <2>1, SeqEqual, Zenon
<1> QED
  BY <1>1, <1>2, <1>3, <1>4, <1>7, Taken

\* Two sequences of one element.
LEMMA PairConcat == ASSUME NEW a, NEW b PROVE <<a>> \o <<b>> = <<a, b>>
<1> DEFINE S == {a, b}
           s == <<a>>
           t == <<b>>
<1>1. /\ s \in Seq(S) /\ t \in Seq(S) /\ <<a, b>> \in Seq(S)
      /\ Len(s) = 1 /\ Len(t) = 1 /\ s[1] = a /\ t[1] = b
  OBVIOUS
<1>2. Len(<<a, b>>) = 2 /\ <<a, b>>[1] = a /\ <<a, b>>[2] = b
  OBVIOUS
<1> HIDE DEF S, s, t
<1>3. /\ s \o t \in Seq(S) /\ Len(s \o t) = Len(s) + Len(t)
      /\ \A i \in 1..(Len(s) + Len(t)) :
           (s \o t)[i] = IF i <= Len(s) THEN s[i] ELSE t[i - Len(s)]
  BY <1>1, ConcatProperties, Zenon
<1>4. Len(s \o t) = 2 /\ (s \o t)[1] = a /\ (s \o t)[2] = b
  BY <1>1, <1>3
<1>5. \A i \in 1..2 : i = 1 \/ i = 2
  OBVIOUS
<1>6. Len(s \o t) = Len(<<a, b>>) /\ \A i \in 1..Len(s \o t) : (s \o t)[i] = <<a, b>>[i]
  BY <1>2, <1>4, <1>5
<1>7. s \o t = <<a, b>>
  BY <1>1, <1>3, <1>6, SeqEqual
<1> QED
  BY <1>7 DEF s, t

\* Moving the first element of t to the end of s keeps the concatenation.
LEMMA Moved ==
  ASSUME NEW S, NEW s \in Seq(S), NEW t \in Seq(S), t # <<>>
  PROVE  Append(s, Head(t)) \o Tail(t) = s \o t
<1>1. Head(t) \in S /\ Tail(t) \in Seq(S) /\ <<Head(t)>> \in Seq(S)
  BY Taken
<1>2. <<Head(t)>> \o Tail(t) = t
  <2> DEFINE r == <<Head(t)>> \o Tail(t)
  <2>1. /\ r \in Seq(S) /\ Len(r) = Len(<<Head(t)>>) + Len(Tail(t))
        /\ \A i \in 1..(Len(<<Head(t)>>) + Len(Tail(t))) : r[i] =
             IF i <= Len(<<Head(t)>>) THEN <<Head(t)>>[i] ELSE Tail(t)[i - Len(<<Head(t)>>)]
    BY <1>1, ConcatProperties, Zenon
  <2>2. /\ Len(t) \in Nat \ {0} /\ Len(Tail(t)) = Len(t) - 1 /\ Head(t) = t[1]
        /\ \A i \in 1..(Len(t) - 1) : Tail(t)[i] = t[i + 1]
    BY Taken
  <2>3. Len(<<Head(t)>>) = 1 /\ <<Head(t)>>[1] = t[1]
    BY <2>2
  <2>4. Len(r) = Len(t) /\ \A i \in 1..Len(r) : r[i] = t[i]
    <3> HIDE DEF r
    <3> QED
      BY <2>1, <2>2, <2>3
  <2> QED
    BY <2>1, <2>4, SeqEqual, Zenon
<1>3. Append(s, Head(t)) = s \o <<Head(t)>>
  BY <1>1, Put
<1>4. \A u, v \in Seq(S) : (s \o u) \o v = s \o (u \o v)
  BY ConcatAssociative
<1> QED
  BY <1>1, <1>2, <1>3, <1>4

-----------------------------------------------------------------------------
(* The requests of one run. *)

\* The capacities and the bound are numbers; the requests of one run fit.
LEMMA Bounds ==
  /\ MsgCap \in Nat /\ ReqCap \in Nat /\ MaxSent \in Nat
  /\ Len(RequestList) <= ReqCap
BY LinkAssumption, RequestsFit

\* One step of the link: the network, the event loop, the task, or main.
LinkNext == World \/ LoopStep \/ TaskStep \/ Start \/ AbortTask

\* Every entry of the list is a device.
LEMMA DevicesAreDevices == \A i \in 1..Len(Devices) : Devices[i] \in Device
BY LinkAssumption DEF Device, ToSet

\* The subscriptions are requests for topics, two for each device.
LEMMA SubscriptionsType == Subscriptions \in Seq(Topics) /\ Len(Subscriptions) = 2 * Len(Devices)
<1>1. Len(Devices) \in Nat
  BY LinkAssumption
<1>2. ASSUME NEW i \in 1..(2 * Len(Devices))
      PROVE  SubscribeTopics(Devices[(i + 1) \div 2])[2 - (i % 2)] \in Topics
  <2>1. (i + 1) \div 2 \in 1..Len(Devices) /\ 2 - (i % 2) \in {1, 2}
    BY <1>1
  <2>2. Devices[(i + 1) \div 2] \in Device
    BY <2>1, DevicesAreDevices
  <2> QED
    BY <2>1, <2>2 DEF SubscribeTopics, Topics, TopicKinds
<1> QED
  BY <1>1, <1>2 DEF Subscriptions

\* The gets are requests, one for each device.
LEMMA GetsType ==
  /\ Gets \in Seq(Request) /\ Len(Gets) = Len(Devices)
  /\ \A i \in 1..Len(Gets) : Gets[i] = <<Devices[i], "get">>
<1>1. Len(Devices) \in Nat
  BY LinkAssumption
<1> QED
  BY <1>1, DevicesAreDevices DEF Gets, Request

\* The list of one run consists of requests.
LEMMA RequestListType == RequestList \in Seq(Request)
BY SubscriptionsType, GetsType DEF RequestList, Topics, Request, TopicKinds

\* In q each get stands behind the subscriptions of its device, unless they are made.
Preceded(q, made) ==
  \A i \in 1..Len(q) : q[i][2] = "get" =>
    \A kind \in TopicKinds :
      <<q[i][1], kind>> \in made \/ \E k \in 1..(i - 1) : q[k] = <<q[i][1], kind>>

\* In the list of one run each get stands behind the subscriptions of its device.
LEMMA RequestListPreceded == ASSUME NEW made PROVE Preceded(RequestList, made)
<1> DEFINE n == Len(Devices)
<1>1. n \in Nat
  BY LinkAssumption
<1>2. /\ Subscriptions \in Seq(Request) /\ Len(Subscriptions) = 2 * n
      /\ Gets \in Seq(Request) /\ Len(Gets) = n
  BY SubscriptionsType, GetsType DEF Topics, Request, TopicKinds
<1>3. /\ Len(RequestList) = 3 * n
      /\ \A i \in 1..(3 * n) :
           RequestList[i] = IF i <= 2 * n THEN Subscriptions[i] ELSE Gets[i - 2 * n]
  <2>1. /\ Len(Subscriptions \o Gets) = Len(Subscriptions) + Len(Gets)
        /\ \A i \in 1..(Len(Subscriptions) + Len(Gets)) : (Subscriptions \o Gets)[i] =
             IF i <= Len(Subscriptions) THEN Subscriptions[i] ELSE Gets[i - Len(Subscriptions)]
    BY <1>2, ConcatProperties, Zenon
  <2>2. Len(Subscriptions) + Len(Gets) = 3 * n
    BY <1>1, <1>2
  <2> QED
    BY <1>2, <2>1, <2>2 DEF RequestList
<1>4. \A j \in 1..n : RequestList[2 * n + j] = <<Devices[j], "get">>
  BY <1>1, <1>3, GetsType
<1>5. \A j \in 1..n : /\ Subscriptions[2 * j - 1] = <<Devices[j], "state">>
                      /\ Subscriptions[2 * j] = <<Devices[j], "action">>
  <2> SUFFICES ASSUME NEW j \in 1..n
               PROVE  /\ Subscriptions[2 * j - 1] = <<Devices[j], "state">>
                      /\ Subscriptions[2 * j] = <<Devices[j], "action">>
    OBVIOUS
  <2>1. /\ ((2 * j - 1) + 1) \div 2 = j /\ 2 - ((2 * j - 1) % 2) = 1
        /\ (2 * j + 1) \div 2 = j /\ 2 - ((2 * j) % 2) = 2
        /\ 2 * j - 1 \in 1..(2 * n) /\ 2 * j \in 1..(2 * n)
    BY <1>1
  <2> QED
    BY <2>1 DEF Subscriptions, SubscribeTopics
<1>6. ASSUME NEW i \in 1..(3 * n), RequestList[i][2] = "get", NEW kind \in TopicKinds
      PROVE  \E k \in 1..(i - 1) : RequestList[k] = <<RequestList[i][1], kind>>
  <2>1. i > 2 * n
    <3> SUFFICES ASSUME i \in 1..(2 * n) PROVE FALSE
      BY <1>1, <1>6
    <3> QED
      <4>1. RequestList[i] = Subscriptions[i] /\ Subscriptions[i] \in Topics
        BY <1>1, <1>3, SubscriptionsType
      <4> QED
        BY <1>6, <4>1 DEF Topics, TopicKinds
  <2>2. PICK j \in 1..n : i = 2 * n + j
    <3>1. i - 2 * n \in 1..n /\ i = 2 * n + (i - 2 * n)
      BY <2>1, <1>1
    <3> QED
      BY <3>1
  <2>3. RequestList[i] = <<Devices[j], "get">>
    BY <2>2, <1>4
  <2>4. 2 * j - 1 \in 1..(i - 1) /\ 2 * j \in 1..(i - 1) /\ 2 * j - 1 \in 1..(2 * n) /\ 2 * j \in 1..(2 * n)
    BY <2>2, <1>1
  <2>5. /\ RequestList[2 * j - 1] = <<Devices[j], "state">>
        /\ RequestList[2 * j] = <<Devices[j], "action">>
    <3>1. 2 * j - 1 \in 1..(3 * n) /\ 2 * j \in 1..(3 * n)
      BY <1>1, <2>4
    <3>2. RequestList[2 * j - 1] = Subscriptions[2 * j - 1] /\ RequestList[2 * j] = Subscriptions[2 * j]
      BY <1>1, <1>3, <3>1, <2>4
    <3> QED
      BY <1>5, <3>2
  <2> QED
    BY <2>3, <2>4, <2>5 DEF TopicKinds
<1> QED
  BY <1>3, <1>6 DEF Preceded
-----------------------------------------------------------------------------
(* The invariant of the link. *)

\* The requests made and to be made are at most those of one run, and before
\* the task asks for anything nothing reaches the loop or the task.
Room ==
  /\ Len(requests) + Len(todo) <= Len(RequestList)
  /\ task \in {"unstarted", "connecting", "timedout"} =>
       /\ requests = <<>> /\ todo = <<>> /\ subs = {}
       /\ wire = <<>> /\ held = None /\ messages = <<>> /\ owed = <<>>

\* The loop starts with the task.  Nothing is asked before the first connection,
\* and until one is lost there is but that one.
OneLink ==
  /\ task = "unstarted" => loop = "unstarted" /\ ~connected
  /\ ~connected => requests = <<>> /\ todo = <<>>
  /\ connected /\ ~lost => link # "down" \/ loop = "ended"
  /\ link = "broken" => lost

\* The requests in the channel and those to be made are in an order in which
\* no get comes before its subscriptions.
AskedInOrder == ~lost /\ loop # "ended" => Preceded(requests \o todo, subs)

\* The action messages of s, then of t, carry ascending numbers.
Ascending(s, t) ==
  \A i \in 1..Len(s), j \in 1..Len(t) :
    s[i].kind = "action" /\ t[j].kind = "action" => s[i].num < t[j].num

AscendingWithin(s) ==
  \A i, j \in 1..Len(s) :
    i < j /\ s[i].kind = "action" /\ s[j].kind = "action" => s[i].num < s[j].num

\* What was pressed was said before the action messages of s.
PressedBefore(s) ==
  \A i \in 1..Len(presses), j \in 1..Len(s) : s[j].kind = "action" => presses[i] < s[j].num

\* The presses, the messages the loop has read and those on the wire are in the
\* order in which they were said.
SaidInOrder ==
  /\ AscendingWithin(owed) /\ AscendingWithin(wire) /\ Ascending(owed, wire)
  /\ PressedBefore(owed) /\ PressedBefore(wire)
  /\ \A i \in 1..Len(owed) : owed[i].num <= sent
  /\ \A i \in 1..Len(wire) : wire[i].num <= sent
  /\ \A i \in 1..Len(presses) : presses[i] <= sent
  /\ \A i, j \in 1..Len(presses) : i < j => presses[i] < presses[j]

LinkIInv == TypeInvariant /\ AllAccountedFor /\ Room /\ OneLink /\ AskedInOrder /\ SaidInOrder

\* The invariant holds at the start.
LEMMA InitLink == LinkInit => LinkIInv
<1> SUFFICES ASSUME LinkInit PROVE LinkIInv
  OBVIOUS
<1>1. TypeInvariant
  <2>1. 0 \in 0..MaxSent /\ 0 <= ReqCap /\ 0 <= MsgCap
    BY Bounds
  <2> QED
    BY <2>1, EmptySeq DEF LinkInit, TypeInvariant
<1>2. AllAccountedFor
  BY DEF LinkInit, AllAccountedFor
<1>3. Room /\ OneLink
  <2>1. Len(RequestList) \in Nat
    BY RequestListType
  <2> QED
    BY <2>1 DEF LinkInit, Room, OneLink
<1>4. AskedInOrder
  BY DEF LinkInit, AskedInOrder, Preceded
<1>5. SaidInOrder
  BY DEF LinkInit, SaidInOrder, AscendingWithin, Ascending, PressedBefore
<1> QED
  BY <1>1, <1>2, <1>3, <1>4, <1>5 DEF LinkIInv
-----------------------------------------------------------------------------
(* Types. *)

\* What a device says is a message, and its number is the next one.
LEMMA SaidType ==
  ASSUME TypeInvariant, sent < MaxSent, NEW d \in Device, NEW kind \in TopicKinds,
         NEW pressed \in BOOLEAN
  PROVE  /\ sent + 1 \in 1..MaxSent
         /\ Says(d, kind, pressed) \in Message
         /\ Says(d, kind, pressed).num = sent + 1 /\ Says(d, kind, pressed).kind = kind
         /\ Subscribed(Says(d, kind, pressed)) \in Seq(Message)
<1>1. sent + 1 \in 1..MaxSent
  BY Bounds DEF TypeInvariant
<1>2. /\ Says(d, kind, pressed) \in Message
      /\ Says(d, kind, pressed).num = sent + 1 /\ Says(d, kind, pressed).kind = kind
  BY <1>1 DEF Says, Message
<1> QED
  BY <1>1, <1>2 DEF Subscribed

\* The fields of a message.
LEMMA MessageFields == \A m \in Message : m.num \in 1..MaxSent /\ m.kind \in TopicKinds
BY DEF Message

\* A message is a press of its own number, or none.
LEMMA PressedType == ASSUME NEW S, NEW m, m.num \in S PROVE Pressed(m) \in Seq(S)
BY DEF Pressed

\* What is published joins the wire, or is not passed on.
LEMMA PublishType ==
  ASSUME TypeInvariant, NEW ms \in Seq(Message), Publish(ms)
  PROVE  wire' \in Seq(Message) /\ (wire' = wire \/ wire' = wire \o ms)
<1>1. wire \in Seq(Message)
  BY DEF TypeInvariant
<1>2. wire \o ms \in Seq(Message)
  BY <1>1, ConcatProperties, Zenon
<1> QED
  BY <1>1, <1>2 DEF Publish

\* A connection that breaks leaves a first part of what was on the wire.
LEMMA LostPart ==
  ASSUME TypeInvariant, NEW k \in 0..Len(wire), wire' = SubSeq(wire, 1, k)
  PROVE  wire' \in Seq(Message) /\ Len(wire') = k /\ \A i \in 1..k : wire'[i] = wire[i]
<1>1. wire \in Seq(Message) /\ Len(wire) \in Nat /\ 1 \in Int /\ k \in Int
  BY DEF TypeInvariant
<1>2. \A i \in 1..k : wire[i] \in Message
  BY <1>1
<1>3. /\ SubSeq(wire, 1, k) \in Seq(Message)
      /\ Len(SubSeq(wire, 1, k)) = IF 1 <= k THEN k - 1 + 1 ELSE 0
      /\ \A i \in 1..(k - 1 + 1) : SubSeq(wire, 1, k)[i] = wire[1 + i - 1]
  BY <1>1, <1>2, SubSeqProperties
<1> QED
  BY <1>1, <1>3

\* What the loop holds, as a sequence.
InHand == IF held = None THEN <<>> ELSE <<held>>

\* The loop holds a message or none.
LEMMA InHandType == TypeInvariant => InHand \in Seq(Message)
BY DEF TypeInvariant, InHand

\* Types are kept.  A message to handle was read before, so owed has a tail.
LEMMA LinkTypes == TypeInvariant /\ AllAccountedFor /\ Room /\ [LinkNext]_linkVars => TypeInvariant'
<1> SUFFICES ASSUME TypeInvariant, AllAccountedFor, Room, [LinkNext]_linkVars PROVE TypeInvariant'
  OBVIOUS
<1> USE DEF brokerVars, worldVars, loopVars, taskVars
<1>1. CASE \E d \in Device : Measure(d)
  <2>1. PICK d \in Device : Measure(d)
    BY <1>1
  <2>2. /\ sent < MaxSent /\ sent' = sent + 1
        /\ "state" \in TopicKinds /\ FALSE \in BOOLEAN
    BY <2>1 DEF Measure, TopicKinds
  <2>3. sent + 1 \in 1..MaxSent /\ Subscribed(Says(d, "state", FALSE)) \in Seq(Message)
    BY <2>2, SaidType
  <2>4. sent' \in 0..MaxSent
    BY <2>2, <2>3, Bounds
  <2>5. wire' \in Seq(Message)
    BY <2>1, <2>3, PublishType DEF Measure
  <2> QED
    BY <2>1, <2>4, <2>5 DEF Measure, TypeInvariant
<1>2. CASE \E d \in Device : Press(d)
  <2>1. PICK d \in Device : Press(d)
    BY <1>2
  <2>2. /\ sent < MaxSent /\ sent' = sent + 1
        /\ "state" \in TopicKinds /\ "action" \in TopicKinds /\ TRUE \in BOOLEAN
    BY <2>1 DEF Press, TopicKinds
  <2>3. /\ sent + 1 \in 1..MaxSent
        /\ Subscribed(Says(d, "state", TRUE)) \in Seq(Message)
        /\ Subscribed(Says(d, "action", TRUE)) \in Seq(Message)
    BY <2>2, SaidType
  <2>4. sent' \in 0..MaxSent
    BY <2>2, <2>3, Bounds
  <2>5. wire' \in Seq(Message)
    <3>1. Subscribed(Says(d, "state", TRUE)) \o Subscribed(Says(d, "action", TRUE)) \in Seq(Message)
      BY <2>3, ConcatProperties, Zenon
    <3> QED
      BY <2>1, <3>1, PublishType DEF Press
  <2> QED
    BY <2>1, <2>4, <2>5 DEF Press, TypeInvariant
<1>3. CASE Lose
  <2>1. wire' \in Seq(Message)
    BY <1>3, LostPart DEF Lose
  <2> QED
    BY <1>3, <2>1 DEF Lose, TypeInvariant
<1>4. CASE Connect
  BY <1>4 DEF Connect, TypeInvariant
<1>16. CASE Wake
  BY <1>16 DEF Wake, TypeInvariant
<1>5. CASE PollError
  <2>1. requests' = requests \/ requests' = <<>>
    BY <1>5 DEF PollError
  <2>2. requests' \in Seq(Request) /\ Len(requests') <= ReqCap
    <3>1. requests \in Seq(Request) /\ Len(requests) <= ReqCap /\ Len(<<>>) <= ReqCap
      BY Bounds DEF TypeInvariant
    <3> QED
      BY <2>1, <3>1, EmptySeq
  <2> QED
    BY <1>5, <2>2 DEF PollError, TypeInvariant
<1>6. CASE SendRequest
  <2>1. requests' \in Seq(Request) /\ Len(requests') <= ReqCap
    <3>1. requests \in Seq(Request) /\ requests # <<>> /\ Len(requests) <= ReqCap
      BY <1>6 DEF SendRequest, TypeInvariant
    <3>2. requests' \in Seq(Request) /\ Len(requests') = Len(requests) - 1 /\ Len(requests) \in Nat
      BY <1>6, <3>1, Taken DEF SendRequest
    <3> QED
      BY <3>1, <3>2, Bounds
  <2>2. subs' \subseteq Topics
    BY <1>6 DEF SendRequest, TypeInvariant
  <2> QED
    BY <1>6, <2>1, <2>2 DEF SendRequest, TypeInvariant
<1>7. CASE \E valid \in BOOLEAN : Receive(valid)
  <2>1. PICK valid \in BOOLEAN : Receive(valid)
    BY <1>7
  <2>2. wire \in Seq(Message) /\ wire # <<>> /\ owed \in Seq(Message)
    BY <2>1 DEF Receive, TypeInvariant
  <2>3. Head(wire) \in Message /\ wire' \in Seq(Message)
    BY <2>1, <2>2, Taken DEF Receive
  <2>4. CASE valid
    <3>1. Append(owed, Head(wire)) \in Seq(Message) /\ Head(wire) # None
      BY <2>2, <2>3, Put, NoneAssumption
    <3>2. owed' \in Seq(Message) /\ held' \in Message /\ held' # None /\ loop' = "forward"
      BY <2>1, <2>3, <2>4, <3>1 DEF Receive
    <3> QED
      BY <2>1, <2>3, <3>2 DEF Receive, TypeInvariant
  <2>5. CASE ~valid
    BY <2>1, <2>3, <2>5 DEF Receive, TypeInvariant
  <2> QED
    BY <2>4, <2>5
<1>8. CASE Forward
  <2>1. messages \in Seq(Message) /\ held \in Message /\ Len(messages) < MsgCap
    BY <1>8 DEF Forward, TypeInvariant
  <2>2. messages' \in Seq(Message) /\ Len(messages') = Len(messages) + 1 /\ Len(messages) \in Nat
    BY <1>8, <2>1, Put DEF Forward
  <2>3. Len(messages') <= MsgCap
    BY <2>1, <2>2, Bounds
  <2> QED
    BY <1>8, <2>2, <2>3 DEF Forward, TypeInvariant
<1>9. CASE ForwardFails
  BY <1>9 DEF ForwardFails, EndLoop, TypeInvariant
<1>10. CASE Start \/ TimeOut \/ BeginServing
  <2>1. held' = None <=> loop' # "forward"
    BY <1>10 DEF Start, TimeOut, BeginServing, TypeInvariant, Room
  <2> QED
    BY <1>10, <2>1 DEF Start, TimeOut, BeginServing, TypeInvariant
<1>11. CASE Connected
  BY <1>11, RequestListType DEF Connected, TypeInvariant
<1>12. CASE AbortLoop \/ AbortTask
  <2>1. Len(messages') <= MsgCap /\ messages' \in Seq(Message)
    <3>1. messages' = <<>> /\ 0 <= MsgCap
      BY <1>12, Bounds DEF AbortLoop, AbortTask
    <3> QED
      BY <3>1
  <2> QED
    BY <1>12, <2>1 DEF AbortLoop, AbortTask, EndLoop, TypeInvariant
<1>13. CASE MakeRequest
  <2>1. requests \in Seq(Request) /\ todo \in Seq(Request) /\ todo # <<>> /\ Len(requests) < ReqCap
    BY <1>13 DEF MakeRequest, RoomForRequest, TypeInvariant
  <2>2. Head(todo) \in Request /\ todo' \in Seq(Request)
    BY <1>13, <2>1, Taken DEF MakeRequest
  <2>3. requests' \in Seq(Request) /\ Len(requests') = Len(requests) + 1 /\ Len(requests) \in Nat
    BY <1>13, <2>1, <2>2, Put DEF MakeRequest
  <2>4. Len(requests') <= ReqCap
    BY <2>1, <2>3, Bounds
  <2> QED
    BY <1>13, <2>2, <2>3, <2>4 DEF MakeRequest, TypeInvariant
<1>14. CASE \E understood \in BOOLEAN : Handle(understood)
  <2>1. PICK understood \in BOOLEAN : Handle(understood)
    BY <1>14
  <2>2. /\ messages \in Seq(Message) /\ messages # <<>> /\ Len(messages) <= MsgCap
        /\ presses \in Seq(1..MaxSent) /\ owed \in Seq(Message)
    BY <2>1 DEF Handle, TypeInvariant
  <2>3. /\ Head(messages) \in Message /\ messages' \in Seq(Message)
        /\ Len(messages') = Len(messages) - 1 /\ Len(messages) \in Nat
    BY <2>1, <2>2, Taken DEF Handle
  <2>4. Len(messages') <= MsgCap
    BY <2>2, <2>3, Bounds
  <2>5. presses' \in Seq(1..MaxSent)
    <3>1. Pressed(Head(messages)) \in Seq(1..MaxSent)
      <4>1. Head(messages).num \in 1..MaxSent
        BY <2>3, MessageFields
      <4> QED
        BY <4>1, PressedType
    <3>2. presses \o Pressed(Head(messages)) \in Seq(1..MaxSent)
      BY <2>2, <3>1, ConcatProperties, Zenon
    <3> QED
      BY <2>1, <2>2, <3>2 DEF Handle
  <2>6. owed' \in Seq(Message)
    <3>1. owed # <<>>
      <4>1. InHand \in Seq(Message) /\ owed = messages \o InHand
        BY <2>1, InHandType DEF AllAccountedFor, InHand, Handle
      <4> QED
        BY <2>2, <4>1, TakenFromConcat, Zenon
    <3> QED
      BY <2>1, <2>2, <3>1, Taken DEF Handle
  <2> QED
    BY <2>1, <2>3, <2>4, <2>5, <2>6 DEF Handle, TypeInvariant
<1>15. CASE UNCHANGED linkVars
  BY <1>15 DEF linkVars, TypeInvariant
<1> QED
  BY <1>1, <1>2, <1>3, <1>4, <1>5, <1>6, <1>7, <1>8, <1>9, <1>10, <1>11, <1>12, <1>13, <1>14,
     <1>15, <1>16 DEF LinkNext, World, LoopStep, TaskStep
-----------------------------------------------------------------------------
(* What each step keeps. *)

\* What was read and not handled is in the channel or in the loop's hand.
LEMMA NoMessageLost ==
  TypeInvariant /\ Room /\ AllAccountedFor /\ [LinkNext]_linkVars => AllAccountedFor'
<1> SUFFICES ASSUME TypeInvariant, Room, AllAccountedFor, [LinkNext]_linkVars,
                    task' # "ended"
             PROVE  owed' = messages' \o InHand'
  BY DEF AllAccountedFor, InHand
<1> USE DEF loopVars, taskVars
<1>1. CASE UNCHANGED <<messages, held, owed>> /\ task # "ended"
  BY <1>1 DEF AllAccountedFor, InHand
<1>2. CASE \E d \in Device : Measure(d) \/ Press(d)
  BY <1>1, <1>2 DEF Measure, Press
<1>3. CASE Lose \/ Connect \/ PollError \/ Wake \/ SendRequest
  BY <1>1, <1>3 DEF Lose, Connect, PollError, Wake, SendRequest
<1>4. CASE Connected \/ TimeOut \/ MakeRequest \/ BeginServing \/ Start
  BY <1>1, <1>4 DEF Connected, TimeOut, MakeRequest, BeginServing, Start
<1>5. CASE \E valid \in BOOLEAN : Receive(valid)
  <2>1. PICK valid \in BOOLEAN : Receive(valid)
    BY <1>5
  <2>2. CASE ~valid
    BY <1>1, <2>1, <2>2 DEF Receive
  <2>3. CASE valid
    <3>1. /\ held = None /\ messages' = messages /\ task # "ended" /\ messages \in Seq(Message)
          /\ wire \in Seq(Message) /\ wire # <<>>
          /\ owed' = Append(owed, Head(wire)) /\ held' = Head(wire)
      BY <2>1, <2>3 DEF Receive, TypeInvariant
    <3>2. owed = messages
      BY <3>1 DEF AllAccountedFor
    <3>3. Head(wire) \in Message /\ Head(wire) # None
      BY <3>1, Taken, NoneAssumption
    <3>4. Append(messages, Head(wire)) = messages \o <<Head(wire)>>
      BY <3>1, <3>3, Put
    <3> QED
      BY <3>1, <3>2, <3>3, <3>4 DEF InHand
  <2> QED
    BY <2>2, <2>3
<1>6. CASE Forward
  <2>1. /\ held \in Message /\ held # None /\ task # "ended" /\ messages \in Seq(Message)
        /\ owed' = owed /\ messages' = Append(messages, held) /\ held' = None
    BY <1>6 DEF Forward, TypeInvariant
  <2>2. owed = messages \o <<held>> /\ Append(messages, held) = messages \o <<held>>
    BY <2>1, Put DEF AllAccountedFor
  <2>3. messages' \in Seq(Message) /\ messages' \o <<>> = messages'
    BY <2>1, Put
  <2> QED
    BY <2>1, <2>2, <2>3 DEF InHand
<1>7. CASE ForwardFails \/ AbortLoop
  BY <1>7 DEF ForwardFails, AbortLoop
<1>8. CASE AbortTask
  BY <1>8 DEF AbortTask, Room, InHand
<1>9. CASE \E understood \in BOOLEAN : Handle(understood)
  <2>1. PICK understood \in BOOLEAN : Handle(understood)
    BY <1>9
  <2>2. /\ messages \in Seq(Message) /\ messages # <<>> /\ InHand \in Seq(Message)
        /\ messages' = Tail(messages) /\ owed' = Tail(owed) /\ held' = held
        /\ owed = messages \o InHand
    BY <2>1, InHandType DEF Handle, TypeInvariant, AllAccountedFor, InHand
  <2>3. Tail(messages \o InHand) = Tail(messages) \o InHand
    BY <2>2, TakenFromConcat
  <2> QED
    BY <2>2, <2>3 DEF InHand
<1>10. CASE UNCHANGED linkVars
  BY <1>1, <1>10 DEF linkVars
<1> QED
  BY <1>2, <1>3, <1>4, <1>5, <1>6, <1>7, <1>8, <1>9, <1>10 DEF LinkNext, World, LoopStep, TaskStep

\* Nothing is asked twice, and nothing before the first connection.
LEMMA LinkRoom ==
  TypeInvariant /\ Room /\ OneLink /\ [LinkNext]_linkVars => Room' /\ OneLink'
<1> SUFFICES ASSUME TypeInvariant, Room, OneLink, [LinkNext]_linkVars
             PROVE  Room' /\ OneLink'
  OBVIOUS
<1> USE DEF brokerVars, worldVars, loopVars, taskVars
<1>1. Len(RequestList) \in Nat /\ Len(requests) \in Nat /\ Len(todo) \in Nat
  BY RequestListType DEF TypeInvariant
<1>2. CASE \E d \in Device : Measure(d) \/ Press(d)
  <2>1. PICK d \in Device : Measure(d) \/ Press(d)
    BY <1>2
  <2>2. subs = {} /\ wire = <<>> => wire' = <<>>
    BY <2>1 DEF Measure, Press, Publish, Subscribed
  <2>3. UNCHANGED <<link, subs, lost, loop, held, connected, requests, messages, task, todo, owed>>
    BY <2>1 DEF Measure, Press
  <2> QED
    BY <2>2, <2>3 DEF Room, OneLink
<1>3. CASE Lose
  <2>1. wire = <<>> => wire' = <<>>
    BY <1>3 DEF Lose
  <2> QED
    BY <1>3, <2>1 DEF Lose, Room, OneLink
<1>4. CASE Connect \/ Wake
  BY <1>4 DEF Connect, Wake, Room, OneLink
<1>5. CASE PollError
  <2>1. requests' = requests \/ requests' = <<>>
    BY <1>5 DEF PollError
  <2>2. Len(requests') <= Len(requests) /\ Len(requests') \in Nat /\ (requests = <<>> => requests' = <<>>)
    <3>1. CASE requests' = requests
      BY <1>1, <3>1
    <3>2. CASE requests' = <<>>
      <4>1. Len(requests') = 0
        BY <3>2
      <4> QED
        BY <1>1, <3>2, <4>1
    <3> QED
      BY <2>1, <3>1, <3>2
  <2>3. link = "broken" \/ (link = "down" /\ loop = "poll")
    BY <1>5 DEF PollError
  <2> QED
    BY <1>1, <1>5, <2>2, <2>3 DEF PollError, Room, OneLink, TypeInvariant
<1>6. CASE SendRequest
  <2>1. requests \in Seq(Request) /\ requests # <<>>
    BY <1>6 DEF SendRequest, TypeInvariant
  <2>2. Len(requests') = Len(requests) - 1
    BY <1>6, <2>1, Taken DEF SendRequest
  <2>3. task \notin {"unstarted", "connecting", "timedout"} /\ connected
    BY <2>1 DEF Room, OneLink
  <2> QED
    BY <1>1, <1>6, <2>2, <2>3 DEF SendRequest, Room, OneLink
<1>7. CASE \E valid \in BOOLEAN : Receive(valid)
  <2>1. task \notin {"unstarted", "connecting", "timedout"}
    BY <1>7 DEF Receive, Room
  <2> QED
    BY <1>7, <2>1 DEF Receive, Room, OneLink
<1>8. CASE Forward \/ ForwardFails
  <2>1. task \notin {"unstarted", "connecting", "timedout"}
    BY <1>8 DEF Forward, ForwardFails, Room, TypeInvariant
  <2> QED
    BY <1>8, <2>1 DEF Forward, ForwardFails, EndLoop, Room, OneLink
<1>9. CASE Start \/ TimeOut \/ BeginServing
  BY <1>9 DEF Start, TimeOut, BeginServing, Room, OneLink
<1>10. CASE Connected
  BY <1>1, <1>10 DEF Connected, Room, OneLink
<1>11. CASE AbortLoop
  BY <1>11 DEF AbortLoop, EndLoop, Room, OneLink
<1>12. CASE AbortTask
  BY <1>12 DEF AbortTask, Room, OneLink
<1>13. CASE MakeRequest
  <2>1. /\ requests \in Seq(Request) /\ todo \in Seq(Request) /\ todo # <<>>
        /\ requests' = Append(requests, Head(todo)) /\ todo' = Tail(todo)
    BY <1>13 DEF MakeRequest, TypeInvariant
  <2>2. Len(requests') = Len(requests) + 1 /\ Len(todo') = Len(todo) - 1
    BY <2>1, Taken, Put
  <2> QED
    BY <1>1, <1>13, <2>1, <2>2 DEF MakeRequest, Room, OneLink
<1>14. CASE \E understood \in BOOLEAN : Handle(understood)
  BY <1>14 DEF Handle, Room, OneLink
<1>15. CASE UNCHANGED linkVars
  BY <1>15 DEF linkVars, Room, OneLink
<1> QED
  BY <1>2, <1>3, <1>4, <1>5, <1>6, <1>7, <1>8, <1>9, <1>10, <1>11, <1>12, <1>13, <1>14, <1>15
     DEF LinkNext, World, LoopStep, TaskStep

\* A subscription leaves the channel when it is made, before the gets behind it.
LEMMA LinkAsked ==
  TypeInvariant /\ Room /\ OneLink /\ AskedInOrder /\ [LinkNext]_linkVars => AskedInOrder'
<1> SUFFICES ASSUME TypeInvariant, Room, OneLink, AskedInOrder, [LinkNext]_linkVars,
                    ~lost', loop' # "ended"
             PROVE  Preceded(requests' \o todo', subs')
  BY DEF AskedInOrder
<1> USE DEF brokerVars, worldVars, loopVars, taskVars
<1>1. requests \in Seq(Request) /\ todo \in Seq(Request)
  BY DEF TypeInvariant
<1>2. CASE UNCHANGED <<requests, todo, subs>> /\ ~lost /\ loop # "ended"
  BY <1>2 DEF AskedInOrder
<1>3. CASE requests' = <<>> /\ todo' = <<>>
  BY <1>3 DEF Preceded
<1>4. CASE \E d \in Device : Measure(d) \/ Press(d)
  <2>1. UNCHANGED <<requests, todo, subs, lost, loop>>
    BY <1>4 DEF Measure, Press
  <2> QED
    BY <1>2, <2>1
<1>5. CASE Lose \/ ForwardFails \/ AbortLoop
  BY <1>5 DEF Lose, ForwardFails, AbortLoop, EndLoop
<1>6. CASE Connect \/ PollError
  <2>1. ~connected
    BY <1>6 DEF Connect, PollError, OneLink
  <2>2. requests = <<>> /\ todo = <<>>
    BY <2>1 DEF OneLink
  <2>3. requests' = <<>> /\ todo' = <<>>
    BY <1>6, <2>2 DEF Connect, PollError
  <2> QED
    BY <1>3, <2>3
<1>7. CASE Wake \/ Forward \/ TimeOut \/ BeginServing \/ AbortTask
  BY <1>2, <1>7 DEF Wake, Forward, TimeOut, BeginServing, AbortTask
<1>8. CASE \E valid \in BOOLEAN : Receive(valid)
  <2>1. UNCHANGED <<requests, todo, subs, lost>> /\ loop # "ended"
    BY <1>8 DEF Receive
  <2> QED
    BY <1>2, <2>1
<1>9. CASE \E understood \in BOOLEAN : Handle(understood)
  BY <1>2, <1>9 DEF Handle
<1>10. CASE Start
  BY <1>3, <1>10 DEF Start, Room
<1>11. CASE Connected
  <2>1. requests' = <<>> /\ todo' = RequestList
    BY <1>11 DEF Connected, Room
  <2>2. requests' \o todo' = RequestList
    BY <2>1, RequestListType
  <2> QED
    BY <2>2, RequestListPreceded
<1>12. CASE MakeRequest
  <2>1. requests' \o todo' = requests \o todo
    BY <1>1, <1>12, Moved DEF MakeRequest
  <2> QED
    BY <1>12, <2>1 DEF MakeRequest, AskedInOrder
<1>13. CASE SendRequest
  <2> DEFINE q == requests \o todo
  <2>1. /\ requests # <<>> /\ requests' = Tail(requests) /\ todo' = todo
        /\ subs' = subs \cup ({Head(requests)} \cap Topics) /\ ~lost /\ loop # "ended"
    BY <1>13 DEF SendRequest
  <2>2. /\ q \in Seq(Request) /\ q # <<>>
        /\ Head(q) = Head(requests) /\ Tail(q) = requests' \o todo'
    <3>1. requests \o todo \in Seq(Request)
      BY <1>1, ConcatProperties, Zenon
    <3> QED
      BY <1>1, <2>1, <3>1, TakenFromConcat
  <2>3. Preceded(q, subs) /\ subs' = subs \cup ({q[1]} \cap Topics)
    <3>1. Head(q) = q[1]
      BY <2>2, Taken
    <3> QED
      BY <2>1, <2>2, <3>1 DEF AskedInOrder
  <2>4. Preceded(Tail(q), subs')
    <3> HIDE DEF q
    <3>1. /\ Len(q) \in Nat \ {0} /\ Len(Tail(q)) = Len(q) - 1
          /\ \A i \in 1..(Len(q) - 1) : Tail(q)[i] = q[i + 1]
          /\ \A i \in 1..Len(q) : q[i] \in Request
      BY <2>2, Taken
    <3> SUFFICES ASSUME NEW i \in 1..Len(Tail(q)), Tail(q)[i][2] = "get", NEW kind \in TopicKinds
                 PROVE  \/ <<Tail(q)[i][1], kind>> \in subs'
                        \/ \E k \in 1..(i - 1) : Tail(q)[k] = <<Tail(q)[i][1], kind>>
      BY DEF Preceded
    <3>2. i \in 1..(Len(q) - 1) /\ i + 1 \in 1..Len(q) /\ Tail(q)[i] = q[i + 1]
      BY <3>1
    <3>3. \/ <<q[i + 1][1], kind>> \in subs
          \/ \E k \in 1..((i + 1) - 1) : q[k] = <<q[i + 1][1], kind>>
      BY <2>3, <3>2 DEF Preceded
    <3>4. CASE <<q[i + 1][1], kind>> \in subs
      BY <2>3, <3>2, <3>4
    <3>5. ASSUME NEW k \in 1..((i + 1) - 1), q[k] = <<q[i + 1][1], kind>>
          PROVE  \/ <<Tail(q)[i][1], kind>> \in subs'
                 \/ \E l \in 1..(i - 1) : Tail(q)[l] = <<Tail(q)[i][1], kind>>
      <4>1. CASE k = 1
        <5>1. q[i + 1] \in Request
          BY <3>1, <3>2
        <5>2. <<q[i + 1][1], kind>> \in Topics
          BY <5>1 DEF Request, Topics
        <5> QED
          BY <2>3, <3>2, <3>5, <4>1, <5>2
      <4>2. CASE k # 1
        <5>1. /\ k - 1 \in 1..(i - 1) /\ k - 1 \in 1..(Len(q) - 1)
              /\ (k - 1) + 1 = k
          BY <3>2, <3>1, <4>2
        <5>2. Tail(q)[k - 1] = q[k]
          BY <3>1, <5>1
        <5> QED
          BY <3>2, <3>5, <5>1, <5>2
      <4> QED
        BY <4>1, <4>2
    <3> QED
      BY <3>3, <3>4, <3>5
  <2> QED
    BY <2>2, <2>4
<1>14. CASE UNCHANGED linkVars
  BY <1>2, <1>14 DEF linkVars
<1> QED
  BY <1>4, <1>5, <1>6, <1>7, <1>8, <1>9, <1>10, <1>11, <1>12, <1>13, <1>14
     DEF LinkNext, World, LoopStep, TaskStep
-----------------------------------------------------------------------------
(* The order of what is said. *)

\* A broker that passes on less than it has changes no order.
LEMMA FewerKeepOrder ==
  ASSUME SaidInOrder, UNCHANGED <<owed, presses, sent>>, Len(wire) \in Nat,
         Len(wire') \in Nat, Len(wire') <= Len(wire),
         \A i \in 1..Len(wire') : wire'[i] = wire[i]
  PROVE  SaidInOrder'
<1>1. \A i \in 1..Len(wire') : i \in 1..Len(wire)
  OBVIOUS
<1> QED
  BY <1>1 DEF SaidInOrder, AscendingWithin, Ascending, PressedBefore

\* What is said joins the wire behind everything that was said, under a number
\* of its own and with at most one action message.
LEMMA MoreKeepOrder ==
  ASSUME TypeInvariant, SaidInOrder, NEW ms \in Seq(Message), Publish(ms),
         sent' = sent + 1, UNCHANGED <<owed, presses>>,
         \A i \in 1..Len(ms) : ms[i].num = sent + 1,
         \A i, j \in 1..Len(ms) : ms[i].kind = "action" /\ ms[j].kind = "action" => i = j
  PROVE  SaidInOrder'
<1> DEFINE n == Len(wire)
<1>1. /\ wire \in Seq(Message) /\ n \in Nat /\ Len(ms) \in Nat /\ sent \in Nat
      /\ presses \in Seq(1..MaxSent) /\ owed \in Seq(Message)
  BY Bounds DEF TypeInvariant
<1>2. \A m \in Message : m.num \in Nat
  BY MessageFields, Bounds
<1>3. /\ \A i \in 1..Len(owed) : owed[i].num \in Nat /\ owed[i].num < sent + 1
      /\ \A i \in 1..n : wire[i].num \in Nat /\ wire[i].num < sent + 1
      /\ \A i \in 1..Len(presses) : presses[i] \in Nat /\ presses[i] < sent + 1
  <2>1. \A i \in 1..Len(owed) : owed[i].num \in Nat /\ owed[i].num <= sent
    BY <1>1, <1>2 DEF SaidInOrder
  <2>2. \A i \in 1..n : wire[i].num \in Nat /\ wire[i].num <= sent
    BY <1>1, <1>2 DEF SaidInOrder
  <2>3. \A i \in 1..Len(presses) : presses[i] \in Nat /\ presses[i] <= sent
    <3>1. \A i \in 1..Len(presses) : presses[i] \in 1..MaxSent
      BY <1>1, ElementOfSeq, Zenon
    <3>2. \A k \in 1..MaxSent : k \in Nat
      BY Bounds
    <3> QED
      BY <3>1, <3>2 DEF SaidInOrder
  <2> QED
    BY <1>1, <2>1, <2>2, <2>3
<1>4. CASE wire' = wire
  <2>1. /\ \A i \in 1..Len(owed) : owed[i].num <= sent'
        /\ \A i \in 1..n : wire[i].num <= sent'
        /\ \A i \in 1..Len(presses) : presses[i] <= sent'
    BY <1>1, <1>3
  <2> QED
    BY <1>4, <2>1 DEF SaidInOrder, AscendingWithin, Ascending, PressedBefore
<1>5. CASE wire' = wire \o ms
  <2>1. /\ Len(wire \o ms) = Len(wire) + Len(ms)
        /\ \A i \in 1..(Len(wire) + Len(ms)) :
             (wire \o ms)[i] = IF i <= Len(wire) THEN wire[i] ELSE ms[i - Len(wire)]
    BY <1>1, ConcatProperties, Zenon
  <2>2. Len(wire') = n + Len(ms)
    BY <1>5, <2>1
  <2>3. \A i \in 1..n : wire'[i] = wire[i]
    BY <1>1, <1>5, <2>1
  <2>4. \A i \in 1..Len(ms) : wire'[n + i] = ms[i]
    <3> SUFFICES ASSUME NEW i \in 1..Len(ms) PROVE wire'[n + i] = ms[i]
      OBVIOUS
    <3>1. n + i \in 1..(n + Len(ms)) /\ ~(n + i <= n) /\ (n + i) - n = i
      BY <1>1
    <3> QED
      BY <1>5, <2>1, <3>1
  <2>5. \A i \in 1..Len(wire') : i \in 1..n \/ \E k \in 1..Len(ms) : i = n + k
    <3> SUFFICES ASSUME NEW i \in 1..Len(wire'), i \notin 1..n
                 PROVE  \E k \in 1..Len(ms) : i = n + k
      OBVIOUS
    <3>1. i - n \in 1..Len(ms) /\ i = n + (i - n)
      BY <1>1, <2>2
    <3> QED
      BY <3>1
  <2>6. \A i \in 1..Len(ms) : wire'[n + i].num = sent + 1
    BY <2>4
  <2> HIDE DEF n
  <2>7. AscendingWithin(wire)'
    <3> SUFFICES ASSUME NEW i \in 1..Len(wire'), NEW j \in 1..Len(wire'), i < j,
                        wire'[i].kind = "action", wire'[j].kind = "action"
                 PROVE  wire'[i].num < wire'[j].num
      BY DEF AscendingWithin
    <3>1. CASE i \in 1..n /\ j \in 1..n
      <4>1. wire'[i] = wire[i] /\ wire'[j] = wire[j]
        BY <2>3, <3>1
      <4> QED
        BY <3>1, <4>1 DEF SaidInOrder, AscendingWithin, n
    <3>2. CASE i \in 1..n /\ j \notin 1..n
      <4>1. wire'[i] = wire[i] /\ wire'[j].num = sent + 1
        BY <2>3, <2>5, <2>6, <3>2
      <4>2. wire[i].num < sent + 1
        BY <1>3, <3>2
      <4> QED
        BY <4>1, <4>2
    <3>3. CASE i \notin 1..n
      <4>1. PICK k \in 1..Len(ms) : i = n + k
        BY <2>5, <3>3
      <4>2. j \notin 1..n
        BY <1>1, <4>1
      <4>3. PICK l \in 1..Len(ms) : j = n + l
        BY <2>5, <4>2
      <4>4. ms[k].kind = "action" /\ ms[l].kind = "action" /\ k # l
        BY <1>1, <2>4, <4>1, <4>3
      <4> QED
        BY <4>4
    <3> QED
      BY <3>1, <3>2, <3>3
  <2>8. \A i \in 1..Len(wire') : wire'[i].num = sent + 1 \/ (i \in 1..n /\ wire'[i] = wire[i])
    BY <2>3, <2>5, <2>6
  <2>9. Ascending(owed, wire)'
    <3> SUFFICES ASSUME NEW i \in 1..Len(owed), NEW j \in 1..Len(wire'),
                        owed[i].kind = "action", wire'[j].kind = "action"
                 PROVE  owed[i].num < wire'[j].num
      BY DEF Ascending
    <3> QED
      BY <1>3, <2>8 DEF SaidInOrder, Ascending, n
  <2>10. PressedBefore(wire)'
    <3> SUFFICES ASSUME NEW i \in 1..Len(presses), NEW j \in 1..Len(wire'),
                        wire'[j].kind = "action"
                 PROVE  presses[i] < wire'[j].num
      BY DEF PressedBefore
    <3> QED
      BY <1>3, <2>8 DEF SaidInOrder, PressedBefore, n
  <2>11. AscendingWithin(owed)' /\ PressedBefore(owed)'
    BY DEF SaidInOrder, AscendingWithin, PressedBefore
  <2>12. /\ \A i \in 1..Len(owed') : owed'[i].num <= sent'
         /\ \A i \in 1..Len(presses') : presses'[i] <= sent'
    BY <1>1, <1>3
  <2>13. \A i, j \in 1..Len(presses') : i < j => presses'[i] < presses'[j]
    BY DEF SaidInOrder
  <2>14. \A i \in 1..Len(wire') : wire'[i].num <= sent'
    <3> SUFFICES ASSUME NEW i \in 1..Len(wire') PROVE wire'[i].num <= sent'
      OBVIOUS
    <3>1. CASE wire'[i].num = sent + 1
      BY <1>1, <3>1
    <3>2. CASE i \in 1..n /\ wire'[i] = wire[i]
      BY <1>1, <1>3, <3>2
    <3> QED
      BY <2>8, <3>1, <3>2
  <2> QED
    BY <2>7, <2>9, <2>10, <2>11, <2>12, <2>13, <2>14 DEF SaidInOrder
<1> QED
  BY <1>4, <1>5, PublishType

\* A message that is read leaves the wire first, and joins what was read last.
LEMMA ReadKeepsOrder ==
  ASSUME TypeInvariant, SaidInOrder, wire # <<>>, wire' = Tail(wire),
         owed' = owed \/ owed' = Append(owed, Head(wire)), UNCHANGED <<presses, sent>>
  PROVE  SaidInOrder'
<1> DEFINE n == Len(owed)
           m == Len(wire)
<1>1. /\ wire \in Seq(Message) /\ owed \in Seq(Message) /\ n \in Nat /\ m \in Nat \ {0}
  BY DEF TypeInvariant
<1>2. /\ Len(wire') = m - 1 /\ \A i \in 1..(m - 1) : wire'[i] = wire[i + 1]
      /\ Head(wire) \in Message /\ Head(wire) = wire[1]
  BY <1>1, Taken
<1>3. \A i \in 1..Len(wire') : i + 1 \in 1..m /\ i + 1 # 1 /\ 1 < i + 1 /\ wire'[i] = wire[i + 1]
  BY <1>1, <1>2
<1> HIDE DEF n, m
<1>4. 1 \in 1..m
  BY <1>1
<1>5. AscendingWithin(wire)' /\ PressedBefore(wire)' /\ \A i \in 1..Len(wire') : wire'[i].num <= sent'
  <2>1. AscendingWithin(wire)'
    <3> SUFFICES ASSUME NEW i \in 1..Len(wire'), NEW j \in 1..Len(wire'), i < j,
                        wire'[i].kind = "action", wire'[j].kind = "action"
                 PROVE  wire'[i].num < wire'[j].num
      BY DEF AscendingWithin
    <3>1. i + 1 \in 1..m /\ j + 1 \in 1..m /\ i + 1 < j + 1
      BY <1>3
    <3> QED
      BY <1>3, <3>1 DEF SaidInOrder, AscendingWithin, m
  <2>2. PressedBefore(wire)'
    BY <1>3 DEF SaidInOrder, PressedBefore, m
  <2>3. \A i \in 1..Len(wire') : wire'[i].num <= sent'
    BY <1>3 DEF SaidInOrder, m
  <2> QED
    BY <2>1, <2>2, <2>3
<1>6. /\ \A i \in 1..Len(presses') : presses'[i] <= sent'
      /\ \A i, j \in 1..Len(presses') : i < j => presses'[i] < presses'[j]
  BY DEF SaidInOrder
<1>7. CASE owed' = owed
  <2>1. Ascending(owed, wire)'
    BY <1>3, <1>7 DEF SaidInOrder, Ascending, m
  <2> QED
    BY <1>5, <1>6, <1>7, <2>1 DEF SaidInOrder, AscendingWithin, PressedBefore
<1>8. CASE owed' = Append(owed, Head(wire))
  <2>1. /\ Len(owed') = n + 1
        /\ \A i \in 1..n : owed'[i] = owed[i]
        /\ owed'[n + 1] = wire[1]
    BY <1>1, <1>2, <1>8, Put DEF n
  <2>2. \A i \in 1..Len(owed') : i = n + 1 \/ (i \in 1..n /\ owed'[i] = owed[i])
    BY <1>1, <2>1
  <2>3. AscendingWithin(owed)'
    <3> SUFFICES ASSUME NEW i \in 1..Len(owed'), NEW j \in 1..Len(owed'), i < j,
                        owed'[i].kind = "action", owed'[j].kind = "action"
                 PROVE  owed'[i].num < owed'[j].num
      BY DEF AscendingWithin
    <3>1. i \in 1..n /\ owed'[i] = owed[i]
      BY <1>1, <2>1, <2>2
    <3>2. CASE j = n + 1
      BY <1>4, <2>1, <3>1, <3>2 DEF SaidInOrder, Ascending, n, m
    <3>3. CASE j \in 1..n /\ owed'[j] = owed[j]
      BY <3>1, <3>3 DEF SaidInOrder, AscendingWithin, n
    <3> QED
      BY <2>2, <3>2, <3>3
  <2>4. Ascending(owed, wire)'
    <3> SUFFICES ASSUME NEW i \in 1..Len(owed'), NEW j \in 1..Len(wire'),
                        owed'[i].kind = "action", wire'[j].kind = "action"
                 PROVE  owed'[i].num < wire'[j].num
      BY DEF Ascending
    <3>1. CASE i = n + 1
      BY <1>3, <1>4, <2>1, <3>1 DEF SaidInOrder, AscendingWithin, m
    <3>2. CASE i \in 1..n /\ owed'[i] = owed[i]
      BY <1>3, <3>2 DEF SaidInOrder, Ascending, n, m
    <3> QED
      BY <2>2, <3>1, <3>2
  <2>5. PressedBefore(owed)'
    <3> SUFFICES ASSUME NEW i \in 1..Len(presses), NEW j \in 1..Len(owed'),
                        owed'[j].kind = "action"
                 PROVE  presses[i] < owed'[j].num
      BY DEF PressedBefore
    <3>1. CASE j = n + 1
      BY <1>4, <2>1, <3>1 DEF SaidInOrder, PressedBefore, m
    <3>2. CASE j \in 1..n /\ owed'[j] = owed[j]
      BY <3>2 DEF SaidInOrder, PressedBefore, n
    <3> QED
      BY <2>2, <3>1, <3>2
  <2>6. \A i \in 1..Len(owed') : owed'[i].num <= sent'
    BY <1>4, <2>1, <2>2 DEF SaidInOrder, n, m
  <2> QED
    BY <1>5, <1>6, <2>3, <2>4, <2>5, <2>6 DEF SaidInOrder
<1> QED
  BY <1>7, <1>8

\* The message that is handled is the oldest of those that were read.
LEMMA HandlingKeepsOrder ==
  ASSUME TypeInvariant, SaidInOrder, owed # <<>>, owed' = Tail(owed),
         presses' = presses \/ presses' = presses \o Pressed(Head(owed)), UNCHANGED <<wire, sent>>
  PROVE  SaidInOrder'
<1> DEFINE n == Len(owed)
           p == Len(presses)
<1>1. owed \in Seq(Message) /\ n \in Nat \ {0} /\ presses \in Seq(1..MaxSent) /\ p \in Nat
  BY DEF TypeInvariant
<1>2. /\ Len(owed') = n - 1 /\ \A i \in 1..(n - 1) : owed'[i] = owed[i + 1]
      /\ Head(owed) \in Message /\ Head(owed) = owed[1]
  BY <1>1, Taken
<1>3. \A i \in 1..Len(owed') : i + 1 \in 1..n /\ 1 < i + 1 /\ owed'[i] = owed[i + 1]
  BY <1>1, <1>2
<1>4. /\ Head(owed).num \in 1..MaxSent
      /\ Pressed(Head(owed)) = IF Head(owed).kind = "action" THEN <<Head(owed).num>> ELSE <<>>
  BY <1>2, MessageFields DEF Pressed
<1> HIDE DEF n, p
<1>5. 1 \in 1..n
  BY <1>1
<1>6. AscendingWithin(wire)' /\ \A i \in 1..Len(wire') : wire'[i].num <= sent'
  BY DEF SaidInOrder, AscendingWithin
<1>7. AscendingWithin(owed)' /\ Ascending(owed, wire)' /\ \A i \in 1..Len(owed') : owed'[i].num <= sent'
  <2>1. AscendingWithin(owed)'
    <3> SUFFICES ASSUME NEW i \in 1..Len(owed'), NEW j \in 1..Len(owed'), i < j,
                        owed'[i].kind = "action", owed'[j].kind = "action"
                 PROVE  owed'[i].num < owed'[j].num
      BY DEF AscendingWithin
    <3>1. i + 1 \in 1..n /\ j + 1 \in 1..n /\ i + 1 < j + 1
      BY <1>3
    <3> QED
      BY <1>3, <3>1 DEF SaidInOrder, AscendingWithin, n
  <2>2. Ascending(owed, wire)'
    BY <1>3 DEF SaidInOrder, Ascending, n
  <2>3. \A i \in 1..Len(owed') : owed'[i].num <= sent'
    BY <1>3 DEF SaidInOrder, n
  <2> QED
    BY <2>1, <2>2, <2>3
<1>8. CASE presses' = presses
  <2>1. PressedBefore(owed)'
    BY <1>3, <1>8 DEF SaidInOrder, PressedBefore, n
  <2> QED
    BY <1>6, <1>7, <1>8, <2>1 DEF SaidInOrder, PressedBefore
<1>9. CASE Head(owed).kind = "action" /\ presses' = presses \o <<Head(owed).num>>
  <2>1. /\ Len(presses') = p + 1
        /\ \A i \in 1..p : presses'[i] = presses[i]
        /\ presses'[p + 1] = owed[1].num
    <3>1. Append(presses, Head(owed).num) = presses \o <<Head(owed).num>>
      BY <1>1, <1>4, Put
    <3> QED
      BY <1>1, <1>2, <1>4, <1>9, <3>1, Put DEF p
  <2>2. \A i \in 1..Len(presses') : i = p + 1 \/ (i \in 1..p /\ presses'[i] = presses[i])
    BY <1>1, <2>1
  <2>3. owed[1].kind = "action"
    BY <1>2, <1>9
  <2>4. PressedBefore(owed)'
    <3> SUFFICES ASSUME NEW i \in 1..Len(presses'), NEW j \in 1..Len(owed'),
                        owed'[j].kind = "action"
                 PROVE  presses'[i] < owed'[j].num
      BY DEF PressedBefore
    <3>1. CASE i = p + 1
      BY <1>3, <1>5, <2>1, <2>3, <3>1 DEF SaidInOrder, AscendingWithin, n
    <3>2. CASE i \in 1..p /\ presses'[i] = presses[i]
      BY <1>3, <3>2 DEF SaidInOrder, PressedBefore, n, p
    <3> QED
      BY <2>2, <3>1, <3>2
  <2>5. PressedBefore(wire)'
    <3> SUFFICES ASSUME NEW i \in 1..Len(presses'), NEW j \in 1..Len(wire),
                        wire[j].kind = "action"
                 PROVE  presses'[i] < wire[j].num
      BY DEF PressedBefore
    <3>1. CASE i = p + 1
      BY <1>5, <2>1, <2>3, <3>1 DEF SaidInOrder, Ascending, n
    <3>2. CASE i \in 1..p /\ presses'[i] = presses[i]
      BY <3>2 DEF SaidInOrder, PressedBefore, p
    <3> QED
      BY <2>2, <3>1, <3>2
  <2>6. \A i \in 1..Len(presses') : presses'[i] <= sent'
    BY <1>5, <2>1, <2>2 DEF SaidInOrder, n, p
  <2>7. \A i, j \in 1..Len(presses') : i < j => presses'[i] < presses'[j]
    <3> SUFFICES ASSUME NEW i \in 1..Len(presses'), NEW j \in 1..Len(presses'), i < j
                 PROVE  presses'[i] < presses'[j]
      OBVIOUS
    <3>1. i \in 1..p /\ presses'[i] = presses[i]
      BY <1>1, <2>1, <2>2
    <3>2. CASE j = p + 1
      BY <1>5, <2>1, <2>3, <3>1, <3>2 DEF SaidInOrder, PressedBefore, n, p
    <3>3. CASE j \in 1..p /\ presses'[j] = presses[j]
      BY <3>1, <3>3 DEF SaidInOrder, p
    <3> QED
      BY <2>2, <3>2, <3>3
  <2> QED
    BY <1>6, <1>7, <2>4, <2>5, <2>6, <2>7 DEF SaidInOrder
<1> QED
  <2>1. CASE Head(owed).kind # "action"
    <3>1. presses' = presses
      BY <1>1, <1>4, <2>1
    <3> QED
      BY <1>8, <3>1
  <2>2. CASE Head(owed).kind = "action"
    BY <1>4, <1>8, <1>9, <2>2
  <2> QED
    BY <2>1, <2>2

\* No step changes the order of what was said.
LEMMA LinkOrder ==
  TypeInvariant /\ AllAccountedFor /\ SaidInOrder /\ [LinkNext]_linkVars => SaidInOrder'
<1> SUFFICES ASSUME TypeInvariant, AllAccountedFor, SaidInOrder, [LinkNext]_linkVars
             PROVE  SaidInOrder'
  OBVIOUS
<1> USE DEF brokerVars, worldVars, loopVars, taskVars
<1>1. CASE UNCHANGED <<owed, presses, sent, wire>>
  BY <1>1 DEF SaidInOrder, AscendingWithin, Ascending, PressedBefore
<1>2. CASE UNCHANGED <<owed, presses, sent>> /\ wire' = <<>>
  <2>1. Len(wire) \in Nat /\ Len(wire') = 0
    BY <1>2 DEF TypeInvariant
  <2> QED
    BY <1>2, <2>1, FewerKeepOrder
<1>3. CASE \E d \in Device : Measure(d)
  <2>1. PICK d \in Device : Measure(d)
    BY <1>3
  <2>2. /\ sent < MaxSent /\ "state" \in TopicKinds /\ FALSE \in BOOLEAN
        /\ sent' = sent + 1 /\ UNCHANGED <<owed, presses>>
        /\ Publish(Subscribed(Says(d, "state", FALSE)))
    BY <2>1 DEF Measure, TopicKinds
  <2> DEFINE m == Says(d, "state", FALSE)
             ms == Subscribed(m)
  <2>3. m.num = sent + 1 /\ ms \in Seq(Message)
    BY <2>2, SaidType
  <2>4. ms = <<>> \/ ms = <<m>>
    BY DEF Subscribed
  <2> HIDE DEF m, ms
  <2>5. /\ \A i \in 1..Len(ms) : ms[i].num = sent + 1
        /\ \A i, j \in 1..Len(ms) : ms[i].kind = "action" /\ ms[j].kind = "action" => i = j
    BY <2>3, <2>4
  <2> QED
    BY <2>2, <2>3, <2>5, MoreKeepOrder DEF m, ms
<1>4. CASE \E d \in Device : Press(d)
  <2>1. PICK d \in Device : Press(d)
    BY <1>4
  <2> DEFINE m == Says(d, "state", TRUE)
             a == Says(d, "action", TRUE)
             ms == Subscribed(m) \o Subscribed(a)
  <2>2. /\ sent < MaxSent /\ "state" \in TopicKinds /\ "action" \in TopicKinds /\ TRUE \in BOOLEAN
        /\ sent' = sent + 1 /\ UNCHANGED <<owed, presses>> /\ Publish(ms)
    BY <2>1 DEF Press, TopicKinds
  <2>3. /\ m.num = sent + 1 /\ m.kind = "state" /\ a.num = sent + 1 /\ a.kind = "action"
        /\ m \in Message /\ a \in Message
        /\ Subscribed(m) \in Seq(Message) /\ Subscribed(a) \in Seq(Message)
    BY <2>2, SaidType
  <2>4. ms \in Seq(Message)
    BY <2>3, ConcatProperties, Zenon
  <2>5. /\ Subscribed(m) = <<>> \/ Subscribed(m) = <<m>>
        /\ Subscribed(a) = <<>> \/ Subscribed(a) = <<a>>
    BY DEF Subscribed
  <2>6. ms \in {<<>>, <<m>>, <<a>>, <<m, a>>}
    <3> HIDE DEF m, a
    <3>1. \A s \in Seq(Message) : s \o <<>> = s /\ <<>> \o s = s
      BY ConcatEmptySeq
    <3>2. CASE Subscribed(m) = <<>> \/ Subscribed(a) = <<>>
      BY <2>3, <2>5, <3>1, <3>2
    <3>3. CASE Subscribed(m) = <<m>> /\ Subscribed(a) = <<a>>
      <4>1. <<m>> \o <<a>> = <<m, a>>
        BY PairConcat
      <4> QED
        BY <3>3, <4>1
    <3> QED
      BY <2>5, <3>2, <3>3
  <2> HIDE DEF m, a, ms
  <2>7. /\ \A i \in 1..Len(ms) : ms[i].num = sent + 1
        /\ \A i, j \in 1..Len(ms) : ms[i].kind = "action" /\ ms[j].kind = "action" => i = j
    BY <2>3, <2>6
  <2> QED
    BY <2>2, <2>4, <2>7, MoreKeepOrder
<1>5. CASE Lose
  <2>1. PICK k \in 0..Len(wire) : wire' = SubSeq(wire, 1, k)
    BY <1>5 DEF Lose
  <2>2. Len(wire') = k /\ \A i \in 1..k : wire'[i] = wire[i]
    BY <2>1, LostPart
  <2>3. Len(wire) \in Nat /\ UNCHANGED <<owed, presses, sent>>
    BY <1>5 DEF Lose, TypeInvariant
  <2> QED
    BY <2>2, <2>3, FewerKeepOrder
<1>6. CASE Connect \/ PollError \/ ForwardFails \/ AbortLoop
  BY <1>2, <1>6 DEF Connect, PollError, ForwardFails, AbortLoop, EndLoop
<1>7. CASE Wake \/ SendRequest \/ Forward \/ Start \/ Connected
  BY <1>1, <1>7 DEF Wake, SendRequest, Forward, Start, Connected
<1>8. CASE TimeOut \/ MakeRequest \/ BeginServing \/ AbortTask
  BY <1>1, <1>8 DEF TimeOut, MakeRequest, BeginServing, AbortTask
<1>9. CASE \E valid \in BOOLEAN : Receive(valid)
  <2>1. /\ wire # <<>> /\ wire' = Tail(wire) /\ UNCHANGED <<presses, sent>>
        /\ owed' = owed \/ owed' = Append(owed, Head(wire))
    BY <1>9 DEF Receive
  <2> QED
    BY <2>1, ReadKeepsOrder
<1>10. CASE \E understood \in BOOLEAN : Handle(understood)
  <2>1. /\ messages # <<>> /\ task = "serving" /\ owed' = Tail(owed) /\ UNCHANGED <<wire, sent>>
        /\ presses' = presses \/ presses' = presses \o Pressed(Head(messages))
    BY <1>10 DEF Handle
  <2>2. /\ messages \in Seq(Message) /\ InHand \in Seq(Message)
        /\ owed = messages \o InHand
    BY <2>1, InHandType DEF TypeInvariant, AllAccountedFor, InHand
  <2>3. owed # <<>> /\ Head(owed) = Head(messages)
    BY <2>1, <2>2, TakenFromConcat
  <2> QED
    BY <2>1, <2>3, HandlingKeepsOrder
<1>11. CASE UNCHANGED linkVars
  BY <1>1, <1>11 DEF linkVars
<1> QED
  BY <1>3, <1>4, <1>5, <1>6, <1>7, <1>8, <1>9, <1>10, <1>11
     DEF LinkNext, World, LoopStep, TaskStep
-----------------------------------------------------------------------------
(* The process. *)

IInv == LinkIInv /\ LifeTypes

\* The invariant of the process holds at the start.
LEMMA InitIInv == Init => IInv
BY InitLink DEF Init, IInv, LifeTypes

\* Every step of the process is a step of the link, or none of it.
LEMMA NextLinkNext == [Next]_vars => [LinkNext]_linkVars
<1> SUFFICES ASSUME [Next]_vars PROVE LinkNext \/ UNCHANGED linkVars
  OBVIOUS
<1>1. CASE UNCHANGED vars
  BY <1>1 DEF vars
<1>2. CASE MainStep \/ CtrlC
  BY <1>2 DEF MainStep, CtrlC, StartTasks, SpawnMatter, SignalShutdown, AbortTasks, Joined,
    GiveUp, LinkNext
<1>3. CASE MatterStep
  BY <1>3 DEF MatterStep, InitSignal, BeginSelect, Fail, BeginStore, EndStore, TakeShutdown
<1>4. CASE World \/ LoopStep \/ TaskStep
  BY <1>4 DEF LinkNext
<1> QED
  BY <1>1, <1>2, <1>3, <1>4 DEF Next

\* Every step of the process keeps the invariant.
LEMMA NextIInv == IInv /\ [Next]_vars => IInv'
<1> SUFFICES ASSUME IInv, [Next]_vars PROVE IInv'
  OBVIOUS
<1>1. LinkIInv'
  BY NextLinkNext, LinkTypes, NoMessageLost, LinkRoom, LinkAsked, LinkOrder DEF IInv, LinkIInv
<1>2. LifeTypes'
  BY DEF IInv, LifeTypes, Next, vars, lifeVars, MainStep, CtrlC, StartTasks, SpawnMatter,
    SignalShutdown, AbortTasks, Joined, GiveUp, MatterStep, InitSignal, BeginSelect, Fail,
    BeginStore, EndStore, TakeShutdown
<1> QED
  BY <1>1, <1>2 DEF IInv

\* The inductive invariant holds of every state.
THEOREM Invariance == Spec => []IInv
  BY InitIInv, NextIInv, PTL DEF Spec

\* Every variable keeps its type; both channels stay within their capacity.
THEOREM TypeCorrect == Spec => []TypeInvariantLife
<1>1. IInv => TypeInvariantLife
  BY DEF IInv, LinkIInv, TypeInvariantLife
<1> QED
  BY Invariance, <1>1, PTL

\* While the task lives, no message the loop has read is lost or overtaken.
THEOREM MessagesAccountedFor == Spec => []AllAccountedFor
<1>1. IInv => AllAccountedFor
  BY DEF IInv, LinkIInv
<1> QED
  BY Invariance, <1>1, PTL

\* No button is pressed twice, or out of order, for one press.
THEOREM PressesCorrect == Spec => []PressedOnceInOrder
<1>1. IInv => PressedOnceInOrder
  <2> SUFFICES ASSUME IInv PROVE PressedOnceInOrder
    OBVIOUS
  <2>1. presses \in Seq(1..MaxSent)
    BY DEF IInv, LinkIInv, TypeInvariant
  <2>2. DOMAIN presses = 1..Len(presses)
    BY <2>1, LenProperties, Zenon
  <2> QED
    BY <2>2 DEF IInv, LinkIInv, SaidInOrder, PressedOnceInOrder
<1> QED
  BY Invariance, <1>1, PTL

\* The loop and the task never wait for each other.
THEOREM GridlockFree == Spec => []NoGridlock
<1>1. IInv => NoGridlock
  <2> SUFFICES ASSUME IInv, todo # <<>> PROVE Len(requests) < ReqCap
    BY DEF NoGridlock, RoomForRequest
  <2>1. requests \in Seq(Request) /\ todo \in Seq(Request)
    BY DEF IInv, LinkIInv, TypeInvariant
  <2>2. Len(requests) \in Nat /\ Len(todo) \in Nat \ {0} /\ Len(RequestList) \in Nat
    BY <2>1, Taken, RequestListType
  <2>3. Len(requests) + Len(todo) <= Len(RequestList)
    BY DEF IInv, LinkIInv, Room
  <2> QED
    BY <2>2, <2>3, Bounds
<1> QED
  BY Invariance, <1>1, PTL

\* A device is asked for its state only when its answer will be received.
THEOREM AnswersReceived == Spec => GetAfterSubscribe
<1> DEFINE Asked == ~lost /\ requests # <<>> /\ requests' = Tail(requests)
                      /\ Head(requests)[2] = "get"
                        => {Head(requests)[1]} \X TopicKinds \subseteq subs
<1>1. IInv /\ [Next]_vars => [Asked]_linkVars
  <2> SUFFICES ASSUME IInv, [Next]_vars, ~lost, requests # <<>>, requests' = Tail(requests),
                      Head(requests)[2] = "get"
               PROVE  {Head(requests)[1]} \X TopicKinds \subseteq subs
    OBVIOUS
  <2>1. requests \in Seq(Request) /\ todo \in Seq(Request)
    BY DEF IInv, LinkIInv, TypeInvariant
  <2>2. Len(requests) \in Nat \ {0} /\ Len(requests') = Len(requests) - 1 /\ Head(requests) = requests[1]
    BY <2>1, Taken
  <2>3. loop # "ended"
    <3>1. SendRequest \/ PollError
      <4>1. ASSUME requests' = requests PROVE FALSE
        <5>1. Len(requests') = Len(requests)
          BY <4>1
        <5> QED
          BY <2>2, <5>1
      <4>2. ASSUME MakeRequest PROVE FALSE
        <5>1. todo # <<>> /\ requests' = Append(requests, Head(todo))
          BY <4>2 DEF MakeRequest
        <5>2. Len(requests') = Len(requests) + 1
          BY <2>1, <5>1, Taken, Put
        <5> QED
          BY <2>2, <5>2
      <4> QED
        BY <4>1, <4>2, NextLinkNext DEF LinkNext, World, LoopStep, TaskStep, linkVars, Measure,
          Press, Lose, Connect, Wake, Receive, Forward, ForwardFails, Connected, TimeOut,
          AbortLoop, BeginServing, Handle, Start, AbortTask
    <3> QED
      BY <3>1 DEF SendRequest, PollError
  <2>4. Preceded(requests \o todo, subs)
    BY <2>3 DEF IInv, LinkIInv, AskedInOrder
  <2>5. 1 \in 1..Len(requests \o todo) /\ (requests \o todo)[1] = requests[1]
    BY <2>1, <2>2, ConcatProperties
  <2>6. \A kind \in TopicKinds : <<requests[1][1], kind>> \in subs
    BY <2>2, <2>4, <2>5 DEF Preceded
  <2> QED
    BY <2>2, <2>6
<1> QED
  BY <1>1, Invariance, PTL DEF Spec, GetAfterSubscribe
=============================================================================
