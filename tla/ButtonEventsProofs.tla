------------------------- MODULE ButtonEventsProofs --------------------------
(***************************************************************************)
(* Proofs about ButtonEvents, for any number of buttons and events and any *)
(* room in the queues: types, the order of the events, what a release says *)
(* of the event before it, that no notified event is forgotten, and when   *)
(* one may be lost.                                                        *)
(***************************************************************************)
EXTENDS ButtonEvents, Integers, SequenceTheorems, FiniteSetTheorems, TLAPS

-----------------------------------------------------------------------------
(* The inductive invariant.                                                  *)

\* Of two events of one button the one in s is the older.
Before(s, t) ==
  \A i \in 1..Len(s), j \in 1..Len(t) : s[i].button = t[j].button => s[i].num < t[j].num

Ascending(s) ==
  \A i, j \in 1..Len(s) : i < j /\ s[i].button = s[j].button => s[i].num < s[j].num

\* The events of a sequence have numbers that were given.
Numbered(s) == \A i \in 1..Len(s) : s[i].num <= number[s[i].button]

\* Reported, taken, pending: in this order, and each in the order of its numbers.
Ordered ==
  /\ Ascending(delivered) /\ Ascending(batch) /\ Before(delivered, batch)
  /\ Numbered(delivered) /\ Numbered(batch)
  /\ \A b \in Buttons :
       /\ Ascending(queue[b]) /\ Before(delivered, queue[b]) /\ Before(batch, queue[b])
       /\ Numbered(queue[b])
       /\ \A i \in 1..Len(queue[b]) : queue[b][i].button = b

\* The calls an action asked for are made or still in calls.
Asked ==
  /\ step # "move" => calls # <<>>
  /\ \A b \in Buttons : number[b] + (IF b = button THEN Len(calls) ELSE 0) <= asked

\* Whether the last event of b, if it was kept, was a press.
TellsLast(b, value) ==
  /\ number[b] = 0 => value = 0
  /\ \A f \in Events(b) : f.num = number[b] => (value = 1 <=> f.kind = "press")

\* The position of a button tells its last event, and once a call has moved it,
\* its next one; a release has then read the position before.
PositionTells ==
  /\ \A b \in Buttons : b # button \/ step = "move" => TellsLast(b, position[b])
  /\ step # "move" => /\ position[button] = 1 <=> Head(calls) = "press"
                      /\ Head(calls) = "release" => TellsLast(button, pos)

IInv ==
  TypeInvariant /\ Ordered /\ Asked /\ PositionTells /\ NoStuckEvent /\ ReleaseMatchesPress

-----------------------------------------------------------------------------
(* Sequences of events.                                                      *)

\* The elements of two sequences one after the other.
LEMMA Joined ==
  ASSUME NEW s \in Seq(Event), NEW t \in Seq(Event)
  PROVE  /\ s \o t \in Seq(Event) /\ Len(s \o t) = Len(s) + Len(t) /\ Len(s) \in Nat /\ Len(t) \in Nat
         /\ \A i \in 1..Len(s) : i \in 1..Len(s \o t) /\ (s \o t)[i] = s[i]
         /\ \A i \in 1..Len(t) : Len(s) + i \in 1..Len(s \o t) /\ (s \o t)[Len(s) + i] = t[i]
         /\ \A i \in 1..Len(s \o t) : i \notin 1..Len(s) => i - Len(s) \in 1..Len(t) /\ (s \o t)[i] = t[i - Len(s)]
         /\ ToSet(s \o t) = ToSet(s) \cup ToSet(t)
<1>1. /\ s \o t \in Seq(Event) /\ Len(s \o t) = Len(s) + Len(t)
      /\ \A i \in 1..(Len(s) + Len(t)) : (s \o t)[i] = IF i <= Len(s) THEN s[i] ELSE t[i - Len(s)]
  BY ConcatProperties, Zenon
<1>2. Len(s) \in Nat /\ Len(t) \in Nat
  OBVIOUS
<1>3. \A i \in 1..Len(s) : i \in 1..Len(s \o t) /\ (s \o t)[i] = s[i]
  BY <1>1, <1>2
<1>4. \A i \in 1..Len(t) : Len(s) + i \in 1..Len(s \o t) /\ (s \o t)[Len(s) + i] = t[i]
  <2> SUFFICES ASSUME NEW i \in 1..Len(t)
               PROVE  Len(s) + i \in 1..Len(s \o t) /\ (s \o t)[Len(s) + i] = t[i]
    OBVIOUS
  <2>1. Len(s) + i \in 1..(Len(s) + Len(t)) /\ ~(Len(s) + i <= Len(s)) /\ Len(s) + i - Len(s) = i
    BY <1>2
  <2> QED
    BY <1>1, <2>1
<1>5. \A i \in 1..Len(s \o t) : i \notin 1..Len(s) => i - Len(s) \in 1..Len(t) /\ (s \o t)[i] = t[i - Len(s)]
  BY <1>1, <1>2
<1>6. ToSet(s \o t) = ToSet(s) \cup ToSet(t)
  <2>1. DOMAIN s = 1..Len(s) /\ DOMAIN t = 1..Len(t) /\ DOMAIN (s \o t) = 1..Len(s \o t)
    BY <1>1
  <2>2. ASSUME NEW i \in 1..Len(s \o t) PROVE (s \o t)[i] \in ToSet(s) \cup ToSet(t)
    BY <1>3, <1>5, <2>1, <2>2 DEF ToSet
  <2>3. ASSUME NEW i \in 1..Len(s) PROVE s[i] \in ToSet(s \o t)
    BY <1>3, <2>1, <2>3 DEF ToSet
  <2>4. ASSUME NEW i \in 1..Len(t) PROVE t[i] \in ToSet(s \o t)
    BY <1>4, <2>1, <2>4 DEF ToSet
  <2> QED
    BY <2>1, <2>2, <2>3, <2>4 DEF ToSet
<1> QED
  BY <1>1, <1>2, <1>3, <1>4, <1>5, <1>6

\* Two ascending sequences, the one before the other, are one.
LEMMA JoinedAscending ==
  ASSUME NEW s \in Seq(Event), NEW t \in Seq(Event), Ascending(s), Ascending(t), Before(s, t)
  PROVE  Ascending(s \o t)
<1> DEFINE u == s \o t
<1>1. /\ Len(s) \in Nat /\ Len(t) \in Nat /\ Len(u) = Len(s) + Len(t)
      /\ \A i \in 1..Len(s) : u[i] = s[i]
      /\ \A i \in 1..Len(u) : i \notin 1..Len(s) => i - Len(s) \in 1..Len(t) /\ u[i] = t[i - Len(s)]
  BY Joined
<1> HIDE DEF u
<1> SUFFICES ASSUME NEW i \in 1..Len(u), NEW j \in 1..Len(u), i < j, u[i].button = u[j].button
             PROVE  u[i].num < u[j].num
  BY DEF Ascending, u
<1>2. CASE j \in 1..Len(s)
  <2>1. i \in 1..Len(s)
    BY <1>1, <1>2
  <2> QED
    BY <1>1, <1>2, <2>1 DEF Ascending
<1>3. CASE i \in 1..Len(s) /\ j \notin 1..Len(s)
  BY <1>1, <1>3 DEF Before
<1>4. CASE i \notin 1..Len(s) /\ j \notin 1..Len(s)
  <2>1. i - Len(s) < j - Len(s)
    BY <1>1
  <2> QED
    BY <1>1, <1>4, <2>1 DEF Ascending
<1> QED
  BY <1>1, <1>2, <1>3, <1>4

\* What is before or after two sequences is so of both together.
LEMMA JoinedBefore ==
  ASSUME NEW s \in Seq(Event), NEW t \in Seq(Event), NEW r \in Seq(Event)
  PROVE  /\ Before(s, r) /\ Before(t, r) => Before(s \o t, r)
         /\ Before(r, s) /\ Before(r, t) => Before(r, s \o t)
         /\ Numbered(s) /\ Numbered(t) => Numbered(s \o t)
<1>1. /\ \A i \in 1..Len(s) : (s \o t)[i] = s[i]
      /\ \A i \in 1..Len(s \o t) : i \notin 1..Len(s) => i - Len(s) \in 1..Len(t) /\ (s \o t)[i] = t[i - Len(s)]
  BY Joined
<1>2. Before(s, r) /\ Before(t, r) => Before(s \o t, r)
  BY <1>1 DEF Before
<1>3. Before(r, s) /\ Before(r, t) => Before(r, s \o t)
  BY <1>1 DEF Before
<1>4. Numbered(s) /\ Numbered(t) => Numbered(s \o t)
  BY <1>1 DEF Numbered
<1> QED
  BY <1>2, <1>3, <1>4

\* What fits are the first events.
LEMMA Fits ==
  ASSUME NEW s \in Seq(Event), NEW room \in Nat
  PROVE  /\ Fitting(s, room) \in Seq(Event) /\ Len(Fitting(s, room)) <= room
         /\ \A i \in 1..Len(Fitting(s, room)) : i \in 1..Len(s) /\ Fitting(s, room)[i] = s[i]
         /\ ToSet(Fitting(s, room)) \subseteq ToSet(s)
<1> DEFINE f == Fitting(s, room)
<1>1. /\ f \in Seq(Event) /\ Len(f) <= room
      /\ \A i \in 1..Len(f) : i \in 1..Len(s) /\ f[i] = s[i]
  <2>1. CASE Len(s) <= room
    BY <2>1 DEF Fitting
  <2>2. CASE ~(Len(s) <= room)
    <3>1. f = SubSeq(s, 1, room) /\ Len(s) \in Nat
      BY <2>2 DEF Fitting
    <3>2. SubSeq(s, 1, room) \in Seq(Event) /\ Len(SubSeq(s, 1, room)) = room
      BY <2>2, <3>1
    <3>3. \A i \in 1..room : SubSeq(s, 1, room)[i] = s[i]
      BY <2>2, <3>1
    <3> QED
      BY <2>2, <3>1, <3>2, <3>3
  <2> QED
    BY <2>1, <2>2
<1> HIDE DEF f
<1>2. ToSet(f) \subseteq ToSet(s)
  BY <1>1 DEF ToSet
<1> QED
  BY <1>1, <1>2 DEF f

\* A queue with one event more.
LEMMA Added ==
  ASSUME NEW s \in Seq(Event), NEW e \in Event
  PROVE  /\ Append(s, e) \in Seq(Event) /\ Len(Append(s, e)) = Len(s) + 1 /\ Len(s) \in Nat
         /\ \A i \in 1..Len(s) : Append(s, e)[i] = s[i]
         /\ Append(s, e)[Len(s) + 1] = e
         /\ ToSet(Append(s, e)) = ToSet(s) \cup {e}
<1> DEFINE t == Append(s, e)
<1>1. /\ t \in Seq(Event) /\ Len(t) = Len(s) + 1 /\ Len(s) \in Nat
      /\ \A i \in 1..Len(s) : t[i] = s[i]
      /\ t[Len(s) + 1] = e
      /\ DOMAIN s = 1..Len(s) /\ DOMAIN t = 1..(Len(s) + 1)
  OBVIOUS
<1> HIDE DEF t
<1>2. \A i \in 1..(Len(s) + 1) : i \in 1..Len(s) \/ i = Len(s) + 1
  BY <1>1
<1>3. \A i \in 1..Len(s) : i \in 1..(Len(s) + 1)
  BY <1>1
<1>4. Len(s) + 1 \in 1..(Len(s) + 1)
  BY <1>1
<1>5. ToSet(t) = ToSet(s) \cup {e}
  BY <1>1, <1>2, <1>3, <1>4 DEF ToSet
<1> QED
  BY <1>1, <1>5 DEF t

\* The events of b are those of b reported, taken and pending.
LEMMA EventsAre ==
  ASSUME NEW d \in Seq(Event), NEW t \in Seq(Event), NEW q \in Seq(Event)
  PROVE  /\ ToSet(d \o t \o q) = ToSet(d) \cup ToSet(t) \cup ToSet(q)
         /\ ToSet(d \o t \o q) \subseteq Event
<1>1. d \o t \in Seq(Event) /\ ToSet(d \o t) = ToSet(d) \cup ToSet(t)
  BY Joined
<1>2. (d \o t) \o q \in Seq(Event) /\ ToSet((d \o t) \o q) = ToSet(d \o t) \cup ToSet(q)
  BY <1>1, Joined
<1>3. \A s \in Seq(Event) : ToSet(s) \subseteq Event
  BY DEF ToSet
<1> QED
  BY <1>1, <1>2, <1>3

-----------------------------------------------------------------------------
(* The MQTT task.                                                            *)

\* What a step that leaves the events and their numbers alone keeps.
LEMMA EventsStay ==
  ASSUME IInv, UNCHANGED <<number, queue, batch, delivered>>
  PROVE  /\ Ordered' /\ ReleaseMatchesPress'
         /\ \A b \in Buttons : Events(b)' = Events(b)
         /\ \A b, n : Pending(b, n)' = Pending(b, n)
<1>1. \A b : Events(b)' = Events(b) /\ \A n : Pending(b, n)' = Pending(b, n)
  BY DEF Events, History, Pending
<1>2. Ordered'
  BY DEF IInv, Ordered, Numbered
<1>3. ReleaseMatchesPress'
  BY <1>1 DEF IInv, ReleaseMatchesPress
<1> QED
  BY <1>1, <1>2, <1>3

\* An action is turned into calls.
LEMMA ReceiveKeeps ==
  ASSUME IInv, NEW b \in Buttons, NEW action \in Actions, Receive(b, action)
  PROVE  IInv'
<1>1. /\ calls = <<>> /\ button' = b /\ calls' = action /\ asked' = asked + Len(action)
      /\ asked + Len(action) <= MaxEvents
      /\ UNCHANGED <<position, number, queue, step, from, pos, addressed, notifying, sig, due, source, batch,
                     delivered>>
  BY DEF Receive, wiringVars, reportVars
<1>2. action \in Seq(Kinds) /\ Len(action) \in Nat /\ Len(action) # 0
  <2>1. CASE action = <<"press", "release">>
    BY <2>1 DEF Kinds
  <2>2. CASE action = <<"double">>
    BY <2>2 DEF Kinds
  <2>3. CASE action = <<"press">>
    BY <2>3 DEF Kinds
  <2>4. CASE action = <<"release">>
    BY <2>4 DEF Kinds
  <2> QED
    BY <2>1, <2>2, <2>3, <2>4 DEF Actions
<1>3. step = "move" /\ asked \in Nat /\ Len(calls) = 0
  BY <1>1 DEF IInv, Asked, TypeInvariant
<1>4. /\ Ordered' /\ ReleaseMatchesPress'
      /\ \A c \in Buttons : Events(c)' = Events(c)
      /\ \A c, n : Pending(c, n)' = Pending(c, n)
  BY <1>1, EventsStay
<1>5. TypeInvariant'
  <2>1. calls' \in Seq(Kinds) /\ button' \in Buttons
    BY <1>1, <1>2
  <2>2. asked' \in 0..MaxEvents
    BY <1>1, <1>2, <1>3, ButtonsAssumption
  <2> QED
    BY <1>1, <2>1, <2>2 DEF IInv, TypeInvariant
<1>6. Asked'
  <2>1. \A c \in Buttons : number[c] \in Nat /\ number[c] <= asked
    BY <1>3 DEF IInv, Asked, TypeInvariant
  <2>2. \A c \in Buttons : number'[c] + (IF c = button' THEN Len(calls') ELSE 0) <= asked'
    BY <1>1, <1>2, <1>3, <2>1
  <2> QED
    BY <1>1, <1>3, <2>2 DEF Asked
<1>7. PositionTells'
  BY <1>1, <1>3, <1>4 DEF IInv, PositionTells, TellsLast
<1>8. NoStuckEvent'
  BY <1>1, <1>4 DEF IInv, NoStuckEvent
<1> QED
  BY <1>4, <1>5, <1>6, <1>7, <1>8 DEF IInv

\* The calls under way are of the three kinds.
LEMMA CallsAre ==
  ASSUME TypeInvariant, calls # <<>>
  PROVE  /\ Head(calls) \in Kinds /\ Tail(calls) \in Seq(Kinds)
         /\ Len(calls) \in Nat \ {0} /\ Len(Tail(calls)) = Len(calls) - 1
  BY DEF TypeInvariant

\* The position is moved; what a release reads is the position before.
LEMMA MoveKeeps ==
  ASSUME IInv, Move
  PROVE  IInv'
<1>1. /\ calls # <<>> /\ step = "move" /\ step' = "address"
      /\ position' = [position EXCEPT ![button] = IF Head(calls) = "press" THEN 1 ELSE 0]
      /\ pos' = IF Head(calls) = "release" THEN position[button] ELSE 1
      /\ UNCHANGED <<number, queue, asked, button, calls, from, addressed, notifying, sig, due, source, batch,
                     delivered>>
  BY DEF Move, wiringVars, reportVars
<1>2. /\ Ordered' /\ ReleaseMatchesPress'
      /\ \A c \in Buttons : Events(c)' = Events(c)
      /\ \A c, n : Pending(c, n)' = Pending(c, n)
  BY <1>1, EventsStay
<1>3. button \in Buttons /\ position \in [Buttons -> 0..1]
  BY DEF IInv, TypeInvariant
<1>4. /\ position' \in [Buttons -> 0..1] /\ pos' \in 0..1
      /\ position'[button] = 1 <=> Head(calls) = "press"
      /\ \A c \in Buttons : c # button => position'[c] = position[c]
  BY <1>1, <1>3
<1>5. TypeInvariant'
  BY <1>1, <1>4 DEF IInv, TypeInvariant
<1>6. Asked'
  BY <1>1 DEF IInv, Asked
<1>7. PositionTells'
  <2>1. \A c \in Buttons : c # button' => TellsLast(c, position[c])'
    BY <1>1, <1>2, <1>4 DEF IInv, PositionTells, TellsLast
  <2>2. Head(calls) = "release" => TellsLast(button, pos)'
    BY <1>1, <1>2, <1>3 DEF IInv, PositionTells, TellsLast
  <2> QED
    BY <1>1, <1>4, <2>1, <2>2 DEF PositionTells
<1>8. NoStuckEvent'
  BY <1>1, <1>2 DEF IInv, NoStuckEvent
<1> QED
  BY <1>2, <1>5, <1>6, <1>7, <1>8 DEF IInv

\* The endpoint id is read.
LEMMA AddressKeeps ==
  ASSUME IInv, Address
  PROVE  IInv'
<1>1. /\ step = "address" /\ step' = "record" /\ from' = EndpointId(button)
      /\ UNCHANGED <<position, number, queue, asked, button, calls, pos, addressed, notifying, sig, due, source,
                     batch, delivered>>
  BY DEF Address, wiringVars, reportVars
<1>2. /\ Ordered' /\ ReleaseMatchesPress'
      /\ \A c \in Buttons : Events(c)' = Events(c)
      /\ \A c, n : Pending(c, n)' = Pending(c, n)
  BY <1>1, EventsStay
<1>3. EndpointId(button) \in Byte
  <2>1. button \in Buttons
    BY DEF IInv, TypeInvariant
  <2>2. EndpointOf[button] \in EndpointIds
    BY <2>1, ButtonsAssumption
  <2>3. \A e \in EndpointIds : e % 256 \in Byte
    BY SMT DEF EndpointIds, Byte
  <2>4. 0 \in Byte
    BY SMT DEF Byte
  <2> QED
    BY <2>2, <2>3, <2>4 DEF EndpointId
<1>4. TypeInvariant'
  BY <1>1, <1>3 DEF IInv, TypeInvariant
<1>5. Asked' /\ NoStuckEvent'
  BY <1>1, <1>2 DEF IInv, Asked, NoStuckEvent
<1>6. PositionTells'
  <2>1. button \in Buttons
    BY DEF IInv, TypeInvariant
  <2> QED
    BY <1>1, <1>2, <2>1 DEF IInv, PositionTells, TellsLast
<1> QED
  BY <1>2, <1>4, <1>5, <1>6 DEF IInv

\* The event is numbered and pushed, or dropped; either way the numbers go on.
LEMMA RecordKeeps ==
  ASSUME IInv, Record
  PROVE  IInv'
<1>0. PICK b, e, n, q, t, r : /\ b = button /\ e = BuiltEvent /\ n = number[button] + 1
                              /\ q = queue[button] /\ t = Append(q, e) /\ r = queue'[button]
  OBVIOUS
<1>1. /\ step = "record" /\ step' = "move" /\ calls' = Tail(calls) /\ from' = 0 /\ pos' = 0
      /\ number' = [number EXCEPT ![b] = n]
      /\ queue' = [queue EXCEPT ![b] = IF Len(q) < Cap THEN t ELSE q]
      /\ sig' = (sig \/ b <= notifying)
      /\ UNCHANGED <<position, asked, button, addressed, notifying, due, source, batch, delivered>>
  BY <1>0 DEF Record, wiringVars, reportVars
<1>2. /\ b \in Buttons /\ q \in Seq(Event) /\ Len(q) \in Nat /\ Len(q) <= Cap /\ queue \in [Buttons -> Seq(Event)]
      /\ number \in [Buttons -> 0..MaxEvents] /\ delivered \in Seq(Event) /\ batch \in Seq(Event)
      /\ from \in Byte /\ pos \in 0..1 /\ calls # <<>> /\ Cap \in Nat /\ MaxEvents \in Nat
      /\ number[b] \in Nat /\ asked \in 0..MaxEvents /\ n = number[b] + 1
      /\ \A c \in Buttons : number[c] \in Nat
  BY <1>0, <1>1, ButtonsAssumption DEF IInv, TypeInvariant, Asked
<1>3. /\ Head(calls) \in Kinds /\ Tail(calls) \in Seq(Kinds)
      /\ Len(calls) \in Nat \ {0} /\ Len(Tail(calls)) = Len(calls) - 1
  BY <1>2, CallsAre DEF IInv
<1>4. n \in 1..MaxEvents
  <2>1. number[b] + Len(calls) <= asked
    BY <1>0, <1>2 DEF IInv, Asked
  <2> QED
    BY <1>2, <1>3, <2>1
<1>5. /\ e \in Event /\ e.button = b /\ e.num = n /\ e.kind = Head(calls) /\ e.pos = pos
      /\ e.loud = (b <= notifying)
  <2>1. (b <= notifying) \in BOOLEAN
    OBVIOUS
  <2> QED
    BY <1>0, <1>2, <1>3, <1>4, <2>1 DEF BuiltEvent, Event
<1>6. /\ t \in Seq(Event) /\ Len(t) = Len(q) + 1
      /\ \A i \in 1..Len(q) : t[i] = q[i]
      /\ t[Len(q) + 1] = e
      /\ ToSet(t) = ToSet(q) \cup {e}
  BY <1>0, <1>2, <1>5, Added
<1>7. /\ r = t \/ r = q
      /\ r \in Seq(Event) /\ Len(r) \in Nat /\ Len(r) <= Cap /\ queue' \in [Buttons -> Seq(Event)]
      /\ \A c \in Buttons : c # b => queue'[c] = queue[c]
  <2>1. CASE Len(q) < Cap
    BY <1>0, <1>1, <1>2, <1>6, <2>1
  <2>2. CASE ~(Len(q) < Cap)
    BY <1>0, <1>1, <1>2, <1>6, <2>2
  <2> QED
    BY <2>1, <2>2
<1>8. /\ number' \in [Buttons -> 0..MaxEvents] /\ number'[b] = n
      /\ \A c \in Buttons : c # b => number'[c] = number[c]
      /\ \A c \in Buttons : number'[c] \in Nat /\ number[c] <= number'[c]
  BY <1>1, <1>2, <1>4
<1>9. q = queue[b] /\ r = queue'[b]
  BY <1>0
<1>10. /\ \A i \in 1..Len(r) : \/ i \in 1..Len(q) /\ r[i] = q[i]
                               \/ i = Len(q) + 1 /\ r[i] = e
       /\ ToSet(r) \subseteq ToSet(q) \cup {e}
  <2>1. CASE r = t
    <3>1. \A i \in 1..(Len(q) + 1) : i \in 1..Len(q) \/ i = Len(q) + 1
      BY <1>2
    <3>2. Len(r) = Len(q) + 1
      BY <1>6, <2>1
    <3>3. \A i \in 1..Len(r) : \/ i \in 1..Len(q) /\ r[i] = q[i]
                               \/ i = Len(q) + 1 /\ r[i] = e
      BY <1>6, <2>1, <3>1, <3>2
    <3> QED
      BY <1>6, <2>1, <3>3
  <2>2. CASE r = q
    BY <2>2
  <2> QED
    BY <1>7, <2>1, <2>2
<1>11. n > number[b]
  BY <1>2
<1>12. TypeInvariant'
  <2>1. \A c \in Buttons : Len(queue'[c]) <= Cap
    BY <1>7, <1>9 DEF IInv, TypeInvariant
  <2>2. 0 \in Byte
    BY SMT DEF Byte
  <2>3. sig' \in BOOLEAN
    BY <1>1 DEF IInv, TypeInvariant
  <2> QED
    BY <1>1, <1>3, <1>7, <1>8, <2>1, <2>2, <2>3 DEF IInv, TypeInvariant
<1>13. \A s \in Seq(Event) : Numbered(s) => Numbered(s)'
  <2> SUFFICES ASSUME NEW s \in Seq(Event), Numbered(s), NEW i \in 1..Len(s)
               PROVE  s[i].num <= number'[s[i].button]
    BY DEF Numbered
  <2>1. s[i] \in Event
    OBVIOUS
  <2>2. s[i].button \in Buttons /\ s[i].num \in Nat
    BY <2>1 DEF Event
  <2>3. s[i].num <= number[s[i].button]
    BY DEF Numbered
  <2> QED
    BY <1>8, <1>2, <2>2, <2>3
<1>14. \A s \in Seq(Event) : Before(s, q) /\ Numbered(s) => Before(s, r)
  <2> SUFFICES ASSUME NEW s \in Seq(Event), Before(s, q), Numbered(s),
                      NEW i \in 1..Len(s), NEW j \in 1..Len(r), s[i].button = r[j].button
               PROVE  s[i].num < r[j].num
    BY DEF Before
  <2>1. CASE j \in 1..Len(q) /\ r[j] = q[j]
    BY <2>1 DEF Before
  <2>2. CASE r[j] = e
    <3>1. s[i].num <= number[b] /\ s[i] \in Event
      BY <1>5, <2>2 DEF Numbered
    <3>2. s[i].num \in Nat
      BY <3>1 DEF Event
    <3> QED
      BY <1>2, <1>5, <1>11, <2>2, <3>1, <3>2
  <2> QED
    BY <1>10, <2>1, <2>2
<1>15. Ordered'
  <2>1. /\ Ascending(delivered) /\ Ascending(batch) /\ Before(delivered, batch)
        /\ Numbered(delivered) /\ Numbered(batch)
        /\ \A c \in Buttons :
             /\ Ascending(queue[c]) /\ Before(delivered, queue[c]) /\ Before(batch, queue[c])
             /\ Numbered(queue[c])
             /\ \A i \in 1..Len(queue[c]) : queue[c][i].button = c
    BY DEF IInv, Ordered
  <2>2. Before(delivered, r) /\ Before(batch, r)
    BY <1>2, <1>9, <1>14, <2>1
  <2>3. \A i \in 1..Len(q) : q[i] \in Event /\ q[i].num \in Nat /\ q[i].num <= number[b] /\ q[i].button = b
    <3> SUFFICES ASSUME NEW i \in 1..Len(q)
                 PROVE  q[i] \in Event /\ q[i].num \in Nat /\ q[i].num <= number[b] /\ q[i].button = b
      OBVIOUS
    <3>1. q[i] \in Event
      BY <1>2, <1>9
    <3>2. q[i].num \in Nat
      BY <3>1 DEF Event
    <3> QED
      BY <1>2, <1>9, <2>1, <3>1, <3>2 DEF Numbered
  <2>4. Ascending(r)
    <3> SUFFICES ASSUME NEW i \in 1..Len(r), NEW j \in 1..Len(r), i < j PROVE r[i].num < r[j].num
      BY DEF Ascending
    <3>1. CASE j \in 1..Len(q) /\ r[j] = q[j]
      <4>1. i # Len(q) + 1
        <5>1. Len(q) \in Nat /\ i \in Int /\ j \in Int /\ i < j /\ j <= Len(q)
          BY <1>2, <3>1
        <5> QED
          BY <5>1
      <4>2. i \in 1..Len(q) /\ r[i] = q[i]
        BY <1>10, <4>1
      <4> QED
        BY <1>2, <1>9, <2>1, <2>3, <3>1, <4>2 DEF Ascending
    <3>2. CASE j = Len(q) + 1 /\ r[j] = e
      <4>1. i \in 1..Len(q) /\ r[i] = q[i]
        BY <1>10, <3>2
      <4> QED
        BY <1>2, <1>5, <1>11, <2>3, <3>2, <4>1
    <3> QED
      BY <1>10, <3>1, <3>2
  <2>5. \A i \in 1..Len(r) : r[i].button = b /\ r[i].num <= n
    <3> SUFFICES ASSUME NEW i \in 1..Len(r) PROVE r[i].button = b /\ r[i].num <= n
      OBVIOUS
    <3>1. CASE i \in 1..Len(q) /\ r[i] = q[i]
      BY <1>2, <1>4, <1>11, <2>3, <3>1
    <3>2. CASE r[i] = e
      BY <1>2, <1>4, <1>5, <3>2
    <3> QED
      BY <1>10, <3>1, <3>2
  <2>6. (\A i \in 1..Len(r) : r[i].num <= number'[r[i].button])
    BY <1>8, <2>5
  <2>7. \A c \in Buttons : c # b => Numbered(queue[c])'
    <3> SUFFICES ASSUME NEW c \in Buttons, c # b PROVE Numbered(queue[c])'
      OBVIOUS
    <3>1. queue'[c] = queue[c] /\ number'[c] = number[c]
      BY <1>7, <1>8
    <3> QED
      BY <2>1, <3>1 DEF Numbered
  <2>8. Numbered(delivered)' /\ Numbered(batch)'
    <3>1. \A i \in 1..Len(delivered) : delivered[i].num <= number'[delivered[i].button]
      BY <1>2, <1>13, <2>1 DEF Numbered
    <3>2. \A i \in 1..Len(batch) : batch[i].num <= number'[batch[i].button]
      BY <1>2, <1>13, <2>1 DEF Numbered
    <3> QED
      BY <1>1, <3>1, <3>2 DEF Numbered
  <2>9. \A c \in Buttons : Numbered(queue[c])'
    BY <1>9, <2>6, <2>7 DEF Numbered
  <2>10. \A c \in Buttons :
             /\ Ascending(queue'[c]) /\ Before(delivered, queue'[c]) /\ Before(batch, queue'[c])
             /\ \A i \in 1..Len(queue'[c]) : queue'[c][i].button = c
    BY <1>7, <1>9, <2>1, <2>2, <2>4, <2>5
  <2> QED
    BY <1>1, <2>1, <2>8, <2>9, <2>10 DEF Ordered, Ascending, Before
<1>16. /\ Events(b)' \subseteq Events(b) \cup {e}
       /\ \A c \in Buttons : c # b => Events(c)' = Events(c)
       /\ \A c \in Buttons : Events(c) \subseteq Event
       /\ \A c \in Buttons : \A f \in Events(c) : f.num \in Nat \ {0} /\ f.num <= number[c] /\ f.button = c
  <2>1. \A c \in Buttons : queue[c] \in Seq(Event) /\ queue'[c] \in Seq(Event)
    BY <1>2, <1>7
  <2>2. \A c \in Buttons :
          /\ Events(c) = {f \in ToSet(delivered) \cup ToSet(batch) \cup ToSet(queue[c]) : f.button = c}
          /\ Events(c) \subseteq Event
    <3> SUFFICES ASSUME NEW c \in Buttons
                 PROVE  /\ Events(c) = {f \in ToSet(delivered) \cup ToSet(batch) \cup ToSet(queue[c]) : f.button = c}
                        /\ Events(c) \subseteq Event
      OBVIOUS
    <3>1. /\ ToSet(delivered \o batch \o queue[c]) = ToSet(delivered) \cup ToSet(batch) \cup ToSet(queue[c])
          /\ ToSet(delivered \o batch \o queue[c]) \subseteq Event
      BY <1>2, <2>1, EventsAre
    <3> QED
      BY <3>1 DEF Events, History
  <2>3. \A c \in Buttons :
          Events(c)' = {f \in ToSet(delivered) \cup ToSet(batch) \cup ToSet(queue'[c]) : f.button = c}
    <3> SUFFICES ASSUME NEW c \in Buttons
                 PROVE  Events(c)' = {f \in ToSet(delivered) \cup ToSet(batch) \cup ToSet(queue'[c]) : f.button = c}
      OBVIOUS
    <3>1. /\ ToSet(delivered \o batch \o queue'[c]) = ToSet(delivered) \cup ToSet(batch) \cup ToSet(queue'[c])
      BY <1>2, <2>1, EventsAre
    <3>2. Events(c)' = {f \in ToSet(delivered \o batch \o queue'[c]) : f.button = c}
      BY <1>1 DEF Events, History, ToSet
    <3> QED
      BY <3>1, <3>2
  <2>4. Events(b)' \subseteq Events(b) \cup {e}
    BY <1>2, <1>9, <1>10, <2>2, <2>3
  <2>5. \A c \in Buttons : c # b => Events(c)' = Events(c)
    BY <1>7, <2>2, <2>3
  <2>6. \A c \in Buttons : \A f \in Events(c) : f.num \in Nat \ {0} /\ f.num <= number[c] /\ f.button = c
    <3> SUFFICES ASSUME NEW c \in Buttons, NEW f \in Events(c)
                 PROVE  f.num \in Nat \ {0} /\ f.num <= number[c] /\ f.button = c
      OBVIOUS
    <3>1. f \in Event /\ f.button = c
      BY <2>2
    <3>2. \A s \in Seq(Event) : Numbered(s) /\ f \in ToSet(s) => f.num <= number[f.button]
      BY DEF Numbered, ToSet
    <3>3. f.num <= number[c]
      BY <1>2, <2>1, <2>2, <3>1, <3>2 DEF IInv, Ordered
    <3> QED
      BY <1>2, <3>1, <3>3 DEF Event
  <2> QED
    BY <2>2, <2>4, <2>5, <2>6
<1>17. Asked'
  <2>1. \A c \in Buttons : number[c] + (IF c = b THEN Len(calls) ELSE 0) <= asked
    BY <1>0 DEF IInv, Asked
  <2>2. \A c \in Buttons : number'[c] + (IF c = b THEN Len(calls') ELSE 0) <= asked
    BY <1>1, <1>2, <1>3, <1>8, <2>1
  <2> QED
    BY <1>0, <1>1, <2>2 DEF Asked
<1>18. /\ position[b] = 1 <=> Head(calls) = "press"
       /\ Head(calls) = "release" => /\ number[b] = 0 => pos = 0
                                     /\ \A f \in Events(b) : f.num = number[b] => (pos = 1 <=> f.kind = "press")
  BY <1>0, <1>1 DEF IInv, PositionTells, TellsLast
<1>19. PositionTells'
  <2>1. \A f \in Events(b)' : f.num = n => (position[b] = 1 <=> f.kind = "press")
    <3> SUFFICES ASSUME NEW f \in Events(b)', f.num = n PROVE position[b] = 1 <=> f.kind = "press"
      OBVIOUS
    <3>1. f \in Events(b) \/ f = e
      BY <1>16
    <3>2. f \notin Events(b)
      BY <1>2, <1>11, <1>16
    <3> QED
      BY <1>5, <1>18, <3>1, <3>2
  <2>2. n # 0
    BY <1>4
  <2>3. TellsLast(b, position[b])'
    BY <1>1, <1>8, <2>1, <2>2 DEF TellsLast
  <2>4. \A c \in Buttons : c # b => TellsLast(c, position[c])'
    BY <1>0, <1>1, <1>8, <1>16 DEF IInv, PositionTells, TellsLast
  <2> QED
    BY <1>0, <1>1, <2>3, <2>4 DEF PositionTells
<1>20. NoStuckEvent'
  <2> SUFFICES ASSUME NEW c \in Buttons, NEW m \in 1..MaxEvents, Pending(c, m)'
               PROVE  sig' \/ due' \/ source' \in 1..c
    BY DEF NoStuckEvent
  <2>1. CASE Pending(c, m)
    BY <1>1, <2>1 DEF IInv, NoStuckEvent
  <2>2. CASE ~Pending(c, m)
    <3>1. c = b
      BY <1>7, <2>2 DEF Pending
    <3>2. PICK i \in DOMAIN queue'[c] : queue'[c][i].num = m /\ queue'[c][i].loud
      BY DEF Pending
    <3>3. i \in 1..Len(r) /\ r[i].num = m /\ r[i].loud
      BY <1>7, <1>9, <3>1, <3>2
    <3>4. ~(i \in 1..Len(q) /\ r[i] = q[i])
      BY <1>2, <1>9, <2>2, <3>1, <3>3 DEF Pending
    <3>5. r[i] = e
      BY <1>10, <3>3, <3>4
    <3>6. b <= notifying
      BY <1>5, <3>3, <3>5
    <3> QED
      BY <1>1, <3>6
  <2> QED
    BY <2>1, <2>2
<1>21. ReleaseMatchesPress'
  <2>1. ASSUME NEW c \in Buttons, c # b, NEW x \in Events(c)', x.kind = "release"
        PROVE  /\ x.num = 1 => x.pos = 0
               /\ \A f \in Events(c)' : f.num = x.num - 1 => (x.pos = 1 <=> f.kind = "press")
    BY <1>16, <2>1 DEF IInv, ReleaseMatchesPress
  <2>2. ASSUME NEW x \in Events(b)', x.kind = "release"
        PROVE  /\ x.num = 1 => x.pos = 0
               /\ \A f \in Events(b)' : f.num = x.num - 1 => (x.pos = 1 <=> f.kind = "press")
    <3>1. CASE x \in Events(b)
      <4>1. \A f \in Events(b)' : f.num = x.num - 1 => f \in Events(b)
        BY <1>2, <1>5, <1>11, <1>16, <3>1
      <4> QED
        BY <1>2, <2>2, <3>1, <4>1 DEF IInv, ReleaseMatchesPress
    <3>2. CASE x = e
      <4>1. x.num = n /\ x.pos = pos /\ Head(calls) = "release"
        BY <1>5, <2>2, <3>2
      <4>2. x.num = 1 => number[b] = 0
        BY <1>2, <4>1
      <4>3. \A f \in Events(b)' : f.num = x.num - 1 => f \in Events(b) /\ f.num = number[b]
        BY <1>2, <1>4, <1>5, <1>16, <4>1
      <4> QED
        BY <1>18, <4>1, <4>2, <4>3
    <3>3. x \in Events(b) \/ x = e
      BY <1>16, <2>2
    <3> QED
      BY <3>1, <3>2, <3>3
  <2> QED
    BY <2>1, <2>2 DEF ReleaseMatchesPress
<1> QED
  BY <1>12, <1>15, <1>17, <1>19, <1>20, <1>21 DEF IInv


-----------------------------------------------------------------------------
(* The Matter thread.                                                        *)

\* The wiring of a button, the signal taken, a report begun.
LEMMA ServeKeeps ==
  ASSUME IInv, WireEndpoint \/ WireNotifier \/ Forward \/ BeginCollect
  PROVE  IInv'
<1>1. UNCHANGED <<position, number, queue, asked, button, calls, step, from, pos, batch, delivered>>
  BY DEF WireEndpoint, WireNotifier, Forward, BeginCollect, mqttVars, wiringVars, reportVars
<1>2. /\ Ordered' /\ ReleaseMatchesPress'
      /\ \A c \in Buttons : Events(c)' = Events(c)
      /\ \A c, m : Pending(c, m)' = Pending(c, m)
  BY <1>1, EventsStay
<1>3. N \in Nat \ {0} /\ addressed \in 0..N /\ notifying \in 0..addressed /\ source \in 0..N + 1
  BY ButtonsAssumption DEF IInv, TypeInvariant
<1>4. /\ addressed' \in 0..N /\ notifying' \in 0..addressed'
      /\ source' \in 0..N + 1 /\ sig' \in BOOLEAN /\ due' \in BOOLEAN
  <2>1. sig \in BOOLEAN /\ due \in BOOLEAN
    BY DEF IInv, TypeInvariant
  <2>2. CASE WireEndpoint
    BY <1>3, <2>1, <2>2 DEF WireEndpoint, reportVars
  <2>3. CASE WireNotifier
    BY <1>3, <2>1, <2>3 DEF WireNotifier, reportVars
  <2>4. CASE Forward
    BY <1>3, <2>1, <2>4 DEF Forward, wiringVars
  <2>5. CASE BeginCollect
    <3>1. source' = 1 /\ due' = FALSE /\ UNCHANGED <<addressed, notifying, sig>>
      BY <2>5 DEF BeginCollect, wiringVars
    <3>2. 1 \in 0..N + 1
      BY <1>3
    <3> QED
      BY <1>3, <2>1, <3>1, <3>2
  <2> QED
    BY <2>2, <2>3, <2>4, <2>5
<1>5. TypeInvariant'
  BY <1>1, <1>4 DEF IInv, TypeInvariant
<1>6. Asked'
  BY <1>1 DEF IInv, Asked
<1>7. PositionTells'
  <2>1. button \in Buttons
    BY DEF IInv, TypeInvariant
  <2> QED
    BY <1>1, <1>2, <2>1 DEF IInv, PositionTells, TellsLast
<1>8. NoStuckEvent'
  <2> SUFFICES ASSUME NEW c \in Buttons, NEW m \in 1..MaxEvents, Pending(c, m)'
               PROVE  sig' \/ due' \/ source' \in 1..c
    BY DEF NoStuckEvent
  <2>1. sig \/ due \/ source \in 1..c
    BY <1>2 DEF IInv, NoStuckEvent
  <2>2. CASE WireEndpoint \/ WireNotifier
    BY <2>1, <2>2 DEF WireEndpoint, WireNotifier, reportVars
  <2>3. CASE Forward
    BY <2>3 DEF Forward
  <2>4. CASE BeginCollect
    BY <2>4 DEF BeginCollect, Buttons
  <2> QED
    BY <2>2, <2>3, <2>4
<1> QED
  BY <1>2, <1>5, <1>6, <1>7, <1>8 DEF IInv

\* The pending events of one button are taken, those that fit are kept.
LEMMA TakeSourceKeeps ==
  ASSUME IInv, TakeSource
  PROVE  IInv'
<1>0. PICK b, q, f, g : /\ b = source /\ q = queue[b] /\ f = Fitting(q, Cap - Len(batch))
                        /\ g = batch \o f
  OBVIOUS
<1>1. /\ b \in Buttons /\ batch' = g /\ queue' = [queue EXCEPT ![b] = <<>>] /\ source' = b + 1
      /\ UNCHANGED <<position, number, asked, button, calls, step, from, pos, addressed, notifying, sig, due,
                     delivered>>
  BY <1>0 DEF TakeSource, mqttVars, wiringVars
<1>2. /\ queue \in [Buttons -> Seq(Event)] /\ q \in Seq(Event)
      /\ delivered \in Seq(Event) /\ batch \in Seq(Event) /\ Len(batch) \in Nat /\ Len(batch) <= Cap
      /\ Cap \in Nat /\ N \in Nat /\ b \in 1..N
  BY <1>0, <1>1, ButtonsAssumption DEF IInv, TypeInvariant, Buttons
<1>3. /\ f \in Seq(Event) /\ Len(f) \in Nat /\ Len(f) <= Cap - Len(batch)
      /\ \A i \in 1..Len(f) : i \in 1..Len(q) /\ f[i] = q[i]
      /\ ToSet(f) \subseteq ToSet(q)
  <2>1. Cap - Len(batch) \in Nat
    BY <1>2
  <2> QED
    BY <1>0, <1>2, <2>1, Fits
<1>4. g \in Seq(Event) /\ Len(g) <= Cap /\ ToSet(g) = ToSet(batch) \cup ToSet(f)
  <2>1. g \in Seq(Event) /\ Len(g) = Len(batch) + Len(f) /\ ToSet(g) = ToSet(batch) \cup ToSet(f)
    BY <1>0, <1>2, <1>3, Joined
  <2> QED
    BY <1>2, <1>3, <2>1
<1>5. /\ queue' \in [Buttons -> Seq(Event)] /\ queue'[b] = <<>>
      /\ \A c \in Buttons : c # b => queue'[c] = queue[c]
  BY <1>1, <1>2
<1>6. TypeInvariant'
  <2>1. source' \in 0..N + 1
    BY <1>1, <1>2
  <2>2. Len(<<>>) <= Cap
    BY <1>2
  <2>3. \A c \in Buttons : Len(queue'[c]) <= Cap
    BY <1>5, <2>2 DEF IInv, TypeInvariant
  <2> QED
    BY <1>1, <1>4, <1>5, <2>1, <2>3 DEF IInv, TypeInvariant
<1>7. /\ Ascending(delivered) /\ Ascending(batch) /\ Before(delivered, batch)
      /\ Numbered(delivered) /\ Numbered(batch)
      /\ \A c \in Buttons :
           /\ Ascending(queue[c]) /\ Before(delivered, queue[c]) /\ Before(batch, queue[c])
           /\ Numbered(queue[c])
           /\ \A i \in 1..Len(queue[c]) : queue[c][i].button = c
  BY DEF IInv, Ordered
<1>8. /\ Ascending(f) /\ Before(delivered, f) /\ Before(batch, f) /\ Numbered(f)
      /\ \A i \in 1..Len(f) : f[i].button = b
  <2>1. /\ Ascending(q) /\ Before(delivered, q) /\ Before(batch, q) /\ Numbered(q)
        /\ \A i \in 1..Len(q) : q[i].button = b
    BY <1>0, <1>1, <1>7
  <2>2. Ascending(f) /\ \A i \in 1..Len(f) : f[i].button = b
    BY <1>3, <2>1 DEF Ascending
  <2>3. Before(delivered, f) /\ Before(batch, f) /\ Numbered(f)
    BY <1>3, <2>1 DEF Before, Numbered
  <2> QED
    BY <2>1, <2>2, <2>3
<1>9. \A c \in Buttons : c # b => Before(f, queue[c])
  <2> SUFFICES ASSUME NEW c \in Buttons, c # b PROVE Before(f, queue[c])
    OBVIOUS
  <2>1. \A i \in 1..Len(f), j \in 1..Len(queue[c]) : f[i].button # queue[c][j].button
    BY <1>7, <1>8
  <2> QED
    BY <2>1 DEF Before
<1>10. /\ Ascending(g) /\ Before(delivered, g) /\ Numbered(g)
       /\ \A c \in Buttons : c # b => Before(g, queue[c])
  <2>1. Ascending(g)
    BY <1>0, <1>2, <1>3, <1>7, <1>8, JoinedAscending
  <2>2. Before(delivered, g) /\ Numbered(g)
    BY <1>0, <1>2, <1>3, <1>7, <1>8, JoinedBefore
  <2>3. ASSUME NEW c \in Buttons, c # b PROVE Before(g, queue[c])
    <3>1. queue[c] \in Seq(Event) /\ Before(batch, queue[c]) /\ Before(f, queue[c])
      BY <1>2, <1>7, <1>9, <2>3
    <3> QED
      BY <1>0, <1>2, <1>3, <3>1, JoinedBefore
  <2> QED
    BY <2>1, <2>2, <2>3
<1>11. Ordered'
  <2>1. /\ Ascending(<<>>) /\ Before(delivered, <<>>) /\ Before(g, <<>>)
        /\ \A i \in 1..Len(<<>>) : FALSE
    BY DEF Ascending, Before
  <2>2. \A c \in Buttons :
           /\ Ascending(queue'[c]) /\ Before(delivered, queue'[c]) /\ Before(g, queue'[c])
           /\ \A i \in 1..Len(queue'[c]) : queue'[c][i].button = c
    BY <1>5, <1>7, <1>10, <2>1
  <2>3. \A c \in Buttons : \A i \in 1..Len(queue'[c]) : queue'[c][i].num <= number[queue'[c][i].button]
    BY <1>5, <1>7, <2>1 DEF Numbered
  <2>4. \A c \in Buttons : Numbered(queue[c])'
    BY <1>1, <2>3 DEF Numbered
  <2>5. Numbered(delivered)' /\ Numbered(batch)'
    BY <1>1, <1>7, <1>10 DEF Numbered
  <2> QED
    BY <1>1, <1>7, <1>10, <2>2, <2>4, <2>5 DEF Ordered, Ascending, Before
<1>12. \A c \in Buttons : Events(c)' \subseteq Events(c)
  <2> SUFFICES ASSUME NEW c \in Buttons PROVE Events(c)' \subseteq Events(c)
    OBVIOUS
  <2>1. queue[c] \in Seq(Event) /\ queue'[c] \in Seq(Event)
    BY <1>2, <1>5
  <2>2. ToSet(delivered \o batch \o queue[c]) = ToSet(delivered) \cup ToSet(batch) \cup ToSet(queue[c])
    BY <1>2, <2>1, EventsAre
  <2>3. ToSet(delivered \o g \o queue'[c]) = ToSet(delivered) \cup ToSet(g) \cup ToSet(queue'[c])
    BY <1>2, <1>4, <2>1, EventsAre
  <2>4. Events(c) = {x \in ToSet(delivered) \cup ToSet(batch) \cup ToSet(queue[c]) : x.button = c}
    BY <2>2 DEF Events, History
  <2>5. Events(c)' = {x \in ToSet(delivered) \cup ToSet(g) \cup ToSet(queue'[c]) : x.button = c}
    <3>1. Events(c)' = {x \in ToSet(delivered \o g \o queue'[c]) : x.button = c}
      BY <1>1 DEF Events, History, ToSet
    <3> QED
      BY <2>3, <3>1
  <2>6. ToSet(<<>>) = {}
    BY DEF ToSet
  <2>7. \A x \in ToSet(f) : x.button = b
    BY <1>3, <1>8 DEF ToSet
  <2>8. CASE c = b
    BY <1>0, <1>3, <1>4, <1>5, <2>4, <2>5, <2>6, <2>8
  <2>9. CASE c # b
    BY <1>4, <1>5, <2>4, <2>5, <2>7, <2>9
  <2> QED
    BY <2>8, <2>9
<1>13. ReleaseMatchesPress'
  <2> SUFFICES ASSUME NEW c \in Buttons, NEW x \in Events(c)', x.kind = "release"
               PROVE  /\ x.num = 1 => x.pos = 0
                      /\ \A y \in Events(c)' : y.num = x.num - 1 => (x.pos = 1 <=> y.kind = "press")
    BY DEF ReleaseMatchesPress
  <2> QED
    BY <1>12 DEF IInv, ReleaseMatchesPress
<1>14. Asked'
  BY <1>1 DEF IInv, Asked
<1>15. PositionTells'
  <2>1. button \in Buttons
    BY DEF IInv, TypeInvariant
  <2> QED
    BY <1>1, <1>12, <2>1 DEF IInv, PositionTells, TellsLast
<1>16. NoStuckEvent'
  <2> SUFFICES ASSUME NEW c \in Buttons, NEW m \in 1..MaxEvents, Pending(c, m)'
               PROVE  sig' \/ due' \/ source' \in 1..c
    BY DEF NoStuckEvent
  <2>1. c # b
    <3>1. DOMAIN <<>> = {}
      OBVIOUS
    <3> QED
      BY <1>5, <3>1 DEF Pending
  <2>2. Pending(c, m)
    BY <1>5, <2>1 DEF Pending
  <2>3. sig \/ due \/ source \in 1..c
    BY <2>2 DEF IInv, NoStuckEvent
  <2>4. source \in 1..c => b + 1 \in 1..c
    BY <1>0, <1>2, <2>1 DEF Buttons
  <2> QED
    BY <1>1, <2>3, <2>4
<1> QED
  BY <1>6, <1>11, <1>13, <1>14, <1>15, <1>16 DEF IInv

\* The taken events are reported.
LEMMA DeliverKeeps ==
  ASSUME IInv, Deliver
  PROVE  IInv'
<1>0. PICK g : g = delivered \o batch
  OBVIOUS
<1>1. /\ source = N + 1 /\ delivered' = g /\ batch' = <<>> /\ source' = 0
      /\ UNCHANGED <<position, number, queue, asked, button, calls, step, from, pos, addressed, notifying, sig, due>>
  BY <1>0 DEF Deliver, mqttVars, wiringVars
<1>2. /\ queue \in [Buttons -> Seq(Event)] /\ delivered \in Seq(Event) /\ batch \in Seq(Event)
      /\ <<>> \in Seq(Event) /\ ToSet(<<>>) = {} /\ Len(<<>>) = 0
      /\ N \in Nat /\ Cap \in Nat
  BY ButtonsAssumption DEF IInv, TypeInvariant, ToSet
<1>3. g \in Seq(Event) /\ ToSet(g) = ToSet(delivered) \cup ToSet(batch)
  BY <1>0, <1>2, Joined
<1>4. TypeInvariant'
  <2>1. 0 \in 0..N + 1 /\ Len(<<>>) <= Cap
    BY <1>2
  <2> QED
    BY <1>1, <1>2, <1>3, <2>1 DEF IInv, TypeInvariant
<1>5. /\ Ascending(delivered) /\ Ascending(batch) /\ Before(delivered, batch)
      /\ Numbered(delivered) /\ Numbered(batch)
      /\ \A c \in Buttons :
           /\ Ascending(queue[c]) /\ Before(delivered, queue[c]) /\ Before(batch, queue[c])
           /\ Numbered(queue[c])
           /\ \A i \in 1..Len(queue[c]) : queue[c][i].button = c
  BY DEF IInv, Ordered
<1>6. Ordered'
  <2>1. Ascending(<<>>) /\ Numbered(<<>>) /\ \A s : Before(s, <<>>) /\ Before(<<>>, s)
    BY <1>2 DEF Ascending, Before, Numbered
  <2>2. Ascending(g)
    BY <1>0, <1>2, <1>5, JoinedAscending
  <2>3. Numbered(g)
    BY <1>0, <1>2, <1>5, JoinedBefore
  <2>4. ASSUME NEW c \in Buttons PROVE Before(g, queue[c])
    BY <1>0, <1>2, <1>5, JoinedBefore
  <2> QED
    BY <1>1, <1>5, <2>1, <2>2, <2>3, <2>4 DEF Ordered, Ascending, Before, Numbered
<1>7. \A c \in Buttons : Events(c)' = Events(c)
  <2> SUFFICES ASSUME NEW c \in Buttons PROVE Events(c)' = Events(c)
    OBVIOUS
  <2>1. queue[c] \in Seq(Event)
    BY <1>2
  <2>2. ToSet(delivered \o batch \o queue[c]) = ToSet(delivered) \cup ToSet(batch) \cup ToSet(queue[c])
    BY <1>2, <2>1, EventsAre
  <2>3. ToSet(g \o <<>> \o queue[c]) = ToSet(g) \cup ToSet(<<>>) \cup ToSet(queue[c])
    <3>1. PICK z : z = <<>>
      OBVIOUS
    <3>2. ToSet(g \o z \o queue[c]) = ToSet(g) \cup ToSet(z) \cup ToSet(queue[c])
      <4>1. z \in Seq(Event)
        BY <1>2, <3>1
      <4> QED
        BY <1>3, <2>1, <4>1, EventsAre
    <3> QED
      BY <3>1, <3>2
  <2>4. ToSet(g \o <<>> \o queue[c]) = ToSet(delivered \o batch \o queue[c])
    BY <1>2, <1>3, <2>2, <2>3
  <2>5. Events(c)' = {x \in ToSet(g \o <<>> \o queue[c]) : x.button = c}
    BY <1>1 DEF Events, History, ToSet
  <2> QED
    BY <2>4, <2>5 DEF Events, History
<1>8. ReleaseMatchesPress'
  BY <1>7 DEF IInv, ReleaseMatchesPress
<1>9. Asked'
  BY <1>1 DEF IInv, Asked
<1>10. PositionTells'
  <2>1. button \in Buttons
    BY DEF IInv, TypeInvariant
  <2> QED
    BY <1>1, <1>7, <2>1 DEF IInv, PositionTells, TellsLast
<1>11. NoStuckEvent'
  <2> SUFFICES ASSUME NEW c \in Buttons, NEW m \in 1..MaxEvents, Pending(c, m)'
               PROVE  sig' \/ due' \/ source' \in 1..c
    BY DEF NoStuckEvent
  <2>1. Pending(c, m)
    BY <1>1 DEF Pending
  <2>2. sig \/ due \/ source \in 1..c
    BY <2>1 DEF IInv, NoStuckEvent
  <2>3. ~(source \in 1..c)
    BY <1>1, <1>2 DEF Buttons
  <2> QED
    BY <1>1, <2>2, <2>3
<1> QED
  BY <1>4, <1>6, <1>8, <1>9, <1>10, <1>11 DEF IInv

-----------------------------------------------------------------------------
(* The invariant, and what follows.                                          *)

\* Nothing is recorded at the start.
LEMMA InitInv == Init => IInv
<1> SUFFICES ASSUME Init PROVE IInv
  OBVIOUS
<1>1. /\ N \in Nat \ {0} /\ Cap \in Nat /\ MaxEvents \in Nat
      /\ <<>> \in Seq(Event) /\ <<>> \in Seq(Kinds) /\ Len(<<>>) = 0 /\ <<>> \o <<>> \o <<>> = <<>>
      /\ ToSet(<<>>) = {} /\ 1 \in Buttons /\ DOMAIN <<>> = {}
  BY ButtonsAssumption DEF ToSet, Buttons
<1>2. 0 \in Byte
  BY SMT DEF Byte
<1>3. TypeInvariant
  <2>1. 0 \in 0..1 /\ 0 \in 0..MaxEvents /\ 0 \in 0..N /\ 0 \in 0..0 /\ 0 \in 0..N + 1 /\ 0 <= Cap
    BY <1>1
  <2>2. /\ position \in [Buttons -> 0..1] /\ number \in [Buttons -> 0..MaxEvents]
        /\ queue \in [Buttons -> Seq(Event)] /\ \A b \in Buttons : Len(queue[b]) <= Cap
    BY <1>1, <2>1 DEF Init
  <2> QED
    BY <1>1, <1>2, <2>1, <2>2 DEF Init, TypeInvariant
<1>4. Ordered
  BY <1>1 DEF Init, Ordered, Ascending, Before, Numbered
<1>5. Asked
  BY <1>1 DEF Init, Asked
<1>6. \A b \in Buttons : Events(b) = {}
  BY <1>1 DEF Init, Events, History
<1>7. PositionTells
  BY <1>6 DEF Init, PositionTells, TellsLast
<1>8. NoStuckEvent
  BY <1>1 DEF Init, NoStuckEvent, Pending
<1>9. ReleaseMatchesPress
  BY <1>6 DEF ReleaseMatchesPress
<1> QED
  BY <1>3, <1>4, <1>5, <1>7, <1>8, <1>9 DEF IInv

\* Every step keeps the invariant.
LEMMA StepInv == IInv /\ [Next]_vars => IInv'
<1> SUFFICES ASSUME IInv, [Next]_vars PROVE IInv'
  OBVIOUS
<1>1. CASE \E b \in Buttons, action \in Actions : Receive(b, action)
  BY <1>1, ReceiveKeeps
<1>2. CASE Move
  BY <1>2, MoveKeeps
<1>3. CASE Address
  BY <1>3, AddressKeeps
<1>4. CASE Record
  BY <1>4, RecordKeeps
<1>5. CASE WireEndpoint \/ WireNotifier \/ Forward \/ BeginCollect
  BY <1>5, ServeKeeps
<1>6. CASE TakeSource
  BY <1>6, TakeSourceKeeps
<1>7. CASE Deliver
  BY <1>7, DeliverKeeps
<1>8. CASE UNCHANGED vars
  <2>1. UNCHANGED <<position, number, queue, asked, button, calls, step, from, pos, addressed, notifying, sig, due,
                    source, batch, delivered>>
    BY <1>8 DEF vars, mqttVars, wiringVars, reportVars
  <2>2. /\ Ordered' /\ ReleaseMatchesPress'
        /\ \A c \in Buttons : Events(c)' = Events(c)
        /\ \A c, m : Pending(c, m)' = Pending(c, m)
    BY <2>1, EventsStay
  <2>3. TypeInvariant' /\ Asked' /\ NoStuckEvent'
    BY <2>1, <2>2 DEF IInv, TypeInvariant, Asked, NoStuckEvent
  <2>4. PositionTells'
    <3>1. button \in Buttons
      BY DEF IInv, TypeInvariant
    <3> QED
      BY <2>1, <2>2, <3>1 DEF IInv, PositionTells, TellsLast
  <2> QED
    BY <2>2, <2>3, <2>4 DEF IInv
<1> QED
  BY <1>1, <1>2, <1>3, <1>4, <1>5, <1>6, <1>7, <1>8 DEF Next, Call

\* The invariant holds in every state.
THEOREM Invariance == Spec => []IInv
<1>1. Init => IInv
  BY InitInv
<1>2. IInv /\ [Next]_vars => IInv'
  BY StepInv
<1> QED
  BY <1>1, <1>2, PTL DEF Spec

\* Types: no queue and no report ever holds more than its room, an endpoint id
\* in an event is a byte, and the notifier is set only of buttons whose endpoint
\* id is.
THEOREM TypeCorrect == Spec => []TypeInvariant
<1>1. IInv => TypeInvariant
  BY DEF IInv
<1> QED
  BY <1>1, Invariance, PTL

\* The order and the numbers of the events follow from the invariant.
LEMMA InOrder == IInv => InOrderOnce
<1> SUFFICES ASSUME IInv, NEW b \in Buttons
             PROVE  /\ \A i, j \in DOMAIN History(b) :
                         i < j /\ History(b)[i].button = History(b)[j].button
                           => History(b)[i].num < History(b)[j].num
                    /\ \A e \in Events(b) : e.num <= number[b]
  BY DEF InOrderOnce
<1>1. /\ delivered \in Seq(Event) /\ batch \in Seq(Event) /\ queue[b] \in Seq(Event)
      /\ Ascending(delivered) /\ Ascending(batch) /\ Before(delivered, batch)
      /\ Numbered(delivered) /\ Numbered(batch)
      /\ Ascending(queue[b]) /\ Before(delivered, queue[b]) /\ Before(batch, queue[b]) /\ Numbered(queue[b])
  BY DEF IInv, TypeInvariant, Ordered
<1>2. PICK g, h : g = delivered \o batch /\ h = g \o queue[b]
  OBVIOUS
<1>3. g \in Seq(Event) /\ Ascending(g) /\ Numbered(g) /\ Before(g, queue[b])
  BY <1>1, <1>2, Joined, JoinedAscending, JoinedBefore
<1>4. h \in Seq(Event) /\ Ascending(h) /\ Numbered(h)
  BY <1>1, <1>2, <1>3, Joined, JoinedAscending, JoinedBefore
<1>5. h = History(b) /\ DOMAIN h = 1..Len(h)
  BY <1>2, <1>4 DEF History
<1>6. \A i, j \in DOMAIN h : i < j /\ h[i].button = h[j].button => h[i].num < h[j].num
  BY <1>4, <1>5 DEF Ascending
<1>7. \A e \in ToSet(h) : e.num <= number[e.button]
  BY <1>4, <1>5 DEF Numbered, ToSet
<1> QED
  BY <1>5, <1>6, <1>7 DEF Events

\* take_pending_events and collect_events: reported, taken and pending, the
\* events of a button are in the order they were recorded, and none is twice.
THEOREM OrderCorrect == Spec => []InOrderOnce
  BY InOrder, Invariance, PTL

\* press, release and double_press: a ShortRelease says the button was pressed
\* exactly when the event before it was its InitialPress.
THEOREM ReleaseCorrect == Spec => []ReleaseMatchesPress
<1>1. IInv => ReleaseMatchesPress
  BY DEF IInv
<1> QED
  BY <1>1, Invariance, PTL

\* notify and sensor_forward: an event notified and pending is about to be taken,
\* however its recording falls between the steps of the Matter thread.
THEOREM StuckCorrect == Spec => []NoStuckEvent
<1>1. IInv => NoStuckEvent
  BY DEF IInv
<1> QED
  BY <1>1, Invariance, PTL

-----------------------------------------------------------------------------
(* What is lost.                                                             *)

\* The events of a button are finitely many.
LEMMA EventsFinite ==
  ASSUME TypeInvariant, NEW b \in Buttons
  PROVE  IsFiniteSet(Events(b)) /\ Cardinality(Events(b)) \in Nat
<1>1. PICK h : h = History(b)
  OBVIOUS
<1>2. h \in Seq(Event)
  <2>1. delivered \in Seq(Event) /\ batch \in Seq(Event) /\ queue[b] \in Seq(Event)
    BY DEF TypeInvariant
  <2>2. delivered \o batch \in Seq(Event)
    BY <2>1, Joined
  <2> QED
    BY <1>1, <2>1, <2>2, Joined DEF History
<1>3. PICK n \in Nat : n = Len(h) /\ DOMAIN h = 1..n
  BY <1>2
<1>4. IsFiniteSet(1..n)
  BY FS_Interval
<1>5. IsFiniteSet(ToSet(h))
  <2>1. h \in Surjection(1..n, ToSet(h))
    BY <1>2, <1>3 DEF Surjection, ToSet
  <2> QED
    BY <1>4, <2>1, FS_Surjection
<1>6. Events(b) \in SUBSET ToSet(h)
  BY <1>1 DEF Events
<1>7. IsFiniteSet(Events(b))
  BY <1>5, <1>6, FS_Subset
<1> QED
  BY <1>7, FS_CardinalityType

\* No queue holds more than what is outstanding, nor does the list of a report.
LEMMA PlacesCounted ==
  ASSUME TypeInvariant, NEW b \in Buttons
  PROVE  Cardinality(Pendings) \in Nat /\ Len(queue[b]) <= Cardinality(Pendings)
<1>1. PICK n \in Nat : n = Len(queue[b])
  BY DEF TypeInvariant
<1>2. N \in Nat /\ Cap \in Nat /\ n <= Cap
  BY <1>1, ButtonsAssumption DEF TypeInvariant
<1>3. IsFiniteSet(Buttons) /\ IsFiniteSet(1..Cap) /\ IsFiniteSet(1..n) /\ Cardinality(1..n) = n
  BY <1>2, FS_Interval DEF Buttons
<1>4. IsFiniteSet(Buttons \X (1..Cap))
  BY <1>3, FS_Product
<1>5. Pendings \in SUBSET (Buttons \X (1..Cap))
  BY DEF Pendings
<1>6. IsFiniteSet(Pendings)
  BY <1>4, <1>5, FS_Subset
<1> DEFINE place == [i \in 1..n |-> <<b, i>>]
<1>7. place \in Injection(1..n, Pendings)
  <2>1. ASSUME NEW i \in 1..n PROVE <<b, i>> \in Pendings
    <3>1. <<b, i>> \in Buttons \X (1..Cap) /\ <<b, i>>[1] = b /\ <<b, i>>[2] = i
      BY <1>2
    <3> QED
      BY <1>1, <3>1 DEF Pendings
  <2>2. place \in [1..n -> Pendings]
    BY <2>1
  <2>3. \A i, j \in 1..n : place[i] = place[j] => i = j
    OBVIOUS
  <2> HIDE DEF place
  <2> QED
    BY <2>2, <2>3 DEF Injection, IsInjective
<1>8. n <= Cardinality(Pendings)
  <2> HIDE DEF place
  <2> QED
    BY <1>3, <1>6, <1>7, FS_Injection
<1>9. Cardinality(Pendings) \in Nat
  BY <1>6, FS_CardinalityType
<1> QED
  BY <1>1, <1>8, <1>9

\* So before and after a step.
LEMMA EventsSplit ==
  ASSUME TypeInvariant, TypeInvariant', NEW b \in Buttons
  PROVE  /\ Events(b) = {e \in ToSet(delivered) \cup ToSet(batch) \cup ToSet(queue[b]) : e.button = b}
         /\ Events(b)' = {e \in ToSet(delivered') \cup ToSet(batch') \cup ToSet(queue'[b]) : e.button = b}
<1>1. PICK d, t, q, D, T, Q : /\ d = delivered /\ t = batch /\ q = queue[b]
                              /\ D = delivered' /\ T = batch' /\ Q = queue'[b]
  OBVIOUS
<1>2. /\ d \in Seq(Event) /\ t \in Seq(Event) /\ q \in Seq(Event)
      /\ D \in Seq(Event) /\ T \in Seq(Event) /\ Q \in Seq(Event)
  BY <1>1 DEF TypeInvariant
<1>3. /\ ToSet(d \o t \o q) = ToSet(d) \cup ToSet(t) \cup ToSet(q)
      /\ ToSet(D \o T \o Q) = ToSet(D) \cup ToSet(T) \cup ToSet(Q)
  BY <1>2, EventsAre
<1>4. Events(b) = {e \in ToSet(d \o t \o q) : e.button = b}
  BY <1>1 DEF Events, History
<1>5. Events(b)' = {e \in ToSet(D \o T \o Q) : e.button = b}
  BY <1>1 DEF Events, History
<1> QED
  BY <1>1, <1>3, <1>4, <1>5

\* A queue with room takes the event, which then is one more.
LEMMA RecordLoses ==
  ASSUME IInv, IInv', Record, Outstanding <= Cap, NEW b \in Buttons
  PROVE  Lost(b)' = Lost(b)
<1>0. PICK c, e, q, old, new : /\ c = button /\ e = BuiltEvent /\ q = queue[c]
                               /\ old = Events(b) /\ new = Events(b)'
  OBVIOUS
<1>1. /\ TypeInvariant /\ TypeInvariant' /\ c \in Buttons /\ step = "record" /\ q \in Seq(Event)
      /\ number[b] \in Nat /\ number \in [Buttons -> 0..MaxEvents] /\ queue \in [Buttons -> Seq(Event)]
      /\ Len(q) \in Nat /\ Len(batch) \in Nat /\ Cap \in Nat
  <2>1. /\ TypeInvariant /\ TypeInvariant' /\ c \in Buttons /\ step = "record"
        /\ number \in [Buttons -> 0..MaxEvents] /\ queue \in [Buttons -> Seq(Event)] /\ batch \in Seq(Event)
    BY <1>0 DEF IInv, TypeInvariant, Record
  <2>2. q \in Seq(Event) /\ number[b] \in 0..MaxEvents /\ MaxEvents \in Nat
    BY <1>0, <2>1, ButtonsAssumption
  <2> QED
    BY <2>1, <2>2, ButtonsAssumption
<1>2. Len(q) < Cap
  <2>1. Cardinality(Pendings) \in Nat /\ Len(q) <= Cardinality(Pendings)
    BY <1>0, <1>1, PlacesCounted
  <2>2. Len(batch) + Cardinality(Pendings) + 1 <= Cap
    BY <1>1 DEF Outstanding
  <2> QED
    BY <1>1, <2>1, <2>2
<1>3. /\ number' = [number EXCEPT ![c] = @ + 1] /\ queue' = [queue EXCEPT ![c] = Append(q, e)]
      /\ UNCHANGED <<delivered, batch>>
  BY <1>0, <1>2 DEF Record, reportVars
<1>4. /\ old = {f \in ToSet(delivered) \cup ToSet(batch) \cup ToSet(queue[b]) : f.button = b}
      /\ new = {f \in ToSet(delivered') \cup ToSet(batch') \cup ToSet(queue'[b]) : f.button = b}
  BY <1>0, <1>1, EventsSplit
<1>5. CASE b # c
  <2>1. queue'[b] = queue[b] /\ number'[b] = number[b]
    BY <1>1, <1>3, <1>5
  <2>2. new = old
    BY <1>3, <1>4, <2>1
  <2> QED
    BY <1>0, <2>1, <2>2 DEF Lost
<1>6. CASE b = c
  <2>1. e.button = b /\ e.num = number[b] + 1
    BY <1>0, <1>6 DEF BuiltEvent
  <2>2. e \in Event
    <3>1. (TypeInvariant => queue[b] \in Seq(Event))'
      BY DEF TypeInvariant
    <3>2. Append(q, e) \in Seq(Event) /\ Append(q, e)[Len(q) + 1] = e
      BY <1>1, <1>3, <1>6, <3>1
    <3> QED
      BY <1>1, <3>2
  <2>3. ToSet(queue'[b]) = ToSet(queue[b]) \cup {e}
    BY <1>0, <1>1, <1>3, <1>6, <2>2, Added
  <2>4. new = old \cup {e}
    BY <1>3, <1>4, <2>1, <2>3
  <2>5. e \notin old
    <3>1. \A f \in old : f.num <= number[b]
      BY <1>0, InOrder DEF InOrderOnce
    <3> QED
      BY <1>1, <2>1, <3>1
  <2>6. IsFiniteSet(old) /\ Cardinality(old) \in Nat
    BY <1>0, <1>1, EventsFinite
  <2>7. Cardinality(new) = Cardinality(old) + 1
    BY <2>4, <2>5, <2>6, FS_AddElement
  <2>8. number'[b] = number[b] + 1
    BY <1>1, <1>3, <1>6
  <2> QED
    BY <1>0, <1>1, <2>6, <2>7, <2>8 DEF Lost
<1> QED
  BY <1>5, <1>6

\* A list with room takes all events of a button.
LEMMA TakeSourceLoses ==
  ASSUME IInv, IInv', TakeSource, Outstanding <= Cap, NEW b \in Buttons
  PROVE  Lost(b)' = Lost(b)
<1>0. PICK c, q : c = source /\ q = queue[c]
  OBVIOUS
<1>1. /\ TypeInvariant /\ TypeInvariant' /\ c \in Buttons /\ q \in Seq(Event) /\ batch \in Seq(Event)
      /\ queue \in [Buttons -> Seq(Event)]
      /\ Len(q) \in Nat /\ Len(batch) \in Nat /\ Cap \in Nat
  <2>1. /\ TypeInvariant /\ TypeInvariant' /\ c \in Buttons
        /\ queue \in [Buttons -> Seq(Event)] /\ batch \in Seq(Event)
    BY <1>0 DEF IInv, TypeInvariant, TakeSource
  <2>2. q \in Seq(Event)
    BY <1>0, <2>1
  <2> QED
    BY <2>1, <2>2, ButtonsAssumption
<1>2. Len(q) <= Cap - Len(batch)
  <2>1. Cardinality(Pendings) \in Nat /\ Len(q) <= Cardinality(Pendings)
    BY <1>0, <1>1, PlacesCounted
  <2>2. Len(batch) + Cardinality(Pendings) <= Cap
    BY <1>1, <2>1 DEF Outstanding
  <2> QED
    BY <1>1, <2>1, <2>2
<1>3. /\ batch' = batch \o q /\ queue' = [queue EXCEPT ![c] = <<>>]
      /\ UNCHANGED <<delivered, number>>
  BY <1>0, <1>2 DEF TakeSource, Fitting
<1>4. ToSet(batch') = ToSet(batch) \cup ToSet(q)
  BY <1>1, <1>3, Joined
<1>5. /\ Events(b) = {f \in ToSet(delivered) \cup ToSet(batch) \cup ToSet(queue[b]) : f.button = b}
      /\ Events(b)' = {f \in ToSet(delivered') \cup ToSet(batch') \cup ToSet(queue'[b]) : f.button = b}
  BY <1>1, EventsSplit
<1>6. Events(b)' = Events(b)
  <2>1. CASE b = c
    <3>1. ToSet(queue'[b]) = {} /\ q = queue[b]
      BY <1>0, <1>1, <1>3, <2>1 DEF ToSet
    <3> QED
      BY <1>3, <1>4, <1>5, <3>1
  <2>2. CASE b # c
    <3>1. queue'[b] = queue[b]
      BY <1>1, <1>3, <2>2
    <3>2. \A f \in ToSet(q) : f.button # b
      BY <1>0, <1>1, <2>2 DEF IInv, Ordered, ToSet
    <3> QED
      BY <1>3, <1>4, <1>5, <3>1, <3>2
  <2> QED
    BY <2>1, <2>2
<1> QED
  BY <1>3, <1>6 DEF Lost

\* A report loses nothing.
LEMMA DeliverLoses ==
  ASSUME IInv, IInv', Deliver, NEW b \in Buttons
  PROVE  Lost(b)' = Lost(b)
<1>1. /\ delivered' = delivered \o batch /\ batch' = <<>> /\ UNCHANGED <<number, queue>>
      /\ TypeInvariant /\ TypeInvariant'
      /\ delivered \in Seq(Event) /\ batch \in Seq(Event)
  BY DEF Deliver, IInv, TypeInvariant
<1>2. ToSet(delivered') = ToSet(delivered) \cup ToSet(batch) /\ ToSet(batch') = {}
  <2>1. ToSet(delivered') = ToSet(delivered) \cup ToSet(batch)
    BY <1>1, Joined
  <2>2. ToSet(batch') = {}
    BY <1>1 DEF ToSet
  <2> QED
    BY <2>1, <2>2
<1>3. /\ Events(b) = {f \in ToSet(delivered) \cup ToSet(batch) \cup ToSet(queue[b]) : f.button = b}
      /\ Events(b)' = {f \in ToSet(delivered') \cup ToSet(batch') \cup ToSet(queue'[b]) : f.button = b}
  BY <1>1, EventsSplit
<1>4. Events(b)' = Events(b)
  BY <1>1, <1>2, <1>3
<1> QED
  BY <1>1, <1>4 DEF Lost

\* push_event and collect_events: while no more events are outstanding than one
\* queue or one report holds, no step loses any.
THEOREM LostCorrect == Spec => LostOnlyWhenCrowded
<1> DEFINE Kept == Outstanding <= Cap => \A b \in Buttons : Lost(b)' = Lost(b)
<1>1. IInv /\ IInv' /\ [Next]_vars => [Kept]_vars
  <2> SUFFICES ASSUME IInv, IInv', [Next]_vars, Outstanding <= Cap, NEW b \in Buttons
               PROVE  Lost(b)' = Lost(b)
    OBVIOUS
  <2>1. CASE UNCHANGED <<number, queue, batch, delivered>>
    BY <2>1 DEF Lost, Events, History
  <2>2. CASE Record
    BY <2>2, RecordLoses
  <2>3. CASE TakeSource
    BY <2>3, TakeSourceLoses
  <2>4. CASE Deliver
    BY <2>4, DeliverLoses
  <2>5. CASE \/ \E c \in Buttons, action \in Actions : Receive(c, action)
             \/ Move \/ Address \/ WireEndpoint \/ WireNotifier \/ Forward \/ BeginCollect
             \/ UNCHANGED vars
    <3>1. UNCHANGED <<number, queue, batch, delivered>>
      BY <2>5 DEF Receive, Move, Address, WireEndpoint, WireNotifier, Forward, BeginCollect,
                  vars, mqttVars, wiringVars, reportVars
    <3> QED
      BY <2>1, <3>1
  <2> QED
    BY <2>2, <2>3, <2>4, <2>5 DEF Next, Call
<1> QED
  BY <1>1, Invariance, PTL DEF Spec, LostOnlyWhenCrowded
=============================================================================
