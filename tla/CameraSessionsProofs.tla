------------------------ MODULE CameraSessionsProofs -------------------------
(***************************************************************************)
(* Proofs about CameraSessions, for any number of requests, ids, encoders  *)
(* and commands: types with the encoder limit, ids that are told apart     *)
(* until their counter comes round, and books that balance.                *)
(***************************************************************************)
EXTENDS CameraSessions, SequenceTheorems, FiniteSetTheorems, WellFoundedInduction, TLAPS

-----------------------------------------------------------------------------
(* Numbers and sequences.                                                    *)

\* A set of natural numbers has a least one.
LEMMA Smallest ==
  ASSUME NEW T \in SUBSET Nat, T # {}
  PROVE  \E x \in T : \A y \in T : x <= y
<1>1. PICK x \in T : \A y \in T : ~(<<y, x>> \in OpToRel(<, Nat))
  BY NatLessThanWellFounded, WFMin, Zenon
<1>2. \A y \in T : ~(y < x)
  BY <1>1 DEF OpToRel
<1> QED
  BY <1>2

\* Of two numbers with one remainder the greater is at least a modulus greater.
LEMMA ModApart ==
  ASSUME NEW m \in Nat \ {0}, NEW a \in Nat, NEW b \in Nat, a < b, a % m = b % m
  PROVE  a + m <= b
<1> DEFINE p == a \div m
           q == b \div m
<1>1. p \in Int /\ q \in Int /\ a = m * p + (a % m) /\ b = m * q + (b % m)
  BY SMTT(20)
<1>2. a % m \in 0..(m-1)
  BY SMTT(20)
<1> HIDE DEF p, q
<1>3. m * (q - p) = b - a
  BY <1>1, SMTT(20)
<1>4. q - p >= 1
  BY <1>1, <1>3, SMTT(20)
<1>5. m * (q - p) >= m
  BY <1>1,<1>4, SMTT(20)
<1> QED
  BY <1>3, <1>5

\* A number whose id another one of the first count has is shared.
LEMMA SharedId ==
  ASSUME NEW a \in Nat \ {0}, NEW b \in Nat \ {0}, NEW count \in Nat,
         a <= count, b <= count, a # b, IdOf(a) = IdOf(b)
  PROVE  Shared(a, count)
<1>1. IdSpace \in Nat \ {0} /\ a % IdSpace = b % IdSpace
  BY CameraAssumption DEF IdOf
<1>2. CASE a < b
  <2>1. a + IdSpace <= b
    BY <1>1, <1>2, ModApart
  <2> QED
    BY <1>1, <2>1 DEF Shared
<1>3. CASE b < a
  <2>1. b + IdSpace <= a
    BY <1>1, <1>3, ModApart
  <2> QED
    BY <1>1, <2>1 DEF Shared
<1> QED
  BY <1>2, <1>3

\* Once shared, always shared: the counter only goes up.
LEMMA SharedStays ==
  ASSUME NEW a \in Nat, NEW count \in Nat, NEW later \in Nat, count <= later, Shared(a, count)
  PROVE  Shared(a, later)
  BY CameraAssumption DEF Shared

\* The id of a number is one.
LEMMA IdsOfNumbers == ASSUME NEW n \in Nat PROVE IdOf(n) \in Ids
  BY CameraAssumption, SMTT(20) DEF IdOf, Ids

\* Position is the place of a stream with the id, or 0 if there is none.
LEMMA PositionFinds ==
  ASSUME NEW k, NEW id, streams[k] \in Seq(Nat)
  PROVE  /\ Position(k, id) \in 0..Len(streams[k])
         /\ Position(k, id) # 0 => IdOf(streams[k][Position(k, id)]) = id
         /\ Position(k, id) = 0 => \A i \in DOMAIN streams[k] : IdOf(streams[k][i]) # id
<1> DEFINE s == streams[k]
           I == {i \in 1..Len(s) : IdOf(s[i]) = id}
<1>1. Position(k, id) = IF I # {} THEN Min(I) ELSE 0
  BY Zenon DEF Position, SelectInSeq
<1>2. Len(s) \in Nat /\ DOMAIN s = 1..Len(s)
  OBVIOUS
<1>3. CASE I = {}
  BY <1>1, <1>2, <1>3
<1>4. CASE I # {}
  <2>1. I \in SUBSET Nat
    BY <1>2
  <2>2. \E n \in I : \A m \in I : n <= m
    BY <1>4, <2>1, Smallest
  <2>3. Min(I) \in I
    BY <2>2 DEF Min
  <2> QED
    BY <1>1, <1>2, <1>4, <2>3
<1> QED
  BY <1>3, <1>4

\* What is left of a sequence when one element is taken out.
LEMMA Removal ==
  ASSUME NEW s \in Seq(Nat), NEW p \in 1..Len(s)
  PROVE  /\ RemoveAt(s, p) \in Seq(Nat) /\ Len(RemoveAt(s, p)) = Len(s) - 1
         /\ \A i \in 1..(Len(s) - 1) : RemoveAt(s, p)[i] = IF i < p THEN s[i] ELSE s[i + 1]
<1>1. Len(s) \in Nat /\ \A i \in 1..Len(s) : s[i] \in Nat
  OBVIOUS
<1> DEFINE a == SubSeq(s, 1, p - 1)
           b == SubSeq(s, p + 1, Len(s))
<1>2. a \in Seq(Nat) /\ Len(a) = p - 1 /\ \A i \in 1..(p - 1) : a[i] = s[i]
  BY <1>1
<1>3. /\ b \in Seq(Nat) /\ Len(b) = Len(s) - p
      /\ \A i \in 1..(Len(s) - p) : b[i] = s[p + i]
  BY <1>1
<1>4. /\ a \o b \in Seq(Nat) /\ Len(a \o b) = Len(a) + Len(b)
      /\ \A i \in 1..(Len(a) + Len(b)) : (a \o b)[i] = IF i <= Len(a) THEN a[i] ELSE b[i - Len(a)]
  BY <1>2, <1>3, ConcatProperties, Zenon
<1>5. RemoveAt(s, p) = a \o b
  BY DEF RemoveAt
<1> HIDE DEF a, b
<1> QED
  <2>1. Len(a) + Len(b) = Len(s) - 1
    BY <1>1, <1>2, <1>3
  <2> SUFFICES ASSUME NEW i \in 1..(Len(s) - 1)
               PROVE  (a \o b)[i] = IF i < p THEN s[i] ELSE s[i + 1]
    BY <1>4, <1>5, <2>1
  <2>2. (a \o b)[i] = IF i <= p - 1 THEN a[i] ELSE b[i - (p - 1)]
    BY <1>2, <1>4, <2>1
  <2>3. CASE i < p
    BY <1>2, <2>2, <2>3
  <2>4. CASE ~(i < p)
    <3>1. i - (p - 1) \in 1..(Len(s) - p) /\ p + (i - (p - 1)) = i + 1
      BY <1>1, <2>4
    <3>2. b[i - (p - 1)] = s[p + (i - (p - 1))]
      BY <1>3, <3>1, Zenon
    <3> QED
      BY <2>2, <2>4, <3>1, <3>2
  <2> QED
    BY <2>3, <2>4

-----------------------------------------------------------------------------
(* The inductive invariant.                                                  *)

Started == {"allocated", "solicited", "bridging", "created", "streaming", "ending", "ended", "stuck"}
HasSession == Started \ {"allocated"}
InUse == {"solicited", "bridging", "created", "streaming"}
Places == Started \cup {"idle", "refused"}

\* Streams of a kind are in the order of their numbers, and the encoders suffice.
StreamsInv ==
  /\ streams \in [Kinds -> Seq(Nat)] /\ given \in [Kinds -> Nat]
  /\ \A k \in Kinds : \A i \in DOMAIN streams[k] : streams[k][i] \in 1..given[k]
  /\ \A k \in Kinds : \A i, j \in DOMAIN streams[k] : i < j => streams[k][i] < streams[k][j]
  /\ Len(streams["video"]) <= MaxEncoders

\* No two requests ever have the same stream or the same session.
RequestsInv ==
  /\ pc \in [Requests -> Places]
  /\ stream \in [Requests -> Nat] /\ session \in [Requests -> Nat] /\ opened \in Nat
  /\ \A r \in Requests : stream[r] <= given["video"] /\ session[r] <= opened
  /\ \A r \in Requests : /\ pc[r] \in Started => stream[r] # 0
                         /\ pc[r] \in HasSession => session[r] # 0
  /\ \A r, q \in Requests : r # q => /\ stream[r] # stream[q] \/ stream[r] = 0
                                     /\ session[r] # session[q] \/ session[r] = 0

SessionsInv ==
  /\ \A s \in sessions : /\ s \in [number : Nat, video : Ids \cup {None},
                                   state : {"connecting", "connected"}]
                         /\ s.number \in 1..opened
  /\ \A s, t \in sessions : IdOf(s.number) = IdOf(t.number) => s = t

KeepsStream(r) ==
  stream[r] \in ToSet(streams["video"]) \/ r \in freed \/ Shared(stream[r], given["video"])

GaveBack(r) ==
  stream[r] \notin ToSet(streams["video"]) \/ Shared(stream[r], given["video"])

\* What a request has, from the step that takes it to the step that gives it
\* back.  Before it has a session it already has its stream.
StreamBooks ==
  \A r \in Requests : /\ pc[r] \in InUse \cup {"allocated"} => KeepsStream(r)
                      /\ pc[r] = "ended" => GaveBack(r)

Listed(r) == \E s \in sessions : s.number = session[r] /\ s.video = IdOf(stream[r])

KeepsSession(r) == Listed(r) \/ r \in closed \/ Shared(session[r], opened)

SessionBooks ==
  \A r \in Requests : /\ pc[r] \in InUse => KeepsSession(r)
                      /\ pc[r] = "stuck" => r \in closed \/ Shared(session[r], opened)

\* Every stream and session was asked for by a command or by one request.
CountInv ==
  /\ commands \in 0..MaxCommands
  /\ \A k \in Kinds : given[k] <= commands + Cardinality({r \in Requests : pc[r] \in Started})
  /\ opened <= commands + Cardinality({r \in Requests : pc[r] \in HasSession})

RestInv ==
  /\ bridge \in {"none", "connecting", "present"} /\ rtsp \in BOOLEAN
  /\ peer \in [Requests -> {"none", "initializing", "active", "disconnected"}]
  /\ stop \in {"none", "locked", "looking", "stopping", "done"}
  /\ reading \in BOOLEAN
  /\ left \subseteq Requests
  /\ freed \subseteq Requests /\ closed \subseteq Requests

IInv ==
  /\ StreamsInv /\ RequestsInv /\ SessionsInv
  /\ StreamBooks /\ SessionBooks /\ CountInv /\ RestInv

-----------------------------------------------------------------------------
(* What the operations of the clusters do.                                   *)

\* A new stream has the next number and stands last.
LEMMA AllocateEffect ==
  ASSUME StreamsInv, NEW k \in Kinds, HasRoom(k), Allocate(k)
  PROVE  /\ StreamsInv'
         /\ given'[k] = given[k] + 1 /\ \A l \in Kinds : given[l] <= given'[l] /\ given'[l] <= given[l] + 1
         /\ ToSet(streams'["video"]) \subseteq ToSet(streams["video"]) \cup {given["video"] + 1}
         /\ ToSet(streams["video"]) \subseteq ToSet(streams'["video"])
         /\ k = "audio" => streams'["video"] = streams["video"] /\ given'["video"] = given["video"]
<1> DEFINE n == given[k] + 1
           s == streams[k]
           t == Append(s, n)
<1>1. /\ streams \in [Kinds -> Seq(Nat)] /\ given \in [Kinds -> Nat]
      /\ s \in Seq(Nat) /\ n \in Nat \ {0} /\ Len(s) \in Nat /\ DOMAIN s = 1..Len(s)
  BY DEF StreamsInv
<1>2. /\ given' = [given EXCEPT ![k] = n] /\ streams' = [streams EXCEPT ![k] = t]
  BY DEF Allocate
<1>3. /\ t \in Seq(Nat) /\ Len(t) = Len(s) + 1 /\ DOMAIN t = 1..(Len(s) + 1)
      /\ \A i \in 1..Len(s) : t[i] = s[i]
      /\ t[Len(s) + 1] = n
  BY <1>1, AppendProperties
<1>4. \A i \in DOMAIN s : s[i] \in 1..(n - 1)
  BY <1>1 DEF StreamsInv
<1>5. \A i, j \in DOMAIN s : i < j => s[i] < s[j]
  BY DEF StreamsInv
<1> HIDE DEF n, s, t
<1>6. \A i \in DOMAIN t : t[i] \in 1..n
  <2> SUFFICES ASSUME NEW i \in DOMAIN t PROVE t[i] \in 1..n
    OBVIOUS
  <2>1. CASE i = Len(s) + 1
    BY <1>1, <1>3, <2>1
  <2>2. CASE i # Len(s) + 1
    <3>1. i \in 1..Len(s)
      BY <1>1, <1>3, <2>2
    <3>2. t[i] = s[i] /\ s[i] \in 1..(n - 1)
      BY <1>1, <1>3, <1>4, <3>1
    <3> QED
      BY <1>1, <3>2
  <2> QED
    BY <2>1, <2>2
<1>7. \A i, j \in DOMAIN t : i < j => t[i] < t[j]
  <2> SUFFICES ASSUME NEW i \in DOMAIN t, NEW j \in DOMAIN t, i < j PROVE t[i] < t[j]
    OBVIOUS
  <2>1. i \in 1..Len(s) /\ t[i] = s[i]
    BY <1>1, <1>3
  <2>2. CASE j \in 1..Len(s)
    BY <1>1, <1>3, <1>5, <2>1, <2>2
  <2>3. CASE j = Len(s) + 1
    BY <1>1, <1>3, <1>4, <2>1, <2>3
  <2> QED
    BY <1>1, <1>3, <2>2, <2>3
<1>8. given'[k] = n /\ given' \in [Kinds -> Nat] /\ \A l \in Kinds : l # k => given'[l] = given[l]
  BY <1>1, <1>2
<1>9. streams'[k] = t /\ streams' \in [Kinds -> Seq(Nat)] /\ \A l \in Kinds : l # k => streams'[l] = streams[l]
  BY <1>1, <1>2, <1>3
<1>10. Len(streams'["video"]) <= MaxEncoders
  <2>1. CASE k = "video"
    <3>1. Len(s) < MaxEncoders
      BY <2>1 DEF HasRoom, s
    <3> QED
      BY <1>1, <1>3, <1>9, <2>1, <3>1, CameraAssumption
  <2>2. CASE k = "audio"
    BY <1>9, <2>2 DEF StreamsInv, Kinds
  <2> QED
    BY <2>1, <2>2 DEF Kinds
<1>11. StreamsInv'
  <2>1. \A l \in Kinds : \A i \in DOMAIN streams'[l] : streams'[l][i] \in 1..given'[l]
    BY <1>6, <1>8, <1>9 DEF StreamsInv
  <2>2. \A l \in Kinds : \A i, j \in DOMAIN streams'[l] : i < j => streams'[l][i] < streams'[l][j]
    BY <1>7, <1>9 DEF StreamsInv
  <2> QED
    BY <1>8, <1>9, <1>10, <2>1, <2>2 DEF StreamsInv
<1>12. /\ ToSet(t) \subseteq ToSet(s) \cup {n} /\ ToSet(s) \subseteq ToSet(t)
  <2>1. \A i \in DOMAIN s : i \in DOMAIN t /\ t[i] = s[i]
    BY <1>1, <1>3
  <2>2. \A i \in DOMAIN t : i \in DOMAIN s \/ i = Len(s) + 1
    BY <1>1, <1>3
  <2>3. \A i \in DOMAIN t : t[i] \in ToSet(s) \cup {n}
    BY <1>3, <2>1, <2>2 DEF ToSet
  <2> QED
    BY <2>1, <2>3 DEF ToSet
<1>13. n = given[k] + 1 /\ s = streams[k]
  BY DEF n, s
<1> QED
  BY <1>1, <1>8, <1>9, <1>11, <1>12, <1>13 DEF Kinds

\* A stream that goes is the first one with the id, and no other one goes.
LEMMA DeallocateEffect ==
  ASSUME StreamsInv, NEW k \in Kinds, NEW id, Deallocate(k, id), UNCHANGED given
  PROVE  /\ StreamsInv'
         /\ k = "audio" => streams'["video"] = streams["video"]
         /\ Position(k, id) = 0 => streams' = streams /\ \A n \in ToSet(streams[k]) : IdOf(n) # id
         /\ Position(k, id) # 0 =>
              LET n == streams[k][Position(k, id)]
              IN  n \in 1..given[k] /\ IdOf(n) = id /\ ToSet(streams'[k]) = ToSet(streams[k]) \ {n}
<1> DEFINE p == Position(k, id)
           s == streams[k]
           t == RemoveAt(s, p)
<1>1. /\ streams \in [Kinds -> Seq(Nat)] /\ given \in [Kinds -> Nat]
      /\ s \in Seq(Nat) /\ Len(s) \in Nat /\ DOMAIN s = 1..Len(s)
  BY DEF StreamsInv
<1>2. /\ p \in 0..Len(s)
      /\ p # 0 => IdOf(s[p]) = id
      /\ p = 0 => \A i \in DOMAIN s : IdOf(s[i]) # id
  BY <1>1, PositionFinds
<1>3. streams' = IF p = 0 THEN streams ELSE [streams EXCEPT ![k] = t]
  BY DEF Deallocate
<1>4. \A i \in DOMAIN s : s[i] \in 1..given[k]
  BY DEF StreamsInv
<1>5. \A i, j \in DOMAIN s : i < j => s[i] < s[j]
  BY DEF StreamsInv
<1>6. CASE p = 0
  <2>1. streams' = streams
    BY <1>3, <1>6
  <2>2. \A n \in ToSet(s) : IdOf(n) # id
    BY <1>2, <1>6 DEF ToSet
  <2> QED
    BY <1>6, <2>1, <2>2 DEF StreamsInv
<1>7. CASE p # 0
  <2>1. p \in 1..Len(s)
    BY <1>1, <1>2, <1>7
  <2>2. /\ t \in Seq(Nat) /\ Len(t) = Len(s) - 1
        /\ \A i \in 1..(Len(s) - 1) : t[i] = IF i < p THEN s[i] ELSE s[i + 1]
    BY <1>1, <2>1, Removal
  <2>3. streams' = [streams EXCEPT ![k] = t]
    BY <1>3, <1>7
  <2>4. DOMAIN t = 1..(Len(s) - 1)
    BY <2>2
  <2>n. p = Position(k, id) /\ s = streams[k]
    OBVIOUS
  <2> HIDE DEF p, s, t
  <2>5. \A i \in DOMAIN t : \E j \in DOMAIN s : t[i] = s[j] /\ j # p /\ j = IF i < p THEN i ELSE i + 1
    <3> SUFFICES ASSUME NEW i \in DOMAIN t
                 PROVE  \E j \in DOMAIN s : t[i] = s[j] /\ j # p /\ j = IF i < p THEN i ELSE i + 1
      OBVIOUS
    <3> DEFINE j == IF i < p THEN i ELSE i + 1
    <3>1. i \in 1..(Len(s) - 1)
      BY <2>4
    <3>2. j \in DOMAIN s /\ j # p
      BY <1>1, <2>1, <3>1
    <3>3. t[i] = s[j]
      BY <2>2, <3>1
    <3> QED
      BY <3>2, <3>3
  <2>6. \A i \in DOMAIN t : t[i] \in 1..given[k]
    BY <1>4, <2>5
  <2>7. \A i, j \in DOMAIN t : i < j => t[i] < t[j]
    <3> SUFFICES ASSUME NEW i \in DOMAIN t, NEW j \in DOMAIN t, i < j PROVE t[i] < t[j]
      OBVIOUS
    <3>1. PICK a \in DOMAIN s : t[i] = s[a] /\ a = IF i < p THEN i ELSE i + 1
      BY <2>5
    <3>2. PICK b \in DOMAIN s : t[j] = s[b] /\ b = IF j < p THEN j ELSE j + 1
      BY <2>5
    <3>3. a < b
      BY <1>1, <2>1, <2>4, <3>1, <3>2
    <3> QED
      BY <1>5, <3>1, <3>2, <3>3
  <2>8. ToSet(t) = ToSet(s) \ {s[p]}
    <3>1. ASSUME NEW i \in DOMAIN t PROVE t[i] \in ToSet(s) \ {s[p]}
      <4>1. PICK j \in DOMAIN s : t[i] = s[j] /\ j # p
        BY <2>5
      <4>2. s[j] \in Nat /\ s[p] \in Nat /\ j \in Int /\ p \in Int
        BY <1>1, <2>1
      <4>3. s[j] # s[p]
        <5>1. p \in DOMAIN s
          BY <1>1, <2>1
        <5>2. s[j] < s[p] \/ s[p] < s[j]
          BY <1>5, <4>1, <4>2, <5>1
        <5> QED
          BY <4>2, <5>2
      <4> QED
        BY <4>1, <4>3 DEF ToSet
    <3>2. ASSUME NEW j \in DOMAIN s, s[j] # s[p] PROVE s[j] \in ToSet(t)
      <4> DEFINE i == IF j < p THEN j ELSE j - 1
      <4>1. j # p /\ j \in 1..Len(s)
        BY <1>1, <3>2
      <4>2. i \in 1..(Len(s) - 1) /\ (i < p <=> j < p) /\ (~(j < p) => i + 1 = j)
        BY <1>1, <2>1, <4>1
      <4>3. t[i] = s[j]
        BY <2>2, <4>1, <4>2
      <4> QED
        BY <2>4, <4>2, <4>3 DEF ToSet
    <3> QED
      BY <3>1, <3>2 DEF ToSet
  <2>9. streams'[k] = t /\ streams' \in [Kinds -> Seq(Nat)] /\ \A l \in Kinds : l # k => streams'[l] = streams[l]
    BY <1>1, <2>2, <2>3
  <2>10. StreamsInv'
    <3>1. \A l \in Kinds : \A i \in DOMAIN streams'[l] : streams'[l][i] \in 1..given'[l]
      BY <2>6, <2>9 DEF StreamsInv
    <3>2. \A l \in Kinds : \A i, j \in DOMAIN streams'[l] : i < j => streams'[l][i] < streams'[l][j]
      BY <2>7, <2>9 DEF StreamsInv
    <3>3. Len(streams["video"]) <= MaxEncoders /\ Len(streams["video"]) \in Nat
      BY <1>1 DEF StreamsInv, Kinds
    <3>4. Len(streams'["video"]) <= Len(streams["video"])
      BY <1>1, <2>2, <2>9, <2>n, <3>3 DEF Kinds
    <3>5. Len(streams'["video"]) <= MaxEncoders
      BY <2>9, <3>3, <3>4, CameraAssumption DEF Kinds
    <3> QED
      BY <1>1, <2>9, <3>1, <3>2, <3>5 DEF StreamsInv
  <2>11. s[p] \in 1..given[k] /\ IdOf(s[p]) = id
    BY <1>1, <1>2, <1>4, <1>7, <2>1
  <2> QED
    BY <1>7, <2>8, <2>9, <2>10, <2>11, <2>n DEF Kinds
<1> QED
  BY <1>6, <1>7

\* A new session takes the place of one whose id it has, and of no other.
LEMMA OpenEffect ==
  ASSUME SessionsInv, opened \in Nat, NEW v \in Ids \cup {None}, Open(v)
  PROVE  /\ SessionsInv' /\ opened' = opened + 1
         /\ \A s \in sessions : s \in sessions' \/ IdOf(s.number) = IdOf(opened + 1)
         /\ \E s \in sessions' : s.number = opened + 1 /\ s.video = v
<1> DEFINE new == [number |-> opened + 1, video |-> v, state |-> "connecting"]
           rest == {s \in sessions : IdOf(s.number) # IdOf(opened + 1)}
<1>1. opened' = opened + 1 /\ sessions' = rest \cup {new}
  BY DEF Open
<1>2. /\ new \in [number : Nat, video : Ids \cup {None}, state : {"connecting", "connected"}]
      /\ new.number = opened + 1 /\ new.video = v
  OBVIOUS
<1> HIDE DEF new
<1>3. \A s \in sessions' : /\ s \in [number : Nat, video : Ids \cup {None},
                                     state : {"connecting", "connected"}]
                           /\ s.number \in 1..opened'
  <2>1. \A s \in rest : s.number \in 1..(opened + 1)
    BY DEF SessionsInv
  <2> QED
    BY <1>1, <1>2, <2>1 DEF SessionsInv
<1>4. \A s, t \in sessions' : IdOf(s.number) = IdOf(t.number) => s = t
  <2>1. \A s \in rest : s \in sessions /\ IdOf(s.number) # IdOf(new.number)
    BY <1>2
  <2> HIDE DEF rest
  <2> QED
    BY <1>1, <2>1 DEF SessionsInv
<1>5. SessionsInv'
  BY <1>3, <1>4 DEF SessionsInv
<1> QED
  BY <1>1, <1>2, <1>5

\* Only the sessions with the id are closed.
LEMMA CloseEffect ==
  ASSUME SessionsInv, NEW id, Close(id), UNCHANGED opened
  PROVE  /\ SessionsInv'
         /\ \A s \in sessions : s \in sessions' \/ s \in Found(id)
<1>1. sessions' \subseteq sessions /\ \A s \in sessions : s \in sessions' \/ s \in Found(id)
  BY DEF Close
<1> QED
  BY <1>1 DEF SessionsInv

-----------------------------------------------------------------------------
(* What they do to the books of a request they are not called for.           *)

\* A new stream takes no stream away and gives none back.
LEMMA AllocateBooks ==
  ASSUME StreamsInv, RequestsInv, NEW k \in Kinds, HasRoom(k), Allocate(k),
         NEW r \in Requests, stream'[r] = stream[r], UNCHANGED freed
  PROVE  /\ KeepsStream(r) => KeepsStream(r)'
         /\ GaveBack(r) => GaveBack(r)'
<1>1. /\ \A l \in Kinds : given[l] <= given'[l]
      /\ ToSet(streams'["video"]) \subseteq ToSet(streams["video"]) \cup {given["video"] + 1}
      /\ ToSet(streams["video"]) \subseteq ToSet(streams'["video"])
      /\ StreamsInv'
  BY AllocateEffect
<1>2. stream[r] \in Nat /\ given["video"] \in Nat /\ given'["video"] \in Nat /\ stream[r] <= given["video"]
  BY <1>1 DEF RequestsInv, StreamsInv, Kinds
<1>3. given["video"] <= given'["video"]
  BY <1>1 DEF Kinds
<1>4. Shared(stream[r], given["video"]) => Shared(stream[r], given'["video"])
  BY <1>2, <1>3, SharedStays
<1>5. stream[r] \notin ToSet(streams["video"]) => stream[r] \notin ToSet(streams'["video"])
  BY <1>1, <1>2
<1> QED
  BY <1>1, <1>4, <1>5 DEF KeepsStream, GaveBack

\* Whoever deallocates takes away the one stream it found.
LEMMA DeallocateBooks ==
  ASSUME StreamsInv, RequestsInv, NEW k \in Kinds, NEW id, Deallocate(k, id), UNCHANGED given,
         NEW r \in Requests, stream'[r] = stream[r], freed \subseteq freed'
  PROVE  /\ KeepsStream(r) => \/ KeepsStream(r)'
                              \/ /\ k = "video" /\ Position(k, id) # 0
                                 /\ stream[r] = streams[k][Position(k, id)]
         /\ GaveBack(r) => GaveBack(r)'
<1>1. /\ k = "audio" => streams'["video"] = streams["video"]
      /\ Position(k, id) = 0 => streams' = streams
      /\ Position(k, id) # 0 => ToSet(streams'[k]) = ToSet(streams[k]) \ {streams[k][Position(k, id)]}
  BY DeallocateEffect
<1>2. k = "audio" \/ k = "video"
  BY DEF Kinds
<1>3. \/ ToSet(streams'["video"]) = ToSet(streams["video"])
      \/ /\ k = "video" /\ Position(k, id) # 0
         /\ ToSet(streams'["video"]) = ToSet(streams["video"]) \ {streams[k][Position(k, id)]}
  BY <1>1, <1>2
<1> QED
  BY <1>3 DEF KeepsStream, GaveBack

\* A new session takes the place of a kept one only when both have one id.
LEMMA OpenBooks ==
  ASSUME RequestsInv, SessionsInv, NEW v \in Ids \cup {None}, Open(v),
         NEW r \in Requests, session[r] # 0, session'[r] = session[r], stream'[r] = stream[r],
         closed' = closed
  PROVE  /\ KeepsSession(r) => KeepsSession(r)'
         /\ Shared(session[r], opened) => Shared(session[r], opened')
<1>1. /\ opened \in Nat /\ session[r] \in Nat \ {0} /\ session[r] <= opened
  BY DEF RequestsInv
<1>2. /\ opened' = opened + 1
      /\ \A s \in sessions : s \in sessions' \/ IdOf(s.number) = IdOf(opened + 1)
  BY <1>1, OpenEffect
<1>3. Shared(session[r], opened) => Shared(session[r], opened')
  BY <1>1, <1>2, SharedStays
<1>4. IdOf(session[r]) = IdOf(opened + 1) => Shared(session[r], opened')
  <2>1. /\ opened + 1 \in Nat \ {0} /\ session[r] # opened + 1
        /\ opened + 1 <= opened + 1 /\ session[r] <= opened + 1
    BY <1>1
  <2> QED
    BY <1>1, <1>2, <2>1, SharedId
<1>5. Listed(r) => Listed(r)' \/ Shared(session[r], opened')
  BY <1>2, <1>4 DEF Listed
<1> QED
  BY <1>3, <1>5 DEF KeepsSession

\* Whoever closes takes away the sessions it found.
LEMMA CloseBooks ==
  ASSUME SessionsInv, NEW id, Close(id), UNCHANGED opened,
         NEW r \in Requests, session'[r] = session[r], stream'[r] = stream[r], closed \subseteq closed'
  PROVE  KeepsSession(r) => KeepsSession(r)' \/ \E s \in Found(id) : s.number = session[r]
<1>1. \A s \in sessions : s \in sessions' \/ s \in Found(id)
  BY CloseEffect
<1>2. Listed(r) => Listed(r)' \/ \E s \in Found(id) : s.number = session[r]
  BY <1>1 DEF Listed
<1> QED
  BY <1>2 DEF KeepsSession

\* The number of requests that are in one of the places P.
LEMMA CountStep ==
  ASSUME RequestsInv, NEW r \in Requests, NEW place, Goto(r, place), NEW P
  PROVE  /\ Cardinality({q \in Requests : pc[q] \in P}) \in Nat
         /\ (pc[r] \in P <=> place \in P) =>
              Cardinality({q \in Requests : pc'[q] \in P}) = Cardinality({q \in Requests : pc[q] \in P})
         /\ pc[r] \notin P /\ place \in P =>
              Cardinality({q \in Requests : pc'[q] \in P}) = Cardinality({q \in Requests : pc[q] \in P}) + 1
<1> DEFINE before == {q \in Requests : pc[q] \in P}
           after  == {q \in Requests : pc'[q] \in P}
<1>1. pc \in [Requests -> Places] /\ pc' = [pc EXCEPT ![r] = place]
  BY DEF RequestsInv, Goto
<1>2. IsFiniteSet(before)
  BY CameraAssumption, FS_Subset
<1>3. Cardinality(before) \in Nat
  BY <1>2, FS_CardinalityType
<1>4. (pc[r] \in P <=> place \in P) => after = before
  BY <1>1
<1>5. pc[r] \notin P /\ place \in P => after = before \cup {r} /\ r \notin before
  BY <1>1
<1> HIDE DEF before, after
<1>6. pc[r] \notin P /\ place \in P => Cardinality(after) = Cardinality(before) + 1
  BY <1>2, <1>5, FS_AddElement
<1> QED
  BY <1>3, <1>4, <1>6 DEF before, after

-----------------------------------------------------------------------------
(* The commands of controllers.                                              *)

\* A command may number one stream of each kind and one session.
LEMMA CommandsCounted ==
  ASSUME CountInv, StreamsInv, RequestsInv, StreamsInv', opened' \in Nat,
         commands < MaxCommands, commands' = commands + 1, UNCHANGED pc,
         \A k \in Kinds : given'[k] <= given[k] + 1, opened' <= opened + 1
  PROVE  CountInv'
<1> DEFINE n(P) == Cardinality({r \in Requests : pc[r] \in P})
<1>1. n(Started) \in Nat /\ n(HasSession) \in Nat
  BY CameraAssumption, FS_Subset, FS_CardinalityType
<1>2. /\ commands \in 0..MaxCommands /\ MaxCommands \in Nat /\ opened \in Nat
      /\ opened <= commands + n(HasSession)
      /\ \A k \in Kinds : given[k] <= commands + n(Started)
  BY CameraAssumption DEF CountInv, RequestsInv
<1>3. \A k \in Kinds : given[k] \in Nat /\ given'[k] \in Nat
  BY DEF StreamsInv
<1>4. (n(Started))' = n(Started) /\ (n(HasSession))' = n(HasSession)
  OBVIOUS
<1> HIDE DEF n
<1>5. \A k \in Kinds : given'[k] <= commands' + n(Started)
  BY <1>1, <1>2, <1>3
<1>6. opened' <= commands' + n(HasSession) /\ commands' \in 0..MaxCommands
  BY <1>1, <1>2
<1> QED
  BY <1>4, <1>5, <1>6 DEF CountInv, n

\* VideoStreamAllocate and AudioStreamAllocate.
LEMMA StreamAllocateKeeps ==
  ASSUME IInv, NEW k \in Kinds, StreamAllocate(k), commands < MaxCommands, commands' = commands + 1
  PROVE  IInv'
<1>1. /\ StreamsInv /\ RequestsInv /\ SessionsInv /\ StreamBooks /\ SessionBooks /\ CountInv /\ RestInv
  BY DEF IInv
<1>2. /\ HasRoom(k) /\ Allocate(k)
      /\ UNCHANGED <<sessions, opened, bridge, rtsp, peer, reading, pc, stream, session, stop, left,
                     freed, closed>>
  BY DEF StreamAllocate, bridgeVars, callVars
<1>3. /\ StreamsInv' /\ \A l \in Kinds : given[l] <= given'[l] /\ given'[l] <= given[l] + 1
  BY <1>1, <1>2, AllocateEffect
<1>4. \A l \in Kinds : given[l] \in Nat /\ given'[l] \in Nat
  BY <1>1, <1>3 DEF StreamsInv
<1>5. RequestsInv'
  <2>1. "video" \in Kinds
    BY DEF Kinds
  <2>2. \A r \in Requests : stream[r] \in Nat /\ stream[r] <= given'["video"]
    BY <1>1, <1>3, <1>4, <2>1 DEF RequestsInv
  <2> QED
    BY <1>1, <1>2, <2>2 DEF RequestsInv
<1>6. StreamBooks'
  <2>1. \A r \in Requests : /\ KeepsStream(r) => KeepsStream(r)'
                            /\ GaveBack(r) => GaveBack(r)'
    <3> SUFFICES ASSUME NEW r \in Requests
                 PROVE  /\ KeepsStream(r) => KeepsStream(r)'
                        /\ GaveBack(r) => GaveBack(r)'
      OBVIOUS
    <3>1. stream'[r] = stream[r]
      BY <1>2
    <3> QED
      BY <1>1, <1>2, <3>1, AllocateBooks
  <2> QED
    BY <1>1, <1>2, <2>1 DEF StreamBooks
<1>7. SessionsInv' /\ SessionBooks' /\ RestInv'
  BY <1>1, <1>2 DEF SessionsInv, SessionBooks, KeepsSession, Listed, RestInv
<1>8. CountInv'
  <2>1. opened \in Nat /\ opened' = opened /\ opened <= opened + 1
    BY <1>1, <1>2 DEF RequestsInv
  <2> QED
    BY <1>1, <1>2, <1>3, <2>1, CommandsCounted
<1> QED
  BY <1>3, <1>5, <1>6, <1>7, <1>8 DEF IInv

\* VideoStreamDeallocate and AudioStreamDeallocate: the stream that goes may be that
\* of a request, which is then written down in freed.
LEMMA StreamDeallocateKeeps ==
  ASSUME IInv, NEW k \in Kinds, NEW id \in Ids, StreamDeallocate(k, id),
         commands < MaxCommands, commands' = commands + 1
  PROVE  IInv'
<1>1. /\ StreamsInv /\ RequestsInv /\ SessionsInv /\ StreamBooks /\ SessionBooks /\ CountInv /\ RestInv
  BY DEF IInv
<1>2. /\ Position(k, id) # 0 /\ Deallocate(k, id)
      /\ freed' = IF k = "video"
                    THEN freed \cup {r \in Requests : stream[r] = streams[k][Position(k, id)]}
                    ELSE freed
      /\ UNCHANGED <<given, sessions, opened, bridge, rtsp, peer, reading, pc, stream, session, stop, left,
                     closed>>
  BY DEF StreamDeallocate, bridgeVars, callVars
<1>3. StreamsInv'
  BY <1>1, <1>2, DeallocateEffect
<1>4. freed \subseteq freed' /\ freed' \subseteq freed \cup Requests
  BY <1>2
<1>5. RequestsInv' /\ SessionsInv' /\ SessionBooks' /\ RestInv'
  BY <1>1, <1>2, <1>4 DEF RequestsInv, SessionsInv, SessionBooks, KeepsSession, Listed, RestInv
<1>6. StreamBooks'
  <2>1. ASSUME NEW r \in Requests
        PROVE  /\ KeepsStream(r) => KeepsStream(r)'
               /\ GaveBack(r) => GaveBack(r)'
    <3>1. stream'[r] = stream[r]
      BY <1>2
    <3>2. /\ KeepsStream(r) => \/ KeepsStream(r)'
                               \/ k = "video" /\ stream[r] = streams[k][Position(k, id)]
          /\ GaveBack(r) => GaveBack(r)'
      BY <1>1, <1>2, <1>4, <3>1, DeallocateBooks
    <3>3. k = "video" /\ stream[r] = streams[k][Position(k, id)] => r \in freed'
      BY <1>2
    <3>4. r \in freed' => KeepsStream(r)'
      BY DEF KeepsStream
    <3> QED
      BY <3>2, <3>3, <3>4
  <2> QED
    BY <1>1, <1>2, <2>1 DEF StreamBooks
<1>7. CountInv'
  <2>1. /\ opened \in Nat /\ opened' = opened /\ opened <= opened + 1 /\ StreamsInv'
        /\ \A l \in Kinds : given'[l] <= given[l] + 1
    BY <1>1, <1>2, <1>3 DEF RequestsInv, StreamsInv
  <2> QED
    BY <1>1, <1>2, <2>1, CommandsCounted
<1> QED
  BY <1>3, <1>5, <1>6, <1>7 DEF IInv

\* SolicitOffer and ProvideOffer.
LEMMA OfferKeeps ==
  ASSUME IInv, NEW v \in Offered, Offer(v), commands < MaxCommands, commands' = commands + 1
  PROVE  IInv'
<1>1. /\ StreamsInv /\ RequestsInv /\ SessionsInv /\ StreamBooks /\ SessionBooks /\ CountInv /\ RestInv
  BY DEF IInv
<1>2. /\ Open(v) /\ v \in Ids \cup {None}
      /\ UNCHANGED <<streams, given, bridge, rtsp, peer, reading, pc, stream, session, stop, left,
                     freed, closed>>
  BY CameraAssumption DEF Offer, bridgeVars, callVars
<1>3. opened \in Nat /\ SessionsInv' /\ opened' = opened + 1
  BY <1>1, <1>2, OpenEffect DEF RequestsInv
<1>4. StreamsInv' /\ StreamBooks' /\ RestInv'
  BY <1>1, <1>2 DEF StreamsInv, StreamBooks, KeepsStream, GaveBack, RestInv
<1>5. RequestsInv'
  <2>1. \A r \in Requests : session[r] \in Nat /\ session[r] <= opened'
    BY <1>1, <1>3 DEF RequestsInv
  <2> QED
    BY <1>1, <1>2, <1>3, <2>1 DEF RequestsInv
<1>6. SessionBooks'
  <2>1. ASSUME NEW r \in Requests, session[r] # 0
        PROVE  /\ KeepsSession(r) => KeepsSession(r)'
               /\ Shared(session[r], opened) => Shared(session[r], opened')
    <3>1. session'[r] = session[r] /\ stream'[r] = stream[r] /\ closed' = closed
      BY <1>2
    <3> QED
      BY <1>1, <1>2, <2>1, <3>1, OpenBooks
  <2>2. \A r \in Requests : pc[r] \in InUse \cup {"stuck"} => session[r] # 0
    BY <1>1 DEF RequestsInv, InUse, HasSession, Started
  <2> QED
    BY <1>1, <1>2, <2>1, <2>2 DEF SessionBooks
<1>7. CountInv'
  <2>1. /\ opened' \in Nat /\ opened' <= opened + 1 /\ StreamsInv'
        /\ \A k \in Kinds : given'[k] <= given[k] + 1
    BY <1>1, <1>2, <1>3, <1>4 DEF StreamsInv
  <2> QED
    BY <1>1, <1>2, <2>1, CommandsCounted
<1> QED
  BY <1>3, <1>4, <1>5, <1>6, <1>7 DEF IInv

\* An answer to an offer changes the state of its session only.
LEMMA AnswerKeeps ==
  ASSUME IInv, NEW id \in Ids, ProvideAnswer(id), commands < MaxCommands, commands' = commands + 1
  PROVE  IInv'
<1>1. /\ StreamsInv /\ RequestsInv /\ SessionsInv /\ StreamBooks /\ SessionBooks /\ CountInv /\ RestInv
  BY DEF IInv
<1> DEFINE answered(s) == [s EXCEPT !.state = "connected"]
<1>2. /\ sessions' = (sessions \ Found(id)) \cup {answered(s) : s \in Found(id)}
      /\ UNCHANGED <<streams, given, opened, bridge, rtsp, peer, reading, pc, stream, session, stop, left,
                     freed, closed>>
  BY DEF ProvideAnswer, bridgeVars, callVars
<1>3. \A s \in sessions : /\ answered(s) \in [number : Nat, video : Ids \cup {None},
                                              state : {"connecting", "connected"}]
                          /\ answered(s).number = s.number /\ answered(s).video = s.video
  BY <1>1 DEF SessionsInv
<1>4. Found(id) \subseteq sessions
  BY DEF Found
<1> HIDE DEF answered
<1>5. \A t \in sessions' : \E s \in sessions :
        /\ t = s \/ t = answered(s)
        /\ t.number = s.number /\ t.video = s.video
        /\ s \notin Found(id) => t = s
        /\ s \in Found(id) => t = answered(s)
  BY <1>2, <1>3, <1>4
<1>6. \A s \in sessions : \E t \in sessions' : t.number = s.number /\ t.video = s.video
  BY <1>2, <1>3
<1>7. SessionsInv'
  <2>1. \A s, t \in sessions' : IdOf(s.number) = IdOf(t.number) => s = t
    <3> SUFFICES ASSUME NEW s \in sessions', NEW t \in sessions', IdOf(s.number) = IdOf(t.number)
                 PROVE  s = t
      OBVIOUS
    <3>1. PICK a \in sessions : /\ s.number = a.number
                                /\ s = a \/ s = answered(a)
                                /\ a \notin Found(id) => s = a
                                /\ a \in Found(id) => s = answered(a)
      BY <1>5
    <3>2. PICK b \in sessions : /\ t.number = b.number
                                /\ t = b \/ t = answered(b)
                                /\ b \notin Found(id) => t = b
                                /\ b \in Found(id) => t = answered(b)
      BY <1>5
    <3>3. a = b
      BY <1>1, <3>1, <3>2 DEF SessionsInv
    <3>4. CASE a \in Found(id)
      BY <3>1, <3>2, <3>3, <3>4
    <3>5. CASE a \notin Found(id)
      BY <3>1, <3>2, <3>3, <3>5
    <3> QED
      BY <3>4, <3>5
  <2>2. \A s \in sessions' : /\ s \in [number : Nat, video : Ids \cup {None},
                                       state : {"connecting", "connected"}]
                             /\ s.number \in 1..opened'
    BY <1>1, <1>2, <1>3, <1>5 DEF SessionsInv
  <2> QED
    BY <2>1, <2>2 DEF SessionsInv
<1>8. StreamsInv' /\ StreamBooks' /\ RestInv' /\ RequestsInv'
  BY <1>1, <1>2 DEF StreamsInv, StreamBooks, KeepsStream, GaveBack, RestInv, RequestsInv
<1>9. SessionBooks'
  <2>1. \A r \in Requests : Listed(r) => Listed(r)'
    BY <1>2, <1>6 DEF Listed
  <2> QED
    BY <1>1, <1>2, <2>1 DEF SessionBooks, KeepsSession
<1>10. CountInv'
  <2>1. /\ opened \in Nat /\ opened' = opened /\ opened <= opened + 1 /\ StreamsInv'
        /\ \A k \in Kinds : given'[k] <= given[k] + 1
    BY <1>1, <1>2, <1>8 DEF RequestsInv, StreamsInv
  <2> QED
    BY <1>1, <1>2, <2>1, CommandsCounted
<1> QED
  BY <1>7, <1>8, <1>9, <1>10 DEF IInv

\* EndSession: the session that goes may be that of a request, which is then written
\* down in closed.
LEMMA EndSessionKeeps ==
  ASSUME IInv, NEW id \in Ids, EndSession(id), commands < MaxCommands, commands' = commands + 1
  PROVE  IInv'
<1>1. /\ StreamsInv /\ RequestsInv /\ SessionsInv /\ StreamBooks /\ SessionBooks /\ CountInv /\ RestInv
  BY DEF IInv
<1>2. /\ Close(id)
      /\ closed' = closed \cup {r \in Requests : \E s \in Found(id) : s.number = session[r]}
      /\ UNCHANGED <<streams, given, opened, bridge, rtsp, peer, reading, pc, stream, session, stop, left,
                     freed>>
  BY DEF EndSession, bridgeVars, callVars
<1>3. SessionsInv'
  BY <1>1, <1>2, CloseEffect
<1>4. StreamsInv' /\ StreamBooks' /\ RestInv' /\ RequestsInv'
  BY <1>1, <1>2 DEF StreamsInv, StreamBooks, KeepsStream, GaveBack, RestInv, RequestsInv
<1>5. SessionBooks'
  <2>1. ASSUME NEW r \in Requests
        PROVE  KeepsSession(r) => KeepsSession(r)'
    <3>1. session'[r] = session[r] /\ stream'[r] = stream[r] /\ closed \subseteq closed'
      BY <1>2
    <3>2. KeepsSession(r) => KeepsSession(r)' \/ \E s \in Found(id) : s.number = session[r]
      BY <1>1, <1>2, <3>1, CloseBooks
    <3>3. (\E s \in Found(id) : s.number = session[r]) => r \in closed'
      BY <1>2
    <3>4. r \in closed' => KeepsSession(r)'
      BY DEF KeepsSession
    <3> QED
      BY <3>2, <3>3, <3>4
  <2> QED
    BY <1>1, <1>2, <2>1 DEF SessionBooks
<1>6. CountInv'
  <2>1. /\ opened \in Nat /\ opened' = opened /\ opened <= opened + 1 /\ StreamsInv'
        /\ \A k \in Kinds : given'[k] <= given[k] + 1
    BY <1>1, <1>2, <1>4 DEF RequestsInv, StreamsInv
  <2> QED
    BY <1>1, <1>2, <2>1, CommandsCounted
<1> QED
  BY <1>3, <1>4, <1>5, <1>6 DEF IInv

-----------------------------------------------------------------------------
(* The steps of a request.                                                   *)

\* The step that takes the encoder: from here on the stream is the request's.
LEMMA TakeEncoderKeeps ==
  ASSUME IInv, NEW r \in Requests, TakeEncoder(r)
  PROVE  IInv'
<1>1. /\ StreamsInv /\ RequestsInv /\ SessionsInv /\ StreamBooks /\ SessionBooks /\ CountInv /\ RestInv
  BY DEF IInv
<1>2. /\ pc[r] = "idle" /\ HasRoom("video") /\ Allocate("video") /\ Goto(r, "allocated")
      /\ stream' = [stream EXCEPT ![r] = given["video"] + 1]
      /\ UNCHANGED <<sessions, opened, bridge, rtsp, peer, reading, session, stop, left,
                     commands, freed, closed>>
  BY DEF TakeEncoder, bridgeVars, historyVars
<1>3. /\ "video" \in Kinds /\ StreamsInv' /\ given'["video"] = given["video"] + 1
      /\ \A l \in Kinds : given[l] <= given'[l] /\ given'[l] <= given[l] + 1
      /\ ToSet(streams["video"]) \subseteq ToSet(streams'["video"])
  BY <1>1, <1>2, AllocateEffect DEF Kinds
<1>4. given["video"] + 1 \in ToSet(streams'["video"])
  <2>1. streams["video"] \in Seq(Nat) /\ given["video"] + 1 \in Nat
    BY <1>1, <1>3 DEF StreamsInv
  <2>2. streams'["video"] = Append(streams["video"], given["video"] + 1)
    BY <1>1, <1>2, <1>3 DEF Allocate, StreamsInv
  <2> QED
    BY <2>1, <2>2 DEF ToSet
<1>5. /\ pc' \in [Requests -> Places] /\ pc'[r] = "allocated"
      /\ \A q \in Requests : q # r => pc'[q] = pc[q]
  BY <1>1, <1>2 DEF RequestsInv, Goto, Places, Started
<1>6. /\ stream' \in [Requests -> Nat] /\ stream'[r] = given["video"] + 1 /\ given["video"] \in Nat
      /\ \A q \in Requests : q # r => stream'[q] = stream[q]
  BY <1>1, <1>2, <1>3 DEF RequestsInv, StreamsInv
<1>7. RequestsInv'
  <2>1. \A q \in Requests : stream[q] \in Nat /\ stream[q] <= given["video"]
    BY <1>1 DEF RequestsInv
  <2>2. \A q \in Requests : stream'[q] <= given'["video"] /\ session'[q] <= opened'
    BY <1>1, <1>2, <1>3, <1>6, <2>1 DEF RequestsInv
  <2>3. \A q \in Requests : /\ pc'[q] \in Started => stream'[q] # 0
                            /\ pc'[q] \in HasSession => session'[q] # 0
    BY <1>1, <1>2, <1>5, <1>6 DEF RequestsInv, HasSession
  <2>4. \A q, p \in Requests : q # p => stream'[q] # stream'[p] \/ stream'[q] = 0
    BY <1>1, <1>6, <2>1 DEF RequestsInv
  <2> QED
    BY <1>1, <1>2, <1>5, <1>6, <2>2, <2>3, <2>4 DEF RequestsInv
<1>8. StreamBooks'
  <2>1. KeepsStream(r)'
    BY <1>4, <1>6 DEF KeepsStream
  <2>2. ASSUME NEW q \in Requests, q # r
        PROVE  /\ KeepsStream(q) => KeepsStream(q)'
               /\ GaveBack(q) => GaveBack(q)'
    BY <1>1, <1>2, <1>3, <1>6, <2>2, AllocateBooks
  <2> QED
    BY <1>1, <1>5, <2>1, <2>2 DEF StreamBooks
<1>9. SessionsInv' /\ RestInv'
  BY <1>1, <1>2 DEF SessionsInv, RestInv
<1>10. SessionBooks'
  <2>1. \A q \in Requests : q # r /\ KeepsSession(q) => KeepsSession(q)'
    BY <1>2, <1>6 DEF KeepsSession, Listed
  <2>2. pc'[r] \notin InUse \cup {"stuck"}
    BY <1>5 DEF InUse
  <2> QED
    BY <1>1, <1>2, <1>5, <2>1, <2>2 DEF SessionBooks
<1>11. CountInv'
  <2> DEFINE n(P) == Cardinality({q \in Requests : pc[q] \in P})
             m(P) == Cardinality({q \in Requests : pc'[q] \in P})
  <2>1. n(Started) \in Nat /\ m(Started) = n(Started) + 1
    <3>1. pc[r] \notin Started /\ "allocated" \in Started
      BY <1>2 DEF Started
    <3> QED
      BY <1>1, <1>2, <3>1, CountStep
  <2>2. n(HasSession) \in Nat /\ m(HasSession) = n(HasSession)
    <3>1. pc[r] \notin HasSession /\ "allocated" \notin HasSession
      BY <1>2 DEF Started, HasSession
    <3> QED
      BY <1>1, <1>2, <3>1, CountStep
  <2>3. (n(Started))' = m(Started) /\ (n(HasSession))' = m(HasSession)
    OBVIOUS
  <2>4. /\ commands \in 0..MaxCommands /\ commands' = commands /\ opened' = opened
        /\ MaxCommands \in Nat
        /\ opened <= commands + n(HasSession)
        /\ \A l \in Kinds : given[l] <= commands + n(Started)
    BY <1>1, <1>2, CameraAssumption DEF CountInv
  <2>5. \A l \in Kinds : given[l] \in Nat /\ given'[l] \in Nat
    BY <1>1, <1>3 DEF StreamsInv
  <2> HIDE DEF n, m
  <2>6. \A l \in Kinds : given'[l] <= commands' + m(Started)
    BY <1>3, <2>1, <2>4, <2>5
  <2>7. opened' <= commands' + m(HasSession) /\ commands' \in 0..MaxCommands
    BY <2>2, <2>4
  <2> QED
    BY <2>3, <2>6, <2>7 DEF CountInv, n
<1> QED
  BY <1>3, <1>7, <1>8, <1>9, <1>10, <1>11 DEF IInv

\* The step that takes the session.
LEMMA SolicitKeeps ==
  ASSUME IInv, NEW r \in Requests, Solicit(r)
  PROVE  IInv'
<1>1. /\ StreamsInv /\ RequestsInv /\ SessionsInv /\ StreamBooks /\ SessionBooks /\ CountInv /\ RestInv
  BY DEF IInv
<1>2. /\ pc[r] = "allocated" /\ Open(IdOf(stream[r])) /\ Goto(r, "solicited")
      /\ session' = [session EXCEPT ![r] = opened + 1]
      /\ UNCHANGED <<streams, given, bridge, rtsp, peer, reading, stream, stop, left,
                     commands, freed, closed>>
  BY DEF Solicit, bridgeVars, historyVars
<1>3. IdOf(stream[r]) \in Ids \cup {None} /\ opened \in Nat
  BY <1>1, IdsOfNumbers DEF RequestsInv
<1>4. /\ SessionsInv' /\ opened' = opened + 1
      /\ \E s \in sessions' : s.number = opened + 1 /\ s.video = IdOf(stream[r])
  BY <1>1, <1>2, <1>3, OpenEffect
<1>5. /\ pc' \in [Requests -> Places] /\ pc'[r] = "solicited"
      /\ \A q \in Requests : q # r => pc'[q] = pc[q]
  BY <1>1, <1>2 DEF RequestsInv, Goto, Places, Started
<1>6. /\ session' \in [Requests -> Nat] /\ session'[r] = opened + 1
      /\ \A q \in Requests : q # r => session'[q] = session[q]
  BY <1>1, <1>2, <1>3 DEF RequestsInv
<1>7. RequestsInv'
  <2>1. \A q \in Requests : session[q] \in Nat /\ session[q] <= opened
    BY <1>1 DEF RequestsInv
  <2>2. \A q \in Requests : stream'[q] <= given'["video"] /\ session'[q] <= opened'
    BY <1>1, <1>2, <1>3, <1>4, <1>6, <2>1 DEF RequestsInv
  <2>3. \A q \in Requests : /\ pc'[q] \in Started => stream'[q] # 0
                            /\ pc'[q] \in HasSession => session'[q] # 0
    BY <1>1, <1>2, <1>3, <1>5, <1>6 DEF RequestsInv, HasSession, Started
  <2>4. \A q, p \in Requests : q # p => session'[q] # session'[p] \/ session'[q] = 0
    BY <1>1, <1>3, <1>6, <2>1 DEF RequestsInv
  <2> QED
    BY <1>1, <1>2, <1>3, <1>4, <1>5, <1>6, <2>2, <2>3, <2>4 DEF RequestsInv
<1>8. StreamsInv' /\ RestInv'
  BY <1>1, <1>2 DEF StreamsInv, RestInv
<1>9. StreamBooks'
  <2>1. \A q \in Requests : KeepsStream(q)' = KeepsStream(q) /\ GaveBack(q)' = GaveBack(q)
    BY <1>2 DEF KeepsStream, GaveBack
  <2> QED
    BY <1>1, <1>2, <1>5, <2>1 DEF StreamBooks
<1>10. SessionBooks'
  <2>1. KeepsSession(r)'
    BY <1>2, <1>4, <1>6 DEF KeepsSession, Listed
  <2>2. ASSUME NEW q \in Requests, q # r, session[q] # 0
        PROVE  /\ KeepsSession(q) => KeepsSession(q)'
               /\ Shared(session[q], opened) => Shared(session[q], opened')
    <3>1. session'[q] = session[q] /\ stream'[q] = stream[q] /\ closed' = closed
      BY <1>2, <1>6, <2>2
    <3> QED
      BY <1>1, <1>2, <1>3, <2>2, <3>1, OpenBooks
  <2>3. \A q \in Requests : pc[q] \in InUse \cup {"stuck"} => session[q] # 0
    BY <1>1 DEF RequestsInv, InUse, HasSession, Started
  <2>4. pc'[r] # "stuck"
    BY <1>5
  <2> QED
    BY <1>1, <1>2, <1>5, <1>6, <2>1, <2>2, <2>3, <2>4 DEF SessionBooks
<1>11. CountInv'
  <2> DEFINE n(P) == Cardinality({q \in Requests : pc[q] \in P})
             m(P) == Cardinality({q \in Requests : pc'[q] \in P})
  <2>1. n(Started) \in Nat /\ m(Started) = n(Started)
    <3>1. pc[r] \in Started <=> "solicited" \in Started
      BY <1>2 DEF Started
    <3> QED
      BY <1>1, <1>2, <3>1, CountStep
  <2>2. n(HasSession) \in Nat /\ m(HasSession) = n(HasSession) + 1
    <3>1. pc[r] \notin HasSession /\ "solicited" \in HasSession
      BY <1>2 DEF Started, HasSession
    <3> QED
      BY <1>1, <1>2, <3>1, CountStep
  <2>3. (n(Started))' = m(Started) /\ (n(HasSession))' = m(HasSession)
    OBVIOUS
  <2>4. /\ commands \in 0..MaxCommands /\ commands' = commands /\ given' = given
        /\ opened <= commands + n(HasSession)
        /\ \A l \in Kinds : given[l] <= commands + n(Started)
    BY <1>1, <1>2 DEF CountInv
  <2> HIDE DEF n, m
  <2>5. opened' <= commands' + m(HasSession)
    BY <1>3, <1>4, <2>2, <2>4
  <2>6. \A l \in Kinds : given'[l] <= commands' + m(Started)
    BY <2>1, <2>4
  <2> QED
    BY <2>3, <2>4, <2>5, <2>6 DEF CountInv, n
<1> QED
  BY <1>4, <1>7, <1>8, <1>9, <1>10, <1>11 DEF IInv

\* A request that moves on without numbering anything.
LEMMA MoveKeeps ==
  ASSUME RequestsInv, CountInv, NEW r \in Requests, NEW place \in Places, Goto(r, place),
         pc[r] \in Started <=> place \in Started, pc[r] \in HasSession <=> place \in HasSession,
         UNCHANGED <<given, opened, stream, session, commands>>
  PROVE  /\ RequestsInv' /\ CountInv'
         /\ pc'[r] = place /\ \A q \in Requests : q # r => pc'[q] = pc[q]
<1>1. /\ pc' \in [Requests -> Places] /\ pc'[r] = place
      /\ \A q \in Requests : q # r => pc'[q] = pc[q]
  BY DEF RequestsInv, Goto
<1>2. RequestsInv'
  <2>1. \A q \in Requests : /\ pc'[q] \in Started => stream[q] # 0
                            /\ pc'[q] \in HasSession => session[q] # 0
    BY <1>1 DEF RequestsInv
  <2> QED
    BY <1>1, <2>1 DEF RequestsInv
<1>3. CountInv'
  <2> DEFINE n(P) == Cardinality({q \in Requests : pc[q] \in P})
             m(P) == Cardinality({q \in Requests : pc'[q] \in P})
  <2>1. m(Started) = n(Started)
    BY CountStep
  <2>2. m(HasSession) = n(HasSession)
    BY CountStep
  <2>3. (n(Started))' = m(Started) /\ (n(HasSession))' = m(HasSession)
    OBVIOUS
  <2>4. /\ commands \in 0..MaxCommands
        /\ opened <= commands + n(HasSession)
        /\ \A l \in Kinds : given[l] <= commands + n(Started)
    BY DEF CountInv
  <2> HIDE DEF n, m
  <2>5. opened' <= commands' + m(HasSession) /\ \A l \in Kinds : given'[l] <= commands' + m(Started)
    BY <2>1, <2>2, <2>4
  <2> QED
    BY <2>3, <2>4, <2>5 DEF CountInv, n
<1> QED
  BY <1>1, <1>2, <1>3

\* Refuse, ReadBridge, CreatePeer and StartPeer move a request on and leave the
\* clusters alone.
LEMMA OnwardKeeps ==
  ASSUME IInv, NEW r \in Requests, Refuse(r) \/ ReadBridge(r) \/ CreatePeer(r) \/ StartPeer(r)
  PROVE  IInv'
<1>1. /\ StreamsInv /\ RequestsInv /\ SessionsInv /\ StreamBooks /\ SessionBooks /\ CountInv /\ RestInv
  BY DEF IInv
<1>2. UNCHANGED <<streams, given, sessions, opened, bridge, rtsp, reading, stream, session, stop, left,
                  commands, freed, closed>>
  BY DEF Refuse, ReadBridge, CreatePeer, StartPeer, clusterVars, bridgeVars, historyVars
<1>3. PICK place \in Places :
        /\ Goto(r, place)
        /\ \/ pc[r] = "idle" /\ place = "refused"
           \/ pc[r] \in InUse /\ place \in InUse
  <2>1. CASE Refuse(r)
    BY <2>1 DEF Refuse, Places
  <2>2. CASE ReadBridge(r)
    <3>1. CASE bridge = "present"
      BY <2>2, <3>1 DEF ReadBridge, Places, Started, InUse
    <3>2. CASE bridge # "present"
      BY <2>2, <3>2 DEF ReadBridge, Places, Started, InUse
    <3> QED
      BY <3>1, <3>2
  <2>3. CASE CreatePeer(r)
    BY <2>3 DEF CreatePeer, Places, Started, InUse
  <2>4. CASE StartPeer(r)
    BY <2>4 DEF StartPeer, Places, Started, InUse
  <2> QED
    BY <2>1, <2>2, <2>3, <2>4
<1>4. peer' \in [Requests -> {"none", "initializing", "active", "disconnected"}]
  BY <1>1 DEF RestInv, Refuse, ReadBridge, CreatePeer, StartPeer, bridgeVars
<1>5. /\ pc[r] \in Started <=> place \in Started
      /\ pc[r] \in HasSession <=> place \in HasSession
  BY <1>3 DEF Started, HasSession, InUse
<1>6. /\ RequestsInv' /\ CountInv'
      /\ pc'[r] = place /\ \A q \in Requests : q # r => pc'[q] = pc[q]
  BY <1>1, <1>2, <1>3, <1>5, MoveKeeps
<1>7. StreamsInv' /\ SessionsInv' /\ RestInv'
  BY <1>1, <1>2, <1>4 DEF StreamsInv, SessionsInv, RestInv
<1>8. \A q \in Requests : /\ KeepsStream(q)' = KeepsStream(q) /\ GaveBack(q)' = GaveBack(q)
                          /\ KeepsSession(q)' = KeepsSession(q)
  BY <1>2 DEF KeepsStream, GaveBack, KeepsSession, Listed
<1>9. pc'[r] \in InUse \cup {"allocated", "ended", "stuck"} => pc[r] \in InUse /\ pc'[r] \in InUse
  BY <1>3, <1>6 DEF InUse
<1>10. "ended" \notin InUse /\ "stuck" \notin InUse
  BY DEF InUse
<1>11. StreamBooks'
  BY <1>1, <1>6, <1>8, <1>9, <1>10 DEF StreamBooks
<1>12. SessionBooks'
  BY <1>1, <1>2, <1>6, <1>8, <1>9, <1>10 DEF SessionBooks
<1> QED
  BY <1>6, <1>7, <1>11, <1>12 DEF IInv

\* A request closes the session it was given; that of another request goes with
\* it only when the two have one id.
LEMMA EndOwnSessionKeeps ==
  ASSUME IInv, NEW r \in Requests, EndOwnSession(r)
  PROVE  IInv'
<1>1. /\ StreamsInv /\ RequestsInv /\ SessionsInv /\ StreamBooks /\ SessionBooks /\ CountInv /\ RestInv
  BY DEF IInv
<1> DEFINE id == IdOf(session[r])
<1>2. /\ pc[r] = "streaming" /\ Close(id)
      /\ UNCHANGED <<streams, given, opened, bridge, rtsp, peer, reading, stream, session, stop, left,
                     commands, freed, closed>>
  BY DEF EndOwnSession, bridgeVars, historyVars
<1>3. PICK place \in Places : /\ Goto(r, place)
                              /\ place = IF Found(id) = {} THEN "stuck" ELSE "ending"
  <2>1. CASE Found(id) = {}
    BY <2>1 DEF EndOwnSession, Places, Started
  <2>2. CASE Found(id) # {}
    BY <2>2 DEF EndOwnSession, Places, Started
  <2> QED
    BY <2>1, <2>2
<1> HIDE DEF id
<1>4. /\ pc[r] \in Started <=> place \in Started
      /\ pc[r] \in HasSession <=> place \in HasSession
  BY <1>2, <1>3 DEF Started, HasSession
<1>5. /\ RequestsInv' /\ CountInv'
      /\ pc'[r] = place /\ \A q \in Requests : q # r => pc'[q] = pc[q]
  BY <1>1, <1>2, <1>3, <1>4, MoveKeeps
<1>6. SessionsInv'
  BY <1>1, <1>2, CloseEffect
<1>7. StreamsInv' /\ RestInv'
  BY <1>1, <1>2 DEF StreamsInv, RestInv
<1>8. StreamBooks'
  <2>1. \A q \in Requests : KeepsStream(q)' = KeepsStream(q) /\ GaveBack(q)' = GaveBack(q)
    BY <1>2 DEF KeepsStream, GaveBack
  <2>2. pc'[r] \notin InUse \cup {"allocated", "ended"}
    BY <1>3, <1>5 DEF InUse
  <2> QED
    BY <1>1, <1>5, <2>1, <2>2 DEF StreamBooks
<1>9. SessionBooks'
  <2>1. pc'[r] = "stuck" => r \in closed' \/ Shared(session'[r], opened')
    <3> SUFFICES ASSUME Found(id) = {} PROVE r \in closed' \/ Shared(session'[r], opened')
      BY <1>3, <1>5
    <3>1. ~Listed(r)
      BY DEF Listed, Found, id
    <3>2. KeepsSession(r)
      BY <1>1, <1>2 DEF SessionBooks, InUse
    <3> QED
      BY <1>2, <3>1, <3>2 DEF KeepsSession
  <2>2. pc'[r] \notin InUse
    BY <1>3, <1>5 DEF InUse
  <2>3. ASSUME NEW q \in Requests, q # r, pc[q] \in InUse
        PROVE  KeepsSession(q) => KeepsSession(q)'
    <3>1. session'[q] = session[q] /\ stream'[q] = stream[q] /\ closed \subseteq closed' /\ opened' = opened
      BY <1>2
    <3>2. KeepsSession(q) => KeepsSession(q)' \/ \E s \in Found(id) : s.number = session[q]
      BY <1>1, <1>2, <3>1, CloseBooks
    <3>3. (\E s \in Found(id) : s.number = session[q]) => IdOf(session[q]) = IdOf(session[r])
      BY DEF Found, id
    <3>4. IdOf(session[q]) = IdOf(session[r]) => Shared(session[q], opened)
      <4>1. pc[q] \in HasSession /\ pc[r] \in HasSession
        BY <1>2, <2>3 DEF InUse, HasSession, Started
      <4>2. /\ session[q] \in Nat \ {0} /\ session[r] \in Nat \ {0} /\ opened \in Nat
            /\ session[q] <= opened /\ session[r] <= opened /\ session[q] # session[r]
        BY <1>1, <2>3, <4>1 DEF RequestsInv
      <4> QED
        BY <4>2, SharedId
    <3>5. Shared(session[q], opened) => KeepsSession(q)'
      BY <3>1 DEF KeepsSession
    <3> QED
      BY <3>2, <3>3, <3>4, <3>5
  <2>4. \A q \in Requests : q # r => /\ pc'[q] \in InUse => KeepsSession(q)'
                                     /\ pc'[q] = "stuck" => q \in closed' \/ Shared(session'[q], opened')
    BY <1>1, <1>2, <1>5, <2>3 DEF SessionBooks
  <2> QED
    BY <2>1, <2>2, <2>4 DEF SessionBooks
<1> QED
  BY <1>5, <1>6, <1>7, <1>8, <1>9 DEF IInv

\* A request gives its encoder back; that of another request goes with it only
\* when the two have one id.
LEMMA GiveBackEncoderKeeps ==
  ASSUME IInv, NEW r \in Requests, GiveBackEncoder(r)
  PROVE  IInv'
<1>1. /\ StreamsInv /\ RequestsInv /\ SessionsInv /\ StreamBooks /\ SessionBooks /\ CountInv /\ RestInv
  BY DEF IInv
<1> DEFINE id == IdOf(stream[r])
           p  == Position("video", id)
<1>2. /\ pc[r] = "ending" /\ Deallocate("video", id) /\ Goto(r, "ended")
      /\ UNCHANGED <<given, sessions, opened, bridge, rtsp, peer, reading, stream, session, stop, left,
                     commands, freed, closed>>
      /\ "video" \in Kinds /\ "ended" \in Places
  BY DEF GiveBackEncoder, bridgeVars, historyVars, Kinds, Places, Started
<1>3. /\ pc[r] \in Started <=> "ended" \in Started
      /\ pc[r] \in HasSession <=> "ended" \in HasSession
  BY <1>2 DEF Started, HasSession
<1>4. /\ RequestsInv' /\ CountInv'
      /\ pc'[r] = "ended" /\ \A q \in Requests : q # r => pc'[q] = pc[q]
  BY <1>1, <1>2, <1>3, MoveKeeps
<1> HIDE DEF id
<1>5. /\ StreamsInv'
      /\ p = 0 => streams' = streams /\ \A n \in ToSet(streams["video"]) : IdOf(n) # id
      /\ p # 0 => /\ streams["video"][p] \in 1..given["video"] /\ IdOf(streams["video"][p]) = id
                  /\ ToSet(streams'["video"]) = ToSet(streams["video"]) \ {streams["video"][p]}
  BY <1>1, <1>2, DeallocateEffect
<1> HIDE DEF p
<1>6. given["video"] \in Nat /\ \A q \in Requests : pc[q] \in Started =>
                                    stream[q] \in Nat \ {0} /\ stream[q] <= given["video"]
  BY <1>1, <1>2 DEF RequestsInv, StreamsInv
<1>7. SessionsInv' /\ RestInv'
  BY <1>1, <1>2 DEF SessionsInv, RestInv
<1>8. SessionBooks'
  <2>1. \A q \in Requests : KeepsSession(q)' = KeepsSession(q)
    BY <1>2 DEF KeepsSession, Listed
  <2>2. pc'[r] \notin InUse \cup {"stuck"}
    BY <1>4 DEF InUse
  <2> QED
    BY <1>1, <1>2, <1>4, <2>1, <2>2 DEF SessionBooks
<1>9. GaveBack(r)'
  <2>1. CASE p = 0
    <3>1. stream[r] \notin ToSet(streams'["video"])
      BY <1>5, <2>1 DEF id
    <3> QED
      BY <1>2, <3>1 DEF GaveBack
  <2>2. CASE p # 0 /\ streams["video"][p] = stream[r]
    <3>1. stream[r] \notin ToSet(streams'["video"])
      BY <1>5, <2>2
    <3> QED
      BY <1>2, <3>1 DEF GaveBack
  <2>3. CASE p # 0 /\ streams["video"][p] # stream[r]
    <3>1. /\ streams["video"][p] \in Nat \ {0} /\ streams["video"][p] <= given["video"]
          /\ IdOf(stream[r]) = IdOf(streams["video"][p])
      BY <1>5, <1>6, <2>3 DEF id
    <3>2. stream[r] \in Nat \ {0} /\ stream[r] <= given["video"]
      BY <1>2, <1>6 DEF Started
    <3>3. Shared(stream[r], given["video"])
      BY <1>6, <2>3, <3>1, <3>2, SharedId
    <3> QED
      BY <1>2, <3>3 DEF GaveBack
  <2> QED
    BY <2>1, <2>2, <2>3
<1>10. ASSUME NEW q \in Requests, q # r, pc[q] \in Started
       PROVE  /\ KeepsStream(q) => KeepsStream(q)'
              /\ GaveBack(q) => GaveBack(q)'
  <2>1. stream'[q] = stream[q] /\ freed \subseteq freed' /\ given' = given
    BY <1>2
  <2>2. /\ KeepsStream(q) => \/ KeepsStream(q)'
                             \/ p # 0 /\ stream[q] = streams["video"][p]
        /\ GaveBack(q) => GaveBack(q)'
    <3>1. StreamsInv /\ RequestsInv /\ Deallocate("video", id) /\ UNCHANGED given /\ "video" \in Kinds
      BY <1>1, <1>2
    <3>2. /\ KeepsStream(q) => \/ KeepsStream(q)'
                               \/ /\ "video" = "video" /\ Position("video", id) # 0
                                  /\ stream[q] = streams["video"][Position("video", id)]
          /\ GaveBack(q) => GaveBack(q)'
      BY <2>1, <3>1, DeallocateBooks
    <3> QED
      BY <3>2 DEF p
  <2>3. p # 0 /\ stream[q] = streams["video"][p] => Shared(stream[q], given["video"])
    <3>1. p # 0 /\ stream[q] = streams["video"][p] => IdOf(stream[q]) = IdOf(stream[r])
      BY <1>5 DEF id
    <3>2. /\ stream[r] \in Nat \ {0} /\ stream[r] <= given["video"]
          /\ stream[q] \in Nat \ {0} /\ stream[q] <= given["video"]
      BY <1>2, <1>6, <1>10 DEF Started
    <3>3. stream[q] # stream[r]
      BY <1>1, <1>10, <3>2 DEF RequestsInv
    <3> QED
      BY <1>6, <3>1, <3>2, <3>3, SharedId
  <2>4. Shared(stream[q], given["video"]) => KeepsStream(q)'
    BY <2>1 DEF KeepsStream
  <2> QED
    BY <2>2, <2>3, <2>4
<1>11. StreamBooks'
  <2>1. pc'[r] \notin InUse \cup {"allocated"}
    BY <1>4 DEF InUse
  <2>2. \A q \in Requests : pc[q] \in InUse \cup {"allocated", "ended"} => pc[q] \in Started
    BY DEF InUse, Started
  <2>3. \A q \in Requests : q # r => /\ pc'[q] \in InUse \cup {"allocated"} => KeepsStream(q)'
                                     /\ pc'[q] = "ended" => GaveBack(q)'
    BY <1>1, <1>4, <1>10, <2>2 DEF StreamBooks
  <2> QED
    BY <1>9, <2>1, <2>3 DEF StreamBooks
<1> QED
  BY <1>4, <1>5, <1>7, <1>8, <1>11 DEF IInv

-----------------------------------------------------------------------------
(* The whole.                                                                *)

\* initialize and shutdown touch neither the clusters nor the requests.
LEMMA BridgeKeeps ==
  ASSUME IInv, Connect \/ Install \/ BeginShutdown \/ Shutdown
  PROVE  IInv'
<1>1. /\ UNCHANGED <<streams, given, sessions, opened, pc, stream, session, commands, freed, closed>>
      /\ RestInv
  BY DEF Connect, Install, BeginShutdown, Shutdown, CollectIds, ReleaseIds, StopPeer, Disconnect,
         clusterVars, callVars, historyVars, IInv
<1>2. RestInv'
  <2>1. CASE Connect \/ Install \/ BeginShutdown
    <3>1. CASE Connect
      BY <1>1, <3>1 DEF RestInv, Connect, callVars
    <3>2. CASE Install
      BY <1>1, <3>2 DEF RestInv, Install, callVars
    <3>3. CASE BeginShutdown
      BY <1>1, <3>3 DEF RestInv, BeginShutdown, bridgeVars
    <3> QED
      BY <2>1, <3>1, <3>2, <3>3
  <2>2. CASE CollectIds \/ ReleaseIds \/ Disconnect
    BY <1>1, <2>2 DEF RestInv, CollectIds, ReleaseIds, Disconnect
  <2>3. ASSUME NEW r \in Requests, StopPeer(r)
        PROVE  RestInv'
    BY <1>1, <2>3 DEF RestInv, StopPeer
  <2> QED
    BY <2>1, <2>2, <2>3 DEF Shutdown
<1>3. StreamsInv' /\ RequestsInv' /\ SessionsInv'
  BY <1>1 DEF IInv, StreamsInv, RequestsInv, SessionsInv
<1>4. StreamBooks' /\ SessionBooks'
  BY <1>1 DEF IInv, StreamBooks, KeepsStream, GaveBack, SessionBooks, KeepsSession, Listed
<1>5. CountInv'
  BY <1>1 DEF IInv, CountInv
<1> QED
  BY <1>2, <1>3, <1>4, <1>5 DEF IInv

\* Nothing is taken at the start.
LEMMA InitInv == ASSUME Init PROVE IInv
<1>1. StreamsInv
  BY CameraAssumption DEF Init, StreamsInv, Kinds
<1>2. RequestsInv /\ SessionsInv
  BY <1>1 DEF Init, RequestsInv, SessionsInv, StreamsInv, Started, HasSession, Places, Kinds
<1>3. StreamBooks /\ SessionBooks
  BY DEF Init, StreamBooks, SessionBooks, InUse
<1>4. CountInv
  <2>1. /\ Cardinality({r \in Requests : pc[r] \in Started}) \in Nat
        /\ Cardinality({r \in Requests : pc[r] \in HasSession}) \in Nat
    BY CameraAssumption, FS_Subset, FS_CardinalityType
  <2>2. commands = 0 /\ opened = 0 /\ \A k \in Kinds : given[k] = 0
    BY DEF Init
  <2> QED
    BY <2>1, <2>2, CameraAssumption DEF CountInv
<1>5. RestInv
  BY DEF Init, RestInv
<1> QED
  BY <1>1, <1>2, <1>3, <1>4, <1>5 DEF IInv

\* Every step keeps the invariant.
LEMMA StepInv == ASSUME IInv, [Next]_vars PROVE IInv'
<1>1. CASE Command
  BY <1>1, StreamAllocateKeeps, StreamDeallocateKeeps, OfferKeeps, AnswerKeeps, EndSessionKeeps DEF Command
<1>2. ASSUME NEW r \in Requests, TakeEncoder(r) \/ Refuse(r) \/ EndOwnSession(r) \/ Proceed(r)
      PROVE  IInv'
  BY <1>2, TakeEncoderKeeps, OnwardKeeps, SolicitKeeps, EndOwnSessionKeeps, GiveBackEncoderKeeps DEF Proceed
<1>3. CASE Connect \/ Install \/ BeginShutdown \/ Shutdown
  BY <1>3, BridgeKeeps
<1>4. CASE UNCHANGED vars
  <2>1. UNCHANGED <<streams, given, sessions, opened, bridge, rtsp, peer, reading, pc, stream, session,
                    stop, left, commands, freed, closed>>
    BY <1>4 DEF vars, clusterVars, bridgeVars, callVars, historyVars
  <2> QED
    BY <2>1 DEF IInv, StreamsInv, RequestsInv, SessionsInv, StreamBooks, KeepsStream, GaveBack,
                SessionBooks, KeepsSession, Listed, CountInv, RestInv
<1> QED
  BY <1>1, <1>2, <1>3, <1>4 DEF Next, Progress

\* The inductive invariant holds throughout.
THEOREM Invariance == Spec => []IInv
<1>1. Init => IInv
  BY InitInv
<1>2. IInv /\ [Next]_vars => IInv'
  BY StepInv
<1> QED
  BY <1>1, <1>2, PTL DEF Spec

\* Every variable has its type, however many requests run: there are never more
\* video streams than encoders, two sessions never have one id (the key of the
\* sessions' map), and numbers stay within what was asked for.
THEOREM TypeCorrect == Spec => []TypeInvariant
<1>1. IInv => TypeInvariant
  <2> SUFFICES ASSUME IInv PROVE TypeInvariant
    OBVIOUS
  <2>1. /\ StreamsInv /\ RequestsInv /\ SessionsInv /\ CountInv /\ RestInv
    BY DEF IInv
  <2>2. /\ Most \in Nat
        /\ \A k \in Kinds : given[k] \in 0..Most
        /\ opened \in 0..Most
    <3> DEFINE n(P) == Cardinality({r \in Requests : pc[r] \in P})
    <3>1. /\ n(Started) \in Nat /\ n(Started) <= Cardinality(Requests)
          /\ n(HasSession) \in Nat /\ n(HasSession) <= Cardinality(Requests)
          /\ Cardinality(Requests) \in Nat
      BY CameraAssumption, FS_Subset, FS_CardinalityType
    <3>2. /\ commands \in 0..MaxCommands /\ MaxCommands \in Nat
          /\ opened \in Nat /\ opened <= commands + n(HasSession)
          /\ \A k \in Kinds : given[k] \in Nat /\ given[k] <= commands + n(Started)
      BY <2>1, CameraAssumption DEF CountInv, RequestsInv, StreamsInv
    <3> HIDE DEF n
    <3> QED
      BY <3>1, <3>2 DEF Most
  <2>3. \A k \in Kinds : streams[k] \in Seq(1..Most)
    <3> SUFFICES ASSUME NEW k \in Kinds PROVE streams[k] \in Seq(1..Most)
      OBVIOUS
    <3>1. streams[k] \in Seq(Nat) /\ \A i \in 1..Len(streams[k]) : streams[k][i] \in 1..given[k]
      BY <2>1 DEF StreamsInv
    <3>2. \A i \in 1..Len(streams[k]) : streams[k][i] \in 1..Most
      BY <2>2, <3>1
    <3>3. streams[k] \in [1..Len(streams[k]) -> 1..Most] /\ Len(streams[k]) \in Nat
      BY <3>1, <3>2
    <3> QED
      BY <3>3, SeqDef
  <2>4. DOMAIN streams = Kinds /\ DOMAIN given = Kinds /\ Len(streams["video"]) <= MaxEncoders
    BY <2>1 DEF StreamsInv
  <2>5. /\ sessions \subseteq Session
        /\ \A s, t \in sessions : IdOf(s.number) = IdOf(t.number) => s = t
    <3>1. \A s \in sessions : /\ s \in [number : Nat, video : Ids \cup {None},
                                        state : {"connecting", "connected"}]
                              /\ s.number \in 1..Most
      BY <2>1, <2>2 DEF SessionsInv
    <3> QED
      BY <2>1, <3>1 DEF Session, SessionsInv
  <2>6. /\ pc \in [Requests -> UnderWay \cup {"idle", "streaming", "refused", "ended", "stuck"}]
    BY <2>1 DEF RequestsInv, Places, Started, UnderWay, Bridging
  <2>7. stream \in [Requests -> 0..Most] /\ session \in [Requests -> 0..Most]
    <3>1. \A r \in Requests : stream[r] \in 0..Most /\ session[r] \in 0..Most
      <4>1. given["video"] \in 0..Most
        BY <2>2 DEF Kinds
      <4> QED
        BY <2>1, <2>2, <4>1 DEF RequestsInv
    <3> QED
      BY <2>1, <3>1 DEF RequestsInv
  <2>8. commands \in 0..MaxCommands
    BY <2>1 DEF CountInv
  <2> QED
    BY <2>1, <2>2, <2>3, <2>4, <2>5, <2>6, <2>7, <2>8 DEF TypeInvariant, RestInv
<1> QED
  BY <1>1, Invariance, PTL

\* For any width of the ids: two allocated streams have different ids until the
\* counter came round between them.
THEOREM UniqueCorrect == Spec => []UniqueStreams
<1>1. IInv => UniqueStreams
  <2> SUFFICES ASSUME IInv, NEW k \in Kinds, NEW i \in DOMAIN streams[k], NEW j \in DOMAIN streams[k],
                      i < j, IdOf(streams[k][i]) = IdOf(streams[k][j])
               PROVE  streams[k][j] - streams[k][i] >= IdSpace
    BY DEF UniqueStreams
  <2>1. /\ streams[k][i] \in Nat /\ streams[k][j] \in Nat /\ streams[k][i] < streams[k][j]
    BY DEF IInv, StreamsInv
  <2>2. streams[k][i] + IdSpace <= streams[k][j]
    BY <2>1, ModApart, CameraAssumption DEF IdOf
  <2> QED
    BY <2>1, <2>2, CameraAssumption
<1> QED
  BY <1>1, Invariance, PTL

\* The books balance for any number of requests and commands: a pair in use is
\* there, and an ended one has given its encoder back.
THEOREM LedgerCorrect == Spec => []StreamLedger
<1>1. IInv => StreamLedger
  <2> SUFFICES ASSUME IInv PROVE PairIntact /\ EndFreesEncoder
    BY DEF StreamLedger
  <2>1. PairIntact
    BY DEF IInv, PairIntact, StreamBooks, KeepsStream, SessionBooks, KeepsSession, Listed, InUse
  <2>2. EndFreesEncoder
    BY DEF IInv, EndFreesEncoder, StreamBooks, GaveBack, SessionBooks
  <2> QED
    BY <2>1, <2>2
<1> QED
  BY <1>1, Invariance, PTL

=============================================================================
