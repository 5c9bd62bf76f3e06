--------------------------- MODULE CameraSessions ---------------------------
(***************************************************************************)
(* The camera input and its two clusters.  A request for a video stream    *)
(* takes an encoder, then a WebRTC session, then a session of the bridge,  *)
(* each under a lock of its own, and the call that ends it gives back the  *)
(* first two; controllers allocate streams and open and end sessions       *)
(* through the clusters at the same time; the input may be initialised and *)
(* shut down while requests are under way.                                 *)
(*                                                                         *)
(* A stream or a session is told apart by its number, counted from 1; what *)
(* the code has of it is its id, the number modulo IdSpace.                *)
(***************************************************************************)
EXTENDS Integers, Sequences, FiniteSets, SequencesExt

CONSTANTS
  Requests,     \* callers of request_video_stream and end_video_stream
  IdSpace,      \* number of ids, 2^16 in the code
  MaxEncoders,  \* max_concurrent_encoders
  Offered,      \* video streams controllers name in their offers: ids, or None
  MaxCommands,  \* bound: commands of controllers that succeed
  None          \* a session without video stream

Kinds == {"video", "audio"}
Ids   == 0..(IdSpace - 1)

ASSUME CameraAssumption ==
  /\ IdSpace \in Nat \ {0} /\ MaxEncoders \in Nat
  /\ MaxCommands \in Nat /\ IsFiniteSet(Requests)
  /\ None \notin Ids /\ Offered \subseteq Ids \cup {None}

VARIABLES
  \* ---- CameraAvStreamMgmtCluster ----
  streams,    \* the allocated streams of each kind, oldest first, by number
  given,      \* how many of each kind have been numbered
  \* ---- WebRtcTransportProviderCluster ----
  sessions,   \* the current sessions
  opened,     \* how many have been numbered
  \* ---- CameraInput and RtspWebRtcBridge ----
  bridge,     \* "none", "connecting" (initialize is at work), "present"
  rtsp,       \* the RTSP client is connected
  peer,       \* the bridge session of each request
  reading,    \* shutdown holds the sessions of the bridge for reading
  \* ---- the calls ----
  pc,         \* where each request is
  stream,     \* the number of its stream
  session,    \* the number of its session
  stop,       \* where shutdown is
  left,       \* bridge sessions shutdown has still to stop
  \* ---- history ----
  commands,   \* number of commands of controllers
  freed,      \* requests whose stream a controller deallocated
  closed      \* requests whose session a controller ended

clusterVars == <<streams, given, sessions, opened>>
bridgeVars  == <<bridge, rtsp, peer, reading>>
callVars    == <<pc, stream, session, stop, left>>
historyVars == <<commands, freed, closed>>
vars == <<clusterVars, bridgeVars, callVars, historyVars>>

\* fetch_add on an AtomicU16 that starts at 1.
IdOf(number) == number % IdSpace

\* As many streams of a kind, and as many sessions, as there are at most.
Most == MaxCommands + Cardinality(Requests)

Session == [number : 1..Most, video : Ids \cup {None}, state : {"connecting", "connected"}]

\* A request holds the bridge's lock for reading in these places.
Bridging == {"bridging", "created"}
UnderWay == {"allocated", "solicited", "ending"} \cup Bridging

TypeInvariant ==
  /\ \A k \in Kinds : /\ streams[k] \in Seq(1..Most)
                      /\ given[k] \in 0..Most
  /\ DOMAIN streams = Kinds /\ DOMAIN given = Kinds
  /\ Len(streams["video"]) <= MaxEncoders
  /\ sessions \subseteq Session /\ opened \in 0..Most
  /\ \A s, t \in sessions : IdOf(s.number) = IdOf(t.number) => s = t
  /\ bridge \in {"none", "connecting", "present"} /\ rtsp \in BOOLEAN
  /\ peer \in [Requests -> {"none", "initializing", "active", "disconnected"}]
  /\ pc \in [Requests -> UnderWay \cup {"idle", "streaming", "refused", "ended", "stuck"}]
  /\ stream \in [Requests -> 0..Most]
  /\ session \in [Requests -> 0..Most]
  /\ stop \in {"none", "locked", "looking", "stopping", "done"}
  /\ reading \in BOOLEAN
  /\ left \subseteq Requests
  /\ commands \in 0..MaxCommands
  /\ freed \subseteq Requests /\ closed \subseteq Requests

Init ==
  /\ streams = [k \in Kinds |-> <<>>] /\ given = [k \in Kinds |-> 0]
  /\ sessions = {} /\ opened = 0
  /\ bridge = "none" /\ rtsp = FALSE
  /\ peer = [r \in Requests |-> "none"] /\ reading = FALSE
  /\ pc = [r \in Requests |-> "idle"]
  /\ stream = [r \in Requests |-> 0] /\ session = [r \in Requests |-> 0]
  /\ stop = "none" /\ left = {}
  /\ commands = 0 /\ freed = {} /\ closed = {}

-----------------------------------------------------------------------------
(* The operations of the clusters, each under its lock. *)

\* Mutant: one stream too many.
HasRoomForOneMore(k) == k = "audio" \/ Len(streams[k]) <= MaxEncoders

\* Video streams are limited to the encoders, audio streams are not.
HasRoom(k) == k = "audio" \/ Len(streams[k]) < MaxEncoders

\* Mutant: the id is taken from the length of the list.
AllocateByLength(k) ==
  /\ given' = [given EXCEPT ![k] = Len(streams[k]) + 1]
  /\ streams' = [streams EXCEPT ![k] = Append(@, Len(streams[k]) + 1)]

\* video_stream_allocate, audio_stream_allocate
Allocate(k) ==
  /\ given' = [given EXCEPT ![k] = @ + 1]
  /\ streams' = [streams EXCEPT ![k] = Append(@, given[k] + 1)]

\* The first stream with this id, by its place in the list; 0 if there is none.
Position(k, id) == SelectInSeq(streams[k], LAMBDA n : IdOf(n) = id)

\* Mutant: the oldest stream goes.
DeallocateOldest(k, id) ==
  streams' = IF Position(k, id) = 0 THEN streams
             ELSE [streams EXCEPT ![k] = RemoveAt(@, 1)]

\* video_stream_deallocate, audio_stream_deallocate
Deallocate(k, id) ==
  streams' = IF Position(k, id) = 0 THEN streams
             ELSE [streams EXCEPT ![k] = RemoveAt(@, Position(k, id))]

\* solicit_offer, provide_offer: a session that still has this id is replaced.
Open(v) ==
  /\ opened' = opened + 1
  /\ sessions' = {s \in sessions : IdOf(s.number) # IdOf(opened + 1)}
                   \cup {[number |-> opened + 1, video |-> v, state |-> "connecting"]}

Found(id) == {s \in sessions : IdOf(s.number) = id}

\* end_session
Close(id) == sessions' = sessions \ Found(id)

-----------------------------------------------------------------------------
(* Commands of controllers: the Matter thread runs one at a time. *)

StreamAllocate(k) ==
  /\ HasRoom(k) /\ Allocate(k)
  /\ UNCHANGED <<sessions, opened, bridgeVars, callVars, freed, closed>>

StreamDeallocate(k, id) ==
  /\ Position(k, id) # 0 /\ Deallocate(k, id)
  /\ freed' = IF k = "video"
                THEN freed \cup {r \in Requests : stream[r] = streams[k][Position(k, id)]}
                ELSE freed
  /\ UNCHANGED <<given, sessions, opened, bridgeVars, callVars, closed>>

\* SolicitOffer and ProvideOffer take any stream id, or none.
Offer(v) ==
  /\ Open(v)
  /\ UNCHANGED <<streams, given, bridgeVars, callVars, freed, closed>>

ProvideAnswer(id) ==
  /\ Found(id) # {}
  /\ sessions' = (sessions \ Found(id)) \cup {[s EXCEPT !.state = "connected"] : s \in Found(id)}
  /\ UNCHANGED <<streams, given, opened, bridgeVars, callVars, freed, closed>>

EndSession(id) ==
  /\ Found(id) # {} /\ Close(id)
  /\ closed' = closed \cup {r \in Requests : \E s \in Found(id) : s.number = session[r]}
  /\ UNCHANGED <<streams, given, opened, bridgeVars, callVars, freed>>

Command ==
  /\ commands < MaxCommands
  /\ commands' = commands + 1
  /\ \/ \E k \in Kinds : StreamAllocate(k) \/ \E id \in Ids : StreamDeallocate(k, id)
     \/ \E v \in Offered : Offer(v)
     \/ \E id \in Ids : ProvideAnswer(id) \/ EndSession(id)

-----------------------------------------------------------------------------
(* request_video_stream *)

Goto(r, place) == pc' = [pc EXCEPT ![r] = place]

TakeEncoder(r) ==
  /\ pc[r] = "idle" /\ HasRoom("video") /\ Allocate("video")
  /\ stream' = [stream EXCEPT ![r] = given["video"] + 1]
  /\ Goto(r, "allocated")
  /\ UNCHANGED <<sessions, opened, bridgeVars, session, stop, left, historyVars>>

Refuse(r) ==
  /\ pc[r] = "idle" /\ ~HasRoom("video")
  /\ Goto(r, "refused")
  /\ UNCHANGED <<clusterVars, bridgeVars, stream, session, stop, left, historyVars>>

Solicit(r) ==
  /\ pc[r] = "allocated" /\ Open(IdOf(stream[r]))
  /\ session' = [session EXCEPT ![r] = opened + 1]
  /\ Goto(r, "solicited")
  /\ UNCHANGED <<streams, given, bridgeVars, stream, stop, left, historyVars>>

\* The bridge's lock is taken for reading; without a bridge the request is done.
ReadBridge(r) ==
  /\ pc[r] = "solicited"
  /\ Goto(r, IF bridge = "present" THEN "bridging" ELSE "streaming")
  /\ UNCHANGED <<clusterVars, bridgeVars, stream, session, stop, left, historyVars>>

\* create_session and start_session each take the bridge's sessions for writing.
CreatePeer(r) ==
  /\ pc[r] = "bridging" /\ ~reading
  /\ peer' = [peer EXCEPT ![r] = "initializing"]
  /\ Goto(r, "created")
  /\ UNCHANGED <<clusterVars, bridge, rtsp, reading, stream, session, stop, left, historyVars>>

StartPeer(r) ==
  /\ pc[r] = "created" /\ ~reading
  /\ peer' = [peer EXCEPT ![r] = "active"]
  /\ Goto(r, "streaming")
  /\ UNCHANGED <<clusterVars, bridge, rtsp, reading, stream, session, stop, left, historyVars>>

(* end_video_stream, with what the request returned. *)

EndOwnSession(r) ==
  /\ pc[r] = "streaming"
  /\ Close(IdOf(session[r]))
  /\ Goto(r, IF Found(IdOf(session[r])) = {} THEN "stuck" ELSE "ending")
  /\ UNCHANGED <<streams, given, opened, bridgeVars, stream, session, stop, left, historyVars>>

GiveBackEncoder(r) ==
  /\ pc[r] = "ending"
  /\ Deallocate("video", IdOf(stream[r]))
  /\ Goto(r, "ended")
  /\ UNCHANGED <<given, sessions, opened, bridgeVars, stream, session, stop, left, historyVars>>

-----------------------------------------------------------------------------
(* initialize and shutdown, called once each by main, which awaits the first. *)

Connect ==
  /\ bridge = "none" /\ stop = "none"
  /\ bridge' = "connecting" /\ rtsp' = TRUE
  /\ UNCHANGED <<clusterVars, peer, reading, callVars, historyVars>>

\* The bridge's lock is taken for writing: nobody may be reading.
Install ==
  /\ bridge = "connecting" /\ \A r \in Requests : pc[r] \notin Bridging
  /\ bridge' = "present"
  /\ UNCHANGED <<clusterVars, rtsp, peer, reading, callVars, historyVars>>

BeginShutdown ==
  /\ stop = "none" /\ bridge # "connecting"
  /\ stop' = IF bridge = "present" THEN "locked" ELSE "done"
  /\ UNCHANGED <<clusterVars, bridgeVars, pc, stream, session, left, historyVars>>

\* The ids are collected under a guard that ends with the block.
CollectIds ==
  /\ stop = "locked"
  /\ reading' = TRUE
  /\ left' = {r \in Requests : peer[r] # "none"}
  /\ stop' = "looking"
  /\ UNCHANGED <<clusterVars, bridge, rtsp, peer, pc, stream, session, historyVars>>

\* Mutant: the guard lives as long as the loop over the ids.
HoldIds ==
  /\ stop = "looking"
  /\ stop' = "stopping"
  /\ UNCHANGED <<clusterVars, bridgeVars, pc, stream, session, left, historyVars>>

ReleaseIds ==
  /\ stop = "looking"
  /\ reading' = FALSE
  /\ stop' = "stopping"
  /\ UNCHANGED <<clusterVars, bridge, rtsp, peer, pc, stream, session, left, historyVars>>

StopPeer(r) ==
  /\ stop = "stopping" /\ r \in left /\ ~reading
  /\ left' = left \ {r}
  /\ peer' = [peer EXCEPT ![r] = "disconnected"]
  /\ UNCHANGED <<clusterVars, bridge, rtsp, reading, pc, stream, session, stop, historyVars>>

Disconnect ==
  /\ stop = "stopping" /\ left = {}
  /\ rtsp' = FALSE
  /\ stop' = "done"
  /\ UNCHANGED <<clusterVars, bridge, peer, reading, pc, stream, session, left, historyVars>>

-----------------------------------------------------------------------------
\* What a request does once it is under way, what shutdown does, and the end of
\* initialize.
Proceed(r) == Solicit(r) \/ ReadBridge(r) \/ CreatePeer(r) \/ StartPeer(r) \/ GiveBackEncoder(r)
Shutdown   == CollectIds \/ ReleaseIds \/ (\E r \in Requests : StopPeer(r)) \/ Disconnect
Progress   == (\E r \in Requests : Proceed(r)) \/ Shutdown \/ Install

Next ==
  \/ Command
  \/ \E r \in Requests : TakeEncoder(r) \/ Refuse(r) \/ EndOwnSession(r)
  \/ Connect \/ BeginShutdown \/ Progress

Spec == Init /\ [][Next]_vars

\* Calls that were made are polled: while one of them can go on, one does.  Each
\* has few steps, so that this is enough.  Nothing makes a call.
FairSpec == Spec /\ WF_vars(Progress)

-----------------------------------------------------------------------------
(* Properties. *)

\* Among the first count numbers another one has the id of this one.
Shared(number, count) == number > IdSpace \/ number + IdSpace <= count

\* Two allocated streams of a kind have different ids, unless so many were
\* allocated while the older lived that the counter came round (next_video_-
\* stream_id of CameraAvStreamMgmtCluster).
UniqueStreams ==
  \A k \in Kinds : \A i, j \in DOMAIN streams[k] :
    i < j /\ IdOf(streams[k][i]) = IdOf(streams[k][j]) =>
      streams[k][j] - streams[k][i] >= IdSpace

\* Between request_video_stream and end_video_stream nobody takes the stream
\* or the session away, except a controller that names it and, after a counter
\* came round, whoever uses the same id.
PairIntact ==
  \A r \in Requests : pc[r] \in {"solicited", "bridging", "created", "streaming"} =>
    /\ \/ stream[r] \in ToSet(streams["video"]) \/ r \in freed
       \/ Shared(stream[r], given["video"])
    /\ \/ \E s \in sessions : s.number = session[r] /\ s.video = IdOf(stream[r])
       \/ r \in closed
       \/ Shared(session[r], opened)

\* Ending a video stream (end_video_stream) gives its encoder back.  It keeps
\* the encoder only when the session it was to end first had been ended by a
\* controller.
EndFreesEncoder ==
  \A r \in Requests :
    /\ pc[r] = "ended" =>
         stream[r] \notin ToSet(streams["video"]) \/ Shared(stream[r], given["video"])
    /\ pc[r] = "stuck" => r \in closed \/ Shared(session[r], opened)

\* Whatever requests and controllers do at the same time, the books balance: a
\* pair in use is there, and an ended one has given its encoder back.
StreamLedger == PairIntact /\ EndFreesEncoder

\* Every call returns, whatever runs at the same time: the locks of the bridge
\* and of its sessions are never waited for in a circle.
CallsReturn ==
  /\ \A r \in Requests : pc[r] \in UnderWay ~> pc[r] \notin UnderWay
  /\ stop # "none" ~> stop = "done"
=============================================================================
