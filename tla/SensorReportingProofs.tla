------------------------ MODULE SensorReportingProofs ------------------------
(***************************************************************************)
(* Theorems about SensorReporting, for every set of cells and values and   *)
(* every number of updates.                                                *)
(***************************************************************************)
EXTENDS SensorReporting, TLAPS

\* What a handler or a controller noted is not ahead of its source.
NothingAhead ==
  \A c \in Cells : last[c] <= version[c] /\ shownVer[c] <= dataver[c]

\* An update under way has not used up the bound on updates.
UpdateWithinBound ==
  \A c \in Cells : writer[c] = "stored" => version[c] < MaxVersion

IInv == TypeInvariant /\ NothingAhead /\ UpdateWithinBound /\ SyncedFilterSafe /\ NoLostUpdate
-----------------------------------------------------------------------------
LEMMA InitIInv == Init => IInv
<1> SUFFICES ASSUME Init PROVE IInv
  OBVIOUS
<1> USE CellsAssumption DEF Init, Channel!ChannelInit
<1>1. TypeInvariant
  <2>1. 0 \in 0..MaxVersion
    OBVIOUS
  <2>2. Channel!ChannelType(Values)
    BY DEF Channel!ChannelType
  <2> QED
    BY <2>1, <2>2 DEF TypeInvariant
<1>2. NothingAhead /\ UpdateWithinBound
  BY DEF NothingAhead, UpdateWithinBound
<1>3. SyncedFilterSafe /\ NoLostUpdate
  BY DEF SyncedFilterSafe, FilterSafe, NoLostUpdate
<1> QED
  BY <1>1, <1>2, <1>3 DEF IInv

\* A read that syncs finds afterwards the data version it has just answered
\* with, so what is true of the next filtered read stays true.
LEMMA SyncKeeps ==
  ASSUME IInv, NEW c \in Cells, Sync(c)
  PROVE  /\ dataver' \in [Cells -> Nat]
         /\ last' \in [Cells -> 0..MaxVersion]
         /\ \A d \in Cells :
              /\ dataver[d] <= dataver'[d]
              /\ last'[d] <= version[d]
              /\ d \in Synced =>
                   DataverOnRead(d) =
                     IF version[d] # last'[d] THEN dataver'[d] + 1 ELSE dataver'[d]
BY CellsAssumption DEF IInv, TypeInvariant, NothingAhead, Sync, DataverOnRead

LEMMA NextIInv == IInv /\ [Next]_vars => IInv'
<1> SUFFICES ASSUME IInv, [Next]_vars PROVE IInv'
  OBVIOUS
<1> USE CellsAssumption
    DEF IInv, TypeInvariant, NothingAhead, UpdateWithinBound, SyncedFilterSafe, FilterSafe,
        NoLostUpdate, Channel!ChannelType, Channel!OnItsWay, sensorVars,
        handlerVars, readVars, channelVars
<1>1. CASE \E c \in Cells, v \in Values : StoreValue(c, v)
  BY <1>1 DEF StoreValue, DataverOnRead
<1>2. CASE \E c \in Cells : BumpVersion(c)
  <2>1. PICK c \in Cells : BumpVersion(c)
    BY <1>2
  <2>2. TypeInvariant' /\ NothingAhead' /\ UpdateWithinBound'
    BY <2>1 DEF BumpVersion
  <2>3. SyncedFilterSafe'
    BY <2>1 DEF BumpVersion, DataverOnRead
  <2>4. NoLostUpdate'
    BY <2>1 DEF BumpVersion
  <2> QED
    BY <2>2, <2>3, <2>4
<1>3. CASE \E c \in Cells : NotifyChange(c)
  BY <1>3 DEF NotifyChange, Channel!Notify, DataverOnRead
<1>4. CASE \E c \in Cells : BeginReport(c) \/ BeginFilteredRead(c)
  <2>1. PICK c \in Cells : BeginReport(c) \/ BeginFilteredRead(c)
    BY <1>4
  <2>2. Sync(c) /\ UNCHANGED <<sensorVars, shownVer, channelVars>>
    BY <2>1 DEF BeginReport, BeginFilteredRead
  <2>3. reading' \in Cells \cup {NoCell} /\ reporting' \in BOOLEAN
    BY <2>1 DEF BeginReport, BeginFilteredRead
  <2>4. TypeInvariant' /\ NothingAhead' /\ UpdateWithinBound'
    BY <2>2, <2>3, SyncKeeps
  <2>5. SyncedFilterSafe'
    BY <2>2, SyncKeeps DEF DataverOnRead
  <2>6. NoLostUpdate'
    BY <2>2
  <2> QED
    BY <2>4, <2>5, <2>6
<1>5. CASE \E c \in Cells : LoadValue(c)
  <2>1. PICK c \in Cells : LoadValue(c)
    BY <1>5
  <2>2. /\ UNCHANGED <<sensorVars, last, dataver, sig, forwarding>>
        /\ shownVer' = [shownVer EXCEPT ![c] = dataver[c]]
        /\ shown' = [shown EXCEPT ![c] = value[c]]
        /\ dirty' \in {dirty, dirty \ {c}}
        /\ reading' = NoCell
        /\ reporting' = FALSE
    BY <2>1 DEF LoadValue, Channel!Report
  <2>3. Channel!ChannelType(Values)'
    BY <2>2
  <2>4. TypeInvariant' /\ NothingAhead' /\ UpdateWithinBound'
    <3>1. dataver[c] \in Nat /\ shownVer' \in [Cells -> Nat]
      BY <2>2
    <3>2. NothingAhead' /\ UpdateWithinBound'
      BY <2>2
    <3> QED
      BY <2>2, <2>3, <3>1, <3>2
  <2>5. SyncedFilterSafe'
    BY <2>2 DEF DataverOnRead
  <2>6. NoLostUpdate'
    BY <2>2
  <2> QED
    BY <2>4, <2>5, <2>6
<1>6. CASE TakeSignal
  BY <1>6 DEF TakeSignal, Channel!TakeSignal, DataverOnRead
<1>7. CASE MarkChanged
  BY <1>7 DEF MarkChanged, Channel!MarkChanged, DataverOnRead
<1>8. CASE UNCHANGED vars
  BY <1>8 DEF vars, DataverOnRead
<1> QED
  BY <1>1, <1>2, <1>3, <1>4, <1>5, <1>6, <1>7, <1>8 DEF Next

\* The inductive invariant holds of every state.
THEOREM Invariance == Spec => []IInv
  BY InitIInv, NextIInv, PTL DEF Spec

\* Every variable keeps its type.
THEOREM TypeCorrect == Spec => []TypeInvariant
<1>1. IInv => TypeInvariant
  BY DEF IInv
<1> QED
  BY Invariance, <1>1, PTL

\* Temperature and humidity: a controller that asks with the data version it
\* has is never left with a superseded value whose update is complete.
THEOREM FilterCorrect == Spec => []SyncedFilterSafe
<1>1. IInv => SyncedFilterSafe
  BY DEF IInv
<1> QED
  BY Invariance, <1>1, PTL

\* No update is lost between the sensor and the subscription.
THEOREM UpdateCorrect == Spec => []NoLostUpdate
<1>1. IInv => NoLostUpdate
  BY DEF IInv
<1> QED
  BY Invariance, <1>1, PTL

\* The safety half of the refinement of LiveView.
THEOREM ImplementsLiveView == Spec => View!Init /\ [][View!Next]_View!vars
<1>1. Init => View!Init
  <2> SUFFICES ASSUME Init PROVE View!Init
    OBVIOUS
  <2>1. shown = value
    BY DEF Init, Channel!ChannelInit
  <2> QED
    BY <2>1 DEF Init, View!Init
<1>2. IInv /\ IInv' /\ [Next]_vars => [View!Next]_View!vars
  <2> SUFFICES ASSUME IInv, IInv', [Next]_vars
               PROVE  View!Next \/ UNCHANGED View!vars
    OBVIOUS
  <2>1. CASE \E c \in Cells : LoadValue(c)
    <3>1. PICK c \in Cells : LoadValue(c)
      BY <2>1
    <3>2. /\ shown' = [shown EXCEPT ![c] = value[c]]
          /\ value' = value
      BY <3>1 DEF LoadValue, Channel!Report, sensorVars
    <3>3. CASE shown[c] = value[c]
      BY <3>2, <3>3 DEF IInv, TypeInvariant, Channel!ChannelType, View!vars
    <3>4. CASE shown[c] # value[c]
      BY <3>2, <3>4 DEF View!Next, View!Refresh
    <3> QED
      BY <3>3, <3>4
  <2>2. CASE ~ \E c \in Cells : LoadValue(c)
    <3>1. UNCHANGED shown
      BY <2>2 DEF Next, StoreValue, BumpVersion, NotifyChange, BeginReport,
           BeginFilteredRead, TakeSignal, MarkChanged, Channel!Notify,
           Channel!TakeSignal, Channel!MarkChanged, channelVars, vars
    <3>2. value' \in [Cells -> Values]
      BY DEF IInv, TypeInvariant
    <3> QED
      BY <3>1, <3>2 DEF View!Next, View!Change
  <2> QED
    BY <2>1, <2>2
<1> QED
  BY <1>1, <1>2, Invariance, PTL DEF Spec
=============================================================================
