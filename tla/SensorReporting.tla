--------------------------- MODULE SensorReporting ---------------------------
(***************************************************************************)
(* How a measured value reaches a controller: the thread that measures     *)
(* (MQTT task, simulation, hardware) stores the value, bumps the sensor's  *)
(* version and notifies, in three atomic steps; the Matter thread reads    *)
(* the cell for a subscription report, or for a controller that asks with  *)
(* the data version it already has and gets no data when it is still that. *)
(*                                                                         *)
(* The handlers in Synced (temperature, humidity) compare versions on      *)
(* every read and advance the cluster's Dataver; the other cells (boolean  *)
(* state, occupancy, On/Off) are served by DynamicHandler's read functions,*)
(* which answer with the Dataver as it is.                                 *)
(***************************************************************************)
EXTENDS Naturals

CONSTANTS
  Cells,      \* the measured attributes
  Synced,     \* those whose handler advances its Dataver
  Values,     \* what can be measured
  MaxVersion, \* bound: number of updates of one sensor
  NoCell      \* the Matter thread reads nothing

ASSUME CellsAssumption ==
  /\ Synced \subseteq Cells
  /\ MaxVersion \in Nat
  /\ NoCell \notin Cells

VARIABLES
  value,      \* the sensor's value
  version,    \* the sensor's version
  writer,     \* the measuring thread: "idle", "stored", "bumped"
  last,       \* last_sensor_version of the handler
  dataver,    \* Dataver of the cluster, counted from its random start
  reading,    \* the cell whose value the Matter thread is about to load
  reporting,  \* it does so for a subscription report
  shownVer,   \* the data version the controller has with its value
  sig, forwarding, dirty, shown

Channel == INSTANCE NotifyChannel WITH Registered <- Cells

sensorVars  == <<value, version, writer>>
handlerVars == <<last, dataver>>
readVars    == <<reading, reporting>>
channelVars == <<sig, forwarding, dirty, shown>>
vars == <<sensorVars, handlerVars, readVars, shownVer, channelVars>>

TypeInvariant ==
  /\ value \in [Cells -> Values]
  /\ version \in [Cells -> 0..MaxVersion]
  /\ writer \in [Cells -> {"idle", "stored", "bumped"}]
  /\ last \in [Cells -> 0..MaxVersion]
  /\ dataver \in [Cells -> Nat]
  /\ reading \in Cells \cup {NoCell}
  /\ reporting \in BOOLEAN
  /\ shownVer \in [Cells -> Nat]
  /\ Channel!ChannelType(Values)

Init ==
  /\ value \in [Cells -> Values]
  /\ version = [c \in Cells |-> 0]
  /\ writer = [c \in Cells |-> "idle"]
  /\ last = [c \in Cells |-> 0]
  /\ dataver = [c \in Cells |-> 0]
  /\ reading = NoCell
  /\ reporting = FALSE
  /\ shownVer = [c \in Cells |-> 0]
  /\ Channel!ChannelInit(value)
-----------------------------------------------------------------------------
\* Mutant: the value is scaled to hundredths once more.
StoreValueScaled(c, v) ==
  /\ writer[c] = "idle"
  /\ version[c] < MaxVersion
  /\ value' = [value EXCEPT ![c] = 100 * v]
  /\ writer' = [writer EXCEPT ![c] = "stored"]
  /\ UNCHANGED <<version, handlerVars, readVars, shownVer, channelVars>>

\* set_celsius, set_percent, SimulatedHandler::set_state: first the value,
StoreValue(c, v) ==
  /\ writer[c] = "idle"
  /\ version[c] < MaxVersion
  /\ value' = [value EXCEPT ![c] = v]
  /\ writer' = [writer EXCEPT ![c] = "stored"]
  /\ UNCHANGED <<version, handlerVars, readVars, shownVer, channelVars>>

\* Mutant: the update forgets the version.
BumpNothing(c) ==
  /\ writer[c] = "stored"
  /\ writer' = [writer EXCEPT ![c] = "bumped"]
  /\ UNCHANGED <<value, version, handlerVars, readVars, shownVer, channelVars>>

\* then the version,
BumpVersion(c) ==
  /\ writer[c] = "stored"
  /\ version' = [version EXCEPT ![c] = @ + 1]
  /\ writer' = [writer EXCEPT ![c] = "bumped"]
  /\ UNCHANGED <<value, handlerVars, readVars, shownVer, channelVars>>

\* then the signal.
NotifyChange(c) ==
  /\ writer[c] = "bumped"
  /\ Channel!Notify
  /\ writer' = [writer EXCEPT ![c] = "idle"]
  /\ UNCHANGED <<value, version, handlerVars, readVars, shownVer>>
-----------------------------------------------------------------------------
Free == reading = NoCell /\ ~forwarding

\* The data version a read that starts now finds: sync_dataver first, for the
\* handlers that have it.
DataverOnRead(c) ==
  IF c \in Synced /\ version[c] # last[c] THEN dataver[c] + 1 ELSE dataver[c]

Sync(c) ==
  /\ dataver' = [dataver EXCEPT ![c] = DataverOnRead(c)]
  /\ last' = IF c \in Synced THEN [last EXCEPT ![c] = version[c]] ELSE last

\* Mutant: a report is filtered by data version as a read is.
BeginReportFiltered(c) ==
  /\ Free
  /\ c \in dirty
  /\ Sync(c)
  /\ reading' = IF DataverOnRead(c) = shownVer[c] THEN NoCell ELSE c
  /\ reporting' = (DataverOnRead(c) # shownVer[c])
  /\ UNCHANGED <<sensorVars, shownVer, channelVars>>

\* A report of an attribute the subscription was told about.
BeginReport(c) ==
  /\ Free
  /\ c \in dirty
  /\ Sync(c)
  /\ reading' = c
  /\ reporting' = TRUE
  /\ UNCHANGED <<sensorVars, shownVer, channelVars>>

\* A read by a controller that has data of version shownVer[c]: no data when
\* with_dataver finds the same version, otherwise the value is loaded next.
BeginFilteredRead(c) ==
  /\ Free
  /\ Sync(c)
  /\ reading' = IF DataverOnRead(c) = shownVer[c] THEN NoCell ELSE c
  /\ reporting' = FALSE
  /\ UNCHANGED <<sensorVars, shownVer, channelVars>>

\* The value is loaded after the data version, and sent with it.
LoadValue(c) ==
  /\ reading = c
  /\ shownVer' = [shownVer EXCEPT ![c] = dataver[c]]
  /\ reading' = NoCell
  /\ reporting' = FALSE
  /\ \/ reporting /\ Channel!Report(c, value[c])
     \/ /\ ~reporting
        /\ shown' = [shown EXCEPT ![c] = value[c]]
        /\ UNCHANGED <<sig, forwarding, dirty>>
  /\ UNCHANGED <<sensorVars, handlerVars>>

TakeSignal ==
  /\ reading = NoCell
  /\ Channel!TakeSignal
  /\ UNCHANGED <<sensorVars, handlerVars, readVars, shownVer>>

MarkChanged ==
  /\ Channel!MarkChanged
  /\ UNCHANGED <<sensorVars, handlerVars, readVars, shownVer>>
-----------------------------------------------------------------------------
Next ==
  \/ \E c \in Cells :
        \/ \E v \in Values : StoreValue(c, v)
        \/ BumpVersion(c)
        \/ NotifyChange(c)
        \/ BeginReport(c)
        \/ BeginFilteredRead(c)
        \/ LoadValue(c)
  \/ TakeSignal
  \/ MarkChanged

\* Started updates and reads end; the executor's round robin gives strong
\* fairness to sensor_forward and the reports, as in OnOffBridge.
Fairness ==
  /\ \A c \in Cells : /\ WF_vars(BumpVersion(c))
                      /\ WF_vars(NotifyChange(c))
                      /\ WF_vars(LoadValue(c))
                      /\ SF_vars(BeginReport(c))
  /\ SF_vars(TakeSignal)
  /\ WF_vars(MarkChanged)

Spec == Init /\ [][Next]_vars

FairSpec == Spec /\ Fairness
-----------------------------------------------------------------------------
\* A controller that asks with the version it has, and would get no data, has
\* the current value, but for an update whose version is still to be bumped.
FilterSafe(c) ==
  DataverOnRead(c) = shownVer[c] =>
    shown[c] = value[c] \/ writer[c] = "stored"

\* The handlers that compare versions never hide a change behind the data
\* version, wherever an update falls between the steps of a read.
SyncedFilterSafe == \A c \in Synced : FilterSafe(c)

\* A value the controller was not shown is still being written, or on its way.
NoLostUpdate ==
  \A c \in Cells :
    shown[c] # value[c] => Channel!OnItsWay(c) \/ writer[c] # "idle"

View == INSTANCE LiveView WITH Cells <- Cells, Values <- Values,
                               value <- value, shown <- shown

\* The controller sees only values measured at that moment, and a cell shown
\* out of date is brought up to date.
RefinesLiveView == View!Spec
=============================================================================
