----------------------------- MODULE Lifecycle ------------------------------
(***************************************************************************)
(* The life of one process: main starts the MQTT integration and then the  *)
(* Matter thread, waits for ctrl-c, signals the thread, aborts the task    *)
(* and waits a limited time for the thread before it returns, which ends   *)
(* whatever still runs.                                                    *)
(***************************************************************************)
EXTENDS MqttLink

VARIABLES
  main,      \* where main is
  matter,    \* what the Matter thread is doing
  shutdown   \* SHUTDOWN_SIGNAL: "unset", or "idle" or "raised" once initialised

lifeVars == <<main, matter, shutdown>>
vars == <<linkVars, lifeVars>>

LifeTypes ==
  /\ main \in {"starting", "spawning", "running", "signalling", "aborting", "joining",
               "exited"}
  /\ matter \in {"unstarted", "starting", "wiring", "serving", "storing", "ended"}
  /\ shutdown \in {"unset", "idle", "raised"}

TypeInvariantLife == TypeInvariant /\ LifeTypes

Init == /\ LinkInit
        /\ main = "starting" /\ matter = "unstarted" /\ shutdown = "unset"

-----------------------------------------------------------------------------
(* main. *)

\* The camera input initialises and the tasks are spawned, MQTT last.
StartTasks ==
  /\ main = "starting"
  /\ main' = "spawning"
  /\ Start
  /\ UNCHANGED <<matter, shutdown>>

SpawnMatter ==
  /\ main = "spawning"
  /\ main' = "running" /\ matter' = "starting"
  /\ UNCHANGED <<linkVars, shutdown>>

\* ctrl_c completes.
CtrlC ==
  /\ main = "running"
  /\ main' = "signalling"
  /\ UNCHANGED <<linkVars, matter, shutdown>>

\* signal_shutdown: does nothing before the signal is initialised.
SignalShutdown ==
  /\ main = "signalling"
  /\ main' = "aborting"
  /\ shutdown' = IF shutdown = "unset" THEN "unset" ELSE "raised"
  /\ UNCHANGED <<linkVars, matter>>

\* mqtt_task.abort(); nothing is left to abort when the task has returned.
AbortTasks ==
  /\ main = "aborting"
  /\ main' = "joining"
  /\ AbortTask
  /\ UNCHANGED <<matter, shutdown>>

\* Mutant: a join without a time limit.
WaitForever == FALSE

\* The wait loop finds the thread joined, or gives up after five seconds.  The
\* camera input is shut down and main returns: whatever thread or task of the
\* process still runs is gone.
Joined ==
  /\ main = "joining" /\ matter = "ended"
  /\ main' = "exited"
  /\ UNCHANGED <<linkVars, matter, shutdown>>

GiveUp ==
  /\ main = "joining" /\ matter # "ended"
  /\ main' = "exited"
  /\ UNCHANGED <<linkVars, matter, shutdown>>

-----------------------------------------------------------------------------
(* The Matter thread: run_matter_stack. *)

\* Up to get_or_init: certificates, schema check, load, buffers.
InitSignal ==
  /\ matter = "starting"
  /\ matter' = "wiring"
  /\ shutdown' = IF shutdown = "unset" THEN "idle" ELSE shutdown
  /\ UNCHANGED <<linkVars, main>>

\* The handlers are wired and every socket is bound: select4 polls.
BeginSelect ==
  /\ matter = "wiring"
  /\ matter' = "serving"
  /\ UNCHANGED <<linkVars, main, shutdown>>

\* An error of the start, or of one of the futures of select4, ends the thread.
Fail ==
  /\ matter \in {"starting", "wiring", "serving"}
  /\ matter' = "ended"
  /\ UNCHANGED <<linkVars, main, shutdown>>

\* psm.store runs to its end before select4 polls anything else.
BeginStore ==
  /\ matter = "serving"
  /\ matter' = "storing"
  /\ UNCHANGED <<linkVars, main, shutdown>>

EndStore ==
  /\ matter = "storing"
  /\ matter' = "serving"
  /\ UNCHANGED <<linkVars, main, shutdown>>

\* shutdown_task is polled and takes the signal.
TakeShutdown ==
  /\ matter = "serving" /\ shutdown = "raised"
  /\ shutdown' = "idle"
  /\ matter' = "ended"
  /\ UNCHANGED <<linkVars, main>>

-----------------------------------------------------------------------------
MainStep   == StartTasks \/ SpawnMatter \/ SignalShutdown \/ AbortTasks \/ Joined \/ GiveUp
MatterStep == InitSignal \/ BeginSelect \/ Fail \/ BeginStore \/ EndStore \/ TakeShutdown

Next ==
  \/ MainStep
  \/ CtrlC
  \/ main # "exited" /\ MatterStep
  \/ main # "exited" /\ (World \/ LoopStep \/ TaskStep) /\ UNCHANGED lifeVars

Spec == Init /\ [][Next]_vars

\* The runtime polls both MQTT tasks, and main, whenever they can go on; main's
\* wait ends with the thread or with the time limit.  The thread polls every
\* ready future in turn, so that stores cannot keep shutdown_task from being
\* polled.  Nothing makes the broker accept or the user press ctrl-c.
FairSpec ==
  /\ Spec
  /\ WF_vars(\E valid \in BOOLEAN : Receive(valid) /\ UNCHANGED lifeVars)
  /\ WF_vars((Forward \/ ForwardFails \/ Wake) /\ UNCHANGED lifeVars)
  /\ WF_vars((Connected \/ AbortLoop \/ MakeRequest \/ BeginServing) /\ UNCHANGED lifeVars)
  /\ WF_vars(\E understood \in BOOLEAN : Handle(understood) /\ UNCHANGED lifeVars)
  /\ WF_vars(MainStep)
  /\ WF_vars(EndStore) /\ SF_vars(TakeShutdown)

-----------------------------------------------------------------------------
(* Properties. *)

\* After ctrl-c the process ends, also when the Matter thread never hears of
\* it or is busy.
CtrlCEnds == main = "signalling" ~> main = "exited"
=============================================================================
