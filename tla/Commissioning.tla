---------------------------- MODULE Commissioning ----------------------------
(***************************************************************************)
(* How the bridge gets itself commissioned: a start that finds no fabric   *)
(* spawns a thread, which asks the controller (python-matter-server, over  *)
(* a WebSocket) to forget the nodes an earlier schema left there, if the   *)
(* schema check reset matter.bin, and then to commission the bridge by its *)
(* pairing code.  The dev-commission tool talks to the same controller.    *)
(* What a start finds on the disk is in SchemaPersistence; here a start    *)
(* may find anything.                                                      *)
(*                                                                         *)
(* The controller is external: it serves what is asked in any order, fails *)
(* as it likes, and may close a connection at any time.  What was asked    *)
(* over a connection that is closed may still be served.  Where the code   *)
(* looks for the vendor id of a listed node it may find nothing.           *)
(***************************************************************************)
EXTENDS PairingCode, Naturals, FiniteSets

CONSTANTS
  Configs,       \* the pairs [discriminator, passcode] the environment may set
  Pairs,         \* pairs that fit the fields of a pairing code
  DeviceConfig,  \* TEST_DEV_COMM, the pair the device is built with
  MaxNodes,      \* bound: the nodes the controller ever numbers are 1..MaxNodes
  FirstNodes,    \* of them, the nodes it has at first are 1..FirstNodes
  MaxGone,       \* bound: the requests of closed connections still being served
  Foreign        \* the nodes of other vendors

ASSUME ConfigAssumption ==
  /\ DeviceConfig \in Configs /\ Configs \subseteq Pairs
  /\ Pairs \subseteq [discriminator : 0..MaxDiscriminator, passcode : 0..MaxPasscode]
  /\ MaxNodes \in Nat /\ MaxGone \in Nat /\ FirstNodes \in 0..MaxNodes
  /\ Foreign \subseteq 1..FirstNodes

VARIABLES
  \* ---- the controller ----
  nodes,    \* the nodes it knows
  numbered, \* the last node it numbered; a number is not used twice
  asked,    \* the requests it has not served
  answers,  \* what it answered and the client has not read
  open,     \* the connections that are open
  \* ---- the process ----
  up,       \* it runs
  config,   \* its MATTER_DISCRIMINATOR and MATTER_PASSCODE
  \* ---- its commissioning thread ----
  step,     \* what it is doing
  listed,   \* the controller's list: <<node, the vendor its entry tells>>
  left,     \* the bridge nodes in it that it has not come to
  target,   \* the one it has asked to be removed
  removed,  \* those counted as removed
  kept,     \* those whose removal it gave up, and logged
  \* ---- dev-commission ----
  tool      \* the command it is running, or "off"

serverVars == <<nodes, numbered, asked, answers, open>>
cleanupVars == <<listed, left, target, removed, kept>>
processVars == <<up, config, step, cleanupVars>>
vars == <<serverVars, processVars, tool>>

Connections == {"cleanup", "auto", "tool"}

\* A request: its connection ("gone" once that is closed), what it asks, and the
\* node or the code it names.
Request(c, ask, node, code) == [conn |-> c, ask |-> ask, node |-> node, code |-> code]
GetNodes(c) == Request(c, "get_nodes", 0, <<>>)
RemoveNode(c, n) == Request(c, "remove_node", n, <<>>)
CommissionWithCode(c, code) == Request(c, "commission_with_code", 0, code)

CodeOf(pair) == PairingCodeOf(pair.discriminator, pair.passcode)

NodeIds == 1..MaxNodes

\* What an entry of the list has at attributes["0"]["40"]["1"]: the bridge's vendor
\* id, or anything else, be it another number, no number, or nothing at all.
Vendors == {"own", "other"}

TypeInvariant ==
  /\ nodes \subseteq NodeIds
  /\ numbered \in FirstNodes..MaxNodes
  /\ \A r \in asked : /\ r.conn \in Connections \cup {"gone"}
                      /\ r.ask \in {"get_nodes", "remove_node", "commission_with_code"}
                      /\ r.node \in 0..MaxNodes
  /\ \A a \in answers : a.to.conn \in open
  /\ open \subseteq Connections
  /\ up \in BOOLEAN
  /\ config \in Configs
  /\ step \in {"none", "cleanup", "listing", "choosing", "removing", "settle",
               "commissioning", "manual", "done"}
  /\ listed \subseteq NodeIds \X Vendors
  /\ \A s \in {left, target, removed, kept} : s \subseteq NodeIds
  /\ tool \in {"off", "commission", "remove"}

Init ==
  /\ nodes = 1..FirstNodes /\ numbered = FirstNodes
  /\ asked = {} /\ answers = {} /\ open = {}
  /\ up = FALSE /\ config = DeviceConfig
  /\ step = "none"
  /\ listed = {} /\ left = {} /\ target = {} /\ removed = {} /\ kept = {}
  /\ tool = "off"
-----------------------------------------------------------------------------
(* Connections. *)

\* A connection is made and the request r sent over it.
Ask(c, r) ==
  /\ open' = open \cup {c}
  /\ asked' = asked \cup {r}

\* Mutant: what a closed connection still held is read over the next one.
CloseKeepingAnswers(cs) ==
  /\ open' = open \ cs
  /\ asked' = {r \in asked : r.conn \notin cs}
  /\ UNCHANGED answers

\* The connections cs are closed: their answers are lost, and of what was asked
\* over closed connections the controller still serves some, or nothing.
Close(cs) ==
  /\ open' = open \ cs
  /\ answers' = {a \in answers : a.to.conn \notin cs}
  /\ LET closed == {r \in asked : r.conn \in cs \cup {"gone"} /\ r.ask # "get_nodes"}
     IN  \E still \in {some \in SUBSET closed : Cardinality(some) <= MaxGone} :
           asked' = {r \in asked : r.conn \in open'} \cup {[r EXCEPT !.conn = "gone"] : r \in still}

\* The answer to r, if any one still listens.
Answer(r, ok, list) ==
  /\ asked' = asked \ {r}
  /\ answers' = IF r.conn \in open THEN answers \cup {[to |-> r, ok |-> ok, nodes |-> list]}
                                   ELSE answers
  /\ UNCHANGED open
-----------------------------------------------------------------------------
(* The controller. *)

\* The list; of the bridge nodes in tells the entry has the vendor id where the
\* code looks for it, of the others it has not.
ServeList(r, ok, tells) ==
  /\ r.ask = "get_nodes"
  /\ Answer(r, ok, IF ok THEN {<<n, IF n \in tells THEN "own" ELSE "other">> : n \in nodes} ELSE {})
  /\ UNCHANGED <<nodes, numbered>>

\* A node is removed; a node that is not there, or any failure, is an error.
ServeRemove(r, ok) ==
  /\ r.ask = "remove_node"
  /\ ok => r.node \in nodes
  /\ nodes' = IF ok THEN nodes \ {r.node} ELSE nodes
  /\ Answer(r, ok, {})
  /\ UNCHANGED numbered

\* The bridge is commissioned by a code that is its own, and becomes a node.  Its
\* commissioning window and its fabrics are left out: while it is up, the
\* controller may succeed, and it may always be refused.
ServeCommission(r) ==
  /\ r.ask = "commission_with_code"
  /\ r.code = CodeOf(DeviceConfig)
  /\ numbered < MaxNodes
  /\ up
  /\ numbered' = numbered + 1
  /\ nodes' = nodes \cup {numbered + 1}
  /\ Answer(r, TRUE, {})

RefuseCommission(r) ==
  /\ r.ask = "commission_with_code"
  /\ Answer(r, FALSE, {})
  /\ UNCHANGED <<nodes, numbered>>

DropConnection(c) ==
  /\ c \in open
  /\ Close({c})
  /\ UNCHANGED <<nodes, numbered>>

Controller ==
  /\ \/ \E r \in asked, ok \in BOOLEAN :
          ServeRemove(r, ok) \/ \E tells \in SUBSET (nodes \ Foreign) : ServeList(r, ok, tells)
     \/ \E r \in asked : ServeCommission(r) \/ RefuseCommission(r)
     \/ \E c \in open : DropConnection(c)
  /\ UNCHANGED <<processVars, tool>>
-----------------------------------------------------------------------------
(* The process, and the thread it spawns. *)

\* A process starts.  If it is in no fabric it opens its window, and with
\* MATTER_SERVER_URL set it spawns the thread, which first cleans up if the
\* schema check reset.
Boot(c, commissioned, serverUrl, reset) ==
  /\ ~up
  /\ up' = TRUE
  /\ config' = c
  /\ step' = IF commissioned \/ ~serverUrl THEN "none"
             ELSE IF reset THEN "cleanup" ELSE "settle"
  /\ UNCHANGED <<serverVars, cleanupVars, tool>>

\* The locals of remove_bridge_nodes go.
Return == listed' = {} /\ left' = {} /\ target' = {} /\ removed' = {} /\ kept' = {}

\* The process ends, and the thread and its connections with it.
End ==
  /\ up
  /\ up' = FALSE
  /\ step' = "none"
  /\ Return
  /\ Close({"cleanup", "auto"})
  /\ UNCHANGED <<nodes, numbered, config, tool>>
-----------------------------------------------------------------------------
(* remove_bridge_nodes.  Whatever goes wrong, the thread then commissions. *)

\* The connection fails, or the list is asked for.
BeginCleanup(fails) ==
  /\ step = "cleanup"
  /\ step' = IF fails THEN "settle" ELSE "listing"
  /\ IF fails THEN UNCHANGED <<asked, open>> ELSE Ask("cleanup", GetNodes("cleanup"))
  /\ UNCHANGED <<nodes, numbered, answers, up, config, cleanupVars, tool>>

\* The nodes of the bridge's own vendor, as far as their entries tell it; any
\* other is passed over without a word.
BridgeNodes(list) == {n \in NodeIds : <<n, "own">> \in list}

ReadList ==
  \E a \in answers :
    /\ step = "listing"
    /\ a.to = GetNodes("cleanup")
    /\ a.ok
    /\ answers' = answers \ {a}
    /\ step' = "choosing"
    /\ listed' = a.nodes
    /\ left' = BridgeNodes(a.nodes)
    /\ UNCHANGED <<nodes, numbered, asked, open, up, config, target, removed, kept, tool>>

\* An answer without a list, 30 seconds without one, or a closed connection.
FailList ==
  /\ step = "listing"
  /\ step' = "settle"
  /\ Close({"cleanup"})
  /\ UNCHANGED <<nodes, numbered, up, config, cleanupVars, tool>>

\* The next node is asked to be removed; if that cannot be sent, it is skipped.
AskRemove(n) ==
  /\ step = "choosing"
  /\ n \in left
  /\ left' = left \ {n}
  /\ IF "cleanup" \in open
       THEN /\ Ask("cleanup", RemoveNode("cleanup", n))
            /\ step' = "removing" /\ target' = {n}
            /\ UNCHANGED kept
       ELSE /\ kept' = kept \cup {n}
            /\ UNCHANGED <<asked, open, step, target>>
  /\ UNCHANGED <<nodes, numbered, answers, up, config, listed, removed, tool>>

\* Mutant: any answer is taken for the one awaited.
AnyAnswer(a) == a.to.conn = "cleanup"

\* The answer with the message id remove-<node>; any other one is passed over.
AnswersRemoval(a) == \E n \in target : a.to = RemoveNode("cleanup", n)

ReadRemoval ==
  \E a \in answers :
    /\ step = "removing"
    /\ AnswersRemoval(a)
    /\ answers' = answers \ {a}
    /\ IF a.ok THEN removed' = removed \cup target /\ UNCHANGED kept
               ELSE kept' = kept \cup target /\ UNCHANGED removed
    /\ step' = "choosing" /\ target' = {}
    /\ UNCHANGED <<nodes, numbered, asked, open, up, config, listed, left, tool>>

\* 30 seconds without an answer, or a closed connection: on to the next node.
FailRemoval ==
  /\ step = "removing"
  /\ step' = "choosing" /\ target' = {}
  /\ kept' = kept \cup target
  /\ UNCHANGED <<serverVars, up, config, listed, left, removed, tool>>

EndCleanup ==
  /\ step = "choosing" /\ left = {}
  /\ step' = "settle"
  /\ Return
  /\ Close({"cleanup"})
  /\ UNCHANGED <<nodes, numbered, up, config, tool>>
-----------------------------------------------------------------------------
(* auto_commission. *)

\* After five seconds: the connection fails, or the code is sent.
AskCommission(fails) ==
  /\ step = "settle"
  /\ step' = IF fails THEN "manual" ELSE "commissioning"
  /\ IF fails THEN UNCHANGED <<asked, open>>
              ELSE Ask("auto", CommissionWithCode("auto", CodeOf(config)))
  /\ UNCHANGED <<nodes, numbered, answers, up, config, cleanupVars, tool>>

\* An answer, or a closed connection.  The code is shown after a failure.
ReadCommissioned ==
  /\ step = "commissioning"
  /\ \/ \E a \in answers : a.to.conn = "auto" /\ step' = IF a.ok THEN "done" ELSE "manual"
     \/ "auto" \notin open /\ step' = "manual"
  /\ Close({"auto"})
  /\ UNCHANGED <<nodes, numbered, up, config, cleanupVars, tool>>

\* Mutant: the answer is waited for without a limit.
CommissionUntimed == FALSE

\* After 120 seconds without an answer the thread ends as if it had succeeded.
CommissionTimeout ==
  /\ step = "commissioning"
  /\ step' = "done"
  /\ Close({"auto"})
  /\ UNCHANGED <<nodes, numbered, up, config, cleanupVars, tool>>

\* Connecting has no time limit; every other step ends by itself.
Waiting ==
  \/ ReadList \/ FailList
  \/ \E n \in left : AskRemove(n)
  \/ ReadRemoval \/ FailRemoval
  \/ EndCleanup
  \/ ReadCommissioned \/ CommissionTimeout

Thread ==
  \/ \E fails \in BOOLEAN : BeginCleanup(fails) \/ AskCommission(fails)
  \/ Waiting
-----------------------------------------------------------------------------
(* dev-commission: one command over a connection of its own.  Its status      *)
(* command changes nothing, and a code that is not the bridge's is refused as *)
(* its own may be: both are left out.                                         *)

RunTool(command, r) ==
  /\ tool = "off"
  /\ tool' = command
  /\ Ask("tool", r)
  /\ UNCHANGED <<nodes, numbered, answers, processVars>>

ToolReads ==
  /\ tool # "off"
  /\ (\E a \in answers : a.to.conn = "tool") \/ "tool" \notin open
  /\ tool' = "off"
  /\ Close({"tool"})
  /\ UNCHANGED <<nodes, numbered, processVars>>

\* Only commission has a time limit.
ToolTimeout ==
  /\ tool = "commission"
  /\ tool' = "off"
  /\ Close({"tool"})
  /\ UNCHANGED <<nodes, numbered, processVars>>

Tool ==
  \/ RunTool("commission", CommissionWithCode("tool", CodeOf(DeviceConfig)))
  \/ \E n \in NodeIds : RunTool("remove", RemoveNode("tool", n))
  \/ ToolReads \/ ToolTimeout
-----------------------------------------------------------------------------
Next ==
  \/ \E c \in Configs, commissioned, serverUrl, reset \in BOOLEAN :
       Boot(c, commissioned, serverUrl, reset)
  \/ End
  \/ Controller
  \/ Thread
  \/ Tool

\* The thread's waits end: by an answer, a closed connection or the limit.
Spec ==
  /\ Init /\ [][Next]_vars
  /\ WF_vars(Waiting)
-----------------------------------------------------------------------------
\* The codes the thread has sent over its connection, or has shown.
CodesTold ==
  {r.code : r \in {q \in asked : q.conn = "auto"}}
    \cup (IF step = "manual" THEN {CodeOf(config)} ELSE {})

\* Of the pair the code keeps the upper four of the discriminator's twelve bits
\* and the passcode; any one digit mistaken, or two neighbours swapped, shows.
TellsPair(code, pair) ==
  /\ ValidCode(code)
  /\ ReadCode(code) = [upper |-> pair.discriminator \div 256, passcode |-> pair.passcode]
  /\ \A wrong \in Mistaken(code) \ {code} : ~ValidCode(wrong)

TellingPairs == {pair \in Pairs : TellsPair(CodeOf(pair), pair)}

\* A controller, or a person, who is given a pairing code by the bridge reads
\* from it the discriminator and the passcode the bridge is configured with,
\* and notices a slip: for every configuration that fits the code's fields.
CodeTellsDevice ==
  /\ TellingPairs = Pairs
  /\ CodesTold \subseteq {CodeOf(config)}

\* What the cleanup has counted as removed is gone from the controller, it never
\* asks for a node of another vendor to be removed, and of the list exactly the
\* nodes whose entry tells the bridge's vendor id are removed, given up with a
\* warning, or still to come, however late the answers are.
CleanupExact ==
  /\ removed \cap nodes = {}
  /\ \A r \in asked : r.conn = "cleanup" => r.node \notin Foreign
  /\ step \in {"choosing", "removing"} =>
       {n \in NodeIds : <<n, "own">> \in listed} = left \cup target \cup removed \cup kept

\* Once it is connected, the thread comes to an end of its cleanup and of its
\* commissioning, though the controller may never answer.
AttemptEnds ==
  step \in {"listing", "choosing", "removing", "commissioning"}
    ~> step \in {"settle", "manual", "done", "none"}
=============================================================================
