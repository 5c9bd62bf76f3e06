-------------------------- MODULE SchemaPersistence --------------------------
(***************************************************************************)
(* What survives a restart: matter.bin with the fabrics the bridge was     *)
(* commissioned into, and the hash of the device schema it was started     *)
(* with.  Every start compares the schema it was built with to the stored  *)
(* hash and deletes matter.bin when they differ, so that no controller     *)
(* goes on with endpoints that have changed.  A process may be stopped or  *)
(* crash between any two accesses to the disk, and be started again with   *)
(* the same schema or another, with or without DEV_AUTO_RESET.             *)
(*                                                                         *)
(* A fabric is represented by the schema it was commissioned under.  The   *)
(* instance lock lets one process at a time run this.                      *)
(***************************************************************************)

CONSTANTS
  Schemas,  \* the hashes of the device configurations the bridge is built with
  NoHash    \* the hash file does not exist, or holds no number

ASSUME HashAssumption == NoHash \notin Schemas

VARIABLES
  bin,        \* matter.bin: "none", "partial" (created, not written), "whole"
  stored,     \* the fabrics in it, when whole
  hash,       \* the hash file
  disturbed,  \* a start was forced to reset, or an access to the disk failed
  \* ---- the process ----
  pc,         \* where it is: "down", the steps of its start, "up", "storing"
  schema,     \* its schema
  force,      \* DEV_AUTO_RESET is set
  fabrics,    \* the fabrics it serves
  changed     \* they have changed since the last store

binVars     == <<bin, stored>>
diskVars    == <<bin, stored, hash>>
processVars == <<pc, schema, force, fabrics, changed>>
vars == <<diskVars, disturbed, processVars>>

TypeInvariant ==
  /\ bin \in {"none", "partial", "whole"}
  /\ stored \in SUBSET Schemas
  /\ bin # "whole" => stored = {}
  /\ hash \in Schemas \cup {NoHash}
  /\ disturbed \in BOOLEAN
  /\ pc \in {"down", "check", "remove", "open", "write", "load", "up", "storing"}
  /\ schema \in Schemas
  /\ force \in BOOLEAN
  /\ fabrics \in SUBSET Schemas
  /\ changed \in BOOLEAN

Init ==
  /\ bin = "none"
  /\ stored = {}
  /\ hash = NoHash
  /\ disturbed = FALSE
  /\ pc = "down"
  /\ schema \in Schemas
  /\ force = FALSE
  /\ fabrics = {}
  /\ changed = FALSE
-----------------------------------------------------------------------------
Start(s, forced) ==
  /\ pc = "down"
  /\ pc' = "check"
  /\ schema' = s
  /\ force' = forced
  /\ disturbed' = (disturbed \/ forced)
  /\ UNCHANGED <<diskVars, fabrics, changed>>

DeleteBin ==
  /\ bin' = "none"
  /\ stored' = {}

\* check_schema_and_maybe_reset with DEV_AUTO_RESET: matter.bin goes, and the
\* hash file is neither read nor written.  The result of the removal is ignored.
ForceReset(fails) ==
  /\ pc = "check"
  /\ force
  /\ IF fails THEN UNCHANGED binVars ELSE DeleteBin
  /\ disturbed' = (disturbed \/ fails)
  /\ pc' = "load"
  /\ UNCHANGED <<hash, schema, force, fabrics, changed>>

\* The stored hash is the current one: matter.bin is kept.
HashEqual ==
  /\ pc = "check" /\ ~force
  /\ hash = schema
  /\ pc' = "load"
  /\ UNCHANGED <<diskVars, disturbed, schema, force, fabrics, changed>>

\* Mutant: the new hash is written before matter.bin is deleted.
HashChangedWrittenFirst ==
  /\ pc = "check" /\ ~force
  /\ hash \notin {schema, NoHash}
  /\ pc' = "remove"
  /\ hash' = schema
  /\ UNCHANGED <<binVars, disturbed, schema, force, fabrics, changed>>

\* Another hash is stored: delete matter.bin, then write the hash.
HashChanged ==
  /\ pc = "check" /\ ~force
  /\ hash \notin {schema, NoHash}
  /\ pc' = "remove"
  /\ UNCHANGED <<diskVars, disturbed, schema, force, fabrics, changed>>

\* No hash: write it, and keep matter.bin.
HashMissing ==
  /\ pc = "check" /\ ~force
  /\ hash = NoHash
  /\ pc' = "open"
  /\ UNCHANGED <<diskVars, disturbed, schema, force, fabrics, changed>>

\* Mutant: the new hash is not stored after a reset.
RemoveBinOnly(fails) ==
  /\ pc = "remove"
  /\ IF fails THEN UNCHANGED binVars ELSE DeleteBin
  /\ disturbed' = (disturbed \/ fails)
  /\ pc' = "load"
  /\ UNCHANGED <<hash, schema, force, fabrics, changed>>

\* A removal that fails is logged, and the start goes on.
RemoveBin(fails) ==
  /\ pc = "remove"
  /\ IF fails THEN UNCHANGED binVars ELSE DeleteBin
  /\ disturbed' = (disturbed \/ fails)
  /\ pc' = "open"
  /\ UNCHANGED <<hash, schema, force, fabrics, changed>>

\* fs::write of the hash truncates the file, then writes it; a failure is
\* logged, and the start goes on.
OpenHash(fails) ==
  /\ pc = "open"
  /\ hash' = IF fails THEN hash ELSE NoHash
  /\ disturbed' = (disturbed \/ fails)
  /\ pc' = IF fails THEN "load" ELSE "write"
  /\ UNCHANGED <<binVars, schema, force, fabrics, changed>>

WriteHash(fails) ==
  /\ pc = "write"
  /\ hash' = IF fails THEN hash ELSE schema
  /\ disturbed' = (disturbed \/ fails)
  /\ pc' = "load"
  /\ UNCHANGED <<binVars, schema, force, fabrics, changed>>

\* Mutant: a file that cannot be loaded is left where it is.
LoadKeepingCorrupt(fails) ==
  /\ pc = "load"
  /\ fabrics' = stored
  /\ disturbed' = (disturbed \/ fails)
  /\ pc' = "up"
  /\ changed' = FALSE
  /\ UNCHANGED <<diskVars, schema, force>>

\* psm.load: a file that cannot be loaded is deleted, so that the bridge
\* starts without fabrics; a failure to delete it is logged.
Load(fails) ==
  /\ pc = "load"
  /\ fabrics' = stored
  /\ IF bin = "partial" /\ ~fails THEN DeleteBin ELSE UNCHANGED binVars
  /\ disturbed' = (disturbed \/ fails)
  /\ pc' = "up"
  /\ changed' = FALSE
  /\ UNCHANGED <<hash, schema, force>>
-----------------------------------------------------------------------------
\* A controller commissions the bridge: in the window opened at the start, or
\* in one that another fabric opened.
Commission ==
  /\ pc = "up"
  /\ fabrics' = fabrics \cup {schema}
  /\ changed' = TRUE
  /\ UNCHANGED <<diskVars, disturbed, pc, schema, force>>

\* A controller removes its fabric.
RemoveFabric(s) ==
  /\ pc = "up"
  /\ s \in fabrics
  /\ fabrics' = fabrics \ {s}
  /\ changed' = TRUE
  /\ UNCHANGED <<diskVars, disturbed, pc, schema, force>>

\* Mutant: the file is written over without being created anew.
BeginStoreInPlace(fails) ==
  /\ pc = "up"
  /\ changed
  /\ changed' = FALSE
  /\ bin' = IF fails THEN bin ELSE "partial"
  /\ stored' = stored
  /\ disturbed' = (disturbed \/ fails)
  /\ pc' = IF fails THEN "up" ELSE "storing"
  /\ UNCHANGED <<hash, schema, force, fabrics>>

\* The persist future, woken by a change: psm.store creates the file anew,
\* then writes the fabrics; it never awaits in between.  A failure is logged,
\* and the future waits for the next change.
BeginStore(fails) ==
  /\ pc = "up"
  /\ changed
  /\ changed' = FALSE
  /\ IF fails THEN UNCHANGED binVars ELSE bin' = "partial" /\ stored' = {}
  /\ disturbed' = (disturbed \/ fails)
  /\ pc' = IF fails THEN "up" ELSE "storing"
  /\ UNCHANGED <<hash, schema, force, fabrics>>

EndStore(fails) ==
  /\ pc = "storing"
  /\ IF fails THEN UNCHANGED binVars ELSE bin' = "whole" /\ stored' = fabrics
  /\ disturbed' = (disturbed \/ fails)
  /\ pc' = "up"
  /\ UNCHANGED <<hash, schema, force, fabrics, changed>>

\* The process ends anywhere: by a crash, or by the shutdown signal, which
\* drops the persist future without a last store.
Stop ==
  /\ pc # "down"
  /\ pc' = "down"
  /\ force' = FALSE
  /\ fabrics' = {}
  /\ changed' = FALSE
  /\ UNCHANGED <<diskVars, disturbed, schema>>
-----------------------------------------------------------------------------
CheckSchema ==
  \/ \E fails \in BOOLEAN : ForceReset(fails) \/ RemoveBin(fails) \/ OpenHash(fails) \/ WriteHash(fails)
  \/ HashEqual
  \/ HashChanged
  \/ HashMissing

Next ==
  \/ \E s \in Schemas, forced \in BOOLEAN : Start(s, forced)
  \/ CheckSchema
  \/ \E fails \in BOOLEAN : Load(fails) \/ BeginStore(fails) \/ EndStore(fails)
  \/ Commission
  \/ \E s \in Schemas : RemoveFabric(s)
  \/ Stop

Spec == Init /\ [][Next]_vars
-----------------------------------------------------------------------------
\* The bridge never serves a fabric that was commissioned under another
\* schema, wherever earlier processes were stopped, as long as no start was
\* forced to reset and no access to the disk failed.
FabricsMatchSchema ==
  ~disturbed /\ pc \in {"up", "storing"} => fabrics \subseteq {schema}

\* Unless an access to the disk failed, what a running bridge serves is what a
\* restart would find, but for a change the persist future still has to store;
\* a file that an earlier process left half written does not stay.  (README.md:588
\* says the fabrics are only in memory and lost on a restart; its line 597 and the
\* code say otherwise.)
StoredIsServed ==
  ~disturbed /\ pc = "up" => bin # "partial" /\ (~changed => stored = fabrics)

\* A reset throws away a fabric of the schema the process was started with.
ThrowsAwayOwn ==
  pc = "remove" /\ schema \in stored /\ schema \notin stored'

\* Under the same condition a start deletes no fabric of its own schema: a
\* bridge restarted with the devices it had stays commissioned, which README.md:588
\* denies and README.md:495 promises.
ResetsOnlyStale == [][~disturbed => ~ThrowsAwayOwn]_vars

\* The README: after commissioning, the bridge reconnects on restart.  So a
\* start that is not itself forced deletes no fabric of its own schema.
ReconnectsOnRestart == [][~force => ~ThrowsAwayOwn]_vars
=============================================================================
