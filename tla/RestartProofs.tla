---------------------------- MODULE RestartProofs -----------------------------
(***************************************************************************)
(* Theorems about what one process of the bridge leaves to the next: the   *)
(* socket of InstanceLock, for every number of processes, and the files of *)
(* SchemaPersistence, for every set of schemas.                            *)
(***************************************************************************)
EXTENDS InstanceLock, SchemaPersistence, TLAPS

-----------------------------------------------------------------------------
(* The instance lock.                                                        *)

\* Only a process that has the lock, or is giving it back, listens.
OnlyHoldersListen ==
  \A p \in Process : p \in listening => stage[p] \in {"held", "dropping"}

\* What a call of acquire that nobody overlaps may rely on from one system
\* call to the next.
AcquireAlone ==
  ~overlap =>
    /\ \A p, q \in Process : stage[p] \in Acquiring /\ stage[q] \in Acquiring => p = q
    /\ \A p \in Process :
         /\ stage[p] \in {"listen", "held"} => path = p
         /\ stage[p] = "remove" /\ path \in listening => <<p, path>> \notin Access
         /\ stage[p] = "bind" => path = NoFile \/ p \in unremoved

LockIInv == LockTypeInvariant /\ OnlyHoldersListen /\ AcquireAlone

\* At first no process runs.
LEMMA LockInitIInv == LockInit => LockIInv
BY ProcessAssumption
   DEF LockInit, LockIInv, LockTypeInvariant, OnlyHoldersListen, AcquireAlone, Acquiring

\* No system call of any process breaks it.
LEMMA LockNextIInv == LockIInv /\ [LockNext]_lockVars => LockIInv'
<1> SUFFICES ASSUME LockIInv, [LockNext]_lockVars PROVE LockIInv'
  OBVIOUS
<1> USE ProcessAssumption
    DEF LockIInv, LockTypeInvariant, OnlyHoldersListen, AcquireAlone, Acquiring, Goto, historyVars
<1>1. CASE \E p \in Process : Acquire(p)
  BY <1>1 DEF Acquire
<1>2. CASE \E p \in Process : Exists(p)
  BY <1>2 DEF Exists
<1>3. CASE \E p \in Process : Connect(p)
  BY <1>3 DEF Connect
<1>4. ASSUME NEW p \in Process, NEW fails \in BOOLEAN, Remove(p, fails) PROVE LockIInv'
  <2> USE <1>4 DEF Remove, RemoveFile
  <2>1. LockTypeInvariant'
    OBVIOUS
  <2>2. OnlyHoldersListen'
    OBVIOUS
  <2>3. AcquireAlone'
    OBVIOUS
  <2> QED
    BY <2>1, <2>2, <2>3
<1>5. ASSUME NEW p \in Process, Bind(p) PROVE LockIInv'
  <2> USE <1>5 DEF Bind
  <2>1. LockTypeInvariant'
    OBVIOUS
  <2>2. OnlyHoldersListen'
    OBVIOUS
  <2>3. AcquireAlone'
    OBVIOUS
  <2> QED
    BY <2>1, <2>2, <2>3
<1>6. CASE \E p \in Process : Listen(p)
  BY <1>6 DEF Listen
<1>7. ASSUME NEW p \in Process, NEW fails \in BOOLEAN, Drop(p, fails) PROVE LockIInv'
  <2> USE <1>7 DEF Drop, RemoveFile
  <2>1. LockTypeInvariant'
    OBVIOUS
  <2>2. OnlyHoldersListen'
    OBVIOUS
  <2>3. AcquireAlone'
    OBVIOUS
  <2> QED
    BY <2>1, <2>2, <2>3
<1>8. CASE \E p \in Process : Close(p)
  BY <1>8 DEF Close
<1>9. CASE \E p \in Process : Die(p)
  BY <1>9 DEF Die
<1>10. CASE UNCHANGED lockVars
  BY <1>10 DEF lockVars
<1> QED
  BY <1>1, <1>2, <1>3, <1>4, <1>5, <1>6, <1>7, <1>8, <1>9, <1>10 DEF LockNext

\* The inductive invariant holds in every reachable state.
THEOREM LockInvariance == LockSpec => []LockIInv
BY LockInitIInv, LockNextIInv, PTL DEF LockSpec

\* Every variable keeps its type, and a process that holds the lock listens.
THEOREM LockTypeCorrect == LockSpec => []LockTypeInvariant
<1>1. LockIInv => LockTypeInvariant
  BY DEF LockIInv
<1> QED
  BY <1>1, LockInvariance, PTL

\* With any number of processes, starts that do not overlap never leave two
\* instances running, whatever was left behind by those that died.
THEOREM SoleCorrect == LockSpec => []SoleUnlessOverlap
<1>1. LockIInv => SoleUnlessOverlap
  BY DEF LockIInv, AcquireAlone, SoleUnlessOverlap, AtMostOne
<1> QED
  BY <1>1, LockInvariance, PTL

\* And such a start is refused only by an instance that is there, or after it
\* failed to remove the file it had taken for stale.
THEOREM RefusalCorrect == LockSpec => RefusedOnlyIfHeld
<1> DEFINE Refused ==
      \A p \in Process :
        ~overlap /\ stage[p] # "refused" /\ stage'[p] = "refused"
          => \/ \E q \in Process : stage[q] \in {"held", "dropping"}
             \/ p \in unremoved
<1>1. LockIInv /\ [LockNext]_lockVars => [Refused]_lockVars
  <2> SUFFICES ASSUME LockIInv, LockNext, NEW p \in Process,
                      ~overlap, stage[p] # "refused", stage'[p] = "refused"
               PROVE  \/ \E q \in Process : stage[q] \in {"held", "dropping"}
                      \/ p \in unremoved
    OBVIOUS
  <2> USE DEF LockIInv, LockTypeInvariant, Goto
  <2>1. Connect(p) \/ Bind(p)
    BY DEF LockNext, Acquire, Exists, Connect, Remove, Bind, Listen, Drop, Close, Die
  <2>2. CASE Connect(p)
    <3>1. path \in listening
      BY <2>2 DEF Connect
    <3> QED
      BY <3>1 DEF OnlyHoldersListen
  <2>3. CASE Bind(p)
    BY <2>3 DEF Bind, AcquireAlone
  <2> QED
    BY <2>1, <2>2, <2>3
<1> QED
  BY <1>1, LockInvariance, PTL DEF LockSpec, RefusedOnlyIfHeld

-----------------------------------------------------------------------------
(* The files.                                                                *)

\* What one start leaves to the next: the stored hash is the schema of the
\* fabrics in matter.bin.  It is the process's own from the end of its check.
HashTellsSchema ==
  ~disturbed =>
    /\ stored \subseteq {hash}
    /\ pc \in {"load", "up", "storing"} => ~force /\ hash = schema
    /\ pc \in {"open", "write"} => stored = {}
    /\ pc = "remove" => hash # schema
    /\ pc # "down" => ~force

IInv == TypeInvariant /\ HashTellsSchema /\ FabricsMatchSchema /\ StoredIsServed

\* The disk is empty at first.
LEMMA InitIInv == Init => IInv
BY DEF Init, IInv, TypeInvariant, HashTellsSchema, FabricsMatchSchema, StoredIsServed

\* The steps of check_schema_and_maybe_reset keep it.
LEMMA CheckIInv == IInv /\ CheckSchema => IInv'
<1> SUFFICES ASSUME IInv, CheckSchema PROVE IInv'
  OBVIOUS
<1> USE HashAssumption
    DEF IInv, TypeInvariant, HashTellsSchema, FabricsMatchSchema, StoredIsServed,
        binVars, diskVars, DeleteBin
<1>1. CASE \E fails \in BOOLEAN : ForceReset(fails)
  BY <1>1 DEF ForceReset
<1>2. CASE \E fails \in BOOLEAN : RemoveBin(fails)
  BY <1>2 DEF RemoveBin
<1>3. CASE \E fails \in BOOLEAN : OpenHash(fails)
  BY <1>3 DEF OpenHash
<1>4. CASE \E fails \in BOOLEAN : WriteHash(fails)
  BY <1>4 DEF WriteHash
<1>5. CASE HashEqual
  BY <1>5 DEF HashEqual
<1>6. CASE HashChanged
  BY <1>6 DEF HashChanged
<1>7. CASE HashMissing
  BY <1>7 DEF HashMissing
<1> QED
  BY <1>1, <1>2, <1>3, <1>4, <1>5, <1>6, <1>7 DEF CheckSchema

\* So does every other step.
LEMMA NextIInv == IInv /\ [Next]_vars => IInv'
<1> SUFFICES ASSUME IInv, [Next]_vars PROVE IInv'
  OBVIOUS
<1>1. CASE CheckSchema
  BY <1>1, CheckIInv
<1> USE HashAssumption
    DEF IInv, TypeInvariant, HashTellsSchema, FabricsMatchSchema, StoredIsServed,
        binVars, diskVars, DeleteBin
<1>2. CASE \E s \in Schemas, forced \in BOOLEAN : Start(s, forced)
  BY <1>2 DEF Start
<1>3. CASE \E fails \in BOOLEAN : Load(fails)
  <2>1. PICK fails \in BOOLEAN : Load(fails)
    BY <1>3
  <2>2. TypeInvariant'
    BY <2>1 DEF Load
  <2>3. HashTellsSchema'
    BY <2>1 DEF Load
  <2>4. FabricsMatchSchema'
    BY <2>1 DEF Load
  <2>5. StoredIsServed'
    BY <2>1 DEF Load
  <2> QED
    BY <2>2, <2>3, <2>4, <2>5
<1>4. CASE Commission
  BY <1>4 DEF Commission
<1>5. CASE \E s \in Schemas : RemoveFabric(s)
  BY <1>5 DEF RemoveFabric
<1>6. CASE \E fails \in BOOLEAN : BeginStore(fails)
  <2>1. CASE BeginStore(TRUE)
    BY <2>1 DEF BeginStore
  <2>2. CASE BeginStore(FALSE)
    BY <2>2 DEF BeginStore
  <2> QED
    BY <1>6, <2>1, <2>2
<1>7. CASE \E fails \in BOOLEAN : EndStore(fails)
  <2>1. CASE EndStore(TRUE)
    BY <2>1 DEF EndStore
  <2>2. CASE EndStore(FALSE)
    BY <2>2 DEF EndStore
  <2> QED
    BY <1>7, <2>1, <2>2
<1>8. CASE Stop
  BY <1>8 DEF Stop
<1>9. CASE UNCHANGED vars
  BY <1>9 DEF vars, processVars
<1> QED
  BY <1>1, <1>2, <1>3, <1>4, <1>5, <1>6, <1>7, <1>8, <1>9 DEF Next

\* The inductive invariant holds in every reachable state.
THEOREM Invariance == Spec => []IInv
BY InitIInv, NextIInv, PTL DEF Spec

\* The state stays within its types, and only a whole matter.bin holds fabrics.
THEOREM TypeCorrect == Spec => []TypeInvariant
<1>1. IInv => TypeInvariant
  BY DEF IInv
<1> QED
  BY <1>1, Invariance, PTL

\* However many processes were stopped or crashed, at whatever step, no fabric
\* of another schema is served.
THEOREM FabricsCorrect == Spec => []FabricsMatchSchema
<1>1. IInv => FabricsMatchSchema
  BY DEF IInv
<1> QED
  BY <1>1, Invariance, PTL

\* Memory and disk agree, and no half-written file stays.
THEOREM StoredCorrect == Spec => []StoredIsServed
<1>1. IInv => StoredIsServed
  BY DEF IInv
<1> QED
  BY <1>1, Invariance, PTL

\* A restart with the same devices throws no fabric of theirs away.
THEOREM ResetsCorrect == Spec => ResetsOnlyStale
<1>1. IInv /\ ~disturbed => ~ThrowsAwayOwn
  BY DEF IInv, HashTellsSchema, ThrowsAwayOwn
<1>2. IInv /\ [Next]_vars => [~disturbed => ~ThrowsAwayOwn]_vars
  BY <1>1
<1> QED
  BY <1>2, Invariance, PTL DEF Spec, ResetsOnlyStale
=============================================================================
