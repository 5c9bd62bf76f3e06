---------------------------- MODULE InstanceLock ----------------------------
(***************************************************************************)
(* The single instance lock: a Unix socket at a path every process of the  *)
(* bridge uses.  acquire looks whether the file exists, tries to connect,  *)
(* removes a file nobody listens on, then binds and listens; dropping the  *)
(* lock removes the file.  Each system call is a step of its own, and a    *)
(* process may die between any two: its listener closes, its file stays.   *)
(* The processes may be of several users, who share /tmp; a removal may    *)
(* fail, which the code ignores.                                           *)
(***************************************************************************)
CONSTANTS
  Process,
  NoFile,   \* there is nothing at the path
  Access    \* <<p, q>>: p may connect to a socket that q bound, and remove it

ASSUME ProcessAssumption == NoFile \notin Process

VARIABLES
  path,       \* the process that bound the file at socket_path
  listening,  \* processes whose listener is open
  stage,      \* where each process is in acquire or after it
  overlap,    \* some process called acquire while another was in it
  unremoved   \* the processes whose remove_file in acquire failed

historyVars == <<overlap, unremoved>>
lockVars == <<path, listening, stage, historyVars>>

Acquiring == {"exists", "connect", "remove", "bind", "listen"}

LockTypeInvariant ==
  /\ path \in Process \cup {NoFile}
  /\ listening \subseteq Process
  /\ stage \in [Process -> Acquiring \cup {"down", "refused", "held", "dropping"}]
  /\ overlap \in BOOLEAN
  /\ unremoved \subseteq Process
  /\ \A p \in Process : stage[p] = "held" => p \in listening

LockInit ==
  /\ path = NoFile
  /\ listening = {}
  /\ stage = [p \in Process |-> "down"]
  /\ overlap = FALSE /\ unremoved = {}

Goto(p, next) == stage' = [stage EXCEPT ![p] = next]
-----------------------------------------------------------------------------
Acquire(p) ==
  /\ stage[p] = "down"
  /\ Goto(p, "exists")
  /\ overlap' = (overlap \/ \E q \in Process : stage[q] \in Acquiring)
  /\ unremoved' = unremoved \ {p}
  /\ UNCHANGED <<path, listening>>

\* path.exists()
Exists(p) ==
  /\ stage[p] = "exists"
  /\ Goto(p, IF path = NoFile THEN "bind" ELSE "connect")
  /\ UNCHANGED <<path, listening, historyVars>>

\* Mutant: a file that exists is taken for stale.
ConnectNever(p) ==
  /\ stage[p] = "connect"
  /\ Goto(p, "remove")
  /\ UNCHANGED <<path, listening, historyVars>>

\* UnixStream::connect: it succeeds when somebody listens whose socket p has
\* access to, and p is refused the lock; any failure is taken for a stale file.
Connect(p) ==
  /\ stage[p] = "connect"
  /\ Goto(p, IF path \in listening /\ <<p, path>> \in Access THEN "refused" ELSE "remove")
  /\ UNCHANGED <<path, listening, historyVars>>

\* remove_file, whosever file is there by now.  A user's socket in /tmp can only
\* be removed by that user; and any removal may fail.
RemoveFile(p, fails) ==
  /\ path \in Process /\ <<p, path>> \notin Access => fails
  /\ path' = IF fails THEN path ELSE NoFile

\* Mutant: the stale file is left where it is.
RemoveNothing(p, fails) ==
  /\ stage[p] = "remove"
  /\ Goto(p, "bind")
  /\ UNCHANGED <<path, listening, historyVars>>

\* Whether the removal fails is not looked at.
Remove(p, fails) ==
  /\ stage[p] = "remove"
  /\ RemoveFile(p, fails)
  /\ unremoved' = IF fails THEN unremoved \cup {p} ELSE unremoved
  /\ Goto(p, "bind")
  /\ UNCHANGED <<listening, overlap>>

\* UnixListener::bind creates the file; with a file in the way it fails with
\* AddrInUse, and the process is refused the lock.  After any other error it
\* exits, as it does in Die.
Bind(p) ==
  /\ stage[p] = "bind"
  /\ IF path = NoFile
       THEN path' = p /\ Goto(p, "listen")
       ELSE path' = path /\ Goto(p, "refused")
  /\ UNCHANGED <<listening, historyVars>>

\* Mutant: the process goes on with a bound socket nobody can connect to.
ListenNot(p) ==
  /\ stage[p] = "listen"
  /\ Goto(p, "held")
  /\ UNCHANGED <<path, listening, historyVars>>

\* and then listens.
Listen(p) ==
  /\ stage[p] = "listen"
  /\ listening' = listening \cup {p}
  /\ Goto(p, "held")
  /\ UNCHANGED <<path, historyVars>>

\* Drop for InstanceLock: remove_file, then the listener is closed.
Drop(p, fails) ==
  /\ stage[p] = "held"
  /\ RemoveFile(p, fails)
  /\ Goto(p, "dropping")
  /\ UNCHANGED <<listening, historyVars>>

Close(p) ==
  /\ stage[p] = "dropping"
  /\ listening' = listening \ {p}
  /\ Goto(p, "down")
  /\ UNCHANGED <<path, historyVars>>

\* The process dies, or exits because it was refused; the kernel closes its
\* listener.
Die(p) ==
  /\ stage[p] # "down"
  /\ listening' = listening \ {p}
  /\ Goto(p, "down")
  /\ UNCHANGED <<path, historyVars>>
-----------------------------------------------------------------------------
LockNext == \E p \in Process :
  \/ Acquire(p) \/ Exists(p) \/ Connect(p) \/ Bind(p) \/ Listen(p)
  \/ \E fails \in BOOLEAN : Remove(p, fails) \/ Drop(p, fails)
  \/ Close(p)
  \/ Die(p)

LockSpec == LockInit /\ [][LockNext]_lockVars
-----------------------------------------------------------------------------
AtMostOne == \A p, q \in Process : stage[p] = "held" /\ stage[q] = "held" => p = q

\* As long as no two calls of acquire overlapped, at most one instance runs,
\* wherever earlier ones died and whatever files they left.
SoleUnlessOverlap == ~overlap => AtMostOne

\* And a start is refused only while another instance holds the lock: a file
\* left behind locks out only a start that could not remove it.
RefusedOnlyIfHeld ==
  [][ \A p \in Process :
        ~overlap /\ stage[p] # "refused" /\ stage'[p] = "refused"
          => \/ \E q \in Process : stage[q] \in {"held", "dropping"}
             \/ p \in unremoved ]_lockVars

\* instance_lock.rs: the lock prevents multiple instances from running
\* simultaneously, and acquire returns Ok only to the only instance running.
SoleInstance == AtMostOne
=============================================================================
