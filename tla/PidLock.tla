------------------------------ MODULE PidLock ------------------------------
(***************************************************************************)
(* The pid file lock: daemond_pid_lock and daemond_pid_openlocked, run by  *)
(* any number of processes at once, over a directory in which anyone may   *)
(* remove the file.                                                        *)
(*                                                                         *)
(* A process id stands for the process that has it, for the open file      *)
(* description its daemond_pid uses, and for the number that it writes to  *)
(* the file.  What the file holds is the number that fscanf("%d") finds at *)
(* its start.  flock belongs to the description, so it outlives the        *)
(* process for as long as a child that inherited the descriptor does.      *)
(***************************************************************************)
EXTENDS Naturals, FiniteSets

CONSTANTS
  Procs,        \* processes that use the pid file
  LeftBehind,   \* ids that an earlier run may have left in the file; it has ended,
                \* and its id may be free, or belong to one of Procs or Strangers now
  Strangers,    \* those that belong to unrelated processes, which stay alive
  Inodes,       \* enough inodes for all that can be in use at once
  NoInode,      \* neither a file nor a descriptor
  NoPid,        \* no number: an empty file, pid->oldpid = 0
  MaxFailures,  \* tries of open in a row, 5 in the code
  MaxRecurse,   \* retries of daemond_pid_openlocked, 5 in the code
  MaxHeirs,     \* children that inherit a descriptor, at a time
  Crashes,      \* whether processes end
  Unlinks,      \* whether the pid file may be removed
  OpenErrors    \* whether stat and open may fail for another reason than a race

ASSUME PidLockAssumption ==
  /\ NoInode \notin Inodes
  /\ NoPid \notin Procs \cup LeftBehind
  /\ Strangers \subseteq LeftBehind \ Procs
  /\ MaxFailures \in Nat \ {0}
  /\ MaxRecurse \in Nat
  /\ MaxHeirs \in Nat
  /\ {Crashes, Unlinks, OpenErrors} \subseteq BOOLEAN

VARIABLES
  path,      \* the inode that the name pid->pidfile leads to
  content,   \* the number in each inode
  pc,        \* where each process is
  reading,   \* the inode behind the local f of daemond_pid_lock, until it is read
  oldpid,    \* the local oldpid, pid->oldpid once it is known to be alive
  fd,        \* the local fd, pid->fd once it is locked
  flocked,   \* whether the description behind fd holds the flock
  failures,  \* the local of daemond_pid_openlocked
  recurse,   \* its argument
  heirs      \* children that have inherited the descriptor

fileVars == <<path, content>>
procVars == <<pc, reading, oldpid, fd, flocked, failures, recurse, heirs>>
vars == <<fileVars, procVars>>

\* "idle": there is no such process.  "gone": it has ended, an heir has not.
Trying == {"stat", "fopen", "scan", "probe", "exists", "open", "create",
           "flock", "verify"}
Locked == {"write", "held"}
Places == Trying \cup Locked \cup {"idle", "refused", "gone"}

Numbers == Procs \cup LeftBehind \cup {NoPid}

TypeOK ==
  /\ path \in Inodes \cup {NoInode}
  /\ content \in [Inodes -> Numbers]
  /\ pc \in [Procs -> Places]
  /\ reading \in [Procs -> Inodes \cup {NoInode}]
  /\ oldpid \in [Procs -> Numbers]
  /\ fd \in [Procs -> Inodes \cup {NoInode}]
  /\ flocked \in [Procs -> BOOLEAN]
  /\ failures \in [Procs -> 0 .. MaxFailures]
  /\ recurse \in [Procs -> 0 .. MaxRecurse]
  /\ heirs \in [Procs -> 0 .. MaxHeirs]

\* kill(q, 0) = 0
Alive(q) == q \in Strangers \/ (q \in Procs /\ pc[q] \notin {"idle", "gone"})

\* The file may be there, empty or with any number in it, and nobody has it open.
Init ==
  /\ path \in Inodes \cup {NoInode}
  /\ \E n \in LeftBehind \cup {NoPid} :
       content = [i \in Inodes |-> IF i = path THEN n ELSE NoPid]
  /\ pc = [p \in Procs |-> "idle"]
  /\ reading = [p \in Procs |-> NoInode]
  /\ oldpid = [p \in Procs |-> NoPid]
  /\ fd = [p \in Procs |-> NoInode]
  /\ flocked = [p \in Procs |-> FALSE]
  /\ failures = [p \in Procs |-> 0]
  /\ recurse = [p \in Procs |-> 0]
  /\ heirs = [p \in Procs |-> 0]

Goto(p, place) == pc' = [pc EXCEPT ![p] = place]

-----------------------------------------------------------------------------
(* The process goes away and its descriptors with it, except that an heir  *)
(* keeps the description of the lock.  This is also what die() does.       *)

Leave(p) ==
  /\ reading' = [reading EXCEPT ![p] = NoInode]
  /\ oldpid' = [oldpid EXCEPT ![p] = NoPid]
  /\ failures' = [failures EXCEPT ![p] = 0]
  /\ recurse' = [recurse EXCEPT ![p] = 0]
  /\ IF heirs[p] > 0
       THEN Goto(p, "gone") /\ UNCHANGED <<fd, flocked>>
       ELSE /\ Goto(p, "idle")
            /\ fd' = [fd EXCEPT ![p] = NoInode]
            /\ flocked' = [flocked EXCEPT ![p] = FALSE]
  /\ UNCHANGED <<fileVars, heirs>>

-----------------------------------------------------------------------------
(* daemond_pid_lock: is there a file, and does it name a living process?   *)

Start(p) ==
  /\ pc[p] = "idle"
  /\ Goto(p, "stat")
  /\ UNCHANGED <<fileVars, reading, oldpid, fd, flocked, failures, recurse, heirs>>

Stat(p) ==
  /\ pc[p] = "stat"
  /\ Goto(p, IF path = NoInode THEN "exists" ELSE "fopen")
  /\ UNCHANGED <<fileVars, reading, oldpid, fd, flocked, failures, recurse, heirs>>

\* Any error but ENOENT ends the call, as if the lock were somebody's.
StatFails(p) ==
  /\ OpenErrors
  /\ pc[p] = "stat"
  /\ Goto(p, "refused")
  /\ UNCHANGED <<fileVars, reading, oldpid, fd, flocked, failures, recurse, heirs>>

Fopen(p) ==
  /\ pc[p] = "fopen"
  /\ path # NoInode
  /\ reading' = [reading EXCEPT ![p] = path]
  /\ Goto(p, "scan")
  /\ UNCHANGED <<fileVars, oldpid, fd, flocked, failures, recurse, heirs>>

\* The file has been removed since stat, or cannot be read: die().
FopenDies(p) == pc[p] = "fopen" /\ (path = NoInode \/ OpenErrors) /\ Leave(p)

\* A plausible slip: an empty file is taken for somebody's.
ScanCautious(p) ==
  /\ pc[p] = "scan"
  /\ oldpid' = [oldpid EXCEPT ![p] = content[reading[p]]]
  /\ reading' = [reading EXCEPT ![p] = NoInode]
  /\ Goto(p, IF content[reading[p]] = NoPid THEN "refused" ELSE "probe")
  /\ UNCHANGED <<fileVars, fd, flocked, failures, recurse, heirs>>

Scan(p) ==
  /\ pc[p] = "scan"
  /\ oldpid' = [oldpid EXCEPT ![p] = content[reading[p]]]
  /\ reading' = [reading EXCEPT ![p] = NoInode]
  /\ Goto(p, IF content[reading[p]] = NoPid THEN "exists" ELSE "probe")
  /\ UNCHANGED <<fileVars, fd, flocked, failures, recurse, heirs>>

Probe(p) ==
  /\ pc[p] = "probe"
  /\ IF Alive(oldpid[p])
       THEN Goto(p, "refused") /\ UNCHANGED oldpid
       ELSE Goto(p, "exists") /\ oldpid' = [oldpid EXCEPT ![p] = NoPid]
  /\ UNCHANGED <<fileVars, reading, fd, flocked, failures, recurse, heirs>>

-----------------------------------------------------------------------------
(* daemond_pid_openlocked.                                                 *)

FileExists(p) ==
  /\ pc[p] = "exists"
  /\ Goto(p, IF path = NoInode THEN "create" ELSE "open")
  /\ UNCHANGED <<fileVars, reading, oldpid, fd, flocked, failures, recurse, heirs>>

\* A plausible slip: the tries are not counted.
RetryForever(p) ==
  /\ Goto(p, "exists")
  /\ UNCHANGED <<fileVars, reading, oldpid, fd, flocked, failures, recurse, heirs>>

\* A plausible slip: one try too many, at any number of tries.
RetryOnceMore(p) ==
  /\ failures' = [failures EXCEPT ![p] = @ + 1]
  /\ Goto(p, IF failures[p] < MaxFailures THEN "exists" ELSE "refused")
  /\ UNCHANGED <<fileVars, reading, oldpid, fd, flocked, recurse, heirs>>

\* open found the file gone, or created by another: once more from the top.
Retry(p) ==
  /\ failures' = [failures EXCEPT ![p] = @ + 1]
  /\ Goto(p, IF failures[p] + 1 < MaxFailures THEN "exists" ELSE "refused")
  /\ UNCHANGED <<fileVars, reading, oldpid, fd, flocked, recurse, heirs>>

Opened(p, i) ==
  /\ fd' = [fd EXCEPT ![p] = i]
  /\ Goto(p, "flock")
  /\ UNCHANGED <<reading, oldpid, flocked, failures, recurse, heirs>>

Open(p) ==
  /\ pc[p] = "open"
  /\ IF path = NoInode THEN Retry(p) ELSE Opened(p, path) /\ UNCHANGED fileVars

InUse == {path} \cup {fd[p] : p \in Procs} \cup {reading[p] : p \in Procs}

Create(p) ==
  /\ pc[p] = "create"
  /\ IF path # NoInode
       THEN Retry(p)
       ELSE \E i \in Inodes \ InUse :
              /\ Opened(p, i)
              /\ path' = i
              /\ content' = [content EXCEPT ![i] = NoPid]

\* flock(-1) fails after an open that failed for good.
OpenFails(p) ==
  /\ OpenErrors
  /\ pc[p] \in {"open", "create"}
  /\ Goto(p, "refused")
  /\ UNCHANGED <<fileVars, reading, oldpid, fd, flocked, failures, recurse, heirs>>

\* Some other description holds the flock of inode i.
Taken(p, i) == \E q \in Procs \ {p} : flocked[q] /\ fd[q] = i

\* A plausible slip: the result of flock is not looked at.
FlockIgnored(p) ==
  /\ pc[p] = "flock"
  /\ flocked' = [flocked EXCEPT ![p] = ~Taken(p, fd[p])]
  /\ Goto(p, "verify")
  /\ UNCHANGED <<fileVars, reading, oldpid, fd, failures, recurse, heirs>>

Flock(p) ==
  /\ pc[p] = "flock"
  /\ IF Taken(p, fd[p])
       THEN /\ fd' = [fd EXCEPT ![p] = NoInode]
            /\ Goto(p, "refused")
            /\ UNCHANGED flocked
       ELSE /\ flocked' = [flocked EXCEPT ![p] = TRUE]
            /\ Goto(p, "verify")
            /\ UNCHANGED fd
  /\ UNCHANGED <<fileVars, reading, oldpid, failures, recurse, heirs>>

\* A plausible slip: the locked file is not compared with the one of that name.
VerifyNothing(p) ==
  /\ pc[p] = "verify"
  /\ Goto(p, "write")
  /\ UNCHANGED <<fileVars, reading, oldpid, fd, flocked, failures, recurse, heirs>>

\* Is the locked inode still the one the name leads to?
Verify(p) ==
  /\ pc[p] = "verify"
  /\ path = fd[p]
  /\ Goto(p, "write")
  /\ UNCHANGED <<fileVars, reading, oldpid, fd, flocked, failures, recurse, heirs>>

\* It is not: close, which unlocks, and recurse.
Reopen(p) ==
  /\ pc[p] = "verify"
  /\ path # fd[p]
  /\ recurse[p] < MaxRecurse
  /\ fd' = [fd EXCEPT ![p] = NoInode]
  /\ flocked' = [flocked EXCEPT ![p] = FALSE]
  /\ failures' = [failures EXCEPT ![p] = 0]
  /\ recurse' = [recurse EXCEPT ![p] = @ + 1]
  /\ Goto(p, "exists")
  /\ UNCHANGED <<fileVars, reading, oldpid, heirs>>

\* "Fall into recursion during lock tries": die().
RecursionDies(p) ==
  /\ pc[p] = "verify"
  /\ path # fd[p]
  /\ recurse[p] = MaxRecurse
  /\ Leave(p)

\* daemond_pid_write.
Write(p) ==
  /\ pc[p] = "write"
  /\ content' = [content EXCEPT ![fd[p]] = p]
  /\ Goto(p, "held")
  /\ UNCHANGED <<path, reading, oldpid, fd, flocked, failures, recurse, heirs>>

\* A second call of daemond_pid_lock, after one that returned 0.
Again(p) ==
  /\ pc[p] = "refused"
  /\ Goto(p, "stat")
  /\ oldpid' = [oldpid EXCEPT ![p] = NoPid]
  /\ failures' = [failures EXCEPT ![p] = 0]
  /\ recurse' = [recurse EXCEPT ![p] = 0]
  /\ UNCHANGED <<fileVars, reading, fd, flocked, heirs>>

Lock(p) ==
  \/ Stat(p) \/ StatFails(p) \/ Fopen(p) \/ FopenDies(p) \/ Scan(p) \/ Probe(p)
  \/ FileExists(p) \/ Open(p) \/ Create(p) \/ OpenFails(p)
  \/ Flock(p) \/ Verify(p) \/ Reopen(p) \/ RecursionDies(p) \/ Write(p)

-----------------------------------------------------------------------------
(* The rest of the world.                                                  *)

End(p) == Crashes /\ pc[p] \notin {"idle", "gone"} /\ Leave(p)

\* The holder forks a child, which inherits the descriptor.
Fork(p) ==
  /\ pc[p] = "held"
  /\ heirs[p] < MaxHeirs
  /\ heirs' = [heirs EXCEPT ![p] = @ + 1]
  /\ UNCHANGED <<fileVars, pc, reading, oldpid, fd, flocked, failures, recurse>>

\* The last heir of a process that is gone takes the description with it.
HeirEnds(p) ==
  /\ heirs[p] > 0
  /\ heirs' = [heirs EXCEPT ![p] = @ - 1]
  /\ IF pc[p] = "gone" /\ heirs[p] = 1
       THEN /\ Goto(p, "idle")
            /\ fd' = [fd EXCEPT ![p] = NoInode]
            /\ flocked' = [flocked EXCEPT ![p] = FALSE]
       ELSE UNCHANGED <<pc, fd, flocked>>
  /\ UNCHANGED <<fileVars, reading, oldpid, failures, recurse>>

Unlink ==
  /\ Unlinks
  /\ path # NoInode
  /\ path' = NoInode
  /\ UNCHANGED <<content, procVars>>

Next ==
  \/ \E p \in Procs : Start(p) \/ Lock(p) \/ End(p) \/ Fork(p) \/ HeirEnds(p)
  \/ Unlink

\* The scheduler runs every process; nothing makes one start or end.
Fairness == \A p \in Procs : WF_vars(Lock(p))

Spec == Init /\ [][Next]_vars /\ Fairness

-----------------------------------------------------------------------------
\* The pid file lock is a revocable lock: dev/ino are compared while the flock is
\* held, so a lock is granted only on the file that bears the name, and nobody
\* is granted one while another holds, or its children hold, that file's flock.
Holders == {p \in Procs : pc[p] \in Locked \cup {"gone"}}

Mutex == INSTANCE PidMutex WITH
  holders <- Holders,
  revoked <- {p \in Holders : fd[p] # path}

LockSpec == Mutex!Spec

-----------------------------------------------------------------------------
(* The inductive invariant (see PidLockProofs): TypeOK, FileNamesHolder and *)
(* these.                                                                   *)

Flocking == {"verify", "gone"} \cup Locked

\* Which local variables mean something where.
Described(p) ==
  /\ fd[p] \in Inodes <=> pc[p] \in Flocking \cup {"flock"}
  /\ flocked[p] <=> pc[p] \in Flocking
  /\ pc[p] = "scan" => reading[p] \in Inodes
  /\ heirs[p] > 0 => pc[p] \in {"held", "gone"}
  /\ pc[p] \in Trying => failures[p] < MaxFailures
  /\ pc[p] \in {"idle", "gone"} => failures[p] = 0

Descriptors == \A p \in Procs : Described(p)

\* flock is granted to one description of an inode.
OneFlock == \A p, q \in Procs : flocked[p] /\ flocked[q] /\ fd[p] = fd[q] => p = q

-----------------------------------------------------------------------------

\* The file of a lock that is still good names the process that holds it, or held
\* it last (its children still do).
FileNamesHolder ==
  \A p \in Procs : pc[p] \in {"held", "gone"} /\ fd[p] = path => content[path] = p

\* daemond_pid_lock returns, even if the file is removed and created all the time.
LockReturns == \A p \in Procs : pc[p] \in Trying ~> pc[p] \notin Trying
=============================================================================
