--------------------------- MODULE PidLockProofs ---------------------------
(***************************************************************************)
(* The pid file lock keeps its promise for any number of processes, inodes *)
(* and retries, with crashes, removals and heirs at any time: PidLock      *)
(* implements PidMutex, and a good lock's file names its holder.           *)
(***************************************************************************)
EXTENDS PidRace, Integers, TLAPS

\* The inductive invariant.
IInv == TypeOK /\ Descriptors /\ OneFlock /\ FileNamesHolder

\* What the assumption says of each constant.
LEMMA Constants ==
  /\ NoInode \notin Inodes
  /\ NoPid \in Numbers /\ Procs \subseteq Numbers /\ LeftBehind \subseteq Numbers
  /\ MaxFailures \in Nat /\ MaxFailures > 0
  /\ MaxRecurse \in Nat
  /\ MaxHeirs \in Nat
BY PidLockAssumption DEF PidLockAssumption, Numbers

\* Nobody has the file open at first.
LEMMA InitKeeps == Init => IInv
<1> SUFFICES ASSUME Init PROVE IInv
  OBVIOUS
<1>1. TypeOK
  BY Constants DEF Init, TypeOK, Places
<1>2. Descriptors
  BY Constants DEF Init, Descriptors, Described, Flocking, Locked, Trying
<1>3. OneFlock /\ FileNamesHolder
  BY DEF Init, OneFlock, FileNamesHolder
<1> QED
  BY <1>1, <1>2, <1>3 DEF IInv

\* The process goes away from anywhere but after its end.
LEMMA LeaveKeeps ==
  ASSUME IInv, NEW p \in Procs, pc[p] \notin {"idle", "gone"}, Leave(p)
  PROVE  IInv'
<1>1. TypeOK'
  <2>1. path' \in Inodes \cup {NoInode} /\ content' \in [Inodes -> Numbers]
    BY DEF IInv, TypeOK, Leave, fileVars
  <2>2. pc' \in [Procs -> Places]
    BY DEF IInv, TypeOK, Leave, Goto, Places
  <2>3. reading' \in [Procs -> Inodes \cup {NoInode}] /\ oldpid' \in [Procs -> Numbers]
    BY Constants DEF IInv, TypeOK, Leave
  <2>4. fd' \in [Procs -> Inodes \cup {NoInode}] /\ flocked' \in [Procs -> BOOLEAN]
    BY DEF IInv, TypeOK, Leave
  <2>5. failures' \in [Procs -> 0 .. MaxFailures]
    BY Constants DEF IInv, TypeOK, Leave
  <2>6. recurse' \in [Procs -> 0 .. MaxRecurse] /\ heirs' \in [Procs -> 0 .. MaxHeirs]
    BY Constants DEF IInv, TypeOK, Leave
  <2> QED
    BY <2>1, <2>2, <2>3, <2>4, <2>5, <2>6 DEF TypeOK
<1>2. Descriptors'
  <2> SUFFICES ASSUME NEW q \in Procs PROVE Described(q)'
    BY DEF Descriptors
  <2>1. CASE q # p
    BY <2>1 DEF IInv, TypeOK, Descriptors, Described, Leave, Goto, fileVars
  <2>2. CASE q = p /\ heirs[p] > 0
    BY <2>2, Constants
       DEF IInv, TypeOK, Descriptors, Described, Leave, Goto, Flocking, Locked, Trying, fileVars
  <2>3. CASE q = p /\ ~(heirs[p] > 0)
    BY <2>3, Constants
       DEF IInv, TypeOK, Descriptors, Described, Leave, Goto, Flocking, Locked, Trying, fileVars
  <2> QED
    BY <2>1, <2>2, <2>3
<1>3. OneFlock'
  BY DEF IInv, TypeOK, OneFlock, Leave, Goto
<1>4. FileNamesHolder'
  BY DEF IInv, TypeOK, Descriptors, Described, FileNamesHolder, Leave, Goto, fileVars
<1> QED
  BY <1>1, <1>2, <1>3, <1>4 DEF IInv

\* daemond_pid_lock before daemond_pid_openlocked.
LEMMA LookKeeps ==
  ASSUME IInv, NEW p \in Procs, Start(p) \/ Stat(p) \/ Fopen(p) \/ Scan(p) \/ Probe(p)
  PROVE  IInv'
<1> USE DEF Start, Stat, Fopen, Scan, Probe, Goto, fileVars
<1>1. TypeOK'
  BY Constants DEF IInv, TypeOK, Descriptors, Described, Places, Trying, Locked
<1>2. Descriptors'
  <2> SUFFICES ASSUME NEW q \in Procs PROVE Described(q)'
    BY DEF Descriptors
  <2>1. CASE q # p
    BY <2>1 DEF IInv, TypeOK, Descriptors, Described
  <2>2. CASE q = p
    BY <2>2, Constants DEF IInv, TypeOK, Descriptors, Described, Flocking, Locked, Trying
  <2> QED
    BY <2>1, <2>2
<1>3. OneFlock'
  BY DEF IInv, TypeOK, OneFlock
<1>4. FileNamesHolder'
  BY DEF IInv, TypeOK, Descriptors, Described, Flocking, Locked, OneFlock, FileNamesHolder
<1> QED
  BY <1>1, <1>2, <1>3, <1>4 DEF IInv

\* Asking for the lock once more, as restart does.
LEMMA AgainKeeps ==
  ASSUME IInv, NEW p \in Procs, Again(p)
  PROVE  IInv'
<1> USE Constants DEF Again, Goto, fileVars
<1>1. TypeOK'
  BY DEF IInv, TypeOK, Places, Trying, Locked
<1>2. Descriptors'
  <2> SUFFICES ASSUME NEW q \in Procs PROVE Described(q)'
    BY DEF Descriptors
  <2> QED
    BY DEF IInv, TypeOK, Descriptors, Described, Flocking, Locked, Trying
<1>3. OneFlock' /\ FileNamesHolder'
  BY DEF IInv, TypeOK, OneFlock, FileNamesHolder
<1> QED
  BY <1>1, <1>2, <1>3 DEF IInv

\* The tries to open or create the file.
LEMMA TryKeeps ==
  ASSUME IInv, NEW p \in Procs,
         FileExists(p) \/ StatFails(p) \/ OpenFails(p) \/ (pc[p] \in {"open", "create"} /\ Retry(p))
  PROVE  IInv'
<1> USE DEF FileExists, StatFails, OpenFails, Retry, Goto, fileVars
<1>1. TypeOK'
  BY Constants DEF IInv, TypeOK, Descriptors, Described, Places, Trying, Locked
<1>2. Descriptors'
  <2> SUFFICES ASSUME NEW q \in Procs PROVE Described(q)'
    BY DEF Descriptors
  <2>1. CASE q # p
    BY <2>1 DEF IInv, TypeOK, Descriptors, Described
  <2>2. CASE q = p
    BY <2>2, Constants DEF IInv, TypeOK, Descriptors, Described, Flocking, Locked, Trying
  <2> QED
    BY <2>1, <2>2
<1>3. OneFlock'
  BY DEF IInv, TypeOK, OneFlock
<1>4. FileNamesHolder'
  BY DEF IInv, TypeOK, Descriptors, Described, Flocking, Locked, OneFlock, FileNamesHolder
<1> QED
  BY <1>1, <1>2, <1>3, <1>4 DEF IInv

\* A description of the file, new or old.
LEMMA OpenKeeps ==
  ASSUME IInv, NEW p \in Procs,
         \/ pc[p] = "open" /\ path # NoInode /\ Opened(p, path) /\ UNCHANGED fileVars
         \/ Create(p) /\ path = NoInode
  PROVE  IInv'
<1> USE DEF Create, Opened, Goto, InUse, fileVars
<1>1. TypeOK'
  BY Constants DEF IInv, TypeOK, Descriptors, Described, Places, Trying, Locked
<1>2. Descriptors'
  <2> SUFFICES ASSUME NEW q \in Procs PROVE Described(q)'
    BY DEF Descriptors
  <2>1. CASE q # p
    BY <2>1 DEF IInv, TypeOK, Descriptors, Described
  <2>2. CASE q = p
    BY <2>2, Constants DEF IInv, TypeOK, Descriptors, Described, Flocking, Locked, Trying
  <2> QED
    BY <2>1, <2>2
<1>3. OneFlock'
  BY DEF IInv, TypeOK, Descriptors, Described, Flocking, Locked, OneFlock
<1>4. FileNamesHolder'
  BY DEF IInv, TypeOK, Descriptors, Described, Flocking, Locked, OneFlock, FileNamesHolder
<1> QED
  BY <1>1, <1>2, <1>3, <1>4 DEF IInv

\* The flock is asked for.
LEMMA FlockKeeps ==
  ASSUME IInv, NEW p \in Procs, Flock(p)
  PROVE  IInv'
<1> USE DEF Flock, Taken, Goto, fileVars
<1>1. TypeOK'
  BY Constants DEF IInv, TypeOK, Descriptors, Described, Places, Trying, Locked
<1>2. Descriptors'
  <2> SUFFICES ASSUME NEW q \in Procs PROVE Described(q)'
    BY DEF Descriptors
  <2>1. CASE q # p
    BY <2>1 DEF IInv, TypeOK, Descriptors, Described
  <2>2. CASE q = p
    BY <2>2, Constants DEF IInv, TypeOK, Descriptors, Described, Flocking, Locked, Trying
  <2> QED
    BY <2>1, <2>2
<1>3. OneFlock'
  BY DEF IInv, TypeOK, OneFlock
<1>4. FileNamesHolder'
  BY DEF IInv, TypeOK, Descriptors, Described, Flocking, Locked, OneFlock, FileNamesHolder
<1> QED
  BY <1>1, <1>2, <1>3, <1>4 DEF IInv

\* The name is looked at once more.
LEMMA VerifyKeeps ==
  ASSUME IInv, NEW p \in Procs, Verify(p) \/ Reopen(p)
  PROVE  IInv'
<1> USE DEF Verify, Reopen, Goto, fileVars
<1>1. TypeOK'
  <2>1. recurse' \in [Procs -> 0 .. MaxRecurse]
    <3>1. CASE Verify(p)
      BY <3>1 DEF IInv, TypeOK
    <3>2. CASE Reopen(p)
      BY <3>2, Constants DEF IInv, TypeOK
    <3> QED
      BY <3>1, <3>2
  <2>2. failures' \in [Procs -> 0 .. MaxFailures] /\ heirs' \in [Procs -> 0 .. MaxHeirs]
    BY Constants DEF IInv, TypeOK
  <2>3. pc' \in [Procs -> Places] /\ flocked' \in [Procs -> BOOLEAN]
    BY DEF IInv, TypeOK, Places, Trying, Locked
  <2> QED
    BY <2>1, <2>2, <2>3 DEF IInv, TypeOK
<1>2. Descriptors'
  <2> SUFFICES ASSUME NEW q \in Procs PROVE Described(q)'
    BY DEF Descriptors
  <2>1. CASE q # p
    BY <2>1 DEF IInv, TypeOK, Descriptors, Described
  <2>2. CASE q = p
    BY <2>2, Constants DEF IInv, TypeOK, Descriptors, Described, Flocking, Locked, Trying
  <2> QED
    BY <2>1, <2>2
<1>3. OneFlock'
  BY DEF IInv, TypeOK, OneFlock
<1>4. FileNamesHolder'
  BY DEF IInv, TypeOK, Descriptors, Described, Flocking, Locked, OneFlock, FileNamesHolder
<1> QED
  BY <1>1, <1>2, <1>3, <1>4 DEF IInv

\* daemond_pid_write.
LEMMA WriteKeeps ==
  ASSUME IInv, NEW p \in Procs, Write(p)
  PROVE  IInv'
<1> USE DEF Write, Goto
<1>1. TypeOK'
  BY Constants DEF IInv, TypeOK, Descriptors, Described, Places, Trying, Locked
<1>2. Descriptors'
  <2> SUFFICES ASSUME NEW q \in Procs PROVE Described(q)'
    BY DEF Descriptors
  <2>1. CASE q # p
    BY <2>1 DEF IInv, TypeOK, Descriptors, Described
  <2>2. CASE q = p
    BY <2>2, Constants DEF IInv, TypeOK, Descriptors, Described, Flocking, Locked, Trying
  <2> QED
    BY <2>1, <2>2
<1>3. OneFlock'
  BY DEF IInv, TypeOK, OneFlock
<1>4. FileNamesHolder'
  BY DEF IInv, TypeOK, Descriptors, Described, Flocking, Locked, OneFlock, FileNamesHolder
<1> QED
  BY <1>1, <1>2, <1>3, <1>4 DEF IInv

\* Children come and go.
LEMMA HeirsKeep ==
  ASSUME IInv, NEW p \in Procs, Fork(p) \/ HeirEnds(p)
  PROVE  IInv'
<1> USE DEF Fork, HeirEnds, Goto, fileVars
<1>1. TypeOK'
  <2>1. heirs' \in [Procs -> 0 .. MaxHeirs]
    <3>1. CASE Fork(p)
      BY <3>1, Constants DEF IInv, TypeOK
    <3>2. CASE HeirEnds(p)
      BY <3>2, Constants DEF IInv, TypeOK
    <3> QED
      BY <3>1, <3>2
  <2>2. pc' \in [Procs -> Places]
    BY DEF IInv, TypeOK, Places
  <2>3. fd' \in [Procs -> Inodes \cup {NoInode}] /\ flocked' \in [Procs -> BOOLEAN]
    BY DEF IInv, TypeOK
  <2> QED
    BY <2>1, <2>2, <2>3 DEF IInv, TypeOK
<1>2. Descriptors'
  <2> SUFFICES ASSUME NEW q \in Procs PROVE Described(q)'
    BY DEF Descriptors
  <2>1. CASE q # p
    BY <2>1 DEF IInv, TypeOK, Descriptors, Described
  <2>2. CASE q = p
    <3>1. CASE Fork(p)
      BY <2>2, <3>1, Constants DEF IInv, TypeOK, Descriptors, Described, Flocking, Locked, Trying
    <3>2. CASE HeirEnds(p) /\ pc[p] = "gone" /\ heirs[p] = 1
      BY <2>2, <3>2, Constants DEF IInv, TypeOK, Descriptors, Described, Flocking, Locked, Trying
    <3>3. CASE HeirEnds(p) /\ ~(pc[p] = "gone" /\ heirs[p] = 1)
      BY <2>2, <3>3, Constants DEF IInv, TypeOK, Descriptors, Described, Flocking, Locked, Trying
    <3> QED
      BY <3>1, <3>2, <3>3
  <2> QED
    BY <2>1, <2>2
<1>3. OneFlock'
  BY DEF IInv, TypeOK, OneFlock
<1>4. FileNamesHolder'
  BY DEF IInv, TypeOK, Descriptors, Described, Flocking, Locked, OneFlock, FileNamesHolder
<1> QED
  BY <1>1, <1>2, <1>3, <1>4 DEF IInv

\* The file is removed: the locks are the same, and none of them is good.
LEMMA UnlinkKeeps ==
  ASSUME IInv, Unlink
  PROVE  IInv'
<1> USE DEF Unlink, procVars
<1>1. TypeOK'
  BY DEF IInv, TypeOK
<1>2. Descriptors' /\ OneFlock'
  BY DEF IInv, TypeOK, Descriptors, Described, OneFlock
<1>3. FileNamesHolder'
  BY Constants DEF IInv, Descriptors, Described, Flocking, Locked, FileNamesHolder
<1> QED
  BY <1>1, <1>2, <1>3 DEF IInv

\* The inductive step, by the actions of daemond_pid_lock and of its surroundings.
LEMMA StepKeeps == IInv /\ [Next]_vars => IInv'
<1> SUFFICES ASSUME IInv, [Next]_vars PROVE IInv'
  OBVIOUS
<1>1. ASSUME NEW p \in Procs, Lock(p) PROVE IInv'
  <2>1. CASE Stat(p) \/ Fopen(p) \/ Scan(p) \/ Probe(p)
    BY <2>1, LookKeeps
  <2>2. CASE FopenDies(p) \/ RecursionDies(p)
    BY <2>2, LeaveKeeps DEF FopenDies, RecursionDies
  <2>3. CASE FileExists(p) \/ StatFails(p) \/ OpenFails(p)
    BY <2>3, TryKeeps
  <2>4. CASE Open(p)
    BY <2>4, TryKeeps, OpenKeeps DEF Open
  <2>5. CASE Create(p)
    BY <2>5, TryKeeps, OpenKeeps DEF Create
  <2>6. CASE Flock(p)
    BY <2>6, FlockKeeps
  <2>7. CASE Verify(p) \/ Reopen(p)
    BY <2>7, VerifyKeeps
  <2>8. CASE Write(p)
    BY <2>8, WriteKeeps
  <2> QED
    BY <1>1, <2>1, <2>2, <2>3, <2>4, <2>5, <2>6, <2>7, <2>8 DEF Lock
<1>2. ASSUME NEW p \in Procs, Start(p) PROVE IInv'
  BY <1>2, LookKeeps
<1>3. ASSUME NEW p \in Procs, End(p) PROVE IInv'
  BY <1>3, LeaveKeeps DEF End
<1>4. ASSUME NEW p \in Procs, Fork(p) \/ HeirEnds(p) PROVE IInv'
  BY <1>4, HeirsKeep
<1>5. CASE Unlink
  BY <1>5, UnlinkKeeps
<1>6. CASE UNCHANGED vars
  BY <1>6 DEF IInv, TypeOK, Descriptors, Described, OneFlock, FileNamesHolder,
     vars, fileVars, procVars
<1> QED
  BY <1>1, <1>2, <1>3, <1>4, <1>5, <1>6 DEF Next

\* The invariant is inductive.
LEMMA IInvHolds == Spec => []IInv
BY InitKeeps, StepKeeps, PTL DEF Spec

\* TypeOK: no variable of daemond_pid_lock leaves its range; in particular failures
\* and recurse never pass their limits.
THEOREM TypeCorrect == Spec => []TypeOK
<1>1. IInv => TypeOK
  BY DEF IInv
<1> QED
  BY <1>1, IInvHolds, PTL

\* FileNamesHolder: the file of a good lock names the process that holds it.
THEOREM HolderNamed == Spec => []FileNamesHolder
<1>1. IInv => FileNamesHolder
  BY DEF IInv
<1> QED
  BY <1>1, IInvHolds, PTL

-----------------------------------------------------------------------------
(* The refinement: each step of PidLock is a step of PidMutex, or none.    *)

\* The holders of a file that no longer has the name.
Revoked == {p \in Holders : fd[p] # path}

\* A step that leaves the name alone, and the processes that hold a lock with their
\* descriptors, is a stutter.
LEMMA Stutter ==
  ASSUME path' = path, Holders' = Holders, \A q \in Holders : fd'[q] = fd[q]
  PROVE  UNCHANGED Mutex!vars
BY DEF Mutex!vars

\* When a process goes away it gives up the lock, if it has one and no heirs.
LEMMA LeaveDrops ==
  ASSUME IInv, NEW p \in Procs, pc[p] \notin {"idle", "gone"}, Leave(p)
  PROVE  [Mutex!Next]_(Mutex!vars)
<1> USE DEF IInv, TypeOK, Leave, Goto, fileVars, Holders, Locked
<1>1. CASE p \in Holders /\ ~(heirs[p] > 0)
  <2>1. Mutex!Drop(p)
    BY <1>1 DEF Mutex!Drop
  <2> QED
    BY <2>1 DEF Mutex!Next
<1>2. CASE p \notin Holders
  <2>1. ~(heirs[p] > 0)
    BY <1>2 DEF Descriptors, Described
  <2> QED
    BY <1>2, <2>1, Stutter
<1>3. CASE p \in Holders /\ heirs[p] > 0
  BY <1>3, Stutter
<1> QED
  BY <1>1, <1>2, <1>3

\* A lock is granted when dev/ino have been compared: whoever else has a lock has it
\* on another inode.
LEMMA VerifyTakes ==
  ASSUME IInv, NEW p \in Procs, Verify(p)
  PROVE  Mutex!Take(p)
<1> USE DEF IInv, TypeOK, Verify, Goto, fileVars, Holders, Locked
<1>1. p \notin Holders /\ Holders' = Holders \cup {p}
  OBVIOUS
<1>2. \A q \in Holders : fd[q] # path
  BY <1>1 DEF Descriptors, Described, OneFlock, Flocking
<1> QED
  BY <1>1, <1>2 DEF Mutex!Take

\* A file that was just created is not the one of any lock, and there was none before.
LEMMA OpenStutters ==
  ASSUME IInv, NEW p \in Procs,
         \/ pc[p] = "open" /\ path # NoInode /\ Opened(p, path) /\ UNCHANGED fileVars
         \/ Create(p) /\ path = NoInode
  PROVE  UNCHANGED Mutex!vars
<1> USE DEF IInv, TypeOK, Opened, Goto, fileVars, Holders, Locked
<1>1. Holders' = Holders /\ \A q \in Holders : fd'[q] = fd[q]
  BY DEF Create
<1>2. CASE path' = path
  BY <1>1, <1>2, Stutter
<1>3. CASE path' # path
  <2>1. Create(p) /\ path = NoInode /\ path' \notin InUse
    BY <1>3 DEF Create
  <2>2. \A q \in Holders : fd[q] # path /\ fd[q] # path'
    BY <2>1, Constants DEF Descriptors, Described, Flocking, InUse
  <2> QED
    BY <1>1, <2>2 DEF Mutex!vars
<1> QED
  BY <1>2, <1>3

\* The last heir of a process that has ended gives up its lock.
LEMMA HeirDrops ==
  ASSUME IInv, NEW p \in Procs, HeirEnds(p)
  PROVE  [Mutex!Next]_(Mutex!vars)
<1> USE DEF IInv, TypeOK, HeirEnds, Goto, fileVars, Holders, Locked
<1>1. CASE pc[p] = "gone" /\ heirs[p] = 1
  <2>1. Mutex!Drop(p)
    BY <1>1 DEF Mutex!Drop
  <2> QED
    BY <2>1 DEF Mutex!Next
<1>2. CASE ~(pc[p] = "gone" /\ heirs[p] = 1)
  BY <1>2, Stutter
<1> QED
  BY <1>1, <1>2

\* Removing the name revokes every lock that was good.
LEMMA UnlinkRevokes ==
  ASSUME IInv, Unlink
  PROVE  [Mutex!Next]_(Mutex!vars)
<1>1. Holders' = Holders /\ Revoked' = Holders
  BY Constants DEF IInv, Descriptors, Described, Flocking, Locked, Unlink, procVars, Holders, Revoked
<1>2. CASE Revoked = Holders
  BY <1>1, <1>2 DEF Revoked, Mutex!vars
<1>3. CASE Revoked # Holders
  <2>1. Mutex!Revoke
    BY <1>1, <1>3 DEF Revoked, Mutex!Revoke
  <2> QED
    BY <2>1 DEF Mutex!Next
<1> QED
  BY <1>2, <1>3

\* Every step of the lock maps to a step of PidMutex or to none.
LEMMA StepRefines == IInv /\ [Next]_vars => [Mutex!Next]_(Mutex!vars)
<1> SUFFICES ASSUME IInv, [Next]_vars PROVE [Mutex!Next]_(Mutex!vars)
  OBVIOUS
<1>1. ASSUME NEW p \in Procs, Lock(p) PROVE [Mutex!Next]_(Mutex!vars)
  <2>1. CASE \/ Stat(p) \/ Fopen(p) \/ Scan(p) \/ Probe(p) \/ FileExists(p)
            \/ StatFails(p) \/ OpenFails(p)
    BY <2>1, Stutter
       DEF IInv, TypeOK, Stat, Fopen, Scan, Probe, FileExists, StatFails, OpenFails, Goto, fileVars,
           Holders, Locked
  <2>2. CASE FopenDies(p) \/ RecursionDies(p)
    BY <2>2, LeaveDrops DEF FopenDies, RecursionDies
  <2>3. CASE pc[p] \in {"open", "create"} /\ Retry(p)
    BY <2>3, Stutter DEF IInv, TypeOK, Retry, Goto, fileVars, Holders, Locked
  <2>4. CASE Open(p)
    BY <2>3, <2>4, OpenStutters DEF Open
  <2>5. CASE Create(p)
    BY <2>3, <2>5, OpenStutters DEF Create
  <2>6. CASE Flock(p)
    BY <2>6, Stutter DEF IInv, TypeOK, Flock, Goto, fileVars, Holders, Locked
  <2>7. CASE Verify(p)
    BY <2>7, VerifyTakes DEF Mutex!Next
  <2>8. CASE Reopen(p)
    BY <2>8, Stutter DEF IInv, TypeOK, Reopen, Goto, fileVars, Holders, Locked
  <2>9. CASE Write(p)
    BY <2>9, Stutter DEF IInv, TypeOK, Write, Goto, Holders, Locked
  <2> QED
    BY <1>1, <2>1, <2>2, <2>4, <2>5, <2>6, <2>7, <2>8, <2>9 DEF Lock
<1>2. ASSUME NEW p \in Procs, Start(p) PROVE [Mutex!Next]_(Mutex!vars)
  BY <1>2, Stutter DEF IInv, TypeOK, Start, Goto, fileVars, Holders, Locked
<1>3. ASSUME NEW p \in Procs, End(p) PROVE [Mutex!Next]_(Mutex!vars)
  BY <1>3, LeaveDrops DEF End
<1>4. ASSUME NEW p \in Procs, Fork(p) PROVE [Mutex!Next]_(Mutex!vars)
  BY <1>4, Stutter DEF Fork, fileVars, Holders
<1>5. ASSUME NEW p \in Procs, HeirEnds(p) PROVE [Mutex!Next]_(Mutex!vars)
  BY <1>5, HeirDrops
<1>6. CASE Unlink
  BY <1>6, UnlinkRevokes
<1>7. CASE UNCHANGED vars
  BY <1>7, Stutter DEF vars, fileVars, procVars, Holders
<1> QED
  BY <1>1, <1>2, <1>3, <1>4, <1>5, <1>6, <1>7 DEF Next

\* LockSpec: daemond_pid_lock implements the revocable lock, whatever processes do, end
\* or leave behind, and whenever the file is removed.
THEOREM LockImplements == Spec => LockSpec
<1>1. Init => Mutex!Init
  BY DEF Init, Mutex!Init, Holders, Locked
<1> QED
  BY <1>1, StepRefines, IInvHolds, PTL DEF Spec, LockSpec, Mutex!Spec

\* Two good locks belong to the same process: what PidMutex is for.
THEOREM MutexExclusive == LockSpec => []Mutex!Exclusive
<1> DEFINE revoked == {p \in Holders : fd[p] # path}
<1>1. Mutex!Init => Mutex!Exclusive
  BY DEF Mutex!Init, Mutex!Exclusive
<1>2. Mutex!Exclusive /\ [Mutex!Next]_(Mutex!vars) => Mutex!Exclusive'
  <2> SUFFICES ASSUME Mutex!Exclusive, [Mutex!Next]_(Mutex!vars)
               PROVE  Mutex!Exclusive'
    OBVIOUS
  <2>1. ASSUME NEW p \in Procs, Mutex!Take(p) PROVE Mutex!Exclusive'
    <3>1. Holders \subseteq revoked /\ Holders' = Holders \cup {p} /\ revoked' = revoked
      BY <2>1 DEF Mutex!Take
    <3> HIDE DEF revoked
    <3> QED
      BY <3>1 DEF Mutex!Exclusive, revoked
  <2>2. ASSUME NEW p \in Procs, Mutex!Drop(p) PROVE Mutex!Exclusive'
    BY <2>2 DEF Mutex!Exclusive, Mutex!Drop
  <2>3. CASE Mutex!Revoke
    BY <2>3 DEF Mutex!Exclusive, Mutex!Revoke
  <2>4. CASE UNCHANGED Mutex!vars
    BY <2>4 DEF Mutex!Exclusive, Mutex!vars
  <2> QED
    BY <2>1, <2>2, <2>3, <2>4 DEF Mutex!Next
<1> QED
  BY <1>1, <1>2, PTL DEF LockSpec, Mutex!Spec

\* No two processes have been granted a lock by daemond_pid_lock on the file that has the
\* name, for any number of processes, crashes, children and removals.
THEOREM LockExcludes == Spec => []Mutex!Exclusive
BY LockImplements, MutexExclusive

-----------------------------------------------------------------------------
(* The call is bounded, whatever others do: every step of it leaves less   *)
(* to do.  That is what LockReturns needs besides fairness.                *)

\* The places of daemond_pid_lock.
Busy == Trying \cup {"write"}

\* The tries that are left: MaxFailures for each recursion.
Tries(p) == (MaxRecurse - recurse[p]) * MaxFailures + (MaxFailures - failures[p])

\* The steps that one try still has to take.
Rank(place) ==
  CASE place = "stat" -> 9
    [] place = "fopen" -> 8
    [] place = "scan" -> 7
    [] place = "probe" -> 6
    [] place = "exists" -> 5
    [] place \in {"open", "create"} -> 4
    [] place = "flock" -> 3
    [] place = "verify" -> 2
    [] OTHER -> 1

\* An upper bound of the steps that p has still to take.
Left(p) == IF pc[p] \in Busy THEN 4 * Tries(p) + Rank(pc[p]) ELSE 0

\* A step either is one of others or leaves p less to do, unless it begins the call.
CallProgress ==
  \A p \in Procs :
    pc[p] \in Busy =>
      Left(p)' < Left(p) \/ UNCHANGED <<pc[p], recurse[p], failures[p]>>

\* What is left at the beginning of a call, in which nothing has failed.
Most == 4 * (MaxRecurse * MaxFailures + MaxFailures) + 9

\* No call ever has more to do than at its beginning.
CallsBounded == \A p \in Procs : Left(p) \in 0 .. Most

\* What is left is a whole number.
LEMMA TriesNat ==
  ASSUME IInv, NEW p \in Procs
  PROVE  Tries(p) \in Nat /\ Left(p) \in Nat
<1>1. /\ recurse[p] \in 0 .. MaxRecurse /\ failures[p] \in 0 .. MaxFailures
      /\ MaxRecurse \in Nat /\ MaxFailures \in Nat
  BY PidLockAssumption DEF IInv, TypeOK
<1>2. MaxRecurse - recurse[p] \in Nat /\ MaxFailures - failures[p] \in Nat
  BY <1>1
<1>3. \A a \in Nat, b \in Nat : a * b \in Nat
  OBVIOUS
<1>4. (MaxRecurse - recurse[p]) * MaxFailures \in Nat
  BY <1>1, <1>2, <1>3
<1>5. Tries(p) \in Nat
  BY <1>2, <1>4 DEF Tries
<1>6. Rank(pc[p]) \in Nat
  BY DEF Rank
<1> QED
  BY <1>5, <1>6 DEF Left

\* A call has no more to do than at its beginning.
LEMMA CallIsBounded == IInv => CallsBounded
<1> SUFFICES ASSUME IInv, NEW p \in Procs PROVE Left(p) \in 0 .. Most
  BY DEF CallsBounded
<1>1. /\ recurse[p] \in Nat /\ recurse[p] <= MaxRecurse /\ failures[p] \in Nat
      /\ MaxRecurse \in Nat /\ MaxFailures \in Nat
  BY PidLockAssumption DEF IInv, TypeOK
<1>2. \A a \in Int, b \in Int, c \in Int : (a - b) * c = a * c - b * c /\ a * c \in Int
  OBVIOUS
<1>3. \A a \in Nat, b \in Nat : a * b \in Nat
  OBVIOUS
<1> DEFINE mf == MaxRecurse * MaxFailures
           rf == recurse[p] * MaxFailures
<1>4. mf \in Nat /\ rf \in Nat /\ (MaxRecurse - recurse[p]) * MaxFailures = mf - rf
  BY <1>1, <1>2, <1>3
<1>5. Tries(p) = (mf - rf) + (MaxFailures - failures[p])
  BY <1>4 DEF Tries
<1>6. Most = 4 * (mf + MaxFailures) + 9
  BY DEF Most
<1>7. Rank(pc[p]) \in 1 .. 9
  BY DEF Rank
<1>8. Tries(p) \in Nat /\ Left(p) \in Nat
  BY TriesNat
<1> HIDE DEF mf, rf
<1>9. Tries(p) <= mf + MaxFailures
  BY <1>1, <1>4, <1>5
<1>10. 4 * Tries(p) + Rank(pc[p]) <= Most /\ Most \in Nat
  BY <1>1, <1>4, <1>6, <1>7, <1>8, <1>9
<1> QED
  BY <1>8, <1>10 DEF Left

\* One try less, and one recursion less.
LEMMA TriesDrop ==
  ASSUME IInv, NEW p \in Procs
  PROVE  /\ recurse'[p] = recurse[p] /\ failures'[p] = failures[p] + 1 =>
              Tries(p)' = Tries(p) - 1
         /\ recurse'[p] = recurse[p] + 1 /\ failures'[p] = 0 /\ failures[p] < MaxFailures =>
              Tries(p)' \in Int /\ Tries(p)' < Tries(p)
<1>1. /\ recurse[p] \in Nat /\ failures[p] \in Nat
      /\ MaxRecurse \in Nat /\ MaxFailures \in Nat
  BY PidLockAssumption DEF IInv, TypeOK
<1>2. \A a \in Int, b \in Int : (a - 1) * b = a * b - b /\ a * b \in Int
  OBVIOUS
<1> DEFINE a == MaxRecurse - recurse[p]
           ab == a * MaxFailures
<1>3. ASSUME recurse'[p] = recurse[p], failures'[p] = failures[p] + 1
      PROVE  Tries(p)' = Tries(p) - 1
  <2>1. ab \in Int
    BY <1>1, <1>2
  <2>2. Tries(p) = ab + (MaxFailures - failures[p])
    BY DEF Tries
  <2>3. Tries(p)' = ab + (MaxFailures - (failures[p] + 1))
    BY <1>3 DEF Tries
  <2> HIDE DEF ab
  <2> QED
    BY <1>1, <2>1, <2>2, <2>3
<1>4. ASSUME recurse'[p] = recurse[p] + 1, failures'[p] = 0, failures[p] < MaxFailures
      PROVE  Tries(p)' \in Int /\ Tries(p)' < Tries(p)
  <2>1. ab \in Int /\ (a - 1) * MaxFailures = ab - MaxFailures
    BY <1>1, <1>2
  <2>2. Tries(p) = ab + (MaxFailures - failures[p])
    BY DEF Tries
  <2>3. Tries(p)' = (a - 1) * MaxFailures + (MaxFailures - 0)
    <3>1. MaxRecurse - (recurse[p] + 1) = a - 1
      BY <1>1
    <3> QED
      BY <1>4, <3>1 DEF Tries
  <2> HIDE DEF ab, a
  <2> QED
    BY <1>1, <1>4, <2>1, <2>2, <2>3
<1> QED
  BY <1>3, <1>4

\* Each step of the call leaves less to do.
LEMMA LockProgresses ==
  ASSUME IInv, NEW p \in Procs, Lock(p)
  PROVE  pc[p] \in Busy /\ Left(p)' < Left(p)
<1>1. Tries(p) \in Nat /\ Left(p) \in Nat
  BY TriesNat
<1>2. pc[p] \in Busy
  BY DEF Lock, Stat, StatFails, Fopen, FopenDies, Scan, Probe, FileExists, Open, Create, OpenFails,
         Flock, Verify, Reopen, RecursionDies, Write, Busy, Trying
<1>3. Left(p) = 4 * Tries(p) + Rank(pc[p]) /\ Rank(pc[p]) \in Nat /\ Rank(pc[p]) > 0
  BY <1>2 DEF Left, Rank
<1>4. CASE pc'[p] \notin Busy
  BY <1>1, <1>3, <1>4 DEF Left
<1>5. CASE pc'[p] \in Busy /\ recurse' = recurse /\ failures' = failures
  <2>1. Rank(pc'[p]) < Rank(pc[p])
    BY <1>2, <1>5
    DEF IInv, TypeOK, Lock, Stat, StatFails, Fopen, FopenDies, Scan, Probe, FileExists, Open, Create,
        OpenFails, Flock, Verify, Reopen, RecursionDies, Write, Busy, Trying, Rank, Goto, Retry,
        Opened, Leave
  <2>2. Tries(p)' = Tries(p)
    BY <1>5 DEF Tries
  <2> QED
    BY <1>1, <1>3, <1>5, <2>1, <2>2 DEF Left, Rank
<1>6. CASE pc[p] \in {"open", "create"} /\ Retry(p)
  <2>1. recurse'[p] = recurse[p] /\ failures'[p] = failures[p] + 1
    BY <1>6 DEF Retry, IInv, TypeOK
  <2>2. pc'[p] \in {"exists", "refused"}
    BY <1>6 DEF Retry, Goto, IInv, TypeOK
  <2>3. Tries(p)' = Tries(p) - 1
    BY <2>1, TriesDrop
  <2> QED
    BY <1>1, <1>6, <2>2, <2>3 DEF Left, Rank, Busy, Trying
<1>7. CASE Reopen(p)
  <2>1. recurse'[p] = recurse[p] + 1 /\ failures'[p] = 0 /\ pc[p] = "verify" /\ pc'[p] = "exists"
    BY <1>7 DEF Reopen, Goto, IInv, TypeOK
  <2>2. failures[p] < MaxFailures
    BY <2>1 DEF IInv, Descriptors, Described, Trying
  <2>3. Tries(p)' \in Int /\ Tries(p)' < Tries(p)
    BY <2>1, <2>2, TriesDrop
  <2> QED
    BY <1>1, <2>1, <2>3 DEF Left, Rank, Busy, Trying
<1>8. \/ pc'[p] \notin Busy
      \/ recurse' = recurse /\ failures' = failures
      \/ pc[p] \in {"open", "create"} /\ Retry(p)
      \/ Reopen(p)
  BY DEF IInv, TypeOK, Lock, Stat, StatFails, Fopen, FopenDies, Scan, Probe, FileExists, Open, Create,
         OpenFails, Flock, Verify, Reopen, RecursionDies, Write, Busy, Trying, Goto, Opened, Leave
<1> QED
  BY <1>2, <1>4, <1>5, <1>6, <1>7, <1>8

\* A call of daemond_pid_lock is at most Most steps long, even if the file is removed and
\* created all the time: every step of a process in it leaves that process less to do, and
\* no step of another leaves it more.
THEOREM LockCallBounded == Spec => []CallsBounded /\ [][CallProgress]_vars
<1>1. IInv /\ [Next]_vars => [CallProgress]_vars
  <2> SUFFICES ASSUME IInv, Next, NEW p \in Procs, pc[p] \in Busy
               PROVE  Left(p)' < Left(p) \/ UNCHANGED <<pc[p], recurse[p], failures[p]>>
    BY DEF CallProgress
  <2>1. CASE Lock(p)
    BY <2>1, LockProgresses
  <2>2. CASE Leave(p)
    <3>1. pc'[p] \notin Busy
      BY <2>2 DEF IInv, TypeOK, Leave, Goto, Busy, Trying
    <3>2. Tries(p) \in Nat /\ Rank(pc[p]) \in Nat /\ Rank(pc[p]) > 0
      BY TriesNat DEF Rank
    <3> QED
      BY <3>1, <3>2 DEF Left
  <2>3. CASE Start(p) \/ Fork(p)
    BY <2>3 DEF Start, Fork, Busy, Trying
  <2>4. CASE HeirEnds(p)
    BY <2>4 DEF HeirEnds, IInv, TypeOK, Busy, Trying
  <2>5. CASE Unlink
    BY <2>5 DEF Unlink, procVars
  <2>6. ASSUME NEW q \in Procs \ {p}, Start(q) \/ Lock(q) \/ End(q) \/ Fork(q) \/ HeirEnds(q)
        PROVE  UNCHANGED <<pc[p], recurse[p], failures[p]>>
    BY <2>6 DEF IInv, TypeOK, Goto, Start, Lock, End, Fork, HeirEnds, Stat, StatFails,
       Fopen, FopenDies, Scan, Probe, FileExists, Open, Create, OpenFails, Flock, Verify, Reopen,
       RecursionDies, Write, Retry, Opened, Leave
  <2> QED
    BY <2>1, <2>2, <2>3, <2>4, <2>5, <2>6 DEF Next, End
<1> QED
  BY <1>1, CallIsBounded, IInvHolds, PTL DEF Spec

-----------------------------------------------------------------------------
(* The race: as long as nobody interferes, somebody wins.                  *)

\* What each place of the lock may still have open.
LEMMA OpenFiles ==
  ASSUME IInv, FileStays, path = NoInode
  PROVE  \A p \in Procs : fd[p] = NoInode /\ reading[p] = NoInode
BY Constants DEF IInv, TypeOK, FileStays

\* No step but an interference takes the file away or lets its reader miss it.
LEMMA FileStaysStep ==
  ASSUME IInv, FileStays, NumbersTell, LostToSomeone, [Next]_vars, ~Interference
  PROVE  FileStays'
<1> USE Constants DEF FileStays
<1>1. ASSUME NEW p \in Procs, Lock(p) PROVE FileStays'
  <2>1. CASE Stat(p) \/ Fopen(p) \/ Scan(p) \/ Probe(p) \/ FileExists(p)
    BY <2>1 DEF IInv, TypeOK, Stat, Fopen, Scan, Probe, FileExists, Goto, fileVars
  <2>2. CASE FopenDies(p)
    BY <2>2 DEF Interference
  <2>3. CASE Open(p)
    BY <2>3 DEF IInv, TypeOK, Open, Opened, Goto, fileVars
  <2>4. CASE Create(p)
    <3>1. CASE path # NoInode
      BY <2>4, <3>1 DEF IInv, TypeOK, Create, Retry, Goto, fileVars
    <3>2. CASE path = NoInode
      BY <2>4, <3>2, OpenFiles DEF IInv, TypeOK, Create, Opened, Goto
    <3> QED
      BY <3>1, <3>2
  <2>5. CASE StatFails(p) \/ OpenFails(p)
    BY <2>5 DEF Interference
  <2>6. CASE Flock(p) \/ Verify(p) \/ Write(p)
    BY <2>6 DEF IInv, TypeOK, Flock, Verify, Write, Goto, fileVars
  <2>7. CASE Reopen(p) \/ RecursionDies(p)
    BY <2>7 DEF Reopen, RecursionDies, IInv, Descriptors, Described, Flocking
  <2> QED
    BY <1>1, <2>1, <2>2, <2>3, <2>4, <2>5, <2>6, <2>7 DEF Lock
<1>2. ASSUME NEW p \in Procs, Start(p) \/ Fork(p) \/ HeirEnds(p) PROVE FileStays'
  BY <1>2 DEF IInv, TypeOK, Start, Fork, HeirEnds, Goto, fileVars
<1>3. CASE UNCHANGED vars
  BY <1>3 DEF vars, fileVars, procVars
<1> QED
  BY <1>1, <1>2, <1>3 DEF Next, Interference

\* The number in the file, and the one that was read there, is a winner's or dead.
LEMMA NumbersTellStep ==
  ASSUME IInv, FileStays, NumbersTell, LostToSomeone, [Next]_vars, ~Interference
  PROVE  NumbersTell'
<1> USE Constants, PidLockAssumption DEF NumbersTell
<1>1. ASSUME NEW p \in Procs, Lock(p) PROVE NumbersTell'
  <2>1. CASE Stat(p) \/ Fopen(p) \/ Probe(p) \/ FileExists(p)
    BY <2>1 DEF IInv, TypeOK, Stat, Fopen, Probe, FileExists, Goto, fileVars
  <2>2. CASE Scan(p)
    <3>1. reading[p] = path /\ path \in Inodes
      BY <2>2 DEF Scan, IInv, Descriptors, Described, FileStays
    <3> QED
      BY <2>2, <3>1 DEF IInv, TypeOK, Scan, Goto, fileVars
  <2>3. CASE FopenDies(p)
    BY <2>3 DEF Interference
  <2>4. CASE Open(p)
    BY <2>4 DEF IInv, TypeOK, Open, Opened, Retry, Goto, fileVars
  <2>5. CASE Create(p)
    BY <2>5 DEF IInv, TypeOK, Create, Opened, Retry, Goto, fileVars
  <2>6. CASE StatFails(p) \/ OpenFails(p)
    BY <2>6 DEF Interference
  <2>7. CASE Flock(p) \/ Verify(p)
    BY <2>7 DEF IInv, TypeOK, Flock, Verify, Goto, fileVars
  <2>8. CASE Write(p)
    <3>1. fd[p] = path /\ path \in Inodes
      BY <2>8 DEF Write, IInv, Descriptors, Described, Locked, Flocking, FileStays
    <3> QED
      BY <2>8, <3>1 DEF IInv, TypeOK, Write, Goto
  <2>9. CASE Reopen(p) \/ RecursionDies(p)
    BY <2>9 DEF Reopen, RecursionDies, IInv, Descriptors, Described, Flocking, FileStays
  <2> QED
    BY <1>1, <2>1, <2>2, <2>3, <2>4, <2>5, <2>6, <2>7, <2>8, <2>9 DEF Lock
<1>2. ASSUME NEW p \in Procs, Start(p) \/ Fork(p) \/ HeirEnds(p) PROVE NumbersTell'
  BY <1>2 DEF IInv, TypeOK, FileStays, Start, Fork, HeirEnds, Goto, fileVars
<1>3. CASE UNCHANGED vars
  BY <1>3 DEF vars, fileVars, procVars
<1> QED
  BY <1>1, <1>2, <1>3 DEF Next, Interference

\* Whoever loses leaves somebody in the race.
LEMMA LostToSomeoneStep ==
  ASSUME IInv, FileStays, NumbersTell, LostToSomeone, [Next]_vars, ~Interference
  PROVE  LostToSomeone'
<1> USE Constants, PidLockAssumption DEF LostToSomeone, Contending
<1>1. ASSUME NEW p \in Procs, Lock(p) PROVE LostToSomeone'
  <2>1. CASE Stat(p) \/ Fopen(p) \/ Scan(p) \/ FileExists(p)
    BY <2>1 DEF IInv, TypeOK, Stat, Fopen, Scan, FileExists, Goto, fileVars
  <2>2. CASE Probe(p)
    BY <2>2 DEF IInv, TypeOK, NumbersTell, Probe, Alive, Goto, fileVars
  <2>3. CASE FopenDies(p)
    BY <2>3 DEF Interference
  <2>4. CASE Open(p)
    BY <2>4 DEF IInv, TypeOK, FileStays, Open, Opened, Goto, fileVars
  <2>5. CASE Create(p)
    <3>1. CASE path # NoInode
      BY <2>5, <3>1 DEF IInv, TypeOK, Create, Retry, Goto, fileVars
    <3>2. CASE path = NoInode
      BY <2>5, <3>2 DEF IInv, TypeOK, Create, Opened, Goto
    <3> QED
      BY <3>1, <3>2
  <2>6. CASE StatFails(p) \/ OpenFails(p)
    BY <2>6 DEF Interference
  <2>7. CASE Flock(p)
    <3>1. CASE Taken(p, fd[p])
      <4>1. PICK q \in Procs \ {p} : flocked[q]
        BY <3>1 DEF Taken
      <4>2. pc[q] \in Contending
        BY <4>1 DEF IInv, Descriptors, Described, Flocking, Locked, FileStays
      <4> QED
        BY <2>7, <3>1, <4>1, <4>2 DEF IInv, TypeOK, Flock, Goto, fileVars
    <3>2. CASE ~Taken(p, fd[p])
      BY <2>7, <3>2 DEF IInv, TypeOK, Flock, Goto, fileVars
    <3> QED
      BY <3>1, <3>2
  <2>8. CASE Verify(p) \/ Write(p)
    BY <2>8 DEF IInv, TypeOK, Verify, Write, Goto, fileVars
  <2>9. CASE Reopen(p) \/ RecursionDies(p)
    BY <2>9 DEF Reopen, RecursionDies, IInv, Descriptors, Described, Flocking, FileStays
  <2> QED
    BY <1>1, <2>1, <2>2, <2>3, <2>4, <2>5, <2>6, <2>7, <2>8, <2>9 DEF Lock
<1>2. ASSUME NEW p \in Procs, Start(p) \/ Fork(p) \/ HeirEnds(p) PROVE LostToSomeone'
  BY <1>2 DEF IInv, TypeOK, FileStays, Start, Fork, HeirEnds, Goto, fileVars
<1>3. CASE UNCHANGED vars
  BY <1>3 DEF vars, fileVars, procVars
<1> QED
  BY <1>1, <1>2, <1>3 DEF Next, Interference

\* Before the race everything is in order, unless the file names a living process.
LEMMA FairRaceInit == RaceInit => FairRace
<1> SUFFICES ASSUME RaceInit, ~disturbed PROVE FileStays /\ NumbersTell /\ LostToSomeone
  BY DEF FairRace
<1>1. FileStays /\ LostToSomeone
  BY Constants DEF RaceInit, Init, FileStays, LostToSomeone
<1>2. NumbersTell
  <2>1. path # NoInode => content[path] \notin Procs \cup Strangers
    BY DEF RaceInit, Init
  <2> QED
    BY <2>1 DEF RaceInit, Init, NumbersTell
<1> QED
  BY <1>1, <1>2

\* The memory of interference aside, the race is the lock.
LEMMA RaceIsLock == RaceSpec => Spec
<1>1. RaceInit => Init
  BY DEF RaceInit
<1>2. [RaceNext]_raceVars => [Next]_vars
  BY DEF RaceNext, raceVars, vars, fileVars, procVars
<1> QED
  BY <1>1, <1>2, PTL DEF RaceSpec, Spec

\* SomeoneWins: of any number of processes that race for the lock undisturbed, with
\* any number of tries, not all lose.
THEOREM RaceHasWinner == RaceSpec => []SomeoneWins
<1>1. IInv /\ FairRace /\ [RaceNext]_raceVars => FairRace'
  <2> SUFFICES ASSUME IInv, FairRace, [RaceNext]_raceVars, ~disturbed'
               PROVE  (FileStays /\ NumbersTell /\ LostToSomeone)'
    BY DEF FairRace
  <2>1. CASE RaceNext
    <3>1. ~disturbed /\ ~Interference /\ [Next]_vars
      BY <2>1 DEF RaceNext
    <3> QED
      BY <3>1, FileStaysStep, NumbersTellStep, LostToSomeoneStep DEF FairRace
  <2>2. CASE UNCHANGED raceVars
    BY <2>2 DEF raceVars, vars, fileVars, procVars, FairRace, FileStays, NumbersTell,
       LostToSomeone
  <2> QED
    BY <2>1, <2>2
<1>2. IInv /\ FairRace => SomeoneWins
  BY DEF FairRace, LostToSomeone, Contending, SomeoneWins
<1> QED
  BY <1>1, <1>2, FairRaceInit, RaceIsLock, IInvHolds, PTL DEF RaceSpec
=============================================================================
