----------------------------- MODULE CliProofs -----------------------------
(***************************************************************************)
(* The commands over the pid file lock, for any number of processes: each  *)
(* step of daemond_cli_run keeps the invariant of the lock, and two        *)
(* masters are what OneMaster allows them to be.                           *)
(***************************************************************************)
EXTENDS Cli, Integers, TLAPS

\* The theorems about the lock.  Nothing here refers to interference.
LP == INSTANCE PidLockProofs WITH Strangers <- {}, disturbed <- FALSE

\* What the lock assumes of its constants.
LEMMA LockAssumed == LP!PidLockAssumption
BY CliAssumption DEF LP!PidLockAssumption

\* The two instances of the lock are the same.
LEMMA SameLock ==
  /\ L!TypeOK <=> LP!TypeOK
  /\ L!Init <=> LP!Init
  /\ L!Unlink <=> LP!Unlink
BY DEF L!TypeOK, LP!TypeOK, L!Numbers, LP!Numbers, L!Places, LP!Places, L!Trying,
   LP!Trying, L!Locked, LP!Locked, L!Init, LP!Init, L!Unlink, LP!Unlink,
   L!procVars, LP!procVars

\* So are their steps.
LEMMA SameSteps ==
  ASSUME NEW p \in Procs
  PROVE  /\ L!Leave(p) <=> LP!Leave(p)
         /\ L!Start(p) <=> LP!Start(p)
         /\ L!Fork(p) <=> LP!Fork(p)
         /\ L!HeirEnds(p) <=> LP!HeirEnds(p)
         /\ L!Lock(p) <=> LP!Lock(p)
BY DEF L!Leave, LP!Leave, L!Goto, LP!Goto, L!fileVars, LP!fileVars, L!Start, LP!Start,
  L!Fork, LP!Fork, L!HeirEnds, LP!HeirEnds, L!Lock, LP!Lock,
  L!Stat, LP!Stat, L!Fopen, LP!Fopen, L!FopenDies, LP!FopenDies, L!Scan, LP!Scan,
  L!Probe, LP!Probe, L!Alive, LP!Alive, L!FileExists, LP!FileExists, L!Open, LP!Open,
  L!Retry, LP!Retry, L!Opened, LP!Opened, L!Create, LP!Create, L!InUse, LP!InUse,
  L!StatFails, LP!StatFails, L!OpenFails, LP!OpenFails, L!Flock, LP!Flock,
  L!Taken, LP!Taken, L!Verify, LP!Verify, L!Reopen, LP!Reopen, L!RecursionDies, LP!RecursionDies, L!Write, LP!Write

-----------------------------------------------------------------------------
Typed ==
  /\ com \in [Procs -> Commands \cup {"none"}]
  /\ stage \in [Procs -> Stages]
  /\ asked \subseteq Procs

\* The inductive invariant: of the lock, of the types and of each command.
CInv == LP!IInv /\ Typed /\ \A p \in Procs : Staged(p)

\* What CInv says of the types of the lock's variables that the proofs look at.
LEMMA LockTypes ==
  ASSUME CInv
  PROVE  /\ pc \in [Procs -> LP!Places]
         /\ oldpid \in [Procs -> LP!Numbers]
         /\ flocked \in [Procs -> BOOLEAN]
BY DEF CInv, LP!IInv, LP!TypeOK

\* The processes that a step does not touch stay what they were.
LEMMA OthersStaged ==
  ASSUME CInv, NEW p \in Procs, NEW q \in Procs,
         pc'[q] = pc[q], oldpid'[q] = oldpid[q], stage'[q] = stage[q], com'[q] = com[q]
  PROVE  Staged(q)'
<1>1. Staged(q)
  BY DEF CInv
<1> QED
  BY <1>1 DEF Staged

\* At first nobody has been given a command.
LEMMA InitKeeps == Init => CInv
<1> SUFFICES ASSUME Init PROVE CInv
  OBVIOUS
<1>1. LP!IInv
  BY SameLock, LockAssumed, LP!InitKeeps DEF Init
<1>2. Typed
  BY DEF Init, Typed, Stages
<1>3. \A p \in Procs : Staged(p)
  BY DEF Init, L!Init, Staged, Killing
<1> QED
  BY <1>1, <1>2, <1>3 DEF CInv

\* A process that is still there is one of the lock's that can leave.
LEMMA CanLeave ==
  ASSUME CInv, NEW p \in Procs, stage[p] # "none"
  PROVE  pc[p] \notin {"idle", "gone"}
BY DEF CInv, Staged

\* What leaving does to the lock.
LEMMA LeaveEffect ==
  ASSUME CInv, NEW p \in Procs, stage[p] # "none", L!Leave(p)
  PROVE  /\ LP!IInv'
         /\ pc'[p] \in {"idle", "gone"}
         /\ \A q \in Procs \ {p} : pc'[q] = pc[q] /\ oldpid'[q] = oldpid[q]
<1>1. LP!Leave(p) /\ pc[p] \notin {"idle", "gone"}
  BY SameSteps, CanLeave
<1>2. LP!IInv'
  BY <1>1, LockAssumed, LP!LeaveKeeps DEF CInv
<1>3. pc'[p] \in {"idle", "gone"}
  BY LockTypes DEF L!Leave, L!Goto
<1>4. \A q \in Procs \ {p} : pc'[q] = pc[q] /\ oldpid'[q] = oldpid[q]
  BY LockTypes DEF L!Leave, L!Goto
<1> QED
  BY <1>2, <1>3, <1>4

\* A process ends, by itself or at the hands of p.
LEMMA EndKeeps ==
  ASSUME CInv, NEW q \in Procs, stage[q] # "none", L!Leave(q),
         com' = [com EXCEPT ![q] = "none"], asked' = asked \ {q}, Typed',
         stage'[q] = "none"
  PROVE  LP!IInv' /\ Typed' /\ Staged(q)'
<1>1. LP!IInv' /\ pc'[q] \in {"idle", "gone"}
  BY LeaveEffect
<1>2. Staged(q)'
  BY <1>1 DEF Staged, Killing
<1> QED
  BY <1>1, <1>2

\* exit.
LEMMA ExitKeeps ==
  ASSUME CInv, NEW p \in Procs, stage[p] # "none", Exit(p)
  PROVE  CInv'
<1>1. Typed'
  BY DEF CInv, Typed, Exit, Move, Stages
<1>2. stage'[p] = "none"
  BY DEF CInv, Typed, Exit, Move
<1>3. LP!IInv' /\ Staged(p)'
  BY <1>1, <1>2, EndKeeps DEF Exit
<1>4. ASSUME NEW q \in Procs \ {p} PROVE Staged(q)'
  BY LeaveEffect, OthersStaged DEF CInv, Typed, Exit, Move
<1> QED
  BY <1>1, <1>3, <1>4 DEF CInv

\* The variables of the lock are left alone.
LEMMA LockUntouched ==
  ASSUME CInv, UNCHANGED lockVars
  PROVE  LP!IInv'
<1>1. UNCHANGED LP!vars
  BY DEF lockVars, LP!vars, LP!fileVars, LP!procVars
<1> QED
  BY <1>1, LockAssumed, LP!StepKeeps DEF CInv

\* A process moves on in daemond_cli_run without touching the lock.
LEMMA MoveKeeps ==
  ASSUME CInv, NEW p \in Procs, NEW to \in Stages, Move(p, to),
         UNCHANGED <<lockVars, com>>, asked' \subseteq Procs,
         Staged(p)'
  PROVE  CInv'
<1>1. LP!IInv'
  BY LockUntouched
<1>2. Typed'
  BY DEF CInv, Typed, Move
<1>3. ASSUME NEW q \in Procs \ {p} PROVE Staged(q)'
  BY OthersStaged DEF CInv, Typed, Move, lockVars
<1> QED
  BY <1>1, <1>2, <1>3 DEF CInv

-----------------------------------------------------------------------------
(* One lemma for each kind of step.                                        *)

\* A command is given.
LEMMA BeginKeeps ==
  ASSUME CInv, NEW p \in Procs, NEW c \in Commands, Begin(p, c)
  PROVE  CInv'
<1>1. LP!IInv'
  <2>1. LP!Start(p)
    BY SameSteps DEF Begin
  <2> QED
    BY <2>1, LockAssumed, LP!StepKeeps DEF CInv, LP!Next
<1>2. Typed'
  BY DEF CInv, Typed, Begin, Move, Stages
<1>3. ASSUME NEW q \in Procs PROVE Staged(q)'
  <2>1. CASE q = p
    BY <2>1, LockTypes DEF CInv, Typed, Begin, Move, L!Start, L!Goto, Staged, Killing
  <2>2. CASE q # p
    BY <2>2, LockTypes, OthersStaged DEF CInv, Typed, Begin, Move, L!Start, L!Goto
  <2> QED
    BY <2>1, <2>2
<1> QED
  BY <1>1, <1>2, <1>3 DEF CInv

\* A step of daemond_pid_lock moves one process, and none to where only a process
\* with heirs goes.
LEMMA LockEffect ==
  ASSUME CInv, NEW p \in Procs, L!Lock(p)
  PROVE  /\ LP!IInv'
         /\ pc'[p] # "gone"
         /\ \A q \in Procs \ {p} : pc'[q] = pc[q] /\ oldpid'[q] = oldpid[q]
<1>1. LP!IInv'
  <2>1. LP!Lock(p)
    BY SameSteps
  <2> QED
    BY <2>1, LockAssumed, LP!StepKeeps DEF CInv, LP!Next
<1>2. \A q \in Procs \ {p} : pc'[q] = pc[q] /\ oldpid'[q] = oldpid[q]
  BY LockTypes
  DEF L!Lock, L!Goto, L!Leave, L!Stat, L!Fopen, L!FopenDies, L!Scan, L!Probe,
      L!FileExists, L!Open, L!Retry, L!Opened, L!Create, L!StatFails, L!OpenFails, L!Flock,
      L!Verify, L!Reopen, L!RecursionDies, L!Write
<1>3. pc'[p] # "gone"
  <2>1. CASE L!FopenDies(p) \/ L!RecursionDies(p)
    <3>1. ~(heirs[p] > 0)
      BY <2>1 DEF L!FopenDies, L!RecursionDies, CInv, LP!IInv, LP!Descriptors, LP!Described
    <3> QED
      BY <2>1, <3>1, LockTypes DEF L!FopenDies, L!RecursionDies, L!Leave, L!Goto
  <2>2. CASE ~(L!FopenDies(p) \/ L!RecursionDies(p))
    BY <2>2, LockTypes
    DEF L!Lock, L!Goto, L!Stat, L!Fopen, L!Scan, L!Probe, L!FileExists, L!Open,
        L!Retry, L!Opened, L!Create, L!StatFails, L!OpenFails, L!Flock, L!Verify, L!Reopen, L!Write
  <2> QED
    BY <2>1, <2>2
<1> QED
  BY <1>1, <1>2, <1>3

\* daemond_pid_lock goes on, or die() ends the process.
LEMMA LockingKeeps ==
  ASSUME CInv, NEW p \in Procs, Locking(p)
  PROVE  CInv'
<1>1. Typed'
  BY DEF CInv, Typed, Locking, Move, Stages
<1>2. Staged(p)'
  <2>1. CASE pc'[p] = "idle"
    BY <2>1 DEF CInv, Typed, Locking, Move, Staged, Killing
  <2>2. CASE pc'[p] # "idle"
    BY <2>2, LockEffect DEF CInv, Typed, Locking, Staged, Killing
  <2> QED
    BY <2>1, <2>2
<1>3. ASSUME NEW q \in Procs \ {p} PROVE Staged(q)'
  BY LockEffect, OthersStaged DEF CInv, Typed, Locking, Move
<1> QED
  BY <1>1, <1>2, <1>3, LockEffect DEF CInv, Locking

\* The steps that only decide where to go.
LEMMA DecideKeeps ==
  ASSUME CInv, NEW p \in Procs,
         \/ GoOn(p) \/ StartKilling(p) \/ ProbeTarget(p) \/ KillGroup(p) \/ RestartGoesOn(p)
         \/ Await(p, "waitint", "term") \/ Await(p, "waitterm", "kill")
  PROVE  CInv'
<1>1. PICK to \in Stages : Move(p, to)
  BY DEF GoOn, StartKilling, ProbeTarget, KillGroup, RestartGoesOn, Await,
     Stages, Killing
<1>2. UNCHANGED <<lockVars, com, asked>>
  BY DEF GoOn, StartKilling, ProbeTarget, KillGroup, RestartGoesOn, Await
<1>3. Staged(p)'
  BY <1>2
  DEF CInv, Typed, Staged, Killing, Move, Returned, lockVars, GoOn,
      StartKilling, ProbeTarget, KillGroup, RestartGoesOn, Await
<1> QED
  BY <1>1, <1>2, <1>3, MoveKeeps DEF CInv, Typed

\* check finds a living process behind the number, or none.
LEMMA CheckKeeps ==
  ASSUME CInv, NEW p \in Procs, CheckReports(p)
  PROVE  CInv'
<1>1. CASE L!Alive(oldpid[p])
  <2>1. Move(p, "running") /\ UNCHANGED <<lockVars, com, asked>>
    BY <1>1 DEF CheckReports
  <2>2. Staged(p)'
    BY <2>1 DEF CInv, Typed, Staged, Killing, Move, Returned, lockVars, CheckReports
  <2> QED
    BY <2>1, <2>2, MoveKeeps DEF CInv, Typed, Stages
<1>2. CASE ~L!Alive(oldpid[p])
  <2>1. stage[p] # "none" /\ Exit(p)
    BY <1>2 DEF CheckReports, Returned
  <2> QED
    BY <2>1, ExitKeeps
<1> QED
  BY <1>1, <1>2

\* The signal reaches a master, or a command (which may be p itself).
LEMMA DeliverKeeps ==
  ASSUME CInv, NEW p \in Procs, NEW q \in Procs, NEW to \in {"waitint", "waitterm"},
         stage[p] \in Killing, stage[q] # "none", Deliver(p, q, to)
  PROVE  CInv'
<1>1. to \in Stages /\ to \in Killing /\ Staged(p)
  BY DEF Stages, Killing, CInv
<1>2. CASE stage[q] = "master"
  <2>1. Move(p, to) /\ UNCHANGED <<lockVars, com>> /\ asked' = asked \cup {q}
    BY <1>2 DEF Deliver
  <2>2. Staged(p)'
    BY <1>1, <2>1 DEF CInv, Typed, Staged, Killing, Move, lockVars
  <2> QED
    BY <1>1, <2>1, <2>2, MoveKeeps DEF CInv, Typed
<1>3. CASE stage[q] # "master"
  <2>1. /\ L!Leave(q)
        /\ stage' = [stage EXCEPT ![p] = to, ![q] = "none"]
        /\ com' = [com EXCEPT ![q] = "none"]
        /\ asked' = asked \ {q}
    BY <1>3 DEF Deliver
  <2>2. Typed'
    BY <1>1, <2>1 DEF CInv, Typed, Stages
  <2>3. stage'[q] = "none"
    BY <2>1 DEF CInv, Typed
  <2>4. LP!IInv' /\ Staged(q)'
    BY <2>1, <2>2, <2>3, EndKeeps
  <2>5. ASSUME p # q PROVE Staged(p)'
    <3>1. pc'[p] = pc[p] /\ oldpid'[p] = oldpid[p]
      BY <2>1, <2>5, LeaveEffect
    <3>2. stage'[p] = to /\ com'[p] = com[p]
      BY <2>1, <2>5 DEF CInv, Typed
    <3> QED
      BY <1>1, <3>1, <3>2 DEF Staged, Killing
  <2>6. ASSUME NEW r \in Procs \ {p, q} PROVE Staged(r)'
    <3>1. pc'[r] = pc[r] /\ oldpid'[r] = oldpid[r]
      BY <2>1, LeaveEffect
    <3>2. stage'[r] = stage[r] /\ com'[r] = com[r]
      BY <2>1 DEF CInv, Typed
    <3> QED
      BY <3>1, <3>2, OthersStaged
  <2>7. ASSUME NEW r \in Procs PROVE Staged(r)'
    BY <2>4, <2>5, <2>6
  <2> QED
    BY <2>2, <2>4, <2>7 DEF CInv
<1> QED
  BY <1>2, <1>3

\* The signal reaches its process, or there is none any more.
LEMMA SendKeeps ==
  ASSUME CInv, NEW p \in Procs,
         Send(p, "int", "waitint") \/ Send(p, "term", "waitterm")
  PROVE  CInv'
<1>1. stage[p] \in Killing /\ Staged(p)
  BY DEF Send, Killing, CInv
<1>2. CASE ~L!Alive(oldpid[p])
  <2>1. Move(p, "gone") /\ UNCHANGED <<lockVars, com, asked>>
    BY <1>2 DEF Send
  <2>2. Staged(p)'
    BY <1>1, <2>1 DEF CInv, Typed, Staged, Killing, Move, lockVars
  <2> QED
    BY <2>1, <2>2, MoveKeeps DEF CInv, Typed, Stages
<1>3. CASE L!Alive(oldpid[p])
  <2>1. oldpid[p] \in Procs /\ stage[oldpid[p]] # "none"
    BY <1>3 DEF L!Alive, CInv, Staged
  <2>2. PICK to \in {"waitint", "waitterm"} : Deliver(p, oldpid[p], to)
    BY <1>3 DEF Send
  <2> QED
    BY <1>1, <2>1, <2>2, DeliverKeeps
<1> QED
  BY <1>2, <1>3

\* stop exits, restart asks for the lock once more.
LEMMA KilledKeeps ==
  ASSUME CInv, NEW p \in Procs, Killed(p)
  PROVE  CInv'
<1>1. CASE com[p] = "stop"
  BY <1>1, ExitKeeps DEF Killed
<1>2. CASE com[p] # "stop"
  <2>1. L!Again(p) /\ Move(p, "again") /\ UNCHANGED <<com, asked>>
    BY <1>2 DEF Killed
  <2>2. LP!IInv'
    <3>1. LP!Again(p)
      BY <2>1 DEF L!Again, LP!Again, L!Goto, LP!Goto, L!fileVars, LP!fileVars
    <3> QED
      BY <3>1, LockAssumed, LP!AgainKeeps DEF CInv
  <2>3. Typed'
    BY <2>1 DEF CInv, Typed, Move, Stages
  <2>4. ASSUME NEW q \in Procs PROVE Staged(q)'
    <3>1. CASE q = p
      BY <1>2, <2>1, <3>1, LockTypes
      DEF CInv, Typed, Move, Killed, L!Again, L!Goto, Staged, Killing
    <3>2. CASE q # p
      BY <2>1, <3>2, LockTypes, OthersStaged DEF CInv, Typed, Move, L!Again, L!Goto
    <3> QED
      BY <3>1, <3>2
  <2> QED
    BY <2>2, <2>3, <2>4 DEF CInv
<1> QED
  BY <1>1, <1>2

\* The children of a master, and the file.
LEMMA WorldKeeps ==
  ASSUME CInv, Remove \/ \E p \in Procs : ForkChild(p) \/ ChildEnds(p)
  PROVE  CInv'
<1>1. UNCHANGED <<com, stage, asked, oldpid>>
  BY DEF Remove, ForkChild, ChildEnds, L!Unlink, L!procVars, L!Fork, L!HeirEnds
<1>2. LP!IInv'
  <2>1. LP!Unlink \/ \E p \in Procs : LP!Fork(p) \/ LP!HeirEnds(p)
    BY SameLock, SameSteps DEF Remove, ForkChild, ChildEnds
  <2> QED
    BY <2>1, LockAssumed, LP!StepKeeps DEF CInv, LP!Next
<1>3. ASSUME NEW q \in Procs PROVE Staged(q)'
  <2>1. pc'[q] = pc[q] \/ {pc[q], pc'[q]} \subseteq {"idle", "gone"}
    BY LockTypes DEF Remove, ForkChild, ChildEnds, L!Unlink, L!procVars, L!Fork, L!HeirEnds,
       L!Goto
  <2> QED
    BY <1>1, <2>1 DEF CInv, Staged, Killing
<1> QED
  BY <1>1, <1>2, <1>3 DEF CInv, Typed

\* Every step keeps the invariant ...
LEMMA StepKeeps == CInv /\ [Next]_vars => CInv'
<1> SUFFICES ASSUME CInv, [Next]_vars PROVE CInv'
  OBVIOUS
<1>1. ASSUME NEW p \in Procs, NEW c \in Commands, Begin(p, c) PROVE CInv'
  BY <1>1, BeginKeeps
<1>2. ASSUME NEW p \in Procs, Run(p) PROVE CInv'
  <2>1. CASE Locking(p)
    BY <2>1, LockingKeeps
  <2>2. CASE LockedExit(p) \/ RefusedExit(p) \/ Said(p)
    <3>1. stage[p] # "none" /\ Exit(p)
      BY <2>2 DEF LockedExit, RefusedExit, Said, Returned
    <3> QED
      BY <3>1, ExitKeeps
  <2>3. CASE \/ GoOn(p) \/ StartKilling(p) \/ ProbeTarget(p) \/ KillGroup(p) \/ RestartGoesOn(p)
             \/ Await(p, "waitint", "term") \/ Await(p, "waitterm", "kill")
    BY <2>3, DecideKeeps
  <2>4. CASE Send(p, "int", "waitint") \/ Send(p, "term", "waitterm")
    BY <2>4, SendKeeps
  <2>5. CASE Killed(p)
    BY <2>5, KilledKeeps
  <2>6. CASE CheckReports(p)
    BY <2>6, CheckKeeps
  <2> QED
    BY <1>2, <2>1, <2>2, <2>3, <2>4, <2>5, <2>6 DEF Run, Kill
<1>3. ASSUME NEW p \in Procs, MasterObeys(p) \/ Crash(p) PROVE CInv'
  BY <1>3, ExitKeeps DEF MasterObeys, Crash
<1>4. CASE Remove \/ \E p \in Procs : ForkChild(p) \/ ChildEnds(p)
  BY <1>4, WorldKeeps
<1>5. CASE UNCHANGED vars
  <2>1. LP!IInv'
    BY <1>5, LockUntouched DEF vars
  <2> QED
    BY <1>5, <2>1 DEF vars, lockVars, CInv, Typed, Staged
<1> QED
  BY <1>1, <1>2, <1>3, <1>4, <1>5 DEF Next

\* ... so that it holds throughout.
LEMMA CInvHolds == Spec => []CInv
BY InitKeeps, StepKeeps, PTL DEF Spec

\* The variables of daemond_cli_run and of the lock below it keep their ranges, for
\* any number of processes, inodes and retries.
THEOREM TypeCorrect == Spec => []TypeOK
<1>1. CInv => TypeOK
  BY SameLock DEF CInv, LP!IInv, Typed, TypeOK
<1> QED
  BY <1>1, CInvHolds, PTL

\* OneMaster: a second master only beside one whose file was removed or one that
\* restart made without the lock, whatever commands are given and whoever dies.
THEOREM OneMasterHolds == Spec => []OneMaster
<1>1. CInv => OneMaster
  <2> SUFFICES ASSUME CInv, NEW p \in Procs, NEW q \in Procs, p # q,
                      Master(p), Master(q), ~Unlocked(p), ~Unlocked(q)
               PROVE  Revoked(p) \/ Revoked(q)
    BY DEF OneMaster
  <2>1. flocked[p] /\ flocked[q]
    BY LockTypes DEF Master, Unlocked, CInv, Staged, LP!IInv, LP!Descriptors, LP!Described,
       LP!Flocking, LP!Locked
  <2> QED
    BY <2>1 DEF Revoked, CInv, LP!IInv, LP!OneFlock
<1> QED
  BY <1>1, CInvHolds, PTL

-----------------------------------------------------------------------------
(* The refinement: to the pid file a command is nothing but a user of      *)
(* PidMutex, whoever kills it and however often it asks for the lock.      *)

\* A step of the abstract lock, or a stutter.
MutexStep == [LP!Mutex!Next]_(LP!Mutex!vars)

\* A step of the lock is one of PidMutex, or none.
LEMMA LockStepMaps ==
  ASSUME CInv,
         LP!Unlink \/ \E p \in Procs : LP!Start(p) \/ LP!Lock(p) \/ LP!Fork(p) \/ LP!HeirEnds(p)
  PROVE  MutexStep
BY LockAssumed, LP!StepRefines DEF CInv, LP!Next, MutexStep

\* So is a step of daemond_cli_run that leaves the lock alone,
LEMMA QuietMaps ==
  ASSUME CInv, UNCHANGED lockVars
  PROVE  MutexStep
<1>1. UNCHANGED LP!vars
  BY DEF lockVars, LP!vars, LP!fileVars, LP!procVars
<1> QED
  BY <1>1, LockAssumed, LP!StepRefines DEF CInv, MutexStep

\* the end of a process, which gives up what it holds unless it has children,
LEMMA LeaveMaps ==
  ASSUME CInv, NEW p \in Procs, stage[p] # "none", L!Leave(p)
  PROVE  MutexStep
<1>1. LP!Leave(p) /\ pc[p] \notin {"idle", "gone"}
  BY SameSteps, CanLeave
<1> QED
  BY <1>1, LockAssumed, LP!LeaveDrops DEF CInv, MutexStep

\* and the second try of a restart, which begins with nothing.
LEMMA AgainMaps ==
  ASSUME CInv, NEW p \in Procs, L!Again(p)
  PROVE  MutexStep
<1>1. path' = path /\ fd' = fd /\ pc[p] = "refused" /\ pc' = [pc EXCEPT ![p] = "stat"]
  BY DEF L!Again, L!Goto, L!fileVars
<1>2. LP!Holders' = LP!Holders
  BY <1>1, LockTypes DEF LP!Holders, LP!Locked
<1>3. UNCHANGED LP!Mutex!vars
  BY <1>1, <1>2, LockAssumed, LP!Stutter
<1> QED
  BY <1>3 DEF MutexStep

\* A signal takes effect on the process it reaches, wherever that is with the lock.
LEMMA SendMaps ==
  ASSUME CInv, NEW p \in Procs,
         Send(p, "int", "waitint") \/ Send(p, "term", "waitterm")
  PROVE  MutexStep
<1>1. CASE UNCHANGED lockVars
  BY <1>1, QuietMaps
<1>2. CASE ~ UNCHANGED lockVars
  <2>1. L!Alive(oldpid[p]) /\ L!Leave(oldpid[p])
    BY <1>2 DEF Send, Deliver
  <2>2. oldpid[p] \in Procs /\ stage[oldpid[p]] # "none"
    <3>1. /\ oldpid[p] \in Procs
          /\ pc[oldpid[p]] \notin {"idle", "gone"}
      BY <2>1 DEF L!Alive
    <3> QED
      BY <3>1 DEF CInv, Staged
  <2> QED
    BY <2>1, <2>2, LeaveMaps
<1> QED
  BY <1>1, <1>2

\* Every step of a command is one of the abstract lock.
LEMMA StepMaps == CInv /\ [Next]_vars => MutexStep
<1> SUFFICES ASSUME CInv, [Next]_vars PROVE MutexStep
  OBVIOUS
<1>1. ASSUME NEW p \in Procs, NEW c \in Commands, Begin(p, c) PROVE MutexStep
  BY <1>1, SameSteps, LockStepMaps DEF Begin
<1>2. ASSUME NEW p \in Procs, Run(p) PROVE MutexStep
  <2>1. CASE Locking(p)
    BY <2>1, SameSteps, LockStepMaps DEF Locking
  <2>2. CASE LockedExit(p) \/ RefusedExit(p) \/ Said(p)
    <3>1. stage[p] # "none" /\ L!Leave(p)
      BY <2>2 DEF LockedExit, RefusedExit, Said, Returned, Exit
    <3> QED
      BY <3>1, LeaveMaps
  <2>3. CASE \/ GoOn(p) \/ StartKilling(p) \/ ProbeTarget(p) \/ KillGroup(p) \/ RestartGoesOn(p)
             \/ Await(p, "waitint", "term") \/ Await(p, "waitterm", "kill")
    BY <2>3, QuietMaps
    DEF GoOn, StartKilling, ProbeTarget, KillGroup, RestartGoesOn, Await
  <2>4. CASE Send(p, "int", "waitint") \/ Send(p, "term", "waitterm")
    BY <2>4, SendMaps
  <2>5. CASE Killed(p)
    BY <2>5, LeaveMaps, AgainMaps DEF Killed, Exit
  <2>6. CASE CheckReports(p)
    BY <2>6, QuietMaps, LeaveMaps DEF CheckReports, Exit, Returned
  <2> QED
    BY <1>2, <2>1, <2>2, <2>3, <2>4, <2>5, <2>6 DEF Run, Kill
<1>3. ASSUME NEW p \in Procs, MasterObeys(p) \/ Crash(p) PROVE MutexStep
  BY <1>3, LeaveMaps DEF MasterObeys, Crash, Exit
<1>4. CASE Remove \/ \E p \in Procs : ForkChild(p) \/ ChildEnds(p)
  BY <1>4, SameLock, SameSteps, LockStepMaps DEF Remove, ForkChild, ChildEnds
<1>5. CASE UNCHANGED vars
  BY <1>5, QuietMaps DEF vars
<1> QED
  BY <1>1, <1>2, <1>3, <1>4, <1>5 DEF Next

\* Commands that kill each other at any place of daemond_pid_lock, and restarts that run
\* it twice, still implement the revocable lock: what LockImplements says of the lock
\* alone holds of all of daemond_cli_run.
THEOREM CommandsImplement == Spec => LP!LockSpec
<1>1. Init => LP!Mutex!Init
  BY SameLock DEF Init, LP!Init, LP!Mutex!Init, LP!Holders, LP!Locked
<1> QED
  BY <1>1, StepMaps, CInvHolds, PTL DEF Spec, MutexStep, LP!LockSpec, LP!Mutex!Spec

\* In particular no two commands have a good lock at a time.
THEOREM CommandsExclude == Spec => []LP!Mutex!Exclusive
BY CommandsImplement, LockAssumed, LP!MutexExclusive

-----------------------------------------------------------------------------
(* A command is bounded as well, which is what CommandEnds needs besides   *)
(* fairness: no step of its own leaves it as much to do as before.         *)

\* No command is running: it has exited, or serves as the master.
Ended == {"none", "master"}

\* What comes after a stage, but for the steps of the lock.
Ahead(at) ==
  CASE at \in {"running", "again"} -> 1
    [] at = "gone" -> LP!Most + 2
    [] at = "kill" -> LP!Most + 3
    [] at = "waitterm" -> LP!Most + 4
    [] at = "term" -> LP!Most + 5
    [] at = "waitint" -> LP!Most + 6
    [] at = "int" -> LP!Most + 7
    [] at = "probe" -> LP!Most + 8
    [] OTHER -> LP!Most + 9

\* An upper bound of the steps of a command until it ends or is a master.
Rest(p) ==
  IF stage[p] \in Ended THEN 0
  ELSE Ahead(stage[p]) + IF stage[p] \in {"lock", "again"} THEN LP!Left(p) ELSE 0

\* No command ever has more to do than this.
CommandsBounded == \A p \in Procs : Rest(p) \in 0 .. 2 * LP!Most + 9

\* A step either leaves a running command less to do, or is one of others.
CommandProgress ==
  \A p \in Procs :
    stage[p] \notin Ended =>
      Rest(p)' < Rest(p) \/ UNCHANGED <<stage[p], pc[p], recurse[p], failures[p]>>

\* The steps that are left of the lock, as PidLockProofs bounds them.
LeftTyped == \A p \in Procs : LP!Left(p) \in Nat /\ LP!Left(p) <= LP!Most

\* A lock takes a whole number of steps at most.
LEMMA MostOK == LP!Most \in Nat
<1>1. \A a \in Nat, b \in Nat : a * b \in Nat
  OBVIOUS
<1>2. MaxRecurse \in Nat /\ MaxFailures \in Nat
  BY CliAssumption
<1>3. MaxRecurse * MaxFailures \in Nat
  BY <1>1, <1>2
<1> QED
  BY <1>2, <1>3 DEF LP!Most

\* The bound of the lock holds inside of a command.
LEMMA LeftOK == CInv => LeftTyped
<1> SUFFICES ASSUME CInv, NEW p \in Procs
             PROVE  LP!Left(p) \in Nat /\ LP!Left(p) <= LP!Most
  BY DEF LeftTyped
<1>1. LP!Left(p) \in 0 .. LP!Most /\ LP!Left(p) \in Nat
  BY LockAssumed, LP!CallIsBounded, LP!TriesNat DEF CInv, LP!CallsBounded
<1> QED
  BY <1>1, MostOK

\* The same of the next state.
LEMMA LeftNext == CInv' => LeftTyped'
BY LeftOK, PTL

\* Something is left in every stage, and one step after the lock of a restart.
LEMMA AheadOK ==
  \A at \in Stages \ Ended :
    /\ Ahead(at) \in 1 .. LP!Most + 9
    /\ at = "again" => Ahead(at) = 1
BY MostOK DEF Ahead, Stages, Killing, Ended

\* A command in its first stage has the most to do.
LEMMA RestOK == CInv => CommandsBounded
<1> SUFFICES ASSUME CInv, NEW p \in Procs PROVE Rest(p) \in 0 .. 2 * LP!Most + 9
  BY DEF CommandsBounded
<1>1. LP!Left(p) \in Nat /\ LP!Most \in Nat /\ LP!Left(p) <= LP!Most
  BY LeftOK, MostOK DEF LeftTyped
<1>2. stage[p] \in Stages
  BY DEF CInv, Typed
<1>3. stage[p] \notin Ended => Ahead(stage[p]) \in 1 .. LP!Most + 9
  BY <1>2, AheadOK
<1> QED
  BY <1>1, <1>3 DEF Rest

\* Whoever has come to an end has nothing left to do.
LEMMA EndedRest ==
  ASSUME CInv, NEW p \in Procs, stage[p] \notin Ended, stage'[p] \in Ended
  PROVE  Rest(p)' < Rest(p)
<1>1. LP!Left(p) \in Nat /\ LP!Most \in Nat
  BY LeftOK, MostOK DEF LeftTyped
<1>2. Ahead(stage[p]) \in 1 .. LP!Most + 9
  BY AheadOK DEF CInv, Typed
<1>3. Rest(p)' = 0
  BY DEF Rest, Ended
<1>4. Rest(p) > 0
  BY <1>1, <1>2 DEF Rest
<1> QED
  BY <1>3, <1>4

\* A step of the command.
LEMMA RunProgresses ==
  ASSUME CInv, CInv', NEW p \in Procs, Run(p)
  PROVE  Rest(p)' < Rest(p)
<1>1. /\ LP!Left(p) \in Nat /\ LP!Most \in Nat /\ LP!Left(p) <= LP!Most
      /\ LP!Left(p)' \in Nat /\ LP!Left(p)' <= LP!Most
      /\ stage \in [Procs -> Stages]
  BY LeftOK, LeftNext, MostOK DEF CInv, Typed, LeftTyped, LP!Most
<1>2. stage[p] \notin Ended
  BY DEF Run, Locking, GoOn, LockedExit, RefusedExit, CheckReports, StartKilling, Said, Kill,
     RestartGoesOn, ProbeTarget, Send, Await, KillGroup, Killed, Returned, Ended
<1>3. CASE stage'[p] \in Ended
  BY <1>2, <1>3, EndedRest
<1>4. CASE stage'[p] \notin Ended
  <2>1. CASE Locking(p)
    <3>1. stage[p] \in {"lock", "again"} /\ L!Lock(p)
      BY <2>1 DEF Locking
    <3>2. stage'[p] = stage[p]
      BY <1>1, <1>4, <2>1 DEF Locking, Move, Ended
    <3>3. LP!Left(p)' < LP!Left(p)
      BY <3>1, SameSteps, LockAssumed, LP!LockProgresses DEF CInv
    <3>4. Ahead(stage[p]) \in Nat /\ Ahead(stage[p])' = Ahead(stage[p])
      BY <1>1, <1>2, <3>2, AheadOK DEF Ahead, LP!Most
    <3> QED
      BY <1>1, <1>2, <3>1, <3>2, <3>3, <3>4 DEF Rest, Ended
  <2>2. CASE Killed(p)
    <3>1. stage[p] = "gone" /\ stage'[p] = "again"
      BY <1>1, <1>4, <2>2 DEF Killed, Exit, Move, Ended
    <3>2. Rest(p) = LP!Most + 2 /\ Rest(p)' = 1 + LP!Left(p)'
      BY <1>1, <3>1 DEF Rest, Ahead, Ended
    <3> QED
      BY <1>1, <3>2
  <2>3. CASE ~ Locking(p) /\ ~ Killed(p)
    <3>1. \/ stage[p] = "lock" /\ stage'[p] \in {"running", "probe"}
          \/ stage[p] = "probe" /\ stage'[p] \in {"int", "gone"}
          \/ stage[p] = "int" /\ stage'[p] \in {"waitint", "gone"}
          \/ stage[p] = "waitint" /\ stage'[p] \in {"term", "gone"}
          \/ stage[p] = "term" /\ stage'[p] \in {"waitterm", "gone"}
          \/ stage[p] = "waitterm" /\ stage'[p] \in {"kill", "gone"}
          \/ stage[p] = "kill" /\ stage'[p] = "gone"
      BY <1>1, <1>4, <2>3
      DEF Run, GoOn, LockedExit, RefusedExit, CheckReports, StartKilling, Said, Kill,
          RestartGoesOn, ProbeTarget, Send, Deliver, Await, KillGroup, Returned, Ended, Exit, Move
    <3>2. stage'[p] \notin {"lock", "again", "none", "master"}
      BY <3>1
    <3>3. Ahead(stage[p])' < Ahead(stage[p]) /\ Ahead(stage[p])' \in Nat /\ Ahead(stage[p]) \in Nat
      BY <1>1, <3>1 DEF Ahead, LP!Most
    <3>4. Rest(p)' = Ahead(stage[p])'
      BY <3>2, <3>3 DEF Rest, Ended
    <3>5. Rest(p) >= Ahead(stage[p])
      BY <1>1, <1>2, <3>3 DEF Rest, Ended
    <3>6. Rest(p) \in Nat
      BY <1>1, <1>2, <3>3 DEF Rest, Ended
    <3> QED
      BY <3>3, <3>4, <3>5, <3>6
  <2> QED
    BY <2>1, <2>2, <2>3
<1> QED
  BY <1>3, <1>4

\* What others do to p: nothing, or its end.
LEMMA OthersLeave ==
  ASSUME CInv, NEW p \in Procs, NEW q \in Procs, p # q, stage[p] \notin Ended,
         \/ Run(q) \/ MasterObeys(q) \/ ForkChild(q) \/ ChildEnds(q) \/ Crash(q)
         \/ \E c \in Commands : Begin(q, c)
  PROVE  stage'[p] \in Ended \/ UNCHANGED <<stage[p], pc[p], recurse[p], failures[p]>>
<1>1. /\ stage \in [Procs -> Stages] /\ pc \in [Procs -> LP!Places]
      /\ failures \in [Procs -> 0 .. MaxFailures] /\ recurse \in [Procs -> 0 .. MaxRecurse]
  BY DEF CInv, Typed, LP!IInv, LP!TypeOK
<1>2. CASE Locking(q)
  BY <1>1, <1>2
  DEF Locking, Move, L!Lock, L!Goto, L!Leave, L!Stat, L!Fopen, L!FopenDies, L!Scan, L!Probe,
      L!FileExists, L!Open, L!Retry, L!Opened, L!Create, L!StatFails, L!OpenFails, L!Flock,
      L!Verify, L!Reopen, L!RecursionDies, L!Write
<1>3. CASE Exit(q)
  BY <1>1, <1>3 DEF Exit, Move, L!Leave, L!Goto
<1>4. CASE Send(q, "int", "waitint") \/ Send(q, "term", "waitterm")
  BY <1>1, <1>4 DEF Send, Deliver, Move, L!Leave, L!Goto, lockVars, Ended
<1>5. CASE Killed(q)
  BY <1>1, <1>3, <1>5 DEF Killed, L!Again, L!Goto, Move
<1>6. CASE \/ GoOn(q) \/ StartKilling(q) \/ ProbeTarget(q) \/ KillGroup(q) \/ RestartGoesOn(q)
           \/ Await(q, "waitint", "term") \/ Await(q, "waitterm", "kill") \/ CheckReports(q)
  BY <1>1, <1>3, <1>6
  DEF GoOn, StartKilling, ProbeTarget, KillGroup, RestartGoesOn, Await, CheckReports, Move, lockVars
<1>7. CASE ForkChild(q) \/ ChildEnds(q) \/ \E c \in Commands : Begin(q, c)
  BY <1>1, <1>7 DEF ForkChild, ChildEnds, Begin, L!Fork, L!HeirEnds, L!Start, L!Goto, Move
<1> QED
  BY <1>2, <1>3, <1>4, <1>5, <1>6, <1>7
  DEF Run, Kill, LockedExit, RefusedExit, Said, MasterObeys, Crash

\* A command comes to its end in at most twice as many steps as a lock takes, and nine,
\* whatever else goes on: it never waits for another process without a limit.
THEOREM CommandIsBounded == Spec => []CommandsBounded /\ [][CommandProgress]_vars
<1>1. CInv /\ CInv' /\ [Next]_vars => [CommandProgress]_vars
  <2> SUFFICES ASSUME CInv, CInv', Next, NEW p \in Procs, stage[p] \notin Ended
               PROVE  \/ Rest(p)' < Rest(p)
                      \/ UNCHANGED <<stage[p], pc[p], recurse[p], failures[p]>>
    BY DEF CommandProgress
  <2>1. CASE Run(p)
    BY <2>1, RunProgresses
  <2>2. CASE Crash(p) \/ MasterObeys(p)
    <3>1. stage'[p] = "none"
      BY <2>2 DEF Crash, MasterObeys, Exit, Move, CInv, Typed
    <3> QED
      BY <3>1, EndedRest DEF Ended
  <2>3. CASE \E c \in Commands : Begin(p, c)
    BY <2>3 DEF Begin, L!Start, CInv, Staged, Ended
  <2>4. CASE ForkChild(p)
    BY <2>4 DEF ForkChild, Ended
  <2>5. CASE ChildEnds(p)
    <3>1. pc[p] # "gone"
      BY DEF CInv, Staged, Ended
    <3> QED
      BY <2>5, <3>1 DEF ChildEnds, L!HeirEnds
  <2>6. CASE Remove
    BY <2>6 DEF Remove, L!Unlink, L!procVars
  <2>7. ASSUME NEW q \in Procs, p # q,
               \/ Run(q) \/ MasterObeys(q) \/ ForkChild(q) \/ ChildEnds(q) \/ Crash(q)
               \/ \E c \in Commands : Begin(q, c)
        PROVE  \/ Rest(p)' < Rest(p)
               \/ UNCHANGED <<stage[p], pc[p], recurse[p], failures[p]>>
    BY <2>7, OthersLeave, EndedRest
  <2> QED
    BY <2>1, <2>2, <2>3, <2>4, <2>5, <2>6, <2>7 DEF Next
<1> QED
  BY <1>1, RestOK, CInvHolds, PTL DEF Spec
=============================================================================
