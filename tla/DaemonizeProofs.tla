-------------------------- MODULE DaemonizeProofs --------------------------
(***************************************************************************)
(* What the offset that the launcher and the daemon share can do to the    *)
(* pid file and to the launcher's report, whatever the order of their      *)
(* steps.                                                                  *)
(***************************************************************************)
EXTENDS Daemonize, TLAPS

\* Until the daemon has written its number it is not in the file, and afterwards the
\* daemon never goes back.
Unwritten == daemon \in {"none", "relock", "write"} => content = Launcher

\* The daemon does not exist before the second fork, and nobody is after it.
NotYetForked ==
  /\ launcher = "fork" => middle = "none"
  /\ middle \in {"none", "fork"} => daemon = "none"
  /\ target = Daemon => daemon # "none"

\* The launcher has not read the file yet.
Unread == {"fork", "wait", "seek", "read"}

\* Who has moved the offset, and what the launcher can have read.
Offset ==
  /\ launcher \in Unread => pid = NoTarget /\ seen = "never"
  /\ pid = Daemon => content = Daemon
  /\ launcher = "read" => offset = "start" \/ content = Daemon
  /\ daemon = "write" => offset = "start" \/ pid = Launcher
  /\ daemon \in Written => content = Daemon \/ pid = Launcher
  /\ seen \in Written => pid # Launcher

\* The inductive invariant.
IInv == TypeOK /\ Unwritten /\ NotYetForked /\ Offset

\* Nobody has been forked and the file names the launcher.
LEMMA InitKeeps == Init => IInv
BY DaemonizeAssumption
   DEF Init, IInv, TypeOK, Unwritten, NotYetForked, Offset, Unread, Written, LauncherPlaces,
       LauncherEnded, MiddlePlaces, DaemonPlaces

\* The launcher's steps keep the invariant.
LEMMA LaunchKeeps == IInv /\ Launch => IInv'
<1> SUFFICES ASSUME IInv, Launch PROVE IInv'
  OBVIOUS
<1> USE DaemonizeAssumption DEF Launch, Fork1, Waited, Tired, ReadSeek, Read, Rewind, Check
<1>1. TypeOK'
  BY DEF IInv, TypeOK, LauncherPlaces, LauncherEnded, MiddlePlaces
<1>2. Unwritten' /\ NotYetForked'
  <2>1. UNCHANGED <<daemon, content, target>> /\ (Fork1 \/ UNCHANGED middle)
    OBVIOUS
  <2>2. launcher' # "fork"
    OBVIOUS
  <2> QED
    BY <2>1, <2>2 DEF IInv, TypeOK, Unwritten, NotYetForked
<1>3. Offset'
  <2> USE DEF IInv, TypeOK, Unwritten, Offset, Unread, Written
  <2>1. CASE Fork1 \/ Waited \/ Tired
    BY <2>1
  <2>2. CASE ReadSeek
    BY <2>2
  <2>3. CASE Read
    <3>1. launcher' \notin Unread /\ seen' = daemon
      BY <2>3
    <3>2. daemon = "write" => offset = "start" /\ pid' = Launcher
      BY <2>3
    <3> QED
      BY <2>3, <3>1, <3>2
  <2>4. CASE Rewind
    BY <2>4
  <2>5. CASE Check
    BY <2>5
  <2> QED
    BY <2>1, <2>2, <2>3, <2>4, <2>5
<1> QED
  BY <1>1, <1>2, <1>3 DEF IInv

\* So do those of the other two processes, the terminal and the other command.
LEMMA OthersKeep == IInv /\ Others => IInv'
<1> SUFFICES ASSUME IInv, Others PROVE IInv'
  OBVIOUS
<1> USE DaemonizeAssumption
    DEF Others, Fork2, Relock, Write, Setsid, Detach, DaemonDies, Interrupt, StopReads,
        StopHits
<1>1. TypeOK'
  BY DEF IInv, TypeOK, LauncherPlaces, LauncherEnded, MiddlePlaces, DaemonPlaces
<1>2. Unwritten'
  BY DEF IInv, TypeOK, Unwritten, NotYetForked
<1>3. NotYetForked'
  <2> USE DEF IInv, NotYetForked
  <2>1. CASE Fork2 \/ Relock \/ Write \/ Setsid \/ Detach
    BY <2>1
  <2>2. CASE DaemonDies
    BY <2>2 DEF DaemonAlive
  <2>3. CASE Interrupt
    BY <2>3 DEF TypeOK, InGroup
  <2>4. CASE StopReads
    BY <2>4 DEF Unwritten
  <2>5. CASE StopHits
    BY <2>5 DEF TypeOK, Unwritten
  <2> QED
    BY <2>1, <2>2, <2>3, <2>4, <2>5
<1>4. Offset'
  <2> USE DEF IInv, TypeOK, Unwritten, Offset, Unread, Written
  <2>1. CASE Fork2
    BY <2>1 DEF NotYetForked
  <2>2. CASE Relock
    BY <2>2
  <2>3. CASE Write
    BY <2>3
  <2>4. CASE Setsid \/ Detach \/ DaemonDies \/ StopReads
    BY <2>4
  <2>5. CASE Interrupt
    BY <2>5
  <2>6. CASE StopHits
    BY <2>6
  <2> QED
    BY <2>1, <2>2, <2>3, <2>4, <2>5, <2>6
<1> QED
  BY <1>1, <1>2, <1>3, <1>4 DEF IInv

\* The invariant holds throughout.
LEMMA IInvHolds == Spec => []IInv
<1>1. IInv /\ UNCHANGED vars => IInv'
  BY DEF vars, IInv, TypeOK, Unwritten, NotYetForked, Offset, Written
<1> QED
  BY <1>1, InitKeeps, LaunchKeeps, OthersKeep, PTL DEF Spec, Next

\* The three processes and the file stay within what daemond_daemonize knows.
THEOREM TypeCorrect == Spec => []TypeOK
<1>1. IInv => TypeOK
  BY DEF IInv
<1> QED
  BY <1>1, IInvHolds, PTL

\* FileNamesDaemon: the daemon's number gets lost only to a launcher that has taken
\* its own number for it.
THEOREM DaemonNamed == Spec => []FileNamesDaemon
<1>1. IInv => FileNamesDaemon
  BY DEF IInv, Offset, FileNamesDaemon
<1> QED
  BY <1>1, IInvHolds, PTL

\* ReadFailsLate: a launcher that dies at its fscanf has the daemon's number in the
\* file.
THEOREM FailureIsHarmless == Spec => ReadFailsLate
<1>1. IInv /\ [Next]_vars =>
        [launcher = "read" /\ launcher' = "failed" => content = Daemon]_vars
  <2> SUFFICES ASSUME IInv, Next, launcher = "read", launcher' = "failed"
               PROVE  content = Daemon
    BY DEF vars
  <2>1. Read
    BY DEF Next, Launch, Others, Fork1, Waited, Tired, ReadSeek, Rewind, Check,
       Fork2, Relock, Write, Setsid, Detach, DaemonDies, Interrupt, StopReads, StopHits
  <2> QED
    BY <2>1 DEF Read, IInv, Offset
<1> QED
  BY <1>1, IInvHolds, PTL DEF Spec, ReadFailsLate

\* OkIsTrue: a launcher that has read the file behind the daemon's write says that it
\* looks ok only of a daemon that is alive at that step.
THEOREM ReportIsTrue == Spec => OkIsTrue
<1>1. IInv /\ [Next]_vars => [SaysOk /\ seen \in Written => DaemonAlive]_vars
  <2> SUFFICES ASSUME IInv, Next, SaysOk, seen \in Written PROVE DaemonAlive
    BY DEF vars
  <2>1. Check
    BY DEF SaysOk, Next, Launch, Others, Fork1, Waited, Tired, ReadSeek, Read, Rewind,
       Fork2, Relock, Write, Setsid, Detach, DaemonDies, Interrupt, StopReads, StopHits
  <2>2. pid = Daemon /\ Alive(pid)
    BY <2>1 DEF SaysOk, Check, IInv, TypeOK, Offset
  <2> QED
    BY <2>2, DaemonizeAssumption DEF Alive
<1> QED
  BY <1>1, IInvHolds, PTL DEF Spec, OkIsTrue
=============================================================================
