----------------------------- MODULE Daemonize -----------------------------
(***************************************************************************)
(* daemond_daemonize: the launcher forks an intermediate process, which    *)
(* forks the daemon and exits; the daemon takes the pid file over and the  *)
(* launcher looks into it to report on the daemon.                         *)
(*                                                                         *)
(* All three share one open file description of the pid file, and with it  *)
(* one offset.  The offset is either at the start of the file or behind    *)
(* what is written there; a number written behind another one is not seen  *)
(* by fscanf("%d") from the start.  The intermediate process writes        *)
(* nothing.                                                                *)
(***************************************************************************)

CONSTANTS
  Launcher, Daemon,   \* their process ids
  NoTarget            \* no process id

ASSUME DaemonizeAssumption ==
  /\ Launcher # Daemon
  /\ NoTarget \notin {Launcher, Daemon}

VARIABLES
  launcher,   \* where the launcher is
  middle,     \* where the intermediate process is
  daemon,     \* where the daemon is
  content,    \* the number at the start of the pid file
  offset,     \* the offset of the shared description
  pid,        \* the launcher's local, the number it has read, or NoTarget
  target,     \* whom a stop given at another terminal has found in the file, or
              \* NoTarget
  seen        \* history, read by the properties only: where the daemon was when the
              \* launcher read the file, or "never"

vars == <<launcher, middle, daemon, content, offset, pid, target, seen>>

\* "ok", "failed" and "killed": exit(0) after "looks ok", exit(255), a signal.
LauncherEnded == {"ok", "failed", "killed"}
LauncherPlaces == {"fork", "wait", "seek", "read", "rewind", "check"} \cup LauncherEnded
MiddlePlaces == {"none", "fork", "exited"}
DaemonPlaces == {"none", "relock", "write", "setsid", "detach", "master", "dead"}

TypeOK ==
  /\ launcher \in LauncherPlaces
  /\ middle \in MiddlePlaces
  /\ daemon \in DaemonPlaces
  /\ content \in {Launcher, Daemon}
  /\ offset \in {"start", "end"}
  /\ pid \in {Launcher, Daemon, NoTarget}
  /\ launcher \in {"rewind", "check", "ok"} => pid # NoTarget
  /\ target \in {Launcher, Daemon, NoTarget}
  /\ seen \in DaemonPlaces \cup {"never"}

\* daemond_pid_lock has just returned in the launcher: its number is in the file.
Init ==
  /\ launcher = "fork"
  /\ middle = "none"
  /\ daemon = "none"
  /\ content = Launcher
  /\ offset = "end"
  /\ pid = NoTarget
  /\ target = NoTarget
  /\ seen = "never"

DaemonAlive == daemon \notin {"none", "dead"}

\* A key at the terminal reaches the daemon as well until it has its own session.
InGroup == daemon \in {"relock", "write", "setsid"}

\* kill(n, 0) = 0
Alive(n) == IF n = Launcher THEN launcher \notin LauncherEnded ELSE DaemonAlive

-----------------------------------------------------------------------------
(* The launcher.                                                           *)

Fork1 ==
  /\ launcher = "fork"
  /\ \/ launcher' = "wait" /\ middle' = "fork"
     \/ launcher' = "failed" /\ UNCHANGED middle
  /\ UNCHANGED <<daemon, content, offset, pid, target, seen>>

\* waitpid has the intermediate process.
Waited ==
  /\ launcher = "wait"
  /\ middle = "exited"
  /\ launcher' = "seek"
  /\ UNCHANGED <<middle, daemon, content, offset, pid, target, seen>>

\* A plausible slip: there is no limit to the waiting.
TiredNever == FALSE /\ UNCHANGED vars

\* "tired of waiting", after 10 seconds.
Tired ==
  /\ launcher = "wait"
  /\ launcher' = "failed"
  /\ UNCHANGED <<middle, daemon, content, offset, pid, target, seen>>

\* A plausible slip: the file is read on from where the offset is.
ReadInPlace ==
  /\ launcher = "seek"
  /\ launcher' = "read"
  /\ UNCHANGED <<middle, daemon, content, offset, pid, target, seen>>

\* daemond_pid_read: fseek, fscanf, fseek.
ReadSeek ==
  /\ launcher = "seek"
  /\ offset' = "start"
  /\ launcher' = "read"
  /\ UNCHANGED <<middle, daemon, content, pid, target, seen>>

\* A plausible slip: the result of fscanf is not looked at, new is not set.
ReadUnchecked ==
  /\ launcher = "read"
  /\ launcher' = "rewind"
  /\ pid' = IF offset = "start" THEN content ELSE NoTarget
  /\ offset' = "end"
  /\ seen' = daemon
  /\ UNCHANGED <<middle, daemon, content, target>>

\* There is nothing to read behind the number: die().
Read ==
  /\ launcher = "read"
  /\ IF offset = "start"
       THEN launcher' = "rewind" /\ pid' = content
       ELSE launcher' = "failed" /\ UNCHANGED pid
  /\ offset' = "end"
  /\ seen' = daemon
  /\ UNCHANGED <<middle, daemon, content, target>>

\* stdio may move the offset of the description back, or only its own place in what it
\* has buffered and the offset to the end of that, even if the daemon has moved it
\* meanwhile.  The number is then compared with that of the intermediate process, which
\* never wrote its own: the loop around the reading ends here.
Rewind ==
  /\ launcher = "rewind"
  /\ offset' \in {"start", "end"}
  /\ launcher' = "check"
  /\ UNCHANGED <<middle, daemon, content, pid, target, seen>>

\* A plausible slip: the number was in the file, so all is well.
CheckNothing ==
  /\ launcher = "check"
  /\ launcher' = "ok"
  /\ UNCHANGED <<middle, daemon, content, offset, pid, target, seen>>

\* "checking it's live".
Check ==
  /\ launcher = "check"
  /\ launcher' = IF Alive(pid) THEN "ok" ELSE "failed"
  /\ UNCHANGED <<middle, daemon, content, offset, pid, target, seen>>

Launch ==
  Fork1 \/ Waited \/ Tired \/ ReadSeek \/ Read \/ Rewind \/ Check

-----------------------------------------------------------------------------
(* The intermediate process and the daemon.                                *)

Fork2 ==
  /\ middle = "fork"
  /\ middle' = "exited"
  /\ \/ daemon' = "relock"
     \/ UNCHANGED daemon
  /\ UNCHANGED <<launcher, content, offset, pid, target, seen>>

\* A plausible slip: the number is written where the last one ended.
RelockInPlace ==
  /\ daemon = "relock"
  /\ daemon' = "write"
  /\ UNCHANGED <<launcher, middle, content, offset, pid, target, seen>>

\* daemond_pid_relock: flock on a description that has the lock already succeeds;
\* daemond_pid_write seeks and then writes.
Relock ==
  /\ daemon = "relock"
  /\ offset' = "start"
  /\ daemon' = "write"
  /\ UNCHANGED <<launcher, middle, content, pid, target, seen>>

Write ==
  /\ daemon = "write"
  /\ content' = IF offset = "start" THEN Daemon ELSE content
  /\ offset' = "end"
  /\ daemon' = "setsid"
  /\ UNCHANGED <<launcher, middle, pid, target, seen>>

Setsid ==
  /\ daemon = "setsid"
  /\ daemon' = "detach"
  /\ UNCHANGED <<launcher, middle, content, offset, pid, target, seen>>

\* /dev/null for the standard streams, and on to daemond_master.
Detach ==
  /\ daemon = "detach"
  /\ daemon' = "master"
  /\ UNCHANGED <<launcher, middle, content, offset, pid, target, seen>>

\* die(), or a signal.
DaemonDies ==
  /\ DaemonAlive
  /\ daemon' = "dead"
  /\ UNCHANGED <<launcher, middle, content, offset, pid, target, seen>>

\* SIGINT from the terminal, which has its default action in all three: nobody
\* installs handlers before daemond_master.
Interrupt ==
  /\ launcher \notin LauncherEnded
  /\ launcher' = "killed"
  /\ middle' = IF middle = "fork" THEN "exited" ELSE middle
  /\ daemon' = IF InGroup THEN "dead" ELSE daemon
  /\ UNCHANGED <<content, offset, pid, target, seen>>

\* Another process reads the file in daemond_pid_lock, through a description of its
\* own, and finds a living process named there ...
StopReads ==
  /\ target = NoTarget
  /\ Alive(content)
  /\ target' = content
  /\ UNCHANGED <<launcher, middle, daemon, content, offset, pid, seen>>

\* ... which daemond_cli_kill sends SIGINT, if it is still there.  A daemon that is in
\* daemond_master by now makes a note of it, and exits or not (DaemonDies).
StopHits ==
  /\ target # NoTarget
  /\ target' = NoTarget
  /\ launcher' = IF target = Launcher /\ Alive(Launcher) THEN "killed" ELSE launcher
  /\ daemon' = IF target = Daemon /\ daemon # "master" THEN "dead" ELSE daemon
  /\ UNCHANGED <<middle, content, offset, pid, seen>>

Others ==
  \/ Fork2 \/ Relock \/ Write \/ Setsid \/ Detach \/ DaemonDies
  \/ Interrupt \/ StopReads \/ StopHits

Next == Launch \/ Others

\* The launcher is scheduled; the others may never be.
Spec == Init /\ [][Next]_vars /\ WF_vars(Launch)

-----------------------------------------------------------------------------
Written == {"setsid", "detach", "master"}

\* The offset that the launcher moves under the daemon's write costs the file the
\* daemon's number in one case only: the launcher has read its own number before, and
\* has taken it for the daemon's.
FileNamesDaemon ==
  daemon \in Written => content = Daemon \/ pid = Launcher

\* The other way round, die() of daemond_pid_read, when the daemon has moved the offset
\* between the launcher's fseek and its fscanf, does no harm: the number is there.  The
\* two never spoil each other's use of the offset in one start.
ReadFailsLate ==
  [][launcher = "read" /\ launcher' = "failed" => content = Daemon]_vars

SaysOk == launcher # "ok" /\ launcher' = "ok"

\* exit(0) of the launcher, after "looks ok", tells of a daemon that is there ...
LooksOk == [][SaysOk => DaemonAlive]_vars

\* ... at least if the daemon had written its number and lived when the launcher read
\* the file: it may have died since, and that the launcher sees.
OkIsTrue == [][SaysOk /\ seen \in Written => DaemonAlive]_vars

\* The launcher comes back to its terminal, even if the other two never run,
\* and whatever the terminal sends.
LauncherEnds == <>(launcher \in LauncherEnded)
=============================================================================
