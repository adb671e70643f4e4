-------------------------------- MODULE Cli --------------------------------
(***************************************************************************)
(* daemond_cli_run: the commands start, stop, restart and check, given at  *)
(* any time by any number of processes that share a pid file, and the      *)
(* masters they start (without detaching) and take down.                   *)
(*                                                                         *)
(* The pid file is that of module PidLock, whose variables are shared; a   *)
(* process whose stage is "lock" or "again" is inside daemond_pid_lock.    *)
(* Of daemond_master all that counts here is that it handles SIGINT and    *)
(* SIGTERM by and by, forks children that inherit the descriptor of the    *)
(* lock, and may leave some of them behind.                                *)
(***************************************************************************)
EXTENDS Naturals, FiniteSets

CONSTANTS
  Commands,    \* the commands that are given
  Procs, LeftBehind, Inodes, NoInode, NoPid, MaxFailures, MaxRecurse, MaxHeirs,
  Crashes, Unlinks, OpenErrors   \* see PidLock

ASSUME CliAssumption ==
  /\ Commands \subseteq {"start", "stop", "restart", "check", "other"}
  /\ NoInode \notin Inodes
  /\ NoPid \notin Procs \cup LeftBehind
  /\ MaxFailures \in Nat \ {0}
  /\ MaxRecurse \in Nat
  /\ MaxHeirs \in Nat
  /\ {Crashes, Unlinks, OpenErrors} \subseteq BOOLEAN

VARIABLES
  path, content, pc, reading, oldpid, fd, flocked, failures, recurse, heirs,
  com,       \* com of daemond_cli_run
  stage,     \* where the process is in it, or that it is a master
  asked      \* masters that have a SIGINT or SIGTERM to handle

lockVars == <<path, content, pc, reading, oldpid, fd, flocked, failures, recurse, heirs>>
vars == <<lockVars, com, stage, asked>>

L == INSTANCE PidLock WITH Strangers <- {}

\* "probe": at the top of daemond_cli_kill.  "int", "term", "kill": about to send
\* that signal.  "waitint", "waitterm": polling for its effect.  "gone": returned
\* from daemond_cli_kill with the pid.  "running": has just said so.
Killing == {"probe", "int", "waitint", "term", "waitterm", "kill"}
Stages == {"none", "lock", "again", "gone", "running", "master"} \cup Killing

TypeOK ==
  /\ L!TypeOK
  /\ com \in [Procs -> Commands \cup {"none"}]
  /\ stage \in [Procs -> Stages]
  /\ asked \subseteq Procs

Init ==
  /\ L!Init
  /\ com = [p \in Procs |-> "none"]
  /\ stage = [p \in Procs |-> "none"]
  /\ asked = {}

Move(p, to) == stage' = [stage EXCEPT ![p] = to]

\* exit: the process is no more.
Exit(p) ==
  /\ L!Leave(p)
  /\ Move(p, "none")
  /\ com' = [com EXCEPT ![p] = "none"]
  /\ asked' = asked \ {p}

Begin(p, c) ==
  /\ L!Start(p)
  /\ Move(p, "lock")
  /\ com' = [com EXCEPT ![p] = c]
  /\ UNCHANGED asked

\* A step of daemond_pid_lock; die() in there ends the process.
Locking(p) ==
  /\ stage[p] \in {"lock", "again"}
  /\ L!Lock(p)
  /\ IF pc'[p] = "idle"
       THEN /\ Move(p, "none")
            /\ com' = [com EXCEPT ![p] = "none"]
       ELSE UNCHANGED <<stage, com>>
  /\ UNCHANGED asked

-----------------------------------------------------------------------------
(* daemond_cli_run after its first daemond_pid_lock.                       *)

Returned(p, result) == stage[p] = "lock" /\ pc[p] = result

\* Locked: start and restart go on to daemond_master, the others exit.
GoOn(p) ==
  /\ Returned(p, "held")
  /\ com[p] \in {"start", "restart"}
  /\ Move(p, "master")
  /\ UNCHANGED <<lockVars, com, asked>>

LockedExit(p) ==
  /\ Returned(p, "held")
  /\ com[p] \in {"stop", "check", "other"}
  /\ Exit(p)

\* A plausible slip: start says that it is already running and goes on.
RefusedGoesOn(p) ==
  /\ Returned(p, "refused")
  /\ com[p] \in {"start", "other"} \/ oldpid[p] = NoPid
  /\ IF com[p] = "start" /\ oldpid[p] # NoPid
       THEN Move(p, "master") /\ UNCHANGED <<lockVars, com, asked>>
       ELSE Exit(p)

\* "already running", "neither locked nor have old value", "unknown command".
RefusedExit(p) ==
  /\ Returned(p, "refused")
  /\ com[p] \in {"start", "other"} \/ oldpid[p] = NoPid
  /\ Exit(p)

CheckReports(p) ==
  /\ Returned(p, "refused")
  /\ com[p] = "check"
  /\ oldpid[p] # NoPid
  /\ IF L!Alive(oldpid[p])
       THEN Move(p, "running") /\ UNCHANGED <<lockVars, com, asked>>
       ELSE Exit(p)

StartKilling(p) ==
  /\ Returned(p, "refused")
  /\ com[p] \in {"stop", "restart"}
  /\ oldpid[p] # NoPid
  /\ Move(p, "probe")
  /\ UNCHANGED <<lockVars, com, asked>>

\* What follows a message that ends the command.
Said(p) == stage[p] = "running" /\ Exit(p)

-----------------------------------------------------------------------------
(* daemond_cli_kill.                                                       *)

\* After daemond_cli_kill: stop exits, restart takes the lock once more.
Killed(p) ==
  /\ stage[p] = "gone"
  /\ IF com[p] = "stop"
       THEN Exit(p)
       ELSE /\ L!Again(p)
            /\ Move(p, "again")
            /\ UNCHANGED <<com, asked>>

\* kill(pid, 0), which may find that the process has gone in the meantime.
ProbeTarget(p) ==
  /\ stage[p] = "probe"
  /\ Move(p, IF L!Alive(oldpid[p]) THEN "int" ELSE "gone")
  /\ UNCHANGED <<lockVars, com, asked>>

\* A plausible slip: what befalls SIGKILL (see KillGroup) befalls every signal.
DeliverNothing(p, q, next) ==
  Move(p, next) /\ UNCHANGED <<lockVars, com, asked>>

\* The signal takes effect: a master makes a note of it, a process that is still
\* in daemond_cli_run has the default action and ends.
Deliver(p, q, next) ==
  IF stage[q] = "master"
    THEN /\ asked' = asked \cup {q}
         /\ Move(p, next)
         /\ UNCHANGED <<lockVars, com>>
    ELSE /\ L!Leave(q)
         /\ stage' = [stage EXCEPT ![p] = next, ![q] = "none"]
         /\ com' = [com EXCEPT ![q] = "none"]
         /\ asked' = asked \ {q}

Send(p, at, next) ==
  /\ stage[p] = at
  /\ IF L!Alive(oldpid[p])
       THEN Deliver(p, oldpid[p], next)
       ELSE Move(p, "gone") /\ UNCHANGED <<lockVars, com, asked>>

\* A plausible slip: the polling has no limit.
AwaitForever(p, at, next) ==
  /\ stage[p] = at
  /\ ~L!Alive(oldpid[p])
  /\ Move(p, "gone")
  /\ UNCHANGED <<lockVars, com, asked>>

\* kill_wait polls with kill(pid, 0) until the process is gone or its time is up.
Await(p, at, next) ==
  /\ stage[p] = at
  /\ Move(p, IF L!Alive(oldpid[p]) THEN next ELSE "gone")
  /\ UNCHANGED <<lockVars, com, asked>>

\* SIGKILL never reaches the process: kill_ext takes the success of getpgid for its
\* failure and returns -1, or calls killpg(-1, KILL) when the process has gone, and
\* daemond_cli_kill takes the -1 of daemond_kill_wait for success.
KillGroup(p) ==
  /\ stage[p] = "kill"
  /\ Move(p, "gone")
  /\ UNCHANGED <<lockVars, com, asked>>

Kill(p) ==
  \/ ProbeTarget(p)
  \/ Send(p, "int", "waitint") \/ Await(p, "waitint", "term")
  \/ Send(p, "term", "waitterm") \/ Await(p, "waitterm", "kill")
  \/ KillGroup(p)
  \/ Killed(p)

\* restart ignores what its second daemond_pid_lock returns.
RestartGoesOn(p) ==
  /\ stage[p] = "again"
  /\ pc[p] \in {"held", "refused"}
  /\ Move(p, "master")
  /\ UNCHANGED <<lockVars, com, asked>>

-----------------------------------------------------------------------------
(* The master, its children, and the rest of the world.                    *)

MasterObeys(p) == stage[p] = "master" /\ p \in asked /\ Exit(p)

ForkChild(p) ==
  /\ stage[p] = "master"
  /\ L!Fork(p)
  /\ UNCHANGED <<com, stage, asked>>

ChildEnds(p) == L!HeirEnds(p) /\ UNCHANGED <<com, stage, asked>>

Crash(p) == Crashes /\ stage[p] # "none" /\ Exit(p)

Remove == L!Unlink /\ UNCHANGED <<com, stage, asked>>

-----------------------------------------------------------------------------
Run(p) ==
  \/ Locking(p)
  \/ GoOn(p) \/ LockedExit(p) \/ RefusedExit(p) \/ CheckReports(p)
  \/ StartKilling(p) \/ Said(p) \/ Kill(p) \/ RestartGoesOn(p)

Next ==
  \/ \E p \in Procs, c \in Commands : Begin(p, c)
  \/ \E p \in Procs : Run(p) \/ MasterObeys(p) \/ ForkChild(p) \/ ChildEnds(p) \/ Crash(p)
  \/ Remove

\* Processes run.  Nobody gives a command, and a master need not exit.
Fairness == \A p \in Procs : WF_vars(Run(p))

Spec == Init /\ [][Next]_vars /\ Fairness

-----------------------------------------------------------------------------
Master(p) == stage[p] = "master"

\* The file that p has locked bears its name no more.
Revoked(p) == flocked[p] /\ fd[p] # path

\* restart is a master whatever its second daemond_pid_lock has returned.
Unlocked(p) == com[p] = "restart" /\ ~flocked[p]

\* Two masters never run side by side: whoever becomes one has the lock, and only
\* the removal of the file lets another have it too.  The one that a restart makes
\* in spite of a refused lock is the exception.
OneMaster ==
  \A p, q \in Procs :
    Master(p) /\ Master(q) /\ p # q =>
      \/ Revoked(p) \/ Revoked(q)
      \/ Unlocked(p) \/ Unlocked(q)

\* Where a process is in daemond_cli_run tells where it is with the lock: the
\* invariant that makes OneMaster inductive (see CliProofs).
Staged(p) ==
  /\ stage[p] = "none" <=> pc[p] \in {"idle", "gone"}
  /\ stage[p] \in Killing \cup {"gone"} =>
       pc[p] = "refused" /\ com[p] \in {"stop", "restart"} /\ oldpid[p] # NoPid
  /\ stage[p] = "running" => pc[p] = "refused"
  /\ stage[p] = "again" => com[p] = "restart"
  /\ stage[p] = "master" =>
       pc[p] = "held" \/ (pc[p] = "refused" /\ com[p] = "restart")

\* A command comes to its end, whether or not the master it is about ever reacts: it
\* exits or becomes a master.
CommandEnds ==
  \A p \in Procs : stage[p] \notin {"none", "master"} ~> stage[p] \in {"none", "master"}

\* A premise about masters: a signal that one has been sent is handled by and by.  Master
\* bounds the shutdown that follows (KeeperSpec), but not the time until the signal is
\* looked at: one that falls behind the walk of daemond_sig_check waits for the next
\* signal (RequestHonoured), as a SIGINT does for the SIGTERM of daemond_cli_kill, and a
\* SIGTERM that does so too, with no signal after it, breaks the premise.
MastersObey == \A p \in Procs : []<>~(Master(p) /\ p \in asked)

\* Then a restart that has found a master takes it down, unless it is itself killed
\* on the way: the master that its dropped second lock leaves beside the new one is
\* on its way out.  (stop signals in the same daemond_cli_kill.)
RestartReplaces ==
  MastersObey =>
    \A p, q \in Procs :
      com[p] = "restart" /\ stage[p] = "int" /\ oldpid[p] = q /\ Master(q)
        ~> ~Master(q) \/ com[p] = "none"

\* When daemond_cli_kill returns the pid, and says "process %d is gone", it is.
SaidGone ==
  [][\A p \in Procs : stage[p] # "gone" /\ stage'[p] = "gone" => ~L!Alive(oldpid[p])]_vars
=============================================================================
