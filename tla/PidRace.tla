------------------------------ MODULE PidRace ------------------------------
(***************************************************************************)
(* The pid file lock with a memory of whether anyone has interfered: ended *)
(* a process, removed the file, made stat or open fail, or left the number *)
(* of a living process in the file.                                        *)
(***************************************************************************)
EXTENDS PidLock

VARIABLE disturbed

raceVars == <<vars, disturbed>>

RaceInit ==
  /\ Init
  /\ disturbed = \E i \in Inodes : content[i] \in Procs \cup Strangers

Interference ==
  \/ Unlink
  \/ \E p \in Procs : End(p) \/ StatFails(p) \/ FopenDies(p) \/ OpenFails(p)

RaceNext ==
  /\ Next
  /\ disturbed' = (disturbed \/ Interference)

RaceSpec == RaceInit /\ [][RaceNext]_raceVars /\ Fairness

-----------------------------------------------------------------------------
(* The inductive invariant of an undisturbed race (see PidLockProofs).     *)

\* Once seen, the file stays: whoever has looked at it or tried for it finds it.
FileStays ==
  \A p \in Procs :
    /\ pc[p] # "gone"
    /\ pc[p] \in {"fopen", "scan", "probe", "open"} => path # NoInode
    /\ fd[p] \in Inodes => fd[p] = path
    /\ reading[p] \in Inodes => reading[p] = path

\* A number of a living process is that of the winner.
NumbersTell ==
  /\ path # NoInode => content[path] \notin Strangers
  /\ path # NoInode /\ content[path] \in Procs => pc[content[path]] = "held"
  /\ \A p \in Procs :
       pc[p] = "probe" =>
         /\ oldpid[p] \notin Strangers
         /\ oldpid[p] \in Procs => pc[oldpid[p]] = "held"

Contending == {"flock", "verify", "write", "held"}

\* One that has lost, or is about to, has lost to somebody.
LostToSomeone ==
  \A p \in Procs :
    pc[p] = "refused" \/ (pc[p] = "create" /\ path # NoInode)
      => \E q \in Procs : pc[q] \in Contending

FairRace == ~disturbed => FileStays /\ NumbersTell /\ LostToSomeone

-----------------------------------------------------------------------------
\* Processes that race for the lock do not all lose, whatever file an earlier run
\* has left behind, as long as nobody interferes: five tries and one flock are
\* enough for any number of them.
SomeoneWins ==
  ~disturbed /\ Procs # {} /\ (\A p \in Procs : pc[p] \in {"held", "refused"})
    => \E p \in Procs : pc[p] = "held"
=============================================================================
