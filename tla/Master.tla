------------------------------- MODULE Master -------------------------------
(***************************************************************************)
(* daemond_master: the process that keeps children_count children running  *)
(* and takes them down when it is told to terminate.                       *)
(*                                                                         *)
(* The main thread goes round                                              *)
(*                                                                         *)
(*   loop -> scan (reap) -> test -> check -> sleep -> loop                 *)
(*                                                                         *)
(* until d->terminate is set, then sends SIGTERM to the children it knows, *)
(* polls daemond_sig_check up to MaxPolls times, and sends SIGKILL to the  *)
(* ones it believes are left.  Signals arrive and children die between any *)
(* two of its steps.  The signal flags are those of module Signals, the    *)
(* restart throttle is that of module Throttle; both share their variables *)
(* with this module.                                                       *)
(***************************************************************************)
EXTENDS Integers, Sequences, FiniteSets

CONSTANTS
  Pids,                  \* the process ids of the machine
  Recycled,              \* those that may be reused while a slot still holds them
  ForkMayFail,           \* whether fork may fail with process ids to spare
  MaxPolls,              \* rounds of the shutdown loop, 100 in the code
  SentSignals,           \* the signals that other processes may send
  children_count,        \* d->children_count
  max_die,               \* d->max_die
  min_restart_interval,  \* d->min_restart_interval, in ticks
  max_restart_interval   \* d->max_restart_interval, in ticks

NoPid == 0

ASSUME MasterAssumption ==
  /\ IsFiniteSet(Pids)
  /\ NoPid \notin Pids
  /\ Recycled \subseteq Pids
  /\ ForkMayFail \in BOOLEAN
  /\ MaxPolls \in Nat \ {0}
  /\ SentSignals \subseteq {"INT", "QUIT", "TERM", "CHLD"}
  \* daemond_master keeps the slots in an array of ten
  /\ children_count \in 1 .. 10
  /\ max_die \in Nat
  /\ min_restart_interval \in Nat \ {0}
  /\ max_restart_interval \in Nat
  /\ min_restart_interval <= max_restart_interval

VARIABLES
  was_received, received, at, terminate,     \* see Signals
  last_die_count, restart_interval, wait,    \* see Throttle
  proc,              \* the process table, by process id
  children,          \* d->children, slot by slot
  children_running,  \* d->children_running
  pc,                \* where the main thread is
  stopping,          \* the main loop was left, the shutdown loop is running
  polls,             \* rounds of the shutdown loop so far
  died,              \* daemond_reaper's local
  slot,              \* daemond_check_children's i, counted from 1
  do_fork,           \* daemond_check_children's local
  running,           \* daemond_check_children's local
  counted,           \* history: the process ids that running stands for
  uncounted          \* history: the children that the last pass did not count

sigVars      == <<was_received, received, at, terminate>>
throttleVars == <<last_die_count, restart_interval, wait>>
passVars     == <<slot, do_fork, running, counted>>
bookVars     == <<children, children_running, uncounted>>
vars == <<sigVars, throttleVars, passVars, bookVars,
          proc, pc, stopping, polls, died>>

Sig == INSTANCE Signals
Throttle == INSTANCE Throttle

Slots == 1 .. children_count

Phases == {"loop", "scan", "reap", "test", "check", "sleep", "exited", "died"}

Running == {"spawning", "running"}
Zombies == {"exited", "faulted"}

TypeOK ==
  /\ was_received \in BOOLEAN
  /\ received \in [Sig!Sigs -> BOOLEAN]
  /\ at \in 0 .. Sig!Past
  /\ terminate \in 0 .. 2
  /\ last_die_count \in Nat
  /\ restart_interval \in Nat
  /\ wait \in Nat
  /\ proc \in [Pids -> {"free", "foreign"} \cup Running \cup Zombies]
  /\ children \in [Slots -> Pids \cup {NoPid}]
  /\ children_running \in Int
  /\ pc \in Phases
  /\ stopping \in BOOLEAN
  /\ polls \in 0 .. MaxPolls
  /\ died \in BOOLEAN
  /\ slot \in 1 .. children_count + 1
  /\ do_fork \in BOOLEAN
  /\ running \in Nat
  /\ counted \subseteq Pids
  /\ uncounted \subseteq Pids

Live(p) == proc[p] \in Running

\* The master's own children, the ones it has not waited for included.
Existing == {p \in Pids : proc[p] \in Running \cup Zombies}

\* What kill(p, 0) = 0 tells: some process has this id.
Answers(p) == p # NoPid /\ proc[p] # "free"

Tracked == {children[i] : i \in Slots} \ {NoPid}

Gone == pc \in {"exited", "died"}

-----------------------------------------------------------------------------
(* daemond_master up to the loop.                                          *)

Init ==
  /\ Sig!Init
  /\ Throttle!Init
  /\ proc \in [Pids -> {"free", "foreign"}]
  /\ \A p \in Pids \ Recycled : proc[p] = "free"
  /\ children = [i \in Slots |-> NoPid]
  /\ children_running = 0
  /\ pc = "loop"
  /\ stopping = FALSE
  /\ polls = 0
  /\ died = FALSE
  /\ slot = 1
  /\ do_fork = FALSE
  /\ running = 0
  /\ counted = {}
  /\ uncounted = {}

-----------------------------------------------------------------------------
(* daemond_sig_check and daemond_reaper.                                   *)

SigCheck ==
  /\ pc = "loop"
  /\ \/ /\ Sig!Begin
        /\ pc' = "scan"
     \/ /\ ~was_received
        /\ pc' = "test"
        /\ UNCHANGED sigVars
  /\ UNCHANGED <<throttleVars, passVars, bookVars, proc, stopping, polls, died>>

Scan ==
  /\ pc = "scan"
  /\ Sig!Examine
  /\ IF Sig!SigOrder[at] = "CHLD" /\ received["CHLD"]
       THEN pc' = "reap" /\ died' = FALSE
       ELSE UNCHANGED <<pc, died>>
  /\ UNCHANGED <<throttleVars, passVars, bookVars, proc, stopping, polls>>

\* A plausible slip: the loop forgets the count.
ReapUncounted(p) ==
  /\ pc = "reap"
  /\ proc[p] \in Zombies
  /\ proc' = [proc EXCEPT ![p] = "free"]
  /\ died' = (died \/ proc[p] = "faulted")
  /\ UNCHANGED <<sigVars, throttleVars, passVars, bookVars, pc, stopping, polls>>

\* One round of the waitpid loop: any child that has ended.
Reap(p) ==
  /\ pc = "reap"
  /\ proc[p] \in Zombies
  /\ proc' = [proc EXCEPT ![p] = "free"]
  /\ children_running' = children_running - 1
  /\ died' = (died \/ proc[p] = "faulted")
  /\ UNCHANGED <<sigVars, throttleVars, passVars,
                 children, uncounted, pc, stopping, polls>>

\* waitpid has nobody left to report; the throttle is set.
ReapDone ==
  /\ pc = "reap"
  /\ \A p \in Pids : proc[p] \notin Zombies
  /\ IF died THEN Throttle!Died ELSE Throttle!Quiet
  /\ pc' = "scan"
  /\ UNCHANGED <<sigVars, passVars, bookVars, proc, stopping, polls, died>>

\* A plausible slip: every flag is wiped at the end of daemond_sig_check.
ScanDoneForgets ==
  /\ pc = "scan"
  /\ at = Sig!Past
  /\ was_received' = FALSE
  /\ received' = [s \in Sig!Sigs |-> FALSE]
  /\ at' = 0
  /\ pc' = "test"
  /\ UNCHANGED <<terminate, throttleVars, passVars, bookVars,
                 proc, stopping, polls, died>>

ScanDone ==
  /\ pc = "scan"
  /\ Sig!End
  /\ pc' = "test"
  /\ UNCHANGED <<throttleVars, passVars, bookVars, proc, stopping, polls, died>>

-----------------------------------------------------------------------------
(* The main loop and daemond_check_children.                               *)

\* A plausible slip: do_fork outlives the call.
StartPassStale ==
  /\ pc = "test"
  /\ ~stopping
  /\ terminate = 0
  /\ pc' = "check"
  /\ slot' = 1
  /\ running' = 0
  /\ counted' = {}
  /\ UNCHANGED <<sigVars, throttleVars, bookVars,
                 proc, stopping, polls, died, do_fork>>

StartPass ==
  /\ pc = "test"
  /\ ~stopping
  /\ terminate = 0
  /\ pc' = "check"
  /\ slot' = 1
  /\ do_fork' = FALSE
  /\ running' = 0
  /\ counted' = {}
  /\ UNCHANGED <<sigVars, throttleVars, bookVars, proc, stopping, polls, died>>

\* Ids that fork may return: free, and not about to be mistaken for the child
\* of another slot unless the system recycles ids that fast.
Available(i) ==
  {p \in Pids : /\ proc[p] = "free"
                /\ p \in Recycled \/ \A j \in Slots \ {i} : children[j] # p}

\* The test of slot i: what it counts and whether do_fork is set after it.
\* do_fork stays set for the slots that follow.
Alive(i) == Answers(children[i])

\* A plausible slip: only a child that is lost asks for a fork, no empty slot does.
WantsForkOnLoss(i) == do_fork \/ (children[i] # NoPid /\ ~Alive(i))

WantsFork(i) == do_fork \/ ~Alive(i)

CountSlot(i) ==
  /\ running' = IF Alive(i) THEN running + 1 ELSE running
  /\ counted' = IF Alive(i) THEN counted \cup {children[i]} ELSE counted
  /\ do_fork' = WantsFork(i)

\* The slot is left with its child, or empty until fork_at has passed.
KeepSlot ==
  /\ pc = "check"
  /\ slot \in Slots
  /\ ~WantsFork(slot) \/ ~Throttle!MayFork
  /\ CountSlot(slot)
  /\ children' = [children EXCEPT ![slot] = IF Alive(slot) THEN @ ELSE NoPid]
  /\ slot' = slot + 1
  /\ UNCHANGED <<sigVars, throttleVars, children_running, uncounted,
                 proc, pc, stopping, polls, died>>

\* daemond_fork: the new child takes the slot, whatever the slot held.
ForkSlot ==
  /\ pc = "check"
  /\ slot \in Slots
  /\ WantsFork(slot)
  /\ Throttle!MayFork
  /\ CountSlot(slot)
  /\ \E p \in Available(slot) :
       /\ proc' = [proc EXCEPT ![p] = "spawning"]
       /\ children' = [children EXCEPT ![slot] = p]
  /\ children_running' = children_running + 1
  /\ slot' = slot + 1
  /\ UNCHANGED <<sigVars, throttleVars, uncounted, pc, stopping, polls, died>>

\* fork fails: die() ends the master with status 255, children or not.
ForkFails ==
  /\ pc = "check"
  /\ slot \in Slots
  /\ WantsFork(slot)
  /\ Throttle!MayFork
  /\ ForkMayFail \/ Available(slot) = {}
  /\ pc' = "died"
  /\ UNCHANGED <<sigVars, throttleVars, passVars, bookVars,
                 proc, stopping, polls, died>>

PassDone ==
  /\ pc = "check"
  /\ slot = children_count + 1
  /\ children_running' = running
  /\ uncounted' = Existing \ counted
  /\ pc' = "sleep"
  /\ UNCHANGED <<sigVars, throttleVars, passVars, children,
                 proc, stopping, polls, died>>

\* usleep(1000000), or less when a signal interrupts it.
Sleep ==
  /\ pc = "sleep"
  /\ pc' = "loop"
  /\ UNCHANGED <<sigVars, throttleVars, passVars, bookVars,
                 proc, stopping, polls, died>>

-----------------------------------------------------------------------------
(* After the main loop: take the children down and exit.                   *)

\* SIGTERM goes to every slot that holds an id.  A child may end on it or not
\* (a spawning child still has the master's handler and swallows it), which is
\* what ChildEnds allows at any time anyway.
StartStopping ==
  /\ pc = "test"
  /\ ~stopping
  /\ terminate # 0
  /\ IF children_running # 0
       THEN stopping' = TRUE /\ pc' = "loop"
       ELSE pc' = "exited" /\ UNCHANGED stopping
  /\ UNCHANGED <<sigVars, throttleVars, passVars, bookVars, proc, polls, died>>

StoppedAll ==
  /\ pc = "test"
  /\ stopping
  /\ children_running = 0
  /\ pc' = "exited"
  /\ UNCHANGED <<sigVars, throttleVars, passVars, bookVars,
                 proc, stopping, polls, died>>

\* A plausible slip: a loop without its bound.
PollUnbounded ==
  /\ pc = "test"
  /\ stopping
  /\ children_running # 0
  /\ polls' = polls + 1
  /\ pc' = "loop"
  /\ UNCHANGED <<sigVars, throttleVars, passVars, bookVars, proc, stopping, died>>

PollAgain ==
  /\ pc = "test"
  /\ stopping
  /\ children_running # 0
  /\ polls + 1 < MaxPolls
  /\ polls' = polls + 1
  /\ pc' = "loop"
  /\ UNCHANGED <<sigVars, throttleVars, passVars, bookVars, proc, stopping, died>>

\* A plausible slip: the last slot is left out.
KillAllButLast ==
  /\ pc = "test"
  /\ stopping
  /\ children_running # 0
  /\ polls + 1 = MaxPolls
  /\ polls' = polls + 1
  /\ proc' = [p \in Pids |->
               IF Live(p) /\ \E i \in Slots : i < children_count /\ children[i] = p
                 THEN "faulted" ELSE proc[p]]
  /\ pc' = "exited"
  /\ UNCHANGED <<sigVars, throttleVars, passVars, bookVars, stopping, died>>

\* SIGKILL to every slot that holds an id, then exit(0).  The target runs no
\* further step of its own once the signal is sent.
KillAll ==
  /\ pc = "test"
  /\ stopping
  /\ children_running # 0
  /\ polls + 1 = MaxPolls
  /\ polls' = polls + 1
  /\ proc' = [p \in Pids |->
               IF p \in Tracked
                 THEN CASE proc[p] \in Running -> "faulted"
                        [] proc[p] = "foreign" -> "free"
                        [] OTHER -> proc[p]
                 ELSE proc[p]]
  /\ pc' = "exited"
  /\ UNCHANGED <<sigVars, throttleVars, passVars, bookVars, stopping, died>>

-----------------------------------------------------------------------------
(* The children, the other processes and time.  Once the master is gone    *)
(* there is nothing left to observe.                                       *)

\* daemond_spawned has set the child's own dispositions.
Spawned(p) ==
  /\ ~Gone
  /\ proc[p] = "spawning"
  /\ proc' = [proc EXCEPT ![p] = "running"]
  /\ UNCHANGED <<sigVars, throttleVars, passVars, bookVars,
                 pc, stopping, polls, died>>

\* A child ends, well or badly, and the kernel sends SIGCHLD.  One that is still
\* spawning can only be killed.
ChildEnds(p) ==
  /\ ~Gone
  /\ \E how \in Zombies :
       /\ proc[p] = "running" \/ (proc[p] = "spawning" /\ how = "faulted")
       /\ proc' = [proc EXCEPT ![p] = how]
  /\ Sig!Handler("CHLD")
  /\ UNCHANGED <<throttleVars, passVars, bookVars, pc, stopping, polls, died>>

\* An operator's kill, or (for CHLD) a child that was stopped or continued:
\* the master's SIGCHLD action has no SA_NOCLDSTOP.
SignalArrives ==
  /\ ~Gone
  /\ Sig!Arrival
  /\ UNCHANGED <<throttleVars, passVars, bookVars,
                 proc, pc, stopping, polls, died>>

\* An unrelated process takes a recycled id, or gives it back.
ForeignStarts(p) ==
  /\ ~Gone
  /\ p \in Recycled
  /\ proc[p] = "free"
  /\ proc' = [proc EXCEPT ![p] = "foreign"]
  /\ UNCHANGED <<sigVars, throttleVars, passVars, bookVars,
                 pc, stopping, polls, died>>

ForeignEnds(p) ==
  /\ ~Gone
  /\ proc[p] = "foreign"
  /\ proc' = [proc EXCEPT ![p] = "free"]
  /\ UNCHANGED <<sigVars, throttleVars, passVars, bookVars,
                 pc, stopping, polls, died>>

TimePasses ==
  /\ ~Gone
  /\ Throttle!Tick
  /\ UNCHANGED <<sigVars, passVars, bookVars, proc, pc, stopping, polls, died>>

-----------------------------------------------------------------------------
Main ==
  \/ SigCheck \/ Scan \/ ReapDone \/ ScanDone
  \/ \E p \in Pids : Reap(p)
  \/ StartPass \/ KeepSlot \/ ForkSlot \/ ForkFails \/ PassDone \/ Sleep
  \/ StartStopping \/ StoppedAll \/ PollAgain \/ KillAll

Environment ==
  \/ \E p \in Pids : Spawned(p) \/ ChildEnds(p) \/ ForeignStarts(p) \/ ForeignEnds(p)
  \/ SignalArrives
  \/ TimePasses

Next == Main \/ Environment

\* The scheduler runs the master and the clock advances.  Nothing makes a child
\* end or a signal arrive.
Fairness == WF_vars(Main) /\ WF_vars(TimePasses)

Spec == Init /\ [][Next]_vars /\ Fairness

-----------------------------------------------------------------------------
(* Safety.                                                                 *)

NoRecycling == Recycled = {}

\* children_running is off by exactly the children that the last pass did not
\* count (forked in that pass, or overwritten in their slot), whatever was
\* forked, reaped or left as a zombie since.
Accounting ==
  children_running + Cardinality(uncounted) = Cardinality(Existing)

\* If the last pass counted every child, exit(0) leaves none of them running,
\* whether the children obeyed SIGTERM, died on the way or had to be killed.
CleanShutdown ==
  pc = "exited" /\ uncounted = {} => \A p \in Pids : ~Live(p)

\* A master of one child never has a second one, and never loses it from sight.
SoleChild ==
  children_count = 1 => \A p \in Pids : Live(p) => p = children[1]

\* The first slot is never given to a new child while its child lives.
FirstSlotKept ==
  [][children[1] # NoPid /\ Live(children[1]) => children'[1] = children[1]]_vars

\* A failing fork ends the master by die(), children or not; a master of one child
\* forks only in place of a dead one, so that its die() leaves no child behind.
DiesAlone ==
  children_count = 1 /\ pc = "died" => \A p \in Pids : ~Live(p)

\* The common flag stays up for as long as the walk of daemond_sig_check lasts,
\* however many signals interrupt it and whatever the reaper does in its midst.
FlagUpDuringWalk == at # 0 => was_received

\* The interval is capped before its second doubling, so what the code keeps is
\* bounded by twice max_restart_interval, and so is every wait before a fork.
IntervalBounded ==
  /\ restart_interval <= 2 * max_restart_interval
  /\ wait <= restart_interval

\* The raise comes in time: the count of bad batches in a row never gets to
\* max_die * children_count.
StreakBounded == max_die > 0 => last_die_count < max_die * children_count

\* Children that keep dying never get a shorter interval, although the cap can
\* be below the interval in force, and nothing else shortens it.
NeverRelents == [][restart_interval' >= restart_interval]_vars

-----------------------------------------------------------------------------
(* The inductive invariant behind the safety properties (NoRecycling).     *)

NoStrangers == \A p \in Pids : proc[p] # "foreign"

SlotsDistinct ==
  \A i, j \in Slots : i # j /\ children[i] = children[j] => children[i] = NoPid

\* During a pass no child is reaped, and each is counted at most once.
PassCounts ==
  pc = "check" =>
    /\ counted \subseteq Existing
    /\ running = Cardinality(counted)
    /\ \A j \in Slots : j >= slot => children[j] \notin counted

\* A child that the pass has not counted and no longer can.
Strayed ==
  \E p \in Existing \ counted : \A j \in Slots : j >= slot => children[j] # p

\* A pass leaves a counted child without its slot only where it puts a new one.
PassTracks == pc = "check" => Strayed \/ counted \subseteq Tracked

AllTracked ==
  pc \notin {"check", "died"} /\ uncounted = {} => Existing \subseteq Tracked

Bookkeeping ==
  /\ TypeOK
  /\ NoStrangers
  /\ SlotsDistinct
  /\ Accounting
  /\ PassCounts
  /\ PassTracks
  /\ AllTracked
  /\ CleanShutdown

-----------------------------------------------------------------------------
(* Liveness.                                                               *)

SlotAlive(i) == children[i] # NoPid /\ Live(children[i])

\* A slot without a living child gets one, unless the master terminates.
ChildReplaced ==
  \A i \in Slots : ~SlotAlive(i) ~> SlotAlive(i) \/ terminate # 0 \/ Gone

\* Unrelated processes do not keep the ids of slots for ever.
StrangersLeave == <>[](\A p \in Pids : proc[p] # "foreign")

\* A signal that came behind the walk of daemond_sig_check: it is flagged, but the common
\* flag was lowered after it, and nobody looks at it before the next signal.
Missed(s) == received[s] /\ ~was_received

\* Where ids are reused, a stranger holds a slot up only while it lives; and a death is
\* overlooked for ever only if its SIGCHLD was missed and there is no other signal again,
\* whatever walks the stopped and the continued children set off.
SlotRecovers == StrangersLeave /\ []<>~Missed("CHLD") => ChildReplaced

\* A request to stop that is recorded while the common flag is up and before the
\* walk comes past it is acted upon: daemond_sig_check loses none of those.
RequestSeen ==
  \A s \in Sig!Stopping :
    was_received /\ received[s] /\ Sig!StillAhead(s) ~> terminate # 0 \/ Gone

\* One that came behind the walk is not lost either: unless no signal of any kind ever
\* comes again, a later walk finds it.
RequestHonoured ==
  \A s \in Sig!Stopping :
    []<>~Missed(s) => (received[s] ~> terminate # 0 \/ Gone)

-----------------------------------------------------------------------------
(* What a master of one child promises.                                    *)

OnlyChild == IF SlotAlive(1) THEN children[1] ELSE NoPid

\* The last pass, or this one, has found it alive.
IsCounted ==
  /\ SlotAlive(1)
  /\ IF pc = "check" /\ slot = 1
       THEN children[1] \notin uncounted ELSE children[1] \in counted

KeeperPhase ==
  IF Gone THEN "gone" ELSE IF terminate # 0 THEN "stopping" ELSE "keeping"

TheKeeper ==
  INSTANCE Keeper WITH kid <- OnlyChild, known <- IsCounted, phase <- KeeperPhase

\* A master of one child hires only in the place of none and not when it is to stop,
\* leaves no child behind but one it has not found alive yet, however few polls there
\* are and whoever ignores SIGTERM, and is gone some time after it was told to stop.
KeeperSpec == TheKeeper!Spec
=============================================================================
