---------------------------- MODULE MasterProofs ----------------------------
(***************************************************************************)
(* Safety of the supervising master, for every number of slots and process *)
(* ids.                                                                    *)
(***************************************************************************)
EXTENDS Master, FiniteSetTheorems, TLAPS

-----------------------------------------------------------------------------
(* Type correctness.  The conjuncts of TypeOK go in three groups, each of  *)
(* which the steps preserve on its own.                                    *)

\* The scan of daemond_sig_check has four places, and one past them.
LEMMA OrderLength == Len(Sig!SigOrder) = 4 /\ Sig!Past = 5
  BY DEF Sig!Past, Sig!SigOrder

\* The types of the flags.
Flags ==
  /\ was_received \in BOOLEAN
  /\ received \in [Sig!Sigs -> BOOLEAN]
  /\ stopping \in BOOLEAN
  /\ died \in BOOLEAN
  /\ do_fork \in BOOLEAN
  /\ pc \in Phases

\* The types of the counters.
Numbers ==
  /\ at \in 0 .. Sig!Past
  /\ terminate \in 0 .. 2
  /\ last_die_count \in Nat
  /\ restart_interval \in Nat
  /\ wait \in Nat
  /\ children_running \in Int
  /\ polls \in 0 .. MaxPolls
  /\ slot \in 1 .. children_count + 1
  /\ running \in Nat

\* The types of the tables of slots and processes.
Tables ==
  /\ proc \in [Pids -> {"free", "foreign"} \cup Running \cup Zombies]
  /\ children \in [Slots -> Pids \cup {NoPid}]
  /\ counted \subseteq Pids
  /\ uncounted \subseteq Pids

\* Together the three groups are TypeOK.
LEMMA TypeGroups == TypeOK <=> Flags /\ Numbers /\ Tables
  BY DEF TypeOK, Flags, Numbers, Tables

\* Every step keeps the flags and the program counter in their sets.
LEMMA FlagsStep == Flags /\ [Next]_vars => Flags'
<1> SUFFICES ASSUME Flags, [Next]_vars PROVE Flags'
  OBVIOUS
<1> USE DEF Flags, Phases, sigVars, throttleVars, passVars, bookVars
<1>1. CASE Main
  BY <1>1 DEF Main, SigCheck, Scan, ReapDone, ScanDone, Reap, StartPass, KeepSlot,
    ForkSlot, ForkFails, PassDone, Sleep, StartStopping, StoppedAll, PollAgain,
    KillAll, CountSlot, WantsFork, Alive, Answers, Sig!Begin, Sig!Examine, Sig!End
<1>2. CASE Environment
  BY <1>2 DEF Environment, Spawned, ChildEnds, ForeignStarts, ForeignEnds,
    SignalArrives, TimePasses, Sig!Handler, Sig!Arrival
<1>3. CASE UNCHANGED vars
  BY <1>3 DEF vars
<1>4. QED
  BY <1>1, <1>2, <1>3 DEF Next

\* The throttle's steps keep its counters natural.
LEMMA ThrottleNumbers ==
  ASSUME last_die_count \in Nat, restart_interval \in Nat, wait \in Nat,
         Throttle!Died \/ Throttle!Quiet \/ Throttle!Tick \/ UNCHANGED throttleVars
  PROVE  last_die_count' \in Nat /\ restart_interval' \in Nat /\ wait' \in Nat
BY MasterAssumption DEF Throttle!Died, Throttle!Raise, Throttle!Delay,
   Throttle!Quiet, Throttle!Tick, Throttle!Capped, throttleVars

\* The signal steps keep the scan position and the terminate request in range.
LEMMA SignalNumbers ==
  ASSUME at \in 0 .. Sig!Past, terminate \in 0 .. 2,
         \/ Sig!Begin \/ Sig!Examine \/ Sig!End
         \/ Sig!Arrival \/ Sig!Handler("CHLD") \/ UNCHANGED sigVars
  PROVE  at' \in 0 .. Sig!Past /\ terminate' \in 0 .. 2
<1>1. Sig!TerminateAfter(Sig!SigOrder[at]) \in 0 .. 2
  BY DEF Sig!TerminateAfter
<1>2. QED
  BY <1>1, OrderLength DEF Sig!Begin, Sig!Examine, Sig!End, Sig!Arrival,
     Sig!Handler, sigVars

\* What any step of the master and its environment does to the throttle ...
LEMMA ThrottleSteps ==
  [Next]_vars =>
    Throttle!Died \/ Throttle!Quiet \/ Throttle!Tick \/ UNCHANGED throttleVars
BY DEF Next, vars, Main, SigCheck, Scan, ReapDone, ScanDone, Reap, StartPass,
   KeepSlot, ForkSlot, ForkFails, PassDone, Sleep, StartStopping, StoppedAll,
   PollAgain, KillAll, Environment, Spawned, ChildEnds, ForeignStarts,
   ForeignEnds, SignalArrives, TimePasses

\* ... and to the signal flags.
LEMMA SignalSteps ==
  [Next]_vars =>
    \/ Sig!Begin \/ Sig!Examine \/ Sig!End
    \/ Sig!Arrival \/ Sig!Handler("CHLD") \/ UNCHANGED sigVars
BY DEF Next, vars, Main, SigCheck, Scan, ReapDone, ScanDone, Reap, StartPass,
   KeepSlot, ForkSlot, ForkFails, PassDone, Sleep, StartStopping, StoppedAll,
   PollAgain, KillAll, Environment, Spawned, ChildEnds, ForeignStarts,
   ForeignEnds, SignalArrives, TimePasses

\* Every step keeps the counters in their ranges.
LEMMA NumbersStep == Numbers /\ [Next]_vars => Numbers'
<1> SUFFICES ASSUME Numbers, [Next]_vars PROVE Numbers'
  OBVIOUS
<1> USE MasterAssumption DEF Slots
<1>1. last_die_count' \in Nat /\ restart_interval' \in Nat /\ wait' \in Nat
  BY ThrottleSteps, ThrottleNumbers DEF Numbers
<1>2. at' \in 0 .. Sig!Past /\ terminate' \in 0 .. 2
  BY SignalSteps, SignalNumbers DEF Numbers
<1>3. polls' \in 0 .. MaxPolls
  BY DEF Numbers, Next, vars, Main, SigCheck, Scan, ReapDone, ScanDone, Reap,
     StartPass, KeepSlot, ForkSlot, ForkFails, PassDone, Sleep, StartStopping,
     StoppedAll, PollAgain, KillAll, Environment, Spawned, ChildEnds,
     ForeignStarts, ForeignEnds, SignalArrives, TimePasses
<1>4. slot' \in 1 .. children_count + 1 /\ running' \in Nat
  BY DEF Numbers, Next, vars, passVars, Main, SigCheck, Scan, ReapDone, ScanDone,
     Reap, StartPass, KeepSlot, ForkSlot, ForkFails, PassDone, Sleep,
     StartStopping, StoppedAll, PollAgain, KillAll, CountSlot, Environment,
     Spawned, ChildEnds, ForeignStarts, ForeignEnds, SignalArrives, TimePasses
<1>5. children_running' \in Int
  BY DEF Numbers, Next, vars, bookVars, Main, SigCheck, Scan, ReapDone, ScanDone,
     Reap, StartPass, KeepSlot, ForkSlot, ForkFails, PassDone, Sleep,
     StartStopping, StoppedAll, PollAgain, KillAll, Environment, Spawned,
     ChildEnds, ForeignStarts, ForeignEnds, SignalArrives, TimePasses
<1>6. QED
  BY <1>1, <1>2, <1>3, <1>4, <1>5 DEF Numbers

\* Every step keeps the process table, the slots and the sets of ids well-typed.
LEMMA TablesStep == Tables /\ [Next]_vars => Tables'
<1> SUFFICES ASSUME Tables, [Next]_vars PROVE Tables'
  OBVIOUS
<1>1. proc' \in [Pids -> {"free", "foreign"} \cup Running \cup Zombies]
  <2> USE DEF Tables, Running, Zombies
  <2>1. CASE ForkSlot
    BY <2>1 DEF ForkSlot, Available
  <2>2. CASE KillAll
    BY <2>2 DEF KillAll
  <2>3. ASSUME NEW p \in Pids,
               \/ Reap(p) \/ Spawned(p) \/ ChildEnds(p)
               \/ ForeignStarts(p) \/ ForeignEnds(p)
        PROVE  proc' \in [Pids -> {"free", "foreign"} \cup Running \cup Zombies]
    BY <2>3 DEF Reap, Spawned, ChildEnds, ForeignStarts, ForeignEnds
  <2>4. CASE UNCHANGED proc
    BY <2>4
  <2>5. QED
    BY <2>1, <2>2, <2>3, <2>4
    DEF Next, vars, Main, SigCheck, Scan, ReapDone, ScanDone, StartPass, KeepSlot,
        ForkFails, PassDone, Sleep, StartStopping, StoppedAll, PollAgain,
        Environment, SignalArrives, TimePasses
<1>2. children' \in [Slots -> Pids \cup {NoPid}]
  BY DEF Tables, Available, Next, vars, bookVars, Main, SigCheck, Scan, ReapDone,
     ScanDone, Reap, StartPass, KeepSlot, ForkSlot, ForkFails, PassDone, Sleep,
     StartStopping, StoppedAll, PollAgain, KillAll, Environment, Spawned,
     ChildEnds, ForeignStarts, ForeignEnds, SignalArrives, TimePasses
<1>3. counted' \subseteq Pids
  <2>1. CASE KeepSlot \/ ForkSlot
    BY <2>1 DEF Tables, KeepSlot, ForkSlot, CountSlot, Alive, Answers
  <2>2. CASE StartPass
    BY <2>2 DEF StartPass
  <2>3. CASE UNCHANGED counted
    BY <2>3 DEF Tables
  <2>4. QED
    BY <2>1, <2>2, <2>3
    DEF Next, vars, passVars, Main, SigCheck, Scan, ReapDone, ScanDone, Reap,
        ForkFails, PassDone, Sleep, StartStopping, StoppedAll, PollAgain, KillAll,
        Environment, Spawned, ChildEnds, ForeignStarts, ForeignEnds,
        SignalArrives, TimePasses
<1>4. uncounted' \subseteq Pids
  BY DEF Tables, Existing, Next, vars, bookVars, Main, SigCheck, Scan, ReapDone,
     ScanDone, Reap, StartPass, KeepSlot, ForkSlot, ForkFails, PassDone, Sleep,
     StartStopping, StoppedAll, PollAgain, KillAll, Environment, Spawned,
     ChildEnds, ForeignStarts, ForeignEnds, SignalArrives, TimePasses
<1>5. QED
  BY <1>1, <1>2, <1>3, <1>4 DEF Tables

\* The initial values are well-typed.
LEMMA TypeInit == Init => TypeOK
<1> SUFFICES ASSUME Init PROVE TypeOK
  OBVIOUS
<1>1. Flags
  BY DEF Init, Flags, Phases, Sig!Init
<1>2. Numbers
  BY MasterAssumption, OrderLength DEF Init, Numbers, Sig!Init, Throttle!Init
<1>3. Tables
  BY DEF Init, Tables
<1>4. QED
  BY <1>1, <1>2, <1>3, TypeGroups

\* And every step leaves them so.
LEMMA TypeStep == TypeOK /\ [Next]_vars => TypeOK'
<1>1. (Flags /\ Numbers /\ Tables)' => TypeOK'
  BY DEF TypeOK, Flags, Numbers, Tables
<1>2. QED
  BY <1>1, TypeGroups, FlagsStep, NumbersStep, TablesStep

\* The master's state is well-typed, with polls and the slot index within their
\* bounds, whatever the process ids, slots, signals and deaths.
THEOREM TypeCorrect == Spec => []TypeOK
BY TypeInit, TypeStep, PTL DEF Spec

-----------------------------------------------------------------------------
(* The signal flags and the throttle, as the master drives them.           *)

\* No interrupting handler, no reaper run and no step of the walk but its last one
\* lowers the common flag.
THEOREM FlagStaysUp == Spec => []FlagUpDuringWalk
<1>1. Init => FlagUpDuringWalk
  BY DEF Init, Sig!Init, FlagUpDuringWalk
<1>2. TypeOK /\ FlagUpDuringWalk /\ [Next]_vars => FlagUpDuringWalk'
  BY SignalSteps, OrderLength
  DEF TypeOK, FlagUpDuringWalk, Sig!Begin, Sig!Examine, Sig!End, Sig!Arrival,
      Sig!Handler, sigVars
<1>3. QED
  BY <1>1, <1>2, TypeCorrect, PTL DEF Spec

\* Neither the interval nor the wait before a fork exceeds twice
\* max_restart_interval.
THEOREM IntervalBound == Spec => []IntervalBounded
<1>1. Init => IntervalBounded
  BY MasterAssumption DEF Init, Throttle!Init, IntervalBounded
<1>2. TypeOK /\ IntervalBounded /\ [Next]_vars => IntervalBounded'
  BY ThrottleSteps, MasterAssumption
  DEF TypeOK, IntervalBounded, Throttle!Died, Throttle!Raise, Throttle!Delay,
      Throttle!Quiet, Throttle!Tick, Throttle!Capped, throttleVars
<1>3. QED
  BY <1>1, <1>2, TypeCorrect, PTL DEF Spec

\* The number of bad batches in a row stays below max_die * children_count.
THEOREM StreakBound == Spec => []StreakBounded
<1>0. max_die > 0 => max_die * children_count \in Nat \ {0}
  BY MasterAssumption
<1>1. Init => StreakBounded
  BY <1>0, MasterAssumption DEF Init, Throttle!Init, StreakBounded
<1>2. TypeOK /\ StreakBounded /\ [Next]_vars => StreakBounded'
  BY <1>0, ThrottleSteps, MasterAssumption
  DEF TypeOK, StreakBounded, Throttle!Died, Throttle!TooMany, Throttle!Raise,
      Throttle!Delay, Throttle!Quiet, Throttle!Tick, throttleVars
<1>3. QED
  BY <1>1, <1>2, TypeCorrect, PTL DEF Spec

\* The interval never gets shorter.  The bound is needed: an interval above
\* twice the cap would be cut down to it by the next raise.
THEOREM Relentless == Spec => NeverRelents
<1>1. TypeOK /\ IntervalBounded /\ [Next]_vars
        => [restart_interval' >= restart_interval]_vars
  BY ThrottleSteps, MasterAssumption
  DEF TypeOK, IntervalBounded, Throttle!Died, Throttle!Raise, Throttle!Delay,
      Throttle!Quiet, Throttle!Tick, Throttle!Capped, throttleVars
<1>2. QED
  BY <1>1, TypeCorrect, IntervalBound, PTL DEF Spec, NeverRelents

-----------------------------------------------------------------------------
(* The master's book of its children, when no id is reused while a slot    *)
(* still holds it: what children_running stands for, and what exit leaves  *)
(* behind.  Then the first slot and the master of one child, whether ids   *)
(* are reused or not.                                                      *)

\* The children are finitely many, and there are none when their number is zero.
LEMMA ExistingFinite ==
  /\ IsFiniteSet(Existing)
  /\ Cardinality(Existing) \in Nat
  /\ Cardinality(Existing) = 0 => Existing = {}
<1>1. IsFiniteSet(Existing)
  BY MasterAssumption, FS_Subset DEF Existing
<1>2. QED
  BY <1>1, FS_CardinalityType, FS_EmptySet

\* A set of process ids that the bookkeeping mentions is finite.
LEMMA PidsFinite ==
  ASSUME NEW S \in SUBSET Pids
  PROVE  IsFiniteSet(S) /\ Cardinality(S) \in Nat
BY MasterAssumption, FS_Subset, FS_CardinalityType

\* daemond_reaper: one child less, and one less in children_running.
LEMMA ReapKeepsBooks ==
  ASSUME Bookkeeping, TypeOK', NEW p \in Pids, Reap(p)
  PROVE  Bookkeeping'
<1> USE DEF Reap, bookVars, passVars
<1>1. p \in Existing /\ Existing' = Existing \ {p}
  BY DEF Bookkeeping, TypeOK, Existing, Running, Zombies
<1>2. Accounting'
  <2>1. Cardinality(Existing') = Cardinality(Existing) - 1
    BY <1>1, ExistingFinite, FS_RemoveElement
  <2>2. Cardinality(uncounted) \in Nat /\ Cardinality(uncounted)' = Cardinality(uncounted)
    BY PidsFinite DEF Bookkeeping, TypeOK
  <2>3. QED
    BY <2>1, <2>2, ExistingFinite DEF Bookkeeping, TypeOK, Accounting
<1>3. NoStrangers' /\ SlotsDistinct'
  BY DEF Bookkeeping, TypeOK, NoStrangers, SlotsDistinct
<1>4. AllTracked'
  BY <1>1 DEF Bookkeeping, AllTracked, Tracked
<1>5. PassCounts' /\ PassTracks' /\ CleanShutdown'
  BY DEF PassCounts, PassTracks, CleanShutdown
<1>6. QED
  BY <1>2, <1>3, <1>4, <1>5 DEF Bookkeeping

\* daemond_check_children starts: nothing is counted, everything is in its slot
\* or was missing before.
LEMMA StartPassKeepsBooks ==
  ASSUME Bookkeeping, TypeOK', StartPass
  PROVE  Bookkeeping'
<1> USE DEF StartPass, bookVars
<1>1. Existing' = Existing
  BY DEF Existing
<1>2. PassCounts'
  BY FS_EmptySet DEF PassCounts
<1>3. QED
  BY <1>1, <1>2 DEF Bookkeeping, NoStrangers, SlotsDistinct, Accounting,
     PassTracks, AllTracked, CleanShutdown

\* What a pass counts at a slot: a child of the master, not counted before.
LEMMA CountedOnce ==
  ASSUME Bookkeeping, pc = "check", slot \in Slots, CountSlot(slot)
  PROVE  /\ counted' \subseteq Existing
         /\ running' = Cardinality(counted')
         /\ counted' \subseteq counted \cup {children[slot]}
         /\ counted \subseteq counted'
<1> USE DEF CountSlot
<1>1. CASE Alive(slot)
  <2>1. children[slot] \in Existing
    BY <1>1 DEF Bookkeeping, TypeOK, NoStrangers, Alive, Answers, Existing
  <2>2. children[slot] \notin counted
    BY DEF Bookkeeping, PassCounts, TypeOK, Slots
  <2>3. Cardinality(counted \cup {children[slot]}) = Cardinality(counted) + 1
    BY <2>2, PidsFinite, FS_AddElement DEF Bookkeeping, TypeOK
  <2>4. QED
    BY <1>1, <2>1, <2>3 DEF Bookkeeping, PassCounts
<1>2. CASE ~Alive(slot)
  BY <1>2 DEF Bookkeeping, PassCounts
<1>3. QED
  BY <1>1, <1>2

\* A slot that keeps its child, or stays empty.
LEMMA KeepSlotKeepsBooks ==
  ASSUME Bookkeeping, TypeOK', KeepSlot
  PROVE  Bookkeeping'
<1> USE DEF KeepSlot
<1>1. /\ counted' \subseteq Existing
      /\ running' = Cardinality(counted')
      /\ counted' \subseteq counted \cup {children[slot]}
  BY CountedOnce
<1>2. Existing' = Existing
  BY DEF Existing
<1>3. SlotsDistinct'
  BY DEF Bookkeeping, TypeOK, SlotsDistinct, NoPid
<1>4. PassCounts'
  <2>1. ASSUME NEW j \in Slots, j >= slot' PROVE children'[j] \notin counted'
    <3>1. j > slot /\ children'[j] = children[j] /\ children[j] \notin counted
      BY <2>1, MasterAssumption DEF Bookkeeping, TypeOK, PassCounts, Slots
    <3>2. CASE Alive(slot)
      BY <3>1, <3>2, <1>1 DEF Bookkeeping, SlotsDistinct, Alive, Answers, Slots
    <3>3. CASE ~Alive(slot)
      BY <3>1, <3>3 DEF CountSlot
    <3>4. QED
      BY <3>2, <3>3
  <2>2. QED
    BY <1>1, <1>2, <2>1 DEF PassCounts
<1>5. PassTracks'
  <2>1. CASE Strayed
    <3>1. PICK p \in Existing \ counted : \A j \in Slots : j >= slot => children[j] # p
      BY <2>1 DEF Strayed
    <3>2. p \notin counted'
      BY <3>1, <1>1, MasterAssumption DEF Slots
    <3>3. \A j \in Slots : j >= slot' => children'[j] # p
      BY <3>1, MasterAssumption DEF Bookkeeping, TypeOK, Slots
    <3>4. QED
      BY <3>1, <3>2, <3>3, <1>2 DEF PassTracks, Strayed
  <2>2. CASE counted \subseteq Tracked
    <3>1. ASSUME NEW p \in counted' PROVE p \in Tracked'
      <4>1. CASE p \in counted
        <5>1. PICK i \in Slots : children[i] = p
          BY <4>1, <2>2 DEF Tracked
        <5>2. proc[p] # "free" /\ p # NoPid
          BY <4>1, MasterAssumption DEF Bookkeeping, PassCounts, Existing, Running, Zombies
        <5>3. children'[i] = p
          BY <5>1, <5>2 DEF Bookkeeping, TypeOK, Alive, Answers
        <5>4. QED
          BY <5>2, <5>3 DEF Tracked
      <4>2. CASE p = children[slot] /\ Alive(slot)
        BY <4>2 DEF Bookkeeping, TypeOK, Tracked, Alive, Answers
      <4>3. QED
        BY <3>1, <4>1, <4>2 DEF CountSlot
    <3>2. QED
      BY <3>1 DEF PassTracks
  <2>3. QED
    BY <2>1, <2>2 DEF Bookkeeping, PassTracks
<1>6. Accounting'
  BY <1>2 DEF Bookkeeping, Accounting
<1>7. NoStrangers' /\ AllTracked' /\ CleanShutdown'
  BY DEF Bookkeeping, NoStrangers, AllTracked, CleanShutdown
<1>8. QED
  BY <1>3, <1>4, <1>5, <1>6, <1>7 DEF Bookkeeping

\* A slot that gets a new child: one child more, and one more in children_running.
\* The new child is behind the pass, which will not count it.
LEMMA ForkSlotKeepsBooks ==
  ASSUME NoRecycling, Bookkeeping, TypeOK', ForkSlot
  PROVE  Bookkeeping'
<1> USE DEF ForkSlot
<1>1. /\ counted' \subseteq Existing
      /\ running' = Cardinality(counted')
      /\ counted' \subseteq counted \cup {children[slot]}
  BY CountedOnce
<1>2. PICK p \in Available(slot) :
        /\ proc' = [proc EXCEPT ![p] = "spawning"]
        /\ children' = [children EXCEPT ![slot] = p]
  OBVIOUS
<1>3. /\ p \in Pids /\ proc[p] = "free" /\ p # NoPid
      /\ \A j \in Slots \ {slot} : children[j] # p
  BY MasterAssumption DEF Available, NoRecycling
<1>4. p \notin Existing /\ Existing' = Existing \cup {p}
  BY <1>2, <1>3 DEF Bookkeeping, TypeOK, Existing, Running, Zombies
<1>5. SlotsDistinct'
  BY <1>2, <1>3 DEF Bookkeeping, TypeOK, SlotsDistinct
<1>6. PassCounts'
  <2>1. ASSUME NEW j \in Slots, j >= slot' PROVE children'[j] \notin counted'
    <3>1. j > slot /\ children'[j] = children[j] /\ children[j] \notin counted
      BY <2>1, <1>2, MasterAssumption DEF Bookkeeping, TypeOK, PassCounts, Slots
    <3>2. CASE Alive(slot)
      BY <3>1, <3>2, <1>1 DEF Bookkeeping, SlotsDistinct, Alive, Answers, Slots
    <3>3. CASE ~Alive(slot)
      BY <3>1, <3>3 DEF CountSlot
    <3>4. QED
      BY <3>2, <3>3
  <2>2. QED
    BY <1>1, <1>4, <2>1 DEF PassCounts
<1>7. PassTracks'
  <2>1. p \in Existing' \ counted'
    BY <1>1, <1>4
  <2>2. \A j \in Slots : j >= slot' => children'[j] # p
    BY <1>2, <1>3, MasterAssumption DEF Bookkeeping, TypeOK, Slots
  <2>3. QED
    BY <2>1, <2>2 DEF PassTracks, Strayed
<1>8. Accounting'
  <2>1. Cardinality(Existing') = Cardinality(Existing) + 1
    BY <1>4, ExistingFinite, FS_AddElement
  <2>2. Cardinality(uncounted) \in Nat /\ Cardinality(uncounted)' = Cardinality(uncounted)
    BY PidsFinite DEF Bookkeeping, TypeOK
  <2>3. QED
    BY <2>1, <2>2, ExistingFinite DEF Bookkeeping, TypeOK, Accounting
<1>9. NoStrangers'
  BY <1>2, <1>3 DEF Bookkeeping, TypeOK, NoStrangers
<1>10. AllTracked' /\ CleanShutdown'
  BY DEF AllTracked, CleanShutdown
<1>11. QED
  BY <1>5, <1>6, <1>7, <1>8, <1>9, <1>10 DEF Bookkeeping

\* The end of a pass, where children_running becomes what the pass counted.
LEMMA PassDoneKeepsBooks ==
  ASSUME Bookkeeping, TypeOK', PassDone
  PROVE  Bookkeeping'
<1> USE DEF PassDone
<1>1. Existing' = Existing /\ counted \subseteq Existing /\ Tracked' = Tracked
  BY DEF Bookkeeping, PassCounts, Existing, Tracked
<1>2. Accounting'
  <2>1. Existing \cap counted = counted
    BY <1>1
  <2>2. Cardinality(Existing \ counted) = Cardinality(Existing) - Cardinality(counted)
    BY <2>1, ExistingFinite, FS_Difference
  <2>3. Cardinality(counted) \in Nat
    BY PidsFinite DEF Bookkeeping, TypeOK
  <2>4. children_running' = Cardinality(counted)
    BY DEF Bookkeeping, PassCounts
  <2>5. QED
    BY <1>1, <2>2, <2>3, <2>4, ExistingFinite DEF Accounting
<1>3. AllTracked'
  <2>1. SUFFICES ASSUME Existing \ counted = {} PROVE Existing \subseteq Tracked
    BY <1>1 DEF AllTracked
  <2>2. ~Strayed
    BY <2>1 DEF Strayed
  <2>3. QED
    BY <2>1, <2>2 DEF Bookkeeping, PassTracks
<1>4. NoStrangers' /\ SlotsDistinct' /\ PassCounts' /\ PassTracks' /\ CleanShutdown'
  BY DEF Bookkeeping, NoStrangers, SlotsDistinct, PassCounts, PassTracks, CleanShutdown
<1>5. QED
  BY <1>2, <1>3, <1>4 DEF Bookkeeping

\* SIGKILL to the slots leaves no child alive if every child is in a slot.
LEMMA KillAllKeepsBooks ==
  ASSUME Bookkeeping, TypeOK', KillAll
  PROVE  Bookkeeping'
<1> USE DEF KillAll, bookVars, passVars
<1>1. Existing' = Existing
  BY DEF Bookkeeping, TypeOK, NoStrangers, Existing, Running, Zombies
<1>2. NoStrangers'
  BY DEF Bookkeeping, TypeOK, NoStrangers, Running, Zombies
<1>3. CleanShutdown'
  <2>1. SUFFICES ASSUME uncounted = {}, NEW p \in Pids PROVE ~Live(p)'
    BY DEF CleanShutdown
  <2>2. Existing \subseteq Tracked
    BY <2>1 DEF Bookkeeping, AllTracked
  <2>3. QED
    BY <2>2 DEF Bookkeeping, TypeOK, Existing, Live, Running, Zombies
<1>4. AllTracked'
  BY <1>1 DEF Bookkeeping, AllTracked, Tracked
<1>5. QED
  BY <1>1, <1>2, <1>3, <1>4
  DEF Bookkeeping, SlotsDistinct, Accounting, PassCounts, PassTracks

\* Steps that neither start nor wait for a child nor touch the book: they leave
\* the set of children alone, stay out of a pass or leave it alone, and exit only
\* when children_running is zero.
Aside ==
  /\ Existing' = Existing
  /\ NoStrangers'
  /\ UNCHANGED <<passVars, bookVars>>
  /\ pc' = "check" => pc = "check"
  /\ pc' \notin {"check", "died"} => pc \notin {"check", "died"}
  /\ pc' = "exited" => children_running = 0 \/ (pc = "exited" /\ UNCHANGED proc)

\* The main thread's other steps.
LEMMA MainAside ==
  ASSUME Bookkeeping,
         \/ SigCheck \/ Scan \/ ReapDone \/ ScanDone \/ ForkFails \/ Sleep
         \/ StartStopping \/ StoppedAll \/ PollAgain
  PROVE  Aside
BY DEF Bookkeeping, Aside, Existing, NoStrangers, SigCheck, Scan, ReapDone,
   ScanDone, ForkFails, Sleep, StartStopping, StoppedAll, PollAgain

\* The steps of the children, of the other processes and of time.
LEMMA EnvironmentAside ==
  ASSUME NoRecycling, Bookkeeping, Environment
  PROVE  Aside
<1> USE DEF Bookkeeping, TypeOK, Gone, Aside
<1>1. ASSUME NEW p \in Pids, Spawned(p) \/ ChildEnds(p) PROVE Aside
  BY <1>1 DEF Spawned, ChildEnds, Existing, NoStrangers, Running, Zombies
<1>2. ASSUME NEW p \in Pids, ForeignStarts(p) \/ ForeignEnds(p) PROVE FALSE
  BY <1>2 DEF ForeignStarts, ForeignEnds, NoRecycling, NoStrangers
<1>3. CASE SignalArrives \/ TimePasses
  BY <1>3 DEF SignalArrives, TimePasses, Existing, NoStrangers
<1>4. QED
  BY <1>1, <1>2, <1>3 DEF Environment

\* Every step that leaves the books aside keeps them.
LEMMA AsideKeepsBooks ==
  ASSUME Bookkeeping, TypeOK', Aside
  PROVE  Bookkeeping'
<1> USE DEF Aside, passVars, bookVars
<1>1. SlotsDistinct' /\ PassCounts' /\ PassTracks' /\ Accounting' /\ AllTracked'
  BY DEF Bookkeeping, SlotsDistinct, PassCounts, PassTracks, Strayed, Accounting,
     AllTracked, Tracked
<1>2. CleanShutdown'
  <2>1. CASE pc = "exited" /\ UNCHANGED proc
    BY <2>1 DEF Bookkeeping, CleanShutdown, Live
  <2>2. CASE pc' = "exited" /\ children_running = 0
    <3>1. SUFFICES ASSUME uncounted = {} PROVE \A p \in Pids : ~Live(p)'
      BY DEF CleanShutdown
    <3>2. Existing = {}
      BY <3>1, <2>2, ExistingFinite, FS_EmptySet DEF Bookkeeping, Accounting
    <3>3. QED
      BY <3>2 DEF Existing, Live
  <2>3. QED
    BY <2>1, <2>2 DEF CleanShutdown
<1>3. QED
  BY <1>1, <1>2 DEF Bookkeeping

\* Every step of the system keeps the books.
LEMMA BookkeepingStep ==
  ASSUME NoRecycling, Bookkeeping, [Next]_vars
  PROVE  Bookkeeping'
<1>1. TypeOK'
  BY TypeStep DEF Bookkeeping
<1>2. CASE \E p \in Pids : Reap(p)
  BY <1>1, <1>2, ReapKeepsBooks
<1>3. CASE StartPass
  BY <1>1, <1>3, StartPassKeepsBooks
<1>4. CASE KeepSlot
  BY <1>1, <1>4, KeepSlotKeepsBooks
<1>5. CASE ForkSlot
  BY <1>1, <1>5, ForkSlotKeepsBooks
<1>6. CASE PassDone
  BY <1>1, <1>6, PassDoneKeepsBooks
<1>7. CASE KillAll
  BY <1>1, <1>7, KillAllKeepsBooks
<1>8. CASE \/ SigCheck \/ Scan \/ ReapDone \/ ScanDone \/ ForkFails \/ Sleep
           \/ StartStopping \/ StoppedAll \/ PollAgain
  BY <1>1, <1>8, MainAside, AsideKeepsBooks
<1>9. CASE Environment
  BY <1>1, <1>9, EnvironmentAside, AsideKeepsBooks
<1>10. CASE UNCHANGED vars
  <2>1. Aside
    BY <1>10 DEF vars, Aside, Bookkeeping, NoStrangers, Existing
  <2>2. QED
    BY <1>1, <2>1, AsideKeepsBooks
<1>11. QED
  BY <1>2, <1>3, <1>4, <1>5, <1>6, <1>7, <1>8, <1>9, <1>10 DEF Next, Main

\* The master starts with clean books.
LEMMA BookkeepingInit == NoRecycling /\ Init => Bookkeeping
<1> SUFFICES ASSUME NoRecycling, Init PROVE Bookkeeping
  OBVIOUS
<1>1. TypeOK
  BY TypeInit
<1>2. NoStrangers /\ Existing = {}
  BY DEF Init, NoRecycling, NoStrangers, Existing, Running, Zombies
<1>3. Accounting
  BY <1>2, FS_EmptySet DEF Init, Accounting
<1>4. QED
  BY <1>1, <1>2, <1>3
  DEF Init, Bookkeeping, SlotsDistinct, PassCounts, PassTracks, AllTracked, CleanShutdown

\* The inductive invariant holds throughout.
LEMMA BookkeepingHolds ==
  ASSUME NoRecycling
  PROVE  Spec => []Bookkeeping
<1>1. Init => Bookkeeping
  BY BookkeepingInit
<1>2. Bookkeeping /\ [Next]_vars => Bookkeeping'
  BY BookkeepingStep
<1>3. QED
  BY <1>1, <1>2, PTL DEF Spec

\* Where no process id is reused while a slot holds it, daemond_master's count and
\* the set of its children stay in step: children_running is too small by exactly
\* the children that the last pass did not count, through every interleaving of
\* forks, deaths, signals, reaping and polls.
THEOREM BooksBalance ==
  ASSUME NoRecycling
  PROVE  Spec => []Accounting
<1>1. Bookkeeping => Accounting
  BY DEF Bookkeeping
<1>2. QED
  BY <1>1, BookkeepingHolds, PTL

\* Where no process id is reused while a slot holds it, and the last pass of
\* daemond_check_children counted every child, exit(0) of daemond_master leaves no
\* child running, for any number of children and of polls.
THEOREM ShutdownIsClean ==
  ASSUME NoRecycling
  PROVE  Spec => []CleanShutdown
<1>1. Bookkeeping => CleanShutdown
  BY DEF Bookkeeping
<1>2. QED
  BY <1>1, BookkeepingHolds, PTL

-----------------------------------------------------------------------------
(* The first slot.  Here ids may be recycled: a stranger in the slot only  *)
(* keeps it from being forked.                                             *)

\* daemond_check_children enters the first slot with do_fork clear.
FirstSlotFresh == pc = "check" /\ slot = 1 => ~do_fork

\* The part of the invariant that is about the first slot.
FirstSlot == TypeOK /\ FirstSlotFresh /\ SoleChild

\* The slot that is given to a new child holds no living one if it is the first.
LEMMA FirstForkIsNeeded ==
  ASSUME FirstSlot, slot = 1, ForkSlot
  PROVE  ~Alive(1) /\ (children[1] # NoPid => ~Live(children[1]))
<1>1. ~Alive(1)
  BY DEF FirstSlot, FirstSlotFresh, ForkSlot, WantsFork
<1>2. QED
  BY <1>1 DEF FirstSlot, TypeOK, Alive, Answers, Live, Running

\* A step leaves the first slot alone as long as its child lives.
LEMMA FirstSlotStep ==
  ASSUME FirstSlot, [Next]_vars, children[1] # NoPid, Live(children[1])
  PROVE  children'[1] = children[1]
<1>1. 1 \in Slots
  BY MasterAssumption DEF Slots
<1>2. Alive(1)
  BY <1>1 DEF FirstSlot, TypeOK, Alive, Answers, Live, Running
<1>3. CASE KeepSlot
  BY <1>1, <1>2, <1>3 DEF KeepSlot, FirstSlot, TypeOK
<1>4. CASE ForkSlot
  <2>1. slot # 1
    BY <1>4, <1>2, FirstForkIsNeeded
  <2>2. QED
    BY <2>1, <1>1, <1>4 DEF ForkSlot, FirstSlot, TypeOK
<1>5. CASE UNCHANGED children
  BY <1>5
<1>6. QED
  BY <1>3, <1>4, <1>5
  DEF Next, vars, bookVars, Main, SigCheck, Scan, ReapDone, ScanDone, Reap,
      StartPass, ForkFails, PassDone, Sleep, StartStopping, StoppedAll, PollAgain,
      KillAll, Environment, Spawned, ChildEnds, ForeignStarts, ForeignEnds,
      SignalArrives, TimePasses

\* Which steps put a child into the process table, and which touch the slots.
LEMMA WhoLives ==
  ASSUME TypeOK, [Next]_vars, NEW p \in Pids, Live(p)', ~ForkSlot
  PROVE  Live(p)
<1> USE DEF TypeOK, Live, Running, Zombies
<1>1. CASE KillAll
  BY <1>1 DEF KillAll
<1>2. CASE \E q \in Pids : \/ Reap(q) \/ Spawned(q) \/ ChildEnds(q)
                          \/ ForeignStarts(q) \/ ForeignEnds(q)
  BY <1>2 DEF Reap, Spawned, ChildEnds, ForeignStarts, ForeignEnds
<1>3. CASE UNCHANGED proc
  BY <1>3
<1>4. QED
  BY <1>1, <1>2, <1>3
  DEF Next, vars, Main, SigCheck, Scan, ReapDone, ScanDone, StartPass, KeepSlot,
      ForkFails, PassDone, Sleep, StartStopping, StoppedAll, PollAgain,
      Environment, SignalArrives, TimePasses

\* A pass starts with do_fork clear and leaves the first slot for good.
LEMMA FreshStep ==
  ASSUME FirstSlot, [Next]_vars
  PROVE  FirstSlotFresh'
<1> USE DEF FirstSlot, TypeOK, FirstSlotFresh
<1>1. CASE StartPass
  BY <1>1 DEF StartPass
<1>2. CASE KeepSlot \/ ForkSlot
  BY <1>2, MasterAssumption DEF KeepSlot, ForkSlot, Slots
<1>3. CASE UNCHANGED <<slot, do_fork>> /\ (pc' = "check" => pc = "check")
  BY <1>3
<1>4. QED
  BY <1>1, <1>2, <1>3
  DEF Next, vars, passVars, Main, SigCheck, Scan, ReapDone, ScanDone, Reap,
      ForkFails, PassDone, Sleep, StartStopping, StoppedAll, PollAgain, KillAll,
      Environment, Spawned, ChildEnds, ForeignStarts, ForeignEnds, SignalArrives,
      TimePasses

\* A single slot: a fork finds no child alive, any other step leaves the slot's.
LEMMA SoleChildStep ==
  ASSUME FirstSlot, [Next]_vars
  PROVE  SoleChild'
<1>1. SUFFICES ASSUME children_count = 1, NEW p \in Pids, Live(p)'
               PROVE  p = children'[1]
  BY DEF SoleChild
<1>2. CASE ForkSlot
  <2>1. slot = 1
    BY <1>1, <1>2 DEF ForkSlot, Slots
  <2>2. PICK q \in Pids : /\ proc' = [proc EXCEPT ![q] = "spawning"]
                          /\ children' = [children EXCEPT ![slot] = q]
    BY <1>2 DEF ForkSlot, Available
  <2>3. ~Live(p)
    BY <1>1, <1>2, <2>1, MasterAssumption, FirstForkIsNeeded DEF FirstSlot, SoleChild
  <2>4. p = q
    BY <1>1, <2>2, <2>3 DEF FirstSlot, TypeOK, Live
  <2>5. QED
    BY <1>1, <2>1, <2>2, <2>4 DEF FirstSlot, TypeOK, Slots
<1>3. CASE ~ForkSlot
  <2>1. Live(p)
    BY <1>1, <1>3, WhoLives DEF FirstSlot
  <2>2. p = children[1]
    BY <1>1, <2>1 DEF FirstSlot, SoleChild
  <2>3. QED
    BY <2>1, <2>2, MasterAssumption, FirstSlotStep
<1>4. QED
  BY <1>2, <1>3

\* The invariant of the first slot holds throughout.
LEMMA FirstSlotHolds == Spec => []FirstSlot
<1>1. Init => FirstSlot
  <2>1. ASSUME Init PROVE FirstSlotFresh /\ SoleChild
    BY <2>1 DEF Init, FirstSlotFresh, SoleChild, Live, Running
  <2>2. QED
    BY <2>1, TypeInit DEF FirstSlot
<1>2. FirstSlot /\ [Next]_vars => FirstSlot'
  BY TypeStep, FreshStep, SoleChildStep DEF FirstSlot
<1>3. QED
  BY <1>1, <1>2, PTL DEF Spec

\* A master of one child never has two, and the one it has is the one in its slot:
\* the overwriting of slots that several children suffer from cannot happen here,
\* not even when ids are reused.
THEOREM NeverTwo == Spec => []SoleChild
<1>1. FirstSlot => SoleChild
  BY DEF FirstSlot
<1>2. QED
  BY <1>1, FirstSlotHolds, PTL

\* However many slots there are, daemond_check_children never gives the first one
\* to a new child while its child lives.
THEOREM FirstSlotSafe == Spec => FirstSlotKept
<1>1. FirstSlot /\ [Next]_vars =>
        [children[1] # NoPid /\ Live(children[1]) => children'[1] = children[1]]_vars
  BY FirstSlotStep
<1>2. QED
  BY <1>1, FirstSlotHolds, PTL DEF Spec, FirstSlotKept

\* A master of one child that dies of a failing fork leaves no child running: it
\* forks only in place of one that is gone.
THEOREM DiesWithNone == Spec => []DiesAlone
<1>1. Init => DiesAlone
  BY DEF Init, DiesAlone
<1>2. FirstSlot /\ DiesAlone /\ [Next]_vars => DiesAlone'
  <2>1. SUFFICES ASSUME FirstSlot, DiesAlone, [Next]_vars,
                        children_count = 1, pc' = "died", NEW p \in Pids
                 PROVE  ~Live(p)'
    BY DEF DiesAlone
  <2>2. CASE ForkFails
    <3>1. slot = 1 /\ ~do_fork
      BY <2>1, <2>2 DEF ForkFails, Slots, FirstSlot, FirstSlotFresh
    <3>2. ~Alive(1)
      BY <2>2, <3>1 DEF ForkFails, WantsFork
    <3>3. ~Live(p)
      BY <2>1, <3>2, MasterAssumption
      DEF FirstSlot, SoleChild, Alive, Answers, Live, Running
    <3>4. QED
      BY <2>2, <3>3 DEF ForkFails, Live
  <2>3. CASE ~ForkFails
    <3>1. pc = "died"
      BY <2>1, <2>3
      DEF Next, vars, Main, SigCheck, Scan, ReapDone, ScanDone, Reap, StartPass,
          KeepSlot, ForkSlot, PassDone, Sleep, StartStopping, StoppedAll, PollAgain,
          KillAll, Environment, Spawned, ChildEnds, ForeignStarts, ForeignEnds,
          SignalArrives, TimePasses
    <3>2. ~ForkSlot /\ ~Live(p)
      BY <2>1, <3>1 DEF ForkSlot, DiesAlone
    <3>3. QED
      BY <2>1, <3>2, WhoLives DEF FirstSlot
  <2>4. QED
    BY <2>2, <2>3
<1>3. QED
  BY <1>1, <1>2, FirstSlotHolds, PTL DEF Spec

-----------------------------------------------------------------------------
(* A master of one child implements Keeper, whatever becomes of the ids of *)
(* its children.                                                           *)

\* Also a child that has ended and was not waited for is the one in the slot.
OnlyOne == \A p \in Existing : p = children[1]

\* Between passes, the child that was found alive is the one that was not left out, and
\* children_running knows of it.
KnownBetween ==
  pc # "check" /\ SlotAlive(1) =>
    /\ children[1] \in counted <=> children[1] \notin uncounted
    /\ children[1] \in counted => children_running # 0

\* The same while the pass lasts.
KnownInPass ==
  pc = "check" =>
    /\ slot = 1 => counted = {}
    /\ slot = 2 /\ SlotAlive(1) /\ children[1] \in counted => running # 0

\* There is a pass only before the request to stop, and a shutdown only after it.
StopsForGood == (pc = "check" => terminate = 0) /\ (stopping => terminate # 0)

\* The inductive invariant of the supervisor of one child.
Keeping == FirstSlot /\ OnlyOne /\ KnownBetween /\ KnownInPass /\ StopsForGood

\* Which steps bring the slot's child to life, or anybody else.
LEMMA WhoExists ==
  ASSUME TypeOK, [Next]_vars, ~ForkSlot
  PROVE  Existing' \subseteq Existing
<1> USE DEF TypeOK, Existing, Running, Zombies
<1>1. CASE KillAll
  BY <1>1 DEF KillAll
<1>2. CASE \E q \in Pids : \/ Reap(q) \/ Spawned(q) \/ ChildEnds(q)
                          \/ ForeignStarts(q) \/ ForeignEnds(q)
  BY <1>2 DEF Reap, Spawned, ChildEnds, ForeignStarts, ForeignEnds
<1>3. CASE UNCHANGED proc
  BY <1>3
<1>4. QED
  BY <1>1, <1>2, <1>3
  DEF Next, vars, Main, SigCheck, Scan, ReapDone, ScanDone, StartPass, KeepSlot,
      ForkFails, PassDone, Sleep, StartStopping, StoppedAll, PollAgain,
      Environment, SignalArrives, TimePasses

\* Only a fork fills a slot whose child is dead.
LEMMA StaysDead ==
  ASSUME children_count = 1, TypeOK, [Next]_vars, ~ForkSlot,
         children'[1] = children[1], SlotAlive(1)'
  PROVE  SlotAlive(1)
<1>1. children[1] \in Pids /\ Live(children[1])' /\ children[1] # NoPid
  BY DEF TypeOK, Slots, SlotAlive, Live
<1>2. QED
  BY <1>1, WhoLives DEF SlotAlive

\* What most steps do: the slot and what is known of it stay.
Still == UNCHANGED <<bookVars, passVars>> /\ (pc' = "check" => pc = "check")

\* Most steps are of this kind.
LEMMA StillSteps ==
  ASSUME \/ SigCheck \/ Scan \/ ReapDone \/ ScanDone \/ ForkFails \/ Sleep
         \/ StartStopping \/ StoppedAll \/ PollAgain \/ KillAll \/ Environment
         \/ UNCHANGED vars
  PROVE  Still
BY DEF SigCheck, Scan, ReapDone, ScanDone, ForkFails, Sleep, StartStopping, StoppedAll,
   PollAgain, KillAll, Environment, Spawned, ChildEnds, ForeignStarts, ForeignEnds,
   SignalArrives, TimePasses, Still, vars

\* A fork that fails was needed: there is no child.
LEMMA FailsAlone ==
  ASSUME children_count = 1, FirstSlot, ForkFails
  PROVE  ~SlotAlive(1)
<1>1. slot = 1 /\ ~do_fork
  BY DEF ForkFails, Slots, FirstSlot, FirstSlotFresh
<1>2. QED
  BY <1>1 DEF ForkFails, WantsFork, Alive, Answers, SlotAlive, Live, Running

\* They keep the invariant.
LEMMA StillKeeps ==
  ASSUME children_count = 1, Keeping, [Next]_vars, ~ForkSlot, Still,
         pc = "check" /\ pc' # "check" => ~SlotAlive(1)
  PROVE  OnlyOne' /\ KnownBetween' /\ KnownInPass'
<1>1. OnlyOne'
  BY WhoExists DEF Keeping, FirstSlot, OnlyOne, Still, bookVars
<1>2. SlotAlive(1)' => SlotAlive(1)
  BY StaysDead DEF Keeping, FirstSlot, Still, bookVars
<1>3. KnownInPass'
  BY <1>2 DEF Keeping, KnownInPass, Still, bookVars, passVars
<1>4. CASE pc # "check"
  BY <1>1, <1>2, <1>3, <1>4 DEF Keeping, KnownBetween, Still, bookVars, passVars
<1>5. CASE pc = "check"
  BY <1>1, <1>2, <1>3, <1>5 DEF KnownBetween
<1>6. QED
  BY <1>4, <1>5

\* Which steps end or begin a pass, and the last one.
LEMMA StopsStep ==
  ASSUME Keeping, [Next]_vars
  PROVE  StopsForGood'
<1> USE DEF Keeping, FirstSlot, TypeOK, StopsForGood
<1>1. CASE Scan
  BY <1>1 DEF Scan, Sig!Examine, Sig!TerminateAfter
<1>2. CASE StartPass \/ StartStopping
  BY <1>2 DEF StartPass, StartStopping, sigVars
<1>3. CASE /\ UNCHANGED <<terminate, stopping>>
           /\ pc' = "check" => pc = "check"
  BY <1>3
<1>4. QED
  BY <1>1, <1>2, <1>3
  DEF Next, vars, sigVars, Main, SigCheck, ReapDone, ScanDone, Reap, KeepSlot, ForkSlot,
      ForkFails, PassDone, Sleep, StoppedAll, PollAgain, KillAll, Environment, Spawned,
      ChildEnds, ForeignStarts, ForeignEnds, SignalArrives, TimePasses, Sig!Begin,
      Sig!End, Sig!Handler, Sig!Arrival

\* A step of daemond_reaper or of a pass.
LEMMA WalkKeeps ==
  ASSUME children_count = 1, Keeping, TypeOK', [Next]_vars,
         \/ \E p \in Pids : Reap(p)
         \/ StartPass \/ KeepSlot \/ ForkSlot \/ PassDone
  PROVE  OnlyOne' /\ KnownBetween' /\ KnownInPass'
<1> USE DEF Keeping, FirstSlot, TypeOK
<1>1. CASE \E p \in Pids : Reap(p)
  <2>1. PICK p \in Pids : Reap(p)
    BY <1>1
  <2>2. p = children[1] /\ children' = children /\ ~SlotAlive(1)'
    BY <2>1 DEF OnlyOne, Existing, Zombies, Reap, SlotAlive, Live, Running
  <2>3. QED
    BY <2>1, <2>2, WhoExists
    DEF Reap, ForkSlot, OnlyOne, KnownBetween, KnownInPass, passVars
<1>2. CASE StartPass
  BY <1>2 DEF StartPass, OnlyOne, Existing, KnownBetween, KnownInPass, bookVars
<1>3. CASE KeepSlot
  <2>1. slot = 1 /\ slot' = 2 /\ pc = "check" /\ pc' = "check"
    BY <1>3 DEF KeepSlot, Slots
  <2>2. children'[1] = IF Alive(1) THEN children[1] ELSE NoPid
    BY <1>3, <2>1 DEF KeepSlot, Slots
  <2>3. OnlyOne'
    BY <1>3, <2>1, <2>2, MasterAssumption
    DEF KeepSlot, OnlyOne, Existing, Alive, Answers, Running, Zombies
  <2>4. Alive(1) => running' # 0
    BY <1>3, <2>1 DEF KeepSlot, CountSlot
  <2>5. SlotAlive(1)' => Alive(1)
    BY <2>2 DEF SlotAlive
  <2>6. QED
    BY <2>1, <2>3, <2>4, <2>5 DEF KnownBetween, KnownInPass
<1>4. CASE ForkSlot
  <2>1. slot = 1 /\ slot' = 2 /\ pc = "check" /\ pc' = "check"
    BY <1>4 DEF ForkSlot, Slots
  <2>2. PICK q \in Pids : /\ proc' = [proc EXCEPT ![q] = "spawning"]
                          /\ children' = [children EXCEPT ![slot] = q]
    BY <1>4 DEF ForkSlot, Available
  <2>3. ~Alive(1)
    BY <1>4, <2>1, FirstForkIsNeeded
  <2>4. counted' = {}
    BY <1>4, <2>1, <2>3 DEF ForkSlot, CountSlot, KnownInPass
  <2>5. Existing = {}
    BY <2>3, MasterAssumption DEF OnlyOne, Existing, Alive, Answers, Running, Zombies
  <2>6. OnlyOne'
    BY <2>1, <2>2, <2>5 DEF OnlyOne, Existing, Slots, Running, Zombies
  <2>7. QED
    BY <2>1, <2>4, <2>6 DEF KnownBetween, KnownInPass
<1>5. CASE PassDone
  <2>1. slot = 2 /\ pc = "check" /\ pc' = "sleep"
    BY <1>5 DEF PassDone
  <2>2. SlotAlive(1)' => SlotAlive(1) /\ children[1] \in Existing
    BY <1>5 DEF PassDone, SlotAlive, Live, Existing, Slots
  <2>3. QED
    BY <1>5, <2>1, <2>2
    DEF PassDone, OnlyOne, Existing, KnownBetween, KnownInPass, passVars
<1>6. QED
  BY <1>1, <1>2, <1>3, <1>4, <1>5

\* Every step keeps it.
LEMMA KeepingStep ==
  ASSUME children_count = 1, Keeping, FirstSlot', [Next]_vars
  PROVE  Keeping'
<1>1. StopsForGood'
  BY StopsStep
<1>2. CASE \/ \E p \in Pids : Reap(p)
           \/ StartPass \/ KeepSlot \/ ForkSlot \/ PassDone
  BY <1>1, <1>2, WalkKeeps DEF Keeping, FirstSlot
<1>3. CASE \/ SigCheck \/ Scan \/ ReapDone \/ ScanDone \/ ForkFails \/ Sleep
           \/ StartStopping \/ StoppedAll \/ PollAgain \/ KillAll \/ Environment
           \/ UNCHANGED vars
  <2>1. Still
    BY <1>3, StillSteps
  <2>2. ~ForkSlot
    BY <2>1 DEF Still, ForkSlot, passVars, Keeping, FirstSlot, TypeOK
  <2>3. pc = "check" /\ pc' # "check" => ~SlotAlive(1)
    BY <1>3, FailsAlone
    DEF Keeping, SigCheck, Scan, ReapDone, ScanDone, Sleep, StartStopping, StoppedAll,
        PollAgain, KillAll, Environment, Spawned, ChildEnds, ForeignStarts, ForeignEnds,
        SignalArrives, TimePasses, vars
  <2>4. QED
    BY <1>1, <2>1, <2>2, <2>3, StillKeeps DEF Keeping
<1>4. QED
  BY <1>2, <1>3 DEF Next, Main

\* The child of the slot stays or is lost, and so does what is known of it.
LEMMA SameOrLost ==
  ASSUME SlotAlive(1)' => SlotAlive(1) /\ children'[1] = children[1]
                          /\ (IsCounted <=> IsCounted'),
         KeeperPhase' = KeeperPhase
  PROVE  [TheKeeper!Next]_(TheKeeper!kept)
<1>1. CASE SlotAlive(1)'
  <2>1. IsCounted' = IsCounted
    BY <1>1 DEF IsCounted
  <2>2. OnlyChild' = OnlyChild
    BY <1>1 DEF OnlyChild
  <2>3. QED
    BY <2>1, <2>2 DEF TheKeeper!kept
<1>2. CASE ~SlotAlive(1)' /\ SlotAlive(1)
  BY <1>2 DEF OnlyChild, IsCounted, SlotAlive, TheKeeper!Next, TheKeeper!Lose
<1>3. CASE ~SlotAlive(1)' /\ ~SlotAlive(1)
  BY <1>3 DEF OnlyChild, IsCounted, TheKeeper!kept
<1>4. QED
  BY <1>1, <1>2, <1>3

\* A fork is a new hire of the abstract supervisor.
LEMMA ForkHires ==
  ASSUME children_count = 1, Keeping, FirstSlot', ForkSlot
  PROVE  \E p \in Pids : TheKeeper!Hire(p)
<1> USE DEF Keeping, FirstSlot, TypeOK
<1>1. slot = 1 /\ slot' = 2 /\ pc = "check" /\ pc' = "check"
  BY DEF ForkSlot, Slots
<1>2. PICK q \in Pids : /\ proc' = [proc EXCEPT ![q] = "spawning"]
                        /\ children' = [children EXCEPT ![slot] = q]
  BY DEF ForkSlot, Available
<1>3. ~Alive(1) /\ ~SlotAlive(1)
  BY <1>1, FirstForkIsNeeded DEF SlotAlive, Alive, Answers, Live, Running
<1>4. counted' = {}
  BY <1>1, <1>3 DEF ForkSlot, CountSlot, KnownInPass
<1>5. OnlyChild = NoPid /\ OnlyChild' = q /\ ~IsCounted'
  BY <1>1, <1>2, <1>3, <1>4, MasterAssumption
  DEF OnlyChild, SlotAlive, Live, Running, IsCounted, Slots
<1>6. KeeperPhase = "keeping" /\ KeeperPhase' = "keeping"
  BY <1>1 DEF ForkSlot, StopsForGood, KeeperPhase, Gone, sigVars
<1>7. QED
  BY <1>2, <1>5, <1>6 DEF TheKeeper!Hire

\* A look at the slot notices a death, or is a stutter.
LEMMA KeepNotices ==
  ASSUME children_count = 1, Keeping, KeepSlot
  PROVE  [TheKeeper!Next]_(TheKeeper!kept)
<1> USE DEF Keeping, FirstSlot, TypeOK
<1>1. slot = 1 /\ slot' = 2 /\ pc = "check" /\ pc' = "check"
  BY DEF KeepSlot, Slots
<1>2. children'[1] = IF Alive(1) THEN children[1] ELSE NoPid
  BY <1>1 DEF KeepSlot, Slots
<1>3. KeeperPhase' = KeeperPhase
  BY <1>1 DEF KeepSlot, KeeperPhase, Gone, sigVars
<1>4. SlotAlive(1) => Alive(1)
  BY DEF SlotAlive, Alive, Answers, Live, Running
<1>5. proc' = proc
  BY DEF KeepSlot
<1>6. CASE SlotAlive(1)
  <2>1. OnlyChild # NoPid /\ OnlyChild' = OnlyChild /\ IsCounted'
    BY <1>1, <1>2, <1>4, <1>5, <1>6
    DEF OnlyChild, SlotAlive, Live, IsCounted, KeepSlot, CountSlot
  <2>2. QED
    BY <1>3, <2>1 DEF TheKeeper!Next, TheKeeper!Notice
<1>7. CASE ~SlotAlive(1)
  BY <1>2, <1>3, <1>5, <1>7, SameOrLost DEF SlotAlive, Live
<1>8. QED
  BY <1>6, <1>7

\* exit(0), in any of its places.
LEMMA ExitLeaves ==
  ASSUME children_count = 1, Keeping, pc' = "exited",
         StartStopping \/ StoppedAll \/ KillAll
  PROVE  TheKeeper!Leave
<1> USE DEF Keeping, FirstSlot, TypeOK
<1>1. pc = "test" /\ children' = children /\ counted' = counted /\ uncounted' = uncounted
  BY DEF StartStopping, StoppedAll, KillAll, bookVars, passVars
<1>2. KeeperPhase = "stopping" /\ KeeperPhase' = "gone"
  BY <1>1 DEF StartStopping, StoppedAll, KillAll, StopsForGood, KeeperPhase, Gone
<1>3. CASE KillAll
  <2>1. children[1] # NoPid => children[1] \in Tracked
    BY DEF Tracked, Slots
  <2>2. ~SlotAlive(1)'
    BY <1>1, <1>3, <2>1 DEF KillAll, SlotAlive, Live, Running, Slots
  <2>3. QED
    BY <1>2, <2>2 DEF OnlyChild, IsCounted, TheKeeper!Leave
<1>4. CASE StartStopping \/ StoppedAll
  <2>1. children_running = 0 /\ proc' = proc
    BY <1>4 DEF StartStopping, StoppedAll
  <2>2. ~IsCounted
    BY <1>1, <2>1 DEF IsCounted, KnownBetween
  <2>3. IsCounted' = IsCounted /\ OnlyChild' = OnlyChild
    BY <1>1, <2>1, <2>2 DEF IsCounted, OnlyChild, SlotAlive, Live
  <2>4. QED
    BY <1>2, <2>2, <2>3 DEF TheKeeper!Leave
<1>5. QED
  BY <1>3, <1>4

\* ReapDone and the like leave all of it alone; a death or a SIGKILL may lose the child.
LEMMA StillStutters ==
  ASSUME children_count = 1, Keeping, [Next]_vars, Still, ~ForkSlot,
         pc = "check" <=> pc' = "check", KeeperPhase' = KeeperPhase
  PROVE  [TheKeeper!Next]_(TheKeeper!kept)
<1>1. children' = children /\ counted' = counted /\ uncounted' = uncounted /\ slot' = slot
  BY DEF Still, bookVars, passVars
<1>2. SlotAlive(1)' => SlotAlive(1)
  BY <1>1, StaysDead DEF Keeping, FirstSlot
<1>3. QED
  BY <1>1, <1>2, SameOrLost DEF IsCounted

\* The rest of a pass is a stutter or a death.
LEMMA PassStutters ==
  ASSUME children_count = 1, Keeping, [Next]_vars,
         StartPass \/ PassDone \/ \E p \in Pids : Reap(p)
  PROVE  [TheKeeper!Next]_(TheKeeper!kept)
<1> USE DEF Keeping, FirstSlot, TypeOK
<1>1. children' = children /\ KeeperPhase' = KeeperPhase /\ ~ForkSlot
  BY DEF StartPass, PassDone, Reap, KeeperPhase, Gone, sigVars, bookVars, ForkSlot, Slots
<1>2. SlotAlive(1)' => SlotAlive(1)
  BY <1>1, StaysDead
<1>3. ASSUME SlotAlive(1)' PROVE IsCounted <=> IsCounted'
  <2>1. SlotAlive(1) /\ children[1] \in Existing
    BY <1>2, <1>3 DEF SlotAlive, Live, Existing, Slots
  <2>2. CASE StartPass
    BY <1>3, <2>1, <2>2 DEF StartPass, IsCounted, KnownBetween, bookVars
  <2>3. CASE PassDone
    BY <1>3, <2>1, <2>3 DEF PassDone, IsCounted, passVars
  <2>4. CASE \E p \in Pids : Reap(p)
    BY <1>3, <2>1, <2>4 DEF Reap, IsCounted, passVars
  <2>5. QED
    BY <2>2, <2>3, <2>4
<1>4. QED
  BY <1>1, <1>2, <1>3, SameOrLost

\* Every step of the loop is a step of the abstract supervisor.
LEMMA KeeperStep ==
  ASSUME children_count = 1, Keeping, FirstSlot', [Next]_vars
  PROVE  [TheKeeper!Next]_(TheKeeper!kept)
<1> USE DEF Keeping, FirstSlot, TypeOK
<1>1. CASE ForkSlot
  BY <1>1, ForkHires DEF TheKeeper!Next
<1>2. CASE KeepSlot
  BY <1>2, KeepNotices
<1>3. CASE StartPass \/ PassDone \/ \E p \in Pids : Reap(p)
  BY <1>3, PassStutters
<1>4. CASE pc' = "exited" /\ (StartStopping \/ StoppedAll \/ KillAll)
  BY <1>4, ExitLeaves DEF TheKeeper!Next
<1>5. CASE ForkFails
  <2>1. ~SlotAlive(1) /\ ~SlotAlive(1)'
    BY <1>5, FailsAlone DEF ForkFails, bookVars, SlotAlive, Live
  <2>2. KeeperPhase = "keeping" /\ KeeperPhase' = "gone"
    BY <1>5 DEF ForkFails, KeeperPhase, Gone, StopsForGood
  <2>3. QED
    BY <2>1, <2>2 DEF OnlyChild, IsCounted, TheKeeper!Next, TheKeeper!GiveUp
<1>6. CASE Scan
  <2>1. Still /\ proc' = proc /\ pc = "scan" /\ pc' \in {"scan", "reap"}
    BY <1>6, StillSteps DEF Scan
  <2>2. OnlyChild' = OnlyChild /\ IsCounted' = IsCounted
    BY <2>1 DEF Still, OnlyChild, IsCounted, SlotAlive, Live, bookVars, passVars
  <2>3. terminate # 0 => terminate' # 0
    BY <1>6 DEF Scan, Sig!Examine, Sig!TerminateAfter
  <2>4. QED
    BY <2>1, <2>2, <2>3
    DEF KeeperPhase, Gone, TheKeeper!Next, TheKeeper!Stop, TheKeeper!kept
<1>7. CASE \/ SigCheck \/ ReapDone \/ ScanDone \/ Sleep \/ PollAgain
           \/ StartStopping /\ pc' # "exited"
           \/ Environment \/ UNCHANGED vars
  <2>1. Still
    BY <1>7, StillSteps
  <2>2. /\ ~ForkSlot
        /\ (pc = "check" <=> pc' = "check")
        /\ KeeperPhase' = KeeperPhase
    BY <1>7, <2>1
    DEF Still, ForkSlot, KeeperPhase, Gone, SigCheck, ReapDone, ScanDone, Sleep, PollAgain,
        StartStopping, Environment, Spawned, ChildEnds, ForeignStarts, ForeignEnds,
        SignalArrives, TimePasses, vars, sigVars, passVars, Sig!Begin, Sig!End,
        Sig!Handler, Sig!Arrival
  <2>3. QED
    BY <2>1, <2>2, StillStutters
<1>8. QED
  BY <1>1, <1>2, <1>3, <1>4, <1>5, <1>6, <1>7 DEF Next, Main, StoppedAll, KillAll

\* It begins as the abstract supervisor does.
LEMMA KeepingInit ==
  ASSUME children_count = 1, Init
  PROVE  (FirstSlot => Keeping) /\ TheKeeper!Init
<1>1. Existing = {} /\ ~SlotAlive(1) /\ pc = "loop" /\ ~stopping /\ terminate = 0
  BY DEF Init, Sig!Init, Existing, Running, Zombies, SlotAlive, Slots
<1>2. OnlyOne /\ KnownBetween /\ KnownInPass /\ StopsForGood
  BY <1>1 DEF OnlyOne, KnownBetween, KnownInPass, StopsForGood
<1>3. QED
  BY <1>1, <1>2
  DEF Keeping, OnlyChild, IsCounted, KeeperPhase, Gone, TheKeeper!Init

\* A master of one child does what Keeper allows, for any process ids, recycled or not,
\* any number of polls and any setting of the throttle.
THEOREM KeeperImplemented ==
  ASSUME children_count = 1
  PROVE  Spec => TheKeeper!Safety
<1>1. Init /\ FirstSlot => Keeping
  BY KeepingInit
<1>2. Keeping /\ FirstSlot' /\ [Next]_vars => Keeping'
  BY KeepingStep
<1>3. Init => TheKeeper!Init
  BY KeepingInit
<1>4. Keeping /\ FirstSlot' /\ [Next]_vars => [TheKeeper!Next]_(TheKeeper!kept)
  BY KeeperStep
<1>5. QED
  BY <1>1, <1>2, <1>3, <1>4, FirstSlotHolds, PTL DEF Spec, TheKeeper!Safety

-----------------------------------------------------------------------------
(* What requests to stop come to, with any number of slots: the safe half  *)
(* of RequestSeen and RequestHonoured, and the bound of the shutdown that  *)
(* follows.                                                                *)

\* The steps until daemond_sig_check has returned and its result is tested.
Place ==
  CASE pc = "sleep" -> 12
    [] pc = "loop" -> 11
    [] pc = "scan" -> 2 * (6 - at)
    [] pc = "reap" -> 3
    [] OTHER -> 1

\* The rounds of the shutdown loop that are left, and the one that leads to it.
Rounds == MaxPolls - polls + IF stopping THEN 0 ELSE 1

\* An upper bound of the steps that the master has still to take once terminate is set:
\* waitpid finds each child once.
Left ==
  IF Gone THEN 0 ELSE 11 * Rounds + Place + Cardinality(Existing)

\* Never more than this.
ShutdownBounded == Left \in 0 .. 11 * (MaxPolls + 1) + 12 + Cardinality(Pids)

\* A request that is recorded in terminate stays there, and every step of the master
\* leaves it less to do; the children and further signals leave it as much.
ShutdownProgress ==
  terminate # 0 /\ ~Gone =>
    /\ terminate' # 0
    /\ Left' < Left \/ (Left' = Left /\ UNCHANGED <<pc, at, stopping, polls>>)

\* Where the walk is, that no pass is made after a request, and no shutdown before.
Walking ==
  /\ stopping => terminate # 0
  /\ pc = "check" => terminate = 0
  /\ pc = "scan" => at \in 1 .. 5
  /\ pc = "reap" => at = 5

\* The walk does not get out of its way.
LEMMA WalkingStep == TypeOK /\ Walking /\ [Next]_vars => Walking'
<1> SUFFICES ASSUME TypeOK, Walking, [Next]_vars PROVE Walking'
  OBVIOUS
<1> USE OrderLength DEF Walking
<1>1. CASE Scan
  <2>1. at \in 1 .. 4 /\ at' = at + 1 /\ pc = "scan"
    BY <1>1 DEF Scan, Sig!Examine
  <2>2. pc' \in {"scan", "reap"} /\ (pc' = "reap" => at = 4)
    BY <1>1, <2>1 DEF Scan, Sig!SigOrder
  <2>3. stopping' => terminate' # 0
    BY <1>1 DEF Scan, Sig!Examine, Sig!TerminateAfter
  <2> QED
    BY <2>1, <2>2, <2>3
<1>2. CASE SigCheck \/ ScanDone \/ ReapDone
  BY <1>2 DEF SigCheck, ScanDone, ReapDone, Sig!Begin, Sig!End, sigVars
<1>3. CASE StartPass \/ StartStopping
  BY <1>3 DEF StartPass, StartStopping, sigVars
<1>4. CASE UNCHANGED <<at, terminate, stopping>> /\ (pc' = pc \/ pc' \notin {"check", "scan", "reap"})
  BY <1>4
<1> QED
  BY <1>1, <1>2, <1>3, <1>4
  DEF Next, vars, sigVars, Main, Reap, KeepSlot, ForkSlot, ForkFails, PassDone, Sleep,
      StartStopping, StoppedAll, PollAgain, KillAll, Environment, Spawned, ChildEnds,
      ForeignStarts, ForeignEnds, SignalArrives, TimePasses, Sig!Handler, Sig!Arrival

\* So much for the invariant.
LEMMA WalkingHolds == Spec => [](TypeOK /\ Walking)
<1>1. Init => Walking
  BY DEF Init, Walking
<1> QED
  BY <1>1, WalkingStep, TypeCorrect, PTL DEF Spec

\* The parts of Left are whole numbers.
LEMMA LeftParts ==
  ASSUME TypeOK, Walking
  PROVE  /\ Rounds \in 0 .. MaxPolls + 1
         /\ Place \in 1 .. 12
         /\ Cardinality(Existing) \in 0 .. Cardinality(Pids) /\ Cardinality(Pids) \in Nat
         /\ MaxPolls \in Nat
<1>1. Rounds \in 0 .. MaxPolls + 1 /\ MaxPolls \in Nat
  BY MasterAssumption DEF TypeOK, Rounds
<1>2. Place \in 1 .. 12
  BY DEF Place, Walking
<1>3. Existing \in SUBSET Pids
  BY DEF Existing
<1>4. Cardinality(Existing) <= Cardinality(Pids)
  BY <1>3, MasterAssumption, FS_Subset
<1>5. Cardinality(Existing) \in Nat /\ Cardinality(Pids) \in Nat
  BY PidsFinite, ExistingFinite
<1> QED
  BY <1>1, <1>2, <1>4, <1>5

\* So is Left, which is bounded.
LEMMA LeftBounded == TypeOK /\ Walking => ShutdownBounded
<1> SUFFICES ASSUME TypeOK, Walking PROVE ShutdownBounded
  OBVIOUS
<1> DEFINE n == Cardinality(Pids)
           e == Cardinality(Existing)
<1>1. /\ Rounds \in 0 .. MaxPolls + 1 /\ Place \in 1 .. 12 /\ e \in 0 .. n /\ n \in Nat
      /\ MaxPolls \in Nat
  BY LeftParts
<1>2. Left = IF Gone THEN 0 ELSE 11 * Rounds + Place + e
  BY DEF Left
<1> HIDE DEF n, e
<1>3. Left \in 0 .. 11 * (MaxPolls + 1) + 12 + n
  BY <1>1, <1>2
<1> QED
  BY <1>3 DEF ShutdownBounded, n

\* The children and the signals leave the master's work alone.
LEMMA EnvironmentLeaves ==
  ASSUME TypeOK, Environment
  PROVE  UNCHANGED <<pc, at, stopping, polls, terminate>> /\ Existing' = Existing
<1>1. UNCHANGED <<pc, at, stopping, polls, terminate>>
  BY DEF Environment, Spawned, ChildEnds, ForeignStarts, ForeignEnds, SignalArrives,
         TimePasses, Sig!Handler, Sig!Arrival, sigVars
<1>2. CASE \E p \in Pids : Spawned(p) \/ ChildEnds(p) \/ ForeignStarts(p) \/ ForeignEnds(p)
  <2>1. PICK p \in Pids : Spawned(p) \/ ChildEnds(p) \/ ForeignStarts(p) \/ ForeignEnds(p)
    BY <1>2
  <2>2. proc[p] \in Running \cup Zombies <=> proc'[p] \in Running \cup Zombies
    BY <2>1 DEF Spawned, ChildEnds, ForeignStarts, ForeignEnds, TypeOK, Running, Zombies
  <2>3. \A q \in Pids \ {p} : proc'[q] = proc[q]
    BY <2>1 DEF Spawned, ChildEnds, ForeignStarts, ForeignEnds, TypeOK
  <2> QED
    BY <1>1, <2>2, <2>3 DEF Existing, Running, Zombies
<1>3. CASE SignalArrives \/ TimePasses
  <2>1. proc' = proc
    BY <1>3 DEF SignalArrives, TimePasses
  <2> QED
    BY <1>1, <2>1 DEF Existing, Running, Zombies
<1> QED
  BY <1>2, <1>3 DEF Environment

\* A round is worth as many steps as it has places.
LEMMA Sums ==
  ASSUME NEW a \in Nat, NEW b \in 1 .. 12, NEW c \in Nat,
         NEW x \in Nat, NEW y \in 1 .. 12, NEW z \in Nat, z <= c,
         \/ x = a /\ y < b
         \/ x = a - 1 /\ y = 11 /\ b = 1
         \/ x = a /\ y = b /\ z < c
  PROVE  11 * x + y + z < 11 * a + b + c
OBVIOUS

\* What is left after a step that goes on, in the parts of Left.
LEMMA Less ==
  ASSUME TypeOK, Walking, TypeOK', Walking', ~Gone,
         Existing' \subseteq Existing,
         \/ Gone'
         \/ Rounds' = Rounds /\ Place' < Place
         \/ Rounds' = Rounds - 1 /\ Place' = 11 /\ Place = 1
         \/ /\ Rounds' = Rounds /\ Place' = Place
            /\ Cardinality(Existing)' < Cardinality(Existing)
  PROVE  Left' < Left
<1> DEFINE e == Cardinality(Existing)
<1>1. Rounds \in Nat /\ Place \in 1 .. 12 /\ e \in Nat
  BY LeftParts
<1>2. Rounds' \in Nat /\ Place' \in 1 .. 12 /\ e' \in Nat
  <2>1. (TypeOK /\ Walking)' =>
           (Rounds \in 0 .. MaxPolls + 1 /\ Place \in 1 .. 12
              /\ Cardinality(Existing) \in 0 .. Cardinality(Pids)
              /\ Cardinality(Pids) \in Nat /\ MaxPolls \in Nat)'
    BY LeftParts, PTL
  <2> QED
    BY <2>1
<1>3. e' <= e
  BY ExistingFinite, FS_Subset
<1>4. Left = 11 * Rounds + Place + e
  BY DEF Left
<1>5. Left' = IF Gone' THEN 0 ELSE 11 * Rounds' + Place' + e'
  BY DEF Left
<1>6. \/ Gone'
      \/ Rounds' = Rounds /\ Place' < Place
      \/ Rounds' = Rounds - 1 /\ Place' = 11 /\ Place = 1
      \/ Rounds' = Rounds /\ Place' = Place /\ e' < e
  OBVIOUS
<1> HIDE DEF e
<1>7. CASE Gone'
  BY <1>1, <1>4, <1>5, <1>7
<1>8. CASE ~Gone'
  <2>1. Left' = 11 * Rounds' + Place' + e'
    BY <1>5, <1>8
  <2>2. 11 * Rounds' + Place' + e' < 11 * Rounds + Place + e
    BY <1>1, <1>2, <1>3, <1>6, <1>8, Sums
  <2> QED
    BY <1>4, <2>1, <2>2
<1> QED
  BY <1>7, <1>8

\* The master exits in at most 11 * (MaxPolls + 1) + 12 steps of its own, and one for each
\* child there is, once it has recorded a request to stop: whatever its children do with
\* SIGTERM and however many signals arrive meanwhile.
THEOREM ShutdownIsBounded == Spec => []ShutdownBounded /\ [][ShutdownProgress]_vars
<1>1. TypeOK /\ Walking /\ (TypeOK /\ Walking)' /\ [Next]_vars => [ShutdownProgress]_vars
  <2> SUFFICES ASSUME TypeOK, Walking, TypeOK', Walking', Next, terminate # 0, ~Gone
               PROVE  /\ terminate' # 0
                      /\ \/ Left' < Left
                         \/ Left' = Left /\ UNCHANGED <<pc, at, stopping, polls>>
    BY DEF ShutdownProgress
  <2>1. CASE Environment
    <3>1. UNCHANGED <<pc, at, stopping, polls, terminate>> /\ Existing' = Existing
      BY <2>1, EnvironmentLeaves
    <3>2. Left' = Left
      BY <3>1 DEF Left, Gone, Rounds, Place
    <3> QED
      BY <3>1, <3>2
  <2>2. CASE Main
    <3>1. pc \notin {"check", "exited", "died"} /\ MaxPolls \in Nat /\ polls \in 0 .. MaxPolls
      BY MasterAssumption DEF Walking, Gone, TypeOK
    <3>2. ~ForkSlot
      BY <3>1 DEF ForkSlot
    <3>3. Existing' \subseteq Existing
      BY <3>2, WhoExists
    <3>4. CASE Scan
      <4>1. at \in 1 .. 4 /\ at' = at + 1 /\ pc = "scan" /\ UNCHANGED <<stopping, polls>>
        BY <3>4, OrderLength DEF Scan, Sig!Examine
      <4>2. terminate' # 0
        BY <3>4 DEF Scan, Sig!Examine, Sig!TerminateAfter
      <4>3. pc' \in {"scan", "reap"} /\ (pc' = "reap" => at = 4)
        BY <3>4, <4>1 DEF Scan, Sig!SigOrder
      <4>4. Rounds' = Rounds /\ Place' < Place
        BY <4>1, <4>3 DEF Rounds, Place
      <4> QED
        BY <3>3, <4>2, <4>4, Less
    <3>5. CASE SigCheck \/ ScanDone \/ ReapDone \/ Sleep
      <4>1. terminate' # 0 /\ UNCHANGED <<stopping, polls>>
        BY <3>5 DEF SigCheck, ScanDone, ReapDone, Sleep, Sig!Begin, Sig!End, sigVars
      <4>2. \/ pc = "loop" /\ (pc' = "test" \/ (pc' = "scan" /\ at' = 1))
            \/ pc = "scan" /\ at = 5 /\ pc' = "test"
            \/ pc = "reap" /\ pc' = "scan" /\ at = 5 /\ at' = 5
            \/ pc = "sleep" /\ pc' = "loop"
        <5>1. CASE SigCheck \/ Sleep
          BY <5>1 DEF SigCheck, Sleep, Sig!Begin
        <5>2. CASE ScanDone
          BY <5>2, OrderLength DEF ScanDone, Sig!End
        <5>3. CASE ReapDone
          BY <5>3 DEF ReapDone, Walking, sigVars
        <5> QED
          BY <3>5, <5>1, <5>2, <5>3
      <4>3. Rounds' = Rounds /\ Place' < Place
        BY <4>1, <4>2 DEF Rounds, Place
      <4> QED
        BY <3>3, <4>1, <4>3, Less
    <3>6. CASE \E p \in Pids : Reap(p)
      <4>1. PICK p \in Pids : Reap(p)
        BY <3>6
      <4>2. p \in Existing /\ Existing' = Existing \ {p}
        BY <4>1 DEF Reap, TypeOK, Existing, Running, Zombies
      <4>3. Cardinality(Existing') = Cardinality(Existing) - 1
        BY <4>2, ExistingFinite, FS_RemoveElement
      <4>4. Cardinality(Existing)' < Cardinality(Existing)
        BY <4>3, ExistingFinite
      <4>5. terminate' # 0 /\ UNCHANGED <<pc, at, stopping, polls>>
        BY <4>1 DEF Reap, sigVars
      <4>6. Rounds' = Rounds /\ Place' = Place
        BY <4>5 DEF Rounds, Place
      <4> QED
        BY <3>3, <4>4, <4>5, <4>6, Less
    <3>7. CASE StartStopping \/ PollAgain
      <4>1. terminate' # 0
        BY <3>7 DEF StartStopping, PollAgain, sigVars
      <4>2. CASE pc' = "exited"
        BY <3>3, <4>1, <4>2, Less DEF Gone
      <4>3. CASE pc' # "exited"
        <5>1. pc = "test" /\ pc' = "loop"
          BY <3>7, <4>3 DEF StartStopping, PollAgain
        <5>2. \/ ~stopping /\ stopping' = TRUE /\ polls' = polls
              \/ stopping /\ stopping' = stopping /\ polls' = polls + 1
          BY <3>7, <4>3 DEF StartStopping, PollAgain
        <5>3. Rounds' = Rounds - 1
          BY <3>1, <5>2 DEF Rounds
        <5>4. Place' = 11 /\ Place = 1
          BY <5>1 DEF Place
        <5> QED
          BY <3>3, <4>1, <5>3, <5>4, Less
      <4> QED
        BY <4>2, <4>3
    <3>8. CASE StoppedAll \/ KillAll
      <4>1. terminate' # 0 /\ Gone'
        BY <3>8 DEF StoppedAll, KillAll, sigVars, Gone
      <4> QED
        BY <3>3, <4>1, Less
    <3> QED
      BY <2>2, <3>1, <3>4, <3>5, <3>6, <3>7, <3>8
      DEF Main, StartPass, KeepSlot, ForkSlot, ForkFails, PassDone
  <2> QED
    BY <2>1, <2>2 DEF Next
<1> QED
  BY <1>1, LeftBounded, WalkingHolds, PTL DEF Spec

\* A request to stop that the walk, if there is one, has not yet come past.
Pending(s) == was_received /\ received[s] /\ Sig!StillAhead(s)

\* The steps of the master until it examines such a request.
Coming ==
  CASE pc = "test" -> 8 + children_count
    [] pc = "check" -> 8 + children_count - slot
    [] pc = "sleep" -> 6
    [] pc = "loop" -> 5
    [] pc = "scan" -> 5 - at
    [] OTHER -> 0

\* Never more than this.
ComingBounded == Coming \in 0 .. 8 + children_count

\* The request stays pending until it is in terminate, and every step of the master
\* brings it closer.
RequestProgress ==
  \A s \in Sig!Stopping :
    Pending(s) /\ terminate = 0 =>
      \/ terminate' # 0
      \/ Gone'
      \/ Pending(s)' /\ (Coming' < Coming \/ UNCHANGED <<pc, at, slot>>)

\* The order of the walk, request by request.
LEMMA Order ==
  /\ Sig!SigOrder[1] = "INT" /\ Sig!SigOrder[2] = "QUIT" /\ Sig!SigOrder[3] = "TERM"
  /\ Sig!SigOrder[4] = "CHLD"
BY DEF Sig!SigOrder

\* A request is ahead as long as its own place is.
LEMMA Ahead ==
  ASSUME NEW s \in Sig!Stopping
  PROVE  \E k \in 1 .. 3 :
           /\ \A i \in 1 .. 4 : Sig!SigOrder[i] = s <=> i = k
           /\ TypeOK => (Sig!StillAhead(s) <=> at <= k)
           /\ TypeOK' => (Sig!StillAhead(s)' <=> at' <= k)
<1>1. PICK k \in 1 .. 3 : \A i \in 1 .. 4 : Sig!SigOrder[i] = s <=> i = k
  BY Order DEF Sig!Stopping
<1>2. \A a \in 0 .. 5 : (\E i \in a .. 4 : i > 0 /\ Sig!SigOrder[i] = s) <=> a <= k
  BY <1>1
<1>3. TypeOK => (Sig!StillAhead(s) <=> at <= k)
  BY <1>2, OrderLength DEF TypeOK, Sig!StillAhead
<1>4. TypeOK' => (Sig!StillAhead(s)' <=> at' <= k)
  BY <1>2, OrderLength DEF TypeOK, Sig!StillAhead
<1> QED
  BY <1>1, <1>3, <1>4

\* A request to stop that is recorded before the walk comes past it is in terminate
\* after children_count + 8 steps of the master at most, through whatever pass it is in
\* and whatever arrives meanwhile: daemond_sig_check does not lose it.
THEOREM RequestIsSeen == Spec => []ComingBounded /\ [][RequestProgress]_vars
<1>1. TypeOK /\ Walking => ComingBounded
  <2> SUFFICES ASSUME TypeOK, Walking PROVE ComingBounded
    OBVIOUS
  <2>1. children_count \in Nat /\ slot \in 1 .. children_count + 1
    BY MasterAssumption DEF TypeOK
  <2> QED
    BY <2>1 DEF ComingBounded, Coming, Walking
<1>2. TypeOK /\ Walking /\ (TypeOK /\ Walking)' /\ [Next]_vars => [RequestProgress]_vars
  <2> SUFFICES ASSUME TypeOK, Walking, TypeOK', Walking', Next,
                      NEW s \in Sig!Stopping, Pending(s), terminate = 0,
                      terminate' = 0, ~Gone'
               PROVE  Pending(s)' /\ (Coming' < Coming \/ UNCHANGED <<pc, at, slot>>)
    BY DEF RequestProgress
  <2>1. PICK k \in 1 .. 3 :
          /\ \A i \in 1 .. 4 : Sig!SigOrder[i] = s <=> i = k
          /\ Sig!StillAhead(s) <=> at <= k
          /\ Sig!StillAhead(s)' <=> at' <= k
    BY Ahead
  <2>2. at \in 0 .. k /\ was_received /\ received[s] /\ s \in Sig!Sigs
    BY <2>1 DEF Pending, TypeOK, Sig!Stopping, Sig!Sigs
  <2>3. pc # "reap" /\ ~stopping /\ (pc = "scan" => at \in 1 .. k)
    BY <2>2 DEF Walking
  <2>4. children_count \in Nat /\ slot \in 1 .. children_count + 1
    BY MasterAssumption DEF TypeOK
  <2>5. CASE Environment
    <3>1. UNCHANGED <<pc, at, slot>>
      BY <2>5 DEF Environment, Spawned, ChildEnds, ForeignStarts, ForeignEnds, SignalArrives,
                  TimePasses, Sig!Handler, Sig!Arrival, sigVars, passVars
    <3>2. was_received' /\ received'[s]
      BY <2>2, <2>5
      DEF Environment, Spawned, ChildEnds, ForeignStarts, ForeignEnds, SignalArrives,
          TimePasses, Sig!Handler, Sig!Arrival, sigVars, TypeOK
    <3> QED
      BY <2>1, <2>2, <3>1, <3>2 DEF Pending
  <2>6. CASE Scan
    <3>1. at \in 1 .. k /\ at' = at + 1 /\ pc = "scan"
      BY <2>3, <2>6 DEF Scan, Sig!Examine
    <3>2. at # k
      BY <2>1, <2>2, <2>6, <3>1 DEF Scan, Sig!Examine, Sig!TerminateAfter, Sig!Stopping
    <3>3. Sig!SigOrder[at] # s /\ Sig!SigOrder[at] # "CHLD"
      BY <2>1, <3>1, <3>2, Order
    <3>4. was_received' /\ received'[s] /\ pc' = "scan"
      BY <2>2, <2>6, <3>1, <3>3 DEF Scan, Sig!Examine, TypeOK
    <3>5. Coming' < Coming
      BY <3>1, <3>4 DEF Coming
    <3> QED
      BY <2>1, <3>1, <3>2, <3>4, <3>5 DEF Pending
  <2>7. CASE SigCheck
    <3>1. pc = "loop" /\ pc' = "scan" /\ at' = 1 /\ was_received' /\ received' = received
      BY <2>2, <2>7 DEF SigCheck, Sig!Begin
    <3>2. Coming' < Coming
      BY <3>1 DEF Coming
    <3> QED
      BY <2>1, <2>2, <3>1, <3>2 DEF Pending
  <2>8. CASE StartPass \/ KeepSlot \/ ForkSlot \/ PassDone \/ Sleep
    <3>1. UNCHANGED <<was_received, received, at>>
      BY <2>8 DEF StartPass, KeepSlot, ForkSlot, PassDone, Sleep, sigVars
    <3>2. \/ pc = "test" /\ pc' = "check" /\ slot' = 1
          \/ pc = "check" /\ pc' = "check" /\ slot' = slot + 1 /\ slot \in Slots
          \/ pc = "check" /\ pc' = "sleep" /\ slot = children_count + 1
          \/ pc = "sleep" /\ pc' = "loop"
      BY <2>8 DEF StartPass, KeepSlot, ForkSlot, PassDone, Sleep
    <3>3. Coming' < Coming
      BY <2>4, <3>2 DEF Coming
    <3> QED
      BY <2>1, <2>2, <3>1, <3>3 DEF Pending
  <2> QED
    BY <2>2, <2>3, <2>5, <2>6, <2>7, <2>8, OrderLength
    DEF Next, Main, Reap, ReapDone, ScanDone, Sig!End, ForkFails, StartStopping, StoppedAll,
        PollAgain, KillAll, Gone
<1> QED
  BY <1>1, <1>2, WalkingHolds, PTL DEF Spec

\* A request to stop is kept until it is in terminate.
Remembered ==
  \A s \in Sig!Stopping : received[s] => received'[s] \/ terminate' # 0

\* One that comes behind the walk, whose common flag is lowered after it, is not lost
\* either: the next signal, if there is one, raises the flag again.
THEOREM RequestIsKept == Spec => [][Remembered]_vars
<1>1. TypeOK /\ [Next]_vars => [Remembered]_vars
  <2> SUFFICES ASSUME TypeOK, Next, NEW s \in Sig!Stopping, received[s]
               PROVE  received'[s] \/ terminate' # 0
    BY DEF Remembered
  <2>1. s \in Sig!Sigs /\ received \in [Sig!Sigs -> BOOLEAN]
    BY DEF TypeOK, Sig!Stopping, Sig!Sigs
  <2>2. CASE Scan
    BY <2>1, <2>2 DEF Scan, Sig!Examine, Sig!TerminateAfter, Sig!Stopping
  <2>3. CASE Sig!Arrival \/ Sig!Handler("CHLD")
    BY <2>1, <2>3 DEF Sig!Arrival, Sig!Handler
  <2>4. CASE received' = received
    BY <2>4
  <2> QED
    BY <2>2, <2>3, <2>4
    DEF Next, Main, Environment, sigVars, SigCheck, ReapDone, ScanDone, Reap, StartPass,
        KeepSlot, ForkSlot, ForkFails, PassDone, Sleep, StartStopping, StoppedAll, PollAgain,
        KillAll, Spawned, ChildEnds, ForeignStarts, ForeignEnds, SignalArrives, TimePasses,
        Sig!Begin, Sig!End
<1> QED
  BY <1>1, TypeCorrect, PTL DEF Spec
=============================================================================
