------------------------------ MODULE Throttle ------------------------------
(***************************************************************************)
(* The restart throttle: the second half of daemond_reaper and the clock   *)
(* test of daemond_check_children.                                         *)
(*                                                                         *)
(* d->fork_at is represented by the time still to go until it, in ticks:   *)
(* wait = max(0, fork_at - htime()), so that htime() > fork_at is wait = 0 *)
(* (an htime() read after fork_at = htime() is later than it).  The        *)
(* intervals are numbers of ticks.                                         *)
(***************************************************************************)
EXTENDS Naturals

CONSTANTS
  children_count,        \* d->children_count
  max_die,               \* d->max_die, 0 for "never raise"
  min_restart_interval,  \* d->min_restart_interval
  max_restart_interval   \* d->max_restart_interval

VARIABLES
  last_die_count,    \* d->last_die_count: bad batches in a row since the last raise
  restart_interval,  \* d->restart_interval
  wait               \* what is left of d->fork_at - htime()

Init ==
  /\ last_die_count = 0
  /\ restart_interval = min_restart_interval
  /\ wait = 0

-----------------------------------------------------------------------------
Capped(interval) ==
  IF interval > max_restart_interval THEN max_restart_interval ELSE interval

\* Plausible slips: no cap, and a streak that may grow one longer.
RaiseUncapped ==
  /\ restart_interval' = 4 * restart_interval
  /\ wait' = restart_interval'
  /\ last_die_count' = 0

TooManyOffByOne ==
  /\ max_die > 0
  /\ last_die_count > max_die * children_count

\* d->last_die_count was just incremented when the code compares it.
TooMany ==
  /\ max_die > 0
  /\ (last_die_count + 1) + 1 > max_die * children_count

\* The interval is doubled, capped, and doubled once more when fork_at is set.
Raise ==
  /\ restart_interval' = 2 * Capped(2 * restart_interval)
  /\ wait' = restart_interval'
  /\ last_die_count' = 0

\* A plausible slip: the cap is applied on every bad batch.
DelayCaps ==
  /\ last_die_count' = last_die_count + 1
  /\ restart_interval' = Capped(restart_interval)
  /\ wait' = restart_interval'

Delay ==
  /\ last_die_count' = last_die_count + 1
  /\ wait' = restart_interval
  /\ UNCHANGED restart_interval

\* End of a reaper run that saw at least one bad exit.
Died == IF TooMany THEN Raise ELSE Delay

\* End of a reaper run that saw none, one that reaped nobody included.
Quiet ==
  /\ last_die_count' = 0
  /\ wait' = 0
  /\ UNCHANGED restart_interval

Tick ==
  /\ wait > 0
  /\ wait' = wait - 1
  /\ UNCHANGED <<last_die_count, restart_interval>>

MayFork == wait = 0

=============================================================================
