# libdaemond in TLA+

libdaemond (`src/src/libdaemond.c`, `src/src/libdaemond.h`) turns a program into a
daemon: it takes a pid file lock, understands `start`, `stop`, `restart` and `check`,
detaches from the terminal, and then supervises a number of child processes which
it restarts when they die.  `src/ex` holds a sample program that tests it by hand.  This
directory holds a model of both in TLA+, the TLC configurations that check the model,
and proofs checked by TLAPS.

Line numbers without a file are of `src/src/libdaemond.c`.

## 1. Inventory

The library is a single C file.  Its parts share the structure `daemond` and call one
another in the order a program uses them: `daemond_init`, then `daemond_pid_lock` or
`daemond_cli_run`, then `daemond_daemonize`, then `daemond_master`, which returns in
the children only.

| component | state | operations | what makes it correct | model |
|---|---|---|---|---|
| master (982-1192) | `children[]`, `children_running`, the locals of its loops | `daemond_check_children`, `daemond_fork`, `daemond_reaper`, `daemond_master` | the count matches the processes; clean, bounded shutdown; dead children are replaced | `Master`, `Keeper` |
| signals (603-690, 1086-1121) | `daemond_sig_was_received`, `daemond_sig_received[]`, `d->terminate` | handler, `daemond_sig_check` | no recorded request is lost | `Signals` in `Master` |
| restart throttle (1020, 1064-1083) | `last_die_count`, `restart_interval`, `fork_at` | second half of `daemond_reaper` | the interval is bounded, raised in time, never shortened | `Throttle` in `Master` |
| pid file lock (196-379) | the file, its inode and content; `locked`, `owner`, `oldpid`, `fd`; the flock of the open file description | `daemond_pid_lock`, `daemond_pid_openlocked`, `daemond_pid_write` | at most one good lock; the file names its holder; a race has a winner; the call returns | `PidLock`, `PidRace`, `PidMutex` |
| command line (415-591) | the command, the old pid, the stage of killing | `daemond_cli_run`, `daemond_cli_kill`, `daemond_kill_wait`, `kill_ext` | one master at a time; commands end; what they say is true; restart replaces | `Cli` over `PidLock` |
| daemonization (381-409, 696-823) | three processes over one file offset, the pid file | `daemond_daemonize`, `daemond_pid_relock`, `daemond_pid_read`, `daemond_pid_forget` | the file names the daemon; the launcher's report is true if it was in time; it returns | `Daemonize` |
| log interception (829-902) | a pipe, stdio's buffer, a buffer on the stack | `daemond_log_std_intercept`, `daemond_log_std_read` | no whole line lost; nothing copied from beyond the buffer; the call returns | `LogStd` |
| speech (27-190, `src/ex/sample.cpp` 70-110) | the tracer, the buffer of `vcolorprintf` | `daemond_say`, `daemond_printf`, `vcolorprintf`, `bw_console_tracer` | the buffer holds the text; tracers agree on what is a tag; lines end | `Speech` |
| string conversions (`src/ex/strings_manip.cpp`) | `errno` | `c_string_to_*`, `string_to_*`, `string_to_number` | what is returned is what was written; what fits is accepted | `Strings`, `Numbers` |
| sample (`src/ex/sample.cpp`, `io_wrapper.cpp`) | the options, two streams, the clock | option parsing, the tests, the child's loop | the child lives and dies as it was told; output goes where it was told | `Sample` over `Strings` |
| minimal sample (`src/ex/sample.c`) | none | the order of calls into the library | - | only that order |
| `src/ex/test.sh`, `CMakeLists.txt` | none | start the samples | - | not modelled |

What is hard here:

- **signals** arrive between any two steps of the master, and their flags are
  examined and lowered one at a time;
- **children** die between the probe of their slot, the fork for it and the count
  of the pass; a dead child that was not reaped still answers `kill(pid, 0)`; process
  ids are reused;
- **any number of commands** run at once over one pid file, which may be removed at
  any time, and each of them takes the lock for a moment, `check` and `stop` too;
- the **flock** belongs to an open file description, which children inherit and
  which outlives the process that took it;
- launcher and daemon **share a file offset**;
- the **log reader** reads a pipe that it also writes to, and moves lines within a buffer
  by a length that is one short line too long;
- **timeouts** (polls of `daemond_kill_wait`, of the launcher, of the shutdown)
  race the events they wait for;
- **buffers and integers** end: 4096 bytes of colour codes, 1024 of plain text, 64 bits of
  `strtol` kept in 32, an exit code of one byte.

`PROJECT.json` lists each hazard at its line with the properties that would catch it.

## 2. Modules

Each module is parameterised by CONSTANTS with a named assumption, has one action
per step of the code that others can see, and states its properties at its end.
Definitions named as a *plausible slip* are wrong versions of the definition that
follows; nothing uses them, and each is refuted by the run it belongs to.

- **`Signals`**: the handler (`Handler`) and the walk of `daemond_sig_check`
  (`Begin`, one `Examine` per signal in increasing number, `End`).  The handler
  interrupts the only thread there is, so that its two stores are one step.
  `daemond_sig_received[sig]` is compared with zero alone and is a Boolean.
- **`Throttle`**: `Died` and `Quiet` end a run of the reaper; `wait` is the time
  still to go until `fork_at`, and `Tick` the clock.
- **`Master`**: instantiates both and shares their variables.  `pc` and `slot` are
  the control of the main thread (`SigCheck`, `Scan`, `Reap`, `ReapDone`, `ScanDone`,
  `StartPass`, `KeepSlot`, `ForkSlot`, `ForkFails`, `PassDone`, `Sleep`,
  `StartStopping`, `PollAgain`, `StoppedAll`, `KillAll`); `proc` is the process
  table, in which children end (`ChildEnds`, with its SIGCHLD) and unrelated
  processes may take the id of a child that was reaped.  `counted` and `uncounted`
  are history variables: the process ids behind the numbers the code keeps.
- **`Keeper`**: what a master of one child promises: it hires only in the place of none
  and not when it is to stop, and when it leaves it leaves nobody behind but a child it
  has not seen yet.  `KeeperSpec` of `Master` maps the child of slot 1, whether the last
  pass has counted it, and `terminate` and `pc` to its three variables.
- **`PidMutex`**: what the pid file promises, a lock that anybody may revoke by
  removing the file: one good lock at a time.
- **`PidLock`**: `daemond_pid_lock` as a program counter per process: `Stat`, `Fopen`,
  `Scan`, `Probe` look at the old file; `StatFails`, `FopenDies` and `OpenFails` are their
  errors, each with its own end of the call; `FileExists`, `Open`, `Create`, `Retry` get a
  descriptor; `Flock`, `Verify`, `Reopen`, `RecursionDies` are the lock and the
  comparison of dev/ino; `Write` is `daemond_pid_write`.  Each system call that
  others can interleave with is a step.  Inodes are model values, freed ones are
  reused.  Around it processes end (`End`), holders fork (`Fork`), the file is
  removed (`Unlink`).  `LockSpec` says that this implements `PidMutex`, with
  `holders` the processes that have been granted the lock (or left it to children)
  and `revoked` those whose inode has lost its name.
- **`PidRace`**: `PidLock` with a memory of whether anybody has interfered, for the one
  property that needs it, `SomeoneWins`.
- **`Cli`**: instantiates `PidLock`, shares its variables and adds the stage of the
  command.  A signal (`Deliver`) is noted by a master and ends any other command,
  which still has the default action.  `KillGroup` is what the SIGKILL of
  `daemond_cli_kill` amounts to.  Of `daemond_master` only what other commands see is
  here: it obeys SIGINT and SIGTERM by and by, forks, and may leave children behind.
- **`Daemonize`**: places of the launcher, the intermediate process and the daemon,
  the number at the start of the file, and the shared offset, in any order and with any
  delay.  The history variable `seen` is where the daemon was when the launcher read the
  file.  It starts where `daemond_pid_lock` has returned.  A `stop` from elsewhere reads the file and
  signals what it finds; SIGINT from the terminal reaches everyone who has not got a
  session of his own.
- **`LogStd`**: the bytes in the pipe (`pipe`), in stdio's buffer (`own`) and before `p`
  (`buf`); `stray` are the places of the buffer that hold a byte which memmove fetched from
  beyond its end.  Children write at any time; `Flush` blocks when the pipe is full.
- **`Speech`**: one message in its three pieces, scanned by `vcolorprintf` (`Copy`,
  `Known`, `Unknown`, `Emit`) or by the tracer of the sample (`DropTag`, `KeepOpen`,
  `Show`).  What vcolorprintf would write behind its buffer ends the behaviour at `"wild"`.
- **`Strings`**: the conversions as functions of an abstract input (does it begin with
  digits, which number, does anything follow, what is behind the end if it is given by
  its two ends) and of `errno`.  **`Numbers`** calls them one after another over one `errno`,
  in which other calls may leave anything, `ERANGE` too (`OtherFails`).
- **`Sample`**: the command line option by option, the stream wrapper, the tests, and the
  loop of the child with its clock, up to the exit status that `daemond_reaper` sees.
- `MCMaster`, `MCPidLock`, `MCCli`, `MCLogStd`, `MCSpeech`, `MCNumbers`, `MCSample` give the
  instances their symmetry sets and inputs; `*Proofs` hold the theorems.

## 3. Runs

| run | question | answer | states |
|---|---|---|---|
| `master_two` | two slots: does the count match the processes; what does exit leave behind? | the count is short by exactly what the last pass did not count; if it counted all, nothing is left; the first slot is never overwritten | 2.3 million |
| `master_one` | one slot: does it implement `Keeper`; are requests and dead children lost; is the interval bounded? | it does; a recycled id holds the slot up while the stranger lives; a death or a request behind the walk waits for the next signal, and is lost if there is none; the bound is twice the maximum | 234 000 |
| `master_restart` | is a dead child always replaced, with two slots? | no (finding) | |
| `pidlock` | is it a lock, does the call return under interference, does a race have a winner? | it implements `PidMutex`; the file names the holder; it returns; yes, if nobody interferes | 55 000 |
| `cli` | one master, with removals of the file; do all commands end; does restart take the old master down? | a second one only beside a revoked one, or one that a restart made without the lock; yes, even if no master obeys; yes, if masters obey | 234 000 |
| `cli_gone` | is the process gone when stop says so? | no (finding) | |
| `daemonize` | with any timing: does the launcher return; does the file name the daemon; is the report true? | it returns; the file does unless the launcher has read its own number for the daemon's; the report is true if it read the file behind the daemon's write | 666 |
| `daemonize_ok` | is the report true with any timing? | no (finding) | |
| `logstd` | does the reader lose lines, leave its buffer, return? | lines only to a NUL byte or when they fill the buffer; it leaves the buffer only if more than half a buffer was unread at some time; it returns unless it gets lines for ever or waits for its own pipe | 232 000 |
| `speech` | is the buffer long enough, do the tracers agree? | for texts shorter than three fifths of it; yes on texts with known tags that do not fill the second buffer | 1.6 million |
| `numbers` | is what is returned what was written; what is refused, and why? | yes if it fits; for what follows, for digits behind the end, for an `ERANGE` that was there before, and half of `uint64_t` | 16 000 |
| `sample` | does the child live and die as the options say, does output go where they say? | by `-x`, `-l` and the last `-o` yes, as far as the numbers fit their integers | 1.5 million |

Bounds, and why they are enough:

- `master_*`: one or two slots.  What several slots add is that `do_fork` of one
  reaches the next, which two show.  Four process ids let a slot be overwritten
  twice and an id be used again.  `MaxPolls` (100 in the code) is 2 or 3: the
  polls differ in their number only.  `max_die` is 1 or 2, so that raises of the
  interval happen; intervals of one tick keep a phase in which forking is put off.
- `pidlock`: two processes and two inodes, one stranger, one dead id, and a stale file with
  any of the four numbers, which leaves no room for a third inode: a process holds one
  open, the other has its own or the name leads to it.  Two failures and one recursion
  instead of five each: each counter is exhausted within the run.
- `cli`, `cli_gone`: two processes, a master and a command or two commands.  In `cli`, which
  has all commands, crashes and removals, the file left behind is empty or absent (stale
  numbers are those of `pidlock`) and no retry is left, so that losing any race is fatal.
  That the lock itself excludes any number of processes is proved.
- `daemonize*`: the three processes there are.
- `logstd`: a buffer of five bytes, so that there are lines that fit and that do not, and a
  pipe that holds more than it.  Bytes are `nl`, `nul` and any other.
- `speech`: texts of up to five tokens, of tags, halves of tags and characters, and
  buffers of 14 and 4 that such texts can fill.  Codes have their true lengths.
- `numbers*`, `sample*`: types of 1, 2, 3, 4 bits (3 to 6 in `sample`) instead of 8 to 64, with
  their order, and numbers at and beyond each end; a command line of three options, which
  allows two of a kind and a third that depends on them; a clock of 17 seconds, with
  births before and near the end of a 5-bit `int`.

`CHECK_DEADLOCK FALSE` stands where the system really stops: a master that has exited,
races in which everybody has won or lost, a launcher and a daemon that have ended, a
message that has been said, a process that has ended or waits for its own pipe.

## 4. Fairness

- The main thread of the master, a call of `daemond_pid_lock`, a command, the launcher, a
  call of `daemond_log_std_read` and the child of the sample are scheduled: weak
  fairness of their next step, as all their waits have timeouts and their system calls
  do not block (`LOCK_NB`, `WNOHANG`), but for `fflush`, which is disabled in the model
  while it blocks.  The clock advances.
- Nothing makes a signal arrive, a command be given, a line be written, a child or a daemon
  end, or a file be removed.  What a property needs of that kind is its premise.
- `SlotRecovers` and `RequestHonoured` of `Master` suppose that the signal in question is not
  `Missed` for good.  `daemond_sig_check` lowers the common flag at the end of its walk
  (1118), so that a signal that came behind its place is looked at only when the next one
  comes.  The next one may be any: the death of a child, a further request, or the SIGCHLD
  of a child that is stopped or continued, which the handler gets as `daemond_sig_set`
  does not ask for `SA_NOCLDSTOP`.  Such a SIGCHLD may also be what starts the walk that a
  death or a SIGTERM then falls behind.  All of these are sent in `master_one`.  If nothing
  comes any more, the death is overlooked (`master_restart`), and the request too.
- `SlotRecovers` supposes besides that `StrangersLeave`, and it speaks of the only slot: with
  two, the clock that is read anew for each slot (1020) may put off the one for which
  a restart is due while the other gets its child, over and over.
- `MastersObey` in `Cli` is a premise too, and `Master` does not discharge it: a SIGTERM that
  falls behind the walk when no other signal comes is not obeyed.  `RequestSeen` shows it
  of requests ahead of the walk, and `RequestHonoured` of all that are followed by another
  signal, as the SIGINT of `daemond_cli_kill` is by its SIGTERM unless the master has
  gone before.
- `Keeper` has weak fairness of `Leave`; that the fairness of `Master` is enough for it is
  part of what `master_one` checks.
- In `Daemonize` the daemon and the intermediate process have no fairness at all.

## 5. Proofs

TLC checks the instances above; these theorems hold for every value of the constants
that meets the assumptions.

| module | theorem | says |
|---|---|---|
| `MasterProofs` | `TypeCorrect`, `FlagStaysUp` | types, for any number of slots and ids; the common flag is up throughout the walk |
| `MasterProofs` | `IntervalBound`, `StreakBound`, `Relentless` | bound of the interval and the wait; raise in time; no shortening |
| `MasterProofs` | `BooksBalance`, `ShutdownIsClean` | `Accounting` and `CleanShutdown`, if no id is reused while a slot holds it |
| `MasterProofs` | `NeverTwo`, `FirstSlotSafe`, `DiesWithNone` | `SoleChild` and `FirstSlotKept`; a failing fork leaves no child of a single slot; with recycled ids too |
| `MasterProofs` | `KeeperImplemented` | with one child, `Master` implements the safety of `Keeper`, with recycled ids too |
| `MasterProofs` | `RequestIsSeen`, `RequestIsKept` | a request ahead of the walk is in `terminate` after `children_count + 8` steps of the master; none is forgotten |
| `MasterProofs` | `ShutdownIsBounded` | then it exits after `11 * (MaxPolls + 1) + 12` steps of its own and one for each child, for any number of slots |
| `PidLockProofs` | `TypeCorrect`, `HolderNamed` | types; the file of a good lock names its holder |
| `PidLockProofs` | `LockImplements`, `MutexExclusive`, `LockExcludes` | `PidLock` implements `PidMutex`, which excludes; so there is one good lock at a time |
| `PidLockProofs` | `LockCallBounded` | a call has a bounded number of steps, whatever others do with the file |
| `PidLockProofs` | `RaceHasWinner` | an undisturbed race has a winner, however many run it |
| `CliProofs` | `TypeCorrect`, `OneMasterHolds` | types; one master at a time, for any number of commands |
| `CliProofs` | `CommandsImplement`, `CommandsExclude` | all of `daemond_cli_run` still implements `PidMutex` |
| `CliProofs` | `CommandIsBounded` | a command has a bounded number of steps until it ends or is a master |
| `DaemonizeProofs` | `TypeCorrect`, `DaemonNamed` | types; the daemon's number is missing in the file only if the launcher has read its own |
| `DaemonizeProofs` | `FailureIsHarmless`, `ReportIsTrue` | a failed reading leaves the number there; a reading behind the write gives a true report |
| `LogStdProofs` | `TypeCorrect`, `SteadyHolds` | `p` stays in the buffer; no stray bytes unless it was crowded |
| `LogStdProofs` | `LinesStay` | no whole line is lost but to a NUL byte or by its length |
| `LogStdProofs` | `CallBounded` | between two lines a call takes `2 * BufEnd + 2` steps at most, however much is written |
| `SpeechProofs` | `TypeCorrect`, `SafeLengthHolds` | three fifths of the buffer are safe, for any buffer and text |
| `SpeechProofs` | `SameTextShown` | both tracers show what is outside of the tags; every text that is said ends its line |
| `NumbersProofs` | `NumbersExact`, `NumbersAccepted` | what fits is returned as written and refused for named reasons only, for integers of any size and whatever is in `errno` |
| `SampleProofs` | `TypeCorrect`, `OutputNamedLast` | types; output goes to the file that was named last, for any command line |
| `SampleProofs` | `ChildDiesAsTold`, `ChildLivesLongEnough` | a child dies in the way and after the time that the last options say |

The inductive invariants:

- **`Bookkeeping`** (in `Master`).  `Accounting` alone is not inductive: at the end of
  a pass `children_running` becomes `running`, so one needs that `running` is the number
  of the ids in `counted` and that those exist (`PassCounts`), hence that no slot holds the
  id of another (`SlotsDistinct`).  `CleanShutdown` needs besides that a child without
  a slot was not counted: during a pass (`PassTracks`), a counted child may lose its
  slot only if another one has strayed, and afterwards (`AllTracked`) every existing
  child has a slot if the last pass counted all.  `NoStrangers` excludes that `kill(pid,
  0)` answers for somebody else.  The cardinalities come from `FiniteSetTheorems`.
- **`FirstSlot`** and **`FirstSlotFresh`** (in `MasterProofs`): `do_fork` is false when a
  pass comes to the first slot, whatever has happened before.
- **`Keeping`** (in `MasterProofs`) adds to these, for one child: who exists is in
  the slot, zombies included (`OnlyOne`), so that no other death lowers the count;
  between passes a living child was either counted, and then `children_running` is not
  zero, or left out (`KnownBetween`); during a pass it is counted once (`KnownInPass`); and
  there is no pass after the request to stop (`StopsForGood`).  Each step of the master
  is then a step of `Keeper` or a stutter: `ForkSlot` is `Hire`, `KeepSlot` may be
  `Notice`, `Scan` may be `Stop`, `ForkFails` is `GiveUp`, the three ways to `exit(0)` are
  `Leave`, and any other may be a `Lose`.
- **`IInv`** of `PidLockProofs`: `Described` ties descriptor, flock, retry counter and heirs
  of a process to its place in the code; `OneFlock` is what flock guarantees.  From
  the two follows that whoever compares dev/ino successfully is the only one with a
  lock on the inode that has the name, so that the step is a `Take` of `PidMutex`; that
  removing the name is `Revoke`; and that creating it makes an inode nobody has locked.
- **`FairRace`** (in `PidRace`): without interference the file stays where it is once
  made, a number of a living process in it is that of the winner, and whoever is
  refused is refused because of somebody who still contends or has won.
- **`Staged`** (in `Cli`) ties the stage of a command to the place in `daemond_pid_lock`;
  with `IInv` of the lock a master has a good lock, a revoked one, or comes from a
  restart.
- **`IInv`** of `LogStdProofs`: `crowded` remembers every moment at which more than half a
  buffer was unread, so that a stray byte, fetched from `cut` behind at most `Len(buf)`,
  proves there was one; `Scanned`: outside of the scan, no line is left that strchr sees.
- **`IInv`** of `DaemonizeProofs`: the daemon's number is not in the file before its write
  (`Unwritten`); a launcher about to read finds the offset at the start or the daemon's number
  in the file, and a daemon about to write finds it at the start or a launcher that has read its
  own number (`Offset`).
- **`IInv`** of `NumbersProofs` is `Exact` and `Accepts`: nothing is known of the `errno` that a
  call finds, which is why `Accepts` names it.  The proof is about the conversions: each is
  `Sound`, which says what strtonum is told of its type and that what strtol returns is
  no narrower than what is kept.
- **`IInv`** of `SampleProofs`: each variable that an option sets is what the last option of
  its kind says (`AsTold`), a test runs only with a good stream (`Writable`), and the end
  of the life is the clock of one of the first looks plus the life, cut to an `int` (`Timed`).
- **`SInv`** of `SpeechProofs`: while a piece is scanned, what has been composed, without
  its codes, is what is outside of the tags in what has been read (`Following`); what is
  between an open tag and its end was left for later (`Reading`); the pieces so far make up
  the line (`Spoken`), which ends (`Lined`).  `Kept`, the letters of a text outside of
  its tags, is a recursive function.  The library's induction takes an operator for the
  predicate, which the provers do not instantiate; `Induction` states it for sets
  instead, from the smallest number that is not in the set.  From it follow that the
  recursion has a solution, and how `Kept` goes with joining and cutting of texts.

Some theorems are the safe half of what the runs check under fairness.  Each names a
number, bounds it, and says that every step of the process in question makes it smaller while
those of all others leave it alone: `Left` of `PidLockProofs` (what the tries that are left can
take, over the recursion and the retries), `Rest` of `CliProofs` (the stages of the command,
with two locks for a restart), `Rest` of `LogStdProofs` (the room that is left in the buffer),
`Coming` and `Left` of `MasterProofs` (the way round the main loop to the request; the rounds
of the shutdown, the walk of each and the children there are to reap).  `Walking` is the
invariant of the last two: where the walk is when the reaper runs, and that there is no
pass after the request.  What is missing to liveness is that the step is possible, `ENABLED`,
and that it is taken.  `ShutdownIsBounded` is the part of `MastersObey` that `Master` has in its
own hands: a master that has seen the request ends.  That it sees it is the premise of section 4.

The proofs rest on the named assumption of each module and on the theorem modules of the
library; `BooksBalance` and `ShutdownIsClean` assume `NoRecycling`, and
`KeeperImplemented` that there is one child.

Only model-checked: everything about liveness (the fairness of `KeeperSpec`, `SlotRecovers`,
`RequestSeen`, `RequestHonoured`, `LockReturns`, `CommandEnds`, `RestartReplaces`,
`LauncherEnds`, `Advances`, `ChildEnds`), which needs `ENABLED` and is out of the prover's
reach.  Every invariant and every other action property of a passing run is proved.

## 6. Findings

Three runs refute what the code, its comments or its tests say; `PROJECT.json` quotes
both sides.

- `master_restart`: a SIGCHLD behind the walk of `daemond_sig_check` leaves a zombie, which
  answers `kill(pid, 0)`, and its slot is not forked again.
- `cli_gone`: `kill_ext` (428) fails when `getpgid` has succeeded, so that SIGKILL is never
  sent, and `daemond_cli_kill` takes the failure for success.
- `daemonize_ok`: the launcher reads the file before the daemon has written it, finds
  itself alive and says that it looks ok.

Four definitions state what the help, a header or a message says and the code does not do.
They stand beside the properties they bound and are in no configuration: as an INVARIANT
of the run named here, TLC refutes each of them.

- `ExitsWithCode` (`sample`): "-r - return value", and the code that the child announces
  (`sample.cpp` 47, 279).  `main` overwrites what `test_standard` returns with `EXIT_SUCCESS`
  (443), so that `-r` without `-x` has no effect.  `DiesAsTold` leaves this case out.
- `DashIsStandard` (`sample`): `-` means the standard stream (`io_wrapper.h` 16).  `-o log -o -`
  goes on writing to `log` (`io_wrapper.cpp` 109).  `OutputIsLast` is about other names.
- `RefusesRightly` (`numbers`): "Conversion failed", with "Numerical result out of range", is not
  said of a good number.  `string_to_number` of a range (`strings_manip.cpp` 469) tests for
  `ERANGE` without having cleared `errno`, and refuses all after any call that left it there.
  `Accepts` names this as a reason.
- `RefusesTooLarge` (`numbers`): it is said of a number that does not fit.  For an `int32_t` the
  same test never strikes, as `strtol` has room for 64 bits; what is too large is cut.

The model shows more of the kind; it takes a change of a configuration or a property to
see it:

- The SIGCHLD of a child that is stopped or continued runs the reaper, which finds nobody to
  reap, takes that for a good end and sets `fork_at` to now (1079, `Quiet` of `Throttle`): an
  interval that has just been announced (1073) is over at once.  No property here says that
  it is waited for.
- `children_running` and `do_fork`: with `children_count = 2` more children than that may
  live, as a slot found empty makes every later slot fork (1014).  `Accounting` says by how
  many the count is wrong.
- A SIGTERM within a second of a fork finds `children_running` too small, and the child
  is left running: the alternative of `Leave` in `Keeper` for a child that is not known.
- `restart_interval` gets to twice its maximum (1072), see `IntervalBounded`.
- restart drops the result of its second `daemond_pid_lock` (554): without the alternative
  `Unlocked`, `OneMaster` is violated.
- A `check` that meets the lock of another `check` says `running` of it (346, 558).
- With the id of the calling process in `LeftBehind`, a stale file makes it refuse because of
  itself (328).
- The daemon's number gets lost when the launcher reads between the seek and the write of
  the daemon: it is appended behind the launcher's, and a `stop` finds a process that has
  ended (the exception in `FileNamesDaemon`).
- `memmove` in `daemond_log_std_read` (876) is given `p - buf + 1` bytes from `buf + cut`,
  and so copies up to `cut` bytes from behind the buffer when it is nearly full
  (`Steady` without `crowded`).
- `fflush` (864) waits for room in the pipe that the same process is about to read
  (`Blocked`, the exception in `Advances`).

## 7. Not modelled

- Time: timeouts may strike at any moment after the first poll; only `Throttle` and `Sample`
  have a clock.
- The underflow of a double that is kept as a float, in `strings_manip.cpp`.
- `EPERM`: `kill(pid, 0)` fails for processes of other users and the code takes them for
  dead.  All processes here belong to one user.
- More than ten children: the array of slots overflows and the behaviour is undefined.
- `daemond_pid_close` (no caller), the buffering of stdio beyond what moves the offset or
  blocks, and errors of `read` that need a descriptor somebody else has closed.
- Wording and colours of messages; `<<` of a `daemond_pid` in `sample.cpp`; `validate`,
  `is_valid` and the input operator of `IOWrapper` (no caller); the change of case and the
  escaping of strings in `strings_manip.cpp`, formatting without state that no program
  here calls.
- A start that detaches is not composed with other commands: `Daemonize` has one `stop` from
  elsewhere, `Cli` has masters that stay in the foreground.  The two meet in the pid file
  only, whose shared offset and number are in `Daemonize` and whose lock is in `PidLock`.

## 8. Plan

Done, in this order: `Signals`, `Throttle`, `Master` and their proofs; `PidMutex`, `PidLock`,
`PidRace` and their proofs; `Cli` and `Daemonize`, and their proofs; `LogStd` and `Speech`,
and their proofs; `Strings`, `Numbers`, `Sample`, and their proofs; `Keeper`, and that `Master`
implements it; the bounds of all calls but the launcher's, which is a straight line.

What would come next: an abstract supervisor of several children, which has to
state the overwriting of slots as a possible loss, and a proof that `Master` implements it;
and the composition of `Daemonize` with the commands of `Cli`.
