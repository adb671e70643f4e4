------------------------------- MODULE Sample -------------------------------
(***************************************************************************)
(* sample.cpp: the command line, the choice of a test, and the process     *)
(* that comes out of daemond_master as a child.  What the library does in  *)
(* between is in the other modules: here a call of it either comes back,   *)
(* fails, or ends the process.                                             *)
(***************************************************************************)
EXTENDS Strings, Sequences

CONSTANTS
  MaxOptions,   \* bound on the options of a command line
  Numerals,     \* what is given for a number: inputs of Strings
  Files,        \* names of files
  Unusable,     \* those of them that cannot be opened
  Ages,         \* readings of the clock when a child starts
  MaxNow        \* bound on the clock

ASSUME SampleAssumption ==
  /\ MaxOptions \in Nat /\ MaxNow \in Nat /\ Ages \subseteq 0 .. MaxNow
  /\ Numerals \subseteq [digits : BOOLEAN, num : Int, rest : BOOLEAN, tiny : {FALSE},
                        behind : {"nothing"}]
  /\ Unusable \subseteq Files /\ "-" \notin Files /\ "none" \notin Files
  /\ Word > 5   \* which is the default of -L

VARIABLES
  line,     \* the options that getopt has returned
  conf,     \* the variables they set
  input, output,   \* _G_io: the file that is open, and failbit
  at,       \* where the program is
  born, now, until,   \* the clock, and exit_moment
  status    \* what the process ended with

vars == <<line, conf, input, output, at, born, now, until, status>>

Int32 == SInt(Word)
Nothing == [digits |-> FALSE, num |-> 0, rest |-> FALSE, tiny |-> FALSE, behind |-> "nothing"]

\* "-" stands for /dev/stdin and /dev/stdout too, "other" for any other argument.
Arguments ==
  [C |-> {""}, L |-> {""}, r |-> {""}, N |-> {""}, T |-> {""}, h |-> {""},
   x |-> {"abort", "except", "exit", "sf", "other"},
   m |-> {"1", "L", "W", "R", "other"},
   p |-> {"", "sample.pid"},
   i |-> Files \cup {"-"}, o |-> Files \cup {"-"}]

Options ==
  { o \in [opt : DOMAIN Arguments, text : UNION {Arguments[l] : l \in DOMAIN Arguments},
           number : Numerals \cup {Nothing}] :
      /\ o.text \in Arguments[o.opt]
      /\ o.opt \notin {"C", "L", "r"} => o.number = Nothing }

Running == [how |-> "none", code |-> 0, signal |-> "none"]
Exited(n) == [how |-> "exit", code |-> n % (2 * Byte), signal |-> "none"]
Killed(s) == [how |-> "signal", code |-> 0, signal |-> s]

Default ==
  [count |-> 1, life |-> 5, detach |-> TRUE, tracer |-> FALSE, mode |-> "1",
   pidfile |-> "libdaemond.pid", ret |-> 0, way |-> "std"]

Init ==
  /\ line = << >> /\ conf = Default
  /\ input = [file |-> "none", fail |-> FALSE] /\ output = input
  /\ at = "options" /\ status = Running
  /\ born = 0 /\ now = 0 /\ until = 0

Ends(where, how) == at' = where /\ status' = how

-----------------------------------------------------------------------------
(* The options.                                                            *)

Takes(o) == at = "options" /\ Len(line) < MaxOptions /\ line' = Append(line, o)

Stores(field, value) ==
  /\ conf' = [conf EXCEPT ![field] = value]
  /\ UNCHANGED <<input, output, at, status, born, now, until>>

\* A runtime_error that main catches.
Refuses ==
  /\ Ends("failed", Exited(1))
  /\ UNCHANGED <<conf, input, output, born, now, until>>

CString(name) == CHOOSE f \in CStringsNarrow \cup CStringsWord : f.name = name

\* All three are kept in an int.
Number(o, field, name) ==
  LET r == Convert(CString(name), o.number, "none")
  IN  \/ r.ok /\ Stores(field, Cut(Int32, r.value))
      \/ ~ r.ok /\ Refuses

TakeCount(o) == o.opt = "C" /\ Takes(o) /\ Number(o, "count", "c_string_to_uint")

TakeLife(o) == o.opt = "L" /\ Takes(o) /\ Number(o, "life", "c_string_to_uint")

\* A plausible slip: the conversion of the other options.
TakeReturnWide(o) == o.opt = "r" /\ Takes(o) /\ Number(o, "ret", "c_string_to_int")

TakeReturn(o) == o.opt = "r" /\ Takes(o) /\ Number(o, "ret", "c_string_to_int8")

TakeFlag(o) ==
  /\ Takes(o)
  /\ \/ o.opt = "N" /\ Stores("detach", FALSE)
     \/ o.opt = "T" /\ Stores("tracer", TRUE)

TakeName(o) ==
  /\ Takes(o)
  /\ \/ o.opt = "m" /\ Stores("mode", o.text)
     \/ o.opt = "p" /\ Stores("pidfile", o.text)

TakeWay(o) ==
  /\ o.opt = "x" /\ Takes(o)
  /\ \/ o.text # "other" /\ Stores("way", o.text)
     \/ o.text = "other" /\ Refuses

\* A plausible slip: the file is taken to be open after open.
OpenedAnyway(s, name) ==
  CASE name = "-" -> s
    [] name # "-" /\ s.file = "none" -> [file |-> name, fail |-> FALSE]
    [] OTHER -> [s EXCEPT !.fail = TRUE]

\* open of a stream: it fails on a stream that is open, which stays with its file, and
\* clears failbit when it succeeds.  "-" does nothing.
Opened(s, name) ==
  CASE name = "-" -> s
    [] name # "-" /\ s.file = "none" /\ name \notin Unusable -> [file |-> name, fail |-> FALSE]
    [] OTHER -> [s EXCEPT !.fail = TRUE]

TakeStream(o) ==
  /\ Takes(o)
  /\ \/ o.opt = "i" /\ input' = Opened(input, o.text) /\ UNCHANGED output
     \/ o.opt = "o" /\ output' = Opened(output, o.text) /\ UNCHANGED input
  /\ UNCHANGED <<conf, at, status, born, now, until>>

\* The help is printed for an unknown option too.
TakeHelp(o) == o.opt = "h" /\ Takes(o) /\ Refuses

-----------------------------------------------------------------------------
(* The tests.                                                              *)

Begins(where) ==
  /\ at = "options" /\ at' = where
  /\ UNCHANGED <<line, conf, input, output, status, born, now, until>>

Fails == at = "options" /\ UNCHANGED line /\ Refuses

\* A plausible slip: failbit is not looked at.
WrapperBlind == TRUE

\* IOWrapper::operator ostream &; no file is required.
Wrapper == ~ output.fail

ModeUnknown == conf.mode = "other" /\ Fails

\* test_standard, up to the call of daemond_daemonize: words behind the options are a
\* command line for the library, else the lock is taken if there is a pid file.
StandardFails == conf.mode = "1" /\ (~ Wrapper \/ conf.pidfile # "") /\ Fails

Standard == conf.mode = "1" /\ Wrapper /\ Begins("library")

\* test_daemond_pid_lock, test_daemond_pid_write and test_daemond_pid_relock.  The lock
\* is tried even without a name.
LockTests == {"L", "W", "R"}

LockFails == conf.mode \in LockTests /\ Fails

LockTest == conf.mode \in LockTests /\ conf.pidfile # "" /\ Begins("suspended")

\* The tracer uses the same stream: what it throws has to pass the library, which is in C.
TracerThrows ==
  /\ at = "options" /\ conf.mode \in LockTests /\ conf.tracer /\ ~ Wrapper
  /\ Ends("failed", Killed("ABRT"))
  /\ UNCHANGED <<line, conf, input, output, born, now, until>>

\* SIGCONT after the SIGSTOP of suspend.
Resume ==
  /\ at = "suspended" /\ Ends("released", Exited(0))
  /\ UNCHANGED <<line, conf, input, output, born, now, until>>

\* The library ends the process: the launcher, the master, a command, or die().
LibraryEnds ==
  /\ at = "library"
  /\ \E n \in {0, 1, 255} : Ends("gone", Exited(n))
  /\ UNCHANGED <<line, conf, input, output, born, now, until>>

\* daemond_master returns in a child.
Child ==
  /\ at = "library" /\ at' = "child"
  /\ \E t \in Ages : born' = t /\ now' = t
  /\ UNCHANGED <<line, conf, input, output, until, status>>

-----------------------------------------------------------------------------
(* The child.                                                              *)

Passes(d) == now + d <= MaxNow /\ now' = now + d

Unchanged == UNCHANGED <<line, conf, input, output, born, status>>

\* A plausible slip: the end is counted from the start of the clock.
FirstRoundZero(d) ==
  /\ at = "child" /\ Passes(d)
  /\ until' = Cut(Int32, conf.life) /\ at' = "looping" /\ Unchanged

\* sleep returns early when a signal is handled.
FirstRound(d) ==
  /\ at = "child" /\ Passes(d)
  /\ until' = Cut(Int32, now' + conf.life) /\ at' = "looping" /\ Unchanged

\* A plausible slip: a second may be missed.
RoundEqual(d) ==
  /\ at = "looping" /\ Passes(d)
  /\ at' = IF now' = until THEN "leaving" ELSE "looping"
  /\ UNCHANGED until /\ Unchanged

Round(d) ==
  /\ at = "looping" /\ Passes(d)
  /\ at' = IF now' >= until THEN "leaving" ELSE "looping"
  /\ UNCHANGED until /\ Unchanged

\* The string that is thrown is none of what main catches.  What test_standard returns
\* is overwritten by main.
ExitWay ==
  CASE conf.way \in {"abort", "except"} -> Killed("ABRT")
    [] conf.way = "exit" -> Exited(conf.ret)
    [] conf.way = "sf" -> Killed("SEGV")
    [] OTHER -> Exited(0)

Leave ==
  /\ at = "leaving" /\ Ends("done", ExitWay)
  /\ UNCHANGED <<line, conf, input, output, born, now, until>>

\* The master kills it.
IsKilled ==
  /\ at \in {"child", "looping", "leaving"} /\ Ends("gone", Killed("KILL"))
  /\ UNCHANGED <<line, conf, input, output, born, now, until>>

Next ==
  \/ \E o \in Options :
       \/ TakeCount(o) \/ TakeLife(o) \/ TakeReturn(o) \/ TakeFlag(o)
       \/ TakeName(o) \/ TakeWay(o) \/ TakeStream(o) \/ TakeHelp(o)
  \/ ModeUnknown \/ StandardFails \/ Standard
  \/ LockFails \/ LockTest \/ TracerThrows \/ Resume
  \/ LibraryEnds \/ Child
  \/ \E d \in 0 .. 2 : FirstRound(d) \/ Round(d)
  \/ Leave \/ IsKilled

\* The clock goes on, and the child is scheduled.
Spec ==
  /\ Init /\ [][Next]_vars
  /\ WF_vars(\E d \in 1 .. 2 : FirstRound(d) \/ Round(d))

-----------------------------------------------------------------------------
Places ==
  {"options", "failed", "library", "suspended", "released", "gone", "child",
   "looping", "leaving", "done"}

\* Where the options stand that were given, and the last of some.
Given(letter) == {k \in 1 .. Len(line) : line[k].opt = letter}
Newest(S) == {k \in S : \A j \in S : j <= k}

\* The numbers fit the int they are kept in, and no stream is attached to a file that
\* could not be opened (main and IOWrapper).
TypeOK ==
  /\ conf \in [count : Int, life : Int, detach : BOOLEAN, tracer : BOOLEAN,
               mode : Arguments.m, pidfile : Arguments.p \cup {"libdaemond.pid"},
               ret : Int, way : Arguments.x \cup {"std"}]
  /\ \A field \in {"count", "life"} : In(Int32, conf[field])
  /\ \A s \in {input, output} : s \in [file : (Files \ Unusable) \cup {"none"}, fail : BOOLEAN]
  /\ at \in Places /\ {born, now} \subseteq 0 .. MaxNow /\ In(Int32, until)

\* A test that runs writes to the file that was named last: with a second name the stream
\* is unusable and no test runs (IOWrapper::set_output, operator ostream &).  A "-" is no
\* name here: see DashIsStandard.
OutputIsLast ==
  LET named == {k \in Given("o") : line[k].text # "-"}
  IN  at \in {"library", "child", "looping", "leaving", "done"} =>
        IF named = {} THEN output.file = "none"
        ELSE \E k \in Newest(named) : output.file = line[k].text

\* What daemond_reaper makes of the status of a child.
Died ==
  \/ status.how = "exit" /\ status.code # 0
  \/ status.how = "signal" /\ status.signal \notin {"TERM", "QUIT", "INT"}

\* The master sees that a child died if, and only if, -x says that it should: for exit,
\* with a -r other than 0 (-r is narrow enough not to vanish in the byte of an exit code).
\* What -r without -x does is in ExitsWithCode.
DiesAsTold ==
  at = "done" /\ (Given("x") # {} \/ Given("r") = {}) =>
    Died = \E k \in Newest(Given("x")) :
             \/ line[k].text # "exit"
             \/ \E n \in Newest(Given("r")) : line[n].number.num # 0

\* A child lives for the seconds of -L, unless these, or the time when they are over, do
\* not fit an int (test_standard).
LivesLongEnough ==
  LET lives == IF Given("L") = {} THEN {Default.life}
               ELSE {line[k].number.num : k \in Newest(Given("L"))}
  IN  at \in {"leaving", "done"} =>
        \E life \in lives : born + life + 2 <= Int32.max => now - born >= life

\* No child stays in its loop: also when the end of its life has gone by between two
\* looks at the clock, or lies before its birth (test_standard).
ChildEnds == at \in {"child", "looping"} ~> at \in {"leaving", "done", "gone"}

-----------------------------------------------------------------------------
(* What the help and a header say and the code does not do (README,        *)
(* section 6).                                                             *)

\* "-r - return value": without -x a child exits with the code of -r, as the usage says
\* and "child finished voluntarily with code" announces.
ExitsWithCode ==
  at = "done" /\ Given("x") = {} =>
    \A k \in Newest(Given("r")) : status = Exited(line[k].number.num)

\* "-" stands for the standard stream, as io_wrapper.h says: who names it last writes there.
DashIsStandard ==
  at = "library" =>
    \A k \in Newest(Given("o")) : line[k].text = "-" => output.file = "none"
=============================================================================
