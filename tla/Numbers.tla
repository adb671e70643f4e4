------------------------------- MODULE Numbers -------------------------------
(***************************************************************************)
(* A process that converts one string after another, with the errno that   *)
(* all the conversions of Strings share.                                   *)
(***************************************************************************)
EXTENDS Strings

CONSTANT Values   \* the numbers that strings begin with

ASSUME NumbersAssumption == Values \subseteq Int

VARIABLES
  errno,
  call,     \* the last conversion, what it was given and the errno that it found
  result    \* what it returned

vars == <<errno, call, result>>

\* Digits that follow the end of a string matter if the number reaches that end.
Inputs ==
  { s \in [digits : BOOLEAN, num : Values \cup {0}, rest : BOOLEAN, tiny : BOOLEAN,
           behind : {"nothing", "digits", "too many digits"}] :
      /\ s.rest => s.behind = "nothing"
      /\ ~ s.digits => s.num = 0 /\ ~ s.tiny
      /\ s.tiny => s.num = 0 }

\* A number is tiny only to those that know of fractions.
Given == {c \in [f : Conversions, s : Inputs] : c.s.tiny => c.f.how \in Reals}

Perform(f, s) ==
  /\ call' = [f |-> f, s |-> s, found |-> errno]
  /\ result' = Convert(f, s, errno)
  /\ errno' = result'.errno

Init ==
  /\ errno = "none"
  /\ call \in [f : CStringsNarrow, s : {t \in Inputs : ~ t.digits /\ t.behind = "nothing"},
              found : {"none"}]
  /\ result = [ok |-> FALSE, value |-> 0, errno |-> "none"]

\* Anything else that the process calls may fail: ERANGE is also what getcwd, strerror_r
\* or another strtol leaves.
OtherFails ==
  /\ errno' \in {"ERANGE", "other"}
  /\ UNCHANGED <<call, result>>

Next == OtherFails \/ \E c \in Given : Perform(c.f, c.s)

Spec == Init /\ [][Next]_vars

-----------------------------------------------------------------------------
Fits(f, s) == s.digits /\ ~ s.tiny /\ In(f.type, s.num)

\* A conversion that returns has returned the number that was written, if one was
\* written that fits the type; those that go by strtonum return no other.
Exact ==
  result.ok =>
    /\ Fits(call.f, call.s) => result.value = call.s.num
    /\ call.f.how = "strtonum" => Fits(call.f, call.s)

\* A number that is well written and fits is refused only when it is given by its two
\* ends: because digits follow, or because ERANGE was in errno before, whoever has left
\* it there.  And uint64_t ends where int64_t does.
Accepts ==
  ~ result.ok /\ Fits(call.f, call.s) /\ ~ call.s.rest
    => \/ call.f.how \in WithEnds /\ call.s.behind # "nothing"
       \/ call.f.how \in WithErrno /\ call.found = "ERANGE"
       \/ call.f.how = "strtonum" /\ call.s.num > SInt(Long).max

-----------------------------------------------------------------------------
(* What the messages say and the code does not do (README, section 6).     *)

\* "Conversion failed ... (34, Numerical result out of range)" is said of no number that
\* is in range and ends where its string ends ...
RefusesRightly ==
  call.f.how \in WithErrno /\ Fits(call.f, call.s) /\ AtItsEnd(call.f, call.s) => result.ok

\* ... and of every number that is not.
RefusesTooLarge == call.f.how \in WithErrno /\ result.ok /\ call.s.digits => Fits(call.f, call.s)
=============================================================================
