------------------------------- MODULE Strings -------------------------------
(***************************************************************************)
(* The conversions of strings_manip.cpp, as functions of what they are     *)
(* given and of errno.                                                     *)
(*                                                                         *)
(* What they are given is abstracted to a record: whether it begins with   *)
(* a number, which one, whether anything follows, and, for a string that   *)
(* is given by its two ends, what follows behind the end: digits or not,   *)
(* and whether the number is too large with them.                          *)
(***************************************************************************)
EXTENDS Integers

CONSTANTS
  Byte, Half, Word, Long,   \* half the numbers of values of the types: 2^7, 2^15, 2^31, 2^63
  FloatMax, DoubleMax       \* the largest numbers of the types

ASSUME StringsAssumption ==
  /\ {Byte, Half, Word, Long} \subseteq Nat
  /\ 0 < Byte /\ 2 * Byte <= Half /\ 2 * Half <= Word /\ 2 * Word <= Long
  /\ FloatMax \in Nat /\ DoubleMax \in Nat /\ FloatMax < DoubleMax

SInt(h) == [min |-> - h, max |-> h - 1]
UInt(h) == [min |-> 0, max |-> 2 * h - 1]
Real(max) == [min |-> - max, max |-> max]

In(t, n) == t.min <= n /\ n <= t.max

\* What is left of n in an integer of type t.
Cut(t, n) == ((n - t.min) % (t.max - t.min + 1)) + t.min

Clamp(t, n) == IF n < t.min THEN t.min ELSE IF n > t.max THEN t.max ELSE n

\* One beyond the largest is infinity.
Nearest(t, n) == Clamp([min |-> t.min - 1, max |-> t.max + 1], n)

-----------------------------------------------------------------------------
(* The functions: what each returns, which function of the C library does  *)
(* the work and what is made of its answer, and the largest number that    *)
(* strtonum is told of.                                                    *)

Checked(name, t, max) == [name |-> name, how |-> "strtonum", type |-> t, max |-> max]
By(how, name, t) == [name |-> name, how |-> how, type |-> t, max |-> t.max]

\* A plausible slip: the number of values for the greatest one.
CStringsNarrowWide ==
  { Checked("c_string_to_int8", SInt(Byte), SInt(Byte).max),
    Checked("c_string_to_uint8", UInt(Byte), UInt(Byte).max + 1),
    Checked("c_string_to_int16", SInt(Half), SInt(Half).max),
    Checked("c_string_to_uint16", UInt(Half), UInt(Half).max) }

CStringsNarrow ==
  { Checked("c_string_to_int8", SInt(Byte), SInt(Byte).max),
    Checked("c_string_to_uint8", UInt(Byte), UInt(Byte).max),
    Checked("c_string_to_int16", SInt(Half), SInt(Half).max),
    Checked("c_string_to_uint16", UInt(Half), UInt(Half).max) }

\* The two ends of a string are compared with where the number ends, but errno is not
\* looked at.
CStringsWord ==
  { By("strtol", "c_string_to_int", SInt(Word)),
    By("strtol_ends", "string_to_int_range", SInt(Word)),
    By("strtol", "string_to_int", SInt(Word)),
    Checked("c_string_to_uint", UInt(Word), UInt(Word).max) }

\* strtonum returns a signed number, so that half of uint64_t is out of reach.
CStringsLong ==
  { By("strtol", "c_string_to_int64", SInt(Long)),
    By("strtol_ends", "string_to_int64_range", SInt(Long)),
    By("strtol", "string_to_int64", SInt(Long)),
    Checked("c_string_to_uint64", UInt(Long), SInt(Long).max) }

CStringsReal ==
  { By("strtod", "c_string_to_float", Real(FloatMax)),
    By("strtod", "c_string_to_double", Real(DoubleMax)) }

\* string_to_number
NumbersNarrow ==
  { Checked("int8_t", SInt(Byte), SInt(Byte).max),
    Checked("uint8_t", UInt(Byte), UInt(Byte).max),
    Checked("int16_t", SInt(Half), SInt(Half).max),
    Checked("uint16_t", UInt(Half), UInt(Half).max) }

NumbersWide ==
  { By("strtol", "int32_t", SInt(Word)),
    Checked("uint32_t", UInt(Word), UInt(Word).max),
    By("strtol", "int64_t", SInt(Long)),
    Checked("uint64_t", UInt(Long), SInt(Long).max),
    By("strtod", "float", Real(FloatMax)),
    By("strtod", "double", Real(DoubleMax)) }

\* Of strings that are given by their two ends.  Here errno is looked at.
NumbersBetween ==
  { By("strtol_errno", "int32_t_range", SInt(Word)),
    By("strtol_errno", "int64_t_range", SInt(Long)),
    By("strtod_errno", "float_range", Real(FloatMax)),
    By("strtod_errno", "double_range", Real(DoubleMax)) }

Conversions ==
  CStringsNarrow \cup CStringsWord \cup CStringsLong \cup CStringsReal
    \cup NumbersNarrow \cup NumbersWide \cup NumbersBetween

-----------------------------------------------------------------------------
(* What they return: whether without an exception, which value in that     *)
(* case, and what is in errno then.                                        *)

Reals == {"strtod", "strtod_errno"}
WithEnds == {"strtol_ends", "strtol_errno", "strtod_errno"}
WithErrno == {"strtol_errno", "strtod_errno"}

\* What the function can read that does the work; the float of a range is read by strtod,
\* which has room for more.
Readable(f) ==
  CASE f.how = "strtonum"     -> [min |-> f.type.min, max |-> f.max]
    [] f.how = "strtod"       -> f.type
    [] f.how = "strtod_errno" -> Real(DoubleMax)
    [] OTHER                  -> SInt(Long)

\* Digits behind the end are read with the others, and a number may be tiny: nearer to 0
\* than all others that strtod can read.
OutOfRange(f, s) ==
  \/ s.digits /\ ~ In(Readable(f), s.num)
  \/ f.how \in WithEnds /\ s.behind = "too many digits"
  \/ f.how \in Reals /\ s.tiny

\* strtonum leaves errno as it was if all is well; an empty string is no number.
Strtonum(f, s, errno) ==
  CASE ~ s.digits \/ s.rest -> [ok |-> FALSE, value |-> 0, errno |-> "EINVAL"]
    [] s.digits /\ ~ s.rest /\ OutOfRange(f, s) ->
         [ok |-> FALSE, value |-> 0, errno |-> "ERANGE"]
    [] OTHER -> [ok |-> TRUE, value |-> Cut(f.type, s.num), errno |-> errno]

\* strtol, strtoll: 0 without a number, the largest if it is too large, and the result is
\* cut to the type.  strtof, strtod: infinity.  (What digits behind the end make of it
\* does not matter: it is refused.)
Parsed(f, s) ==
  IF ~ s.digits THEN 0
  ELSE IF f.how \in Reals THEN Nearest(f.type, s.num)
  ELSE Cut(f.type, Clamp(SInt(Long), s.num))

AtItsEnd(f, s) == ~ s.rest /\ (f.how \in WithEnds => s.behind = "nothing")

\* A plausible slip: any errno counts.
StrtolAnyErrno(f, s, errno) ==
  LET after == IF OutOfRange(f, s) THEN "ERANGE" ELSE errno
  IN  [ok |-> AtItsEnd(f, s) /\ (f.how \in WithErrno => after = "none"),
       value |-> Parsed(f, s), errno |-> after]

\* errno is not cleared before, so that ERANGE may be left from another call.
Strtol(f, s, errno) ==
  LET after == IF OutOfRange(f, s) THEN "ERANGE" ELSE errno
  IN  [ok |-> AtItsEnd(f, s) /\ (f.how \in WithErrno => after # "ERANGE"),
       value |-> Parsed(f, s), errno |-> after]

Convert(f, s, errno) ==
  IF f.how = "strtonum" THEN Strtonum(f, s, errno) ELSE Strtol(f, s, errno)
=============================================================================
