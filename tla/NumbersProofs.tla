---------------------------- MODULE NumbersProofs ----------------------------
(***************************************************************************)
(* The conversions are exact and refuse nothing without a reason, for any  *)
(* sizes of the types and any numbers, whatever was converted before.      *)
(***************************************************************************)
EXTENDS Numbers, TLAPS

-----------------------------------------------------------------------------
(* The conversions.                                                        *)

\* A number that fits is left as it is when it is cut to the type.
LEMMA CutKeeps ==
  ASSUME NEW t, t.min \in Int, t.max \in Int, NEW n \in Int, In(t, n)
  PROVE  Cut(t, n) = n
<1> DEFINE a == n - t.min
           b == t.max - t.min + 1
<1>1. a \in Int /\ b \in Int /\ 0 <= a /\ a < b
  BY DEF In
<1>2. a % b = a
  <2> HIDE DEF a, b
  <2> QED
    BY <1>1
<1> QED
  BY <1>2 DEF Cut

\* What an input holds.
LEMMA InputsTyped ==
  ASSUME NEW s \in Inputs
  PROVE  /\ s.num \in Int /\ s.digits \in BOOLEAN /\ s.rest \in BOOLEAN /\ s.tiny \in BOOLEAN
         /\ s.tiny => s.num = 0
<1>1. s \in [digits : BOOLEAN, num : Values \cup {0}, rest : BOOLEAN, tiny : BOOLEAN,
            behind : {"nothing", "digits", "too many digits"}] /\ (s.tiny => s.num = 0)
  BY DEF Inputs
<1>2. s.num \in Values \cup {0}
  BY <1>1
<1>3. \A n \in Values : n \in Int
  BY NumbersAssumption DEF NumbersAssumption
<1>4. s.num \in Int
  BY <1>2, <1>3
<1> QED
  BY <1>1, <1>4

\* Neither does a bound change it that it keeps.
LEMMA BoundKeeps ==
  ASSUME NEW t, t.min \in Int, t.max \in Int, NEW n \in Int, In(t, n)
  PROVE  Clamp(t, n) = n /\ Nearest(t, n) = n
BY DEF In, Clamp, Nearest

\* A conversion has whole numbers for its bounds.
Measured(f) == f.type.min \in Int /\ f.type.max \in Int /\ f.max \in Int

\* strtonum is never told of more than the type holds, and of less only for uint64_t.
ToldOfItsType(f) ==
  f.how = "strtonum" => f.max <= f.type.max /\ f.max \in {f.type.max, SInt(Long).max}

\* No type is larger than what the function returns that does the work.
HasRoom(f) ==
  /\ f.how \in {"strtol", "strtol_ends", "strtol_errno"} =>
       SInt(Long).min <= f.type.min /\ f.type.max <= SInt(Long).max
  /\ f.how = "strtod_errno" =>
       Real(DoubleMax).min <= f.type.min /\ f.type.max <= Real(DoubleMax).max

\* How the conversions do their work.
Hows == {"strtonum", "strtol", "strtol_ends", "strtol_errno", "strtod", "strtod_errno"}

\* What the proofs need to know of a conversion.
Sound(f) == f.how \in Hows /\ Measured(f) /\ ToldOfItsType(f) /\ HasRoom(f)

\* The sizes of the types.
LEMMA Sizes ==
  /\ Byte \in Nat /\ Half \in Nat /\ Word \in Nat /\ Long \in Nat
  /\ Byte < Half /\ 2 * Byte <= Long /\ 2 * Half <= Long /\ Word < Long /\ 2 * Word <= Long
  /\ FloatMax \in Nat /\ DoubleMax \in Nat /\ FloatMax < DoubleMax
BY StringsAssumption DEF StringsAssumption

\* The bounds of a type.
LEMMA Bounds ==
  ASSUME NEW h \in Nat
  PROVE  /\ SInt(h).min = - h /\ SInt(h).max = h - 1
         /\ UInt(h).min = 0 /\ UInt(h).max = 2 * h - 1
         /\ Real(h).min = - h /\ Real(h).max = h
BY DEF SInt, UInt, Real

\* The bounds of what the C functions return.
LEMMA LongMeasured ==
  /\ SInt(Long).min \in Int /\ SInt(Long).max \in Int
  /\ Real(DoubleMax).min \in Int /\ Real(DoubleMax).max \in Int
BY Sizes, Bounds

\* Conversions that call strtonum.
LEMMA CheckedSound ==
  ASSUME NEW name, NEW t, NEW max \in Int, t.min \in Int, t.max \in Int,
         max <= t.max, max \in {t.max, SInt(Long).max}
  PROVE  Sound(Checked(name, t, max))
BY DEF Checked, Sound, Hows, Measured, ToldOfItsType, HasRoom

\* Of integers.
LEMMA BySound ==
  ASSUME NEW name, NEW how \in {"strtol", "strtol_ends", "strtol_errno"},
         NEW h \in {Word, Long}
  PROVE  Sound(By(how, name, SInt(h)))
<1>1. h \in Nat /\ Long \in Nat /\ h <= Long
  BY Sizes
<1>2. SInt(h).min = - h /\ SInt(h).max = h - 1
  BY <1>1, Bounds
<1>3. SInt(Long).min = - Long /\ SInt(Long).max = Long - 1
  BY <1>1, Bounds
<1>4. /\ SInt(h).min \in Int /\ SInt(h).max \in Int
      /\ SInt(Long).min <= SInt(h).min /\ SInt(h).max <= SInt(Long).max
  BY <1>1, <1>2, <1>3
<1> QED
  BY <1>4 DEF By, Sound, Hows, Measured, ToldOfItsType, HasRoom

\* Of the other numbers.
LEMMA RealSound ==
  ASSUME NEW name, NEW how \in {"strtod", "strtod_errno"}, NEW m \in {FloatMax, DoubleMax}
  PROVE  Sound(By(how, name, Real(m)))
<1>1. m \in Nat /\ DoubleMax \in Nat /\ m <= DoubleMax
  BY Sizes
<1>2. Real(m).min = - m /\ Real(m).max = m
  BY <1>1, Bounds
<1>3. Real(DoubleMax).min = - DoubleMax /\ Real(DoubleMax).max = DoubleMax
  BY <1>1, Bounds
<1>4. /\ Real(m).min \in Int /\ Real(m).max \in Int
      /\ Real(DoubleMax).min <= Real(m).min /\ Real(m).max <= Real(DoubleMax).max
  BY <1>1, <1>2, <1>3
<1> QED
  BY <1>4 DEF By, Sound, Hows, Measured, ToldOfItsType, HasRoom

\* Of a type of h values in each half, with and without a sign.
LEMMA NarrowSound ==
  ASSUME NEW name, NEW h \in Nat
  PROVE  /\ Sound(Checked(name, SInt(h), SInt(h).max))
         /\ Sound(Checked(name, UInt(h), UInt(h).max))
<1>1. SInt(h).min = - h /\ SInt(h).max = h - 1
  BY Bounds
<1>2. UInt(h).min = 0 /\ UInt(h).max = 2 * h - 1
  BY Bounds
<1>3. Sound(Checked(name, SInt(h), SInt(h).max))
  BY <1>1, CheckedSound
<1>4. Sound(Checked(name, UInt(h), UInt(h).max))
  BY <1>2, CheckedSound
<1> QED
  BY <1>3, <1>4

\* Of the longest type without a sign, which strtonum cannot be told the end of.
LEMMA LongestSound ==
  ASSUME NEW name
  PROVE  Sound(Checked(name, UInt(Long), SInt(Long).max))
BY Sizes, Bounds, CheckedSound

\* Of all conversions.
LEMMA ConversionsSound == \A f \in Conversions : Sound(f)
<1> USE Sizes
<1>1. \A f \in CStringsNarrow : Sound(f)
  BY NarrowSound DEF CStringsNarrow
<1>2. \A f \in CStringsWord : Sound(f)
  BY NarrowSound, BySound DEF CStringsWord
<1>3. \A f \in CStringsLong : Sound(f)
  BY LongestSound, BySound DEF CStringsLong
<1>4. \A f \in CStringsReal : Sound(f)
  BY RealSound DEF CStringsReal
<1>5. \A f \in NumbersNarrow : Sound(f)
  BY NarrowSound DEF NumbersNarrow
<1>6. \A f \in NumbersWide : Sound(f)
  BY NarrowSound, LongestSound, BySound, RealSound DEF NumbersWide
<1>7. \A f \in NumbersBetween : Sound(f)
  BY BySound, RealSound DEF NumbersBetween
<1> QED
  BY <1>1, <1>2, <1>3, <1>4, <1>5, <1>6, <1>7 DEF Conversions

\* What the C functions can read.
LEMMA ReadableIs ==
  ASSUME NEW f, Sound(f)
  PROVE  /\ f.how = "strtonum" => Readable(f) = [min |-> f.type.min, max |-> f.max]
         /\ f.how = "strtod" => Readable(f) = f.type
         /\ f.how = "strtod_errno" => Readable(f) = Real(DoubleMax)
         /\ f.how \in {"strtol", "strtol_ends", "strtol_errno"} => Readable(f) = SInt(Long)
BY DEF Readable

\* What fits its type can be read, but for the upper half of uint64_t.
LEMMA FittingIsReadable ==
  ASSUME NEW f, Sound(f), NEW s, s.num \in Int, Fits(f, s), ~ In(Readable(f), s.num)
  PROVE  f.how = "strtonum" /\ s.num > SInt(Long).max
<1> USE LongMeasured, ReadableIs DEF Fits, In, Sound, Measured
<1>1. CASE f.how = "strtonum"
  BY <1>1 DEF ToldOfItsType
<1>2. CASE f.how = "strtod"
  BY <1>2
<1>3. CASE f.how = "strtod_errno"
  BY <1>3 DEF HasRoom
<1>4. CASE f.how \in {"strtol", "strtol_ends", "strtol_errno"}
  BY <1>4 DEF HasRoom
<1> QED
  BY <1>1, <1>2, <1>3, <1>4 DEF Hows

\* So it is out of range only there, or with too many digits behind it.
LEMMA FittingIsRead ==
  ASSUME NEW f, Sound(f), NEW s, s.num \in Int, Fits(f, s), OutOfRange(f, s)
  PROVE  \/ f.how \in WithEnds /\ s.behind # "nothing"
         \/ f.how = "strtonum" /\ s.num > SInt(Long).max
BY FittingIsReadable DEF OutOfRange, Fits

\* What strtonum lets pass is the number that was written.
LEMMA StrtonumExact ==
  ASSUME NEW f, Sound(f), f.how = "strtonum", NEW s, s.num \in Int, ~ s.tiny, NEW e,
         Strtonum(f, s, e).ok
  PROVE  Fits(f, s) /\ Strtonum(f, s, e).value = s.num
<1>1. s.digits /\ ~ s.rest /\ ~ OutOfRange(f, s)
  BY DEF Strtonum
<1>2. Fits(f, s)
  <2>1. In(Readable(f), s.num)
    BY <1>1 DEF OutOfRange
  <2> QED
    BY <1>1, <2>1, ReadableIs DEF Fits, In, Sound, Measured, ToldOfItsType
<1>3. Strtonum(f, s, e).value = Cut(f.type, s.num)
  BY <1>1 DEF Strtonum
<1> QED
  BY <1>2, <1>3, CutKeeps DEF Fits, Sound, Measured

\* What strtol and strtod read of a number that fits is that number.
LEMMA ParsedExact ==
  ASSUME NEW f, Sound(f), f.how # "strtonum", NEW s, s.num \in Int, Fits(f, s)
  PROVE  Parsed(f, s) = s.num
<1>1. CASE f.how \in Reals
  BY <1>1, BoundKeeps DEF Parsed, Fits, Sound, Measured
<1>2. CASE f.how \notin Reals
  <2>1. f.how \in {"strtol", "strtol_ends", "strtol_errno"}
    BY <1>2 DEF Sound, Hows, Reals
  <2>2. In(SInt(Long), s.num)
    BY <2>1, LongMeasured DEF In, Fits, Sound, Measured, HasRoom
  <2> QED
    BY <1>2, <2>2, LongMeasured, BoundKeeps, CutKeeps DEF Parsed, Fits, Sound, Measured
<1> QED
  BY <1>1, <1>2

-----------------------------------------------------------------------------
(* The invariant: both properties speak of the last conversion only, so    *)
(* that together they are inductive.                                       *)

\* What the last conversion was given and has returned.
IInv == Exact /\ Accepts

\* A conversion keeps it, whatever errno it finds.
LEMMA PerformKeeps ==
  ASSUME NEW c \in Given, Perform(c.f, c.s)
  PROVE  IInv'
<1> DEFINE f == c.f
           s == c.s
<1>0. f \in Conversions /\ s \in Inputs /\ (s.tiny => f.how \in Reals)
  BY DEF Given
<1>1. Sound(f) /\ s.num \in Int /\ s.digits \in BOOLEAN /\ s.rest \in BOOLEAN /\ s.tiny \in BOOLEAN
  BY <1>0, ConversionsSound, InputsTyped
<1>2. /\ call'.f = f /\ call'.s = s /\ call'.found = errno
      /\ result' = Convert(f, s, errno)
  BY DEF Perform
<1> HIDE DEF f, s
<1>3. ASSUME f.how = "strtonum" PROVE IInv'
  <2>1. result' = Strtonum(f, s, errno) /\ ~ s.tiny
    BY <1>0, <1>1, <1>2, <1>3 DEF Convert, Reals
  <2>2. Exact'
    BY <1>1, <1>2, <1>3, <2>1, StrtonumExact DEF Exact, Fits
  <2>3. ASSUME ~ result'.ok, Fits(f, s), ~ s.rest PROVE s.num > SInt(Long).max
    <3>1. OutOfRange(f, s)
      BY <1>1, <2>1, <2>3 DEF Strtonum, Fits
    <3> QED
      BY <1>1, <1>3, <2>3, <3>1, FittingIsRead DEF WithEnds
  <2>4. Accepts'
    BY <1>2, <1>3, <2>3 DEF Accepts, Fits
  <2> QED
    BY <2>2, <2>4 DEF IInv
<1>4. ASSUME f.how # "strtonum" PROVE IInv'
  <2>1. result' = Strtol(f, s, errno)
    BY <1>2, <1>4 DEF Convert
  <2>2. result'.value = Parsed(f, s)
    BY <2>1 DEF Strtol
  <2>3. result'.ok = (AtItsEnd(f, s) /\
          (f.how \in WithErrno => (IF OutOfRange(f, s) THEN "ERANGE" ELSE errno) # "ERANGE"))
    BY <2>1 DEF Strtol
  <2>4. Exact'
    BY <1>1, <1>2, <1>4, <2>2, ParsedExact DEF Exact, Fits
  <2>5. ASSUME ~ result'.ok, Fits(f, s), ~ s.rest
        PROVE  \/ f.how \in WithEnds /\ s.behind # "nothing"
               \/ f.how \in WithErrno /\ errno = "ERANGE"
    <3>1. CASE AtItsEnd(f, s)
      <4>1. OutOfRange(f, s) => f.how \in WithEnds /\ s.behind # "nothing"
        BY <1>1, <1>4, <2>5, FittingIsRead
      <4> QED
        BY <2>3, <2>5, <3>1, <4>1
    <3>2. CASE ~ AtItsEnd(f, s)
      BY <2>5, <3>2 DEF AtItsEnd
    <3> QED
      BY <3>1, <3>2
  <2>6. Accepts'
    BY <1>2, <2>5 DEF Accepts, Fits
  <2> QED
    BY <2>4, <2>6 DEF IInv
<1> QED
  BY <1>3, <1>4

\* So it is an invariant.
LEMMA IInvHolds == Spec => []IInv
<1>1. Init => IInv
  BY DEF Init, IInv, Exact, Accepts, Fits
<1>2. IInv /\ [Next]_vars => IInv'
  <2> SUFFICES ASSUME IInv, [Next]_vars PROVE IInv'
    OBVIOUS
  <2>1. CASE OtherFails
    BY <2>1 DEF OtherFails, IInv, Exact, Accepts, Fits
  <2>2. CASE UNCHANGED vars
    BY <2>2 DEF vars, IInv, Exact, Accepts, Fits
  <2> QED
    BY <2>1, <2>2, PerformKeeps DEF Next
<1> QED
  BY <1>1, <1>2, PTL DEF Spec

\* Exact: whatever was converted before, a number that is written and fits its type is
\* returned as it was written, and strtonum returns no other (c_string_to_*, string_to_*).
THEOREM NumbersExact == Spec => []Exact
<1>1. IInv => Exact
  BY DEF IInv
<1> QED
  BY <1>1, IInvHolds, PTL

\* Accepts: a number that fits is refused only because of digits behind the end of a
\* range, of an ERANGE that was in errno before (whatever else the process has called),
\* or in the upper half of uint64_t.
THEOREM NumbersAccepted == Spec => []Accepts
<1>1. IInv => Accepts
  BY DEF IInv
<1> QED
  BY <1>1, IInvHolds, PTL
=============================================================================
