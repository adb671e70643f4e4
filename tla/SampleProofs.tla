---------------------------- MODULE SampleProofs ----------------------------
(***************************************************************************)
(* The child of the sample program lives and dies as the command line      *)
(* says, for any command line, any sizes of the integers, any files and    *)
(* any clock.                                                              *)
(***************************************************************************)
EXTENDS Sample, TLAPS

\* The options for the file of the output.
Named == {k \in Given("o") : line[k].text # "-"}

-----------------------------------------------------------------------------
(* The inductive invariant: what each variable has to do with the last     *)
(* option that sets it.                                                    *)

\* What c_string_to_uint accepts.
Whole == 0 .. 2 * Word - 1
\* What c_string_to_int8 accepts.
Small == - Byte .. Byte - 1

\* The life is that of the last -L, cut to an int.
LifeTold ==
  IF Given("L") = {} THEN conf.life = Default.life
  ELSE \E k \in Newest(Given("L")) :
         line[k].number.num \in Whole /\ conf.life = Cut(Int32, line[k].number.num)

\* The status is that of the last -r.
ReturnTold ==
  IF Given("r") = {} THEN conf.ret = 0
  ELSE \E k \in Newest(Given("r")) :
         line[k].number.num \in Small /\ conf.ret = line[k].number.num

\* The way to die is that of the last -x.
WayTold ==
  IF Given("x") = {} THEN conf.way = "std"
  ELSE \E k \in Newest(Given("x")) :
         line[k].text \in Arguments.x \ {"other"} /\ conf.way = line[k].text

\* The output, unless it has failed, is the file of the last -o.
OutputTold ==
  output.fail \/ IF Named = {} THEN output.file = "none"
                 ELSE \E k \in Newest(Named) : output.file = line[k].text

\* A refused option is in line but has set nothing.
AsTold == at # "failed" => LifeTold /\ ReturnTold /\ WayTold /\ OutputTold

\* The wrapper has looked at the stream before the library begins.
Writable ==
  at \in {"library", "child", "looping", "leaving", "done"} => ~ output.fail

\* exit_moment lies the life behind a look at the clock in the first round.
Timed ==
  /\ at = "child" => now = born
  /\ at \in {"looping", "leaving", "done"} =>
       \E t \in born .. born + 2 : until = Cut(Int32, t + conf.life)
  /\ at \in {"leaving", "done"} => now >= until

\* A child that is done has died as it was told.
Finished == at = "done" => status = ExitWay

\* The inductive invariant.
IInv ==
  TypeOK /\ line \in Seq(Options) /\ AsTold /\ Writable /\ Timed /\ Finished

-----------------------------------------------------------------------------
(* Integers and their conversions.                                         *)

\* The sizes of the types.
LEMMA Sizes ==
  /\ Byte \in Nat /\ Half \in Nat /\ Word \in Nat
  /\ 0 < Byte /\ 2 * Byte <= Word /\ 5 < Word
BY StringsAssumption, SampleAssumption DEF StringsAssumption, SampleAssumption

\* The bounds of an int.
LEMMA IntBounds == Int32.min = - Word /\ Int32.max = Word - 1
BY DEF Int32, SInt

\* Whatever is cut to an int is one.
LEMMA CutFits ==
  ASSUME NEW n \in Int
  PROVE  Cut(Int32, n) \in - Word .. Word - 1
<1> DEFINE a == n - Int32.min
           b == Int32.max - Int32.min + 1
<1>1. a \in Int /\ b \in Int /\ b = 2 * Word /\ 0 < b
  BY Sizes, IntBounds
<1>2. a % b \in 0 .. b - 1
  <2> HIDE DEF a, b
  <2> QED
    BY <1>1
<1>3. Cut(Int32, n) = (a % b) - Word
  BY Sizes, IntBounds, <1>2 DEF Cut
<1> HIDE DEF a, b
<1> QED
  BY <1>1, <1>2, <1>3, Sizes

\* What is an int already stays as it is.
LEMMA CutKeeps ==
  ASSUME NEW t, t.min \in Int, t.max \in Int, NEW n \in Int, In(t, n)
  PROVE  Cut(t, n) = n
<1> DEFINE a == n - t.min
           b == t.max - t.min + 1
<1>1. a \in Int /\ b \in Int /\ 0 <= a /\ a < b
  BY DEF In
<1>2. a % b = a
  <2> HIDE DEF a, b
  <2> QED
    BY <1>1
<1> QED
  BY <1>2 DEF Cut

\* An int is left as it is.
LEMMA IntKeeps ==
  ASSUME NEW n \in - Word .. Word - 1
  PROVE  Cut(Int32, n) = n
<1>1. Int32.min \in Int /\ Int32.max \in Int /\ In(Int32, n)
  BY Sizes, IntBounds DEF In
<1> QED
  BY <1>1, CutKeeps, Sizes

\* A name stands for one conversion.
LEMMA UintIs ==
  CString("c_string_to_uint") = Checked("c_string_to_uint", UInt(Word), UInt(Word).max)
<1> DEFINE S == CStringsNarrow \cup CStringsWord
           c == Checked("c_string_to_uint", UInt(Word), UInt(Word).max)
<1>1. c \in S /\ c.name = "c_string_to_uint"
  BY DEF CStringsWord, Checked
<1>2. \A f \in S : f.name = "c_string_to_uint" => f = c
  BY DEF CStringsNarrow, CStringsWord, Checked, By
<1> HIDE DEF S, c
<1>3. (CHOOSE f \in S : f.name = "c_string_to_uint") = c
  BY <1>1, <1>2
<1> QED
  BY <1>3 DEF CString, S, c

\* So does this one.
LEMMA Int8Is ==
  CString("c_string_to_int8") = Checked("c_string_to_int8", SInt(Byte), SInt(Byte).max)
<1> DEFINE S == CStringsNarrow \cup CStringsWord
           c == Checked("c_string_to_int8", SInt(Byte), SInt(Byte).max)
<1>1. c \in S /\ c.name = "c_string_to_int8"
  BY DEF CStringsNarrow, Checked
<1>2. \A f \in S : f.name = "c_string_to_int8" => f = c
  BY DEF CStringsNarrow, CStringsWord, Checked, By
<1> HIDE DEF S, c
<1>3. (CHOOSE f \in S : f.name = "c_string_to_int8") = c
  BY <1>1, <1>2
<1> QED
  BY <1>3 DEF CString, S, c

\* A number that is accepted is the one that was written, and fits the type.
LEMMA CheckedExact ==
  ASSUME NEW name, NEW t, t.min \in Int, t.max \in Int, NEW n, n.num \in Int,
         Convert(Checked(name, t, t.max), n, "none").ok
  PROVE  /\ t.min <= n.num /\ n.num <= t.max
         /\ Convert(Checked(name, t, t.max), n, "none").value = n.num
<1> DEFINE f == Checked(name, t, t.max)
<1>1. f.how = "strtonum" /\ f.type = t /\ f.max = t.max
  BY DEF Checked
<1> HIDE DEF f
<1>2. Convert(f, n, "none") = Strtonum(f, n, "none")
  BY <1>1 DEF Convert
<1>3. n.digits /\ ~ n.rest /\ ~ OutOfRange(f, n)
  BY <1>2 DEF Strtonum, f
<1>4. In(t, n.num)
  BY <1>1, <1>3 DEF OutOfRange, Readable, In
<1>5. Convert(f, n, "none").value = Cut(t, n.num)
  BY <1>1, <1>2, <1>3 DEF Strtonum
<1> QED
  BY <1>4, <1>5, CutKeeps DEF In, f

\* What c_string_to_uint accepts is what was written.
LEMMA WholeExact ==
  ASSUME NEW n, n.num \in Int, Convert(CString("c_string_to_uint"), n, "none").ok
  PROVE  /\ n.num \in Whole
         /\ Convert(CString("c_string_to_uint"), n, "none").value = n.num
<1>1. UInt(Word).min = 0 /\ UInt(Word).max = 2 * Word - 1
  BY DEF UInt
<1>2. UInt(Word).min \in Int /\ UInt(Word).max \in Int
  BY <1>1, Sizes
<1>3. Convert(Checked("c_string_to_uint", UInt(Word), UInt(Word).max), n, "none").ok
  BY UintIs
<1>4. /\ UInt(Word).min <= n.num /\ n.num <= UInt(Word).max
      /\ Convert(CString("c_string_to_uint"), n, "none").value = n.num
  BY <1>2, <1>3, UintIs, CheckedExact
<1> QED
  BY <1>1, <1>4, Sizes DEF Whole

\* What c_string_to_int8 accepts is what was written.
LEMMA SmallExact ==
  ASSUME NEW n, n.num \in Int, Convert(CString("c_string_to_int8"), n, "none").ok
  PROVE  /\ n.num \in Small
         /\ Convert(CString("c_string_to_int8"), n, "none").value = n.num
<1>1. SInt(Byte).min = - Byte /\ SInt(Byte).max = Byte - 1
  BY DEF SInt
<1>2. SInt(Byte).min \in Int /\ SInt(Byte).max \in Int
  BY <1>1, Sizes
<1>3. Convert(Checked("c_string_to_int8", SInt(Byte), SInt(Byte).max), n, "none").ok
  BY Int8Is
<1>4. /\ SInt(Byte).min <= n.num /\ n.num <= SInt(Byte).max
      /\ Convert(CString("c_string_to_int8"), n, "none").value = n.num
  BY <1>2, <1>3, Int8Is, CheckedExact
<1> QED
  BY <1>1, <1>4, Sizes DEF Small

-----------------------------------------------------------------------------
(* Command lines.                                                          *)

\* What an option holds.
LEMMA OptionsTyped ==
  ASSUME NEW o \in Options
  PROVE  /\ o.opt \in {"C", "L", "r", "N", "T", "h", "x", "m", "p", "i", "o"}
         /\ o.text \in Arguments[o.opt]
         /\ o.number.num \in Int
<1>1. /\ o.opt \in DOMAIN Arguments /\ o.number \in Numerals \cup {Nothing}
      /\ o.text \in Arguments[o.opt]
  BY DEF Options
<1>2. Nothing.num \in Int
  BY DEF Nothing
<1>3. \A n \in Numerals : n.num \in Int
  BY SampleAssumption DEF SampleAssumption
<1>4. o.number.num \in Int
  BY <1>1, <1>2, <1>3
<1> QED
  BY <1>1, <1>4 DEF Arguments

\* What the texts of options are.
LEMMA TextsTyped ==
  ASSUME NEW o \in Options
  PROVE  /\ o.opt \in {"i", "o"} => o.text \in Files \cup {"-"}
         /\ o.opt = "m" => o.text \in Arguments.m
         /\ o.opt = "p" => o.text \in Arguments.p
<1>1. Arguments["i"] = Files \cup {"-"} /\ Arguments["o"] = Files \cup {"-"}
  BY DEF Arguments
<1>2. Arguments["m"] = Arguments.m /\ Arguments["p"] = Arguments.p
  OBVIOUS
<1> QED
  BY <1>1, <1>2, OptionsTyped

\* An option that is taken is the last of its kind.
LEMMA TakesThis ==
  ASSUME line \in Seq(Options), NEW o \in Options, Takes(o)
  PROVE  /\ line' \in Seq(Options)
         /\ Len(line) + 1 \in Newest(Given(o.opt))'
         /\ line'[Len(line) + 1] = o
<1>1. line' = Append(line, o)
  BY DEF Takes
<1>2. /\ line' \in Seq(Options) /\ Len(line') = Len(line) + 1 /\ Len(line) \in Nat
      /\ line'[Len(line) + 1] = o
  BY <1>1
<1> QED
  BY <1>2 DEF Newest, Given

\* It changes nothing about those of another.
LEMMA TakesOther ==
  ASSUME line \in Seq(Options), NEW o \in Options, Takes(o), NEW letter, letter # o.opt
  PROVE  /\ Given(letter)' = Given(letter)
         /\ \A k \in Given(letter) : line'[k] = line[k]
<1>1. line' = Append(line, o)
  BY DEF Takes
<1>2. /\ Len(line') = Len(line) + 1 /\ Len(line) \in Nat
      /\ line'[Len(line) + 1] = o /\ \A k \in 1 .. Len(line) : line'[k] = line[k]
  BY <1>1
<1> QED
  BY <1>2 DEF Given

\* The options for the output likewise, but that "-" is none of them.
LEMMA TakesNamed ==
  ASSUME line \in Seq(Options), NEW o \in Options, Takes(o), o.opt = "o", o.text # "-"
  PROVE  Len(line) + 1 \in Newest(Named)' /\ line'[Len(line) + 1] = o
<1>1. line' = Append(line, o)
  BY DEF Takes
<1>2. /\ Len(line') = Len(line) + 1 /\ Len(line) \in Nat
      /\ line'[Len(line) + 1] = o
  BY <1>1
<1> QED
  BY <1>2 DEF Newest, Named, Given

\* Any other option leaves them as they are.
LEMMA TakesUnnamed ==
  ASSUME line \in Seq(Options), NEW o \in Options, Takes(o), o.opt # "o" \/ o.text = "-"
  PROVE  Named' = Named /\ \A k \in Named : line'[k] = line[k]
<1>1. line' = Append(line, o)
  BY DEF Takes
<1>2. /\ Len(line') = Len(line) + 1 /\ Len(line) \in Nat
      /\ line'[Len(line) + 1] = o /\ \A k \in 1 .. Len(line) : line'[k] = line[k]
  BY <1>1
<1> QED
  BY <1>2 DEF Named, Given

-----------------------------------------------------------------------------
(* What the variables have to do with the command line outlasts an option  *)
(* of another kind, and every step that takes none.                        *)

LEMMA LifeStays ==
  ASSUME line \in Seq(Options), NEW o \in Options, Takes(o), o.opt # "L",
         LifeTold, conf'.life = conf.life
  PROVE  LifeTold'
<1>1. Given("L")' = Given("L") /\ \A k \in Given("L") : line'[k] = line[k]
  BY TakesOther
<1> QED
  BY <1>1 DEF LifeTold, Newest

\* The same of the status,
LEMMA ReturnStays ==
  ASSUME line \in Seq(Options), NEW o \in Options, Takes(o), o.opt # "r",
         ReturnTold, conf'.ret = conf.ret
  PROVE  ReturnTold'
<1>1. Given("r")' = Given("r") /\ \A k \in Given("r") : line'[k] = line[k]
  BY TakesOther
<1> QED
  BY <1>1 DEF ReturnTold, Newest

\* of the way to die,
LEMMA WayStays ==
  ASSUME line \in Seq(Options), NEW o \in Options, Takes(o), o.opt # "x",
         WayTold, conf'.way = conf.way
  PROVE  WayTold'
<1>1. Given("x")' = Given("x") /\ \A k \in Given("x") : line'[k] = line[k]
  BY TakesOther
<1> QED
  BY <1>1 DEF WayTold, Newest

\* of the output,
LEMMA OutputStays ==
  ASSUME line \in Seq(Options), NEW o \in Options, Takes(o), o.opt # "o" \/ o.text = "-",
         OutputTold, output' = output
  PROVE  OutputTold'
<1>1. Named' = Named /\ \A k \in Named : line'[k] = line[k]
  BY TakesUnnamed
<1> QED
  BY <1>1 DEF OutputTold, Newest

\* and of all of them, when no option is taken.
LEMMA AllStay ==
  ASSUME UNCHANGED <<line, conf, output>>, LifeTold, ReturnTold, WayTold, OutputTold
  PROVE  LifeTold' /\ ReturnTold' /\ WayTold' /\ OutputTold'
BY DEF LifeTold, ReturnTold, WayTold, OutputTold, Newest, Named, Given

\* A program that has given up is held to nothing.
LEMMA FailedKeeps ==
  ASSUME IInv, line' \in Seq(Options), at' = "failed",
         UNCHANGED <<conf, input, output, born, now, until>>
  PROVE  IInv'
<1>1. TypeOK'
  BY DEF IInv, TypeOK, Places
<1>2. AsTold' /\ Writable' /\ Timed' /\ Finished'
  BY DEF AsTold, Writable, Timed, Finished
<1> QED
  BY <1>1, <1>2 DEF IInv

\* An option that is accepted.
LEMMA AcceptedKeeps ==
  ASSUME IInv, NEW o \in Options, Takes(o), TypeOK', UNCHANGED at,
         LifeTold', ReturnTold', WayTold', OutputTold'
  PROVE  IInv'
<1>1. line' \in Seq(Options)
  BY TakesThis DEF IInv
<1>2. at = "options" /\ at' = "options"
  BY DEF Takes
<1>3. AsTold' /\ Writable' /\ Timed' /\ Finished'
  BY <1>2 DEF AsTold, Writable, Timed, Finished
<1> QED
  BY <1>1, <1>3 DEF IInv

\* Any other step of the program until the end of the loop.
LEMMA OthersKeep ==
  ASSUME IInv, at # "failed", UNCHANGED <<line, conf, output>>, TypeOK',
         Writable', Timed', Finished'
  PROVE  IInv'
<1>1. LifeTold /\ ReturnTold /\ WayTold /\ OutputTold
  BY DEF IInv, AsTold
<1>2. LifeTold' /\ ReturnTold' /\ WayTold' /\ OutputTold'
  BY <1>1, AllStay
<1> QED
  BY <1>2 DEF IInv, AsTold

-----------------------------------------------------------------------------
(* The steps: first the options.                                           *)

\* What an accepted option is held to.
LEMMA Before ==
  ASSUME IInv, NEW o \in Options, Takes(o)
  PROVE  /\ at = "options" /\ line \in Seq(Options) /\ line' \in Seq(Options)
         /\ LifeTold /\ ReturnTold /\ WayTold /\ OutputTold
BY TakesThis DEF IInv, AsTold, Takes

\* -C.
LEMMA CountKeeps ==
  ASSUME IInv, NEW o \in Options, TakeCount(o)
  PROVE  IInv'
<1> DEFINE r == Convert(CString("c_string_to_uint"), o.number, "none")
<1>1. Takes(o) /\ o.opt = "C"
  BY DEF TakeCount
<1>2. CASE ~ r.ok /\ Refuses
  BY <1>1, <1>2, Before, FailedKeeps DEF Refuses, Ends
<1>3. CASE r.ok /\ Stores("count", Cut(Int32, r.value))
  <2>1. conf' = [conf EXCEPT !["count"] = Cut(Int32, r.value)]
        /\ UNCHANGED <<input, output, at, status, born, now, until>>
    BY <1>3 DEF Stores
  <2>2. r.value = o.number.num /\ o.number.num \in Int
    BY <1>3, OptionsTyped, WholeExact
  <2>3. Cut(Int32, r.value) \in - Word .. Word - 1
    BY <2>2, CutFits
  <2> HIDE DEF r
  <2>4. TypeOK'
    BY <2>1, <2>3, Sizes, IntBounds DEF IInv, TypeOK, In
  <2>5. conf'.life = conf.life /\ conf'.ret = conf.ret /\ conf'.way = conf.way
    BY <2>1 DEF IInv, TypeOK
  <2>6. LifeTold' /\ ReturnTold' /\ WayTold' /\ OutputTold'
    BY <1>1, <2>1, <2>5, Before, LifeStays, ReturnStays, WayStays, OutputStays
  <2> QED
    BY <1>1, <2>1, <2>4, <2>6, AcceptedKeeps
<1> QED
  BY <1>2, <1>3 DEF TakeCount, Number

\* -L.
LEMMA LifeKeeps ==
  ASSUME IInv, NEW o \in Options, TakeLife(o)
  PROVE  IInv'
<1> DEFINE r == Convert(CString("c_string_to_uint"), o.number, "none")
<1>1. Takes(o) /\ o.opt = "L"
  BY DEF TakeLife
<1>2. CASE ~ r.ok /\ Refuses
  BY <1>1, <1>2, Before, FailedKeeps DEF Refuses, Ends
<1>3. CASE r.ok /\ Stores("life", Cut(Int32, r.value))
  <2>1. conf' = [conf EXCEPT !["life"] = Cut(Int32, r.value)]
        /\ UNCHANGED <<input, output, at, status, born, now, until>>
    BY <1>3 DEF Stores
  <2>2. r.value = o.number.num /\ o.number.num \in Int /\ o.number.num \in Whole
    BY <1>3, OptionsTyped, WholeExact
  <2>3. Cut(Int32, r.value) \in - Word .. Word - 1
    BY <2>2, CutFits
  <2> HIDE DEF r
  <2>4. TypeOK'
    BY <2>1, <2>3, Sizes, IntBounds DEF IInv, TypeOK, In
  <2>5. /\ conf'.life = Cut(Int32, o.number.num)
        /\ conf'.ret = conf.ret /\ conf'.way = conf.way
    BY <2>1, <2>2 DEF IInv, TypeOK
  <2>6. LifeTold'
    BY <1>1, <2>2, <2>5, Before, TakesThis DEF LifeTold, Newest
  <2>7. ReturnTold' /\ WayTold' /\ OutputTold'
    BY <1>1, <2>1, <2>5, Before, ReturnStays, WayStays, OutputStays
  <2> QED
    BY <1>1, <2>1, <2>4, <2>6, <2>7, AcceptedKeeps
<1> QED
  BY <1>2, <1>3 DEF TakeLife, Number

\* -r.
LEMMA ReturnKeeps ==
  ASSUME IInv, NEW o \in Options, TakeReturn(o)
  PROVE  IInv'
<1> DEFINE r == Convert(CString("c_string_to_int8"), o.number, "none")
<1>1. Takes(o) /\ o.opt = "r"
  BY DEF TakeReturn
<1>2. CASE ~ r.ok /\ Refuses
  BY <1>1, <1>2, Before, FailedKeeps DEF Refuses, Ends
<1>3. CASE r.ok /\ Stores("ret", Cut(Int32, r.value))
  <2>1. conf' = [conf EXCEPT !["ret"] = Cut(Int32, r.value)]
        /\ UNCHANGED <<input, output, at, status, born, now, until>>
    BY <1>3 DEF Stores
  <2>2. r.value = o.number.num /\ o.number.num \in Int /\ o.number.num \in Small
    BY <1>3, OptionsTyped, SmallExact
  <2>3. o.number.num \in - Word .. Word - 1
    BY <2>2, Sizes DEF Small
  <2>4. Cut(Int32, r.value) = o.number.num
    BY <2>2, <2>3, IntKeeps
  <2> HIDE DEF r
  <2>5. TypeOK'
    BY <2>1, <2>2, <2>4 DEF IInv, TypeOK
  <2>6. /\ conf'.ret = o.number.num
        /\ conf'.life = conf.life /\ conf'.way = conf.way
    BY <2>1, <2>4 DEF IInv, TypeOK
  <2>7. ReturnTold'
    BY <1>1, <2>2, <2>6, Before, TakesThis DEF ReturnTold, Newest
  <2>8. LifeTold' /\ WayTold' /\ OutputTold'
    BY <1>1, <2>1, <2>6, Before, LifeStays, WayStays, OutputStays
  <2> QED
    BY <1>1, <2>1, <2>5, <2>7, <2>8, AcceptedKeeps
<1> QED
  BY <1>2, <1>3 DEF TakeReturn, Number

\* -N and -T.
LEMMA FlagKeeps ==
  ASSUME IInv, NEW o \in Options, TakeFlag(o)
  PROVE  IInv'
<1>1. PICK field \in {"detach", "tracer"}, value \in BOOLEAN :
        o.opt \in {"N", "T"} /\ Takes(o) /\ Stores(field, value)
  BY DEF TakeFlag
<1>2. conf' = [conf EXCEPT ![field] = value]
      /\ UNCHANGED <<input, output, at, status, born, now, until>>
  BY <1>1 DEF Stores
<1>3. TypeOK'
  BY <1>2 DEF IInv, TypeOK
<1>4. conf'.life = conf.life /\ conf'.ret = conf.ret /\ conf'.way = conf.way
  BY <1>2 DEF IInv, TypeOK
<1>5. LifeTold' /\ ReturnTold' /\ WayTold' /\ OutputTold'
  BY <1>1, <1>2, <1>4, Before, LifeStays, ReturnStays, WayStays, OutputStays
<1> QED
  BY <1>1, <1>2, <1>3, <1>5, AcceptedKeeps

\* -m and -p.
LEMMA NameKeeps ==
  ASSUME IInv, NEW o \in Options, TakeName(o)
  PROVE  IInv'
<1>1. PICK field \in {"mode", "pidfile"} :
        /\ o.opt \in {"m", "p"} /\ (field = "mode" <=> o.opt = "m")
        /\ Takes(o) /\ Stores(field, o.text)
  BY DEF TakeName
<1>2. conf' = [conf EXCEPT ![field] = o.text]
      /\ UNCHANGED <<input, output, at, status, born, now, until>>
  BY <1>1 DEF Stores
<1>3. IF field = "mode" THEN o.text \in Arguments.m ELSE o.text \in Arguments.p
  BY <1>1, TextsTyped
<1>4. TypeOK'
  BY <1>1, <1>2, <1>3 DEF IInv, TypeOK
<1>5. conf'.life = conf.life /\ conf'.ret = conf.ret /\ conf'.way = conf.way
  BY <1>2 DEF IInv, TypeOK
<1>6. LifeTold' /\ ReturnTold' /\ WayTold' /\ OutputTold'
  BY <1>1, <1>2, <1>5, Before, LifeStays, ReturnStays, WayStays, OutputStays
<1> QED
  BY <1>1, <1>2, <1>4, <1>6, AcceptedKeeps

\* -x.
LEMMA WayKeeps ==
  ASSUME IInv, NEW o \in Options, TakeWay(o)
  PROVE  IInv'
<1>1. Takes(o) /\ o.opt = "x"
  BY DEF TakeWay
<1>2. CASE Refuses
  BY <1>1, <1>2, Before, FailedKeeps DEF Refuses, Ends
<1>3. CASE o.text # "other" /\ Stores("way", o.text)
  <2>1. conf' = [conf EXCEPT !["way"] = o.text]
        /\ UNCHANGED <<input, output, at, status, born, now, until>>
    BY <1>3 DEF Stores
  <2>2. o.text \in Arguments.x
    BY <1>1, OptionsTyped DEF Arguments
  <2>3. TypeOK'
    BY <2>1, <2>2 DEF IInv, TypeOK
  <2>4. conf'.way = o.text /\ conf'.life = conf.life /\ conf'.ret = conf.ret
    BY <2>1 DEF IInv, TypeOK
  <2>5. WayTold'
    BY <1>1, <1>3, <2>2, <2>4, Before, TakesThis DEF WayTold, Newest
  <2>6. LifeTold' /\ ReturnTold' /\ OutputTold'
    BY <1>1, <2>1, <2>4, Before, LifeStays, ReturnStays, OutputStays
  <2> QED
    BY <1>1, <2>1, <2>3, <2>5, <2>6, AcceptedKeeps
<1> QED
  BY <1>2, <1>3 DEF TakeWay

\* open leaves a stream with a file that can be opened, or with none.
LEMMA OpenedTyped ==
  ASSUME NEW s \in [file : (Files \ Unusable) \cup {"none"}, fail : BOOLEAN],
         NEW name \in Files \cup {"-"}
  PROVE  Opened(s, name) \in [file : (Files \ Unusable) \cup {"none"}, fail : BOOLEAN]
<1>1. CASE name = "-"
  BY <1>1 DEF Opened
<1>2. CASE name # "-" /\ s.file = "none" /\ name \notin Unusable
  BY <1>2 DEF Opened
<1>3. CASE name # "-" /\ ~ (s.file = "none" /\ name \notin Unusable)
  BY <1>3 DEF Opened
<1> QED
  BY <1>1, <1>2, <1>3

\* If it has not failed it is with the file that was named.
LEMMA OpenedNamed ==
  ASSUME NEW s, NEW name, name # "-", s.fail \in BOOLEAN,
         s = [file |-> s.file, fail |-> s.fail], ~ Opened(s, name).fail
  PROVE  Opened(s, name).file = name
BY DEF Opened

\* -i and -o.
LEMMA StreamKeeps ==
  ASSUME IInv, NEW o \in Options, TakeStream(o)
  PROVE  IInv'
<1>1. Takes(o) /\ UNCHANGED <<conf, at, status, born, now, until>>
  BY DEF TakeStream
<1>2. LifeTold' /\ ReturnTold' /\ WayTold'
  BY <1>1, Before, LifeStays, ReturnStays, WayStays DEF TakeStream
<1>3. CASE o.opt = "i" /\ input' = Opened(input, o.text) /\ UNCHANGED output
  <2>1. o.text \in Files \cup {"-"}
    BY <1>3, TextsTyped
  <2>2. TypeOK'
    BY <1>1, <1>3, <2>1, OpenedTyped DEF IInv, TypeOK
  <2>3. OutputTold'
    BY <1>1, <1>3, Before, OutputStays
  <2> QED
    BY <1>1, <1>2, <2>2, <2>3, AcceptedKeeps
<1>4. CASE o.opt = "o" /\ output' = Opened(output, o.text) /\ UNCHANGED input
  <2>1. o.text \in Files \cup {"-"}
    BY <1>4, TextsTyped
  <2>2. TypeOK'
    BY <1>1, <1>4, <2>1, OpenedTyped DEF IInv, TypeOK
  <2>3. CASE o.text = "-"
    <3>1. output' = output
      BY <1>4, <2>3 DEF Opened
    <3>2. OutputTold'
      BY <1>1, <2>3, <3>1, Before, OutputStays
    <3> QED
      BY <1>1, <1>2, <2>2, <3>2, AcceptedKeeps
  <2>4. CASE o.text # "-"
    <3>1. output.fail \in BOOLEAN /\ output = [file |-> output.file, fail |-> output.fail]
      BY DEF IInv, TypeOK
    <3>2. output'.fail \/ output'.file = o.text
      BY <1>4, <2>4, <3>1, OpenedNamed
    <3>3. OutputTold'
      BY <1>1, <1>4, <2>4, <3>2, Before, TakesNamed DEF OutputTold, Newest
    <3> QED
      BY <1>1, <1>2, <2>2, <3>3, AcceptedKeeps
  <2> QED
    BY <2>3, <2>4
<1> QED
  BY <1>3, <1>4 DEF TakeStream

\* -h.
LEMMA HelpKeeps ==
  ASSUME IInv, NEW o \in Options, TakeHelp(o)
  PROVE  IInv'
BY Before, FailedKeeps DEF TakeHelp, Refuses, Ends

-----------------------------------------------------------------------------
(* The tests, and the child.                                               *)

\* Whatever makes a test fail.
LEMMA FailureKeeps ==
  ASSUME IInv, Fails \/ TracerThrows
  PROVE  IInv'
<1>1. line' \in Seq(Options)
  BY DEF IInv, Fails, TracerThrows
<1> QED
  BY <1>1, FailedKeeps DEF Fails, TracerThrows, Refuses, Ends

\* The tests set nothing of what the child is told.
LEMMA TestKeeps ==
  ASSUME IInv, Standard \/ LockTest \/ Resume \/ LibraryEnds \/ IsKilled
  PROVE  IInv'
<1>1. /\ UNCHANGED <<line, conf, input, output, born, now, until>>
      /\ at # "failed" /\ at' \in {"library", "suspended", "released", "gone"}
  BY DEF Standard, LockTest, Resume, LibraryEnds, IsKilled, Begins, Ends
<1>2. TypeOK'
  BY <1>1 DEF IInv, TypeOK, Places
<1>3. at' = "library" => ~ output.fail
  BY DEF Standard, LockTest, Resume, LibraryEnds, IsKilled, Begins, Ends, Wrapper
<1>4. Writable' /\ Timed' /\ Finished'
  BY <1>1, <1>3 DEF Writable, Timed, Finished
<1> QED
  BY <1>1, <1>2, <1>4, OthersKeep

\* The child looks at the clock.
LEMMA ChildKeeps ==
  ASSUME IInv, Child
  PROVE  IInv'
<1>1. /\ UNCHANGED <<line, conf, input, output, until>>
      /\ at = "library" /\ at' = "child" /\ now' = born' /\ born' \in Ages
  BY DEF Child
<1>2. TypeOK'
  BY <1>1, SampleAssumption DEF SampleAssumption, IInv, TypeOK, Places
<1>3. Writable' /\ Timed' /\ Finished'
  BY <1>1 DEF IInv, Writable, Timed, Finished
<1> QED
  BY <1>1, <1>2, <1>3, OthersKeep

\* Its first round sets the end of its life.
LEMMA FirstRoundKeeps ==
  ASSUME IInv, NEW d \in 0 .. 2, FirstRound(d)
  PROVE  IInv'
<1>1. /\ UNCHANGED <<line, conf, input, output, born, status>>
      /\ at = "child" /\ at' = "looping"
      /\ now' = now + d /\ now + d <= MaxNow /\ until' = Cut(Int32, now' + conf.life)
  BY DEF FirstRound, Passes, Unchanged
<1>2. now = born /\ born \in Nat /\ conf.life \in Int
  BY <1>1 DEF IInv, Timed, TypeOK
<1>3. until' \in - Word .. Word - 1
  BY <1>1, <1>2, CutFits
<1>4. now' \in 0 .. MaxNow /\ now' \in born .. born + 2
  BY <1>1, <1>2, SampleAssumption DEF SampleAssumption
<1>5. TypeOK'
  BY <1>1, <1>3, <1>4, Sizes, IntBounds DEF IInv, TypeOK, Places, In
<1>6. Writable' /\ Timed' /\ Finished'
  BY <1>1, <1>4 DEF IInv, Writable, Timed, Finished
<1> QED
  BY <1>1, <1>5, <1>6, OthersKeep

\* The rounds after that only look.
LEMMA RoundKeeps ==
  ASSUME IInv, NEW d \in 0 .. 2, Round(d)
  PROVE  IInv'
<1>1. /\ UNCHANGED <<line, conf, input, output, born, until, status>>
      /\ at = "looping" /\ at' \in {"leaving", "looping"} /\ (at' = "leaving" => now' >= until)
      /\ now' = now + d /\ now + d <= MaxNow
  BY DEF Round, Passes, Unchanged
<1>2. now' \in 0 .. MaxNow
  BY <1>1, SampleAssumption DEF SampleAssumption, IInv, TypeOK
<1>3. TypeOK'
  BY <1>1, <1>2 DEF IInv, TypeOK, Places
<1>4. Writable' /\ Timed' /\ Finished'
  BY <1>1 DEF IInv, Writable, Timed, Finished
<1> QED
  BY <1>1, <1>3, <1>4, OthersKeep

\* It dies.
LEMMA LeaveKeeps ==
  ASSUME IInv, Leave
  PROVE  IInv'
<1>1. /\ UNCHANGED <<line, conf, input, output, born, now, until>>
      /\ at = "leaving" /\ at' = "done" /\ status' = ExitWay
  BY DEF Leave, Ends
<1>2. TypeOK'
  BY <1>1 DEF IInv, TypeOK, Places
<1>3. Finished'
  BY <1>1 DEF Finished, ExitWay
<1>4. Writable' /\ Timed'
  BY <1>1 DEF IInv, Writable, Timed
<1> QED
  BY <1>1, <1>2, <1>3, <1>4, OthersKeep

-----------------------------------------------------------------------------
(* The theorems.                                                           *)

\* The invariant holds at first.
LEMMA InitKeeps == Init => IInv
<1> SUFFICES ASSUME Init PROVE IInv
  OBVIOUS
<1>1. line = << >> /\ conf = Default /\ at = "options"
  BY DEF Init
<1>2. line \in Seq(Options) /\ \A letter : Given(letter) = {}
  BY <1>1 DEF Given
<1>3. TypeOK
  <2>1. conf \in [count : Int, life : Int, detach : BOOLEAN, tracer : BOOLEAN,
                  mode : Arguments.m, pidfile : Arguments.p \cup {"libdaemond.pid"},
                  ret : Int, way : Arguments.x \cup {"std"}]
    <3>1. "1" \in Arguments.m
      BY DEF Arguments
    <3> QED
      BY <1>1, <3>1 DEF Default
  <2>2. In(Int32, conf.count) /\ In(Int32, conf.life)
    BY <1>1, Sizes, IntBounds DEF Default, In
  <2>3. {born, now} \subseteq 0 .. MaxNow /\ In(Int32, until)
    BY Sizes, IntBounds, SampleAssumption DEF SampleAssumption, Init, In
  <2>4. \A s \in {input, output} :
          s \in [file : (Files \ Unusable) \cup {"none"}, fail : BOOLEAN]
    <3>1. input = [file |-> "none", fail |-> FALSE] /\ output = input
      BY DEF Init
    <3>2. [file |-> "none", fail |-> FALSE]
            \in [file : (Files \ Unusable) \cup {"none"}, fail : BOOLEAN]
      BY Zenon
    <3> QED
      BY <3>1, <3>2
  <2> QED
    BY <1>1, <2>1, <2>2, <2>3, <2>4 DEF TypeOK, Places
<1>4. LifeTold /\ ReturnTold /\ WayTold
  BY <1>1, <1>2 DEF LifeTold, ReturnTold, WayTold, Default
<1>5. OutputTold
  BY <1>2 DEF OutputTold, Named, Init
<1> QED
  BY <1>1, <1>2, <1>3, <1>4, <1>5 DEF IInv, AsTold, Writable, Timed, Finished

\* So it is an invariant.
LEMMA IInvHolds == Spec => []IInv
<1>1. IInv /\ [Next]_vars => IInv'
  <2> SUFFICES ASSUME IInv, [Next]_vars PROVE IInv'
    OBVIOUS
  <2>1. ASSUME NEW o \in Options,
               \/ TakeCount(o) \/ TakeLife(o) \/ TakeReturn(o) \/ TakeFlag(o)
               \/ TakeName(o) \/ TakeWay(o) \/ TakeStream(o) \/ TakeHelp(o)
        PROVE  IInv'
    BY <2>1, CountKeeps, LifeKeeps, ReturnKeeps, FlagKeeps, NameKeeps, WayKeeps,
       StreamKeeps, HelpKeeps
  <2>2. CASE ModeUnknown \/ StandardFails \/ LockFails \/ TracerThrows
    BY <2>2, FailureKeeps DEF ModeUnknown, StandardFails, LockFails
  <2>3. CASE Standard \/ LockTest \/ Resume \/ LibraryEnds \/ IsKilled
    BY <2>3, TestKeeps
  <2>4. CASE Child
    BY <2>4, ChildKeeps
  <2>5. ASSUME NEW d \in 0 .. 2, FirstRound(d) \/ Round(d) PROVE IInv'
    BY <2>5, FirstRoundKeeps, RoundKeeps
  <2>6. CASE Leave
    BY <2>6, LeaveKeeps
  <2>7. CASE UNCHANGED vars
    <3>1. UNCHANGED <<line, conf, input, output, at, born, now, until, status>>
      BY <2>7 DEF vars
    <3>2. TypeOK' /\ line' \in Seq(Options) /\ Writable' /\ Timed' /\ Finished'
      BY <3>1 DEF IInv, TypeOK, Writable, Timed, Finished, ExitWay
    <3>3. AsTold'
      BY <3>1, AllStay DEF IInv, AsTold
    <3> QED
      BY <3>2, <3>3 DEF IInv
  <2> QED
    BY <2>1, <2>2, <2>3, <2>4, <2>5, <2>6, <2>7 DEF Next
<1> QED
  BY <1>1, InitKeeps, PTL DEF Spec

\* TypeOK: the numbers fit the int they are kept in, for any numbers on the command line,
\* and no stream is with a file that could not be opened (main, IOWrapper).
THEOREM TypeCorrect == Spec => []TypeOK
<1>1. IInv => TypeOK
  BY DEF IInv
<1> QED
  BY <1>1, IInvHolds, PTL

\* OutputIsLast: whatever options are given in whatever order, a test that runs writes to
\* the file that was named last (IOWrapper::set_output, operator ostream &).
THEOREM OutputNamedLast == Spec => []OutputIsLast
<1>1. IInv => OutputIsLast
  BY DEF IInv, AsTold, OutputTold, Writable, OutputIsLast, Named
<1> QED
  BY <1>1, IInvHolds, PTL

\* There is at most one last option.
LEMMA NewestIsOne ==
  ASSUME NEW letter, NEW j \in Newest(Given(letter)), NEW k \in Newest(Given(letter))
  PROVE  j = k
<1>1. j \in Int /\ k \in Int /\ j <= k /\ k <= j
  BY DEF Newest, Given
<1> QED
  BY <1>1

\* A return value that is not 0 is not lost in the byte of the exit code.
LEMMA ByteSuffices ==
  ASSUME NEW n \in Small
  PROVE  Exited(n).code # 0 <=> n # 0
<1>1. n \in Int /\ - Byte <= n /\ n < Byte /\ Byte \in Nat /\ 0 < Byte
  BY Sizes DEF Small
<1>2. n % (2 * Byte) = 0 <=> n = 0
  <2> DEFINE b == 2 * Byte
  <2>1. b \in Int /\ 0 < b /\ - b < n /\ n < b
    BY <1>1
  <2> HIDE DEF b
  <2>2. n % b = 0 <=> n = 0
    BY <1>1, <2>1
  <2> QED
    BY <2>2 DEF b
<1> QED
  BY <1>2 DEF Exited

\* DiesAsTold: the master finds that a child died exactly if -x asks for it, on command
\* lines with a -x, or without a -r too (test_standard, main, daemond_reaper).
THEOREM ChildDiesAsTold == Spec => []DiesAsTold
<1>1. IInv => DiesAsTold
  <2> SUFFICES ASSUME IInv, at = "done"
               PROVE  Died <=> \E k \in Newest(Given("x")) :
                                 \/ line[k].text # "exit"
                                 \/ \E n \in Newest(Given("r")) : line[n].number.num # 0
    <3>1. Died \in BOOLEAN
      BY DEF Died
    <3> QED
      BY <3>1 DEF DiesAsTold
  <2>1. status = ExitWay /\ WayTold /\ ReturnTold
    BY DEF IInv, AsTold, Finished
  <2>2. conf.ret \in Small
    BY <2>1, Sizes DEF ReturnTold, Small
  <2>3. conf.ret # 0 <=> \E n \in Newest(Given("r")) : line[n].number.num # 0
    <3>1. CASE Given("r") = {}
      BY <2>1, <3>1 DEF ReturnTold, Newest
    <3>2. CASE Given("r") # {}
      BY <2>1, <3>2, NewestIsOne DEF ReturnTold
    <3> QED
      BY <3>1, <3>2
  <2>4. CASE Given("x") = {}
    <3>1. conf.way = "std"
      BY <2>1, <2>4 DEF WayTold
    <3>2. status = Exited(0)
      BY <2>1, <3>1 DEF ExitWay
    <3>3. ~ Died
      BY <3>2, ByteSuffices, Sizes DEF Died, Exited, Small
    <3> QED
      BY <2>4, <3>3 DEF Newest
  <2>5. CASE Given("x") # {}
    <3>1. PICK k \in Newest(Given("x")) :
            line[k].text \in Arguments.x \ {"other"} /\ conf.way = line[k].text
      BY <2>1, <2>5 DEF WayTold
    <3>2. \A j \in Newest(Given("x")) : j = k
      BY NewestIsOne
    <3>3. conf.way \in {"abort", "except", "exit", "sf"}
      BY <3>1 DEF Arguments
    <3>4. CASE conf.way = "exit"
      <4>1. status = Exited(conf.ret)
        BY <2>1, <3>4 DEF ExitWay
      <4>2. Died <=> conf.ret # 0
        BY <2>2, <4>1, ByteSuffices DEF Died, Exited
      <4> QED
        BY <2>3, <3>1, <3>2, <3>4, <4>2
    <3>5. CASE conf.way # "exit"
      <4>1. status.how = "signal" /\ status.signal \in {"ABRT", "SEGV"}
        BY <2>1, <3>3, <3>5 DEF ExitWay, Killed
      <4>2. Died
        BY <4>1 DEF Died
      <4> QED
        BY <3>1, <3>5, <4>2
    <3> QED
      BY <3>4, <3>5
  <2> QED
    BY <2>4, <2>5
<1> QED
  BY <1>1, IInvHolds, PTL

\* Without a wrap the child has lived for as long as the variable says.
LEMMA LivedLong ==
  ASSUME IInv, at \in {"leaving", "done"}, 0 <= conf.life,
         born + conf.life + 2 <= Int32.max
  PROVE  now - born >= conf.life
<1>1. PICK t \in born .. born + 2 : until = Cut(Int32, t + conf.life)
  BY DEF IInv, Timed
<1>2. born \in Nat /\ now \in Nat /\ conf.life \in Int /\ now >= until
  BY DEF IInv, TypeOK, Timed
<1>3. t + conf.life \in - Word .. Word - 1
  BY <1>2, Sizes, IntBounds
<1>4. until = t + conf.life
  BY <1>1, <1>3, IntKeeps
<1> QED
  BY <1>1, <1>2, <1>4

\* LivesLongEnough: a child lives for the seconds of -L, for any clock at its birth, unless
\* they or their end do not fit an int (test_standard).
THEOREM ChildLivesLongEnough == Spec => []LivesLongEnough
<1>1. IInv => LivesLongEnough
  <2> SUFFICES ASSUME IInv, at \in {"leaving", "done"}
               PROVE  \E life \in IF Given("L") = {} THEN {Default.life}
                                   ELSE {line[k].number.num : k \in Newest(Given("L"))} :
                        born + life + 2 <= Int32.max => now - born >= life
    BY DEF LivesLongEnough
  <2>1. LifeTold /\ born \in Nat
    BY DEF IInv, AsTold, TypeOK
  <2>2. CASE Given("L") = {}
    <3>1. conf.life = Default.life /\ Default.life = 5
      BY <2>1, <2>2 DEF LifeTold, Default
    <3> QED
      BY <2>2, <3>1, LivedLong
  <2>3. CASE Given("L") # {}
    <3>1. PICK k \in Newest(Given("L")) :
            line[k].number.num \in Whole /\ conf.life = Cut(Int32, line[k].number.num)
      BY <2>1, <2>3 DEF LifeTold
    <3> DEFINE life == line[k].number.num
    <3>2. ASSUME born + life + 2 <= Int32.max PROVE now - born >= life
      <4>1. life \in Nat /\ life <= Word - 1
        BY <2>1, <3>1, <3>2, Sizes, IntBounds DEF Whole
      <4>2. conf.life = life
        BY <3>1, <4>1, Sizes, IntKeeps
      <4> QED
        BY <3>2, <4>1, <4>2, LivedLong
    <3> QED
      BY <2>3, <3>2
  <2> QED
    BY <2>2, <2>3
<1> QED
  BY <1>1, IInvHolds, PTL
=============================================================================
