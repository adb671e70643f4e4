---------------------------- MODULE LogStdProofs ----------------------------
(* What holds of LogStd for every buffer, every pipe and every way to write. *)
EXTENDS LogStd, WellFoundedInduction, TLAPS

\* The bytes of two buffers, one behind the other.
LEMMA Joined ==
  ASSUME NEW s \in Seq(Bytes), NEW t \in Seq(Bytes)
  PROVE  s \o t \in Seq(Bytes) /\ Len(s \o t) = Len(s) + Len(t)
  OBVIOUS

\* The first k bytes, and the others.
LEMMA Cut ==
  ASSUME NEW s \in Seq(Bytes), NEW k \in 0 .. Len(s)
  PROVE  /\ SubSeq(s, 1, k) \in Seq(Bytes)
         /\ Len(SubSeq(s, 1, k)) = k
         /\ SubSeq(s, k + 1, Len(s)) \in Seq(Bytes)
         /\ Len(SubSeq(s, k + 1, Len(s))) = Len(s) - k
  <1>1. Len(s) \in Nat /\ k \in Nat /\ k <= Len(s)
    OBVIOUS
  <1>2. \A i \in 1 .. Len(s) : s[i] \in Bytes
    OBVIOUS
  <1>3. SubSeq(s, 1, k) \in Seq(Bytes) /\ Len(SubSeq(s, 1, k)) = k
    BY <1>1, <1>2
  <1> QED
    BY <1>1, <1>2, <1>3

\* A longer buffer has room for what a shorter one has.
LEMMA Doubled ==
  ASSUME NEW a \in Nat, NEW b \in Nat, NEW n \in Nat, a <= b, 2 * a > n
  PROVE  2 * b > n
  OBVIOUS

\* History remembers the present.
Remembers == 2 * Unread > BufEnd => crowded

\* What the run checks, and what it takes to keep it.
IInv == TypeOK /\ Steady /\ Remembers

\* The invariant holds at first.
LEMMA InitOK == Init => IInv
  <1> SUFFICES ASSUME Init PROVE IInv
    OBVIOUS
  <1>1. <<>> \in Seq(Bytes) /\ Len(<<>>) = 0
    OBVIOUS
  <1>2. own \in Seq(Bytes) /\ Len(own) <= OwnSize
    <2>1. CASE own = <<>>
      BY <1>1, <2>1, LogStdAssumption
    <2>2. CASE own \in Chunks /\ Len(own) <= OwnSize
      BY <2>2, LogStdAssumption
    <2> QED
      BY <2>1, <2>2 DEF Init
  <1>3. Len(buf) = 0 /\ Len(pipe) = 0 /\ buf \in Seq(Bytes) /\ pipe \in Seq(Bytes)
    BY <1>1 DEF Init
  <1>4. at \in Places /\ stray = {} /\ crowded = FALSE /\ at # "wild"
    BY DEF Init, Places
  <1>5. TypeOK
    <2>1. Len(buf) <= BufEnd /\ Len(pipe) <= PipeSize
      BY <1>3, LogStdAssumption
    <2>2. stray \subseteq 0 .. BufEnd /\ crowded \in BOOLEAN
      BY <1>4
    <2> QED
      BY <1>2, <1>3, <1>4, <2>1, <2>2 DEF TypeOK
  <1>6. Steady
    BY <1>4 DEF Steady
  <1>7. Remembers
    BY <1>3, LogStdAssumption DEF Remembers, Unread
  <1> QED
    BY <1>5, <1>6, <1>7 DEF IInv

\* Writers and the beginning of a call keep it.
LEMMA WritersKeep == IInv /\ (Intercept \/ Writers \/ Call) => IInv'
  <1> SUFFICES ASSUME IInv, Intercept \/ Writers \/ Call PROVE IInv'
    OBVIOUS
  <1>1. CASE Intercept \/ Call
    <2>1. TypeOK'
      BY <1>1 DEF Intercept, Call, IInv, TypeOK, Places, InCall
    <2>2. Steady'
      BY <1>1 DEF Intercept, Call, IInv, Steady
    <2>3. Remembers'
      BY <1>1 DEF Intercept, Call, IInv, Remembers, Unread
    <2> QED
      BY <2>1, <2>2, <2>3 DEF IInv
  <1>2. ASSUME NEW c \in Chunks, ChildWrites(c) PROVE IInv'
    <2>1. TypeOK'
      <3>1. /\ pipe' \in Seq(Bytes)
            /\ Len(pipe') = Len(pipe) + Len(c) /\ Len(pipe') <= PipeSize
        BY <1>2, Joined, LogStdAssumption DEF ChildWrites, IInv, TypeOK
      <3> QED
        BY <1>2, <3>1 DEF ChildWrites, Watch, IInv, TypeOK
    <2>2. Steady'
      BY <1>2 DEF ChildWrites, Watch, IInv, Steady
    <2>3. Remembers'
      BY <1>2 DEF ChildWrites, Watch, Remembers
    <2> QED
      BY <2>1, <2>2, <2>3 DEF IInv
  <1>3. ASSUME NEW c \in Chunks, Prints(c) PROVE IInv'
    <2>1. TypeOK'
      <3>1. own' \in Seq(Bytes) /\ Len(own') <= OwnSize
        BY <1>3, Joined, LogStdAssumption DEF Prints, IInv, TypeOK
      <3> QED
        BY <1>3, <3>1 DEF Prints, IInv, TypeOK
    <2>2. Steady'
      BY <1>3 DEF Prints, IInv, Steady
    <2>3. Remembers'
      BY <1>3 DEF Prints, IInv, Remembers, Unread
    <2> QED
      BY <2>1, <2>2, <2>3 DEF IInv
  <1> QED
    BY <1>1, <1>2, <1>3 DEF Writers

\* So does the end of a call.
LEMMA ReturnKeeps == IInv /\ Returned => IInv'
  <1> SUFFICES ASSUME IInv, Returned PROVE IInv'
    OBVIOUS
  <1>1. buf' \in Seq(Bytes) /\ Len(buf') = 0
    BY DEF Returned
  <1>2. at' = "out" /\ stray' = {} /\ UNCHANGED <<pipe, own, crowded>>
    BY DEF Returned
  <1>3. TypeOK'
    BY <1>1, <1>2, LogStdAssumption DEF IInv, TypeOK, Places
  <1>4. Steady'
    BY <1>2 DEF Steady
  <1>5. Remembers'
    <2>1. Len(buf) \in Nat /\ Len(pipe) \in Nat /\ BufEnd \in Nat
      BY LogStdAssumption DEF IInv, TypeOK
    <2>2. Unread' <= Unread /\ Unread' \in Nat /\ Unread \in Nat
      BY <1>1, <1>2, <2>1 DEF Unread
    <2>3. 2 * Unread' > BufEnd => 2 * Unread > BufEnd
      BY <2>1, <2>2, Doubled
    <2> QED
      BY <1>2, <2>3 DEF IInv, Remembers
  <1> QED
    BY <1>3, <1>4, <1>5 DEF IInv

\* Reading the pipe fills no more than the buffer.
LEMMA FlushKeeps == IInv /\ Flush => IInv'
  <1> SUFFICES ASSUME IInv, Flush PROVE IInv'
    OBVIOUS
  <1>1. TypeOK'
    <2>1. pipe' \in Seq(Bytes) /\ Len(pipe') <= PipeSize
      BY Joined DEF Flush, IInv, TypeOK
    <2>2. own' \in Seq(Bytes) /\ Len(own') = 0
      BY DEF Flush
    <2>3. at' = "read" /\ UNCHANGED <<buf, stray>> /\ crowded' \in BOOLEAN
      BY DEF Flush, Watch, IInv, TypeOK
    <2> QED
      BY <2>1, <2>2, <2>3, LogStdAssumption DEF IInv, TypeOK, Places, InCall
  <1>2. Steady'
    BY DEF Flush, Watch, IInv, Steady
  <1>3. Remembers'
    BY DEF Flush, Watch, Remembers
  <1> QED
    BY <1>1, <1>2, <1>3 DEF IInv

\* read is never asked for more than fits, and moves bytes without adding any.
LEMMA ReadKeeps == IInv /\ Read => IInv'
  <1> SUFFICES ASSUME IInv, Read PROVE IInv'
    OBVIOUS
  <1> DEFINE got == Least(Len(pipe), BufEnd - Len(buf))
  <1>1. Take(got)
    BY DEF Read
  <1>2. got \in 1 .. Len(pipe) /\ got <= BufEnd - Len(buf)
    BY <1>1, LogStdAssumption DEF Take, Least, IInv, TypeOK
  <1> HIDE DEF got
  <1>3. /\ SubSeq(pipe, 1, got) \in Seq(Bytes) /\ Len(SubSeq(pipe, 1, got)) = got
        /\ pipe' \in Seq(Bytes) /\ Len(pipe') = Len(pipe) - got
    BY <1>1, <1>2, Cut DEF Take, IInv, TypeOK
  <1>4. buf' \in Seq(Bytes) /\ Len(buf') = Len(buf) + got
    BY <1>1, <1>3, Joined DEF Take, IInv, TypeOK
  <1>5. stray' \subseteq stray /\ at' = "scan" /\ UNCHANGED <<own, crowded>>
    BY <1>1 DEF Take
  <1>6. Len(buf) \in Nat /\ Len(pipe) \in Nat /\ BufEnd \in Nat
    BY LogStdAssumption DEF IInv, TypeOK
  <1>7. TypeOK'
    <2>1. Len(pipe') <= PipeSize /\ Len(buf') <= BufEnd
      BY <1>2, <1>3, <1>4, <1>6, LogStdAssumption DEF IInv, TypeOK
    <2> QED
      BY <1>3, <1>4, <1>5, <2>1 DEF IInv, TypeOK, Places, InCall
  <1>8. Steady'
    BY <1>5 DEF IInv, Steady
  <1>9. Remembers'
    <2>1. Unread' = Unread
      BY <1>2, <1>3, <1>4, <1>6 DEF Unread
    <2> QED
      BY <1>5, <2>1 DEF IInv, Remembers
  <1> QED
    BY <1>7, <1>8, <1>9 DEF IInv

\* A byte at i comes from i + cut; with no more than half a buffer before p, neither
\* i nor cut is more than a half.
LEMMA DeliverKeeps == IInv /\ Deliver => IInv'
  <1> SUFFICES ASSUME IInv, NEW cut \in NewlineAt(buf), Line(cut, Len(buf) + 1),
                      at' = IF cut = Len(buf) THEN "read" ELSE "scan"
               PROVE  IInv'
    BY DEF Deliver
  <1>1. cut \in 1 .. Len(buf)
    BY DEF NewlineAt
  <1>2. buf' \in Seq(Bytes) /\ Len(buf') = Len(buf) - cut
    BY <1>1, Cut DEF Line, IInv, TypeOK
  <1>3. UNCHANGED <<pipe, own, crowded>> /\ at' \in {"read", "scan"}
    BY DEF Line
  <1>4. Len(buf) \in Nat /\ Len(pipe) \in Nat /\ BufEnd \in Nat
    BY LogStdAssumption DEF IInv, TypeOK
  <1>5. TypeOK'
    <2>1. ASSUME NEW i \in stray' PROVE i \in 0 .. BufEnd
      <3>1. i \in 0 .. Len(buf) + 1 - 1 \/ i \in stray
        BY <2>1 DEF Line, Moved
      <3>2. Len(buf) <= BufEnd /\ stray \subseteq 0 .. BufEnd
        BY DEF IInv, TypeOK
      <3>3. CASE i \in stray
        BY <3>2, <3>3
      <3>4. CASE i \in 0 .. Len(buf) + 1 - 1
        BY <1>4, <3>2, <3>4
      <3> QED
        BY <3>1, <3>3, <3>4
    <2>2. Len(buf') <= BufEnd
      BY <1>1, <1>2, <1>4 DEF IInv, TypeOK
    <2> QED
      BY <1>2, <1>3, <2>1, <2>2 DEF IInv, TypeOK, Places, InCall
  <1>6. ASSUME NEW i \in stray' PROVE crowded
    <2>1. CASE stray # {}
      BY <2>1 DEF IInv, Steady
    <2>2. CASE stray = {}
      <3>1. i \in 0 .. Len(buf) + 1 - 1 /\ i + cut > BufEnd
        BY <2>2, <1>6 DEF Line, Moved
      <3>2. 2 * Unread > BufEnd
        BY <1>1, <1>4, <3>1 DEF Unread
      <3> QED
        BY <3>2 DEF IInv, Remembers
    <2> QED
      BY <2>1, <2>2
  <1>7. Steady'
    BY <1>3, <1>6 DEF Steady
  <1>8. Remembers'
    <2>1. Unread' <= Unread /\ Unread' \in Nat /\ Unread \in Nat
      BY <1>1, <1>2, <1>3, <1>4 DEF Unread
    <2>2. 2 * Unread' > BufEnd => 2 * Unread > BufEnd
      BY <1>4, <2>1, Doubled
    <2> QED
      BY <1>3, <2>2 DEF IInv, Remembers
  <1> QED
    BY <1>5, <1>7, <1>8 DEF IInv

\* So do the steps that look for lines.
LEMMA ScanKeeps == IInv /\ (Left \/ Astray) => IInv'
  <1> SUFFICES ASSUME IInv, Left \/ Astray PROVE IInv'
    OBVIOUS
  <1>1. TypeOK'
    BY DEF Left, Astray, IInv, TypeOK, Places, InCall
  <1>2. Steady'
    BY DEF Left, Astray, IInv, Steady
  <1>3. Remembers'
    BY DEF Left, Astray, IInv, Remembers, Unread
  <1> QED
    BY <1>1, <1>2, <1>3 DEF IInv

\* All steps keep it.
LEMMA StepOK == IInv /\ [Next]_vars => IInv'
  <1> SUFFICES ASSUME IInv, [Next]_vars PROVE IInv'
    OBVIOUS
  <1>1. CASE Intercept \/ Writers \/ Call
    BY <1>1, WritersKeep
  <1>2. CASE NoMoreBytes \/ NoMoreData
    BY <1>2, ReturnKeeps DEF NoMoreBytes, NoMoreData
  <1>3. CASE Flush
    BY <1>3, FlushKeeps
  <1>4. CASE Read
    BY <1>4, ReadKeeps
  <1>5. CASE Deliver
    BY <1>5, DeliverKeeps
  <1>6. CASE Left \/ Astray
    BY <1>6, ScanKeeps
  <1>7. CASE UNCHANGED vars
    BY <1>7 DEF vars, IInv, TypeOK, Steady, Remembers, Unread
  <1> QED
    BY <1>1, <1>2, <1>3, <1>4, <1>5, <1>6, <1>7 DEF Next, Reader

\* p never passes the last byte of the buffer, whatever is written and when.
THEOREM TypeCorrect == Spec => []TypeOK
  <1>1. IInv => TypeOK
    BY DEF IInv
  <1> QED
    BY <1>1, InitOK, StepOK, PTL DEF Spec

\* With no more than half a buffer unread at any time, nothing is copied from beyond
\* the buffer and p is never set before it.
THEOREM SteadyHolds == Spec => []Steady
  <1>1. IInv => Steady
    BY DEF IInv
  <1> QED
    BY <1>1, InitOK, StepOK, PTL DEF Spec

\* strchr sees the first newline unless a '\0' is before it.
LEMMA FirstNewline ==
  ASSUME NEW s \in Seq(Bytes), NewlineAt(s) = {},
         NEW k \in 1 .. Len(s), s[k] = "nl"
  PROVE  \E j \in 1 .. Len(s) : s[j] = "nul"
  <1> DEFINE T == {i \in 1 .. Len(s) : s[i] = "nl"}
  <1>1. T \subseteq Nat /\ k \in T
    OBVIOUS
  <1> HIDE DEF T
  <1>2. PICK m \in T : \A i \in T : ~ (<<i, m>> \in OpToRel(<, Nat))
    BY <1>1, NatLessThanWellFounded, WFMin, Zenon
  <1>3. \A i \in T : ~ (i < m)
    BY <1>1, <1>2, Zenon DEF OpToRel
  <1> USE DEF T
  <1>4. PICK j \in 1 .. m - 1 : s[j] # "x"
    BY DEF NewlineAt
  <1>5. j \in 1 .. Len(s) /\ j < m /\ s[j] \in Bytes
    OBVIOUS
  <1>6. s[j] # "nl"
    BY <1>3, <1>5
  <1> QED
    BY <1>4, <1>5, <1>6 DEF Bytes

\* What has been looked through has no line left that strchr sees.
Scanned == at # "scan" => NewlineAt(buf) = {}

\* Nothing is found in an empty buffer.
LEMMA NoneInEmpty ==
  ASSUME NEW s, Len(s) = 0
  PROVE  NewlineAt(s) = {}
  BY DEF NewlineAt

\* What has been looked through holds no newline, and stays so.
LEMMA ScannedKept == IInv /\ Scanned /\ [Next]_vars => Scanned'
  <1> SUFFICES ASSUME IInv, Scanned, [Next]_vars PROVE Scanned'
    OBVIOUS
  <1>1. CASE Intercept \/ Writers \/ Call \/ Flush \/ Left \/ UNCHANGED vars
    BY <1>1
    DEF Intercept, Writers, ChildWrites, Prints, Call, Flush, Left, vars, Scanned
  <1>2. CASE NoMoreBytes \/ NoMoreData
    <2>1. Len(buf') = 0
      BY <1>2 DEF NoMoreBytes, NoMoreData, Returned
    <2> QED
      BY <2>1, NoneInEmpty DEF Scanned
  <1>3. CASE Read
    BY <1>3 DEF Read, Take, Scanned
  <1>4. CASE Deliver
    <2>1. PICK cut \in NewlineAt(buf) : /\ Line(cut, Len(buf) + 1)
                                        /\ at' = IF cut = Len(buf) THEN "read" ELSE "scan"
      BY <1>4 DEF Deliver
    <2>2. cut \in 0 .. Len(buf)
      BY DEF NewlineAt
    <2>3. Len(buf') = Len(buf) - cut /\ Len(buf) \in Nat
      BY <2>1, <2>2, Cut DEF Line, IInv, TypeOK
    <2>4. CASE cut = Len(buf)
      <3>1. Len(buf') = 0
        BY <2>3, <2>4
      <3> QED
        BY <3>1, NoneInEmpty DEF Scanned
    <2>5. CASE cut # Len(buf)
      BY <2>1, <2>5 DEF Scanned
    <2> QED
      BY <2>4, <2>5
  <1>5. CASE Astray
    BY <1>5 DEF Astray, Scanned, NewlineAt
  <1> QED
    BY <1>1, <1>2, <1>3, <1>4, <1>5 DEF Next, Reader

\* A call that returns has found every whole line, but for what a '\0' hides and for a
\* line that fills the buffer: of any length, and however reads cut it into pieces.
THEOREM LinesStay == Spec => LinesKept
  <1>1. Init => Scanned
    BY NoneInEmpty DEF Init, Scanned
  <1>2. IInv /\ Scanned /\ [Next]_vars =>
          [at = "read" /\ at' = "out" =>
             \/ \A k \in 1 .. Len(buf \o pipe) : (buf \o pipe)[k] # "nl"
             \/ \E k \in 1 .. Len(buf) : buf[k] = "nul"
             \/ Len(buf) = BufEnd]_vars
    <2> SUFFICES ASSUME IInv, Scanned, Next, at = "read", at' = "out",
                        Len(buf) # BufEnd,
                        NEW k \in 1 .. Len(buf \o pipe), (buf \o pipe)[k] = "nl"
                 PROVE  \E j \in 1 .. Len(buf) : buf[j] = "nul"
      OBVIOUS
    <2>1. NoMoreData
      BY DEF Next, Intercept, Writers, ChildWrites, Prints, Call, Reader, Flush,
             NoMoreBytes, Read, Take, Deliver, Line, Left, Astray
    <2>2. buf \o pipe = buf /\ buf \in Seq(Bytes)
      BY <2>1 DEF NoMoreData, IInv, TypeOK
    <2> QED
      BY <2>2, FirstNewline DEF Scanned
  <1> QED
    BY <1>1, <1>2, ScannedKept, InitOK, StepOK, PTL DEF Spec, LinesKept

-----------------------------------------------------------------------------
(* A call is bounded, but for the lines it delivers.  That is what         *)
(* Advances needs besides fairness.                                        *)

\* An upper bound of the steps that a call has still to take without a line.
Rest ==
  CASE at = "flush" -> 2 * BufEnd + 2
    [] at = "read" -> 2 * (BufEnd - Len(buf)) + 1
    [] at = "scan" -> 2 * (BufEnd - Len(buf)) + 2
    [] OTHER -> 0

\* There is never more to do than at the beginning of a call, and nothing outside of one.
RestBounded == Rest \in 0 .. 2 * BufEnd + 2 /\ (Rest = 0 <=> at \notin InCall)

\* What the writers do leaves a call as it is; its own steps leave it less to do, unless
\* they deliver a line.
CallProgress ==
  at \in InCall => Rest' < Rest \/ Deliver \/ UNCHANGED <<at, buf>>

\* The buffer has at most BufEnd bytes, so that there is room for the rest.
LEMMA RestOK == IInv => RestBounded
  <1> SUFFICES ASSUME IInv PROVE RestBounded
    OBVIOUS
  <1>1. Len(buf) \in Nat /\ Len(buf) <= BufEnd /\ BufEnd \in Nat \ {0} /\ at \in Places
    BY LogStdAssumption DEF IInv, TypeOK
  <1> QED
    BY <1>1 DEF RestBounded, Rest, InCall, Places

\* Each read makes the buffer longer.
LEMMA ReadProgresses == IInv /\ IInv' /\ Read => Rest' < Rest
  <1> SUFFICES ASSUME IInv, IInv', Read PROVE Rest' < Rest
    OBVIOUS
  <1>1. at = "read" /\ at' = "scan" /\ buf \in Seq(Bytes) /\ BufEnd \in Nat
    BY LogStdAssumption DEF Read, Take, IInv, TypeOK
  <1>2. PICK k \in 1 .. Len(pipe) : buf' = buf \o SubSeq(pipe, 1, k)
    <2> DEFINE got == Least(Len(pipe), BufEnd - Len(buf))
    <2>1. got > 0 /\ buf' = buf \o SubSeq(pipe, 1, got)
      BY DEF Read, Take
    <2>2. Len(pipe) \in Nat /\ Len(buf) \in Nat
      BY DEF IInv, TypeOK
    <2>3. got \in 1 .. Len(pipe)
      BY <1>1, <2>1, <2>2 DEF Least
    <2> QED
      BY <2>1, <2>3
  <1>3. SubSeq(pipe, 1, k) \in Seq(Bytes) /\ Len(SubSeq(pipe, 1, k)) = k
    <2>1. pipe \in Seq(Bytes) /\ k \in 0 .. Len(pipe)
      BY DEF IInv, TypeOK
    <2> QED
      BY <2>1, Cut
  <1>4. Len(buf') = Len(buf) + k /\ Len(buf) \in Nat
    BY <1>1, <1>2, <1>3, Joined
  <1> QED
    BY <1>1, <1>4 DEF Rest

\* daemond_log_std_read returns after at most twice as many steps as the buffer has
\* bytes, and two, if it neither delivers a line nor waits for its own pipe, however
\* much its children write meanwhile.
THEOREM CallBounded == Spec => []RestBounded /\ [][CallProgress]_vars
  <1>1. IInv /\ IInv' /\ [Next]_vars => [CallProgress]_vars
    <2> SUFFICES ASSUME IInv, IInv', Next, at \in InCall
                 PROVE  Rest' < Rest \/ Deliver \/ UNCHANGED <<at, buf>>
      BY DEF CallProgress
    <2>1. Len(buf) \in Nat /\ Len(buf) <= BufEnd /\ BufEnd \in Nat
      BY LogStdAssumption DEF IInv, TypeOK
    <2>2. CASE Intercept \/ Writers \/ Call
      BY <2>2 DEF Intercept, Writers, ChildWrites, Prints, Call, InCall
    <2>3. CASE Flush
      BY <2>1, <2>3 DEF Flush, Rest
    <2>4. CASE NoMoreBytes \/ NoMoreData
      <3>1. at = "read" /\ at' = "out"
        BY <2>4 DEF NoMoreBytes, NoMoreData, Returned
      <3>2. Rest' = 0 /\ Rest = 2 * (BufEnd - Len(buf)) + 1
        BY <3>1 DEF Rest
      <3> QED
        BY <2>1, <3>2
    <2>5. CASE Read
      BY <2>5, ReadProgresses
    <2>6. CASE Left \/ Astray
      BY <2>1, <2>6 DEF Left, Astray, Rest
    <2> QED
      BY <2>2, <2>3, <2>4, <2>5, <2>6 DEF Next, Reader
  <1> QED
    BY <1>1, RestOK, InitOK, StepOK, PTL DEF Spec
=============================================================================
