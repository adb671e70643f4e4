---------------------------- MODULE SpeechProofs ----------------------------
(* What holds of Speech for every text and every size of the buffers.      *)
EXTENDS Speech, WellFoundedInduction, TLAPS

\* The characters of a piece, and the escape of a color.
Cells == Chars \cup {"esc"}

\* Two sequences joined.
LEMMA Joined ==
  ASSUME NEW S, NEW s \in Seq(S), NEW t \in Seq(S)
  PROVE  s \o t \in Seq(S) /\ Len(s \o t) = Len(s) + Len(t)
  OBVIOUS

\* A part of a sequence.
LEMMA Part ==
  ASSUME NEW S, NEW s \in Seq(S), NEW a \in 1 .. Len(s) + 1, NEW b \in a - 1 .. Len(s)
  PROVE  SubSeq(s, a, b) \in Seq(S) /\ Len(SubSeq(s, a, b)) = b - a + 1
  <1>1. Len(s) \in Nat /\ a \in Int /\ b \in Int
    OBVIOUS
  <1>2. \A i \in a .. b : i \in 1 .. Len(s) /\ s[i] \in S
    BY <1>1
  <1> QED
    BY <1>1, <1>2

\* A text is a sequence of what a buffer can hold.
LEMMA Wider == ASSUME NEW s \in Seq(Chars) PROVE s \in Seq(Cells)
  BY DEF Cells

\* The head.
LEMMA NameOK == Name \in Seq(Chars) /\ Len(Name) = 8
  BY DEF Name, Chars, Tags, Short

\* Both tails.
LEMMA ResetOK ==
  /\ Reset \in Seq(Chars) /\ Len(Reset) = 3
  /\ Reset \o <<"nl">> \in Seq(Chars) /\ Len(Reset \o <<"nl">>) = 4
  BY DEF Reset, Chars, Tags, Short

\* A terminal code is of five bytes at most.
LEMMA CodeOK == ASSUME NEW t PROVE Code(t) \in Seq(Cells) /\ Len(Code(t)) \in {4, 5}
  BY DEF Code, Cells

\* What has been composed is no longer than five thirds of what has been read.
Grown == tracer = "color" => 3 * Len(buf) <= 5 * (p - 1)

\* The inductive invariant of the lengths.
IInv == TypeOK /\ SafeLength /\ Grown

\* Only a text can be long.
LEMMA FormatOK ==
  ASSUME TypeOK
  PROVE  /\ Format \in Seq(Chars) /\ Format \in Seq(Cells) /\ Len(Format) \in Nat
         /\ piece # "text" => Len(Format) <= 8
         /\ piece = "text" => Format = text
  <1>1. CASE piece = "head"
    <2>1. Format = Name
      BY <1>1 DEF Format
    <2>2. Name \in Seq(Cells)
      BY NameOK, Wider
    <2> QED
      BY <1>1, <2>1, <2>2, NameOK
  <1>2. CASE piece = "text"
    BY <1>2, Wider DEF Format, TypeOK
  <1>3. CASE piece = "tail"
    <2>1. Format \in {Reset, Reset \o <<"nl">>}
      BY <1>3 DEF Format
    <2>2. Reset \in Seq(Cells) /\ Reset \o <<"nl">> \in Seq(Cells)
      BY ResetOK, Wider
    <2>3. CASE Format = Reset
      BY <1>3, <2>2, <2>3, ResetOK
    <2>4. CASE Format = Reset \o <<"nl">>
      BY <1>3, <2>2, <2>4, ResetOK
    <2> QED
      BY <2>1, <2>3, <2>4
  <1> QED
    BY <1>1, <1>2, <1>3 DEF TypeOK

\* The first invariant holds at the start.
LEMMA InitOK == Init => IInv
  <1> SUFFICES ASSUME Init PROVE IInv
    OBVIOUS
  <1>1. text \in Seq(Chars) /\ piece \in {"head", "text"} /\ p = 1
    BY SpeechAssumption DEF Init
  <1>2. buf \in Seq(Cells) /\ Len(buf) = 0 /\ shown \in Seq(Cells)
    BY DEF Init
  <1>3. newline \in BOOLEAN
    BY DEF Init, NewlineOf
  <1>4. Len(Format) \in Nat
    BY <1>1, NameOK DEF Format
  <1>5. BufSize \in Nat /\ BufSize > 0
    BY SpeechAssumption, NameOK
  <1>6. p \in 1 .. Len(Format) + 1 /\ Len(buf) < BufSize
    BY <1>1, <1>2, <1>4, <1>5
  <1>7. /\ saying \in BOOLEAN /\ at = "scan"
        /\ tracer \in {"color", "bw", "none"}
    BY DEF Init
  <1>8. TypeOK
    BY <1>1, <1>2, <1>3, <1>6, <1>7 DEF TypeOK, Cells
  <1>9. Grown
    BY <1>1, <1>2 DEF Grown
  <1> QED
    BY <1>7, <1>8, <1>9 DEF IInv, SafeLength

\* With a new piece the buffer is empty again.
LEMMA NextPieceKeeps ==
  ASSUME IInv, NextPiece, shown' \in Seq(Cells)
  PROVE  IInv'
  <1>1. buf' \in Seq(Cells) /\ Len(buf') = 0
    BY DEF NextPiece
  <1>2. /\ at' \in {"scan", "said"} /\ piece' \in {"text", "tail"} /\ p' = 1
        /\ UNCHANGED <<text, saying, newline, tracer>>
    BY DEF NextPiece
  <1>3. Len(Format') \in Nat
    <2>1. CASE piece' = "text"
      BY <1>2, <2>1 DEF Format, IInv, TypeOK
    <2>2. CASE piece' = "tail"
      BY <2>2, ResetOK DEF Format
    <2> QED
      BY <1>2, <2>1, <2>2
  <1>4. BufSize \in Nat /\ BufSize > 0
    BY SpeechAssumption, NameOK
  <1>5. p' \in 1 .. Len(Format') + 1 /\ Len(buf') < BufSize
    BY <1>1, <1>2, <1>3, <1>4
  <1>6. TypeOK'
    BY <1>1, <1>2, <1>5 DEF IInv, TypeOK, Cells
  <1>7. Grown' /\ SafeLength'
    BY <1>1, <1>2 DEF Grown, SafeLength
  <1> QED
    BY <1>6, <1>7 DEF IInv

\* Where to goes and what is put there keep to five thirds; so does a buffer that is
\* too small for it, and only a text can be that long.
LEMMA PutKeeps ==
  ASSUME IInv, Coloring,
         NEW s \in Seq(Cells), NEW to \in p + 1 .. Len(Format) + 1,
         3 * Len(s) <= 5 * (to - p), Put(s, to)
  PROVE  IInv'
  <1>1. /\ Format \in Seq(Cells) /\ Len(Format) \in Nat
        /\ piece # "text" => Len(Format) <= 8
        /\ piece = "text" => Format = text
    BY FormatOK DEF IInv
  <1>2. /\ p \in Nat /\ Len(buf) \in Nat /\ Len(s) \in Nat /\ to \in Nat
        /\ BufSize \in Nat
    BY <1>1, SpeechAssumption DEF IInv, TypeOK
  <1>3. UNCHANGED <<text, saying, newline, tracer, piece, shown>>
    BY DEF Put
  <1>4. Format' = Format
    BY <1>3 DEF Format
  <1>5. 3 * (Len(buf) + Len(s)) <= 5 * (to - 1)
    BY <1>2 DEF IInv, Grown, Coloring
  <1>6. CASE Len(buf) + Len(s) < BufSize
    <2>1. buf' = buf \o s /\ p' = to /\ at' = at
      BY <1>6 DEF Put
    <2>2. buf' \in Seq(Cells) /\ Len(buf') = Len(buf) + Len(s)
      BY <2>1, Joined DEF IInv, TypeOK, Cells
    <2>3. p' \in 1 .. Len(Format') + 1
      BY <1>1, <1>2, <1>4, <2>1
    <2>4. TypeOK'
      BY <1>3, <1>6, <2>1, <2>2, <2>3 DEF IInv, TypeOK, Cells
    <2>5. Grown'
      BY <1>5, <2>1, <2>2 DEF Grown
    <2> QED
      BY <1>3, <2>1, <2>4, <2>5 DEF IInv, SafeLength
  <1>7. CASE ~ (Len(buf) + Len(s) < BufSize)
    <2>1. at' = "wild" /\ UNCHANGED <<buf, p>>
      BY <1>7 DEF Put
    <2>2. 3 * BufSize <= 5 * Len(Format)
      BY <1>1, <1>2, <1>5, <1>7
    <2>3. piece = "text"
      BY <1>1, <1>2, <2>2, SpeechAssumption, NameOK
    <2>4. SafeLength'
      BY <1>1, <1>2, <1>3, <2>2, <2>3 DEF SafeLength
    <2>5. TypeOK' /\ Grown'
      BY <1>3, <1>4, <2>1 DEF IInv, TypeOK, Grown
    <2> QED
      BY <2>4, <2>5 DEF IInv
  <1> QED
    BY <1>6, <1>7

\* vcolorprintf: what each of its steps puts, and how far it reads for that.
LEMMA ColorKeeps == IInv /\ (Copy \/ Known \/ Unknown \/ Emit) => IInv'
  <1> SUFFICES ASSUME IInv, Copy \/ Known \/ Unknown \/ Emit PROVE IInv'
    OBVIOUS
  <1>1. /\ Format \in Seq(Chars) /\ Format \in Seq(Cells) /\ Len(Format) \in Nat
        /\ p \in Nat /\ p >= 1
    BY FormatOK DEF IInv, TypeOK
  <1>2. CASE Copy
    <2> DEFINE one == <<Format[p]>>
    <2>1. Coloring /\ Put(one, p + 1) /\ p <= Len(Format)
      BY <1>2 DEF Copy, Coloring
    <2>2. one \in Seq(Cells) /\ Len(one) = 1
      BY <1>1, <2>1
    <2> HIDE DEF one
    <2>3. p + 1 \in p + 1 .. Len(Format) + 1
      BY <1>1, <2>1
    <2> DEFINE to == p + 1
    <2>4. 3 * Len(one) <= 5 * (to - p) /\ to \in p + 1 .. Len(Format) + 1
      BY <1>1, <2>2, <2>3
    <2>5. Put(one, to)
      BY <2>1
    <2> HIDE DEF to
    <2> QED
      BY <1>1, <2>1, <2>2, <2>4, <2>5, PutKeeps
  <1>3. CASE Known
    <2>1. PICK end \in First(Format, ">", p) :
            /\ Coloring /\ p <= Len(Format) /\ Format[p] = "<"
            /\ Format[p + 1] \in Tags
            /\ Put(Code(Format[p + 1]), end + 1)
      BY <1>3 DEF Known, Coloring
    <2>2. end \in p .. Len(Format) /\ Format[end] = ">"
      BY DEF First
    <2>3. end # p /\ end # p + 1
      BY <2>1, <2>2 DEF Tags, Short
    <2>4. end + 1 \in p + 3 .. Len(Format) + 1 /\ end \in Nat
      BY <1>1, <2>2, <2>3
    <2>5. /\ Code(Format[p + 1]) \in Seq(Cells)
          /\ Len(Code(Format[p + 1])) \in {4, 5}
      BY CodeOK
    <2>6. 3 * Len(Code(Format[p + 1])) <= 5 * (end + 1 - p)
      <3>1. end + 1 - p \in Nat /\ end + 1 - p >= 3
        BY <1>1, <2>4
      <3>2. 3 * Len(Code(Format[p + 1])) <= 15
        <4>1. CASE Len(Code(Format[p + 1])) = 4
          BY <4>1
        <4>2. CASE Len(Code(Format[p + 1])) = 5
          BY <4>2
        <4> QED
          BY <2>5, <4>1, <4>2
      <3>3. Len(Code(Format[p + 1])) \in Nat
        BY <2>5
      <3> QED
        BY <3>1, <3>2, <3>3
    <2>7. end + 1 \in p + 1 .. Len(Format) + 1
      BY <1>1, <2>4
    <2> QED
      BY <1>1, <2>1, <2>4, <2>5, <2>6, <2>7, PutKeeps
  <1>4. CASE Unknown
    <2>1. PICK end \in First(Format, ">", p) :
            Coloring /\ Put(SubSeq(Format, p, end), end + 1)
      BY <1>4 DEF Unknown
    <2> DEFINE tag == SubSeq(Format, p, end)
    <2>2. end \in p .. Len(Format)
      BY DEF First
    <2>3. p \in 1 .. Len(Format) + 1 /\ end \in p - 1 .. Len(Format) /\ end \in Nat
      BY <1>1, <2>2
    <2>4. tag \in Seq(Cells) /\ Len(tag) = end - p + 1
      BY <1>1, <2>3, Part
    <2>5. Put(tag, end + 1)
      BY <2>1
    <2> HIDE DEF tag
    <2>6. 3 * Len(tag) <= 5 * (end + 1 - p)
      BY <1>1, <2>2, <2>3, <2>4
    <2>7. end + 1 \in p + 1 .. Len(Format) + 1
      BY <1>1, <2>2, <2>3
    <2> QED
      BY <1>1, <2>1, <2>3, <2>4, <2>5, <2>6, <2>7, PutKeeps
  <1>5. CASE Emit
    <2>1. shown' = shown \o buf \o Code("/") /\ NextPiece
      BY <1>5 DEF Emit
    <2>2. shown \o buf \in Seq(Cells)
      BY Joined DEF IInv, TypeOK, Cells
    <2>3. shown' \in Seq(Cells)
      BY <2>1, <2>2, CodeOK, Joined
    <2> QED
      BY <2>1, <2>3, NextPieceKeeps
  <1> QED
    BY <1>2, <1>3, <1>4, <1>5

\* The second tracer goes on in the same piece.
LEMMA AppendKeeps ==
  ASSUME IInv, Blackening, NEW s \in Seq(Cells), NEW to \in 1 .. Len(Format) + 1,
         Append2(s, to)
  PROVE  IInv'
  <1>1. buf' \in Seq(Cells)
    BY Joined DEF Append2, IInv, TypeOK, Cells
  <1>2. /\ p' = to /\ UNCHANGED <<text, saying, newline, tracer, piece, at, shown>>
        /\ tracer = "bw"
    BY DEF Append2, Blackening
  <1>3. Format' = Format
    BY <1>2 DEF Format
  <1>4. TypeOK'
    BY <1>1, <1>2, <1>3 DEF IInv, TypeOK, Cells
  <1>5. Grown' /\ SafeLength'
    BY <1>2 DEF IInv, Grown, SafeLength
  <1> QED
    BY <1>4, <1>5 DEF IInv

\* The second tracer.
LEMMA BlackKeeps == IInv /\ (DropTag \/ KeepOpen \/ Show) => IInv'
  <1> SUFFICES ASSUME IInv, DropTag \/ KeepOpen \/ Show PROVE IInv'
    OBVIOUS
  <1>1. /\ Format \in Seq(Cells) /\ Len(Format) \in Nat
        /\ p \in Nat /\ p \in 1 .. Len(Format) + 1
    BY FormatOK DEF IInv, TypeOK
  <1>2. CASE DropTag
    <2>1. PICK begin \in First(Format, "<", p) : \E end \in First(Format, ">", begin) :
            Blackening /\ Append2(SubSeq(Format, p, begin - 1), end + 1)
      BY <1>2 DEF DropTag
    <2>2. PICK end \in First(Format, ">", begin) :
            Blackening /\ Append2(SubSeq(Format, p, begin - 1), end + 1)
      BY <2>1
    <2>3. begin \in p .. Len(Format) /\ end \in begin .. Len(Format)
      BY DEF First
    <2>4. begin - 1 \in p - 1 .. Len(Format) /\ end + 1 \in 1 .. Len(Format) + 1
      BY <1>1, <2>3
    <2>5. SubSeq(Format, p, begin - 1) \in Seq(Cells)
      BY <1>1, <2>4, Part
    <2> QED
      BY <2>2, <2>4, <2>5, AppendKeeps
  <1>3. CASE KeepOpen
    <2>1. PICK begin \in First(Format, "<", p) :
            Blackening /\ Append2(SubSeq(Format, p, begin), begin + 1)
      BY <1>3 DEF KeepOpen
    <2>2. begin \in p .. Len(Format)
      BY DEF First
    <2>3. begin \in p - 1 .. Len(Format) /\ begin + 1 \in 1 .. Len(Format) + 1
      BY <1>1, <2>2
    <2>4. SubSeq(Format, p, begin) \in Seq(Cells)
      BY <1>1, <2>3, Part
    <2> QED
      BY <2>1, <2>3, <2>4, AppendKeeps
  <1>4. CASE Show
    <2> DEFINE clean == buf \o SubSeq(Format, p, Len(Format))
    <2>1. SubSeq(Format, p, Len(Format)) \in Seq(Cells)
      BY <1>1, Part
    <2>2. clean \in Seq(Cells) /\ Len(clean) \in Nat
      BY <2>1, Joined DEF IInv, TypeOK, Cells
    <2>3. /\ NextPiece
          /\ shown' = CASE Len(clean) < ShowSize -> shown \o clean
                        [] Len(clean) = ShowSize -> shown \o SubSeq(clean, 1, ShowSize - 1)
                        [] OTHER -> shown
      BY <1>4 DEF Show
    <2> HIDE DEF clean
    <2>4. shown \in Seq(Cells) /\ ShowSize \in Nat
      BY SpeechAssumption DEF IInv, TypeOK, Cells
    <2>5. CASE Len(clean) < ShowSize
      BY <2>2, <2>3, <2>4, <2>5, Joined, NextPieceKeeps
    <2>6. CASE Len(clean) = ShowSize
      <3>1. 1 \in 1 .. Len(clean) + 1 /\ ShowSize - 1 \in 1 - 1 .. Len(clean)
        BY <2>2, <2>6, SpeechAssumption
      <3>2. SubSeq(clean, 1, ShowSize - 1) \in Seq(Cells)
        BY <2>2, <3>1, Part
      <3>3. shown' = shown \o SubSeq(clean, 1, ShowSize - 1)
        BY <2>2, <2>3, <2>4, <2>6
      <3> QED
        BY <2>3, <2>4, <3>2, <3>3, Joined, NextPieceKeeps
    <2>7. CASE ~ (Len(clean) < ShowSize) /\ Len(clean) # ShowSize
      BY <2>3, <2>4, <2>7, NextPieceKeeps
    <2> QED
      BY <2>5, <2>6, <2>7
  <1> QED
    BY <1>2, <1>3, <1>4

\* Every step keeps types, the growth of the buffer and its limit.
LEMMA StepOK == IInv /\ [Next]_vars => IInv'
  <1> SUFFICES ASSUME IInv, [Next]_vars PROVE IInv'
    OBVIOUS
  <1>1. CASE Silent
    <2>1. shown' \in Seq(Cells)
      BY <1>1 DEF Silent, IInv, TypeOK, Cells
    <2> QED
      BY <1>1, <2>1, NextPieceKeeps DEF Silent
  <1>2. CASE Copy \/ Known \/ Unknown \/ Emit
    BY <1>2, ColorKeeps
  <1>3. CASE DropTag \/ KeepOpen \/ Show
    BY <1>3, BlackKeeps
  <1>4. CASE UNCHANGED vars
    BY <1>4 DEF vars, IInv, TypeOK, SafeLength, Grown, Format
  <1> QED
    BY <1>1, <1>2, <1>3, <1>4 DEF Next

\* Types; both tracers stay in their piece, and vcolorprintf in its buffer as long as
\* it has not left it.
THEOREM TypeCorrect == Spec => []TypeOK
  <1>1. IInv => TypeOK
    BY DEF IInv
  <1> QED
    BY <1>1, InitOK, StepOK, PTL DEF Spec

\* No text that is shorter than three fifths of the buffer makes vcolorprintf write
\* behind it, whatever its tags are.
THEOREM SafeLengthHolds == Spec => []SafeLength
  <1>1. IInv => SafeLength
    BY DEF IInv
  <1> QED
    BY <1>1, InitOK, StepOK, PTL DEF Spec
-----------------------------------------------------------------------------
(* Induction.  A set takes the place of the property, as no prover here     *)
(* can instantiate an operator.                                             *)

\* If 0 is in a set, and with n always n + 1, it holds every number.
LEMMA Induction ==
  ASSUME NEW S, 0 \in S, \A n \in Nat : n \in S => n + 1 \in S
  PROVE  \A n \in Nat : n \in S
  <1> SUFFICES ASSUME NEW n \in Nat, n \notin S PROVE FALSE
    OBVIOUS
  <1> DEFINE T == {i \in Nat : i \notin S}
  <1>1. T \subseteq Nat /\ n \in T
    OBVIOUS
  <1> HIDE DEF T
  <1>2. PICK m \in T : \A i \in T : ~ (<<i, m>> \in OpToRel(<, Nat))
    BY <1>1, NatLessThanWellFounded, WFMin, Zenon
  <1>3. \A i \in T : ~ (i < m)
    BY <1>1, <1>2, Zenon DEF OpToRel
  <1> USE DEF T
  <1>4. m \in Nat /\ m # 0
    OBVIOUS
  <1>5. m - 1 \in Nat /\ m - 1 < m /\ (m - 1) + 1 = m
    BY <1>4
  <1>6. m - 1 \in S
    BY <1>3, <1>5
  <1> QED
    BY <1>5, <1>6

\* strchr finds the first if there is any.
LEMMA FirstFinds ==
  ASSUME NEW f, Len(f) \in Nat, NEW c, NEW from \in Nat, First(f, c, from) = {}
  PROVE  \A k \in from .. Len(f) : f[k] # c
  <1> SUFFICES ASSUME NEW k \in from .. Len(f), f[k] = c PROVE FALSE
    OBVIOUS
  <1> DEFINE T == {i \in from .. Len(f) : f[i] = c}
  <1>1. T \subseteq Nat /\ k \in T
    OBVIOUS
  <1> HIDE DEF T
  <1>2. PICK m \in T : \A i \in T : ~ (<<i, m>> \in OpToRel(<, Nat))
    BY <1>1, NatLessThanWellFounded, WFMin, Zenon
  <1>3. \A i \in T : ~ (i < m)
    BY <1>1, <1>2, Zenon DEF OpToRel
  <1> USE DEF T
  <1>4. \A j \in from .. m - 1 : f[j] # c
    BY <1>3
  <1> QED
    BY <1>4 DEF First

-----------------------------------------------------------------------------
(* What is kept of a sequence.                                             *)

\* g is what the recursion of Kept asks for.
Solves(g, s, P, m) ==
  g = [n \in 0 .. m |->
         IF n = 0 THEN <<>> ELSE IF n \in P THEN Append(g[n - 1], s[n]) ELSE g[n - 1]]

\* The recursion of Kept has a solution.
LEMMA KeptExists ==
  ASSUME NEW s, NEW P
  PROVE  \A m \in Nat : \E g : Solves(g, s, P, m)
  <1> USE DEF Solves
  <1> DEFINE S == {m \in Nat : \E g : Solves(g, s, P, m)}
  <1>1. 0 \in S
    <2> DEFINE g == [n \in 0 .. 0 |-> <<>>]
    <2>1. Solves(g, s, P, 0)
      OBVIOUS
    <2> QED
      BY <2>1
  <1>2. ASSUME NEW m \in Nat, m \in S PROVE m + 1 \in S
    <2>1. PICK g : Solves(g, s, P, m)
      BY <1>2
    <2> DEFINE next == IF m + 1 \in P THEN Append(g[m], s[m + 1]) ELSE g[m]
               h == [n \in 0 .. m + 1 |-> IF n = m + 1 THEN next ELSE g[n]]
               hh == [n \in 0 .. m + 1 |-> IF n = 0 THEN <<>>
                        ELSE IF n \in P THEN Append(h[n - 1], s[n]) ELSE h[n - 1]]
    <2>2. \A n \in 0 .. m : g[n] = IF n = 0 THEN <<>>
                              ELSE IF n \in P THEN Append(g[n - 1], s[n]) ELSE g[n - 1]
      BY <2>1
    <2>3. \A n \in 0 .. m : h[n] = g[n]
      OBVIOUS
    <2>4. h[m + 1] = next
      OBVIOUS
    <2> HIDE DEF h, next
    <2>5. ASSUME NEW n \in 0 .. m + 1
          PROVE  h[n] = IF n = 0 THEN <<>>
                        ELSE IF n \in P THEN Append(h[n - 1], s[n]) ELSE h[n - 1]
      <3>1. CASE n = m + 1
        <4>1. n # 0 /\ n - 1 = m /\ m \in 0 .. m
          BY <3>1
        <4>2. h[n - 1] = g[m]
          BY <2>3, <4>1
        <4> QED
          BY <2>4, <3>1, <4>1, <4>2 DEF next
      <3>2. CASE n = 0
        <4>1. n \in 0 .. m
          BY <3>2
        <4> QED
          BY <2>2, <2>3, <3>2, <4>1
      <3>3. CASE n # m + 1 /\ n # 0
        <4>1. n \in 0 .. m /\ n - 1 \in 0 .. m
          BY <3>3
        <4>2. h[n] = g[n] /\ h[n - 1] = g[n - 1]
          BY <2>3, <4>1
        <4> QED
          BY <2>2, <3>3, <4>1, <4>2
      <3> QED
        BY <3>1, <3>2, <3>3
    <2>6. h = [n \in 0 .. m + 1 |-> h[n]]
      BY DEF h
    <2>7. Solves(h, s, P, m + 1)
      BY <2>5, <2>6
    <2> QED
      BY <2>7
  <1> HIDE DEF S
  <1>3. \A m \in Nat : m \in S
    BY <1>1, <1>2, Induction
  <1> QED
    BY <1>3 DEF S

\* The equations of Kept, which the recursion only states of some solution.
LEMMA KeptSteps ==
  ASSUME NEW s, NEW P, Len(s) \in Nat
  PROVE  /\ Kept(s, P)[0] = <<>>
         /\ \A n \in 1 .. Len(s) :
              Kept(s, P)[n] = IF n \in P THEN Append(Kept(s, P)[n - 1], s[n])
                              ELSE Kept(s, P)[n - 1]
  <1> DEFINE m == Len(s)
             K == Kept(s, P)
  <1>1. K = CHOOSE g : Solves(g, s, P, m)
    BY Zenon DEF Kept, Solves
  <1>2. \E g : Solves(g, s, P, m)
    BY KeptExists
  <1>3. Solves(K, s, P, m)
    BY <1>1, <1>2, Zenon
  <1> HIDE DEF K
  <1>4. \A n \in 0 .. m : K[n] =
              IF n = 0 THEN <<>> ELSE IF n \in P THEN Append(K[n - 1], s[n]) ELSE K[n - 1]
    BY <1>3, Zenon DEF Solves
  <1>5. K[0] = <<>> /\ \A n \in 1 .. m : K[n] = IF n \in P THEN Append(K[n - 1], s[n]) ELSE K[n - 1]
    BY <1>4
  <1> QED
    BY <1>5 DEF K

\* What is kept of a sequence is a sequence of the same things.
LEMMA KeptIsSeq ==
  ASSUME NEW S, NEW s \in Seq(S), NEW P
  PROVE  \A n \in 0 .. Len(s) : Kept(s, P)[n] \in Seq(S)
  <1> DEFINE K == Kept(s, P)
             T == {n \in Nat : n <= Len(s) => K[n] \in Seq(S)}
  <1>1. /\ K[0] = <<>> /\ Len(s) \in Nat
        /\ \A n \in 1 .. Len(s) : K[n] = IF n \in P THEN Append(K[n - 1], s[n]) ELSE K[n - 1]
    BY KeptSteps
  <1> HIDE DEF K
  <1>2. 0 \in T
    <2>1. <<>> \in Seq(S)
      OBVIOUS
    <2> QED
      BY <1>1, <2>1
  <1>3. ASSUME NEW n \in Nat, n \in T PROVE n + 1 \in T
    <2> SUFFICES ASSUME n + 1 <= Len(s) PROVE K[n + 1] \in Seq(S)
      OBVIOUS
    <2>1. n + 1 \in 1 .. Len(s) /\ (n + 1) - 1 = n /\ s[n + 1] \in S
      BY <1>1
    <2>2. K[n] \in Seq(S)
      BY <1>1, <1>3
    <2>3. K[n + 1] = IF n + 1 \in P THEN Append(K[n], s[n + 1]) ELSE K[n]
      BY <1>1, <2>1
    <2> QED
      BY <2>1, <2>2, <2>3
  <1> HIDE DEF T
  <1>4. \A n \in Nat : n \in T
    BY <1>2, <1>3, Induction
  <1> QED
    BY <1>1, <1>4 DEF T, K

\* Appending to what is joined is appending to its second part.
Joins(a, b, c) == Append(a \o b, c) = a \o Append(b, c)

\* Joining and appending.
LEMMA AppendJoined ==
  ASSUME NEW S, NEW a \in Seq(S), NEW b \in Seq(S), NEW c \in S
  PROVE  Joins(a, b, c)
  BY DEF Joins

\* Nothing, joined.
LEMMA EmptyJoined ==
  ASSUME NEW S, NEW a \in Seq(S)
  PROVE  a \o <<>> = a /\ <<>> \o a = a
  OBVIOUS

\* t is the part of s that is d places behind its beginning, and the same is kept of it.
Alike(s, P, t, Q, d) ==
  d + Len(t) <= Len(s) /\ \A j \in 1 .. Len(t) : s[d + j] = t[j] /\ (d + j \in P <=> j \in Q)

\* What is kept of s up to the end of t, in two parts.
Splits(s, P, t, Q, d) == Kept(s, P)[d + Len(t)] = Kept(s, P)[d] \o Kept(t, Q)[Len(t)]

\* What is kept up to the end of a part is what is kept before it and of it.
LEMMA KeptPart ==
  ASSUME NEW S, NEW s \in Seq(S), NEW t \in Seq(S), NEW P, NEW Q,
         NEW d \in Nat, Alike(s, P, t, Q, d)
  PROVE  Splits(s, P, t, Q, d)
  <1> DEFINE K == Kept(s, P)
             L == Kept(t, Q)
             G == [j \in 0 .. Len(t) |-> K[d + j]]
             H == [j \in 0 .. Len(t) |-> K[d] \o L[j]]
             T == {j \in Nat : j <= Len(t) => G[j] = H[j]}
  <1>1. /\ L[0] = <<>> /\ Len(s) \in Nat /\ Len(t) \in Nat
        /\ \A n \in 1 .. Len(s) : K[n] = IF n \in P THEN Append(K[n - 1], s[n]) ELSE K[n - 1]
        /\ \A n \in 1 .. Len(t) : L[n] = IF n \in Q THEN Append(L[n - 1], t[n]) ELSE L[n - 1]
    BY KeptSteps
  <1>2. /\ \A n \in 0 .. Len(s) : K[n] \in Seq(S)
        /\ \A n \in 0 .. Len(t) : L[n] \in Seq(S)
    BY KeptIsSeq
  <1> HIDE DEF K, L
  <1>3. K[d] \in Seq(S)
    BY <1>1, <1>2 DEF Alike
  <1>4. G[0] = K[d] /\ G[Len(t)] = K[d + Len(t)]
    BY <1>1
  <1>5. ASSUME NEW j \in 1 .. Len(t)
        PROVE  G[j] = IF j \in Q THEN Append(G[j - 1], t[j]) ELSE G[j - 1]
    <2>1. /\ d + j \in 1 .. Len(s) /\ (d + j) - 1 = d + (j - 1)
          /\ j \in 0 .. Len(t) /\ j - 1 \in 0 .. Len(t)
      BY <1>1 DEF Alike
    <2>2. G[j] = K[d + j] /\ G[j - 1] = K[d + (j - 1)]
      BY <2>1
    <2>3. K[d + j] = IF d + j \in P THEN Append(K[d + (j - 1)], s[d + j]) ELSE K[d + (j - 1)]
      BY <1>1, <2>1
    <2>4. s[d + j] = t[j] /\ (d + j \in P <=> j \in Q)
      BY DEF Alike
    <2> HIDE DEF G
    <2> QED
      BY <2>2, <2>3, <2>4
  <1>6. H[0] = K[d] /\ H[Len(t)] = K[d] \o L[Len(t)]
    <2>1. H[0] = K[d] \o L[0] /\ H[Len(t)] = K[d] \o L[Len(t)]
      <3>1. 0 \in 0 .. Len(t) /\ Len(t) \in 0 .. Len(t)
        BY <1>1
      <3> QED
        BY <3>1, Zenon
    <2> QED
      BY <1>1, <1>3, <2>1, EmptyJoined
  <1>7. ASSUME NEW j \in 1 .. Len(t)
        PROVE  H[j] = IF j \in Q THEN Append(H[j - 1], t[j]) ELSE H[j - 1]
    <2>1. j \in 0 .. Len(t) /\ j - 1 \in 0 .. Len(t)
      BY <1>1
    <2>2. H[j] = K[d] \o L[j] /\ H[j - 1] = K[d] \o L[j - 1]
      BY <2>1, Zenon
    <2>3. t[j] \in S /\ L[j - 1] \in Seq(S)
      BY <1>1, <1>2, <2>1
    <2>4. Append(K[d] \o L[j - 1], t[j]) = K[d] \o Append(L[j - 1], t[j])
      <3>1. Joins(K[d], L[j - 1], t[j])
        BY <1>3, <2>3, AppendJoined
      <3> QED
        BY <3>1, Zenon DEF Joins
    <2>5. L[j] = IF j \in Q THEN Append(L[j - 1], t[j]) ELSE L[j - 1]
      BY <1>1
    <2> HIDE DEF H
    <2> QED
      BY <2>2, <2>4, <2>5, Zenon
  <1> HIDE DEF G, H
  <1>8. 0 \in T
    BY <1>4, <1>6
  <1>9. ASSUME NEW j \in Nat, j \in T PROVE j + 1 \in T
    <2> SUFFICES ASSUME j + 1 <= Len(t) PROVE G[j + 1] = H[j + 1]
      OBVIOUS
    <2>1. G[j] = H[j]
      BY <1>1, <1>9
    <2>2. j + 1 \in 1 .. Len(t) /\ (j + 1) - 1 = j
      BY <1>1
    <2> QED
      BY <1>5, <1>7, <2>1, <2>2
  <1> HIDE DEF T
  <1>10. \A j \in Nat : j \in T
    BY <1>8, <1>9, Induction
  <1>11. G[Len(t)] = H[Len(t)]
    BY <1>1, <1>10 DEF T
  <1> QED
    BY <1>4, <1>6, <1>11, Zenon DEF K, L, Splits

\* Of a sequence without a kept place nothing is kept,
LEMMA KeptNothing ==
  ASSUME NEW S, NEW t \in Seq(S), NEW Q, \A j \in 1 .. Len(t) : j \notin Q
  PROVE  Kept(t, Q)[Len(t)] = <<>>
  <1> DEFINE K == Kept(t, Q)
             T == {j \in Nat : j <= Len(t) => K[j] = <<>>}
  <1>1. /\ K[0] = <<>> /\ Len(t) \in Nat
        /\ \A n \in 1 .. Len(t) : K[n] = IF n \in Q THEN Append(K[n - 1], t[n]) ELSE K[n - 1]
    BY KeptSteps
  <1> HIDE DEF K
  <1>2. 0 \in T
    BY <1>1
  <1>3. ASSUME NEW j \in Nat, j \in T PROVE j + 1 \in T
    <2> SUFFICES ASSUME j + 1 <= Len(t) PROVE K[j + 1] = <<>>
      OBVIOUS
    <2>1. j + 1 \in 1 .. Len(t) /\ (j + 1) - 1 = j
      BY <1>1
    <2> QED
      BY <1>1, <1>3, <2>1
  <1> HIDE DEF T
  <1>4. \A j \in Nat : j \in T
    BY <1>2, <1>3, Induction
  <1> QED
    BY <1>1, <1>4 DEF T, K

\* and of one whose places are all kept everything.
LEMMA KeptAll ==
  ASSUME NEW S, NEW t \in Seq(S), NEW Q, \A j \in 1 .. Len(t) : j \in Q
  PROVE  Kept(t, Q)[Len(t)] = t
  <1> DEFINE K == Kept(t, Q)
             T == {j \in Nat : j <= Len(t) => K[j] = SubSeq(t, 1, j)}
  <1>1. /\ K[0] = <<>> /\ Len(t) \in Nat
        /\ \A n \in 1 .. Len(t) : K[n] = IF n \in Q THEN Append(K[n - 1], t[n]) ELSE K[n - 1]
    BY KeptSteps
  <1> HIDE DEF K
  <1>2. 0 \in T
    <2>1. SubSeq(t, 1, 0) = <<>>
      OBVIOUS
    <2> QED
      BY <1>1, <2>1
  <1>3. ASSUME NEW j \in Nat, j \in T PROVE j + 1 \in T
    <2> SUFFICES ASSUME j + 1 <= Len(t) PROVE K[j + 1] = SubSeq(t, 1, j + 1)
      OBVIOUS
    <2>1. j + 1 \in 1 .. Len(t) /\ (j + 1) - 1 = j
      BY <1>1
    <2>2. K[j] = SubSeq(t, 1, j) /\ j + 1 \in Q
      BY <1>1, <1>3, <2>1
    <2>4. K[j + 1] = Append(SubSeq(t, 1, j), t[j + 1])
      BY <1>1, <2>1, <2>2
    <2>3. Append(SubSeq(t, 1, j), t[j + 1]) = SubSeq(t, 1, j + 1)
      BY <2>1
    <2> QED
      BY <2>3, <2>4
  <1> HIDE DEF T
  <1>4. \A j \in Nat : j \in T
    BY <1>2, <1>3, Induction
  <1>5. K[Len(t)] = SubSeq(t, 1, Len(t))
    BY <1>1, <1>4 DEF T
  <1>6. SubSeq(t, 1, Len(t)) = t
    OBVIOUS
  <1> QED
    BY <1>5, <1>6 DEF K

\* The types of what is kept.
LEMMA KeptTypes ==
  ASSUME NEW S, NEW s \in Seq(S), NEW P
  PROVE  /\ Len(s) \in Nat /\ Kept(s, P)[0] = <<>>
         /\ \A n \in 0 .. Len(s) : Kept(s, P)[n] \in Seq(S)
  BY KeptSteps, KeptIsSeq

\* The places of two sequences joined.
LEMMA PartsOf ==
  ASSUME NEW S, NEW s \in Seq(S), NEW t \in Seq(S)
  PROVE  /\ s \o t \in Seq(S) /\ Len(s \o t) = Len(s) + Len(t)
         /\ Len(s) \in Nat /\ Len(t) \in Nat
         /\ \A j \in 1 .. Len(s) : (s \o t)[j] = s[j]
         /\ \A j \in 1 .. Len(t) : (s \o t)[Len(s) + j] = t[j]
  OBVIOUS

\* What is readable is a sequence of what a buffer can hold.
LEMMA ReadableSeq ==
  ASSUME NEW s \in Seq(Cells)
  PROVE  Readable(s) \in Seq(Cells)
  <1>1. Len(s) \in 0 .. Len(s)
    OBVIOUS
  <1> QED
    BY <1>1, KeptIsSeq DEF Readable

\* What is readable of two parts is so of the whole.
LEMMA ReadableJoined ==
  ASSUME NEW s \in Seq(Cells), NEW t \in Seq(Cells)
  PROVE  Readable(s \o t) = Readable(s) \o Readable(t)
  <1> DEFINE u == s \o t
             K == Kept(u, Letters(u))
  <1>1. /\ u \in Seq(Cells) /\ Len(u) = Len(s) + Len(t)
        /\ Len(s) \in Nat /\ Len(t) \in Nat
        /\ \A j \in 1 .. Len(s) : u[j] = s[j]
        /\ \A j \in 1 .. Len(t) : u[Len(s) + j] = t[j]
    BY PartsOf
  <1> HIDE DEF u
  <1>2. Alike(u, Letters(u), t, Letters(t), Len(s))
    BY <1>1 DEF Alike, Letters
  <1>3. Alike(u, Letters(u), s, Letters(s), 0)
    BY <1>1 DEF Alike, Letters
  <1>4. K[Len(s) + Len(t)] = K[Len(s)] \o Kept(t, Letters(t))[Len(t)]
    <2>1. Splits(u, Letters(u), t, Letters(t), Len(s))
      BY <1>1, <1>2, KeptPart
    <2> QED
      BY <2>1, Zenon DEF Splits
  <1>5. K[0 + Len(s)] = K[0] \o Kept(s, Letters(s))[Len(s)]
    <2>1. Splits(u, Letters(u), s, Letters(s), 0)
      BY <1>1, <1>3, KeptPart
    <2> QED
      BY <2>1, Zenon DEF Splits
  <1>6. K[0] = <<>>
    BY <1>1, KeptTypes
  <1>7. Readable(s) = Kept(s, Letters(s))[Len(s)] /\ Readable(t) = Kept(t, Letters(t))[Len(t)]
    BY Zenon DEF Readable
  <1>8. <<>> \o Readable(s) = Readable(s)
    BY ReadableSeq, EmptyJoined
  <1>9. Readable(u) = K[Len(u)]
    BY Zenon DEF Readable
  <1>10. 0 + Len(s) = Len(s)
    BY <1>1
  <1> HIDE DEF K
  <1>11. K[Len(s)] = Readable(s)
    BY <1>5, <1>6, <1>7, <1>8, <1>10, Zenon
  <1>12. Readable(u) = Readable(s) \o Readable(t)
    BY <1>1, <1>4, <1>7, <1>9, <1>11, Zenon
  <1> QED
    BY <1>12, Zenon DEF u

\* A text is readable as it is,
LEMMA ReadableText ==
  ASSUME NEW s \in Seq(Chars)
  PROVE  Readable(s) = s
  <1>1. "esc" \notin Chars
    BY DEF Chars, Tags, Short
  <1>2. \A j \in 1 .. Len(s) : j \in Letters(s)
    BY <1>1 DEF Letters
  <1> QED
    BY <1>2, KeptAll DEF Readable

\* and a terminal code is not.
LEMMA ReadableCode ==
  ASSUME NEW t
  PROVE  Readable(Code(t)) = <<>>
  <1> DEFINE c == Code(t)
  <1>1. c \in Seq(Cells) /\ \A j \in 1 .. Len(c) : c[j] = "esc"
    BY DEF Code, Cells
  <1> HIDE DEF c
  <1>2. \A j \in 1 .. Len(c) : j \notin Letters(c)
    BY <1>1 DEF Letters
  <1>3. Readable(c) = <<>>
    BY <1>1, <1>2, KeptNothing DEF Readable
  <1> QED
    BY <1>3 DEF c

\* If every place from a to b is kept, that part is; if none is, nothing of it.
LEMMA KeptRange ==
  ASSUME NEW S, NEW f \in Seq(S), NEW P,
         NEW a \in 1 .. Len(f) + 1, NEW b \in a - 1 .. Len(f)
  PROVE  /\ (\A k \in a .. b : k \in P) =>
              Kept(f, P)[b] = Kept(f, P)[a - 1] \o SubSeq(f, a, b)
         /\ (\A k \in a .. b : k \notin P) => Kept(f, P)[b] = Kept(f, P)[a - 1]
  <1> DEFINE t == SubSeq(f, a, b)
             d == a - 1
             Q == {j \in 1 .. Len(t) : d + j \in P}
             K == Kept(f, P)
  <1>1. Len(f) \in Nat /\ a \in Int /\ b \in Int /\ d \in Nat /\ d \in 0 .. Len(f)
    OBVIOUS
  <1>2. \A i \in a .. b : i \in 1 .. Len(f) /\ f[i] \in S
    BY <1>1
  <1>3. /\ t \in Seq(S) /\ Len(t) = b - d
        /\ \A j \in 1 .. Len(t) : t[j] = f[d + j]
    BY <1>1, <1>2
  <1> HIDE DEF t, d
  <1>4. Alike(f, P, t, Q, d)
    BY <1>1, <1>3 DEF Alike
  <1> HIDE DEF Q
  <1>5. K[d + Len(t)] = K[d] \o Kept(t, Q)[Len(t)]
    <2>1. Splits(f, P, t, Q, d)
      BY <1>1, <1>3, <1>4, KeptPart
    <2> QED
      BY <2>1, Zenon DEF Splits
  <1>6. d + Len(t) = b
    BY <1>1, <1>3
  <1>7. K[d] \in Seq(S)
    BY <1>1, KeptTypes
  <1> HIDE DEF K
  <1>8. ASSUME \A k \in a .. b : k \in P PROVE K[b] = K[d] \o t
    <2>1. \A j \in 1 .. Len(t) : j \in Q
      BY <1>1, <1>3, <1>8 DEF Q, d
    <2>2. Kept(t, Q)[Len(t)] = t
      BY <1>3, <2>1, KeptAll
    <2> QED
      BY <1>5, <1>6, <2>2, Zenon
  <1>9. ASSUME \A k \in a .. b : k \notin P PROVE K[b] = K[d]
    <2>1. \A j \in 1 .. Len(t) : j \notin Q
      BY <1>1, <1>3, <1>9 DEF Q, d
    <2>2. Kept(t, Q)[Len(t)] = <<>>
      BY <1>3, <2>1, KeptNothing
    <2>3. K[b] = K[d] \o <<>>
      BY <1>5, <1>6, <2>2, Zenon
    <2> QED
      BY <1>7, <2>3, EmptyJoined
  <1> QED
    BY <1>8, <1>9, Zenon DEF K, d, t

-----------------------------------------------------------------------------
(* What is said, for every text.                                           *)

\* No tag is open before place q.
Clear(f, q) == \A a \in 1 .. q - 1 : f[a] = "<" => \E j \in a .. q - 1 : f[j] = ">"

\* The last that is shown is a newline.
EndsNl(s) == s # <<>> /\ s[Len(s)] = "nl"

\* What has been composed is what has been read, without the tags.
Following ==
  at = "scan" /\ tracer # "none" /\ WellFormed(Format) =>
    /\ Clear(Format, p)
    /\ Readable(buf) = Kept(Format, Outside(Format))[p - 1]

\* A newline that has been read is the last that has been composed; the second tracer
\* leaves text that is between tags for later.
Reading ==
  at = "scan" =>
    /\ tracer = "color" /\ p > 1 /\ Format[p - 1] = "nl" => EndsNl(Readable(buf))
    /\ tracer = "bw" => /\ buf \in Seq(Chars) /\ Len(buf) <= p - 1
                        /\ p > 1 => Format[p - 1] \in {"<", ">"}

\* A newline is added to what is said without one.
Newlined ==
  /\ text # <<>> => newline = (saying /\ text[Len(text)] # "nl")
  /\ at = "said" => piece = "tail"

\* A text whose tags are closed and that fits.
Proper ==
  tracer # "none" /\ text # <<>> /\ WellFormed(text) /\ Len(Visible(text)) < ShowSize

\* The text as it is to be shown.
Line == Visible(text) \o IF newline THEN <<"nl">> ELSE <<>>

\* What of it has been shown already.
Sofar == IF piece # "tail" THEN <<>> ELSE IF at = "scan" THEN Visible(text) ELSE Line

\* Piece after piece.
Spoken ==
  Proper /\ at # "wild" =>
    Plain = Sofar \/ (piece # "head" /\ Plain = Visible(Name) \o Sofar)

\* Whatever is said ends with a newline.
Lined ==
  /\ tracer # "none" /\ saying /\ text # <<>> /\ Len(text) < ShowSize
  /\ piece = "tail" /\ at # "wild" /\ (at = "scan" => ~ newline)
  => EndsNl(Plain)

\* The second invariant.
SInv == Following /\ Reading /\ Newlined /\ Spoken /\ Lined

\* Whether a place is in a tag, where no tag is open before p.
LEMMA ClearOutside ==
  ASSUME NEW f \in Seq(Cells), NEW q \in 1 .. Len(f) + 1, Clear(f, q),
         NEW b \in q - 1 .. Len(f), \A k \in q .. b : f[k] # "<"
  PROVE  (\A k \in q .. b : k \in Outside(f)) /\ Clear(f, b + 1)
  <1>1. Len(f) \in Nat /\ q \in Nat /\ b \in Nat
    OBVIOUS
  <1>2. ASSUME NEW k \in q .. b PROVE k \in Outside(f)
    <2>1. k \in 1 .. Len(f)
      BY <1>1
    <2>2. ASSUME NEW a \in 1 .. k, f[a] = "<" PROVE \E j \in a .. k - 1 : f[j] = ">"
      <3>1. a \in 1 .. q - 1
        BY <1>1, <2>2
      <3>2. PICK j \in a .. q - 1 : f[j] = ">"
        BY <2>2, <3>1 DEF Clear
      <3> QED
        BY <1>1, <3>2
    <2> QED
      BY <2>1, <2>2 DEF Outside, InTag
  <1>3. ASSUME NEW a \in 1 .. b, f[a] = "<" PROVE \E j \in a .. b : f[j] = ">"
    <2>1. a \in 1 .. q - 1
      BY <1>1, <1>3
    <2>2. PICK j \in a .. q - 1 : f[j] = ">"
      BY <1>3, <2>1 DEF Clear
    <2> QED
      BY <1>1, <2>2
  <1>4. (b + 1) - 1 = b
    BY <1>1
  <1> QED
    BY <1>2, <1>3, <1>4 DEF Clear

\* Every place of a tag is in a tag.
LEMMA TagInside ==
  ASSUME NEW f \in Seq(Cells), NEW begin \in 1 .. Len(f), f[begin] = "<",
         NEW end \in First(f, ">", begin)
  PROVE  /\ end \in begin .. Len(f)
         /\ \A k \in begin .. end : k \notin Outside(f)
  <1>1. /\ Len(f) \in Nat /\ begin \in Nat /\ end \in begin .. Len(f) /\ f[end] = ">"
        /\ \A j \in begin .. end - 1 : f[j] # ">"
    BY DEF First
  <1>2. ASSUME NEW k \in begin .. end PROVE InTag(f, k)
    <2>1. begin \in 1 .. k /\ end \in k .. Len(f)
      BY <1>1
    <2>2. \A j \in begin .. k - 1 : f[j] # ">"
      BY <1>1
    <2> QED
      BY <1>1, <2>1, <2>2 DEF InTag
  <1> QED
    BY <1>1, <1>2 DEF Outside

\* Behind the end of a tag no tag is open.
LEMMA TagClears ==
  ASSUME NEW f \in Seq(Cells), NEW q \in 1 .. Len(f) + 1, Clear(f, q),
         NEW end \in q .. Len(f), f[end] = ">"
  PROVE  Clear(f, end + 1)
  <1>1. Len(f) \in Nat /\ q \in Nat /\ end \in Nat
    OBVIOUS
  <1>2. ASSUME NEW a \in 1 .. end, f[a] = "<" PROVE \E j \in a .. end : f[j] = ">"
    BY <1>1
  <1>3. (end + 1) - 1 = end
    BY <1>1
  <1> QED
    BY <1>2, <1>3 DEF Clear

\* What is copied is kept, and a tag is not.
LEMMA Copied ==
  ASSUME NEW f \in Seq(Cells), NEW q \in 1 .. Len(f) + 1, Clear(f, q),
         NEW b \in q - 1 .. Len(f), \A k \in q .. b : f[k] # "<"
  PROVE  /\ Clear(f, b + 1)
         /\ Kept(f, Outside(f))[b] = Kept(f, Outside(f))[q - 1] \o SubSeq(f, q, b)
  <1> DEFINE P == Outside(f)
  <1>1. (\A k \in q .. b : k \in P) /\ Clear(f, b + 1)
    BY ClearOutside
  <1> HIDE DEF P
  <1>2. Kept(f, P)[b] = Kept(f, P)[q - 1] \o SubSeq(f, q, b)
    BY <1>1, KeptRange
  <1> QED
    BY <1>1, <1>2, Zenon DEF P

\* A tag that is passed over: nothing of it is kept.
LEMMA Dropped ==
  ASSUME NEW f \in Seq(Cells), NEW begin \in 1 .. Len(f), f[begin] = "<",
         NEW end \in First(f, ">", begin), Clear(f, begin)
  PROVE  /\ end \in begin .. Len(f)
         /\ Clear(f, end + 1)
         /\ Kept(f, Outside(f))[end] = Kept(f, Outside(f))[begin - 1]
  <1> DEFINE P == Outside(f)
  <1>1. end \in begin .. Len(f) /\ \A k \in begin .. end : k \notin P
    BY TagInside
  <1>2. Len(f) \in Nat /\ begin \in 1 .. Len(f) + 1 /\ end \in begin - 1 .. Len(f)
    BY <1>1
  <1>3. f[end] = ">"
    BY DEF First
  <1>4. Clear(f, end + 1)
    BY <1>1, <1>2, <1>3, TagClears
  <1> HIDE DEF P
  <1>5. Kept(f, P)[end] = Kept(f, P)[begin - 1]
    BY <1>1, <1>2, KeptRange
  <1> QED
    BY <1>1, <1>4, <1>5, Zenon DEF P

\* A tag of two characters and the one behind it.
LEMMA TagFound ==
  ASSUME NEW f, NEW a \in 1 .. Len(f), Len(f) \in Nat, a + 2 <= Len(f),
         f[a] = "<", f[a + 1] # ">", f[a + 2] = ">"
  PROVE  a + 2 \in First(f, ">", a)
  <1>1. a + 2 \in a .. Len(f)
    OBVIOUS
  <1>2. ASSUME NEW j \in a .. a + 2 - 1 PROVE f[j] # ">"
    <2>1. j = a \/ j = a + 1
      OBVIOUS
    <2> QED
      BY <2>1
  <1> QED
    BY <1>1, <1>2 DEF First

\* Before the first place no tag is open.
LEMMA ClearStart == \A f : Clear(f, 1)
  BY DEF Clear

\* A part of one.
LEMMA SubOne ==
  ASSUME NEW f \in Seq(Cells), NEW a \in 1 .. Len(f)
  PROVE  SubSeq(f, a, a) = <<f[a]>> /\ f[a] \in Cells /\ <<f[a]>> \in Seq(Cells)
  <1>1. a \in Int /\ f[a] \in Cells
    OBVIOUS
  <1> DEFINE c == f[a]
             t == SubSeq(f, a, a)
  <1>2. Len(t) = 1 /\ t[1] = c /\ t \in Seq(Cells)
    BY <1>1
  <1>3. <<c>> \in Seq(Cells) /\ Len(<<c>>) = 1 /\ <<c>>[1] = c
    BY <1>1
  <1> HIDE DEF t, c
  <1>4. t = <<c>>
    BY <1>2, <1>3
  <1> QED
    BY <1>1, <1>3, <1>4 DEF t, c

\* Behind z there is a tag of one letter.
TagBehind(f, z) ==
  z + 3 <= Len(f) /\ f[z + 1] = "<" /\ f[z + 2] # ">" /\ f[z + 3] = ">" /\ Clear(f, z + 1)

\* The place behind z that is kept is o.
OneShown(f, z, o) ==
  Clear(f, o + 1) /\ Kept(f, Outside(f))[o] = Kept(f, Outside(f))[z] \o <<f[o]>>

\* A tag of one letter is not seen.
LEMMA TagHidden ==
  ASSUME NEW f \in Seq(Cells), NEW z \in Nat, TagBehind(f, z), NEW e, e = z + 3
  PROVE  Clear(f, e + 1) /\ Kept(f, Outside(f))[e] = Kept(f, Outside(f))[z]
  <1> DEFINE K == Kept(f, Outside(f))
             a == z + 1
  <1>1. /\ Len(f) \in Nat /\ a \in 1 .. Len(f) /\ a + 2 <= Len(f)
        /\ f[a] = "<" /\ f[a + 1] # ">" /\ f[a + 2] = ">" /\ Clear(f, a)
    BY DEF TagBehind
  <1>2. a - 1 = z /\ a + 2 = e
    OBVIOUS
  <1> HIDE DEF a, K
  <1>3. e \in First(f, ">", a)
    BY <1>1, <1>2, TagFound
  <1>4. Clear(f, e + 1) /\ K[e] = K[a - 1]
    BY <1>1, <1>3, Dropped DEF K
  <1> QED
    BY <1>2, <1>4, Zenon DEF K

\* A tag of one letter is not seen, and the character behind it is.
LEMMA TagAndOne ==
  ASSUME NEW f \in Seq(Cells), NEW z \in Nat, TagBehind(f, z),
         NEW o, o = z + 4, o <= Len(f), f[o] # "<"
  PROVE  OneShown(f, z, o)
  <1> DEFINE K == Kept(f, Outside(f))
             e == z + 3
  <1>1. e + 1 = o /\ o - 1 = e /\ Len(f) \in Nat /\ e \in Nat
    OBVIOUS
  <1> HIDE DEF e
  <1>2. Clear(f, o) /\ K[e] = K[z]
    BY <1>1, TagHidden DEF e
  <1>3. o \in 1 .. Len(f) /\ o \in 1 .. Len(f) + 1 /\ o \in o - 1 .. Len(f) /\ o \in Nat
    BY <1>1
  <1>4. \A k \in o .. o : f[k] # "<"
    BY <1>3
  <1>5. Clear(f, o + 1) /\ K[o] = K[o - 1] \o SubSeq(f, o, o)
    BY <1>2, <1>3, <1>4, Copied
  <1>6. SubSeq(f, o, o) = <<f[o]>>
    BY <1>3, SubOne
  <1>7. K[o - 1] = K[z]
    BY <1>1, <1>2
  <1> QED
    BY <1>5, <1>6, <1>7, Zenon DEF OneShown

\* The head is well formed, and two characters of it are visible,
LEMMA NameShown ==
  /\ Name \in Seq(Cells) /\ WellFormed(Name)
  /\ Visible(Name) \in Seq(Cells) /\ Len(Visible(Name)) = 2
  <1> DEFINE f == Name
             K == Kept(f, Outside(f))
  <1>1. /\ f \in Seq(Cells) /\ Len(f) = 8
        /\ f[1] = "<" /\ f[2] = "g" /\ f[3] = ">" /\ f[4] = "%s"
        /\ f[5] = "<" /\ f[6] = "/" /\ f[7] = ">" /\ f[8] = "-"
    BY NameOK, Wider DEF Name
  <1> HIDE DEF f
  <1>2. K[0] = <<>> /\ K[8] \in Seq(Cells)
    <2>1. 8 \in 0 .. Len(f)
      BY <1>1
    <2> QED
      BY <1>1, <2>1, KeptTypes
  <1>3. K[4] = K[0] \o <<f[4]>> /\ Clear(f, 5)
    <2>1. TagBehind(f, 0)
      BY <1>1, ClearStart DEF TagBehind
    <2>2. OneShown(f, 0, 4)
      BY <1>1, <2>1, TagAndOne
    <2>3. 4 + 1 = 5
      OBVIOUS
    <2> QED
      BY <2>2, <2>3, Zenon DEF OneShown
  <1>4. K[8] = K[4] \o <<f[8]>>
    <2>1. TagBehind(f, 4)
      BY <1>1, <1>3 DEF TagBehind
    <2>2. OneShown(f, 4, 8)
      BY <1>1, <2>1, TagAndOne
    <2> QED
      BY <2>2, Zenon DEF OneShown
  <1> HIDE DEF K
  <1>5. Len(K[8]) = 2
    BY <1>2, <1>3, <1>4
  <1>6. Visible(f) = K[8]
    BY <1>1, Zenon DEF Visible, K
  <1>7. WellFormed(f)
    <2>1. 1 + 2 \in First(f, ">", 1) /\ 5 + 2 \in First(f, ">", 5)
      <3>1. 1 \in 1 .. Len(f) /\ 5 \in 1 .. Len(f) /\ Len(f) \in Nat
        BY <1>1
      <3> QED
        BY <1>1, <3>1, TagFound
    <2>2. "g" \in Tags /\ "/" \in Tags
      BY DEF Tags, Short
    <2>3. ASSUME NEW a \in 1 .. Len(f), f[a] = "<" PROVE a = 1 \/ a = 5
      BY <1>1, <2>3
    <2> QED
      BY <1>1, <2>1, <2>2, <2>3 DEF WellFormed
  <1> QED
    BY <1>1, <1>2, <1>5, <1>6, <1>7 DEF f

\* nothing of the shorter tail,
LEMMA ResetShown ==
  /\ Reset \in Seq(Cells) /\ WellFormed(Reset) /\ Visible(Reset) = <<>>
  <1> DEFINE f == Reset
             K == Kept(f, Outside(f))
  <1>1. /\ f \in Seq(Cells) /\ Len(f) = 3
        /\ f[1] = "<" /\ f[2] = "/" /\ f[3] = ">"
    BY ResetOK, Wider DEF Reset
  <1> HIDE DEF f
  <1>2. K[0] = <<>>
    BY <1>1, KeptTypes
  <1>3. Clear(f, 1) /\ 1 \in 1 .. Len(f)
    BY <1>1, ClearStart
  <1>4. TagBehind(f, 0)
    BY <1>1, <1>3 DEF TagBehind
  <1>5. K[3] = <<>>
    BY <1>1, <1>2, <1>4, TagHidden
  <1>6. WellFormed(f)
    <2>1. 1 + 2 \in First(f, ">", 1)
      BY <1>1, <1>3, TagFound
    <2>2. "/" \in Tags
      BY DEF Tags, Short
    <2>3. ASSUME NEW a \in 1 .. Len(f), f[a] = "<" PROVE a = 1
      BY <1>1, <2>3
    <2> QED
      BY <1>1, <2>1, <2>2, <2>3 DEF WellFormed
  <1>7. Visible(f) = <<>>
    BY <1>1, <1>5, Zenon DEF Visible
  <1> QED
    BY <1>1, <1>6, <1>7 DEF f

\* (three things and one, joined)
LEMMA ThreeAndOne ==
  ASSUME NEW r \in Seq(Cells), NEW c \in Seq(Cells)
  PROVE  Len(r) = 3 /\ Len(c) = 1 =>
           /\ (r \o c)[1] = r[1] /\ (r \o c)[2] = r[2] /\ (r \o c)[3] = r[3]
           /\ (r \o c)[4] = c[1]
  <1> DEFINE u == r \o c
  <1>1. /\ \A j \in 1 .. Len(r) : u[j] = r[j]
        /\ \A j \in 1 .. Len(c) : u[Len(r) + j] = c[j]
    BY PartsOf
  <1> HIDE DEF u
  <1> SUFFICES ASSUME Len(r) = 3, Len(c) = 1
               PROVE  u[1] = r[1] /\ u[2] = r[2] /\ u[3] = r[3] /\ u[4] = c[1]
    BY DEF u
  <1>2. u[1] = r[1] /\ u[2] = r[2] /\ u[3] = r[3] /\ u[3 + 1] = c[1]
    BY <1>1
  <1>3. u[4] = c[1]
    BY <1>2
  <1> QED
    BY <1>2, <1>3

\* and a newline of the longer one.
LEMMA TailShown ==
  LET f == Reset \o <<"nl">>
  IN  f \in Seq(Cells) /\ WellFormed(f) /\ Visible(f) = <<"nl">>
  <1> DEFINE f == Reset \o <<"nl">>
             K == Kept(f, Outside(f))
  <1>1. /\ f \in Seq(Cells) /\ Len(f) = 4
        /\ f[1] = "<" /\ f[2] = "/" /\ f[3] = ">" /\ f[4] = "nl"
    <2>1. f \in Seq(Cells) /\ Len(f) = 4
      BY ResetOK, Wider
    <2> DEFINE n == <<"nl">>
    <2>2. n \in Seq(Cells) /\ Len(n) = 1 /\ n[1] = "nl"
      BY DEF Cells, Chars
    <2>3. /\ Reset \in Seq(Cells) /\ Len(Reset) = 3
          /\ Reset[1] = "<" /\ Reset[2] = "/" /\ Reset[3] = ">"
      BY ResetOK, Wider DEF Reset
    <2> HIDE DEF n
    <2>5. /\ (Reset \o n)[1] = Reset[1] /\ (Reset \o n)[2] = Reset[2]
          /\ (Reset \o n)[3] = Reset[3] /\ (Reset \o n)[4] = n[1]
      BY <2>2, <2>3, ThreeAndOne, Zenon
    <2> QED
      BY <2>1, <2>2, <2>3, <2>5, Zenon DEF n
  <1> HIDE DEF f
  <1>2. K[0] = <<>>
    BY <1>1, KeptTypes
  <1>3. Clear(f, 1) /\ 1 \in 1 .. Len(f)
    BY <1>1, ClearStart
  <1>4. TagBehind(f, 0)
    BY <1>1, <1>3 DEF TagBehind
  <1>5. K[4] = <<>> \o <<"nl">>
    <2>1. OneShown(f, 0, 4)
      BY <1>1, <1>4, TagAndOne
    <2> QED
      BY <1>1, <1>2, <2>1, Zenon DEF OneShown
  <1>8. <<>> \o <<"nl">> = <<"nl">>
    OBVIOUS
  <1>6. WellFormed(f)
    <2>1. 1 + 2 \in First(f, ">", 1)
      BY <1>1, <1>3, TagFound
    <2>2. "/" \in Tags
      BY DEF Tags, Short
    <2>3. ASSUME NEW a \in 1 .. Len(f), f[a] = "<" PROVE a = 1
      BY <1>1, <2>3
    <2> QED
      BY <1>1, <2>1, <2>2, <2>3 DEF WellFormed
  <1>7. Visible(f) = <<"nl">>
    BY <1>1, <1>5, <1>8, Zenon DEF Visible
  <1> QED
    BY <1>1, <1>6, <1>7 DEF f

\* The type of what is visible.
LEMMA VisibleSeq ==
  ASSUME NEW f \in Seq(Cells)
  PROVE  Visible(f) \in Seq(Cells) /\ Kept(f, Outside(f))[Len(f)] = Visible(f)
  <1>1. Len(f) \in 0 .. Len(f)
    OBVIOUS
  <1> QED
    BY <1>1, KeptIsSeq, Zenon DEF Visible

\* The library's own pieces.
LEMMA OwnPieces ==
  ASSUME TypeOK, piece # "text"
  PROVE  /\ WellFormed(Format) /\ Len(Visible(Format)) < ShowSize
         /\ piece = "head" => Visible(Format) = Visible(Name)
         /\ piece = "tail" => Visible(Format) = IF newline THEN <<"nl">> ELSE <<>>
  <1>1. ShowSize \in Nat /\ 0 < ShowSize /\ 1 < ShowSize /\ 2 < ShowSize
    BY SpeechAssumption
  <1>2. CASE piece = "head"
    <2>1. Format = Name
      BY <1>2 DEF Format
    <2> QED
      BY <1>1, <1>2, <2>1, NameShown
  <1>3. CASE piece = "tail" /\ newline
    <2> DEFINE f == Reset \o <<"nl">>
    <2>1. Format = f
      BY <1>3 DEF Format
    <2>2. WellFormed(f) /\ Visible(f) = <<"nl">>
      BY TailShown, Zenon
    <2>3. Len(<<"nl">>) = 1
      OBVIOUS
    <2> HIDE DEF f
    <2> QED
      BY <1>1, <1>3, <2>1, <2>2, <2>3
  <1>4. CASE piece = "tail" /\ ~ newline
    <2>1. Format = Reset
      BY <1>4 DEF Format
    <2>2. Len(<<>>) = 0
      OBVIOUS
    <2> QED
      BY <1>1, <1>4, <2>1, <2>2, ResetShown
  <1> QED
    BY <1>2, <1>3, <1>4 DEF TypeOK

\* Of nothing nothing is readable.
LEMMA NothingRead ==
  /\ Readable(<<>>) = <<>>
  /\ \A f \in Seq(Cells) : Kept(f, Outside(f))[0] = <<>>
  <1>1. <<>> \in Seq(Cells) /\ Len(<<>>) = 0
    OBVIOUS
  <1>2. Kept(<<>>, Letters(<<>>))[0] = <<>>
    BY <1>1, KeptTypes
  <1>3. Readable(<<>>) = Kept(<<>>, Letters(<<>>))[0]
    BY <1>1, Zenon DEF Readable
  <1> QED
    BY <1>2, <1>3, KeptTypes

\* A piece begins.
LEMMA Begun ==
  ASSUME Format \in Seq(Cells), p = 1, buf = <<>>
  PROVE  Following /\ Reading
  <1>1. p - 1 = 0 /\ ~ (p > 1) /\ buf \in Seq(Chars) /\ Len(buf) = 0
    OBVIOUS
  <1>2. Readable(buf) = Kept(Format, Outside(Format))[p - 1]
    BY <1>1, NothingRead
  <1>3. Following
    BY <1>2, ClearStart DEF Following
  <1>4. Reading
    BY <1>1 DEF Reading
  <1> QED
    BY <1>3, <1>4

\* The same a step later.
LEMMA BegunNext ==
  ASSUME Format' \in Seq(Cells), p' = 1, buf' = <<>>
  PROVE  Following' /\ Reading'
  <1>1. p' - 1 = 0 /\ ~ (p' > 1) /\ buf' \in Seq(Chars) /\ Len(buf') = 0
    OBVIOUS
  <1>2. Readable(buf') = Kept(Format', Outside(Format'))[p' - 1]
    BY <1>1, NothingRead
  <1>3. Following'
    BY <1>2, ClearStart DEF Following
  <1>4. Reading'
    BY <1>1 DEF Reading
  <1> QED
    BY <1>3, <1>4

\* The second invariant holds at the start.
LEMMA SayInit == Init => SInv
  <1> SUFFICES ASSUME Init PROVE SInv
    OBVIOUS
  <1>1. TypeOK
    BY InitOK DEF IInv
  <1>2. Following /\ Reading
    BY <1>1, FormatOK, Begun DEF Init
  <1>3. Newlined
    BY DEF Init, NewlineOf, Newlined
  <1>4. Plain = <<>> /\ piece # "tail"
    BY NothingRead DEF Init, Plain
  <1>5. Spoken /\ Lined
    BY <1>4 DEF Spoken, Sofar, Lined
  <1> QED
    BY <1>2, <1>3, <1>5 DEF SInv

\* A step that writes nothing leaves what has been said as it was.
LEMMA Unsaid ==
  ASSUME SInv, at = "scan", at' \in {"scan", "wild"},
         UNCHANGED <<text, saying, newline, tracer, piece, shown>>
  PROVE  Newlined' /\ Spoken' /\ Lined'
  <1>1. Plain' = Plain
    BY DEF Plain
  <1>2. at' = "scan" => Sofar' = Sofar
    BY DEF Sofar
  <1>3. Proper' = Proper
    BY DEF Proper
  <1>4. Newlined'
    BY DEF SInv, Newlined
  <1>5. Spoken'
    BY <1>1, <1>2, <1>3 DEF SInv, Spoken
  <1>6. Lined'
    BY <1>1 DEF SInv, Lined
  <1> QED
    BY <1>4, <1>5, <1>6

\* A newline at the end stays there when something is put before it.
LEMMA EndJoined ==
  ASSUME NEW s \in Seq(Cells), NEW t \in Seq(Cells), EndsNl(t)
  PROVE  EndsNl(s \o t)
  <1>1. /\ Len(t) \in Nat /\ Len(t) > 0 /\ Len(s) \in Nat
        /\ t[Len(t)] = "nl"
    BY DEF EndsNl
  <1>2. Len(s \o t) = Len(s) + Len(t) /\ (s \o t)[Len(s) + Len(t)] = t[Len(t)]
    BY <1>1
  <1> QED
    BY <1>1, <1>2 DEF EndsNl

\* A newline is one.
LEMMA OneEnds == EndsNl(<<"nl">>)
  BY DEF EndsNl

\* Put goes on reading, or has left the buffer.
LEMMA PutFollows ==
  ASSUME TypeOK, SInv, Coloring, NEW s \in Seq(Cells), NEW to \in p + 1 .. Len(Format) + 1,
         Put(s, to),
         WellFormed(Format) =>
           /\ Clear(Format, to)
           /\ Kept(Format, Outside(Format))[to - 1] =
                Kept(Format, Outside(Format))[p - 1] \o Readable(s),
         Format[to - 1] = "nl" => EndsNl(Readable(s))
  PROVE  SInv'
  <1>1. /\ UNCHANGED <<text, saying, newline, tracer, piece, shown>>
        /\ at = "scan" /\ tracer = "color" /\ at' \in {"scan", "wild"}
    BY DEF Put, Coloring
  <1>2. Format' = Format
    BY <1>1 DEF Format
  <1>3. Newlined' /\ Spoken' /\ Lined'
    BY <1>1, Unsaid
  <1>4. CASE at' = "wild"
    BY <1>3, <1>4 DEF SInv, Following, Reading
  <1>5. CASE at' = "scan"
    <2>1. buf' = buf \o s /\ p' = to
      BY <1>5 DEF Put
    <2>2. buf \in Seq(Cells)
      BY DEF TypeOK, Cells
    <2>3. Readable(buf') = Readable(buf) \o Readable(s)
      BY <2>1, <2>2, ReadableJoined
    <2>4. Following'
      <3>1. ASSUME WellFormed(Format)
            PROVE  /\ Clear(Format, to)
                   /\ Readable(buf') = Kept(Format, Outside(Format))[to - 1]
        <4>1. Readable(buf) = Kept(Format, Outside(Format))[p - 1]
          BY <1>1, <3>1 DEF SInv, Following
        <4> QED
          BY <2>3, <3>1, <4>1, Zenon
      <3> QED
        BY <1>2, <2>1, <3>1, Zenon DEF Following
    <2>5. Reading'
      <3>1. Format[to - 1] = "nl" => EndsNl(Readable(buf'))
        BY <2>2, <2>3, ReadableSeq, EndJoined
      <3> QED
        BY <1>1, <1>2, <2>1, <3>1 DEF Reading
    <2> QED
      BY <1>3, <2>4, <2>5 DEF SInv
  <1> QED
    BY <1>1, <1>4, <1>5

\* vcolorprintf: whatever it puts is what it has read, without the tag.
LEMMA ColorFollows == TypeOK /\ SInv /\ (Copy \/ Known \/ Unknown) => SInv'
  <1> SUFFICES ASSUME TypeOK, SInv, Copy \/ Known \/ Unknown PROVE SInv'
    OBVIOUS
  <1> DEFINE K == Kept(Format, Outside(Format))
  <1>1. /\ Format \in Seq(Chars) /\ Format \in Seq(Cells) /\ Len(Format) \in Nat
        /\ p \in Nat /\ p >= 1
    BY FormatOK DEF TypeOK
  <1>2. /\ Coloring /\ at = "scan" /\ tracer = "color" /\ p <= Len(Format)
        /\ p \in 1 .. Len(Format) /\ p \in 1 .. Len(Format) + 1 /\ Format[p] \in Chars
    BY <1>1 DEF Copy, Known, Unknown, Coloring
  <1>3. WellFormed(Format) => Clear(Format, p) /\ K[p - 1] \in Seq(Cells)
    <2>1. p - 1 \in 0 .. Len(Format)
      BY <1>1, <1>2
    <2> QED
      BY <1>1, <1>2, <2>1, KeptTypes DEF SInv, Following
  <1>4. CASE Copy
    <2> DEFINE one == <<Format[p]>>
               to == p + 1
    <2>1. /\ Put(one, to)
          /\ Format[p] = "<" => First(Format, ">", p) = {}
          /\ to \in p + 1 .. Len(Format) + 1 /\ to - 1 = p
      BY <1>1, <1>2, <1>4 DEF Copy
    <2>2. one \in Seq(Chars) /\ one \in Seq(Cells) /\ one = SubSeq(Format, p, p)
      <3>1. one \in Seq(Chars)
        BY <1>2
      <3> QED
        BY <1>1, <1>2, <3>1, Wider, SubOne
    <2>3. Readable(one) = one
      BY <2>2, ReadableText
    <2>4. ASSUME Format[p] = "nl" PROVE EndsNl(one)
      <3>1. one = <<"nl">>
        BY <2>4
      <3> QED
        BY <3>1, OneEnds, Zenon
    <2> HIDE DEF one, to
    <2>5. ASSUME WellFormed(Format) PROVE Clear(Format, to) /\ K[to - 1] = K[p - 1] \o one
      <3>1. Format[p] # "<"
        BY <1>2, <2>1, <2>5 DEF WellFormed
      <3>2. p \in p - 1 .. Len(Format) /\ \A k \in p .. p : Format[k] # "<"
        BY <1>1, <1>2, <3>1
      <3> HIDE DEF K
      <3>3. Clear(Format, p + 1) /\ K[p] = K[p - 1] \o SubSeq(Format, p, p)
        BY <1>1, <1>2, <1>3, <2>5, <3>2, Copied DEF K
      <3> QED
        BY <2>1, <2>2, <3>3, Zenon DEF to
    <2> QED
      BY <1>2, <2>1, <2>2, <2>3, <2>4, <2>5, PutFollows
  <1>5. CASE Known
    <2>1. PICK end \in First(Format, ">", p) :
            Format[p] = "<" /\ Put(Code(Format[p + 1]), end + 1)
      BY <1>5 DEF Known
    <2> DEFINE code == Code(Format[p + 1])
               to == end + 1
    <2>2. code \in Seq(Cells) /\ Readable(code) = <<>> /\ Put(code, to)
      BY <2>1, CodeOK, ReadableCode
    <2>3. /\ end \in p .. Len(Format) /\ Format[end] = ">" /\ end \in Nat
          /\ to \in p + 1 .. Len(Format) + 1 /\ to - 1 = end
      BY <1>1, <2>1 DEF First
    <2> HIDE DEF code, to
    <2>4. ASSUME WellFormed(Format) PROVE Clear(Format, to) /\ K[to - 1] = K[p - 1] \o <<>>
      <3>1. K[p - 1] \o <<>> = K[p - 1]
        BY <1>3, <2>4, EmptyJoined
      <3> HIDE DEF K
      <3>2. Clear(Format, end + 1) /\ K[end] = K[p - 1]
        BY <1>1, <1>2, <1>3, <2>1, <2>4, Dropped DEF K
      <3> QED
        BY <2>3, <3>1, <3>2, Zenon DEF to
    <2>5. Format[to - 1] # "nl"
      BY <2>3
    <2> QED
      BY <1>2, <2>2, <2>3, <2>4, <2>5, PutFollows
  <1>6. CASE Unknown
    <2>1. PICK end \in First(Format, ">", p) :
            /\ Format[p] = "<" /\ Format[p + 1] \notin Tags
            /\ Put(SubSeq(Format, p, end), end + 1)
      BY <1>6 DEF Unknown
    <2> DEFINE tag == SubSeq(Format, p, end)
               to == end + 1
    <2>2. /\ end \in p .. Len(Format) /\ Format[end] = ">" /\ end \in Nat
          /\ to \in p + 1 .. Len(Format) + 1 /\ to - 1 = end /\ Format[to - 1] # "nl"
      BY <1>1, <2>1 DEF First
    <2>3. tag \in Seq(Cells) /\ Put(tag, to)
      BY <1>1, <1>2, <2>1, <2>2, Part
    <2>4. ~ WellFormed(Format)
      BY <1>2, <2>1 DEF WellFormed
    <2> HIDE DEF tag, to
    <2> QED
      BY <1>2, <2>2, <2>3, <2>4, PutFollows
  <1> QED
    BY <1>4, <1>5, <1>6

\* The second tracer goes on reading.
LEMMA AppendFollows ==
  ASSUME TypeOK, SInv, Blackening, NEW s \in Seq(Chars), NEW to \in p + 1 .. Len(Format) + 1,
         Append2(s, to), Len(s) <= to - p, Format[to - 1] \in {"<", ">"},
         WellFormed(Format) =>
           /\ Clear(Format, to)
           /\ Kept(Format, Outside(Format))[to - 1] =
                Kept(Format, Outside(Format))[p - 1] \o s
  PROVE  SInv'
  <1>1. /\ UNCHANGED <<text, saying, newline, tracer, piece, shown>>
        /\ at = "scan" /\ tracer = "bw" /\ at' = "scan" /\ buf' = buf \o s /\ p' = to
    BY DEF Append2, Blackening
  <1>2. Format' = Format
    BY <1>1 DEF Format
  <1>3. Newlined' /\ Spoken' /\ Lined'
    BY <1>1, Unsaid
  <1>4. buf \in Seq(Chars) /\ Len(buf) <= p - 1 /\ p \in Int /\ to \in Int /\ to >= p + 1 /\ p >= 1
    BY <1>1, FormatOK DEF SInv, Reading, TypeOK
  <1>5. buf' \in Seq(Chars) /\ Len(buf') = Len(buf) + Len(s) /\ Len(s) \in Nat
    BY <1>1, <1>4, Joined
  <1>6. Following'
    <2>1. Readable(buf') = Readable(buf) \o s
      BY <1>1, <1>4, Wider, ReadableJoined, ReadableText
    <2>2. ASSUME WellFormed(Format)
          PROVE  /\ Clear(Format, to)
                 /\ Readable(buf') = Kept(Format, Outside(Format))[to - 1]
      <3>1. Readable(buf) = Kept(Format, Outside(Format))[p - 1]
        BY <1>1, <2>2 DEF SInv, Following
      <3> QED
        BY <2>1, <2>2, <3>1, Zenon
    <2> QED
      BY <1>1, <1>2, <2>2, Zenon DEF Following
  <1>7. Reading'
    <2>1. Len(buf') <= to - 1
      BY <1>4, <1>5
    <2> QED
      BY <1>1, <1>2, <1>5, <2>1 DEF Reading
  <1> QED
    BY <1>3, <1>6, <1>7 DEF SInv

\* The second tracer: the same of what it leaves out.
LEMMA BlackFollows == TypeOK /\ SInv /\ (DropTag \/ KeepOpen) => SInv'
  <1> SUFFICES ASSUME TypeOK, SInv, DropTag \/ KeepOpen PROVE SInv'
    OBVIOUS
  <1> DEFINE K == Kept(Format, Outside(Format))
  <1>1. /\ Format \in Seq(Chars) /\ Format \in Seq(Cells) /\ Len(Format) \in Nat
        /\ p \in Nat /\ p >= 1 /\ p \in 1 .. Len(Format) + 1
    BY FormatOK DEF TypeOK
  <1>2. Blackening /\ at = "scan" /\ tracer = "bw"
    BY DEF DropTag, KeepOpen, Blackening
  <1>3. WellFormed(Format) => Clear(Format, p)
    BY <1>2 DEF SInv, Following
  <1>4. CASE DropTag
    <2>1. PICK begin \in First(Format, "<", p) : \E end \in First(Format, ">", begin) :
            Append2(SubSeq(Format, p, begin - 1), end + 1)
      BY <1>4 DEF DropTag
    <2>2. PICK end \in First(Format, ">", begin) :
            Append2(SubSeq(Format, p, begin - 1), end + 1)
      BY <2>1
    <2> DEFINE before == SubSeq(Format, p, begin - 1)
               to == end + 1
               b == begin - 1
    <2>3. /\ begin \in p .. Len(Format) /\ Format[begin] = "<" /\ begin \in 1 .. Len(Format)
          /\ \A k \in p .. begin - 1 : Format[k] # "<"
      BY <1>1, <2>1 DEF First
    <2>4. end \in begin .. Len(Format) /\ Format[end] = ">"
      BY DEF First
    <2>5. /\ to \in p + 1 .. Len(Format) + 1 /\ to - 1 = end /\ Format[to - 1] \in {"<", ">"}
          /\ b \in p - 1 .. Len(Format) /\ b + 1 = begin /\ begin - 1 = b
          /\ Append2(before, to)
      BY <1>1, <2>2, <2>3, <2>4
    <2>6. before \in Seq(Chars) /\ Len(before) = b - p + 1
      BY <1>1, <2>5, Part
    <2>7. Len(before) <= to - p
      BY <1>1, <2>3, <2>4, <2>6
    <2>8. before = SubSeq(Format, p, b)
      OBVIOUS
    <2>9. \A k \in p .. b : Format[k] # "<"
      BY <2>3
    <2> HIDE DEF before, to, b
    <2>10. ASSUME WellFormed(Format) PROVE Clear(Format, to) /\ K[to - 1] = K[p - 1] \o before
      <3> HIDE DEF K
      <3>1. Clear(Format, b + 1) /\ K[b] = K[p - 1] \o SubSeq(Format, p, b)
        BY <1>1, <1>3, <2>5, <2>9, <2>10, Copied DEF K
      <3>2. Clear(Format, begin)
        BY <2>5, <3>1, Zenon
      <3>3. Clear(Format, end + 1) /\ K[end] = K[begin - 1]
        BY <1>1, <2>3, <3>2, Dropped DEF K
      <3> QED
        BY <2>5, <2>8, <3>1, <3>3, Zenon DEF to
    <2> QED
      BY <1>2, <2>5, <2>6, <2>7, <2>10, AppendFollows
  <1>5. CASE KeepOpen
    <2>1. PICK begin \in First(Format, "<", p) :
            First(Format, ">", begin) = {} /\ Append2(SubSeq(Format, p, begin), begin + 1)
      BY <1>5 DEF KeepOpen
    <2> DEFINE before == SubSeq(Format, p, begin)
               to == begin + 1
    <2>2. /\ begin \in p .. Len(Format) /\ Format[begin] = "<" /\ begin \in 1 .. Len(Format)
          /\ begin \in Nat /\ begin \in p - 1 .. Len(Format)
      BY <1>1 DEF First
    <2>3. ~ WellFormed(Format)
      BY <2>1, <2>2 DEF WellFormed
    <2>4. /\ to \in p + 1 .. Len(Format) + 1 /\ to - 1 = begin
          /\ Format[to - 1] \in {"<", ">"} /\ Append2(before, to)
      BY <1>1, <2>1, <2>2
    <2>5. before \in Seq(Chars) /\ Len(before) = begin - p + 1
      BY <1>1, <2>2, Part
    <2>6. Len(before) <= to - p
      BY <1>1, <2>2, <2>5
    <2> HIDE DEF before, to
    <2> QED
      BY <1>2, <2>3, <2>4, <2>5, <2>6, AppendFollows
  <1> QED
    BY <1>4, <1>5

\* The buffer with the rest of the piece.
Cleared == buf \o SubSeq(Format, p, Len(Format))

\* What Show makes of the rest of a piece.
LEMMA Cleaned ==
  ASSUME TypeOK, SInv, Show,
         NEW clean, clean = Cleared
  PROVE  /\ clean \in Seq(Chars) /\ clean \in Seq(Cells) /\ Len(clean) \in Nat
         /\ Len(clean) <= Len(Format)
         /\ WellFormed(Format) => clean = Visible(Format)
         /\ Len(Format) > 0 /\ Format[Len(Format)] = "nl" => EndsNl(clean)
         /\ Len(clean) < ShowSize => Plain' = Plain \o clean
  <1> DEFINE K == Kept(Format, Outside(Format))
             rest == SubSeq(Format, p, Len(Format))
  <1>1. /\ Format \in Seq(Chars) /\ Format \in Seq(Cells) /\ Len(Format) \in Nat
        /\ p \in Nat /\ p >= 1 /\ p \in 1 .. Len(Format) + 1
        /\ Len(Format) \in p - 1 .. Len(Format)
    BY FormatOK DEF TypeOK
  <1>2. /\ at = "scan" /\ tracer = "bw" /\ First(Format, "<", p) = {}
        /\ shown' = CASE Len(clean) < ShowSize -> shown \o clean
                      [] Len(clean) = ShowSize -> shown \o SubSeq(clean, 1, ShowSize - 1)
                      [] OTHER -> shown
    BY DEF Show, Blackening, Cleared
  <1>3. /\ buf \in Seq(Chars) /\ Len(buf) <= p - 1 /\ Len(buf) \in Nat
        /\ p > 1 => Format[p - 1] \in {"<", ">"}
    BY <1>2 DEF SInv, Reading
  <1>4. rest \in Seq(Chars) /\ Len(rest) = Len(Format) - p + 1
    BY <1>1, Part
  <1>5. p <= Len(Format) => rest[Len(rest)] = Format[Len(Format)]
    <2>1. ASSUME NEW f \in Seq(Chars), NEW q \in 1 .. Len(f)
          PROVE  SubSeq(f, q, Len(f))[Len(f) - q + 1] = f[Len(f)]
      OBVIOUS
    <2>2. p <= Len(Format) => p \in 1 .. Len(Format)
      BY <1>1
    <2> QED
      BY <1>1, <1>4, <2>1, <2>2
  <1> HIDE DEF rest
  <1>6. clean = buf \o rest
    BY DEF rest, Cleared
  <1>7. clean \in Seq(Chars) /\ Len(clean) = Len(buf) + Len(rest)
    BY <1>3, <1>4, <1>6, Joined
  <1>8. clean \in Seq(Cells) /\ Len(clean) \in Nat /\ Len(clean) <= Len(Format)
    BY <1>1, <1>3, <1>4, <1>7, Wider
  <1>9. ASSUME WellFormed(Format) PROVE clean = Visible(Format)
    <2>1. \A k \in p .. Len(Format) : Format[k] # "<"
      BY <1>1, <1>2, FirstFinds
    <2>2. Clear(Format, p) /\ Readable(buf) = K[p - 1]
      BY <1>2, <1>9 DEF SInv, Following
    <2> HIDE DEF K
    <2>3. K[Len(Format)] = K[p - 1] \o SubSeq(Format, p, Len(Format))
      BY <1>1, <2>1, <2>2, Copied DEF K
    <2>4. Readable(buf) = buf
      BY <1>3, ReadableText
    <2>5. K[Len(Format)] = Visible(Format)
      BY Zenon DEF Visible, K
    <2> QED
      BY <1>6, <2>2, <2>3, <2>4, <2>5, Zenon DEF rest
  <1>10. ASSUME Len(Format) > 0, Format[Len(Format)] = "nl" PROVE EndsNl(clean)
    <2>1. p <= Len(Format)
      <3>1. CASE p = Len(Format) + 1
        BY <1>1, <1>3, <1>10, <3>1
      <3> QED
        BY <1>1, <3>1
    <2>2. rest # <<>> /\ rest[Len(rest)] = "nl"
      BY <1>1, <1>4, <1>5, <1>10, <2>1
    <2> QED
      BY <1>3, <1>4, <1>6, <2>2, Wider, EndJoined DEF EndsNl
  <1>11. ASSUME Len(clean) < ShowSize PROVE Plain' = Plain \o clean
    <2> DEFINE all == shown \o clean
               most == shown \o SubSeq(clean, 1, ShowSize - 1)
    <2>3. shown' = CASE Len(clean) < ShowSize -> all
                     [] Len(clean) = ShowSize -> most
                     [] OTHER -> shown
      BY <1>2
    <2>4. Len(clean) # ShowSize
      BY <1>8, <1>11, SpeechAssumption
    <2> HIDE DEF all, most
    <2>5. shown' = all
      BY <1>11, <2>3, <2>4
    <2>1. shown' = shown \o clean
      BY <2>5 DEF all
    <2>2. shown \in Seq(Cells)
      BY DEF TypeOK, Cells
    <2> QED
      BY <1>7, <1>8, <2>1, <2>2, ReadableJoined, ReadableText DEF Plain
  <1> QED
    BY <1>7, <1>8, <1>9, <1>10, <1>11, Zenon

\* What Emit writes of a piece.
LEMMA Emitted ==
  ASSUME TypeOK, SInv, Emit
  PROVE  /\ Readable(buf) \in Seq(Cells) /\ Plain \in Seq(Cells)
         /\ Plain' = Plain \o Readable(buf)
         /\ WellFormed(Format) => Readable(buf) = Visible(Format)
         /\ Len(Format) > 0 /\ Format[Len(Format)] = "nl" => EndsNl(Readable(buf))
  <1>1. Format \in Seq(Cells) /\ Len(Format) \in Nat
    BY FormatOK
  <1>2. /\ at = "scan" /\ tracer = "color" /\ p = Len(Format) + 1 /\ p - 1 = Len(Format)
        /\ shown' = (shown \o buf) \o Code("/")
    BY <1>1 DEF Emit
  <1>3. buf \in Seq(Cells) /\ shown \in Seq(Cells) /\ Code("/") \in Seq(Cells)
    BY CodeOK DEF TypeOK, Cells
  <1>4. Readable(buf) \in Seq(Cells) /\ Plain \in Seq(Cells)
    BY <1>3, ReadableSeq DEF Plain
  <1>5. Plain' = Plain \o Readable(buf)
    <2>1. shown \o buf \in Seq(Cells)
      BY <1>3, Joined
    <2>2. Readable(shown') = Readable(shown \o buf) \o Readable(Code("/"))
      BY <1>2, <1>3, <2>1, ReadableJoined
    <2>3. Readable(shown \o buf) = Readable(shown) \o Readable(buf)
      BY <1>3, ReadableJoined
    <2>4. Readable(Code("/")) = <<>>
      BY ReadableCode
    <2>5. Readable(shown) \o Readable(buf) \in Seq(Cells)
      BY <1>3, ReadableSeq, Joined
    <2>6. (Readable(shown) \o Readable(buf)) \o <<>> = Readable(shown) \o Readable(buf)
      BY <2>5, EmptyJoined
    <2> QED
      BY <2>2, <2>3, <2>4, <2>6, Zenon DEF Plain
  <1>6. WellFormed(Format) => Readable(buf) = Visible(Format)
    <2>1. WellFormed(Format) => Readable(buf) = Kept(Format, Outside(Format))[p - 1]
      BY <1>2 DEF SInv, Following
    <2> QED
      BY <1>2, <2>1, Zenon DEF Visible
  <1>7. Len(Format) > 0 /\ Format[Len(Format)] = "nl" => EndsNl(Readable(buf))
    BY <1>1, <1>2 DEF SInv, Reading
  <1> QED
    BY <1>4, <1>5, <1>6, <1>7, Zenon

\* A piece that is well formed adds what is visible of it.
LEMMA Wrote ==
  ASSUME TypeOK, SInv, Emit \/ Show, WellFormed(Format), Len(Visible(Format)) < ShowSize
  PROVE  Plain' = Plain \o Visible(Format)
  <1>1. CASE Emit
    BY <1>1, Emitted, Zenon
  <1>2. CASE Show
    <2> DEFINE clean == Cleared
    <2>1. /\ clean = Visible(Format)
          /\ Len(clean) < ShowSize => Plain' = Plain \o clean
      BY <1>2, Cleaned, Zenon
    <2> HIDE DEF clean
    <2> QED
      BY <2>1, Zenon
  <1> QED
    BY <1>1, <1>2

\* A piece that ends a line does.
LEMMA WroteLine ==
  ASSUME TypeOK, SInv, Emit \/ Show, Len(Format) > 0, Len(Format) < ShowSize,
         Format[Len(Format)] = "nl"
  PROVE  EndsNl(Plain')
  <1>1. Plain \in Seq(Cells)
    BY ReadableSeq DEF Plain, TypeOK, Cells
  <1>2. CASE Emit
    BY <1>2, Emitted, EndJoined
  <1>3. CASE Show
    <2> DEFINE clean == Cleared
    <2>1. /\ clean \in Seq(Cells) /\ Len(clean) \in Nat /\ Len(clean) <= Len(Format)
          /\ EndsNl(clean)
          /\ Len(clean) < ShowSize => Plain' = Plain \o clean
      BY <1>3, Cleaned, Zenon
    <2> HIDE DEF clean
    <2>2. Len(clean) < ShowSize
      BY <2>1, FormatOK, SpeechAssumption
    <2> QED
      BY <1>1, <2>1, <2>2, EndJoined
  <1> QED
    BY <1>2, <1>3

\* Three sequences joined.
LEMMA Associates ==
  ASSUME NEW a \in Seq(Cells), NEW b \in Seq(Cells), NEW c \in Seq(Cells)
  PROVE  (a \o b) \o c = a \o (b \o c)
  OBVIOUS

\* The type of the end of a line.
LEMMA TailSeq ==
  ASSUME NEW n
  PROVE  (IF n THEN <<"nl">> ELSE <<>>) \in Seq(Cells)
  <1>1. <<>> \in Seq(Cells)
    OBVIOUS
  <1>2. "nl" \in Cells
    BY DEF Cells, Chars
  <1>3. <<"nl">> \in Seq(Cells)
    BY <1>2
  <1> QED
    BY <1>1, <1>3, Zenon

\* What has been said so far and the next piece are what has been said then.
LEMMA SpokenKeeps ==
  ASSUME TypeOK, SInv, Emit \/ Show, Proper
  PROVE  Spoken'
  <1>1. /\ UNCHANGED <<text, saying, newline, tracer>> /\ at = "scan"
        /\ at' = IF piece = "tail" THEN "said" ELSE "scan"
        /\ piece' = IF piece = "head" THEN "text" ELSE "tail"
    BY DEF Emit, Show, NextPiece, Blackening
  <1>2. Plain = Sofar \/ (piece # "head" /\ Plain = Visible(Name) \o Sofar)
    BY <1>1 DEF SInv, Spoken
  <1>3. text \in Seq(Cells) /\ Visible(text) \in Seq(Cells) /\ Visible(Name) \in Seq(Cells)
    BY Wider, VisibleSeq, NameShown DEF TypeOK
  <1>4. Line' = Line
    BY <1>1 DEF Line
  <1>5. \A s \in Seq(Cells) : s \o <<>> = s /\ <<>> \o s = s
    BY EmptyJoined
  <1>6. CASE piece = "head"
    <2>1. Plain = <<>> /\ Sofar' = <<>> /\ piece' # "head"
      BY <1>1, <1>2, <1>6 DEF Sofar
    <2>2. Plain' = <<>> \o Visible(Name)
      BY <1>6, <2>1, OwnPieces, Wrote
    <2>3. Plain' = Visible(Name) \o Sofar'
      BY <1>3, <1>5, <2>1, <2>2, Zenon
    <2> QED
      BY <2>1, <2>3, Zenon DEF Spoken
  <1>7. CASE piece = "text"
    <2>1. Sofar = <<>> /\ Sofar' = Visible(text) /\ piece' # "head"
      BY <1>1, <1>7 DEF Sofar
    <2>2. Format = text
      BY <1>7 DEF Format
    <2>3. Plain' = Plain \o Visible(text)
      BY <2>2, Wrote DEF Proper
    <2>4. Plain = <<>> \/ Plain = Visible(Name)
      BY <1>2, <1>3, <1>5, <2>1, Zenon
    <2>5. Plain' = Sofar' \/ Plain' = Visible(Name) \o Sofar'
      BY <1>3, <1>5, <2>1, <2>3, <2>4, Zenon
    <2> QED
      BY <2>1, <2>5, Zenon DEF Spoken
  <1>8. CASE piece = "tail"
    <2> DEFINE end == IF newline THEN <<"nl">> ELSE <<>>
    <2>1. end \in Seq(Cells)
      BY TailSeq
    <2>2. Plain' = Plain \o end
      BY <1>8, OwnPieces, Wrote
    <2>3. Line = Visible(text) \o end
      BY Zenon DEF Line
    <2> HIDE DEF end
    <2>4. Sofar = Visible(text) /\ Sofar' = Line /\ piece' # "head"
      BY <1>1, <1>4, <1>8 DEF Sofar
    <2>5. CASE Plain = Visible(text)
      BY <2>2, <2>3, <2>4, <2>5, Zenon DEF Spoken
    <2>6. CASE Plain = Visible(Name) \o Visible(text)
      <3>1. (Visible(Name) \o Visible(text)) \o end = Visible(Name) \o (Visible(text) \o end)
        BY <1>3, <2>1, Associates
      <3>2. Plain' = Visible(Name) \o Sofar'
        BY <2>2, <2>3, <2>4, <2>6, <3>1, Zenon
      <3> QED
        BY <2>4, <3>2, Zenon DEF Spoken
    <2> QED
      BY <1>2, <2>4, <2>5, <2>6, Zenon
  <1> QED
    BY <1>6, <1>7, <1>8 DEF TypeOK

\* Either the text or the tail ends the line.
LEMMA LinedKeeps ==
  ASSUME TypeOK, SInv, Emit \/ Show
  PROVE  Lined'
  <1>1. /\ UNCHANGED <<text, saying, newline, tracer>> /\ at = "scan"
        /\ at' = IF piece = "tail" THEN "said" ELSE "scan"
        /\ piece' = IF piece = "head" THEN "text" ELSE "tail"
    BY DEF Emit, Show, NextPiece, Blackening
  <1> SUFFICES ASSUME saying, text # <<>>, Len(text) < ShowSize, tracer # "none",
                      piece' = "tail", at' = "scan" => ~ newline
               PROVE  EndsNl(Plain')
    BY <1>1 DEF Lined
  <1>2. newline = (text[Len(text)] # "nl") /\ text \in Seq(Chars)
    BY DEF SInv, Newlined, TypeOK
  <1>3. CASE piece = "text"
    <2>1. Format = text /\ Len(text) > 0
      BY <1>2, <1>3 DEF Format
    <2>2. ~ newline
      BY <1>1, <1>3
    <2>3. text[Len(text)] = "nl"
      BY <1>2, <2>2
    <2> QED
      BY <2>1, <2>3, WroteLine
  <1>4. CASE piece = "tail"
    <2> DEFINE end == IF newline THEN <<"nl">> ELSE <<>>
    <2>1. Plain' = Plain \o end
      BY <1>4, OwnPieces, Wrote
    <2>2. Plain \in Seq(Cells) /\ end \in Seq(Cells)
      BY ReadableSeq, TailSeq DEF Plain, TypeOK, Cells
    <2>3. CASE newline
      <3>1. end = <<"nl">>
        BY <2>3
      <3> HIDE DEF end
      <3>2. EndsNl(end)
        BY <3>1, OneEnds, Zenon
      <3> QED
        BY <2>1, <2>2, <3>2, EndJoined
    <2>4. CASE ~ newline
      <3>1. end = <<>>
        BY <2>4
      <3>2. EndsNl(Plain)
        BY <1>1, <1>4, <2>4 DEF SInv, Lined
      <3> HIDE DEF end
      <3>3. Plain \o <<>> = Plain
        BY <2>2, EmptyJoined
      <3> QED
        BY <2>1, <3>1, <3>2, <3>3, Zenon
    <2> QED
      BY <2>3, <2>4
  <1> QED
    BY <1>1, <1>3, <1>4 DEF TypeOK

\* The end of a piece.
LEMMA NextPieceSays ==
  ASSUME TypeOK, SInv, TypeOK', Silent \/ Emit \/ Show
  PROVE  SInv'
  <1>1. NextPiece /\ at = "scan"
    BY DEF Silent, Emit, Show, Blackening
  <1>2. Format' \in Seq(Cells)
    <2>1. CASE piece' = "text"
      BY <2>1, Wider DEF Format, TypeOK
    <2>2. CASE piece' = "tail" /\ newline'
      BY <2>2, ResetOK, Wider DEF Format
    <2>3. CASE piece' = "tail" /\ ~ newline'
      BY <2>3, ResetOK, Wider DEF Format
    <2> QED
      BY <1>1, <2>1, <2>2, <2>3 DEF NextPiece
  <1>3. Following' /\ Reading'
    BY <1>1, <1>2, BegunNext DEF NextPiece
  <1>4. Newlined'
    BY <1>1 DEF SInv, Newlined, NextPiece
  <1>5. Proper' = Proper /\ tracer' = tracer
    BY <1>1 DEF NextPiece, Proper
  <1>6. Spoken'
    <2>1. CASE Proper
      BY <2>1, SpokenKeeps DEF Proper, Silent
    <2>2. CASE ~ Proper
      BY <1>5, <2>2 DEF Spoken
    <2> QED
      BY <2>1, <2>2
  <1>7. Lined'
    <2>1. CASE tracer = "none"
      BY <1>5, <2>1 DEF Lined
    <2>2. CASE tracer # "none"
      BY <2>2, LinedKeeps DEF Silent
    <2> QED
      BY <2>1, <2>2
  <1> QED
    BY <1>3, <1>4, <1>6, <1>7 DEF SInv

\* Every step keeps the second invariant.
LEMMA SayStep == IInv /\ SInv /\ [Next]_vars => SInv'
  <1> SUFFICES ASSUME IInv, SInv, [Next]_vars PROVE SInv'
    OBVIOUS
  <1>1. TypeOK /\ TypeOK'
    BY StepOK DEF IInv
  <1>2. CASE Silent \/ Emit \/ Show
    BY <1>1, <1>2, NextPieceSays
  <1>3. CASE Copy \/ Known \/ Unknown
    BY <1>1, <1>3, ColorFollows
  <1>4. CASE DropTag \/ KeepOpen
    BY <1>1, <1>4, BlackFollows
  <1>5. CASE UNCHANGED vars
    <2>1. Format' = Format /\ Plain' = Plain /\ Sofar' = Sofar /\ Proper' = Proper
      BY <1>5 DEF vars, Format, Plain, Sofar, Line, Proper
    <2>2. Following' /\ Reading'
      BY <1>5, <2>1 DEF vars, SInv, Following, Reading
    <2>3. Newlined' /\ Spoken' /\ Lined'
      BY <1>5, <2>1 DEF vars, SInv, Newlined, Spoken, Lined
    <2> QED
      BY <2>2, <2>3 DEF SInv
  <1> QED
    BY <1>2, <1>3, <1>4, <1>5 DEF Next

\* Whatever tags a message has, and however long the buffers are, it ends its line with
\* either tracer; and if its tags are all known, both show exactly the text between
\* them, and one newline.
THEOREM SameTextShown == Spec => []SameText
  <1>1. IInv /\ SInv => SameText
    <2> SUFFICES ASSUME IInv, SInv PROVE SameText
      OBVIOUS
    <2>1. EndsLine
      <3> SUFFICES ASSUME at = "said", tracer # "none", saying, text # <<>>,
                          Len(text) < ShowSize
                   PROVE  Plain[Len(Plain)] = "nl"
        BY DEF EndsLine
      <3> QED
        BY DEF SInv, Newlined, Lined, EndsNl
    <2>2. ASSUME at = "said", Proper
          PROVE  LET more == saying /\ text[Len(text)] # "nl"
                     line == Visible(text) \o IF more THEN <<"nl">> ELSE <<>>
                 IN  Plain = line \/ Plain = Visible(Name) \o line
      <3>1. newline = (saying /\ text[Len(text)] # "nl") /\ piece = "tail"
        BY <2>2 DEF SInv, Newlined, Proper
      <3>2. Sofar = Line
        BY <2>2, <3>1 DEF Sofar
      <3>3. Plain = Line \/ Plain = Visible(Name) \o Line
        BY <2>2, <3>2, Zenon DEF SInv, Spoken
      <3>4. newline <=> (saying /\ text[Len(text)] # "nl")
        BY <3>1
      <3> QED
        BY <3>3, <3>4, Zenon DEF Line
    <2> QED
      BY <2>1, <2>2, Zenon DEF SameText, Proper
  <1> QED
    BY <1>1, InitOK, StepOK, SayInit, SayStep, PTL DEF Spec
=============================================================================
