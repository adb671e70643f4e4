------------------------------- MODULE Speech -------------------------------
(***************************************************************************)
(* daemond_say and daemond_printf: what is said goes to a tracer in three  *)
(* pieces, each a format of its own.  vcolorprintf, which is the tracer    *)
(* unless another is set, turns tags like <r> into terminal codes; the     *)
(* tracer of sample.cpp takes every tag out.                               *)
(*                                                                         *)
(* A format is a sequence of characters, and what an argument expands to   *)
(* is a character of it, like "%s".  A terminal code is a number of "esc", *)
(* one for each of its bytes.                                              *)
(***************************************************************************)
EXTENDS Integers, Sequences

CONSTANTS
  BufSize,    \* of vcolorprintf, 4096
  ShowSize,   \* of bw_console_tracer, 1024
  Texts       \* the formats that daemond_say is given

\* colors, of which each has a name of one letter
Short == {"/", "b"}
Tags == Short \cup {"r", "g", "y", "n", "w"}
Chars == Tags \cup {"<", ">", "nl", "x", "-", "%s"}

Name == <<"<", "g", ">", "%s", "<", "/", ">", "-">>
Reset == <<"<", "/", ">">>

\* The buffers hold what the library itself puts around a text.
ASSUME SpeechAssumption ==
  /\ BufSize \in Nat /\ 3 * BufSize > 5 * Len(Name)
  /\ ShowSize \in Nat /\ ShowSize > 2
  /\ Texts \subseteq Seq(Chars)

VARIABLES
  text,      \* never changes: the format that daemond_say is given
  saying,    \* never changes: by daemond_say, and not by daemond_printf
  newline,   \* never changes: whether a newline is put behind the text
  tracer,    \* never changes: which tracer is set
  piece,     \* the piece that the tracer has been given
  at,        \* "scan"; "said"; "wild": vcolorprintf has written behind its buffer
  p,         \* where the tracer is in the piece: p, or fmt_prev
  buf,       \* what it has composed: buf, or fmt_clean
  shown      \* what has been written

vars == <<text, saying, newline, tracer, piece, at, p, buf, shown>>

Format ==
  CASE piece = "head" -> Name
    [] piece = "text" -> text
    [] piece = "tail" -> IF newline THEN Reset \o <<"nl">> ELSE Reset

TypeOK ==
  /\ text \in Seq(Chars)
  /\ saying \in BOOLEAN /\ newline \in BOOLEAN
  /\ tracer \in {"color", "bw", "none"}
  /\ piece \in {"head", "text", "tail"}
  /\ at \in {"scan", "said", "wild"}
  /\ p \in 1 .. Len(Format) + 1
  /\ buf \in Seq(Chars \cup {"esc"})
  /\ tracer = "color" => Len(buf) < BufSize
  /\ shown \in Seq(Chars \cup {"esc"})

\* Before an empty text there is a byte that can be anything.
NewlineOf(t) == IF t = <<>> THEN BOOLEAN ELSE {t[Len(t)] # "nl"}

\* Without d there is no head.
Init ==
  /\ text \in Texts
  /\ saying \in BOOLEAN
  /\ newline \in IF saying THEN NewlineOf(text) ELSE {FALSE}
  /\ tracer \in {"color", "bw", "none"}
  /\ piece \in {"head", "text"}
  /\ at = "scan"
  /\ p = 1
  /\ buf = <<>>
  /\ shown = <<>>

\* strchr(f + from, c)
First(f, c, from) ==
  {k \in from .. Len(f) : f[k] = c /\ \A j \in from .. k - 1 : f[j] # c}

NextPiece ==
  /\ at' = IF piece = "tail" THEN "said" ELSE "scan"
  /\ piece' = IF piece = "head" THEN "text" ELSE "tail"
  /\ p' = 1
  /\ buf' = <<>>
  /\ UNCHANGED <<text, saying, newline, tracer>>

Silent == at = "scan" /\ tracer = "none" /\ NextPiece /\ UNCHANGED shown

-----------------------------------------------------------------------------
(* vcolorprintf.                                                           *)

\* \033[0m, \033[31m
Code(t) == [k \in 1 .. IF t \in Short THEN 4 ELSE 5 |-> "esc"]

\* Nothing looks at the end of buf: strncat appends less when it comes near to it, but
\* b is moved on as if it had not, and past the end be - b is no limit.  The '\0' of
\* the end takes a byte as well.
Put(s, to) ==
  /\ IF Len(buf) + Len(s) < BufSize
       THEN buf' = buf \o s /\ p' = to /\ UNCHANGED at
       ELSE at' = "wild" /\ UNCHANGED <<buf, p>>
  /\ UNCHANGED <<text, saying, newline, tracer, piece, shown>>

Coloring == at = "scan" /\ tracer = "color" /\ p <= Len(Format)

\* A character, or a '<' that nothing closes.
Copy ==
  /\ Coloring
  /\ Format[p] = "<" => First(Format, ">", p) = {}
  /\ Put(<<Format[p]>>, p + 1)

\* A plausible slip: what has been replaced is copied as well.
KnownCopied ==
  /\ Coloring
  /\ Format[p] = "<"
  /\ First(Format, ">", p) # {} /\ Format[p + 1] \in Tags
  /\ Put(Code(Format[p + 1]), p + 1)

\* A plausible slip: p is set two behind the tag.
KnownSkips ==
  /\ Coloring
  /\ Format[p] = "<"
  /\ \E end \in First(Format, ">", p) :
       /\ Format[p + 1] \in Tags
       /\ Put(Code(Format[p + 1]), end + 2)

\* The first letter decides, whatever follows it up to the '>'.
Known ==
  /\ Coloring
  /\ Format[p] = "<"
  /\ \E end \in First(Format, ">", p) :
       /\ Format[p + 1] \in Tags
       /\ Put(Code(Format[p + 1]), end + 1)

Unknown ==
  /\ Coloring
  /\ Format[p] = "<"
  /\ \E end \in First(Format, ">", p) :
       /\ Format[p + 1] \notin Tags
       /\ Put(SubSeq(Format, p, end), end + 1)

\* vfprintf, and a reset.
Emit ==
  /\ at = "scan" /\ tracer = "color" /\ p = Len(Format) + 1
  /\ shown' = shown \o buf \o Code("/")
  /\ NextPiece

-----------------------------------------------------------------------------
(* bw_console_tracer.                                                      *)

Blackening == at = "scan" /\ tracer = "bw"

Append2(s, to) ==
  /\ buf' = buf \o s
  /\ p' = to
  /\ UNCHANGED <<text, saying, newline, tracer, piece, at, shown>>

\* A plausible slip: fmt_prev is set to the '>'.
DropTagOnly ==
  /\ Blackening
  /\ \E begin \in First(Format, "<", p) : \E end \in First(Format, ">", begin) :
       Append2(SubSeq(Format, p, begin - 1), end)

DropTag ==
  /\ Blackening
  /\ \E begin \in First(Format, "<", p) : \E end \in First(Format, ">", begin) :
       Append2(SubSeq(Format, p, begin - 1), end + 1)

KeepOpen ==
  /\ Blackening
  /\ \E begin \in First(Format, "<", p) :
       /\ First(Format, ">", begin) = {}
       /\ Append2(SubSeq(Format, p, begin), begin + 1)

\* vsnprintf returns the length of the whole and leaves room for a '\0': of exactly
\* ShowSize characters the last one is lost, and more are not written at all.
Show ==
  /\ Blackening
  /\ First(Format, "<", p) = {}
  /\ LET clean == buf \o SubSeq(Format, p, Len(Format))
     IN  shown' = CASE Len(clean) < ShowSize -> shown \o clean
                    [] Len(clean) = ShowSize -> shown \o SubSeq(clean, 1, ShowSize - 1)
                    [] OTHER -> shown
  /\ NextPiece

Next ==
  \/ Silent
  \/ Copy \/ Known \/ Unknown \/ Emit
  \/ DropTag \/ KeepOpen \/ Show

Spec == Init /\ [][Next]_vars

-----------------------------------------------------------------------------
\* vcolorprintf stays in its buffer if the text is shorter than three fifths of it: no
\* tag grows by more than that.
SafeLength == at = "wild" => 5 * Len(text) >= 3 * BufSize

\* Every '<' begins a tag of a known name.
WellFormed(f) ==
  \A a \in 1 .. Len(f) : f[a] = "<" => First(f, ">", a) # {} /\ f[a + 1] \in Tags

InTag(f, k) ==
  \E a \in 1 .. k : /\ f[a] = "<"
                    /\ \A j \in a .. k - 1 : f[j] # ">"
                    /\ \E e \in k .. Len(f) : f[e] = ">"

\* Of the first n members of s those whose places are in P, as a function of n.
Kept(s, P) ==
  LET kept[n \in 0 .. Len(s)] ==
        IF n = 0 THEN <<>>
        ELSE IF n \in P THEN Append(kept[n - 1], s[n]) ELSE kept[n - 1]
  IN  kept

\* The characters of f that are in no tag.
Outside(f) == {k \in 1 .. Len(f) : ~ InTag(f, k)}
Visible(f) == Kept(f, Outside(f))[Len(f)]

\* What is not a terminal code.
Letters(s) == {k \in 1 .. Len(s) : s[k] # "esc"}
Readable(s) == Kept(s, Letters(s))[Len(s)]

Plain == Readable(shown)

\* Whatever is said, even with tags that are unknown or open, ends its line, unless it
\* fills the buffer of the second tracer.
EndsLine ==
  /\ at = "said" /\ tracer # "none" /\ saying
  /\ text # <<>> /\ Len(text) < ShowSize
  => Plain[Len(Plain)] = "nl"

\* Both tracers show the same text of a message whose tags are all known: that between
\* the tags, and one newline at its end if it was said, unless it fills the buffer of
\* the second tracer.  And any message ends its line.
SameText ==
  /\ EndsLine
  /\ ( /\ at = "said" /\ tracer # "none"
       /\ text # <<>> /\ WellFormed(text) /\ Len(Visible(text)) < ShowSize
       => LET more == saying /\ text[Len(text)] # "nl"
              line == Visible(text) \o IF more THEN <<"nl">> ELSE <<>>
          IN  Plain = line \/ Plain = Visible(Name) \o line )
=============================================================================
