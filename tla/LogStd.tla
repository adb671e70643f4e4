------------------------------- MODULE LogStd -------------------------------
(***************************************************************************)
(* daemond_log_std_intercept and daemond_log_std_read: a process puts a    *)
(* pipe in the place of its standard output and reads the lines that it    *)
(* and its children write there.                                           *)
(*                                                                         *)
(* What is written is a sequence of bytes of three sorts: "nl" is '\n',    *)
(* "nul" is '\0' and "x" is any other.  Reading that is interrupted        *)
(* (EINTR) is repeated at once and changes nothing; any other error of     *)
(* read needs a descriptor that somebody else has closed.                  *)
(***************************************************************************)
EXTENDS Integers, Sequences

CONSTANTS
  BufEnd,     \* the buffer has BufEnd + 1 bytes, DAEMOND_LOG_BUF = 4096 of them
  PipeSize,   \* what the pipe holds
  OwnSize,    \* what stdio keeps of the process's own output
  Chunks      \* what is written at once

Bytes == {"x", "nl", "nul"}

ASSUME LogStdAssumption ==
  /\ BufEnd \in Nat \ {0}
  /\ PipeSize \in Nat
  /\ OwnSize \in Nat
  /\ Chunks \subseteq Seq(Bytes)

VARIABLES
  at,        \* where the process is
  pipe,      \* the bytes in the pipe
  own,       \* the process's own output that stdio has not written yet
  buf,       \* the bytes of buf that are before p
  stray,     \* the indices of buf that hold a byte from beyond its end
  crowded    \* history: more than half a buffer has been unread at some time

vars == <<at, pipe, own, buf, stray, crowded>>

\* "start": before the interception.  "wild": p is below buf, and the next read
\* overwrites the stack.
InCall == {"flush", "read", "scan"}
Places == {"start", "out", "dead", "wild"} \cup InCall

\* p never passes the last byte of the buffer, and the pipe and stdio's buffer hold
\* what they can.
TypeOK ==
  /\ at \in Places
  /\ pipe \in Seq(Bytes) /\ Len(pipe) <= PipeSize
  /\ own \in Seq(Bytes) /\ Len(own) <= OwnSize
  /\ buf \in Seq(Bytes) /\ Len(buf) <= BufEnd
  /\ stray \subseteq 0 .. BufEnd
  /\ crowded \in BOOLEAN

Unread == Len(buf) + Len(pipe)

Watch == crowded' = (crowded \/ 2 * Unread' > BufEnd)

\* The process may have printed something before it calls anything.
Init ==
  /\ at = "start"
  /\ pipe = <<>>
  /\ own \in {<<>>} \cup {c \in Chunks : Len(c) <= OwnSize}
  /\ buf = <<>>
  /\ stray = {}
  /\ crowded = FALSE

-----------------------------------------------------------------------------
(* The writers.                                                            *)

\* daemond_log_std_intercept, which does not flush stdout before.
Intercept ==
  /\ at = "start"
  /\ at' \in {"out", "dead"}
  /\ UNCHANGED <<pipe, own, buf, stray, crowded>>

\* A child has the pipe as its standard output.  What it writes at once is not
\* split, and waits until it fits.
ChildWrites(c) ==
  /\ at \notin {"start", "dead", "wild"}
  /\ Len(pipe) + Len(c) <= PipeSize
  /\ pipe' = pipe \o c
  /\ UNCHANGED <<at, own, buf, stray>>
  /\ Watch

\* The process itself prints, between two calls.
Prints(c) ==
  /\ at = "out"
  /\ Len(own) + Len(c) <= OwnSize
  /\ own' = own \o c
  /\ UNCHANGED <<at, pipe, buf, stray, crowded>>

Writers == \E c \in Chunks : ChildWrites(c) \/ Prints(c)

-----------------------------------------------------------------------------
(* daemond_log_std_read.                                                   *)

Call ==
  /\ at = "out"
  /\ at' = "flush"
  /\ UNCHANGED <<pipe, own, buf, stray, crowded>>

\* fflush(stdout) blocks until the pipe has room.
Flush ==
  /\ at = "flush"
  /\ Len(pipe) + Len(own) <= PipeSize
  /\ pipe' = pipe \o own
  /\ own' = <<>>
  /\ at' = "read"
  /\ UNCHANGED <<buf, stray>>
  /\ Watch

Returned ==
  /\ at' = "out"
  /\ buf' = <<>>
  /\ stray' = {}
  /\ UNCHANGED <<pipe, own, crowded>>

\* A plausible slip: a read that returns nothing is tried again.
NoMoreAgain == at = "read" /\ Len(buf) = BufEnd /\ UNCHANGED vars

\* There is no room: read is asked for nothing and returns 0, whatever the pipe
\* holds.  It never returns 0 otherwise: the process has the writing end as well.
NoMoreBytes == at = "read" /\ Len(buf) = BufEnd /\ Returned

\* EAGAIN.  What buf holds of a line is forgotten.
NoMoreData == at = "read" /\ Len(buf) < BufEnd /\ pipe = <<>> /\ Returned

Take(got) ==
  /\ at = "read"
  /\ got > 0
  /\ buf' = buf \o SubSeq(pipe, 1, got)
  /\ pipe' = SubSeq(pipe, got + 1, Len(pipe))
  /\ stray' = stray \ (Len(buf) .. Len(buf) + got - 1)
  /\ at' = "scan"
  /\ UNCHANGED <<own, crowded>>

Least(a, b) == IF a < b THEN a ELSE b

\* A plausible slip: read(..., p, end - buf).
ReadWhole == Len(buf) < BufEnd /\ Take(Least(Len(pipe), BufEnd))

Read == Take(Least(Len(pipe), BufEnd - Len(buf)))

\* strchr(buf, '\n'), which ends at the first '\0'.
NewlineAt(s) ==
  {k \in 1 .. Len(s) : s[k] = "nl" /\ \A j \in 1 .. k - 1 : s[j] = "x"}

\* memmove(buf, buf + cut, moved): where bytes from beyond the buffer are then.
Moved(cut, moved) ==
  {i \in 0 .. moved - 1 : i + cut > BufEnd \/ i + cut \in stray}
    \cup {i \in stray : i >= moved}

\* "got single string"
Line(cut, moved) ==
  /\ at = "scan"
  /\ buf' = SubSeq(buf, cut + 1, Len(buf))
  /\ stray' = Moved(cut, moved)
  /\ UNCHANGED <<pipe, own, crowded>>

\* A plausible slip: the rest of the buffer is moved, not the rest of the bytes.
DeliverAll ==
  \E cut \in NewlineAt(buf) :
    Line(cut, BufEnd + 1) /\ at' = IF cut = Len(buf) THEN "read" ELSE "scan"

\* A plausible slip: "if" in the place of "while (p > buf)".
DeliverOne == \E cut \in NewlineAt(buf) : Line(cut, Len(buf) + 1) /\ at' = "read"

\* p - buf + 1 bytes are moved, cut of them more than there are behind the line.
Deliver ==
  \E cut \in NewlineAt(buf) :
    Line(cut, Len(buf) + 1) /\ at' = IF cut = Len(buf) THEN "read" ELSE "scan"

\* "left string"
Left ==
  /\ at = "scan"
  /\ NewlineAt(buf) = {}
  /\ at' = "read"
  /\ UNCHANGED <<pipe, own, buf, stray, crowded>>

\* The byte at p is not the '\0' that ends the string, and strchr finds a newline
\* behind p: p is set before the buffer.
Astray ==
  /\ at = "scan"
  /\ \A k \in 1 .. Len(buf) : buf[k] = "x"
  /\ Len(buf) \in stray
  /\ at' = "wild"
  /\ UNCHANGED <<pipe, own, buf, stray, crowded>>

Reader == Flush \/ NoMoreBytes \/ NoMoreData \/ Read \/ Deliver \/ Left \/ Astray

Next == Intercept \/ Writers \/ Call \/ Reader

\* A call that has begun is executed.  Nobody has to write, or to call.
Spec == Init /\ [][Next]_vars /\ WF_vars(Reader)

-----------------------------------------------------------------------------
\* As long as no more than half a buffer is unread at any time, memmove copies
\* nothing from beyond the buffer, and p stays in it.
Steady == stray # {} \/ at = "wild" => crowded

\* No whole line is forgotten by a call that returns, in the buffer or in the pipe,
\* unless a '\0' hides it or a line does not fit in the buffer.
LinesKept ==
  [][at = "read" /\ at' = "out" =>
       \/ \A k \in 1 .. Len(buf \o pipe) : (buf \o pipe)[k] # "nl"
       \/ \E k \in 1 .. Len(buf) : buf[k] = "nul"
       \/ Len(buf) = BufEnd]_vars

\* fflush waits for room that only this process could make: for ever.
Blocked == at = "flush" /\ Len(pipe) + Len(own) > PipeSize

\* A call that does not return gets lines for ever, however busy the writers are,
\* or waits for its own pipe.
Advances ==
  []<>(at \notin InCall) \/ []<><<Deliver>>_vars \/ <>[]Blocked
=============================================================================
