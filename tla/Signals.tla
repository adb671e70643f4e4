------------------------------ MODULE Signals ------------------------------
(***************************************************************************)
(* Deferred signal handling of the supervising process.                    *)
(*                                                                         *)
(* The handler installed by daemond_sig_init only raises two kinds of      *)
(* flags: daemond_sig_was_received and daemond_sig_received[sig].  The     *)
(* main thread looks at them in daemond_sig_check: when the common flag is *)
(* up it walks over the signals in increasing number, clears and handles   *)
(* each one that is flagged, and clears the common flag last.  The handler *)
(* may interrupt the walk between any two of its steps.                    *)
(*                                                                         *)
(* daemond_sig_received[sig] is only ever compared with zero, so it is a   *)
(* Boolean here.  What SIGCHLD does (daemond_reaper) belongs to the module *)
(* Master, which instantiates this one.                                    *)
(***************************************************************************)
EXTENDS Naturals, Sequences

CONSTANT SentSignals   \* the signals that other processes may send

VARIABLES
  was_received,   \* daemond_sig_was_received
  received,       \* daemond_sig_received[sig] # 0
  at,             \* place of daemond_sig_check in SigOrder, 0 outside of it
  terminate       \* d->terminate: 0, 1 (INT, QUIT) or 2 (TERM)

\* The signals with daemond_sig_handler, in increasing signal number.
SigOrder == <<"INT", "QUIT", "TERM", "CHLD">>

Sigs == {"INT", "QUIT", "TERM", "CHLD"}

Past == Len(SigOrder) + 1   \* the walk is over, the common flag still up

Init ==
  /\ was_received = FALSE
  /\ received = [s \in Sigs |-> FALSE]
  /\ at = 0
  /\ terminate = 0

-----------------------------------------------------------------------------
(* The handler.  It interrupts the main thread, so its two stores are one  *)
(* step for that thread.                                                   *)

Handler(s) ==
  /\ was_received' = TRUE
  /\ received' = [received EXCEPT ![s] = TRUE]
  /\ UNCHANGED <<at, terminate>>

-----------------------------------------------------------------------------
(* daemond_sig_check, one step per signal examined.                        *)

Begin ==
  /\ at = 0
  /\ was_received
  /\ at' = 1
  /\ UNCHANGED <<was_received, received, terminate>>

\* d->terminate after daemond_sig_safe_handler(d, s).
TerminateAfter(s) ==
  CASE s \in {"INT", "QUIT"} -> 1
    [] s = "TERM"            -> 2
    [] OTHER                 -> terminate

\* A plausible slip: only the requests to quit are acted upon at once.
ExamineHalf ==
  /\ at \in 1 .. Len(SigOrder)
  /\ received' = [received EXCEPT ![SigOrder[at]] = FALSE]
  /\ terminate' = IF received[SigOrder[at]] /\ SigOrder[at] # "TERM"
                    THEN TerminateAfter(SigOrder[at]) ELSE terminate
  /\ at' = at + 1
  /\ UNCHANGED was_received

Examine ==
  /\ at \in 1 .. Len(SigOrder)
  /\ received' = [received EXCEPT ![SigOrder[at]] = FALSE]
  /\ terminate' = IF received[SigOrder[at]] THEN TerminateAfter(SigOrder[at])
                                            ELSE terminate
  /\ at' = at + 1
  /\ UNCHANGED was_received

End ==
  /\ at = Past
  /\ was_received' = FALSE
  /\ at' = 0
  /\ UNCHANGED <<received, terminate>>

-----------------------------------------------------------------------------
Arrival == \E s \in SentSignals : Handler(s)

\* The requests that end the main loop.
Stopping == {"INT", "QUIT", "TERM"}

\* The walk has not yet come past the place of s.
StillAhead(s) == \E i \in at .. Len(SigOrder) : i > 0 /\ SigOrder[i] = s

=============================================================================
