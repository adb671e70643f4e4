------------------------------- MODULE Keeper -------------------------------
(***************************************************************************)
(* What a master of one child promises: it keeps a child until it is told  *)
(* to stop, and then it leaves, and leaves nobody behind whom it knows of. *)
(***************************************************************************)
CONSTANTS Pids, NoPid

VARIABLES
  kid,     \* the living child, or NoPid
  known,   \* whether the master has seen that it lives
  phase    \* "keeping", "stopping" or "gone"

kept == <<kid, known, phase>>

Init == kid = NoPid /\ known = FALSE /\ phase = "keeping"

\* Only in the place of no child, and not by a master that is to stop.
Hire(p) ==
  /\ phase = "keeping" /\ kid = NoPid
  /\ kid' = p /\ known' = FALSE /\ UNCHANGED phase

Notice == kid # NoPid /\ known' = TRUE /\ UNCHANGED <<kid, phase>>

Lose ==
  /\ kid # NoPid
  /\ kid' = NoPid /\ known' = FALSE /\ UNCHANGED phase

Stop == phase = "keeping" /\ phase' = "stopping" /\ UNCHANGED <<kid, known>>

\* A child that it has not seen yet may be left behind.
Leave ==
  /\ phase = "stopping" /\ phase' = "gone"
  /\ \/ kid' = NoPid /\ known' = FALSE
     \/ ~ known /\ UNCHANGED <<kid, known>>

\* No child can be had.
GiveUp ==
  /\ phase = "keeping" /\ kid = NoPid
  /\ phase' = "gone" /\ UNCHANGED <<kid, known>>

Next == (\E p \in Pids : Hire(p)) \/ Notice \/ Lose \/ Stop \/ Leave \/ GiveUp

Safety == Init /\ [][Next]_kept

\* It does leave when it is to stop.
Spec == Safety /\ WF_kept(Leave)
=============================================================================
