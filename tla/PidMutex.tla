------------------------------ MODULE PidMutex ------------------------------
(***************************************************************************)
(* What the pid file promises: a lock that somebody outside may revoke.    *)
(*                                                                         *)
(* At most one process holds a lock that is still good.  Removing the pid  *)
(* file revokes the lock of its holder, who does not notice; only then can *)
(* another process take a lock of its own.                                 *)
(***************************************************************************)
CONSTANT Procs

VARIABLES
  holders,   \* processes whose lock was granted and not given up
  revoked    \* those among them whose pid file was removed since

vars == <<holders, revoked>>

Init == holders = {} /\ revoked = {}

Take(p) ==
  /\ p \notin holders
  /\ holders \subseteq revoked
  /\ holders' = holders \cup {p}
  /\ UNCHANGED revoked

Drop(p) ==
  /\ p \in holders
  /\ holders' = holders \ {p}
  /\ revoked' = revoked \ {p}

Revoke ==
  /\ revoked # holders
  /\ revoked' = holders
  /\ UNCHANGED holders

Next ==
  \/ \E p \in Procs : Take(p) \/ Drop(p)
  \/ Revoke

Spec == Init /\ [][Next]_vars

\* Two good locks never exist side by side.
Exclusive == \A p, q \in holders \ revoked : p = q
=============================================================================
