------------------------------ MODULE MCNumbers ------------------------------
(* The ends of the ranges of all types, and what is just beyond them.      *)
EXTENDS Numbers

MCValues == {-11, -9, -8, -5, -4, -2, 0, 1, 2, 3, 4, 7, 8, 11}
=============================================================================
