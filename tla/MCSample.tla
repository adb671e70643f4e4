------------------------------ MODULE MCSample ------------------------------
(* Numbers for each type that fit, do not fit, and vanish when cut.        *)
EXTENDS Sample

Numeral(n, more) ==
  [digits |-> TRUE, num |-> n, rest |-> more, tiny |-> FALSE, behind |-> "nothing"]

MCNumerals == {Numeral(n, FALSE) : n \in {-4, 0, 8, 20}} \cup {Numeral(1, TRUE)}
=============================================================================
