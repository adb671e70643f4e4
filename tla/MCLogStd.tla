------------------------------ MODULE MCLogStd ------------------------------
(* Instances of LogStd: lines, parts of lines, and a '\0'.                 *)
EXTENDS LogStd

MCChunks == {<<"nl">>, <<"x">>, <<"x", "nl">>, <<"x", "x", "nl">>, <<"nul">>}
=============================================================================
