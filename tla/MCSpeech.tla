------------------------------ MODULE MCSpeech ------------------------------
(* Instances of Speech: texts of up to MaxTokens tags, parts of tags and   *)
(* characters.                                                             *)
EXTENDS Speech, SequencesExt

CONSTANT MaxTokens

Tokens == {<<"<", "r", ">">>, <<"<", "/", ">">>, <<"<">>, <<">">>, <<"b">>, <<"x">>, <<"nl">>}

MCTexts == {FlattenSeq(t) : t \in BoundedSeq(Tokens, MaxTokens)}
=============================================================================
