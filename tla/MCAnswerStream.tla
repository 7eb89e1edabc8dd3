--------------------------- MODULE MCAnswerStream ---------------------------
(* AnswerStream for TLC. *)
EXTENDS AnswerStream

SomeTexts == {<<"a">>, <<"b">>, <<"a", "b">>}
=============================================================================
