--------------------------- MODULE MCAcpTerminals ---------------------------
(* A repository with the answers of an earlier stage in one of its directories. *)
EXTENDS AcpTerminals

SomePaths == {<<"src", "main">>, <<"answers", "one">>, <<"elsewhere">>}
SomeDirs == {<<>>, <<"src">>}
SomeContexts == {<<"answers">>}
=============================================================================
