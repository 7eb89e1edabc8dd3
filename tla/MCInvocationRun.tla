-------------------------- MODULE MCInvocationRun --------------------------
(* InvocationRun for TLC: a provider that ends cancelled, and one that writes and  *)
(* succeeds.                                                                       *)
EXTENDS InvocationRun

SecondWrites == [i \in 1..2 |-> i - 1]
SecondSucceeds == [i \in 1..2 |-> IF i = 2 THEN {"succeeded"} ELSE {"cancelled"}]
=============================================================================
