------------------------ MODULE MCInvocationWorkflow ------------------------
(* InvocationWorkflow for TLC, with three invocations. *)
EXTENDS InvocationWorkflow

Declared == <<"first", "second", "third">>
Providers == [first |-> "codex", second |-> "claude", third |-> "codex"]
=============================================================================
