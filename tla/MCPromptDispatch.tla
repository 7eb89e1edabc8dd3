-------------------------- MODULE MCPromptDispatch --------------------------
(* PromptDispatch for TLC: the limits are ordinary values, set in the cfg. *)
EXTENDS PromptDispatch
=============================================================================
