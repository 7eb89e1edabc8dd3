---------------------------- MODULE MCAcpAdapter ----------------------------
(* AcpAdapter for TLC. *)
EXTENDS AcpAdapter

TwoRequests == <<"initialize", "session">>
=============================================================================
