-------------------------- MODULE MCSessionDaemon --------------------------
(* SessionDaemon for TLC, with two or three connections. *)
EXTENDS SessionDaemon, TLC

CONSTANTS c1, c2, c3

NoConns == {}
TwoConns == {c1, c2}
ThreeConns == {c1, c2, c3}

\* Connections are interchangeable when all of them, or none, may hang up.
Symmetry == Permutations(ThreeConns)
=============================================================================
