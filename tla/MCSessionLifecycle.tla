------------------------- MODULE MCSessionLifecycle -------------------------
(* SessionLifecycle for TLC, with two managers and two daemons. *)
EXTENDS SessionLifecycle

CONSTANTS m1, m2, d1, d2

TwoManagers == {m1, m2}
TwoDaemons == {d1, d2}
=============================================================================
