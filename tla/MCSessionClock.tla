--------------------------- MODULE MCSessionClock ---------------------------
(* Model-checking instance of SessionClock. *)
EXTENDS SessionClock
=============================================================================
