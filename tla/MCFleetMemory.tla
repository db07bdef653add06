---------------------------- MODULE MCFleetMemory ----------------------------
(* Model-checking instance of FleetMemory. *)
EXTENDS FleetMemory
=============================================================================
