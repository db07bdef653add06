------------------------------ MODULE MCBroker ------------------------------
(* Model-checking instance of Broker. *)
EXTENDS Broker, TLC

\* Sessions and names are interchangeable: no definition singles one out.
Symmetry == Permutations(Sessions) \cup Permutations(Agents)
=============================================================================
