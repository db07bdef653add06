---------------------------- MODULE MCTokenChain ----------------------------
(* Model-checking instance of TokenChain. *)
EXTENDS TokenChain, TLC

\* The broker's host is not interchangeable with the other machines.
Symmetry == Permutations(Caps) \cup Permutations(Clients \ {BrokerHost})
=============================================================================
