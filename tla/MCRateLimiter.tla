---------------------------- MODULE MCRateLimiter ----------------------------
(* Model-checking instance of RateLimiter. *)
EXTENDS RateLimiter, TLC

Symmetry == Permutations(Requests) \cup Permutations(IPs)
=============================================================================
