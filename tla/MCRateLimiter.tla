---------------------------- MODULE MCRateLimiter ----------------------------
(* Small instances of RateLimiter. *)
EXTENDS RateLimiter, TLC

Symmetry == Permutations(Ips)
=============================================================================
