----------------------------- MODULE MCRateLimits -----------------------------
(* The requests of one client are interchangeable. *)
EXTENDS RateLimits, TLC

RequestSymmetry == Permutations(Request)
=============================================================================
