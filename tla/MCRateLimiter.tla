----------------------------- MODULE MCRateLimiter -----------------------------
(* RateLimiter for TLC: requests are interchangeable.                         *)
EXTENDS RateLimiter, TLC

RequestSymmetry == Permutations(Request)
===============================================================================
