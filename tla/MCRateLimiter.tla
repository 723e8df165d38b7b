--------------------------- MODULE MCRateLimiter ----------------------------
(* Instances of RateLimiter for TLC: requests are interchangeable. *)
EXTENDS RateLimiter, TLC

Handlers == Permutations(Handler)
=============================================================================
