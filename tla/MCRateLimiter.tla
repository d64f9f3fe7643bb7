--------------------------- MODULE MCRateLimiter ----------------------------
(* Small instances of RateLimiter: a limit of two requests in three time units. *)
EXTENDS RateLimiter, TLC

Clients == Permutations(Requests)
=============================================================================
