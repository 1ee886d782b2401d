---------------------------- MODULE MCRateLimiter ----------------------------
(***************************************************************************)
(* Instances of RateLimiter for TLC.                                       *)
(***************************************************************************)
EXTENDS RateLimiter, TLC

Symmetry ==
    Permutations(Requests) \cup Permutations(Clients) \cup Permutations(Limiters)
=============================================================================
