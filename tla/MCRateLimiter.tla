---------------------------- MODULE MCRateLimiter -----------------------------
(***************************************************************************)
(* Values for TLC's instance of RateLimiter.                               *)
(***************************************************************************)
EXTENDS RateLimiter, TLC

\* Clients are interchangeable.
Clients == Permutations(Keys)
=============================================================================
