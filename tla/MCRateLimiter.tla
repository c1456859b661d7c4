----------------------------- MODULE MCRateLimiter -----------------------------
(* Instances of RateLimiter for TLC.                                       *)
EXTENDS RateLimiter, TLC

CONSTANTS r1, r2, r3

(* A route with a limit of its own behind the one of /api.                 *)
TwoLimits == <<6, 4>>
=============================================================================
