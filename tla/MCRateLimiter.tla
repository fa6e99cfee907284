--------------------------- MODULE MCRateLimiter ---------------------------
(* An instance of RateLimiter for TLC: one client that waits when it is told *)
(* to and one that does not.                                                 *)
EXTENDS RateLimiter

CONSTANTS t1, t2
=============================================================================
