---------------------------- MODULE MCRateLimit ----------------------------
(* RateLimit on a small instance. *)
EXTENDS RateLimit

CONSTANTS r1, r2, r3

ThreeRequests == {r1, r2, r3}

=============================================================================
