---------------------------- MODULE MCRateLimiter ----------------------------
(* Two addresses and three requests at a time; time covers two windows.      *)
EXTENDS RateLimiter, TLC

CONSTANTS here, there, r1, r2, r3

Symmetry == Permutations({here, there}) \cup Permutations({r1, r2, r3})

=============================================================================
