---------------------------- MODULE MCRateLimiter ----------------------------
(* Two customers who together can exceed the global limit, over a bit more  *)
(* than two windows.                                                        *)
EXTENDS RateLimiter, TLC

Symmetry == Permutations(Customers)
=============================================================================
