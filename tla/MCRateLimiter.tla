---------------------------- MODULE MCRateLimiter ----------------------------
(* The limiter on a small instance: one address, for addresses share only  *)
(* the lock, and three logins at once, so that two attempts of different   *)
(* times can be waiting while a third is entered before both.              *)
EXTENDS RateLimiter, TLC

MCSymmetry == Permutations(Callers)
=============================================================================
