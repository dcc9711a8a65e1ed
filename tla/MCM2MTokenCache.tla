-------------------------- MODULE MCM2MTokenCache --------------------------
(* A small instance of M2MTokenCache for TLC: one unit of time is ten seconds, *)
(* so Skew is 3, the HTTP timeout 2 and the default lifetime 6.                *)
EXTENDS M2MTokenCache, TLC

MCLifetimes == {0, 1, 6, 7, 9}
=============================================================================
