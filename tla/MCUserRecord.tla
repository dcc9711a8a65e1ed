---------------------------- MODULE MCUserRecord ----------------------------
(* A small instance of UserRecord for TLC. *)
EXTENDS UserRecord, TLC

MCSymmetry == Permutations(Requests) \cup Permutations(Emails) \cup Permutations(Names)
=============================================================================
