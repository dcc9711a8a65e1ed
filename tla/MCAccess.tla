------------------------------ MODULE MCAccess ------------------------------
(* A small instance of Access for TLC: one account, one privilege. *)
EXTENDS Access, TLC

CONSTANTS other, root, admin

MCFirstEmail == [u \in Users |-> other]
MCFirstRoles == [u \in Users |-> {}]
MCFaults     == {"redis", "keycloak", "postgres", "crash"}
MCSymmetry   == Permutations(Handlers) \cup Permutations(Sessions)
=============================================================================
