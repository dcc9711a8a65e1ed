------------------------------ MODULE MCSignup ------------------------------
(* Small instances of Signup for TLC: requests overlap in every order, or, *)
(* with more codes, a longer clock and more wrong guesses, each is served   *)
(* before the next.                                                         *)
EXTENDS Signup, TLC

MCAllFaults      == {"redis", "mail", "keycloak", "crash"}
MCKeycloakFaults == {"keycloak"}
MCSerialFaults   == {"mail", "keycloak"}

\* The bounds of behaviours where requests overlap.
Bounds == now <= 1 /\ Cardinality(Issued) <= 2 /\ \A c \in Codes : tries[c] <= 1
MCSpec == Init /\ [][Next /\ (serial \/ Bounds')]_vars

\* Fresh values and handlers are interchangeable.
MCSymmetry == Permutations(Handlers) \cup Permutations(Codes) \cup Permutations(Forms)
=============================================================================
