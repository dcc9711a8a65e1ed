--------------------------- MODULE MCCredentials ---------------------------
(* An instance of Credentials for TLC, on one account with an old and a    *)
(* new password: requests overlap in every order, or each is served before *)
(* the next, with a clock, more wrong guesses, mails that fail and an      *)
(* administrator.                                                          *)
EXTENDS Credentials, TLC

MCKeys          == {"login", "reset", "change"} \X Users
MCPasswords     == {"old", "new"}
MCFirstPassword == [u \in Users |-> "old"]
MCConcurrentFaults == {"redis", "keycloak", "crash"}
MCSerialFaults  == {"mail", "keycloak", "admin"}

\* The bounds of behaviours where requests overlap.
Bounds == now = 0 /\ \A c \in Codes : tries[c] <= 1
MCSpec == Init /\ [][Next /\ (serial \/ Bounds')]_vars

MCSymmetry == Permutations(Handlers) \cup Permutations(Codes)
=============================================================================
