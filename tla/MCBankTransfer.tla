--------------------------- MODULE MCBankTransfer ---------------------------
(* An instance of BankTransfer for TLC: requests overlap in every order    *)
(* under all failures, or, with more codes, a longer clock and more wrong  *)
(* guesses, each is served before the next, mails fail and the bank's      *)
(* answers are lost.                                                       *)
EXTENDS BankTransfer, TLC

MCAllFaults  == {"redis", "mail", "bank", "crash"}
MCMailFaults == {"mail", "bank"}

\* The bounds of behaviours where requests overlap.
Bounds == now <= 2 /\ Cardinality(Issued) <= 2 /\ \A c \in Codes : tries[c] <= 1
MCSpec == Init /\ [][Next /\ (serial \/ Bounds')]_vars

\* Fresh values and handlers are interchangeable.
MCSymmetry ==
    Permutations(Handlers) \cup Permutations(Codes)
        \cup Permutations(Intents) \cup Permutations(IdemKeys)
=============================================================================
