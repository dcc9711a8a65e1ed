--------------------------- MODULE MCBankOverlap ---------------------------
(* An instance of BankTransfer for TLC: two requests of one user that      *)
(* overlap, and nothing fails.                                             *)
EXTENDS BankTransfer, TLC

MCNoFaults == {}

\* What a mail says of its code, "good for 15 minutes", asked of requests that
\* overlap: it is refused where a stale write-back has replaced it.
CodeUsable == LatestUsableUnless(spent)

\* Fresh values and handlers are interchangeable.
MCSymmetry == Permutations(Handlers) \cup Permutations(Codes)
=============================================================================
