--------------------------- MODULE GatedTransfer ---------------------------
(***************************************************************************)
(* What an "email-OTP gated bank transfer intent" (the comment on          *)
(* TransferPending in internal/otp/transfer_challenge.go) promises, without *)
(* challenges, handlers, clocks or failures: a transfer moves money only   *)
(* after a mail announced it with a code of its own and that code came     *)
(* back, and it moves money once.                                          *)
(***************************************************************************)
EXTENDS Naturals

CONSTANTS Mail,    \* confirmation mails: records with a code and a payload
          Intents  \* transfers that can be asked for

VARIABLES
    mailed,   \* the mails delivered
    returned, \* the codes that came back
    moved     \* how often each intent moved money

gate == <<mailed, returned, moved>>

Init == mailed = {} /\ returned = {} /\ moved = [i \in Intents |-> 0]

\* A code announces one transfer, to one user.
Announce(m) ==
    /\ \A n \in mailed : n.code = m.code => n = m
    /\ mailed' = mailed \cup {m}
    /\ UNCHANGED <<returned, moved>>

ComeBack(m) ==
    /\ m \in mailed
    /\ returned' = returned \cup {m.code}
    /\ UNCHANGED <<mailed, moved>>

Move(m) ==
    /\ m \in mailed
    /\ m.code \in returned
    /\ moved[m.payload.intent] = 0
    /\ moved' = [moved EXCEPT ![m.payload.intent] = 1]
    /\ UNCHANGED <<mailed, returned>>

Next == \E m \in Mail : Announce(m) \/ ComeBack(m) \/ Move(m)

Spec == Init /\ [][Next]_gate
=============================================================================
