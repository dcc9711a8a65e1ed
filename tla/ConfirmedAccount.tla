-------------------------- MODULE ConfirmedAccount --------------------------
(***************************************************************************)
(* What a mailed code protects, without challenges, requests, clocks or    *)
(* failures: a thing an account has (its address, its password, the form   *)
(* it was created with) changes only to a value that its owner confirmed,  *)
(* with a code mailed before to that owner for that value.  Signup,        *)
(* Credentials and Profile implement it.                                   *)
(***************************************************************************)
CONSTANTS
    Owners, Values, Codes,
    FirstValue, \* what each owner has to begin with
    Given       \* what owners may go back to without a code

VARIABLES
    mailed,    \* offers: a code, to whom it was mailed, and what it can confirm
    confirmed, \* who confirmed which value with which code
    value      \* what each owner has

owned == <<mailed, confirmed, value>>

Offer == [owner : Owners, code : Codes, values : SUBSET Values]

Init == mailed = {} /\ confirmed = Given /\ value = FirstValue

\* A code makes one offer, to one owner.
Announce(m) ==
    /\ \A n \in mailed : n.code = m.code => n = m
    /\ mailed' = mailed \cup {m}
    /\ UNCHANGED <<confirmed, value>>

Confirm(m, v) ==
    /\ confirmed' = confirmed \cup {<<m.owner, v, m.code>>}
    /\ UNCHANGED <<mailed, value>>

Set(t) ==
    /\ value' = [value EXCEPT ![t[1]] = t[2]]
    /\ UNCHANGED <<mailed, confirmed>>

Next ==
    \/ \E m \in Offer : Announce(m)
    \/ \E m \in mailed : \E v \in m.values : Confirm(m, v)
    \/ \E t \in confirmed : Set(t)

Spec == Init /\ [][Next]_owned
=============================================================================
