------------------------------ MODULE Profile ------------------------------
(***************************************************************************)
(* A user's e-mail address and its copies: emailChangeStart, -Verify,      *)
(* -Resend and updateProfile of internal/httpapi/profile.go, the Keycloak  *)
(* updates they make (read the whole user, put it back), the name sync of  *)
(* an OAuth sign-in, and the addresses that session rows keep in Postgres  *)
(* (internal/store/store.go).  Names themselves are left out: what counts  *)
(* is the address a name update puts back.                                 *)
(*                                                                         *)
(* The challenge is stored under the new address, so two users who want    *)
(* the same address share one Redis key; its payload is the owner's        *)
(* subject.                                                                *)
(***************************************************************************)
EXTENDS OtpFlow

CONSTANTS
    Users,
    Sessions,   \* session rows that can exist
    SessionOf,  \* whose they are
    FirstEmail, \* the address each account starts with
    Editors     \* name updates that can be in flight

ASSUME ProfileAssumption ==
    /\ SessionOf \in [Sessions -> Users]
    /\ FirstEmail \in [Users -> Keys]
    /\ \A u, v \in Users : FirstEmail[u] = FirstEmail[v] => u = v
    /\ None \notin Challenge(Users) /\ None \notin Keys /\ None \notin Sessions

Edit == [sub : Users, seen : Keys]
ASSUME EditAssumption == None \notin Edit

VARIABLES
    email,      \* Keycloak: each account's address
    sessEmail,  \* Postgres: the address in each session row, None without a row
    acting,     \* the session each verify came with
    edits,      \* the name updates in flight, with the address they read
    told        \* history: the address a user was last told to have, until the next update

ownVars == <<email, sessEmail, acting, edits, told>>
vars    == <<flowVars, email, sessEmail, acting, edits, told>>

OwnLabels == {"okDel", "check", "getUser", "putUser", "session"}

Init ==
    /\ FlowInit
    /\ email = FirstEmail
    /\ sessEmail = [s \in Sessions |-> FirstEmail[SessionOf[s]]]
    /\ acting = [h \in Handlers |-> None]
    /\ edits = [d \in Editors |-> None]
    /\ told = [u \in Users |-> None]

Live == {s \in Sessions : sessEmail[s] # None}
Taken(e, u) == \E v \in Users \ {u} : email[v] = e
KeycloakFails == MayFail("keycloak")

\* Mutant: whoever's challenge it is.
OwnsUnchecked(s, e) == s \in Live /\ pend[e] # None

\* The challenge under e belongs to the user of session s.
Owns(s, e) == s \in Live /\ pend[e] # None /\ pend[e].payload = SessionOf[s]

Back(h) == Return(h) /\ acting' = [acting EXCEPT ![h] = None]

-----------------------------------------------------------------------------
(* Start, resend and refused verifies of an e-mail change *)

\* A lookup that fails counts as an address nobody has.
EmailChangeStart(h) ==
    /\ \/ \E s \in Live, e \in Keys, c \in Codes :
            /\ e # sessEmail[s]
            /\ ~Taken(e, SessionOf[s]) \/ KeycloakFails
            /\ StartDraw(h, e, SessionOf[s], c)
       \/ FlowStart(h)
    /\ UNCHANGED ownVars

EmailChangeResend(h) ==
    /\ FlowResend(h)
    /\ pc[h] = "idle" => \E s \in Live : SessionOf[s] = held'[h].payload
    /\ UNCHANGED ownVars

VerifyRefuses(h) ==
    /\ FlowRefuse(h)
    /\ pc[h] = "idle" => \E s \in Live : SessionOf[s] = held'[h].payload
    /\ UNCHANGED ownVars

-----------------------------------------------------------------------------
(* An accepted verify *)

VerifyAccepts(h) ==
    \E s \in Live, e \in Keys :
        /\ Owns(s, e)
        /\ \E code \in CanType(e) : VerifyRight(h, e, code, "okDel")
        /\ acting' = [acting EXCEPT ![h] = s]
        /\ UNCHANGED <<email, sessEmail, edits, told>>

\* Mutant: the delete forgotten.
OkDelForgotten(h) ==
    /\ pc[h] = "okDel"
    /\ Goto(h, "check")
    /\ UNCHANGED <<now, redis, history, ownVars>>

OkDel(h) ==
    /\ pc[h] = "okDel"
    /\ DeleteIgnored(held[h].key) /\ Goto(h, "check")
    /\ UNCHANGED <<now, history, ownVars>>

Sub(h) == SessionOf[acting[h]]

\* The address is looked up once more, a failed lookup counting as free.
CheckTaken(h) ==
    /\ pc[h] = "check"
    /\ \/ Taken(held[h].key, Sub(h)) /\ Back(h)
       \/ (~Taken(held[h].key, Sub(h)) \/ KeycloakFails) /\ Goto(h, "getUser") /\ UNCHANGED acting
    /\ UNCHANGED <<now, redis, history, email, sessEmail, edits, told>>

\* UpdateUserEmail reads the user ...
GetUserMap(h) ==
    /\ pc[h] = "getUser"
    /\ \/ Goto(h, "putUser") /\ UNCHANGED acting
       \/ KeycloakFails /\ Back(h)
    /\ UNCHANGED <<now, redis, history, email, sessEmail, edits, told>>

\* Keycloak refuses an address another user has, else replaces the user.
PutUser(u, e) == ~Taken(e, u) /\ email' = [email EXCEPT ![u] = e]

\* ... and puts it back with the new address.
PutUserMap(h) ==
    LET u == Sub(h)
        e == held[h].key
    IN  /\ pc[h] = "putUser"
        /\ \/ PutUser(u, e) /\ Goto(h, "session") /\ UNCHANGED acting
           \/ PutUser(u, e) /\ KeycloakFails /\ Back(h)
           \/ UNCHANGED email /\ (Taken(e, u) \/ KeycloakFails) /\ Back(h)
        /\ told' = [told EXCEPT ![u] = None]
        /\ UNCHANGED <<now, redis, history, sessEmail, edits>>

\* The session row follows; without one the request answers 500.
UpdateSessionEmail(h) ==
    LET s == acting[h] IN
    /\ pc[h] = "session"
    /\ \/ /\ s \in Live
          /\ sessEmail' = [sessEmail EXCEPT ![s] = held[h].key]
          /\ told' = [told EXCEPT ![SessionOf[s]] = held[h].key]
       \/ /\ s \notin Live \/ MayFail("postgres")
          /\ UNCHANGED <<sessEmail, told>>
    /\ Back(h)
    /\ UNCHANGED <<now, redis, history, email, edits>>

-----------------------------------------------------------------------------
(* Name updates: updateProfile, and syncOAuthProfile of an OAuth sign-in *)

UpdateNamesGet(d, u) ==
    /\ edits[d] = None
    /\ edits' = [edits EXCEPT ![d] = [sub |-> u, seen |-> email[u]]]
    /\ UNCHANGED <<flowVars, email, sessEmail, acting, told>>

\* The user is put back with the address it had when read.
UpdateNamesPut(d) ==
    /\ edits[d] # None
    /\ LET u == edits[d].sub
           e == edits[d].seen
       IN  PutUser(u, e) \/ (UNCHANGED email /\ (Taken(e, u) \/ KeycloakFails))
    /\ edits' = [edits EXCEPT ![d] = None]
    /\ UNCHANGED <<flowVars, sessEmail, acting, told>>

-----------------------------------------------------------------------------
(* Sessions *)

\* A sign-in copies the address Keycloak has.
CreateSession(s) ==
    /\ s \notin Live
    /\ sessEmail' = [sessEmail EXCEPT ![s] = email[SessionOf[s]]]
    /\ UNCHANGED <<flowVars, email, acting, edits, told>>

\* Logout, or the row runs out.
DeleteSession(s) ==
    /\ s \in Live
    /\ sessEmail' = [sessEmail EXCEPT ![s] = None]
    /\ UNCHANGED <<flowVars, email, acting, edits, told>>

Dies(h) ==
    /\ Crash(h)
    /\ acting' = [acting EXCEPT ![h] = None]
    /\ UNCHANGED <<email, sessEmail, edits, told>>

EmailChangeVerify(h) ==
    \/ VerifyRefuses(h) \/ VerifyAccepts(h) \/ OkDel(h) \/ CheckTaken(h)
    \/ GetUserMap(h) \/ PutUserMap(h) \/ UpdateSessionEmail(h)

Next ==
    /\ \/ Tick /\ UNCHANGED ownVars
       \/ \E h \in Handlers : \/ EmailChangeStart(h) \/ EmailChangeResend(h)
                              \/ EmailChangeVerify(h) \/ Dies(h)
       \/ \E d \in Editors : \/ \E u \in Users : UpdateNamesGet(d, u)
                             \/ UpdateNamesPut(d)
       \/ \E s \in Sessions : CreateSession(s) \/ DeleteSession(s)
    /\ AsServed

Spec == Init /\ [][Next]_vars

-----------------------------------------------------------------------------
TypeOK ==
    /\ FlowType(Users, OwnLabels)
    /\ email \in [Users -> Keys]
    /\ sessEmail \in [Sessions -> Keys \cup {None}]
    /\ acting \in [Handlers -> Sessions \cup {None}]
    /\ edits \in [Editors -> Edit \cup {None}]
    /\ told \in [Users -> Keys \cup {None}]

\* The addresses that are a user's to have: the first, and those to which a code
\* was mailed for that very user and typed back.
Confirmed(u) ==
    {FirstEmail[u]} \cup {m.to : m \in {n \in mails : n.payload = u /\ n.code \in spent}}

\* However changes of several users to one address, stale records and failures
\* mix, Keycloak and the session rows name only addresses of the user's own.
AddressesConfirmed ==
    \A u \in Users :
        /\ email[u] \in Confirmed(u)
        /\ \A s \in Live : SessionOf[s] = u => sessEmail[s] \in Confirmed(u)

\* Whatever failed or died on the way, a user who was told of a new address has
\* it, in Keycloak, once nothing is in flight.
ChangeSticks ==
    (/\ \A h \in Handlers : pc[h] = "idle"
     /\ \A d \in Editors : edits[d] = None)
    => \A u \in Users : told[u] # None => email[u] = told[u]

\* Served one at a time, the code of the last Start or Resend for an address that
\* answered 200, whichever user's it was, is good until it expires, is used or fails
\* too often; name updates, sign-ins and logouts come at any time.
LatestCodeUsable == serial => LatestUsableUnless(spent)

\* Served one at a time, a verify accepts no code a second time: it deletes the challenge before it looks
\* at the address again.
OneTimeUse == [][\A h \in Handlers : serial /\ Accepts(h) => typed'[h] \notin spent]_flowVars

\* The flow implements ConfirmedAccount for addresses: a mail lets the user whose
\* change it is confirm the address it went to.  What a name update puts back is
\* the first address or one confirmed since.
OfferOf(m) == [owner |-> m.payload, code |-> m.code, values |-> {m.to}]
AtFirst    == {<<u, FirstEmail[u], None>> : u \in Users}
Confirmations ==
    AtFirst \cup {<<m.payload, m.to, m.code>> : m \in {n \in mails : n.code \in spent}}

Addressed == INSTANCE ConfirmedAccount WITH
                 Owners <- Users, Values <- Keys, FirstValue <- FirstEmail,
                 Given <- AtFirst,
                 mailed <- {OfferOf(m) : m \in mails},
                 confirmed <- Confirmations,
                 value <- email
AddressSpec == Addressed!Spec

-----------------------------------------------------------------------------
(* The inductive invariant behind AddressesConfirmed. *)

\* A verify that accepted a code works for the user whose challenge it was.
ActsForOwner ==
    \A h \in Handlers : pc[h] \in OwnLabels =>
        /\ typed[h] # None
        /\ acting[h] \in Sessions /\ held[h].payload = SessionOf[acting[h]]

\* What a name update is to put back was its user's own when it was read.
EditsConfirmed ==
    \A d \in Editors : edits[d] # None => edits[d].seen \in Confirmed(edits[d].sub)

IInv ==
    /\ TypeOK
    /\ FlowInv(Users, OwnLabels)
    /\ AddressesConfirmed
    /\ ActsForOwner
    /\ EditsConfirmed
-----------------------------------------------------------------------------
\* What more holds while requests for a code come one at a time.
OnceInv == CountInv(spent, {"okDel"}, {})
=============================================================================
