---------------------------- MODULE Credentials ----------------------------
(***************************************************************************)
(* The three one-time-code flows of an existing account, on one Redis and  *)
(* one Keycloak: sign-in by e-mail and forgotten password                  *)
(* (internal/httpapi/email_auth.go), and password change                   *)
(* (internal/httpapi/server.go over internal/otp/password_challenge.go).   *)
(* Each flow has its own key prefix, so a key is a pair of flow and user.  *)
(* The flows differ in where they delete the challenge: sign-in and change *)
(* before Keycloak is called, reset only after the password was set.       *)
(***************************************************************************)
EXTENDS OtpFlow

CONSTANTS
    Users,         \* accounts, each with its one e-mail address
    Passwords,     \* what users choose
    FirstPassword  \* the password each account starts with

Flows == {"login", "reset", "change"}

\* A change is stored with its sealed new password, the others with none.
Payload == Passwords \cup {None}

ASSUME CredentialsAssumption ==
    /\ Keys = Flows \X Users
    /\ FirstPassword \in [Users -> Passwords]
    /\ None \notin Passwords /\ None \notin Challenge(Payload)

VARIABLES
    password, \* Keycloak: each account's password
    enabled,  \* Keycloak: the accounts not disabled
    asked,    \* the new password a reset's verify came with
    sessions, \* Postgres: the codes by which sessions were opened
    confirmed,\* history: who confirmed which password with which code
    failed    \* history: reset codes whose SetPassword reported an error

accounts == <<password, enabled>>
ownVars  == <<password, enabled, asked, sessions, confirmed, failed>>
vars     == <<flowVars, password, enabled, asked, sessions, confirmed, failed>>

OwnLabels == {"loginDel", "loginFind", "loginSession",
              "resetFind", "resetFindDel", "resetSet", "resetDel", "resetLogin",
              "changeDel", "changeSet"}

Init ==
    /\ FlowInit
    /\ password = FirstPassword
    /\ enabled = Users
    /\ asked = [h \in Handlers |-> None]
    /\ sessions = {} /\ confirmed = {} /\ failed = {}

UserOf(h) == held[h].key[2]
FlowOf(c) == issued[c].key[1]

\* A Keycloak call answers an error.
KeycloakFails == MayFail("keycloak")

Back(h) == Return(h) /\ asked' = [asked EXCEPT ![h] = None]

-----------------------------------------------------------------------------
(* Starts and resends *)

\* Nothing is drawn for an address without an enabled account, nor when the
\* lookup fails; both answer 200 all the same.
EmailStart(h, flow, u, c) == u \in enabled /\ StartDraw(h, <<flow, u>>, None, c)

\* PasswordLogin has checked the current password, and the new one differs.
ChangeStart(h, u, p, c) ==
    /\ u \in enabled /\ p # password[u]
    /\ StartDraw(h, <<"change", u>>, p, c)

Start(h) ==
    /\ \/ \E u \in Users, c \in Codes : \/ EmailStart(h, "login", u, c)
                                        \/ EmailStart(h, "reset", u, c)
                                        \/ \E p \in Passwords : ChangeStart(h, u, p, c)
       \/ FlowStart(h)
    /\ UNCHANGED ownVars

Resend(h) == FlowResend(h) /\ UNCHANGED ownVars

Refused(h) == FlowRefuse(h) /\ UNCHANGED ownVars

-----------------------------------------------------------------------------
(* Sign-in by e-mail *)

\* Mutant: every flow's challenges under one prefix.
LoginAcceptedAnyFlow(h) ==
    /\ \E k \in Keys : \E code \in CanType(k) : VerifyRight(h, k, code, "loginDel")
    /\ UNCHANGED ownVars

LoginAccepted(h) ==
    /\ \E u \in Users : LET k == <<"login", u>> IN
        \E code \in CanType(k) : VerifyRight(h, k, code, "loginDel")
    /\ UNCHANGED ownVars

LoginDel(h) ==
    /\ pc[h] = "loginDel"
    /\ DeleteIgnored(held[h].key) /\ Goto(h, "loginFind")
    /\ UNCHANGED <<now, history, ownVars>>

LoginFind(h) ==
    /\ pc[h] = "loginFind"
    /\ \/ UserOf(h) \in enabled /\ Goto(h, "loginSession")
       \/ (UserOf(h) \notin enabled \/ KeycloakFails) /\ Return(h)
    /\ UNCHANGED <<now, redis, history, ownVars>>

\* The roles are listed and the session row written.
LoginSession(h) ==
    /\ pc[h] = "loginSession"
    /\ sessions' = sessions \cup {typed[h]} \/ (KeycloakFails /\ UNCHANGED sessions)
    /\ Return(h)
    /\ UNCHANGED <<now, redis, history, accounts, asked, confirmed, failed>>

-----------------------------------------------------------------------------
(* Forgotten password *)

\* Mutant: the reset reads the sign-in's challenge.
ResetAcceptedByLogin(h) ==
    \E u \in Users, p \in Passwords : LET k == <<"login", u>> IN
        \E code \in CanType(k) :
            /\ VerifyRight(h, k, code, "resetFind")
            /\ asked' = [asked EXCEPT ![h] = p]
            /\ confirmed' = confirmed \cup {<<u, p, code>>}
            /\ UNCHANGED <<accounts, sessions, failed>>

ResetAccepted(h) ==
    \E u \in Users, p \in Passwords : LET k == <<"reset", u>> IN
        \E code \in CanType(k) :
            /\ VerifyRight(h, k, code, "resetFind")
            /\ asked' = [asked EXCEPT ![h] = p]
            /\ confirmed' = confirmed \cup {<<u, p, code>>}
            /\ UNCHANGED <<accounts, sessions, failed>>

ResetFind(h) ==
    /\ pc[h] = "resetFind"
    /\ \/ UserOf(h) \in enabled /\ Goto(h, "resetSet")
       \/ (UserOf(h) \notin enabled \/ KeycloakFails) /\ Goto(h, "resetFindDel")
    /\ UNCHANGED <<now, redis, history, ownVars>>

\* No such account, or a failed lookup: the challenge is given up.
ResetFindDel(h) ==
    /\ pc[h] = "resetFindDel"
    /\ DeleteIgnored(held[h].key) /\ Back(h)
    /\ failed' = failed \ {typed[h]}
    /\ UNCHANGED <<now, history, accounts, sessions, confirmed>>

SetPassword(u, p) == password' = [password EXCEPT ![u] = p]

\* Mutant: a reset whose SetPassword fails deletes its challenge.
ResetSetGivesUp(h) ==
    /\ pc[h] = "resetSet"
    /\ \/ /\ SetPassword(UserOf(h), asked[h])
          /\ Goto(h, "resetDel") /\ UNCHANGED <<asked, redis>>
          /\ failed' = failed \ {typed[h]}
       \/ /\ KeycloakFails
          /\ UNCHANGED password
          /\ Delete(held[h].key) /\ Back(h)
          /\ failed' = failed \cup {typed[h]}
    /\ UNCHANGED <<now, history, enabled, sessions, confirmed>>

\* SetPassword is two calls, so its error may come after the change.  The
\* challenge stays for another try.
ResetSet(h) ==
    /\ pc[h] = "resetSet"
    /\ \/ /\ SetPassword(UserOf(h), asked[h])
          /\ Goto(h, "resetDel") /\ UNCHANGED asked
          /\ failed' = failed \ {typed[h]}
       \/ /\ KeycloakFails
          /\ SetPassword(UserOf(h), asked[h]) \/ UNCHANGED password
          /\ Back(h)
          /\ failed' = failed \cup {typed[h]}
    /\ UNCHANGED <<now, redis, history, enabled, sessions, confirmed>>

\* Mutant: the delete forgotten.
ResetDelForgotten(h) ==
    /\ pc[h] = "resetDel"
    /\ Goto(h, "resetLogin")
    /\ UNCHANGED <<now, redis, history, ownVars>>

ResetDel(h) ==
    /\ pc[h] = "resetDel"
    /\ DeleteIgnored(held[h].key) /\ Goto(h, "resetLogin")
    /\ UNCHANGED <<now, history, ownVars>>

\* PasswordLogin with the new password, if that still is the account's.
ResetLogin(h) ==
    /\ pc[h] = "resetLogin"
    /\ \/ /\ UserOf(h) \in enabled /\ password[UserOf(h)] = asked[h]
          /\ sessions' = sessions \cup {typed[h]}
       \/ /\ UserOf(h) \notin enabled \/ password[UserOf(h)] # asked[h] \/ KeycloakFails
          /\ UNCHANGED sessions
    /\ Back(h)
    /\ UNCHANGED <<now, redis, history, accounts, confirmed, failed>>

-----------------------------------------------------------------------------
(* Password change *)

ChangeAccepted(h) ==
    \E u \in Users : LET k == <<"change", u>> IN
        \E code \in CanType(k) :
            /\ VerifyRight(h, k, code, "changeDel")
            /\ confirmed' = confirmed \cup {<<u, pend[k].payload, code>>}
            /\ UNCHANGED <<accounts, asked, sessions, failed>>

ChangeDel(h) ==
    /\ pc[h] = "changeDel"
    /\ DeleteIgnored(held[h].key) /\ Goto(h, "changeSet")
    /\ UNCHANGED <<now, history, ownVars>>

ChangeSet(h) ==
    /\ pc[h] = "changeSet"
    /\ SetPassword(UserOf(h), held[h].payload) \/ (KeycloakFails /\ UNCHANGED password)
    /\ Return(h)
    /\ UNCHANGED <<now, redis, history, enabled, asked, sessions, confirmed, failed>>

-----------------------------------------------------------------------------
\* An administrator disables an account in Keycloak.
Disable(u) ==
    /\ MayFail("admin") /\ u \in enabled
    /\ enabled' = enabled \ {u}
    /\ UNCHANGED <<flowVars, password, asked, sessions, confirmed, failed>>

Dies(h) ==
    /\ Crash(h)
    /\ asked' = [asked EXCEPT ![h] = None]
    /\ UNCHANGED <<accounts, sessions, confirmed, failed>>

Login(h)  == LoginAccepted(h) \/ LoginDel(h) \/ LoginFind(h) \/ LoginSession(h)
Reset(h)  == \/ ResetAccepted(h) \/ ResetFind(h) \/ ResetFindDel(h) \/ ResetSet(h)
             \/ ResetDel(h) \/ ResetLogin(h)
Change(h) == ChangeAccepted(h) \/ ChangeDel(h) \/ ChangeSet(h)

Next ==
    /\ \/ Tick /\ UNCHANGED ownVars
       \/ \E u \in Users : Disable(u)
       \/ \E h \in Handlers : \/ Start(h) \/ Resend(h) \/ Refused(h)
                              \/ Login(h) \/ Reset(h) \/ Change(h) \/ Dies(h)
    /\ AsServed

Spec == Init /\ [][Next]_vars

-----------------------------------------------------------------------------
TypeOK ==
    /\ FlowType(Payload, OwnLabels)
    /\ password \in [Users -> Passwords]
    /\ enabled \subseteq Users
    /\ asked \in [Handlers -> Passwords \cup {None}]
    /\ sessions \subseteq Codes
    /\ confirmed \subseteq Users \X Passwords \X Codes
    /\ failed \subseteq Codes

\* An account's password is the one it started with or one confirmed with a
\* code that was mailed to that account for a reset or a change: neither a
\* sign-in code nor another account's pending change ever sets it.
PasswordAsConfirmed ==
    \A u \in Users : password[u] # FirstPassword[u] =>
        \E m \in mails :
            /\ m.code \in spent
            /\ m.to \in {<<"reset", u>>, <<"change", u>>}
            /\ m.to[1] = "change" => m.payload = password[u]
            /\ <<u, password[u], m.code>> \in confirmed

\* A session opened by code rests on a sign-in or reset code its account was
\* mailed and typed back, and for a reset on a password confirmed with it.
SessionsEarned ==
    \A c \in sessions :
        /\ c \in spent
        /\ \E m \in mails : m.code = c /\ m.to = issued[c].key
        /\ \/ FlowOf(c) = "login"
           \/ FlowOf(c) = "reset" /\ \E t \in confirmed : t[1] = issued[c].key[2] /\ t[3] = c

\* Served one at a time, the three flows leave each other's codes alone, and a reset
\* whose SetPassword failed can be tried again with the same code.
CodesUsable == serial => LatestUsableUnless(spent \ failed)

\* Served one at a time, no code is accepted a second time, but that of a reset that
\* failed.
OneTimeUse ==
    [][\A h \in Handlers : serial /\ Accepts(h) => typed'[h] \notin spent \ failed]_vars

\* The flow implements ConfirmedAccount for passwords: a reset's mail lets its owner
\* confirm any password, a change's the one it was started with, a sign-in's none.
OfferOf(m) ==
    [owner |-> m.to[2], code |-> m.code,
     values |-> CASE m.to[1] = "login"  -> {}
                  [] m.to[1] = "reset"  -> Passwords
                  [] m.to[1] = "change" -> {m.payload}]

Passworded == INSTANCE ConfirmedAccount WITH
                  Owners <- Users, Values <- Passwords,
                  FirstValue <- FirstPassword, Given <- {},
                  mailed <- {OfferOf(m) : m \in mails}, value <- password
PasswordSpec == Passworded!Spec

-----------------------------------------------------------------------------
(* The inductive invariant behind the safety properties. *)

LoginLabels  == {"loginDel", "loginFind", "loginSession"}
ResetLabels  == {"resetFind", "resetFindDel", "resetSet", "resetDel", "resetLogin"}
ChangeLabels == {"changeDel", "changeSet"}

\* A request past its verify works for the account its code was mailed to, in the
\* flow the code was mailed for, and with the password confirmed with it.
Entitled(h) ==
    /\ pc[h] \in OwnLabels => typed[h] # None
    /\ pc[h] \in LoginLabels => held[h].key[1] = "login"
    /\ pc[h] \in ResetLabels =>
        /\ held[h].key[1] = "reset"
        /\ asked[h] \in Passwords /\ <<UserOf(h), asked[h], typed[h]>> \in confirmed
    /\ pc[h] \in ChangeLabels =>
        /\ held[h].key[1] = "change"
        /\ held[h].payload \in Passwords
        /\ <<UserOf(h), held[h].payload, typed[h]>> \in confirmed

\* A code for a change was drawn with the password it is for.
ChangesCarryPasswords ==
    \A c \in Issued : FlowOf(c) = "change" => issued[c].payload \in Passwords

IInv ==
    /\ TypeOK
    /\ FlowInv(Payload, OwnLabels)
    /\ \A h \in Handlers : Entitled(h)
    /\ ChangesCarryPasswords
    /\ PasswordAsConfirmed
    /\ SessionsEarned

-----------------------------------------------------------------------------
(* What more holds while requests come one at a time. *)

\* The labels at which an accepted code's challenge may still be stored, and
\* those at which it still is.
Deleting == {"loginDel", "resetFind", "resetFindDel", "resetSet", "resetDel", "changeDel"}
Keeping  == {"resetFind", "resetSet"}

\* Only resets fail for a retry, and one whose password was set is none of them.
FailedAreResets ==
    /\ \A c \in failed : c \in Issued /\ FlowOf(c) = "reset"
    /\ \A h \in Handlers : pc[h] \in {"resetDel", "resetLogin"} => typed[h] \notin failed

OnceInv ==
    /\ CountInv(spent \ failed, Deleting, Keeping)
    /\ FailedAreResets
=============================================================================
