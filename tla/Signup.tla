------------------------------- MODULE Signup -------------------------------
(***************************************************************************)
(* Account creation: signupStart, signupResend and signupVerify of         *)
(* internal/httpapi/signup.go over the Redis store of internal/signup, the *)
(* mailer and the Keycloak admin client.  Start, Resend and the refusals   *)
(* of verify are those of OtpFlow with the e-mail address as the key; this *)
(* module adds what verify does with an accepted code.  CreateUser is four *)
(* calls to Keycloak, and each of them may be the last.                    *)
(***************************************************************************)
EXTENDS OtpFlow

CONSTANTS
    Forms,      \* what a Start asks for: name and password
    AdminEmails \* addresses of administrators, provisioned only in Keycloak

ASSUME SignupAssumption ==
    None \notin Challenge(Forms) /\ None \notin Forms /\ AdminEmails \subseteq Keys

VARIABLES
    account,  \* Keycloak: the form each address's account was created with, or None
    role,     \* Keycloak: whether that account was assigned extract:write
    sessions  \* Postgres: the sessions signup opened for each address

accounts == <<account, role, sessions>>
vars == <<flowVars, account, role, sessions>>

OwnLabels == {"create", "dupDel", "clear", "role", "okDel", "login"}

Init ==
    /\ FlowInit
    /\ account = [e \in Keys |-> None]
    /\ role = [e \in Keys |-> FALSE]
    /\ sessions = [e \in Keys |-> 0]

-----------------------------------------------------------------------------
SignupStart(h) ==
    /\ \/ \E e \in Keys \ AdminEmails, f \in Forms, c \in Codes : StartDraw(h, e, f, c)
       \/ FlowStart(h)
    /\ UNCHANGED accounts

SignupResend(h) == FlowResend(h) /\ UNCHANGED accounts

VerifyRefuses(h) == FlowRefuse(h) /\ UNCHANGED accounts

VerifyAccepts(h) ==
    /\ \E e \in Keys : \E code \in CanType(e) : VerifyRight(h, e, code, "create")
    /\ UNCHANGED accounts

\* Mutant: a failed creation gives the pending signup up.
KeycloakFailsForGood(h) == MayFail("keycloak") /\ Goto(h, "dupDel")

\* A failed Keycloak call ends the request; its pending signup stays.
KeycloakFails(h) == MayFail("keycloak") /\ Return(h)

\* Mutant: the pending signup read again for the form.
CreateUserReread(h) ==
    LET e == held[h].key IN
    /\ pc[h] = "create"
    /\ IF account[e] = None /\ pend[e] # None
       THEN account' = [account EXCEPT ![e] = pend[e].payload] /\ Goto(h, "clear")
       ELSE UNCHANGED account /\ Return(h)
    /\ UNCHANGED <<now, redis, history, role, sessions>>

\* Mutant: "user exists" taken for success.
CreateUserIdempotent(h) ==
    LET e == held[h].key IN
    /\ pc[h] = "create"
    /\ account' = [account EXCEPT ![e] = IF @ = None THEN held[h].payload ELSE @]
    /\ Goto(h, "clear")
    /\ UNCHANGED <<now, redis, history, role, sessions>>

\* POST /users: 201, 409 when the address has an account, or an error, after
\* which the account may be there all the same.
CreateUser(h) ==
    LET e == held[h].key
        created == account' = [account EXCEPT ![e] = held[h].payload]
    IN  /\ pc[h] = "create"
        /\ \/ account[e] = None /\ created /\ Goto(h, "clear")
           \/ account[e] = None /\ created /\ KeycloakFails(h)
           \/ account[e] # None /\ UNCHANGED account /\ Goto(h, "dupDel")
           \/ UNCHANGED account /\ KeycloakFails(h)
        /\ UNCHANGED <<now, redis, history, role, sessions>>

\* The 409 "user exists" deletes the pending signup.
DuplicateDel(h) ==
    /\ pc[h] = "dupDel"
    /\ DeleteIgnored(held[h].key)
    /\ Return(h)
    /\ UNCHANGED <<now, history, accounts>>

\* The user is read and put back without required actions.
ClearRequiredActions(h) ==
    /\ pc[h] = "clear"
    /\ Goto(h, "role") \/ KeycloakFails(h)
    /\ UNCHANGED <<now, redis, history, accounts>>

AssignRealmRole(h) ==
    LET assigned == role' = [role EXCEPT ![held[h].key] = TRUE]
    IN  /\ pc[h] = "role"
        /\ \/ assigned /\ Goto(h, "okDel")
           \/ (assigned \/ UNCHANGED role) /\ KeycloakFails(h)
        /\ UNCHANGED <<now, redis, history, account, sessions>>

OkDel(h) ==
    /\ pc[h] = "okDel"
    /\ DeleteIgnored(held[h].key)
    /\ Goto(h, "login")
    /\ UNCHANGED <<now, history, accounts>>

\* PasswordLogin and issueSession; a failure of either answers 201 without.
Login(h) ==
    /\ pc[h] = "login"
    /\ \/ sessions' = [sessions EXCEPT ![held[h].key] = @ + 1]
       \/ MayFail("keycloak") /\ UNCHANGED sessions
    /\ Return(h)
    /\ UNCHANGED <<now, redis, history, account, role>>

SignupVerify(h) ==
    \/ VerifyRefuses(h) \/ VerifyAccepts(h) \/ CreateUser(h) \/ DuplicateDel(h)
    \/ ClearRequiredActions(h) \/ AssignRealmRole(h) \/ OkDel(h) \/ Login(h)

Next ==
    /\ \/ Tick /\ UNCHANGED accounts
       \/ \E h \in Handlers : \/ SignupStart(h) \/ SignupResend(h) \/ SignupVerify(h)
                              \/ Crash(h) /\ UNCHANGED accounts
    /\ AsServed

Spec == Init /\ [][Next]_vars

-----------------------------------------------------------------------------
TypeOK ==
    /\ FlowType(Forms, OwnLabels)
    /\ account \in [Keys -> Forms \cup {None}]
    /\ role \in [Keys -> BOOLEAN]
    /\ sessions \in [Keys -> Nat]

\* An account has the name and password of a Start whose own code was mailed
\* to that address and typed back: a Start that overwrites the pending signup
\* under the same address, or a stale write-back, never mixes two of them.
AccountAsConfirmed ==
    \A e \in Keys : account[e] # None =>
        \E m \in mails : m.to = e /\ m.payload = account[e] /\ m.code \in spent

\* However many verifies accept the code, an address is signed in once by its
\* signup: all but one of them meet "user exists".
OneSessionPerAccount == \A e \in Keys : sessions[e] <= 1

\* Once no request is in flight and the pending signup is gone, an account has
\* the role CreateUser promises it.
AccountComplete ==
    (\A h \in Handlers : pc[h] = "idle") =>
        \A e \in Keys : account[e] # None /\ pend[e] = None => role[e]

\* Served one at a time, the code of an address's last Start or Resend that answered
\* 200 is good until it expires, fails too often, or was typed back and its address has
\* an account: a verify whose creation failed can be repeated with the same code.
Consumed == {c \in spent : account[issued[c].key] # None}
LatestCodeUsable == serial => LatestUsableUnless(Consumed)

\* The flow implements ConfirmedAccount: an address's mail lets it confirm the form
\* it was sent for, which its account is created with.
OfferOf(m) == [owner |-> m.to, code |-> m.code, values |-> {m.payload}]
Confirmations ==
    {<<m.to, m.payload, m.code>> : m \in {n \in mails : n.code \in spent}}

Created == INSTANCE ConfirmedAccount WITH
               Owners <- Keys, Values <- Forms,
               FirstValue <- [e \in Keys |-> None], Given <- {},
               mailed <- {OfferOf(m) : m \in mails},
               confirmed <- Confirmations,
               value <- account
CreationSpec == Created!Spec

-----------------------------------------------------------------------------
(* The inductive invariant behind the safety properties. *)

\* The handler whose CreateUser answered 201 is on its way to the login.
Creating(h) == pc[h] \in {"clear", "role", "okDel", "login"}

PastVerify == \A h \in Handlers : pc[h] \in OwnLabels => typed[h] # None

OneCreator ==
    /\ \A h \in Handlers : Creating(h) =>
        account[held[h].key] # None /\ sessions[held[h].key] = 0
    /\ \A g, h \in Handlers :
        Creating(g) /\ Creating(h) /\ held[g].key = held[h].key => g = h

SessionsBacked ==
    \A e \in Keys : sessions[e] <= 1 /\ (sessions[e] > 0 => account[e] # None)

SignupInv == PastVerify /\ OneCreator /\ SessionsBacked /\ AccountAsConfirmed

IInv ==
    /\ TypeOK
    /\ FlowInv(Forms, OwnLabels)
    /\ SignupInv

-----------------------------------------------------------------------------
(* What more holds while requests come one at a time. *)

\* The labels at which an accepted code's challenge is still to be deleted.
Deciding == {"create", "dupDel", "clear", "role", "okDel"}

\* U: the codes whose challenge a verify has deleted.
CodesDeleted(U) ==
    /\ CountInv(U, {"create"}, {})
    /\ U \subseteq Consumed
    /\ \A h \in Handlers :
        /\ pc[h] \in Deciding => held[h].code \notin U
        /\ pc[h] = "dupDel" => account[held[h].key] # None

OnceInv == \E U \in SUBSET Codes : CodesDeleted(U)
=============================================================================
