------------------------------- MODULE Access -------------------------------
(***************************************************************************)
(* Who is signed in and what they may do: the sign-ins by password, code   *)
(* and OAuth, sessions, API tokens and introspection of server.go,         *)
(* email_auth.go and oauth.go (internal/httpapi) over the rows of          *)
(* internal/store/store.go, and the rule of permissions.go.                *)
(*                                                                         *)
(* A row copies the address and the permissions of its making; the rule is *)
(* applied when a row is made and again whenever it is used.  A request is *)
(* a handler with a job: the call it makes next and what it holds for it.  *)
(***************************************************************************)
EXTENDS Integers, FiniteSets

CONSTANTS
    Users, Emails,
    Perms,       \* the realm roles that are permissions of an application
    Privileged,  \* admin and bank:write
    AdminEmails, \* the allowlist
    FirstEmail, FirstRoles, \* each account's at the start
    Handlers,    \* requests that can be in flight
    Sessions,    \* bound: the session rows that can be made ...
    Tokens,      \* ... the API tokens ...
    States,      \* ... and the OAuth states
    Faults,      \* which calls may fail, and whether requests may die
    None

ASSUME AccessAssumption ==
    /\ Privileged \subseteq Perms /\ AdminEmails \subseteq Emails
    /\ FirstEmail \in [Users -> Emails] /\ FirstRoles \in [Users -> SUBSET Perms]
    /\ None \notin Emails \cup States \cup Sessions \cup Tokens
    /\ Sessions \cap Tokens = {}

\* What a row says of its owner; an address may be missing.
Row == [user : Users, email : Emails \cup {None}, perms : SUBSET Perms]
ASSUME RowAssumption == None \notin Row

VARIABLES
    email, roles, \* Keycloak: each account
    pending,      \* Redis: the OAuth states it holds
    used,         \* the OAuth states drawn so far
    sess, tok,    \* Postgres: sessions and unrevoked API tokens, None without a row
    job,          \* what each handler does next, or None
    had,          \* history: the addresses each account had
    named,        \* history: privileges Keycloak named at a sign-in from the allowlist
    granted,      \* history: privileges answered
    opened,       \* history: the sessions each OAuth state opened
    ended         \* history: sessions and tokens that ended

keycloak == <<email, roles, had>>
oauth    == <<pending, used>>
rows     == <<sess, tok, ended>>
answers  == <<named, granted, opened>>
vars     == <<email, roles, had, pending, used, sess, tok, ended, named, granted, opened, job>>

Steps == {"exchange", "userinfo", "roles", "session", "token", "touch", "revoke", "delete",
          "putEmail", "sessEmail"}
Job == [step : Steps, key : States \cup Sessions \cup Tokens \cup {None}, row : Row \cup {None}]

Init ==
    /\ email = FirstEmail
    /\ roles = FirstRoles
    /\ had = {<<u, FirstEmail[u]>> : u \in Users}
    /\ pending = {} /\ used = {}
    /\ sess = [s \in Sessions |-> None]
    /\ tok = [t \in Tokens |-> None]
    /\ job = [h \in Handlers |-> None]
    /\ named = {} /\ granted = {} /\ ended = {}
    /\ opened = [st \in States |-> 0]

-----------------------------------------------------------------------------
\* Privileges only from the allowlist.  Left out: Keycloak's built-in roles,
\* which are always dropped, and bank:demo, which everybody has.
Effective(e, P) == IF e \in AdminEmails THEN P ELSE P \ Privileged

Idle(h) == job[h] = None
At(h, step) == job[h] # None /\ job[h].step = step
Go(h, step, key, row) == job' = [job EXCEPT ![h] = [step |-> step, key |-> key, row |-> row]]
Done(h) == job' = [job EXCEPT ![h] = None]
Fails(h, kind) == kind \in Faults /\ Done(h)

\* The privileges a request answers for a row.
Answer(r) ==
    granted' = granted \cup ({r.user} \X (Effective(r.email, r.perms) \cap Privileged))

\* The privileges a sign-in names, with what Keycloak said by its end.
Names(r) == IF r.email \in AdminEmails THEN {r.user} \X (r.perms \cap Privileged) ELSE {}

\* principalFromRequest: the row of the session in the cookie.
Live == {s \in Sessions : sess[s] # None}

-----------------------------------------------------------------------------
(* Signing in *)

\* The state is stored and the browser sent to Keycloak.
OauthStart(st) ==
    /\ st \notin used
    /\ used' = used \cup {st}
    /\ pending' = pending \cup {st} \/ ("redis" \in Faults /\ UNCHANGED pending)
    /\ UNCHANGED <<keycloak, rows, answers, job>>

\* Its ten minutes are over.
OauthStateExpires(st) ==
    /\ st \in pending
    /\ pending' = pending \ {st}
    /\ UNCHANGED <<keycloak, used, rows, answers, job>>

\* Mutant: GET instead of GETDEL.
OauthCallbackKeeps(h, st) ==
    /\ Idle(h) /\ st \in pending
    /\ Go(h, "exchange", st, None)
    /\ UNCHANGED <<keycloak, oauth, rows, answers>>

\* The browser comes back, once or, reloaded, again: the state is taken.
OauthCallback(h, st) ==
    /\ Idle(h) /\ st \in pending
    /\ \/ pending' = pending \ {st} /\ Go(h, "exchange", st, None)
       \/ "redis" \in Faults /\ pending' = pending \ {st} /\ UNCHANGED job
    /\ UNCHANGED <<keycloak, used, rows, answers>>

\* Keycloak's token names the roles, and the address unless its mapper omits it.
\* The scope's words, which stand in for roles a token omits, are no privileges.
\* Nothing is assumed of the lifetime of Keycloak's authorization codes.
ExchangeCode(h) ==
    /\ At(h, "exchange")
    /\ \/ \E u \in Users : \E e \in {email[u], None} :
            Go(h, "userinfo", job[h].key, [user |-> u, email |-> e, perms |-> roles[u]])
       \/ Fails(h, "keycloak")
    /\ UNCHANGED <<keycloak, oauth, rows, answers>>

\* The same grant for a password; the typed address stands in for an omitted one.
PasswordLogin(h) ==
    /\ Idle(h)
    /\ \E u \in Users :
        Go(h, "userinfo", None, [user |-> u, email |-> email[u], perms |-> roles[u]])
    /\ UNCHANGED <<keycloak, oauth, rows, answers>>

\* A second call asks for the address; its failure leaves the token's.
FetchUserInfo(h) ==
    LET r == job[h].row IN
    /\ At(h, "userinfo")
    /\ \E e \in {email[r.user]} \cup (IF "keycloak" \in Faults THEN {r.email} ELSE {}) :
        /\ Go(h, "session", job[h].key, [r EXCEPT !.email = e])
        /\ named' = named \cup Names([r EXCEPT !.email = e])
    /\ UNCHANGED <<keycloak, oauth, rows, granted, opened>>

\* A code accepted in Credentials: the account is looked up by its address ...
FindUserByEmail(h) ==
    /\ Idle(h)
    /\ \E u \in Users : Go(h, "roles", None, [user |-> u, email |-> email[u], perms |-> {}])
    /\ UNCHANGED <<keycloak, oauth, rows, answers>>

\* ... and then asked for its roles, composites expanded.
ListRealmRoleNames(h) ==
    LET r == [job[h].row EXCEPT !.perms = roles[job[h].row.user]] IN
    /\ At(h, "roles")
    /\ \/ Go(h, "session", None, r) /\ named' = named \cup Names(r)
       \/ Fails(h, "keycloak") /\ UNCHANGED named
    /\ UNCHANGED <<keycloak, oauth, rows, granted, opened>>

\* Mutant: the roles of the token stored as they are.
CreateSessionUnfiltered(h) ==
    /\ At(h, "session")
    /\ \E s \in Sessions \ ended :
        /\ s \notin Live
        /\ sess' = [sess EXCEPT ![s] = job[h].row]
    /\ opened' = [st \in States |-> opened[st] + IF st = job[h].key THEN 1 ELSE 0]
    /\ Done(h)
    /\ UNCHANGED <<keycloak, oauth, tok, ended, named, granted>>

\* The row is made and its cookie set; a password sign-in also answers its
\* permissions, an OAuth one redirects.  A row whose INSERT answered an error has
\* no cookie to come with and is left out.
CreateSession(h) ==
    LET r == [job[h].row EXCEPT !.perms = Effective(job[h].row.email, @)] IN
    /\ At(h, "session")
    /\ \/ /\ \E s \in Sessions \ ended : s \notin Live /\ sess' = [sess EXCEPT ![s] = r]
          /\ opened' = [st \in States |-> opened[st] + IF st = job[h].key THEN 1 ELSE 0]
          /\ IF job[h].key = None THEN Answer(r) ELSE UNCHANGED granted
          /\ Done(h)
       \/ Fails(h, "postgres") /\ UNCHANGED <<sess, opened, granted>>
    /\ UNCHANGED <<keycloak, oauth, tok, ended, named>>

-----------------------------------------------------------------------------
(* API tokens and introspection *)

\* createToken copies the session's address, and its permissions by the rule.
CreateTokenStart(h) ==
    /\ Idle(h)
    /\ \E s \in Live :
        Go(h, "token", None, [sess[s] EXCEPT !.perms = Effective(sess[s].email, @)])
    /\ UNCHANGED <<keycloak, oauth, rows, answers>>

\* As with a session, a row whose INSERT answered an error is nobody's.
CreateAPIToken(h) ==
    /\ At(h, "token")
    /\ \/ \E t \in Tokens \ ended : tok[t] = None /\ tok' = [tok EXCEPT ![t] = job[h].row]
       \/ "postgres" \in Faults /\ UNCHANGED tok
    /\ Done(h)
    /\ UNCHANGED <<keycloak, oauth, sess, ended, answers>>

RevokeTokenStart(h) ==
    /\ Idle(h)
    /\ \E s \in Live, t \in Tokens : Go(h, "revoke", t, sess[s])
    /\ UNCHANGED <<keycloak, oauth, rows, answers>>

\* Only the owner's own row; every query leaves revoked rows out, so here they go.
RevokeAPIToken(h) ==
    LET t == job[h].key
        revokes == tok' = [tok EXCEPT ![t] = None] /\ ended' = ended \cup {t}
        own     == tok[t] # None /\ tok[t].user = job[h].row.user
    IN  /\ At(h, "revoke")
        /\ \/ own /\ revokes
           \/ (~own \/ "postgres" \in Faults) /\ UNCHANGED <<tok, ended>>
        /\ Done(h)
        /\ UNCHANGED <<keycloak, oauth, sess, answers>>

IntrospectRead(h, t) ==
    /\ Idle(h) /\ tok[t] # None
    /\ Go(h, "touch", t, tok[t])
    /\ UNCHANGED <<keycloak, oauth, rows, answers>>

\* TouchAPIToken sets last_used_at, which only the list shows, its error ignored;
\* the answer is of the row as read before.
IntrospectAnswer(h) ==
    /\ At(h, "touch")
    /\ Answer(job[h].row)
    /\ Done(h)
    /\ UNCHANGED <<keycloak, oauth, rows, named, opened>>

-----------------------------------------------------------------------------
(* Using and ending a session *)

Me(s) ==
    /\ s \in Live
    /\ Answer(sess[s])
    /\ UNCHANGED <<keycloak, oauth, rows, named, opened, job>>

LogoutStart(h) ==
    /\ Idle(h)
    /\ \E s \in Live : Go(h, "delete", s, None)
    /\ UNCHANGED <<keycloak, oauth, rows, answers>>

Ends(s) == sess' = [sess EXCEPT ![s] = None] /\ ended' = ended \cup {s}

\* Logout answers 200 and takes the cookie back even if the row could not go.
DeleteSession(h) ==
    /\ At(h, "delete")
    /\ Ends(job[h].key) \/ ("postgres" \in Faults /\ UNCHANGED <<sess, ended>>)
    /\ Done(h)
    /\ UNCHANGED <<keycloak, oauth, tok, answers>>

\* expires_at passes.
SessionExpires(s) ==
    /\ s \in Live
    /\ Ends(s)
    /\ UNCHANGED <<keycloak, oauth, tok, answers, job>>

-----------------------------------------------------------------------------
(* The account changes beneath its rows *)

Has(u, e) == email' = [email EXCEPT ![u] = e] /\ had' = had \cup {<<u, e>>}

\* An accepted e-mail change (Profile), from its session's row to the answer.
EmailChangeAccepted(h) ==
    /\ Idle(h)
    /\ \E s \in Live, e \in Emails : Go(h, "putEmail", s, [sess[s] EXCEPT !.email = e])
    /\ UNCHANGED <<keycloak, oauth, rows, answers>>

\* Mutant: the row follows before Keycloak.
UpdateUserEmailLast(h) ==
    LET s == job[h].key IN
    /\ At(h, "putEmail")
    /\ sess' = IF s \in Live THEN [sess EXCEPT ![s].email = job[h].row.email] ELSE sess
    /\ Done(h)
    /\ UNCHANGED <<keycloak, oauth, tok, ended, answers>>

\* Keycloak may refuse it, as when somebody else has the address.
UpdateUserEmail(h) ==
    LET changes == Has(job[h].row.user, job[h].row.email)
    IN  /\ At(h, "putEmail")
        /\ \/ changes /\ Go(h, "sessEmail", job[h].key, job[h].row)
           \/ changes /\ Fails(h, "keycloak")
           \/ UNCHANGED <<email, had>> /\ Done(h)
        /\ UNCHANGED <<roles, oauth, rows, answers>>

\* Mutant: a missing row is made again.
UpdateSessionEmailUpserts(h) ==
    /\ At(h, "sessEmail")
    /\ sess' = [sess EXCEPT ![job[h].key] = job[h].row]
    /\ Done(h)
    /\ UNCHANGED <<keycloak, oauth, tok, ended, answers>>

UpdateSessionEmail(h) ==
    LET s == job[h].key IN
    /\ At(h, "sessEmail")
    /\ \/ s \in Live /\ sess' = [sess EXCEPT ![s].email = job[h].row.email] /\ Answer(job[h].row)
       \/ (s \notin Live \/ "postgres" \in Faults) /\ UNCHANGED <<sess, granted>>
    /\ Done(h)
    /\ UNCHANGED <<keycloak, oauth, tok, ended, named, opened>>

\* An administrator grants and takes back roles in the Keycloak console.
SetRoles(u, R) ==
    /\ roles' = [roles EXCEPT ![u] = R]
    /\ UNCHANGED <<email, had, oauth, rows, answers, job>>

\* The process of a request dies.
Dies(h) ==
    /\ "crash" \in Faults
    /\ ~Idle(h) /\ Done(h)
    /\ UNCHANGED <<keycloak, oauth, rows, answers>>

Next ==
    \/ \E st \in States : OauthStart(st) \/ OauthStateExpires(st)
    \/ \E s \in Sessions : Me(s) \/ SessionExpires(s)
    \/ \E u \in Users, R \in SUBSET Perms : SetRoles(u, R)
    \/ \E h \in Handlers :
        \/ \E st \in States : OauthCallback(h, st)
        \/ ExchangeCode(h) \/ PasswordLogin(h) \/ FetchUserInfo(h)
        \/ FindUserByEmail(h) \/ ListRealmRoleNames(h) \/ CreateSession(h)
        \/ CreateTokenStart(h) \/ CreateAPIToken(h) \/ RevokeTokenStart(h) \/ RevokeAPIToken(h)
        \/ \E t \in Tokens : IntrospectRead(h, t)
        \/ IntrospectAnswer(h) \/ LogoutStart(h) \/ DeleteSession(h)
        \/ EmailChangeAccepted(h) \/ UpdateUserEmail(h) \/ UpdateSessionEmail(h) \/ Dies(h)

Spec == Init /\ [][Next]_vars

-----------------------------------------------------------------------------
TypeOK ==
    /\ email \in [Users -> Emails] /\ roles \in [Users -> SUBSET Perms]
    /\ pending \subseteq States /\ used \subseteq States
    /\ sess \in [Sessions -> Row \cup {None}] /\ tok \in [Tokens -> Row \cup {None}]
    /\ job \in [Handlers -> Job \cup {None}]
    /\ had \subseteq Users \X Emails
    /\ named \subseteq Users \X Privileged /\ granted \subseteq Users \X Privileged
    /\ opened \in [States -> Nat]
    /\ ended \subseteq Sessions \cup Tokens

\* A privilege is answered, by a session or an API token, only to a user to whom
\* a sign-in under an allowlisted address named it: no order of role changes,
\* e-mail changes and copies of rows adds up to one that never was.
PrivilegeEarned == granted \subseteq named

\* A row's address is one its owner had at some time, or missing: a change that
\* Keycloak refused never reaches a row.
AddressesHeld ==
    \A r \in {sess[s] : s \in Live} \cup {tok[t] : t \in {x \in Tokens : tok[x] # None}} :
        r.email # None => <<r.user, r.email>> \in had

\* An OAuth state opens one session, however often its callback is loaded.
OneSessionPerState == \A st \in States : opened[st] <= 1

\* No late step of another request brings back a session or token that ended.
EndedForGood ==
    /\ \A s \in Sessions \cap ended : sess[s] = None
    /\ \A t \in Tokens \cap ended : tok[t] = None

-----------------------------------------------------------------------------
(* The inductive invariant behind the safety properties. *)

\* What a stored row, and every copy of one, can be relied on for: its address
\* was its owner's, and its privileges were named to its owner.
Held(r)   == r.email # None => <<r.user, r.email>> \in had
Earned(r) == {r.user} \X (r.perms \cap Privileged) \subseteq named

CurrentHad == \A u \in Users : <<u, email[u]>> \in had

RowsGood ==
    /\ \A s \in Sessions : sess[s] # None => Held(sess[s]) /\ Earned(sess[s])
    /\ \A t \in Tokens : tok[t] # None => Held(tok[t]) /\ Earned(tok[t])

\* What a request has in hand for a step: key k and row r.  An e-mail change works
\* for the owner of its session, whose place no other session takes.
Fits(step, k, r) ==
    /\ step = "exchange" => k \in States
    /\ step \in {"userinfo", "session"} => k \in States \cup {None}
    /\ step \in {"userinfo", "roles", "session", "token", "touch", "sessEmail"} =>
        r \in Row /\ Held(r)
    /\ step = "session" => Names(r) \subseteq named
    /\ step \in {"token", "touch", "putEmail", "sessEmail"} => Earned(r)
    /\ step = "revoke" => k \in Tokens
    /\ step = "delete" => k \in Sessions
    /\ step \in {"putEmail", "sessEmail"} =>
        /\ r \in Row /\ r.email # None
        /\ k \in Sessions /\ k \in Live \cup ended
        /\ k \in Live => sess[k].user = r.user

JobGood(h) == job[h] # None => Fits(job[h].step, job[h].key, job[h].row)

\* A callback between its GETDEL and its session.
Carries(h, st) ==
    job[h] # None /\ job[h].step \in {"exchange", "userinfo", "session"} /\ job[h].key = st

\* A state is unused, pending, in the hands of one callback, or used up.
StatesSpent ==
    /\ pending \subseteq used
    /\ \A st \in States :
        /\ st \in pending \/ st \notin used =>
            opened[st] = 0 /\ \A h \in Handlers : ~Carries(h, st)
        /\ \A h \in Handlers : Carries(h, st) => opened[st] = 0
        /\ \A g, h \in Handlers : Carries(g, st) /\ Carries(h, st) => g = h
        /\ opened[st] <= 1

IInv ==
    /\ TypeOK
    /\ CurrentHad
    /\ RowsGood
    /\ \A h \in Handlers : JobGood(h)
    /\ StatesSpent
    /\ EndedForGood
    /\ PrivilegeEarned
=============================================================================
