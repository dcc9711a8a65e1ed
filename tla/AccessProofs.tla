---------------------------- MODULE AccessProofs ----------------------------
(***************************************************************************)
(* Proofs about Access for every set of users, addresses, permissions,     *)
(* handlers, rows, states and faults: its types, and the four properties   *)
(* of who is signed in and what they are told they may do.                 *)
(***************************************************************************)
EXTENDS Access, TLAPS

USE AccessAssumption, RowAssumption

LEMMA InitInv == Init => IInv
<1> SUFFICES ASSUME Init PROVE IInv
  OBVIOUS
<1>1. TypeOK /\ CurrentHad
  BY DEF Init, TypeOK, CurrentHad
<1>2. RowsGood /\ EndedForGood /\ PrivilegeEarned
  BY DEF Init, RowsGood, EndedForGood, PrivilegeEarned
<1>3. (\A h \in Handlers : JobGood(h)) /\ StatesSpent
  BY DEF Init, JobGood, StatesSpent, Carries
<1> QED BY <1>1, <1>2, <1>3 DEF IInv

-----------------------------------------------------------------------------
(* Rows and jobs. *)

\* The fields of a row with another address, or with other permissions.
LEMMA WithEmail ==
  ASSUME NEW r \in Row, NEW e \in Emails \cup {None}
  PROVE  /\ [r EXCEPT !.email = e] \in Row
         /\ [r EXCEPT !.email = e].user = r.user
         /\ [r EXCEPT !.email = e].email = e
         /\ [r EXCEPT !.email = e].perms = r.perms
  BY DEF Row

LEMMA WithPerms ==
  ASSUME NEW r \in Row, NEW P \in SUBSET Perms
  PROVE  /\ [r EXCEPT !.perms = P] \in Row
         /\ [r EXCEPT !.perms = P].user = r.user
         /\ [r EXCEPT !.perms = P].email = r.email
         /\ [r EXCEPT !.perms = P].perms = P
  BY DEF Row

\* What a request with a job has in hand.
LEMMA JobFields ==
  ASSUME IInv, NEW h \in Handlers, NEW step, At(h, step)
  PROVE  /\ Fits(step, job[h].key, job[h].row)
         /\ job[h].step = step
         /\ job[h].key \in States \cup Sessions \cup Tokens \cup {None}
         /\ job[h].row \in Row \cup {None}
  BY DEF IInv, TypeOK, At, Job, JobGood

\* By the rule a row keeps no privilege that was not named.
LEMMA EffectiveEarned ==
  ASSUME NEW r \in Row, Names(r) \subseteq named
  PROVE  /\ Effective(r.email, r.perms) \in SUBSET Perms
         /\ {r.user} \X (Effective(r.email, r.perms) \cap Privileged) \subseteq named
  BY DEF Effective, Names, Row

\* Nor does the rule add one to a row whose own are earned.
LEMMA EffectiveOfEarned ==
  ASSUME NEW r \in Row, Earned(r)
  PROVE  /\ Effective(r.email, r.perms) \in SUBSET Perms
         /\ {r.user} \X (Effective(r.email, r.perms) \cap Privileged) \subseteq named
  BY DEF Effective, Earned, Row

-----------------------------------------------------------------------------
(* What a step leaves as it was. *)

\* Only the request of h takes a step.
OthersWait(h) == \A g \in Handlers \ {h} : job'[g] = job[g]

\* What was had and named stays so.
HistoriesGrow == had \subseteq had' /\ named \subseteq named'

\* No session comes back, and none changes its owner.
SessionsGoOn ==
    \A s \in Live \cup ended : /\ s \in Live' \cup ended'
                               /\ s \in Live' => s \in Live /\ sess'[s].user = sess[s].user

\* What the other requests have in hand stays good.
LEMMA JobsKept ==
  ASSUME IInv, HistoriesGrow, SessionsGoOn, NEW h \in Handlers, OthersWait(h), JobGood(h)'
  PROVE  \A g \in Handlers : JobGood(g)'
<1> SUFFICES ASSUME NEW g \in Handlers, g # h, job[g] # None PROVE JobGood(g)'
  BY DEF OthersWait, JobGood
<1>1. Fits(job[g].step, job[g].key, job[g].row) /\ job'[g] = job[g]
  BY DEF IInv, OthersWait, JobGood
<1>2. Fits(job[g].step, job[g].key, job[g].row)'
  BY <1>1 DEF Fits, Held, Earned, Names, HistoriesGrow, SessionsGoOn
<1> QED BY <1>2 DEF JobGood

\* No state gets into the hands of another request.
LEMMA StatesKept ==
  ASSUME IInv, NEW h \in Handlers, OthersWait(h), UNCHANGED <<oauth, opened>>,
         \A st \in States : Carries(h, st)' => Carries(h, st)
  PROVE  StatesSpent'
<1>1. \A g \in Handlers, st \in States : Carries(g, st)' => Carries(g, st)
  BY DEF OthersWait, Carries
<1> QED BY <1>1 DEF IInv, StatesSpent, oauth

\* With its rows and answers alone, a step keeps what is said of them.
LEMMA RowsKept ==
  ASSUME IInv, HistoriesGrow, UNCHANGED <<rows, granted>>
  PROVE  RowsGood' /\ EndedForGood' /\ PrivilegeEarned' /\ SessionsGoOn
<1> USE DEF IInv, HistoriesGrow, rows
<1>1. RowsGood'
  BY DEF RowsGood, Held, Earned
<1>2. EndedForGood' /\ PrivilegeEarned'
  BY DEF EndedForGood, PrivilegeEarned
<1>3. SessionsGoOn
  BY DEF SessionsGoOn, Live
<1> QED BY <1>1, <1>2, <1>3

-----------------------------------------------------------------------------
(* A request that only moves on. *)

\* Its job becomes what it is given.
LEMMA GoSets ==
  ASSUME IInv, NEW h \in Handlers, NEW step, NEW key, NEW row, Go(h, step, key, row)
  PROVE  /\ OthersWait(h)
         /\ job'[h].step = step /\ job'[h].key = key /\ job'[h].row = row
         /\ Fits(step, key, row)' => JobGood(h)'
  BY DEF IInv, TypeOK, Go, OthersWait, JobGood, Carries

\* A request takes up a job, or the next step of its own.
LEMMA GoKeeps ==
  ASSUME IInv, NEW h \in Handlers, HistoriesGrow,
         NEW step \in Steps, NEW key \in States \cup Sessions \cup Tokens \cup {None},
         NEW row \in Row \cup {None}, Go(h, step, key, row), Fits(step, key, row)',
         named' \subseteq Users \X Privileged,
         UNCHANGED <<email, roles, had, oauth, rows, granted, opened>>,
         key \in States /\ step \in {"exchange", "userinfo", "session"} => Carries(h, key)
  PROVE  IInv'
<1>1. OthersWait(h) /\ JobGood(h)'
  BY GoSets
<1>0. ASSUME NEW st \in States, Carries(h, st)' PROVE Carries(h, st)
  BY <1>0, GoSets DEF Carries
<1>2. RowsGood' /\ EndedForGood' /\ PrivilegeEarned' /\ SessionsGoOn
  BY RowsKept
<1>3. TypeOK' /\ CurrentHad'
  BY DEF IInv, TypeOK, CurrentHad, Go, Job, oauth, rows
<1>4. (\A g \in Handlers : JobGood(g)') /\ StatesSpent'
  BY <1>0, <1>1, <1>2, JobsKept, StatesKept
<1> QED BY <1>2, <1>3, <1>4 DEF IInv

\* A sign-in by password or by code takes up its job.
LEMMA PasswordLoginKeeps ==
  ASSUME IInv, NEW h \in Handlers, PasswordLogin(h) \/ FindUserByEmail(h)
  PROVE  IInv'
<1> USE DEF keycloak, rows, answers
<1>1. PICK u \in Users, P \in SUBSET Perms, step \in {"userinfo", "roles"} :
        Go(h, step, None, [user |-> u, email |-> email[u], perms |-> P])
  BY DEF PasswordLogin, FindUserByEmail, IInv, TypeOK
<1>2. PICK row \in Row : row = [user |-> u, email |-> email[u], perms |-> P]
  BY DEF IInv, TypeOK, Row
<1>3. UNCHANGED <<email, roles, had, oauth, rows, named, granted, opened>>
  BY DEF PasswordLogin, FindUserByEmail
<1>4. HistoriesGrow /\ named' \subseteq Users \X Privileged
  BY <1>3 DEF HistoriesGrow, IInv, TypeOK
<1>5. Fits(step, None, row)'
  BY <1>2, <1>3 DEF Fits, Held, IInv, CurrentHad
<1>6. step \in Steps /\ Go(h, step, None, row)
  BY <1>1, <1>2 DEF Steps
<1> QED BY <1>3, <1>4, <1>5, <1>6, GoKeeps

\* A request answers, fails or dies and leaves all else as it was.
LEMMA DoneSets ==
  ASSUME IInv, NEW h \in Handlers, Done(h)
  PROVE  /\ OthersWait(h) /\ JobGood(h)'
         /\ job' \in [Handlers -> Job \cup {None}]
         /\ \A st \in States : Carries(h, st)' => Carries(h, st)
  BY DEF IInv, TypeOK, Done, OthersWait, JobGood, Carries

LEMMA DoneKeeps ==
  ASSUME IInv, NEW h \in Handlers, Done(h), UNCHANGED <<keycloak, oauth, rows, answers>>
  PROVE  IInv'
<1> USE DEF keycloak, answers
<1>1. HistoriesGrow
  BY DEF HistoriesGrow
<1>2. RowsGood' /\ EndedForGood' /\ PrivilegeEarned' /\ SessionsGoOn
  BY <1>1, RowsKept
<1>3. TypeOK' /\ CurrentHad'
  BY DoneSets DEF IInv, TypeOK, CurrentHad, oauth, rows
<1>4. (\A g \in Handlers : JobGood(g)') /\ StatesSpent'
  BY <1>1, <1>2, DoneSets, JobsKept, StatesKept
<1> QED BY <1>2, <1>3, <1>4 DEF IInv

\* The token of a code exchange: the roles and perhaps the address of the account.
LEMMA ExchangeCodeKeeps ==
  ASSUME IInv, NEW h \in Handlers, ExchangeCode(h)
  PROVE  IInv'
<1> USE DEF keycloak, rows, answers
<1>0. UNCHANGED <<email, roles, had, oauth, rows, named, granted, opened>>
  BY DEF ExchangeCode
<1>1. job[h].key \in States /\ Carries(h, job[h].key)
  BY JobFields DEF ExchangeCode, Fits, Carries, At
<1>2. CASE Fails(h, "keycloak")
  BY <1>0, <1>2, DoneKeeps DEF Fails
<1>3. CASE \E u \in Users : \E e \in {email[u], None} :
             Go(h, "userinfo", job[h].key, [user |-> u, email |-> e, perms |-> roles[u]])
  <2>0. PICK u \in Users : \E e \in {email[u], None} :
          Go(h, "userinfo", job[h].key, [user |-> u, email |-> e, perms |-> roles[u]])
    BY <1>3
  <2>1. PICK e \in {email[u], None} :
          Go(h, "userinfo", job[h].key, [user |-> u, email |-> e, perms |-> roles[u]])
    BY <2>0
  <2>2. PICK row \in Row : row = [user |-> u, email |-> e, perms |-> roles[u]]
    BY DEF IInv, TypeOK, Row
  <2>3. PICK key \in States : key = job[h].key
    BY <1>1
  <2>4. HistoriesGrow /\ named' \subseteq Users \X Privileged
    BY <1>0 DEF HistoriesGrow, IInv, TypeOK
  <2>5. Fits("userinfo", key, row)'
    BY <1>0, <2>2 DEF Fits, Held, IInv, CurrentHad
  <2>6. Go(h, "userinfo", key, row) /\ "userinfo" \in Steps
    BY <2>1, <2>2, <2>3 DEF Steps
  <2> QED BY <1>0, <1>1, <2>3, <2>4, <2>5, <2>6, GoKeeps
<1> QED BY <1>2, <1>3 DEF ExchangeCode

\* A sign-in names the privileges of its row.
LEMMA NamesAre ==
  ASSUME NEW r \in Row
  PROVE  Names(r) \subseteq Users \X Privileged
  BY DEF Names, Row

LEMMA FetchUserInfoKeeps ==
  ASSUME IInv, NEW h \in Handlers, FetchUserInfo(h)
  PROVE  IInv'
<1> USE DEF keycloak, rows, answers
<1>0. UNCHANGED <<email, roles, had, oauth, rows, granted, opened>>
  BY DEF FetchUserInfo
<1>1. PICK key \in States \cup {None}, r \in Row :
        key = job[h].key /\ r = job[h].row /\ Held(r) /\ (key \in States => Carries(h, key))
  BY JobFields DEF FetchUserInfo, Fits, Carries, At
<1>2. PICK e \in {email[r.user], r.email} :
        Go(h, "session", key, [r EXCEPT !.email = e])
        /\ named' = named \cup Names([r EXCEPT !.email = e])
  BY <1>1 DEF FetchUserInfo
<1>3. e \in Emails \cup {None} /\ (e # None => <<r.user, e>> \in had)
  BY <1>1 DEF Held, IInv, TypeOK, CurrentHad, Row
<1>4. PICK row \in Row : row = [r EXCEPT !.email = e] /\ row.user = r.user /\ row.email = e
  BY <1>3, WithEmail
<1>5. HistoriesGrow /\ named' \subseteq Users \X Privileged
  BY <1>0, <1>2, <1>4, NamesAre DEF HistoriesGrow, IInv, TypeOK
<1>6. Fits("session", key, row)'
  BY <1>0, <1>2, <1>3, <1>4 DEF Fits, Held, Names
<1>7. Go(h, "session", key, row) /\ "session" \in Steps
  BY <1>2, <1>4 DEF Steps
<1> QED BY <1>0, <1>1, <1>5, <1>6, <1>7, GoKeeps

LEMMA ListRealmRoleNamesKeeps ==
  ASSUME IInv, NEW h \in Handlers, ListRealmRoleNames(h)
  PROVE  IInv'
<1> USE DEF keycloak, rows, answers
<1>0. UNCHANGED <<email, roles, had, oauth, rows, granted, opened>>
  BY DEF ListRealmRoleNames
<1>1. PICK r \in Row : r = job[h].row /\ Held(r)
  BY JobFields DEF ListRealmRoleNames, Fits
<1>2. PICK P \in SUBSET Perms : P = roles[r.user]
  BY DEF IInv, TypeOK, Row
<1>3. PICK row \in Row : row = [r EXCEPT !.perms = P] /\ row.user = r.user /\ row.email = r.email
  BY WithPerms
<1>4. CASE Fails(h, "keycloak") /\ UNCHANGED named
  BY <1>0, <1>4, DoneKeeps DEF Fails
<1>5. CASE Go(h, "session", None, row) /\ named' = named \cup Names(row)
  <2>1. HistoriesGrow /\ named' \subseteq Users \X Privileged
    BY <1>0, <1>5, NamesAre DEF HistoriesGrow, IInv, TypeOK
  <2>2. Fits("session", None, row)'
    BY <1>0, <1>1, <1>3, <1>5 DEF Fits, Held, Names
  <2> QED BY <1>0, <1>5, <2>1, <2>2, GoKeeps DEF Steps
<1> QED BY <1>1, <1>2, <1>3, <1>4, <1>5 DEF ListRealmRoleNames

\* What is said of the row of a live session, and of a token's.
LEMMA LiveRow ==
  ASSUME IInv, NEW s \in Live
  PROVE  s \in Sessions /\ sess[s] \in Row /\ Held(sess[s]) /\ Earned(sess[s])
  BY DEF Live, IInv, TypeOK, RowsGood

LEMMA TokenRow ==
  ASSUME IInv, NEW t \in Tokens, tok[t] # None
  PROVE  tok[t] \in Row /\ Held(tok[t]) /\ Earned(tok[t])
  BY DEF IInv, TypeOK, RowsGood

\* A request takes a copy of a row along, changing nothing.
LEMMA CopyKeeps ==
  ASSUME IInv, NEW h \in Handlers,
         NEW step \in Steps \ {"exchange", "userinfo", "session"},
         NEW key \in Sessions \cup Tokens \cup {None},
         NEW row \in Row \cup {None}, Go(h, step, key, row), Fits(step, key, row)',
         UNCHANGED <<keycloak, oauth, rows, answers>>
  PROVE  IInv'
<1>1. /\ HistoriesGrow /\ named' \subseteq Users \X Privileged
      /\ UNCHANGED <<email, roles, had, oauth, rows, granted, opened>>
  BY DEF HistoriesGrow, keycloak, answers, IInv, TypeOK
<1> QED BY <1>1, GoKeeps

LEMMA CreateTokenStartKeeps ==
  ASSUME IInv, NEW h \in Handlers, CreateTokenStart(h)
  PROVE  IInv'
<1>1. PICK s \in Live :
        Go(h, "token", None, [sess[s] EXCEPT !.perms = Effective(sess[s].email, @)])
  BY DEF CreateTokenStart
<1>2. PICK r \in Row : r = sess[s] /\ Held(r) /\ Earned(r)
  BY LiveRow
<1>3. PICK P \in SUBSET Perms :
        P = Effective(r.email, r.perms) /\ {r.user} \X (P \cap Privileged) \subseteq named
  BY <1>2, EffectiveOfEarned
<1>4. PICK row \in Row : row = [r EXCEPT !.perms = P]
                         /\ row.user = r.user /\ row.email = r.email /\ row.perms = P
  BY WithPerms
<1>5. Go(h, "token", None, row) /\ "token" \in Steps \ {"exchange", "userinfo", "session"}
  BY <1>1, <1>2, <1>3, <1>4 DEF Steps
<1>6. UNCHANGED <<keycloak, oauth, rows, answers>>
  BY DEF CreateTokenStart
<1>7. Fits("token", None, row)'
  BY <1>2, <1>3, <1>4, <1>6 DEF Fits, Held, Earned, keycloak, answers
<1> QED BY <1>5, <1>6, <1>7, CopyKeeps

LEMMA RevokeTokenStartKeeps ==
  ASSUME IInv, NEW h \in Handlers, RevokeTokenStart(h)
  PROVE  IInv'
<1>1. PICK s \in Live, t \in Tokens : Go(h, "revoke", t, sess[s])
  BY DEF RevokeTokenStart
<1>2. PICK row \in Row : row = sess[s]
  BY LiveRow
<1>3. Fits("revoke", t, row)'
  BY DEF Fits
<1> QED BY <1>1, <1>2, <1>3, CopyKeeps DEF RevokeTokenStart, Steps

LEMMA IntrospectReadKeeps ==
  ASSUME IInv, NEW h \in Handlers, NEW t \in Tokens, IntrospectRead(h, t)
  PROVE  IInv'
<1>1. PICK row \in Row : row = tok[t] /\ Held(row) /\ Earned(row)
  BY TokenRow DEF IntrospectRead
<1>2. UNCHANGED <<keycloak, oauth, rows, answers>> /\ Go(h, "touch", t, row)
  BY <1>1 DEF IntrospectRead
<1>3. Fits("touch", t, row)'
  BY <1>1, <1>2 DEF Fits, Held, Earned, keycloak, answers
<1> QED BY <1>2, <1>3, CopyKeeps DEF Steps

LEMMA LogoutStartKeeps ==
  ASSUME IInv, NEW h \in Handlers, LogoutStart(h)
  PROVE  IInv'
<1>1. PICK s \in Live : Go(h, "delete", s, None)
  BY DEF LogoutStart
<1>2. s \in Sessions /\ Fits("delete", s, None)'
  BY LiveRow DEF Fits
<1> QED BY <1>1, <1>2, CopyKeeps DEF LogoutStart, Steps

LEMMA EmailChangeAcceptedKeeps ==
  ASSUME IInv, NEW h \in Handlers, EmailChangeAccepted(h)
  PROVE  IInv'
<1>1. PICK s \in Live, e \in Emails : Go(h, "putEmail", s, [sess[s] EXCEPT !.email = e])
  BY DEF EmailChangeAccepted
<1>2. PICK r \in Row : r = sess[s] /\ Earned(r) /\ s \in Sessions
  BY LiveRow
<1>3. PICK row \in Row : row = [r EXCEPT !.email = e]
                         /\ row.user = r.user /\ row.email = e /\ row.perms = r.perms
  BY WithEmail
<1>4. UNCHANGED <<keycloak, oauth, rows, answers>> /\ Go(h, "putEmail", s, row)
  BY <1>1, <1>2, <1>3 DEF EmailChangeAccepted
<1>5. e # None /\ s \in Live' /\ sess'[s].user = row.user
  BY <1>2, <1>3, <1>4 DEF rows, Live
<1>6. Fits("putEmail", s, row)'
  BY <1>2, <1>3, <1>4, <1>5 DEF Fits, Earned, answers, Names
<1> QED BY <1>2, <1>4, <1>6, CopyKeeps DEF Steps

-----------------------------------------------------------------------------
(* The OAuth states. *)

LEMMA OauthStateKeeps ==
  ASSUME IInv, NEW st \in States, OauthStart(st) \/ OauthStateExpires(st)
  PROVE  IInv'
<1> USE DEF keycloak, rows, answers, IInv
<1>1. TypeOK' /\ CurrentHad'
  BY DEF OauthStart, OauthStateExpires, TypeOK, CurrentHad
<1>2. RowsGood' /\ EndedForGood' /\ PrivilegeEarned'
  BY DEF OauthStart, OauthStateExpires, RowsGood, Held, Earned, EndedForGood, PrivilegeEarned
<1>3. \A h \in Handlers : JobGood(h)'
  BY DEF OauthStart, OauthStateExpires, JobGood, Fits, Held, Earned, Names, Live
<1>4. StatesSpent'
  BY DEF OauthStart, OauthStateExpires, StatesSpent, Carries
<1> QED BY <1>1, <1>2, <1>3, <1>4

\* The GETDEL hands a pending state to one callback.
LEMMA CallbackKeeps ==
  ASSUME IInv, NEW h \in Handlers, NEW st \in States, OauthCallback(h, st)
  PROVE  IInv'
<1> USE DEF keycloak, rows, answers
<1>1. PICK taken \in BOOLEAN :
        /\ taken => Go(h, "exchange", st, None)
        /\ ~taken => job' = job
  BY DEF OauthCallback
<1>2. OthersWait(h) /\ JobGood(h)'
  <2>1. CASE taken
    <3>1. Fits("exchange", st, None)'
      BY DEF Fits
    <3> QED BY <1>1, <2>1, <3>1, GoSets
  <2>2. CASE ~taken
    BY <1>1, <2>2 DEF OthersWait, JobGood, OauthCallback, Idle
  <2> QED BY <2>1, <2>2
<1>3. HistoriesGrow /\ RowsGood' /\ EndedForGood' /\ PrivilegeEarned' /\ SessionsGoOn
  <2>1. HistoriesGrow /\ UNCHANGED <<rows, granted>>
    BY DEF OauthCallback, HistoriesGrow
  <2> QED BY <2>1, RowsKept
<1>4. TypeOK' /\ CurrentHad'
  BY <1>1 DEF OauthCallback, IInv, TypeOK, CurrentHad, Go, Job, Steps
<1>5. \A g \in Handlers : JobGood(g)'
  BY <1>2, <1>3, JobsKept
<1>6. StatesSpent'
  <2>1. /\ st \in pending /\ pending' = pending \ {st} /\ UNCHANGED <<used, opened>>
        /\ opened[st] = 0 /\ \A g \in Handlers : ~Carries(g, st)
    BY DEF OauthCallback, IInv, StatesSpent
  <2>2. \A g \in Handlers \ {h}, x \in States : Carries(g, x)' => Carries(g, x)
    BY <1>2 DEF OthersWait, Carries
  <2>3. ASSUME NEW x \in States, Carries(h, x)' PROVE x = st
    <3>1. taken
      BY <1>1, <2>3 DEF OauthCallback, Idle, Carries
    <3> QED BY <1>1, <2>3, <3>1, GoSets DEF Carries
  <2> QED BY <2>1, <2>2, <2>3 DEF IInv, StatesSpent
<1> QED BY <1>3, <1>4, <1>5, <1>6 DEF IInv

-----------------------------------------------------------------------------
(* The rows. *)

\* A request ends with a call to a store.
LEMMA StoreKeeps ==
  ASSUME IInv, NEW h \in Handlers, Done(h), HistoriesGrow, SessionsGoOn,
         UNCHANGED <<oauth, opened>>,
         job' \in [Handlers -> Job \cup {None}] => TypeOK',
         CurrentHad', RowsGood', EndedForGood', PrivilegeEarned'
  PROVE  IInv'
<1>1. TypeOK'
  BY DoneSets
<1>2. (\A g \in Handlers : JobGood(g)') /\ StatesSpent'
  BY DoneSets, JobsKept, StatesKept
<1> QED BY <1>1, <1>2 DEF IInv

\* What is answered for a row whose privileges were named.
LEMMA AnswerEarned ==
  ASSUME IInv, NEW r \in Row, Answer(r), Earned(r), UNCHANGED named
  PROVE  PrivilegeEarned' /\ granted' \subseteq Users \X Privileged
<1>1. {r.user} \X (Effective(r.email, r.perms) \cap Privileged) \subseteq named
  BY EffectiveOfEarned
<1>2. granted \subseteq named /\ named \subseteq Users \X Privileged
  BY DEF IInv, PrivilegeEarned, TypeOK
<1>3. granted' \subseteq named
  BY <1>1, <1>2 DEF Answer
<1> QED BY <1>2, <1>3 DEF PrivilegeEarned

LEMMA CreateSessionKeeps ==
  ASSUME IInv, NEW h \in Handlers, CreateSession(h)
  PROVE  IInv'
<1> USE DEF keycloak, oauth
<1>0. UNCHANGED <<email, roles, had, pending, used, tok, ended, named>>
  BY DEF CreateSession
<1>1. PICK r \in Row, key \in States \cup {None} :
        /\ r = job[h].row /\ key = job[h].key /\ Held(r) /\ Names(r) \subseteq named
        /\ key \in States => Carries(h, key)
  BY JobFields DEF CreateSession, Fits, Carries, At
<1>2. PICK P \in SUBSET Perms :
        P = Effective(r.email, r.perms) /\ {r.user} \X (P \cap Privileged) \subseteq named
  BY <1>1, EffectiveEarned
<1>3. PICK row \in Row : row = [r EXCEPT !.perms = P]
                         /\ row.user = r.user /\ row.email = r.email /\ row.perms = P
  BY WithPerms
<1>4. Held(row) /\ Earned(row)
  BY <1>1, <1>2, <1>3 DEF Held, Earned
<1>5. CASE Fails(h, "postgres") /\ UNCHANGED <<sess, opened, granted>>
  BY <1>0, <1>5, DoneKeeps DEF Fails, rows, answers
<1>6. ASSUME NEW s \in Sessions \ ended, s \notin Live, sess' = [sess EXCEPT ![s] = row],
             opened' = [st \in States |-> opened[st] + IF st = key THEN 1 ELSE 0],
             IF key = None THEN Answer(row) ELSE UNCHANGED granted,
             Done(h)
      PROVE  IInv'
  <2>1. OthersWait(h) /\ JobGood(h)' /\ job' \in [Handlers -> Job \cup {None}]
    BY <1>6, DoneSets
  <2>2. PrivilegeEarned' /\ granted' \subseteq Users \X Privileged
    BY <1>0, <1>4, <1>6, AnswerEarned DEF IInv, PrivilegeEarned, TypeOK
  <2>3. TypeOK' /\ CurrentHad'
    BY <1>0, <1>6, <2>1, <2>2 DEF IInv, TypeOK, CurrentHad
  <2>4. RowsGood' /\ EndedForGood'
    BY <1>0, <1>4, <1>6 DEF IInv, TypeOK, RowsGood, Held, Earned, EndedForGood
  <2>5. HistoriesGrow /\ SessionsGoOn
    BY <1>0, <1>6 DEF HistoriesGrow, SessionsGoOn, Live, IInv, TypeOK, EndedForGood
  <2>6. \A g \in Handlers : JobGood(g)'
    BY <2>1, <2>5, JobsKept
  <2>7. StatesSpent'
    <3>1. \A g \in Handlers, st \in States : Carries(g, st)' => g # h /\ Carries(g, st)
      BY <1>6, <2>1 DEF OthersWait, Carries, Done, IInv, TypeOK
    <3>2. \A st \in States \ {key} : opened'[st] = opened[st]
      BY <1>6 DEF IInv, TypeOK
    <3>3. key \in States => opened[key] = 0 /\ opened'[key] = 1
      BY <1>1, <1>6 DEF IInv, StatesSpent
    <3>4. \A g \in Handlers : key \in States /\ Carries(g, key) => g = h
      BY <1>1 DEF IInv, StatesSpent
    <3>5. key \in States => key \in used /\ key \notin pending
      BY <1>1 DEF IInv, StatesSpent
    <3> QED BY <1>0, <3>1, <3>2, <3>3, <3>4, <3>5 DEF IInv, StatesSpent
  <2> QED BY <2>2, <2>3, <2>4, <2>6, <2>7 DEF IInv
<1> QED BY <1>1, <1>2, <1>3, <1>5, <1>6 DEF CreateSession

LEMMA CreateAPITokenKeeps ==
  ASSUME IInv, NEW h \in Handlers, CreateAPIToken(h)
  PROVE  IInv'
<1> USE DEF keycloak, answers
<1>1. PICK row \in Row : row = job[h].row /\ Held(row) /\ Earned(row)
  BY JobFields DEF CreateAPIToken, Fits
<1>2. /\ Done(h) /\ UNCHANGED <<keycloak, oauth, sess, ended, answers>>
      /\ tok' = tok \/ \E t \in Tokens \ ended : tok' = [tok EXCEPT ![t] = row]
  BY <1>1 DEF CreateAPIToken
<1>3. tok' \in [Tokens -> Row \cup {None}]
  BY <1>2 DEF IInv, TypeOK
<1>4. job' \in [Handlers -> Job \cup {None}] => TypeOK'
  BY <1>2, <1>3 DEF IInv, TypeOK, oauth
<1>5. RowsGood'
  BY <1>1, <1>2 DEF IInv, TypeOK, RowsGood, Held, Earned
<1>6. EndedForGood' /\ PrivilegeEarned' /\ CurrentHad'
  BY <1>2 DEF IInv, TypeOK, EndedForGood, PrivilegeEarned, CurrentHad
<1>7. HistoriesGrow /\ SessionsGoOn
  BY <1>2 DEF HistoriesGrow, SessionsGoOn, Live
<1> QED BY <1>2, <1>4, <1>5, <1>6, <1>7, StoreKeeps

LEMMA RevokeAPITokenKeeps ==
  ASSUME IInv, NEW h \in Handlers, RevokeAPIToken(h)
  PROVE  IInv'
<1> USE DEF keycloak, answers
<1>1. PICK t \in Tokens : t = job[h].key
  BY JobFields DEF RevokeAPIToken, Fits
<1>2. /\ Done(h) /\ UNCHANGED <<keycloak, oauth, sess, answers>>
      /\ \/ UNCHANGED <<tok, ended>>
         \/ tok' = [tok EXCEPT ![t] = None] /\ ended' = ended \cup {t}
  BY <1>1 DEF RevokeAPIToken
<1>3. tok' \in [Tokens -> Row \cup {None}] /\ ended \subseteq ended'
      /\ ended' \subseteq Sessions \cup Tokens
  BY <1>2 DEF IInv, TypeOK
<1>4. job' \in [Handlers -> Job \cup {None}] => TypeOK'
  BY <1>2, <1>3 DEF IInv, TypeOK, oauth
<1>5. RowsGood'
  BY <1>2 DEF IInv, TypeOK, RowsGood, Held, Earned
<1>6. EndedForGood' /\ PrivilegeEarned' /\ CurrentHad'
  BY <1>2 DEF IInv, TypeOK, EndedForGood, PrivilegeEarned, CurrentHad
<1>7. HistoriesGrow /\ SessionsGoOn
  BY <1>2, <1>3 DEF HistoriesGrow, SessionsGoOn, Live
<1> QED BY <1>2, <1>4, <1>5, <1>6, <1>7, StoreKeeps

LEMMA IntrospectAnswerKeeps ==
  ASSUME IInv, NEW h \in Handlers, IntrospectAnswer(h)
  PROVE  IInv'
<1> USE DEF keycloak
<1>1. PICK row \in Row : row = job[h].row /\ Earned(row)
  BY JobFields DEF IntrospectAnswer, Fits
<1>2. /\ Done(h) /\ UNCHANGED <<keycloak, oauth, rows, named, opened>> /\ Answer(row)
  BY <1>1 DEF IntrospectAnswer
<1>3. PrivilegeEarned' /\ granted' \subseteq Users \X Privileged
  BY <1>1, <1>2, AnswerEarned
<1>4. job' \in [Handlers -> Job \cup {None}] => TypeOK'
  BY <1>2, <1>3 DEF IInv, TypeOK, oauth, rows
<1>5. RowsGood' /\ EndedForGood' /\ CurrentHad'
  BY <1>2 DEF IInv, RowsGood, Held, Earned, EndedForGood, CurrentHad, rows
<1>6. HistoriesGrow /\ SessionsGoOn
  BY <1>2 DEF HistoriesGrow, SessionsGoOn, Live, rows
<1> QED BY <1>2, <1>3, <1>4, <1>5, <1>6, StoreKeeps

\* A session row goes, and its name is not used again.
LEMMA EndsKeeps ==
  ASSUME IInv, NEW s \in Sessions, Ends(s), UNCHANGED <<keycloak, oauth, tok, answers>>
  PROVE  /\ job' \in [Handlers -> Job \cup {None}] => TypeOK'
         /\ RowsGood' /\ EndedForGood' /\ PrivilegeEarned' /\ CurrentHad'
         /\ HistoriesGrow /\ SessionsGoOn
<1> USE DEF keycloak, answers, IInv, Ends
<1>1. sess' \in [Sessions -> Row \cup {None}] /\ ended' \subseteq Sessions \cup Tokens
  BY DEF TypeOK
<1>2. job' \in [Handlers -> Job \cup {None}] => TypeOK'
  BY <1>1 DEF TypeOK, oauth
<1>3. RowsGood' /\ CurrentHad' /\ PrivilegeEarned' /\ HistoriesGrow
  BY DEF TypeOK, RowsGood, Held, Earned, CurrentHad, PrivilegeEarned, HistoriesGrow
<1>4. EndedForGood' /\ SessionsGoOn
  BY DEF TypeOK, EndedForGood, SessionsGoOn, Live
<1> QED BY <1>2, <1>3, <1>4

LEMMA DeleteSessionKeeps ==
  ASSUME IInv, NEW h \in Handlers, DeleteSession(h)
  PROVE  IInv'
<1>1. PICK s \in Sessions : s = job[h].key
  BY JobFields DEF DeleteSession, Fits
<1>2. CASE Ends(s)
  <2>1. Done(h) /\ UNCHANGED <<keycloak, oauth, tok, answers>>
    BY DEF DeleteSession
  <2> QED BY <1>2, <2>1, EndsKeeps, StoreKeeps DEF answers
<1>3. CASE UNCHANGED <<sess, ended>>
  BY <1>3, DoneKeeps DEF DeleteSession, rows
<1> QED BY <1>1, <1>2, <1>3 DEF DeleteSession

\* Steps of no handler: a row expires, is used, or roles change.
LEMMA SessionExpiresKeeps ==
  ASSUME IInv, NEW s \in Sessions, SessionExpires(s)
  PROVE  IInv'
<1> USE DEF IInv
<1>1. /\ TypeOK' /\ RowsGood' /\ EndedForGood' /\ PrivilegeEarned' /\ CurrentHad'
      /\ HistoriesGrow /\ SessionsGoOn
  BY EndsKeeps DEF SessionExpires, TypeOK
<1>2. ASSUME NEW h \in Handlers PROVE JobGood(h)'
  BY <1>1 DEF SessionExpires, JobGood, Fits, Held, Earned, Names, keycloak, answers, SessionsGoOn
<1>3. StatesSpent'
  BY DEF SessionExpires, StatesSpent, Carries, oauth, answers
<1> QED BY <1>1, <1>2, <1>3

LEMMA MeKeeps ==
  ASSUME IInv, NEW s \in Sessions, Me(s)
  PROVE  IInv'
<1> USE DEF keycloak, oauth, rows
<1>1. PICK row \in Row : row = sess[s] /\ Earned(row)
  BY LiveRow DEF Me
<1>2. Answer(row) /\ UNCHANGED <<keycloak, oauth, rows, named, opened, job>>
  BY <1>1 DEF Me
<1>3. PrivilegeEarned' /\ granted' \subseteq Users \X Privileged
  BY <1>1, <1>2, AnswerEarned
<1>4. TypeOK' /\ CurrentHad'
  BY <1>2, <1>3 DEF IInv, TypeOK, CurrentHad
<1>5. RowsGood' /\ EndedForGood'
  BY <1>2 DEF IInv, RowsGood, Held, Earned, EndedForGood
<1>6. \A h \in Handlers : JobGood(h)'
  BY <1>2 DEF IInv, JobGood, Fits, Held, Earned, Names, Live
<1>7. StatesSpent'
  BY <1>2 DEF IInv, StatesSpent, Carries
<1> QED BY <1>3, <1>4, <1>5, <1>6, <1>7 DEF IInv

-----------------------------------------------------------------------------
(* The account changes beneath its rows. *)

\* Keycloak's new address is one the account then had.
LEMMA HasKeeps ==
  ASSUME IInv, NEW u \in Users, NEW e \in Emails, Has(u, e)
  PROVE  /\ email' \in [Users -> Emails] /\ had' \subseteq Users \X Emails
         /\ CurrentHad' /\ had \subseteq had' /\ <<u, e>> \in had'
  BY DEF IInv, TypeOK, CurrentHad, Has

LEMMA UpdateUserEmailKeeps ==
  ASSUME IInv, NEW h \in Handlers, UpdateUserEmail(h)
  PROVE  IInv'
<1>0. UNCHANGED <<roles, oauth, rows, answers>>
  BY DEF UpdateUserEmail
<1>1. PICK row \in Row, s \in Sessions :
        /\ row = job[h].row /\ s = job[h].key
        /\ row.email # None /\ Earned(row)
        /\ s \in Live \cup ended /\ (s \in Live => sess[s].user = row.user)
  BY JobFields DEF UpdateUserEmail, Fits
<1>2. row.user \in Users /\ row.email \in Emails
  BY <1>1 DEF Row
<1>3. CASE UNCHANGED <<email, had>> /\ Done(h)
  BY <1>0, <1>3, DoneKeeps DEF keycloak
<1>4. CASE Has(row.user, row.email) /\ (Done(h) \/ Go(h, "sessEmail", s, row))
  <2>1. /\ email' \in [Users -> Emails] /\ had' \subseteq Users \X Emails
        /\ CurrentHad' /\ had \subseteq had' /\ <<row.user, row.email>> \in had'
    BY <1>2, <1>4, HasKeeps
  <2>2. HistoriesGrow /\ UNCHANGED <<rows, granted>>
    BY <1>0, <2>1 DEF HistoriesGrow, answers
  <2>3. RowsGood' /\ EndedForGood' /\ PrivilegeEarned' /\ SessionsGoOn
    BY <2>2, RowsKept
  <2>4. OthersWait(h) /\ JobGood(h)'
    <3>1. CASE Done(h)
      BY <3>1, DoneSets
    <3>2. CASE Go(h, "sessEmail", s, row)
      <4>1. Fits("sessEmail", s, row)'
        BY <1>0, <1>1, <2>1 DEF Fits, Held, Earned, rows, answers, Live
      <4> QED BY <3>2, <4>1, GoSets
    <3> QED BY <1>4, <3>1, <3>2
  <2>5. job' \in [Handlers -> Job \cup {None}]
    BY <1>4, DoneSets DEF Go, Job, Steps, IInv, TypeOK
  <2>6. \A st \in States : Carries(h, st)' => Carries(h, st)
    BY <1>4, DoneSets, GoSets DEF Carries
  <2>7. TypeOK'
    BY <1>0, <2>1, <2>5 DEF IInv, TypeOK, oauth, rows, answers
  <2>8. (\A g \in Handlers : JobGood(g)') /\ StatesSpent'
    BY <1>0, <2>2, <2>3, <2>4, <2>6, JobsKept, StatesKept DEF answers
  <2> QED BY <2>1, <2>3, <2>7, <2>8 DEF IInv
<1> QED BY <1>1, <1>3, <1>4 DEF UpdateUserEmail, Fails

LEMMA UpdateSessionEmailKeeps ==
  ASSUME IInv, NEW h \in Handlers, UpdateSessionEmail(h)
  PROVE  IInv'
<1> USE DEF keycloak, oauth
<1>1. PICK row \in Row, s \in Sessions :
        /\ row = job[h].row /\ s = job[h].key
        /\ row.email # None /\ Held(row) /\ Earned(row)
        /\ s \in Live => sess[s].user = row.user
  BY JobFields DEF UpdateSessionEmail, Fits
<1>2. /\ Done(h) /\ UNCHANGED <<keycloak, oauth, tok, ended, named, opened>>
  BY DEF UpdateSessionEmail
<1>3. CASE UNCHANGED <<sess, granted>>
  BY <1>2, <1>3, DoneKeeps DEF rows, answers
<1>4. CASE s \in Live /\ sess' = [sess EXCEPT ![s].email = row.email] /\ Answer(row)
  <2>1. PICK r \in Row : r = sess[s] /\ Earned(r) /\ r.user = row.user
    BY <1>1, <1>4, LiveRow
  <2>2. PICK new \in Row : new = [r EXCEPT !.email = row.email]
                           /\ new.user = r.user /\ new.email = row.email /\ new.perms = r.perms
    <3>1. row.email \in Emails \cup {None}
      BY DEF Row
    <3> QED BY <3>1, WithEmail
  <2>3. sess' = [sess EXCEPT ![s] = new]
    BY <1>4, <2>1, <2>2
  <2>4. Held(new) /\ Earned(new)
    BY <1>1, <2>1, <2>2 DEF Held, Earned
  <2>5. PrivilegeEarned' /\ granted' \subseteq Users \X Privileged
    BY <1>1, <1>2, <1>4, AnswerEarned
  <2>6. job' \in [Handlers -> Job \cup {None}] => TypeOK'
    BY <1>2, <2>3, <2>5 DEF IInv, TypeOK
  <2>7. RowsGood' /\ EndedForGood' /\ CurrentHad'
    BY <1>2, <1>4, <2>3, <2>4
    DEF IInv, TypeOK, RowsGood, Held, Earned, EndedForGood, CurrentHad, Live
  <2>8. HistoriesGrow /\ SessionsGoOn
    BY <1>2, <1>4, <2>1, <2>2, <2>3 DEF HistoriesGrow, SessionsGoOn, Live, IInv, TypeOK
  <2> QED BY <1>2, <2>5, <2>6, <2>7, <2>8, StoreKeeps
<1> QED BY <1>1, <1>3, <1>4 DEF UpdateSessionEmail

\* Roles are what Keycloak says at the next sign-in, and nothing before.
LEMMA SetRolesKeeps ==
  ASSUME IInv, NEW u \in Users, NEW R \in SUBSET Perms, SetRoles(u, R)
  PROVE  IInv'
<1> USE DEF IInv, oauth, rows, answers
<1>1. TypeOK' /\ CurrentHad'
  BY DEF SetRoles, TypeOK, CurrentHad
<1>2. RowsGood' /\ EndedForGood' /\ PrivilegeEarned'
  BY DEF SetRoles, RowsGood, Held, Earned, EndedForGood, PrivilegeEarned
<1>3. \A h \in Handlers : JobGood(h)'
  BY DEF SetRoles, JobGood, Fits, Held, Earned, Names, Live
<1>4. StatesSpent'
  BY DEF SetRoles, StatesSpent, Carries
<1> QED BY <1>1, <1>2, <1>3, <1>4

LEMMA StutterKeeps == IInv /\ UNCHANGED vars => IInv'
<1> SUFFICES ASSUME IInv, UNCHANGED vars PROVE IInv'
  OBVIOUS
<1> USE DEF IInv, vars
<1>1. TypeOK' /\ CurrentHad' /\ RowsGood' /\ EndedForGood' /\ PrivilegeEarned'
  BY DEF TypeOK, CurrentHad, RowsGood, Held, Earned, EndedForGood, PrivilegeEarned
<1>2. \A h \in Handlers : JobGood(h)'
  BY DEF JobGood, Fits, Held, Earned, Names, Live
<1>3. StatesSpent'
  BY DEF StatesSpent, Carries
<1> QED BY <1>1, <1>2, <1>3

-----------------------------------------------------------------------------
LEMMA NextKeeps == IInv /\ [Next]_vars => IInv'
<1> SUFFICES ASSUME IInv, [Next]_vars PROVE IInv'
  OBVIOUS
<1>1. ASSUME NEW st \in States, OauthStart(st) \/ OauthStateExpires(st) PROVE IInv'
  BY <1>1, OauthStateKeeps
<1>2. ASSUME NEW s \in Sessions, Me(s) \/ SessionExpires(s) PROVE IInv'
  BY <1>2, MeKeeps, SessionExpiresKeeps
<1>3. ASSUME NEW u \in Users, NEW R \in SUBSET Perms, SetRoles(u, R) PROVE IInv'
  BY <1>3, SetRolesKeeps
<1>4. ASSUME NEW h \in Handlers,
             \/ \E st \in States : OauthCallback(h, st)
             \/ ExchangeCode(h) \/ PasswordLogin(h) \/ FetchUserInfo(h)
             \/ FindUserByEmail(h) \/ ListRealmRoleNames(h) \/ CreateSession(h)
      PROVE  IInv'
  BY <1>4, CallbackKeeps, ExchangeCodeKeeps, PasswordLoginKeeps, FetchUserInfoKeeps,
     ListRealmRoleNamesKeeps, CreateSessionKeeps
<1>5. ASSUME NEW h \in Handlers,
             \/ CreateTokenStart(h) \/ CreateAPIToken(h) \/ RevokeTokenStart(h) \/ RevokeAPIToken(h)
             \/ \E t \in Tokens : IntrospectRead(h, t)
             \/ IntrospectAnswer(h)
      PROVE  IInv'
  BY <1>5, CreateTokenStartKeeps, CreateAPITokenKeeps, RevokeTokenStartKeeps,
     RevokeAPITokenKeeps, IntrospectReadKeeps, IntrospectAnswerKeeps
<1>6. ASSUME NEW h \in Handlers,
             \/ LogoutStart(h) \/ DeleteSession(h)
             \/ EmailChangeAccepted(h) \/ UpdateUserEmail(h) \/ UpdateSessionEmail(h) \/ Dies(h)
      PROVE  IInv'
  BY <1>6, LogoutStartKeeps, DeleteSessionKeeps, EmailChangeAcceptedKeeps,
     UpdateUserEmailKeeps, UpdateSessionEmailKeeps, DoneKeeps DEF Dies
<1>7. CASE UNCHANGED vars
  BY <1>7, StutterKeeps
<1> QED BY <1>1, <1>2, <1>3, <1>4, <1>5, <1>6, <1>7 DEF Next

LEMMA Invariance == Spec => []IInv
  BY InitInv, NextKeeps, PTL DEF Spec

-----------------------------------------------------------------------------
(* The theorems. *)

\* Every variable of the sign-ins, sessions and tokens keeps its type.
THEOREM TypeCorrect == Spec => []TypeOK
<1>1. IInv => TypeOK
  BY DEF IInv
<1> QED BY <1>1, Invariance, PTL

\* Neither Me nor an introspection, whatever roles, addresses and rows did since,
\* answers a privilege that no sign-in under an allowlisted address named.
THEOREM PrivilegesEarned == Spec => []PrivilegeEarned
<1>1. IInv => PrivilegeEarned
  BY DEF IInv
<1> QED BY <1>1, Invariance, PTL

\* The address in a session or token was its owner's in Keycloak at some time.
THEOREM AddressesTrue == Spec => []AddressesHeld
<1>1. IInv => AddressesHeld
  BY DEF IInv, RowsGood, Held, AddressesHeld, Live
<1> QED BY <1>1, Invariance, PTL

\* The GETDEL of its state lets an OAuth sign-in open one session.
THEOREM StatesOpenOnce == Spec => []OneSessionPerState
<1>1. IInv => OneSessionPerState
  BY DEF IInv, StatesSpent, OneSessionPerState
<1> QED BY <1>1, Invariance, PTL

\* A logout, an expiry and a revocation are final, whatever is under way.
THEOREM EndsForGood == Spec => []EndedForGood
<1>1. IInv => EndedForGood
  BY DEF IInv
<1> QED BY <1>1, Invariance, PTL
=============================================================================
