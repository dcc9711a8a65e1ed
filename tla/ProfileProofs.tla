--------------------------- MODULE ProfileProofs ---------------------------
(***************************************************************************)
(* Proofs about the two modules that follow an account's record in         *)
(* Keycloak. Profile: for every set of users, addresses, sessions, name    *)
(* updates and faults, nobody's address is one not confirmed for them,     *)
(* no code works after its time, and ConfirmedAccount is implemented;      *)
(* and for requests served one at a time, a promised code works, and       *)
(* works once. UserRecord, which shares no variable with it: what a put    *)
(* of a whole user can spoil, for any requests, addresses and names.       *)
(***************************************************************************)
EXTENDS Profile, UserRecord, OtpFlowProofs

-----------------------------------------------------------------------------
(* Profile. *)

LEMMA InitInv == Init => IInv
<1> SUFFICES ASSUME Init PROVE IInv
  OBVIOUS
<1> USE ProfileAssumption
<1>1. FlowInv(Users, OwnLabels)
  BY FlowInitInv DEF Init
<1>2. TypeOK
  BY <1>1 DEF FlowInv, TypeOK, Init
<1>3. AddressesConfirmed /\ ActsForOwner /\ EditsConfirmed
  BY
     DEF Init, FlowInit, AddressesConfirmed, Confirmed, Live, ActsForOwner, EditsConfirmed,
         OwnLabels
<1> QED BY <1>1, <1>2, <1>3 DEF IInv

-----------------------------------------------------------------------------
(* The shared part of the invariant. *)

\* A step past verify: Redis is left alone, or the handler's key deleted.
LEMMA OwnKeeps ==
  ASSUME IInv, NEW h \in Handlers, pc[h] \in OwnLabels, NEW l \in OwnLabels,
         Goto(h, l) \/ Return(h), UNCHANGED redis \/ Delete(held[h].key),
         UNCHANGED <<now, history>>
  PROVE  FlowInv(Users, OwnLabels)'
  BY DeleteKeeps, ProfileAssumption DEF IInv, OwnLabels

LEMMA FlowStep == IInv /\ [Next]_vars => FlowInv(Users, OwnLabels)'
<1> SUFFICES ASSUME IInv, [Next]_vars PROVE FlowInv(Users, OwnLabels)'
  OBVIOUS
<1> USE ProfileAssumption
<1>0. FlowInv(Users, OwnLabels)
  BY DEF IInv
<1>1. CASE Tick
  BY <1>0, <1>1, TickKeeps
<1>2. ASSUME NEW h \in Handlers, EmailChangeStart(h) PROVE FlowInv(Users, OwnLabels)'
  <2>1. ASSUME NEW s \in Live, NEW e \in Keys, NEW c \in Codes, StartDraw(h, e, SessionOf[s], c)
        PROVE  FlowInv(Users, OwnLabels)'
    BY <1>0, <2>1, StartDrawKeeps DEF Live
  <2> QED BY <1>0, <1>2, <2>1, FlowStartKeeps DEF EmailChangeStart
<1>3. ASSUME NEW h \in Handlers, EmailChangeResend(h) \/ VerifyRefuses(h)
      PROVE  FlowInv(Users, OwnLabels)'
  BY <1>0, <1>3, FlowResendKeeps, FlowRefuseKeeps DEF EmailChangeResend, VerifyRefuses
<1>4. ASSUME NEW h \in Handlers, VerifyAccepts(h) PROVE FlowInv(Users, OwnLabels)'
  BY <1>0, <1>4, RightKeeps DEF VerifyAccepts, OwnLabels
<1>5. ASSUME NEW h \in Handlers, OkDel(h) \/ CheckTaken(h) \/ GetUserMap(h)
      PROVE  FlowInv(Users, OwnLabels)'
  BY <1>5, OwnKeeps DEF OkDel, CheckTaken, GetUserMap, Back, DeleteIgnored, RedisFails, OwnLabels
<1>6. ASSUME NEW h \in Handlers, PutUserMap(h) \/ UpdateSessionEmail(h)
      PROVE  FlowInv(Users, OwnLabels)'
  BY <1>6, OwnKeeps DEF PutUserMap, UpdateSessionEmail, Back, OwnLabels
<1>7. ASSUME NEW h \in Handlers, Dies(h) PROVE FlowInv(Users, OwnLabels)'
  BY <1>0, <1>7, CrashKeeps DEF Dies
<1>8. CASE UNCHANGED flowVars
  BY <1>0, <1>8, StutterKeeps
<1> QED
  BY <1>1, <1>2, <1>3, <1>4, <1>5, <1>6, <1>7, <1>8
  DEF Next, EmailChangeVerify, vars, UpdateNamesGet, UpdateNamesPut, CreateSession, DeleteSession

-----------------------------------------------------------------------------
(* The addresses. *)

OwnType ==
    /\ email \in [Users -> Keys]
    /\ sessEmail \in [Sessions -> Keys \cup {None}]
    /\ acting \in [Handlers -> Sessions \cup {None}]
    /\ edits \in [Editors -> Edit \cup {None}]
    /\ told \in [Users -> Keys \cup {None}]

Own == OwnType /\ AddressesConfirmed /\ ActsForOwner /\ EditsConfirmed

\* What a handler past its verify may give its user: the address it holds.
LEMMA AcceptedHolds ==
  ASSUME IInv, NEW h \in Handlers, pc[h] \in OwnLabels
  PROVE  /\ acting[h] \in Sessions /\ Sub(h) \in Users
         /\ held[h].key \in Keys /\ held[h].key \in Confirmed(Sub(h))
<1> USE ProfileAssumption DEF IInv, FlowInv
<1>1. typed[h] # None /\ acting[h] \in Sessions /\ held[h].payload = SessionOf[acting[h]]
  BY DEF ActsForOwner
<1>2. held[h] # None /\ typed[h] = held[h].code /\ typed[h] \in spent
  BY <1>1 DEF AcceptedIsSpent
<1>3. held[h] \in Challenge(Users) /\ Genuine(held[h])
  BY <1>2 DEF FlowType, CopiesGenuine
<1>4. held[h].key \in Keys
  BY <1>3 DEF Challenge
<1>5. PICK m \in mails : m.code = typed[h]
  BY <1>2 DEF SpentWasMailed
<1>6. m.to = held[h].key /\ m.payload = held[h].payload
  BY <1>2, <1>3, <1>5 DEF Genuine, MailsGenuine
<1> QED BY <1>1, <1>2, <1>4, <1>5, <1>6 DEF Sub, Confirmed

\* What was mailed and typed back stays so.
LEMMA ConfirmedGrows ==
  ASSUME mails \subseteq mails', spent \subseteq spent', NEW u
  PROVE  Confirmed(u) \subseteq Confirmed(u)'
  BY DEF Confirmed

\* A step that changes no address and no name update.
LEMMA AddressesFrame ==
  ASSUME IInv, mails \subseteq mails', spent \subseteq spent',
         UNCHANGED <<email, sessEmail, edits>>
  PROVE  AddressesConfirmed' /\ EditsConfirmed'
<1>1. \A u : Confirmed(u) \subseteq Confirmed(u)'
  BY ConfirmedGrows
<1> QED BY <1>1 DEF IInv, AddressesConfirmed, EditsConfirmed, Live

\* One handler's step leaves the others acting for whom they did.
LEMMA OthersAct ==
  ASSUME IInv, NEW h \in Handlers,
         \A g \in Handlers \ {h} : UNCHANGED <<pc[g], held[g], typed[g], acting[g]>>,
         pc'[h] \in OwnLabels =>
            /\ typed'[h] # None
            /\ acting'[h] \in Sessions /\ held'[h].payload = SessionOf[acting'[h]]
  PROVE  ActsForOwner'
  BY DEF IInv, ActsForOwner

\* A shared step changes no address.
LEMMA SharedKeeps ==
  ASSUME IInv, NEW h \in Handlers,
         FlowStart(h) \/ FlowResend(h) \/ FlowRefuse(h) \/ Crash(h),
         acting' \in {acting, [acting EXCEPT ![h] = None]},
         UNCHANGED <<email, sessEmail, edits, told>>
  PROVE  Own'
<1>1. /\ \A g \in Handlers \ {h} : UNCHANGED <<pc[g], held[g], typed[g]>>
      /\ pc'[h] \in FlowLabels
      /\ spent' = spent /\ mails \subseteq mails'
  BY FlowMovesOne DEF IInv
<1>2. OwnType' /\ \A g \in Handlers \ {h} : acting'[g] = acting[g]
  BY DEF IInv, TypeOK, OwnType
<1>3. pc'[h] \notin OwnLabels
  BY <1>1 DEF FlowLabels, OwnLabels
<1>4. ActsForOwner'
  BY <1>1, <1>2, <1>3, OthersAct
<1>5. AddressesConfirmed' /\ EditsConfirmed'
  BY <1>1, AddressesFrame
<1> QED BY <1>2, <1>4, <1>5 DEF Own

\* An accepted code changes no address yet.
LEMMA AcceptStep ==
  ASSUME IInv, NEW h \in Handlers, VerifyAccepts(h)
  PROVE  Own'
<1>1. PICK s \in Live, e \in Keys :
        /\ Owns(s, e)
        /\ \E code \in CanType(e) : VerifyRight(h, e, code, "okDel")
        /\ acting' = [acting EXCEPT ![h] = s]
        /\ UNCHANGED <<email, sessEmail, edits, told>>
  BY DEF VerifyAccepts
<1>2. PICK code \in CanType(e) : VerifyRight(h, e, code, "okDel")
  BY <1>1
<1>3. code \in Codes /\ code # None
  <2>1. code \in Codes
    BY <1>2, RightMeans DEF IInv
  <2> QED BY <2>1, FlowAssumption
<1>4. pend[e] \in Challenge(Users) /\ Counted(pend[e]).payload = pend[e].payload
  <2>1. pend[e] \in Challenge(Users)
    BY <1>1 DEF Owns, IInv, FlowInv, FlowType
  <2> QED BY <2>1, CountedFields
<1>5. /\ \A g \in Handlers \ {h} : UNCHANGED <<pc[g], held[g], typed[g]>>
      /\ typed'[h] = code /\ held'[h] = Counted(pend[e])
      /\ mails' = mails /\ spent \subseteq spent'
  BY <1>2 DEF VerifyRight, IInv, FlowInv, FlowType
<1>6. /\ s \in Sessions /\ acting'[h] = s /\ pend[e].payload = SessionOf[s]
      /\ \A g \in Handlers \ {h} : acting'[g] = acting[g]
      /\ OwnType'
  BY <1>1 DEF Owns, Live, IInv, TypeOK, OwnType
<1>7. ActsForOwner'
  BY <1>3, <1>4, <1>5, <1>6, OthersAct
<1>8. AddressesConfirmed' /\ EditsConfirmed'
  BY <1>1, <1>5, AddressesFrame
<1> QED BY <1>6, <1>7, <1>8 DEF Own

\* A handler past its verify goes on, or returns.
LEMMA MoveActs ==
  ASSUME IInv, NEW h \in Handlers, pc[h] \in OwnLabels, NEW l \in OwnLabels,
         \/ Goto(h, l) /\ acting' = acting
         \/ Return(h) /\ acting' \in {acting, [acting EXCEPT ![h] = None]}
  PROVE  ActsForOwner' /\ acting' \in [Handlers -> Sessions \cup {None}]
<1>1. /\ \A g \in Handlers \ {h} : UNCHANGED <<pc[g], held[g], typed[g], acting[g]>>
      /\ acting' \in [Handlers -> Sessions \cup {None}]
  BY DEF IInv, TypeOK, FlowType, Goto, Return
<1>2. CASE Goto(h, l) /\ acting' = acting
  BY <1>1, <1>2, OthersAct DEF Goto, IInv, ActsForOwner
<1>3. CASE Return(h)
  <2>1. pc'[h] \notin OwnLabels
    BY <1>3 DEF IInv, TypeOK, FlowType, Return, OwnLabels
  <2> QED BY <1>1, <2>1, OthersAct
<1> QED BY <1>2, <1>3

\* An account gets an address of its own.
LEMMA EmailSet ==
  ASSUME IInv, NEW u \in Users, NEW e \in Keys, e \in Confirmed(u),
         PutUser(u, e) \/ UNCHANGED email, UNCHANGED <<mails, spent, sessEmail>>
  PROVE  AddressesConfirmed' /\ email' \in [Users -> Keys]
<1>1. \A v : Confirmed(v)' = Confirmed(v)
  BY DEF Confirmed
<1>2. /\ email' \in [Users -> Keys]
      /\ \A v \in Users : email'[v] = email[v] \/ (v = u /\ email'[v] = e)
  BY DEF PutUser, IInv, TypeOK
<1> QED BY <1>1, <1>2 DEF IInv, AddressesConfirmed, Live

\* A session row gets an address of its owner's.
LEMMA SessionSet ==
  ASSUME IInv, NEW s \in Sessions, NEW e \in Keys \cup {None},
         e = None \/ e \in Confirmed(SessionOf[s]),
         sessEmail' = [sessEmail EXCEPT ![s] = e], UNCHANGED <<mails, spent, email>>
  PROVE  AddressesConfirmed' /\ sessEmail' \in [Sessions -> Keys \cup {None}]
<1>1. \A v : Confirmed(v)' = Confirmed(v)
  BY DEF Confirmed
<1>2. /\ sessEmail' \in [Sessions -> Keys \cup {None}]
      /\ \A t \in Sessions : sessEmail'[t] = sessEmail[t] \/ (t = s /\ sessEmail'[t] = e)
  BY DEF IInv, TypeOK
<1> QED BY <1>1, <1>2 DEF IInv, AddressesConfirmed, Live

\* The steps of an accepted verify.
LEMMA WorkStep ==
  ASSUME IInv, NEW h \in Handlers,
         OkDel(h) \/ CheckTaken(h) \/ GetUserMap(h) \/ PutUserMap(h) \/ UpdateSessionEmail(h)
  PROVE  Own'
<1>1. OwnType /\ pc[h] \in OwnLabels
  BY DEF IInv, TypeOK, OwnType, OkDel, CheckTaken, GetUserMap, PutUserMap, UpdateSessionEmail,
         OwnLabels
<1>2. /\ acting[h] \in Sessions /\ Sub(h) \in Users
      /\ held[h].key \in Keys /\ held[h].key \in Confirmed(Sub(h))
  BY <1>1, AcceptedHolds
<1>3. UNCHANGED <<mails, spent, edits>>
  BY DEF OkDel, CheckTaken, GetUserMap, PutUserMap, UpdateSessionEmail, history, ownVars
<1>4. ActsForOwner' /\ acting' \in [Handlers -> Sessions \cup {None}]
  <2>1. CASE OkDel(h) \/ CheckTaken(h) \/ GetUserMap(h)
    BY <1>1, <2>1, MoveActs DEF OkDel, CheckTaken, GetUserMap, Back, OwnLabels, ownVars
  <2>2. CASE PutUserMap(h) \/ UpdateSessionEmail(h)
    BY <1>1, <2>2, MoveActs DEF PutUserMap, UpdateSessionEmail, Back, OwnLabels
  <2> QED BY <2>1, <2>2
<1>5. EditsConfirmed'
  BY <1>3 DEF IInv, EditsConfirmed, Confirmed
<1>6. CASE OkDel(h) \/ CheckTaken(h) \/ GetUserMap(h)
  <2>1. UNCHANGED <<email, sessEmail, edits, told>>
    BY <1>6 DEF OkDel, CheckTaken, GetUserMap, ownVars
  <2>2. AddressesConfirmed'
    BY <1>3, <2>1, AddressesFrame
  <2> QED BY <1>1, <1>4, <1>5, <2>1, <2>2 DEF Own, OwnType
<1>7. CASE PutUserMap(h)
  <2>1. /\ PutUser(Sub(h), held[h].key) \/ UNCHANGED email
        /\ sessEmail' = sessEmail /\ told' = [told EXCEPT ![Sub(h)] = None]
    BY <1>7 DEF PutUserMap
  <2>2. AddressesConfirmed' /\ email' \in [Users -> Keys]
    BY <1>2, <1>3, <2>1, EmailSet
  <2> QED BY <1>1, <1>3, <1>4, <1>5, <2>1, <2>2 DEF Own, OwnType
<1>8. CASE UpdateSessionEmail(h)
  <2>1. email' = email
    BY <1>8 DEF UpdateSessionEmail
  <2>2. CASE UNCHANGED <<sessEmail, told>>
    <3>1. AddressesConfirmed'
      BY <1>3, <2>1, <2>2, AddressesFrame
    <3> QED BY <1>1, <1>3, <1>4, <1>5, <2>1, <2>2, <3>1 DEF Own, OwnType
  <2>3. CASE /\ sessEmail' = [sessEmail EXCEPT ![acting[h]] = held[h].key]
             /\ told' = [told EXCEPT ![Sub(h)] = held[h].key]
    <3>1. AddressesConfirmed' /\ sessEmail' \in [Sessions -> Keys \cup {None}]
      BY <1>2, <1>3, <2>1, <2>3, SessionSet DEF Sub
    <3> QED BY <1>1, <1>2, <1>3, <1>4, <1>5, <2>1, <2>3, <3>1 DEF Own, OwnType
  <2> QED BY <1>8, <2>2, <2>3 DEF UpdateSessionEmail, Sub
<1> QED BY <1>6, <1>7, <1>8

\* The name updates: what was the user's own when read still is when put back.
LEMMA EditStep ==
  ASSUME IInv, NEW d \in Editors,
         (\E u \in Users : UpdateNamesGet(d, u)) \/ UpdateNamesPut(d)
  PROVE  Own'
<1> USE EditAssumption
<1>1. OwnType
  BY DEF IInv, TypeOK, OwnType
<1>2. /\ UNCHANGED <<mails, spent, sessEmail, acting, told>>
      /\ UNCHANGED <<pc, held, typed>>
  BY DEF UpdateNamesGet, UpdateNamesPut, flowVars
<1>3. ActsForOwner'
  BY <1>2 DEF IInv, ActsForOwner
<1>4. \A u : Confirmed(u)' = Confirmed(u)
  BY <1>2 DEF Confirmed
<1>5. ASSUME NEW u \in Users, UpdateNamesGet(d, u) PROVE Own'
  <2>1. [sub |-> u, seen |-> email[u]] \in Edit
    BY <1>1 DEF OwnType, Edit
  <2>2. email' = email /\ edits' = [edits EXCEPT ![d] = [sub |-> u, seen |-> email[u]]]
    BY <1>5 DEF UpdateNamesGet
  <2>3. OwnType'
    BY <1>1, <1>2, <2>1, <2>2 DEF OwnType
  <2>4. AddressesConfirmed'
    BY <1>2, <1>4, <2>2 DEF IInv, AddressesConfirmed, Live
  <2>5. email[u] \in Confirmed(u)
    BY DEF IInv, AddressesConfirmed
  <2>6. EditsConfirmed'
    BY <1>1, <1>4, <2>2, <2>5 DEF IInv, EditsConfirmed, OwnType
  <2> QED BY <1>3, <2>3, <2>4, <2>6 DEF Own
<1>6. CASE UpdateNamesPut(d)
  <2>1. edits[d] \in Edit /\ edits[d].seen \in Confirmed(edits[d].sub)
    BY <1>1, <1>6 DEF UpdateNamesPut, OwnType, IInv, EditsConfirmed
  <2>2. edits[d].sub \in Users /\ edits[d].seen \in Keys
    BY <2>1 DEF Edit
  <2>3. /\ PutUser(edits[d].sub, edits[d].seen) \/ UNCHANGED email
        /\ edits' = [edits EXCEPT ![d] = None]
    BY <1>6 DEF UpdateNamesPut
  <2>4. AddressesConfirmed' /\ email' \in [Users -> Keys]
    BY <1>2, <2>1, <2>2, <2>3, EmailSet
  <2>5. EditsConfirmed' /\ OwnType'
    BY <1>1, <1>2, <1>4, <2>3, <2>4 DEF IInv, EditsConfirmed, OwnType
  <2> QED BY <1>3, <2>4, <2>5 DEF Own
<1> QED BY <1>5, <1>6

\* A sign-in copies an address that is its user's own; a logout drops the row.
LEMMA SessionStep ==
  ASSUME IInv, NEW s \in Sessions, CreateSession(s) \/ DeleteSession(s)
  PROVE  Own'
<1>1. OwnType /\ SessionOf[s] \in Users
  BY ProfileAssumption DEF IInv, TypeOK, OwnType
<1>2. UNCHANGED <<mails, spent, email, acting, edits, told, pc, held, typed>>
  BY DEF CreateSession, DeleteSession, flowVars
<1>3. ActsForOwner' /\ EditsConfirmed'
  BY <1>2 DEF IInv, ActsForOwner, EditsConfirmed, Confirmed
<1>4. email[SessionOf[s]] \in Keys /\ email[SessionOf[s]] \in Confirmed(SessionOf[s])
  BY <1>1 DEF OwnType, IInv, AddressesConfirmed
<1>5. PICK e \in Keys \cup {None} : /\ e = None \/ e \in Confirmed(SessionOf[s])
                                    /\ sessEmail' = [sessEmail EXCEPT ![s] = e]
  BY <1>4 DEF CreateSession, DeleteSession
<1>6. AddressesConfirmed' /\ sessEmail' \in [Sessions -> Keys \cup {None}]
  BY <1>2, <1>5, SessionSet
<1> QED BY <1>1, <1>2, <1>3, <1>6 DEF Own, OwnType

LEMMA OwnStep == IInv /\ [Next]_vars => Own'
<1> SUFFICES ASSUME IInv, [Next]_vars PROVE Own'
  OBVIOUS
<1>1. ASSUME NEW h \in Handlers, EmailChangeStart(h) PROVE Own'
  <2>1. CASE FlowStart(h)
    BY <1>1, <2>1, SharedKeeps DEF EmailChangeStart, ownVars
  <2>2. ASSUME NEW s \in Live, NEW e \in Keys, NEW c \in Codes, StartDraw(h, e, SessionOf[s], c)
        PROVE  Own'
    <3>1. UNCHANGED ownVars
      BY <1>1 DEF EmailChangeStart
    <3>2. /\ \A g \in Handlers \ {h} : UNCHANGED <<pc[g], held[g], typed[g], acting[g]>>
          /\ pc'[h] \notin OwnLabels /\ mails' = mails /\ spent' = spent
      BY <2>2, <3>1 DEF StartDraw, IInv, FlowInv, FlowType, OwnLabels, ownVars
    <3>3. ActsForOwner'
      BY <3>2, OthersAct
    <3>4. AddressesConfirmed' /\ EditsConfirmed'
      BY <3>1, <3>2, AddressesFrame DEF ownVars
    <3> QED BY <3>1, <3>3, <3>4 DEF Own, OwnType, ownVars, IInv, TypeOK
  <2> QED BY <1>1, <2>1, <2>2 DEF EmailChangeStart
<1>2. ASSUME NEW h \in Handlers, EmailChangeResend(h) \/ VerifyRefuses(h) PROVE Own'
  BY <1>2, SharedKeeps DEF EmailChangeResend, VerifyRefuses, ownVars
<1>3. ASSUME NEW h \in Handlers, Dies(h) PROVE Own'
  BY <1>3, SharedKeeps DEF Dies
<1>4. CASE (Tick /\ UNCHANGED ownVars) \/ UNCHANGED vars
  <2>1. UNCHANGED <<mails, spent, pc, held, typed>> /\ UNCHANGED ownVars
    BY <1>4 DEF Tick, handlers, history, vars, flowVars, ownVars
  <2>2. AddressesConfirmed' /\ EditsConfirmed'
    BY <2>1, AddressesFrame DEF ownVars
  <2> QED BY <2>1, <2>2 DEF Own, OwnType, ownVars, IInv, TypeOK, ActsForOwner
<1> QED BY <1>1, <1>2, <1>3, <1>4, AcceptStep, WorkStep, EditStep, SessionStep
        DEF Next, EmailChangeVerify

LEMMA Invariance == Spec => []IInv
<1>1. IInv /\ [Next]_vars => IInv'
  BY FlowStep, OwnStep DEF IInv, Own, OwnType, TypeOK, FlowInv
<1> QED BY <1>1, InitInv, PTL DEF Spec

\* Every variable of the e-mail change keeps its type.
THEOREM TypeCorrect == Spec => []TypeOK
<1>1. IInv => TypeOK
  BY DEF IInv
<1> QED BY <1>1, Invariance, PTL

\* Keycloak and the session rows name only addresses of the user's own, however
\* users share an address's challenge and whatever stale record is put back.
THEOREM OwnAddressesOnly == Spec => []AddressesConfirmed
<1>1. IInv => AddressesConfirmed
  BY DEF IInv
<1> QED BY <1>1, Invariance, PTL

\* Only the verify's own step accepts a code.
LEMMA OnlyVerifyAccepts ==
  ASSUME IInv, Next, NEW h \in Handlers, Accepts(h)
  PROVE  \E g \in Handlers : VerifyAccepts(g)
<1>0. FlowInv(Users, OwnLabels)
  BY DEF IInv
<1>1. ~Tick
  BY <1>0, FlowAcceptsNothing
<1>2. ASSUME NEW g \in Handlers,
             EmailChangeStart(g) \/ EmailChangeResend(g) \/ VerifyRefuses(g) \/ Dies(g)
      PROVE  FALSE
  <2>1. CASE FlowStart(g) \/ FlowResend(g) \/ FlowRefuse(g) \/ Crash(g)
    BY <1>0, <2>1, FlowAcceptsNothing
  <2>2. CASE \E e \in Keys, u \in Users, c \in Codes : StartDraw(g, e, u, c)
    BY <2>2 DEF StartDraw, Accepts
  <2>3. \A s \in Live : SessionOf[s] \in Users
    BY ProfileAssumption DEF Live
  <2> QED BY <1>2, <2>1, <2>2, <2>3 DEF EmailChangeStart, EmailChangeResend, VerifyRefuses, Dies
<1>3. ASSUME NEW g \in Handlers,
             OkDel(g) \/ CheckTaken(g) \/ GetUserMap(g) \/ PutUserMap(g) \/ UpdateSessionEmail(g)
      PROVE  FALSE
  BY <1>0, <1>3, MovingAcceptsNothing
  DEF OkDel, CheckTaken, GetUserMap, PutUserMap, UpdateSessionEmail, Back
<1>4. ASSUME UNCHANGED flowVars PROVE FALSE
  BY <1>0, <1>4 DEF flowVars, Accepts
<1> QED
  BY <1>1, <1>2, <1>3, <1>4
  DEF Next, EmailChangeVerify, UpdateNamesGet, UpdateNamesPut, CreateSession, DeleteSession

\* No e-mail change accepts a code more than OTPTTL after its draw, though two
\* users share the key of an address both want.
THEOREM NeverAfterExpiry == Spec => NotAfterExpiry
<1>1. IInv /\ [Next]_vars => [\A h \in Handlers : Accepts(h) =>
                                  now <= issued[typed'[h]].lastSent + OTPTTL]_flowVars
  <2> SUFFICES ASSUME IInv, Next, NEW h \in Handlers, Accepts(h)
               PROVE  now <= issued[typed'[h]].lastSent + OTPTTL
    BY DEF vars, flowVars
  <2>1. PICK g \in Handlers : VerifyAccepts(g)
    BY OnlyVerifyAccepts
  <2> QED BY <2>1, RightAcceptsInTime DEF VerifyAccepts, IInv
<1> QED BY <1>1, Invariance, PTL DEF Spec, NotAfterExpiry

-----------------------------------------------------------------------------
(* Implementation of ConfirmedAccount. *)

LEMMA AddressInit == Init => Addressed!Init
  BY DEF Init, FlowInit, Addressed!Init, Confirmations

\* What is a user's to have is so by the first address or by a code.
LEMMA ConfirmedBy ==
  ASSUME NEW u \in Users, NEW e \in Confirmed(u)
  PROVE  \E t \in Confirmations : t[1] = u /\ t[2] = e
<1>1. CASE e = FirstEmail[u]
  <2>1. <<u, e, None>> \in Confirmations
    BY <1>1 DEF Confirmations, AtFirst
  <2> QED BY <2>1
<1>2. CASE e # FirstEmail[u]
  <2>1. PICK m \in mails : m.payload = u /\ m.code \in spent /\ m.to = e
    BY <1>2 DEF Confirmed
  <2>2. <<u, e, m.code>> \in Confirmations
    BY <2>1 DEF Confirmations
  <2> QED BY <2>2
<1> QED BY <1>1, <1>2

\* A put sets an address the user confirmed.
LEMMA PutSets ==
  ASSUME NEW u \in Users, NEW e \in Confirmed(u), UNCHANGED <<mails, spent>>,
         PutUser(u, e) \/ UNCHANGED email
  PROVE  Addressed!Next \/ UNCHANGED Addressed!owned
<1>1. UNCHANGED Confirmations
  BY DEF Confirmations
<1>2. UNCHANGED {OfferOf(m) : m \in mails}
  BY DEF OfferOf
<1>3. CASE UNCHANGED email
  BY <1>1, <1>2, <1>3 DEF Addressed!owned
<1>4. CASE PutUser(u, e)
  <2>1. PICK t \in Confirmations : t[1] = u /\ t[2] = e
    BY ConfirmedBy
  <2>2. Addressed!Set(t)
    BY <1>1, <1>2, <1>4, <2>1 DEF PutUser, Addressed!Set
  <2> QED BY <2>2 DEF Addressed!Next
<1> QED BY <1>3, <1>4

\* A mail offers its user the address it goes to.
LEMMA MailOffers ==
  ASSUME NEW m \in [to : Keys, code : Codes, payload : Users],
         mails' = mails \cup {m}, \A n \in mails : n.code = m.code => n = m,
         UNCHANGED Confirmations, UNCHANGED email
  PROVE  Addressed!Next
<1>1. OfferOf(m) \in Addressed!Offer
  BY DEF OfferOf, Addressed!Offer
<1>2. \A o \in {OfferOf(n) : n \in mails} : o.code = OfferOf(m).code => o = OfferOf(m)
  BY DEF OfferOf
<1>3. {OfferOf(n) : n \in mails}' = {OfferOf(n) : n \in mails} \cup {OfferOf(m)}
  BY DEF OfferOf
<1> QED BY <1>1, <1>2, <1>3 DEF Addressed!Next, Addressed!Announce

\* A code that comes back confirms what its mail offered.
LEMMA ReturnConfirms ==
  ASSUME FlowInv(Users, OwnLabels), NEW h \in Handlers, NEW e \in Keys, NEW code \in CanType(e),
         VerifyRight(h, e, code, "okDel"), UNCHANGED email
  PROVE  Addressed!Next
<1>1. PICK m \in mails : m.code = code
  BY RightMeans
<1>2. mails' = mails /\ spent' = spent \cup {code}
  BY DEF VerifyRight
<1>3. \A n \in mails : n.code = code => n = m
  BY <1>1 DEF FlowInv, FlowType, MailsGenuine
<1>4. {n \in mails : n.code \in spent}' = {n \in mails : n.code \in spent} \cup {m}
  BY <1>1, <1>2, <1>3
<1>5. Confirmations' = Confirmations \cup {<<m.payload, m.to, m.code>>}
  BY <1>4 DEF Confirmations
<1>6. /\ OfferOf(m) \in {OfferOf(n) : n \in mails} /\ m.to \in OfferOf(m).values
      /\ OfferOf(m).owner = m.payload /\ OfferOf(m).code = m.code
  BY <1>1 DEF OfferOf
<1>7. UNCHANGED {OfferOf(n) : n \in mails}
  BY <1>2 DEF OfferOf
<1>8. Addressed!Confirm(OfferOf(m), m.to)
  BY <1>5, <1>6, <1>7 DEF Addressed!Confirm
<1> QED BY <1>6, <1>8 DEF Addressed!Next

LEMMA AddressStep == IInv /\ [Next]_vars => [Addressed!Next]_(Addressed!owned)
<1> SUFFICES ASSUME IInv, [Next]_vars PROVE Addressed!Next \/ UNCHANGED Addressed!owned
  BY DEF Addressed!owned
<1>0. FlowInv(Users, OwnLabels)
  BY DEF IInv
<1>1. ASSUME UNCHANGED <<mails, spent, email>> PROVE UNCHANGED Addressed!owned
  BY <1>1 DEF Addressed!owned, Confirmations, OfferOf
<1>2. ASSUME NEW h \in Handlers, FlowStart(h) \/ FlowResend(h), UNCHANGED email
      PROVE  Addressed!Next \/ UNCHANGED Addressed!owned
  <2>1. UNCHANGED Confirmations /\ spent' = spent
    BY <1>0, <1>2, FlowReturnsNothing, FlowMovesOne DEF Confirmations
  <2>2. CASE mails' = mails
    BY <1>1, <1>2, <2>1, <2>2
  <2> QED BY <1>0, <1>2, <2>1, <2>2, FlowMails, MailOffers
<1>3. ASSUME NEW h \in Handlers, EmailChangeStart(h) \/ EmailChangeResend(h)
      PROVE  Addressed!Next \/ UNCHANGED Addressed!owned
  <2>1. CASE \E e \in Keys, u \in Users, c \in Codes : StartDraw(h, e, u, c)
    BY <1>0, <1>1, <1>3, <2>1, OthersMailNothing DEF EmailChangeStart, EmailChangeResend, ownVars
  <2>2. \A s \in Live : SessionOf[s] \in Users
    BY ProfileAssumption DEF Live
  <2> QED BY <1>2, <1>3, <2>1, <2>2 DEF EmailChangeStart, EmailChangeResend, ownVars
<1>4. ASSUME NEW h \in Handlers, VerifyRefuses(h) \/ Dies(h)
      PROVE  UNCHANGED Addressed!owned
  BY <1>0, <1>1, <1>4, OthersMailNothing DEF VerifyRefuses, Dies, ownVars
<1>5. ASSUME NEW h \in Handlers, VerifyAccepts(h) PROVE Addressed!Next
  <2>1. PICK s \in Live, e \in Keys :
          (\E code \in CanType(e) : VerifyRight(h, e, code, "okDel")) /\ UNCHANGED email
    BY <1>5 DEF VerifyAccepts
  <2> QED BY <1>0, <2>1, ReturnConfirms
<1>6. ASSUME NEW h \in Handlers, PutUserMap(h)
      PROVE  Addressed!Next \/ UNCHANGED Addressed!owned
  <2>1. Sub(h) \in Users /\ held[h].key \in Confirmed(Sub(h))
    BY <1>6, AcceptedHolds DEF PutUserMap, OwnLabels
  <2>2. UNCHANGED <<mails, spent>> /\ (PutUser(Sub(h), held[h].key) \/ UNCHANGED email)
    BY <1>6 DEF PutUserMap, history
  <2> QED BY <2>1, <2>2, PutSets
<1>7. ASSUME NEW d \in Editors, UpdateNamesPut(d)
      PROVE  Addressed!Next \/ UNCHANGED Addressed!owned
  <2>1. edits[d].sub \in Users /\ edits[d].seen \in Confirmed(edits[d].sub)
    BY <1>7, EditAssumption DEF UpdateNamesPut, IInv, TypeOK, EditsConfirmed, Edit
  <2>2. UNCHANGED <<mails, spent>> /\ (PutUser(edits[d].sub, edits[d].seen) \/ UNCHANGED email)
    BY <1>7 DEF UpdateNamesPut, flowVars
  <2> QED BY <2>1, <2>2, PutSets
<1>8. ASSUME NEW h \in Handlers,
             OkDel(h) \/ CheckTaken(h) \/ GetUserMap(h) \/ UpdateSessionEmail(h)
      PROVE  UNCHANGED Addressed!owned
  BY <1>1, <1>8 DEF OkDel, CheckTaken, GetUserMap, UpdateSessionEmail, ownVars, history
<1>9. CASE \/ \E d \in Editors, u \in Users : UpdateNamesGet(d, u)
           \/ \E s \in Sessions : CreateSession(s) \/ DeleteSession(s)
           \/ Tick /\ UNCHANGED ownVars
           \/ UNCHANGED vars
  BY <1>1, <1>9
  DEF UpdateNamesGet, CreateSession, DeleteSession, Tick, vars, flowVars, ownVars, history
<1> QED
  BY <1>3, <1>4, <1>5, <1>6, <1>7, <1>8, <1>9 DEF Next, EmailChangeVerify

\* The e-mail change and every name update implement ConfirmedAccount: no put gives a
\* user an address but one a code mailed for that user confirmed before, or the first.
THEOREM ImplementsConfirmed == Spec => AddressSpec
<1> QED
  BY AddressInit, AddressStep, Invariance, PTL DEF Spec, AddressSpec, Addressed!Spec

-----------------------------------------------------------------------------
(* Requests for a code one at a time, Redis answering and no process dying:  *)
(* what a user is promised of a code.                                        *)

LEMMA LabelsAside == OwnAside({"okDel"}, {})
  BY DEF OwnAside, FlowLabels

\* CountInv of the codes spent, and of a set that names the same.
LEMMA SpentSame ==
  ASSUME NEW U
  PROVE  /\ U = spent /\ OnceInv => CountInv(U, {"okDel"}, {})
         /\ U = spent' /\ CountInv(U, {"okDel"}, {})' => OnceInv'
  BY DEF OnceInv, CountInv, TriesCounted, StoredCounts, UsableStored, Usable, HeldCounts

LEMMA OnceStep ==
  ASSUME ~MayFail("redis"), ~MayFail("crash"), serial,
         IInv, OnceInv, [Next]_vars
  PROVE  OnceInv'
<1> USE ProfileAssumption
<1>0. FlowInv(Users, OwnLabels)
  BY DEF IInv
<1>1. PICK U : U = spent
  OBVIOUS
<1>2. CountInv(U, {"okDel"}, {}) /\ OwnAside({"okDel"}, {})
  BY <1>1, SpentSame, LabelsAside
<1>3. ASSUME spent' = spent, CountInv(U, {"okDel"}, {})' PROVE OnceInv'
  BY <1>1, <1>3, SpentSame
<1>4. CASE Tick
  <2>1. CountInv(U, {"okDel"}, {})'
    BY <1>0, <1>2, <1>4, TickCounts
  <2> QED BY <1>3, <1>4, <2>1 DEF Tick, history
<1>5. ASSUME OneAtATime', NEW h \in Handlers,
             \/ FlowStart(h) \/ FlowResend(h) \/ FlowRefuse(h) \/ Crash(h)
             \/ \E e \in Keys, u \in Users, c \in Codes : StartDraw(h, e, u, c)
      PROVE  OnceInv'
  <2>1. CountInv(U, {"okDel"}, {})'
    BY <1>0, <1>2, <1>5, FlowCounts, StartDrawCounts
  <2>2. spent' = spent
    BY <1>0, <1>5, FlowMovesOne, OthersMailNothing
  <2> QED BY <1>3, <2>1, <2>2
<1>6. ASSUME OneAtATime', NEW h \in Handlers,
             EmailChangeStart(h) \/ EmailChangeResend(h) \/ VerifyRefuses(h) \/ Dies(h)
      PROVE  OnceInv'
  <2>1. \A s \in Live : SessionOf[s] \in Users
    BY DEF Live
  <2> QED BY <1>5, <1>6, <2>1 DEF EmailChangeStart, EmailChangeResend, VerifyRefuses, Dies
<1>7. ASSUME OneAtATime', NEW h \in Handlers, VerifyAccepts(h) PROVE OnceInv'
  <2>1. PICK e \in Keys : \E code \in CanType(e) : VerifyRight(h, e, code, "okDel")
    BY <1>7 DEF VerifyAccepts
  <2>2. PICK code \in CanType(e) : VerifyRight(h, e, code, "okDel")
    BY <2>1
  <2>3. PICK V : V = U \cup {code}
    OBVIOUS
  <2>4. CountInv(V, {"okDel"}, {})'
    BY <1>0, <1>2, <1>7, <2>2, <2>3, RightCounts
  <2> QED BY <1>1, <2>2, <2>3, <2>4, SpentSame DEF VerifyRight
<1>8. ASSUME OneAtATime', NEW h \in Handlers,
             OkDel(h) \/ CheckTaken(h) \/ GetUserMap(h) \/ PutUserMap(h) \/ UpdateSessionEmail(h)
      PROVE  OnceInv'
  <2>1. spent' = spent /\ UNCHANGED <<now, issued, latest, answered, tries>>
    BY <1>8 DEF OkDel, CheckTaken, GetUserMap, PutUserMap, UpdateSessionEmail, history
  <2>2. pc[h] \in OwnLabels /\ pc[h] \notin FlowLabels /\ held[h].code \in U
    <3>1. pc[h] \in OwnLabels
      BY <1>8 DEF OkDel, CheckTaken, GetUserMap, PutUserMap, UpdateSessionEmail, OwnLabels
    <3>2. held[h].code \in spent
      BY <3>1 DEF IInv, ActsForOwner, FlowInv, AcceptedIsSpent
    <3> QED BY <1>1, <3>1, <3>2 DEF OwnLabels, FlowLabels
  <2>3. CASE OkDel(h)
    <3>1. Delete(held[h].key) /\ Goto(h, "check")
      BY <2>3 DEF OkDel, DeleteIgnored, RedisFails
    <3>2. "check" \notin FlowLabels /\ "check" # "idle"
      BY DEF FlowLabels
    <3>3. CountInv(U, {"okDel"}, {})'
      BY <1>0, <1>2, <1>8, <2>1, <2>2, <3>1, <3>2, OwnCounts
    <3> QED BY <1>3, <2>1, <3>3
  <2>4. CASE CheckTaken(h) \/ GetUserMap(h) \/ PutUserMap(h) \/ UpdateSessionEmail(h)
    <3>1. /\ UNCHANGED redis /\ pc[h] \notin {"okDel"}
          /\ \/ \E l \in {"getUser", "putUser", "session"} : Goto(h, l)
             \/ Return(h)
      BY <2>4 DEF CheckTaken, GetUserMap, PutUserMap, UpdateSessionEmail, Back
    <3>2. \A l \in {"getUser", "putUser", "session"} : l \notin FlowLabels /\ l # "idle"
      BY DEF FlowLabels
    <3>3. CASE \E l \in {"getUser", "putUser", "session"} : Goto(h, l)
      BY <1>0, <1>2, <1>3, <1>8, <2>1, <2>2, <3>1, <3>2, <3>3, OwnCounts
    <3>4. CASE Return(h)
      BY <1>0, <1>2, <1>3, <1>8, <2>1, <2>2, <3>1, <3>4, OwnCounts
    <3> QED BY <3>1, <3>3, <3>4
  <2> QED BY <1>8, <2>3, <2>4
<1>9. ASSUME UNCHANGED flowVars PROVE OnceInv'
  <2>1. CountInv(U, {"okDel"}, {})'
    BY <1>2, <1>9, StutterCounts DEF flowVars, redis
  <2> QED BY <1>3, <1>9, <2>1 DEF flowVars
<1>10. CASE \/ \E d \in Editors : UpdateNamesPut(d) \/ \E u \in Users : UpdateNamesGet(d, u)
            \/ \E s \in Sessions : CreateSession(s) \/ DeleteSession(s)
            \/ UNCHANGED vars
  BY <1>9, <1>10 DEF UpdateNamesGet, UpdateNamesPut, CreateSession, DeleteSession, vars, flowVars
<1> QED BY <1>4, <1>6, <1>7, <1>8, <1>10 DEF Next, AsServed, EmailChangeVerify

LEMMA Once ==
  ASSUME "redis" \notin SerialFaults, "crash" \notin SerialFaults
  PROVE  Spec => [](serial => OnceInv)
<1> DEFINE I == serial => OnceInv
<1>1. Init => I
  <2> SUFFICES ASSUME Init PROVE OnceInv
    OBVIOUS
  <2>1. PICK U : U = spent
    OBVIOUS
  <2>2. CountInv(U, {"okDel"}, {})
    BY <2>1, InitCounts, LabelsAside DEF Init, FlowInit
  <2> QED BY <2>1, <2>2
          DEF OnceInv, CountInv, TriesCounted, StoredCounts, UsableStored, Usable, HeldCounts
<1>2. IInv /\ I /\ [Next]_vars => I'
  <2> SUFFICES ASSUME IInv, I, [Next]_vars, serial' PROVE OnceInv'
    OBVIOUS
  <2>1. serial
    BY DEF Next, AsServed, vars, flowVars
  <2>2. ~MayFail("redis") /\ ~MayFail("crash")
    BY <2>1 DEF MayFail
  <2> QED BY <2>1, <2>2, OnceStep
<1> QED BY <1>1, <1>2, Invariance, PTL DEF Spec

\* Served one at a time, and with Redis answering, the code drawn last for an address is
\* accepted until it expires, is used or fails too often, whoever else changes names,
\* signs in or out meanwhile.
THEOREM LatestUsable ==
  ASSUME "redis" \notin SerialFaults, "crash" \notin SerialFaults
  PROVE  Spec => []LatestCodeUsable
<1>1. IInv /\ (serial => OnceInv) => LatestCodeUsable
  <2> SUFFICES ASSUME IInv, OnceInv, \A h \in Handlers : pc[h] = "idle",
                      NEW k \in Keys, Usable(k, spent)
               PROVE  pend[k] # None /\ Accepted(pend[k], latest[k], now)
    BY DEF LatestCodeUsable, LatestUsableUnless
  <2>1. PICK U : U = spent
    OBVIOUS
  <2>2. CountInv(U, {"okDel"}, {}) /\ Usable(k, U)
    BY <2>1, SpentSame DEF Usable
  <2> QED BY <2>2, LabelsAside, UsableAccepted DEF IInv
<1> QED BY <1>1, Invariance, Once, PTL

\* Served one at a time, no e-mail change allows more wrong guesses than the limit,
\* though two users may try the code of one address.
THEOREM AttemptsCapped ==
  ASSUME "redis" \notin SerialFaults, "crash" \notin SerialFaults
  PROVE  Spec => []AttemptCap
<1>1. (serial => OnceInv) => AttemptCap
  BY DEF OnceInv, CountInv, TriesCounted, AttemptCap
<1> QED BY <1>1, Once, PTL

\* Served one at a time, no e-mail change accepts a code a second time.
THEOREM UsedOnce ==
  ASSUME "redis" \notin SerialFaults, "crash" \notin SerialFaults
  PROVE  Spec => OneTimeUse
<1>1. IInv /\ (serial => OnceInv) /\ [Next]_vars
          => [\A h \in Handlers : serial /\ Accepts(h) => typed'[h] \notin spent]_flowVars
  <2> SUFFICES ASSUME IInv, OnceInv, Next, OneAtATime', NEW h \in Handlers, Accepts(h)
               PROVE  typed'[h] \notin spent
    BY DEF vars, flowVars, Next, AsServed
  <2>1. PICK g \in Handlers : VerifyAccepts(g)
    BY OnlyVerifyAccepts
  <2>2. PICK e \in Keys : \E code \in CanType(e) : VerifyRight(g, e, code, "okDel")
    BY <2>1 DEF VerifyAccepts
  <2>3. PICK code \in CanType(e) : VerifyRight(g, e, code, "okDel")
    BY <2>2
  <2>4. PICK U : U = spent
    OBVIOUS
  <2>5. CountInv(U, {"okDel"}, {})
    BY <2>4, SpentSame
  <2>6. typed'[h] \notin U
    BY <2>3, <2>5, LabelsAside, RightIsFresh DEF IInv
  <2> QED BY <2>4, <2>6
<1> QED BY <1>1, Invariance, Once, PTL DEF Spec, OneTimeUse

-----------------------------------------------------------------------------
(* UserRecord.  The argument: what a request carries is as good as the record *)
(* was when it read it, and every setting since is in its overlaps; so a put  *)
(* can spoil a field only when that field is in its overlaps, and then it is  *)
(* in lost.                                                                   *)

LEMMA RecordInitInv == ASSUME RecordInit PROVE RecordInv
  BY RecordAssumption
     DEF RecordInit, RecordInv, RecordTypeOK, OnlyOverlapsLose, CarriedAsMeant, User, Fields

\* A put keeps the invariant if its payload is well typed and names, outside its
\* purpose, nothing but fields as they are meant, lost or overlapped.
LEMMA PutRecordKeeps ==
    ASSUME RecordInv, NEW r \in Requests, NEW kind, NEW p, NEW mine,
           DOMAIN p \subseteq Fields, mine \subseteq DOMAIN p,
           [f \in Fields |-> IF f \in DOMAIN p THEN p[f] ELSE user[f]] \in User,
           \A f \in DOMAIN p \ (mine \cup lost \cup overlaps[r]) : p[f] = meant[f],
           PutRecord(r, kind, p, mine)
    PROVE  RecordInv'
  <1> USE DEF RecordInv, PutRecord, SetOnPurpose, Ends
  <1>1. RecordTypeOK'
    <2>1. meant' \in User
      BY DEF RecordTypeOK, User, Fields
    <2> QED BY <2>1, RecordAssumption DEF RecordTypeOK
  <1>2. OnlyOverlapsLose'
    BY <1>1 DEF OnlyOverlapsLose, RecordTypeOK
  <1>3. CarriedAsMeant'
    BY RecordAssumption DEF CarriedAsMeant, RecordTypeOK, Fields
  <1> QED BY <1>1, <1>2, <1>3

LEMMA RecordStep == ASSUME RecordInv, [RecordNext]_recordVars PROVE RecordInv'
  <1> USE RecordAssumption
  <1>1. CASE UNCHANGED recordVars
    BY <1>1 DEF RecordInv, RecordTypeOK, OnlyOverlapsLose, CarriedAsMeant, recordVars, recordHistory
  <1>2. ASSUME NEW r \in Requests, Begin(r) PROVE RecordInv'
    BY <1>2 DEF Begin, RecordInv, RecordTypeOK, OnlyOverlapsLose, CarriedAsMeant, recordHistory
  <1>3. ASSUME NEW r \in Requests, ExchangeCode(r) PROVE RecordInv'
    <2> DEFINE o == [kind |-> "sync", arg |-> user.name]
    <2>1. o \in Op
      BY DEF RecordInv, RecordTypeOK, Op, User
    <2>2. "name" \notin lost => o.arg = meant.name
      BY DEF RecordInv, OnlyOverlapsLose, Fields
    <2>3. o.kind = "sync"
      OBVIOUS
    <2>4. op' = [op EXCEPT ![r] = o] /\ UNCHANGED <<user, seen, changes, recordHistory>>
      BY <1>3 DEF ExchangeCode
    <2> HIDE DEF o
    <2> QED BY <2>1, <2>2, <2>3, <2>4, <1>3
            DEF ExchangeCode, RecordInv, RecordTypeOK, OnlyOverlapsLose, CarriedAsMeant, recordHistory
  <1>4. ASSUME NEW r \in Requests, GetRecord(r) PROVE RecordInv'
    BY <1>4 DEF GetRecord, Ends, RecordInv, RecordTypeOK, OnlyOverlapsLose, CarriedAsMeant
  <1>5. ASSUME NEW r \in Requests, Fails(r) PROVE RecordInv'
    BY <1>5 DEF Fails, Ends, RecordInv, RecordTypeOK, OnlyOverlapsLose, CarriedAsMeant
  <1>6. ASSUME NEW r \in Requests, UpdateUserNames(r) PROVE RecordInv'
    <2> DEFINE p == NamesPayload(seen[r], op[r].arg)
    <2>1. seen[r] \in User /\ op[r] \in Op /\ op[r].kind = "names"
      BY <1>6 DEF UpdateUserNames, PutRecord, RecordInv, RecordTypeOK, CarriedAsMeant
    <2>2. [f \in Fields |-> IF f \in DOMAIN p THEN p[f] ELSE user[f]] \in User
      BY <2>1 DEF RecordInv, RecordTypeOK, NamesPayload, Op, User, Fields
    <2>3. \A f \in DOMAIN p \ ({"name"} \cup lost \cup overlaps[r]) : p[f] = meant[f]
      BY <2>1, <1>6
         DEF UpdateUserNames, PutRecord, RecordInv, CarriedAsMeant, NamesPayload, User, Fields
    <2>4. DOMAIN p \subseteq Fields /\ {"name"} \subseteq DOMAIN p
      BY <2>1 DEF NamesPayload, User, Fields
    <2> HIDE DEF p
    <2> QED BY <1>6, <2>2, <2>3, <2>4, PutRecordKeeps DEF UpdateUserNames, p
  <1>7. ASSUME NEW r \in Requests, SyncOAuthProfile(r) PROVE RecordInv'
    <2> DEFINE p == NamesPayload(seen[r], op[r].arg)
    <2>1. seen[r] \in User /\ op[r] \in Op /\ op[r].kind = "sync"
      BY <1>7 DEF SyncOAuthProfile, PutRecord, RecordInv, RecordTypeOK, CarriedAsMeant
    <2>2. [f \in Fields |-> IF f \in DOMAIN p THEN p[f] ELSE user[f]] \in User
      BY <2>1 DEF RecordInv, RecordTypeOK, NamesPayload, Op, User, Fields
    <2>3. \A f \in DOMAIN p \ ({} \cup lost \cup overlaps[r]) : p[f] = meant[f]
      BY <2>1, <1>7
         DEF SyncOAuthProfile, PutRecord, RecordInv, CarriedAsMeant, NamesPayload, User, Fields
    <2>4. DOMAIN p \subseteq Fields /\ {} \subseteq DOMAIN p
      BY <2>1 DEF NamesPayload, User, Fields
    <2> HIDE DEF p
    <2> QED BY <1>7, <2>2, <2>3, <2>4, PutRecordKeeps DEF SyncOAuthProfile, p
  <1>8. ASSUME NEW r \in Requests, UpdateUserEmail(r) PROVE RecordInv'
    <2> DEFINE p == EmailPayload(seen[r], op[r].arg)
    <2>1. seen[r] \in User /\ op[r] \in Op /\ op[r].kind = "email"
      BY <1>8 DEF UpdateUserEmail, PutRecord, RecordInv, RecordTypeOK, CarriedAsMeant
    <2>2. [f \in Fields |-> IF f \in DOMAIN p THEN p[f] ELSE user[f]] \in User
      BY <2>1 DEF RecordInv, RecordTypeOK, EmailPayload, Op, User, Fields
    <2>3. \A f \in DOMAIN p \ ({"email", "trapped"} \cup lost \cup overlaps[r]) : p[f] = meant[f]
      BY <2>1, <1>8
         DEF UpdateUserEmail, PutRecord, RecordInv, CarriedAsMeant, EmailPayload, User, Fields
    <2>4. DOMAIN p \subseteq Fields /\ {"email", "trapped"} \subseteq DOMAIN p
      BY <2>1 DEF EmailPayload, User, Fields
    <2> HIDE DEF p
    <2> QED BY <1>8, <2>2, <2>3, <2>4, PutRecordKeeps DEF UpdateUserEmail, p
  <1>9. ASSUME NEW r \in Requests, ClearRequiredActions(r) PROVE RecordInv'
    <2> DEFINE p == ClearPayload(seen[r])
    <2>1. seen[r] \in User /\ op[r] \in Op /\ op[r].kind = "clear"
      BY <1>9 DEF ClearRequiredActions, PutRecord, RecordInv, RecordTypeOK, CarriedAsMeant
    <2>2. [f \in Fields |-> IF f \in DOMAIN p THEN p[f] ELSE user[f]] \in User
      BY <2>1 DEF RecordInv, RecordTypeOK, ClearPayload, Op, User, Fields
    <2>3. \A f \in DOMAIN p \ ({"trapped"} \cup lost \cup overlaps[r]) : p[f] = meant[f]
      BY <2>1, <1>9
         DEF ClearRequiredActions, PutRecord, RecordInv, CarriedAsMeant, ClearPayload, User, Fields
    <2>4. DOMAIN p \subseteq Fields /\ {"trapped"} \subseteq DOMAIN p
      BY <2>1 DEF ClearPayload, User, Fields
    <2> HIDE DEF p
    <2> QED BY <1>9, <2>2, <2>3, <2>4, PutRecordKeeps DEF ClearRequiredActions, p
  <1>10. ASSUME NEW f \in {"enabled", "trapped"}, NEW b \in BOOLEAN, Administer(f, b)
       PROVE  RecordInv'
    BY <1>10
       DEF Administer, SetOnPurpose, RecordInv, RecordTypeOK, OnlyOverlapsLose, CarriedAsMeant,
           User, Fields
  <1>11. ASSUME NEW n \in Names, Administer("name", n) PROVE RecordInv'
    BY <1>11
       DEF Administer, SetOnPurpose, RecordInv, RecordTypeOK, OnlyOverlapsLose, CarriedAsMeant,
           User, Fields
  <1> QED BY <1>1, <1>2, <1>3, <1>4, <1>5, <1>6, <1>7, <1>8, <1>9, <1>10, <1>11 DEF RecordNext

LEMMA RecordInvariance == RecordSpec => []RecordInv
<1>1. RecordInit => RecordInv
  BY RecordInitInv
<1>2. RecordInv /\ [RecordNext]_recordVars => RecordInv'
  BY RecordStep
<1> QED BY <1>1, <1>2, PTL DEF RecordSpec

\* No put of the API brings a required action back.
LEMMA NoPutTraps ==
    ASSUME RecordInv, [RecordNext]_recordVars
    PROVE  [~user.trapped /\ user'.trapped => changes' # changes]_recordVars
  <1> SUFFICES ASSUME RecordNext, ~user.trapped, user'.trapped
               PROVE  changes' # changes
    BY DEF recordVars
  <1>1. ASSUME NEW r \in Requests,
               Begin(r) \/ ExchangeCode(r) \/ GetRecord(r) \/ Fails(r)
        PROVE  FALSE
    BY <1>1 DEF Begin, ExchangeCode, GetRecord, Fails
  <1>2. ASSUME NEW r \in Requests, UpdateUserNames(r) \/ SyncOAuthProfile(r) PROVE FALSE
    BY <1>2 DEF UpdateUserNames, SyncOAuthProfile, PutRecord, NamesPayload, Fields
  <1>3. ASSUME NEW r \in Requests, UpdateUserEmail(r) PROVE FALSE
    BY <1>3 DEF UpdateUserEmail, PutRecord, EmailPayload, Fields
  <1>4. ASSUME NEW r \in Requests, ClearRequiredActions(r) PROVE FALSE
    BY <1>4 DEF ClearRequiredActions, PutRecord, ClearPayload, Fields, RecordInv, RecordTypeOK, User
  <1>5. ASSUME NEW f, NEW v, Administer(f, v) PROVE changes' # changes
    BY <1>5 DEF Administer, RecordInv, RecordTypeOK
  <1> QED BY <1>1, <1>2, <1>3, <1>4, <1>5 DEF RecordNext

\* The record, the requests' copies and the history keep their types.
THEOREM RecordTypeCorrect == RecordSpec => []RecordTypeOK
<1>1. RecordInv => RecordTypeOK
  BY DEF RecordInv
<1> QED BY <1>1, RecordInvariance, PTL

\* Whatever updates of an account in Keycloak overlap or fail, a field that is not what
\* it was last set to was put back by a request that overlapped that setting.
THEOREM LosesOnlyByOverlap == RecordSpec => []OnlyOverlapsLose
<1>1. RecordInv => OnlyOverlapsLose
  BY DEF RecordInv
<1> QED BY <1>1, RecordInvariance, PTL

\* Once cleared, required actions are put up by the administrator alone, whatever
\* overlaps.
THEOREM TrapsByAdminOnly == RecordSpec => NoTrapReturns
<1>1. RecordInv /\ [RecordNext]_recordVars
        => [~user.trapped /\ user'.trapped => changes' # changes]_recordVars
  BY NoPutTraps
<1>2. RecordSpec => []RecordInv
  BY RecordInvariance
<1> QED BY <1>1, <1>2, PTL DEF RecordSpec, NoTrapReturns
=============================================================================
