---------------------------- MODULE SignupProofs ----------------------------
(***************************************************************************)
(* Proofs about Signup for every set of addresses, handlers, codes and     *)
(* forms, every clock bound and every set of faults: its types, that an    *)
(* account is what its owner confirmed, that signup signs in once, that    *)
(* no code works after its time, and that it implements                    *)
(* ConfirmedAccount. For requests served one at a time: that a promised    *)
(* code works until its account is there, and allows so many wrong         *)
(* guesses.                                                                *)
(***************************************************************************)
EXTENDS Signup, OtpFlowProofs

USE SignupAssumption

LEMMA InitInv == Init => IInv
<1> SUFFICES ASSUME Init PROVE IInv
  OBVIOUS
<1>1. FlowInv(Forms, OwnLabels)
  BY FlowInitInv DEF Init
<1>2. TypeOK
  BY <1>1 DEF FlowInv, TypeOK, Init
<1>3. SignupInv
  BY DEF Init, FlowInit, SignupInv, PastVerify, OneCreator, Creating, SessionsBacked,
         AccountAsConfirmed, OwnLabels
<1> QED BY <1>1, <1>2, <1>3 DEF IInv

-----------------------------------------------------------------------------
(* The shared part of the invariant. *)

\* A step of verify after acceptance that leaves Redis alone.
LEMMA OwnKeeps ==
  ASSUME IInv, NEW h \in Handlers, pc[h] \in OwnLabels, NEW l \in OwnLabels,
         Goto(h, l) \/ Return(h), UNCHANGED redis \/ Delete(held[h].key),
         UNCHANGED <<now, history>>
  PROVE  FlowInv(Forms, OwnLabels)'
  BY DeleteKeeps DEF IInv, OwnLabels

LEMMA FlowStep == IInv /\ [Next]_vars => FlowInv(Forms, OwnLabels)'
<1> SUFFICES ASSUME IInv, [Next]_vars PROVE FlowInv(Forms, OwnLabels)'
  OBVIOUS
<1>0. FlowInv(Forms, OwnLabels)
  BY DEF IInv
<1>1. CASE Tick
  BY <1>0, <1>1, TickKeeps
<1>2. ASSUME NEW h \in Handlers, SignupStart(h) PROVE FlowInv(Forms, OwnLabels)'
  BY <1>0, <1>2, StartDrawKeeps, FlowStartKeeps DEF SignupStart
<1>3. ASSUME NEW h \in Handlers, SignupResend(h) PROVE FlowInv(Forms, OwnLabels)'
  BY <1>0, <1>3, FlowResendKeeps DEF SignupResend
<1>4. ASSUME NEW h \in Handlers, VerifyRefuses(h) PROVE FlowInv(Forms, OwnLabels)'
  BY <1>0, <1>4, FlowRefuseKeeps DEF VerifyRefuses
<1>5. ASSUME NEW h \in Handlers, VerifyAccepts(h) PROVE FlowInv(Forms, OwnLabels)'
  BY <1>0, <1>5, RightKeeps DEF VerifyAccepts, OwnLabels
<1>6. ASSUME NEW h \in Handlers, CreateUser(h) \/ ClearRequiredActions(h)
      PROVE  FlowInv(Forms, OwnLabels)'
  BY <1>6, OwnKeeps DEF CreateUser, ClearRequiredActions, KeycloakFails, OwnLabels
<1>7. ASSUME NEW h \in Handlers, AssignRealmRole(h) \/ Login(h)
      PROVE  FlowInv(Forms, OwnLabels)'
  BY <1>7, OwnKeeps DEF AssignRealmRole, Login, KeycloakFails, OwnLabels
<1>8. ASSUME NEW h \in Handlers, DuplicateDel(h) \/ OkDel(h)
      PROVE  FlowInv(Forms, OwnLabels)'
  BY <1>8, OwnKeeps DEF DuplicateDel, OkDel, DeleteIgnored, RedisFails, OwnLabels
<1>9. ASSUME NEW h \in Handlers, Crash(h) PROVE FlowInv(Forms, OwnLabels)'
  BY <1>0, <1>9, CrashKeeps
<1>10. CASE UNCHANGED vars
  BY <1>0, <1>10, StutterKeeps DEF vars
<1> QED
  BY <1>1, <1>2, <1>3, <1>4, <1>5, <1>6, <1>7, <1>8, <1>9, <1>10 DEF Next, SignupVerify

-----------------------------------------------------------------------------
(* The part about accounts and sessions. *)

Accounts == /\ account \in [Keys -> Forms \cup {None}]
            /\ role \in [Keys -> BOOLEAN]
            /\ sessions \in [Keys -> Nat]
            /\ SignupInv

\* What a handler past its verify holds: the code of a mail to its address.
LEMMA AcceptedHolds ==
  ASSUME IInv, NEW h \in Handlers, pc[h] \in OwnLabels
  PROVE  /\ held[h] \in Challenge(Forms) /\ held[h].key \in Keys /\ held[h].payload \in Forms
         /\ typed[h] # None
         /\ \E m \in mails : /\ m.to = held[h].key
                             /\ m.payload = held[h].payload
                             /\ m.code \in spent
<1> USE DEF IInv, FlowInv
<1>1. typed[h] # None
  BY DEF SignupInv, PastVerify
<1>2. /\ held[h] \in Challenge(Forms) /\ Genuine(held[h])
      /\ held[h].code = typed[h] /\ typed[h] \in spent
  BY <1>1 DEF AcceptedIsSpent, CopiesGenuine, FlowType
<1>3. PICK m \in mails : m.code = typed[h]
  BY <1>2 DEF SpentWasMailed
<1>4. m.to = held[h].key /\ m.payload = held[h].payload
  BY <1>2, <1>3 DEF MailsGenuine, Genuine
<1> QED BY <1>1, <1>2, <1>3, <1>4 DEF Challenge

\* A step that creates nothing, lets no handler become a creator and forgets
\* neither mails nor accepted codes.
LEMMA AccountsFrame ==
  ASSUME IInv, NEW h \in Handlers,
         account' = account, role' \in [Keys -> BOOLEAN], sessions' = sessions,
         mails \subseteq mails', spent \subseteq spent',
         \A g \in Handlers \ {h} : UNCHANGED <<pc[g], held[g], typed[g]>>,
         \/ pc'[h] \in FlowLabels
         \/ /\ pc'[h] \in OwnLabels
            /\ typed'[h] # None
            /\ Creating(h)' => Creating(h) /\ held'[h].key = held[h].key
  PROVE  Accounts'
<1> USE DEF IInv, TypeOK, SignupInv, Accounts
<1>1. Creating(h)' => Creating(h) /\ held'[h].key = held[h].key
  BY DEF Creating, FlowLabels
<1>2. \A g \in Handlers : Creating(g)' => Creating(g) /\ held'[g].key = held[g].key
  BY <1>1 DEF Creating
<1>3. PastVerify'
  BY DEF PastVerify, FlowLabels, OwnLabels
<1>4. OneCreator'
  BY <1>2 DEF OneCreator
<1>5. SessionsBacked' /\ AccountAsConfirmed'
  BY DEF SessionsBacked, AccountAsConfirmed
<1> QED BY <1>3, <1>4, <1>5

LEMMA SharedKeeps ==
  ASSUME IInv, UNCHANGED accounts, NEW h \in Handlers,
         \/ FlowStart(h) \/ FlowResend(h) \/ FlowRefuse(h) \/ Crash(h)
         \/ \E e \in Keys, f \in Forms, c \in Codes : StartDraw(h, e, f, c)
  PROVE  Accounts'
<1>0. FlowInv(Forms, OwnLabels)
  BY DEF IInv
<1>1. CASE FlowStart(h) \/ FlowResend(h) \/ FlowRefuse(h) \/ Crash(h)
  <2>1. /\ \A g \in Handlers \ {h} : UNCHANGED <<pc[g], held[g], typed[g]>>
        /\ pc'[h] \in FlowLabels
        /\ spent' = spent
    BY <1>0, <1>1, FlowMovesOne
  <2>2. mails \subseteq mails'
    BY <1>1 DEF FlowStart, StartPut, StartMail, StartMailFails, StartDel, FlowResend,
                ResendDraw, ResendPut, ResendMail, ResendMailFails, FlowRefuse,
                VerifyRefused, VerifyWrong, ErrPut, ErrDel, Crash, history
  <2> QED BY <2>1, <2>2, AccountsFrame DEF accounts, IInv, TypeOK
<1>2. CASE \E e \in Keys, f \in Forms, c \in Codes : StartDraw(h, e, f, c)
  <2>1. /\ \A g \in Handlers \ {h} : UNCHANGED <<pc[g], held[g], typed[g]>>
        /\ pc'[h] \in FlowLabels
        /\ spent' = spent /\ mails' = mails
    BY <1>0, <1>2 DEF StartDraw, FlowInv, FlowType, FlowLabels
  <2> QED BY <2>1, AccountsFrame DEF accounts, IInv, TypeOK
<1> QED BY <1>1, <1>2

\* A handler that moves on within verify.
LEMMA MoveKeeps ==
  ASSUME IInv, NEW h \in Handlers, account' = account, role' \in [Keys -> BOOLEAN],
         sessions' = sessions, UNCHANGED history, pc[h] \in OwnLabels, NEW l \in OwnLabels,
         \/ Return(h)
         \/ Goto(h, l) /\ (l = "dupDel" \/ Creating(h))
  PROVE  Accounts'
<1> USE DEF IInv, FlowInv, FlowType, history
<1>1. \A g \in Handlers \ {h} : UNCHANGED <<pc[g], held[g], typed[g]>>
  BY DEF Goto, Return
<1>2. CASE Return(h)
  <2>1. pc'[h] \in FlowLabels
    BY <1>2 DEF Return, FlowLabels
  <2> QED BY <1>1, <2>1, AccountsFrame
<1>3. CASE Goto(h, l) /\ (l = "dupDel" \/ Creating(h))
  <2>1. pc'[h] = l /\ typed'[h] # None /\ held'[h] = held[h]
    BY <1>3, AcceptedHolds DEF Goto
  <2>2. Creating(h)' => Creating(h)
    BY <1>3, <2>1 DEF Creating
  <2> QED BY <1>1, <2>1, <2>2, AccountsFrame
<1> QED BY <1>2, <1>3

\* A creation: the address had no account, so no creator and no session either.
LEMMA CreationKeeps ==
  ASSUME IInv, NEW h \in Handlers, pc[h] = "create", account[held[h].key] = None,
         account' = [account EXCEPT ![held[h].key] = held[h].payload],
         Goto(h, "clear") \/ Return(h), UNCHANGED <<history, role, sessions>>
  PROVE  Accounts'
<1> DEFINE e == held[h].key
<1> USE DEF IInv, TypeOK, SignupInv, Accounts, FlowInv, FlowType, history
<1>1. /\ e \in Keys /\ held[h].payload \in Forms /\ typed[h] # None
      /\ \E m \in mails : m.to = e /\ m.payload = held[h].payload /\ m.code \in spent
  BY AcceptedHolds DEF OwnLabels
<1>2. \A g \in Handlers \ {h} : UNCHANGED <<pc[g], held[g], typed[g]>>
  BY DEF Goto, Return
<1>3. pc'[h] = "idle" \/ (pc'[h] = "clear" /\ UNCHANGED <<held[h], typed[h]>>)
  BY DEF Goto, Return
<1>4. sessions[e] = 0
  BY <1>1 DEF SessionsBacked
<1>5. \A g \in Handlers : Creating(g) => held[g].key # e
  BY DEF OneCreator
<1>6. held[h].payload # None /\ account'[e] = held[h].payload
      /\ \A k \in Keys \ {e} : account'[k] = account[k]
  BY <1>1
<1> HIDE DEF e
<1>7. PastVerify'
  BY <1>1, <1>2, <1>3 DEF PastVerify, OwnLabels
<1>8. OneCreator'
  <2>1. \A g \in Handlers \ {h} : Creating(g)' => Creating(g) /\ held'[g] = held[g]
    BY <1>2 DEF Creating
  <2>2. Creating(h)' => held'[h] = held[h]
    BY <1>3 DEF Creating
  <2>3. ASSUME NEW g \in Handlers, Creating(g)'
        PROVE  account'[held'[g].key] # None /\ sessions'[held'[g].key] = 0
    <3>1. CASE g = h
      BY <1>4, <1>6, <2>2, <2>3, <3>1 DEF e
    <3>2. CASE g # h
      <4>1. pc[g] \in OwnLabels
        BY <2>1, <2>3, <3>2 DEF Creating, OwnLabels
      <4>2. held[g].key \in Keys \ {e}
        BY <1>5, <2>1, <2>3, <3>2, <4>1, AcceptedHolds
      <4> QED BY <1>6, <2>1, <2>3, <3>2, <4>2 DEF OneCreator
    <3> QED BY <3>1, <3>2
  <2>4. ASSUME NEW f \in Handlers, NEW g \in Handlers, Creating(f)', Creating(g)',
               held'[f].key = held'[g].key
        PROVE  f = g
    BY <1>5, <2>1, <2>2, <2>4 DEF OneCreator, e
  <2> QED BY <2>3, <2>4 DEF OneCreator
<1>9. SessionsBacked' /\ AccountAsConfirmed'
  BY <1>1, <1>6 DEF SessionsBacked, AccountAsConfirmed
<1> QED BY <1>1, <1>7, <1>8, <1>9 DEF e

\* The login of the only creator.
LEMMA LoginKeeps ==
  ASSUME IInv, NEW h \in Handlers, pc[h] = "login", Return(h), UNCHANGED <<history, account, role>>,
         sessions' = [sessions EXCEPT ![held[h].key] = @ + 1]
  PROVE  Accounts'
<1> DEFINE e == held[h].key
<1> USE DEF IInv, TypeOK, SignupInv, Accounts, FlowInv, FlowType, history, Return
<1>1. e \in Keys /\ account[e] # None /\ sessions[e] = 0
  BY AcceptedHolds DEF OwnLabels, OneCreator, Creating
<1>2. sessions'[e] = 1 /\ sessions' \in [Keys -> Nat]
      /\ \A k \in Keys \ {e} : sessions'[k] = sessions[k]
  BY <1>1
<1>3. \A g \in Handlers \ {h} : Creating(g) => held[g].key # e
  BY DEF OneCreator, Creating
<1> HIDE DEF e
<1>4. PastVerify'
  BY DEF PastVerify, OwnLabels
<1>5. \A g \in Handlers : Creating(g)' => g # h /\ Creating(g) /\ held'[g] = held[g]
  BY DEF Creating
<1>6. OneCreator'
  <2>1. ASSUME NEW g \in Handlers, Creating(g)'
        PROVE  account'[held'[g].key] # None /\ sessions'[held'[g].key] = 0
    <3>1. pc[g] \in OwnLabels
      BY <1>5, <2>1 DEF Creating, OwnLabels
    <3>2. held[g].key \in Keys \ {e}
      BY <1>3, <1>5, <2>1, <3>1, AcceptedHolds
    <3> QED BY <1>2, <1>5, <2>1, <3>2 DEF OneCreator
  <2> QED BY <1>5, <2>1 DEF OneCreator
<1>7. SessionsBacked' /\ AccountAsConfirmed'
  BY <1>1, <1>2 DEF SessionsBacked, AccountAsConfirmed
<1> QED BY <1>2, <1>4, <1>6, <1>7

LEMMA AccountsStep == IInv /\ [Next]_vars => Accounts'
<1> SUFFICES ASSUME IInv, [Next]_vars PROVE Accounts'
  OBVIOUS
<1>1. CASE Tick /\ UNCHANGED accounts
  BY <1>1 DEF Tick, handlers, history, accounts, IInv, TypeOK, Accounts, SignupInv,
              PastVerify, OneCreator, Creating, SessionsBacked, AccountAsConfirmed
<1>2. ASSUME NEW h \in Handlers,
             \/ SignupStart(h) \/ SignupResend(h) \/ VerifyRefuses(h)
             \/ Crash(h) /\ UNCHANGED accounts
      PROVE  Accounts'
  BY <1>2, SharedKeeps DEF SignupStart, SignupResend, VerifyRefuses
<1>3. ASSUME NEW h \in Handlers, VerifyAccepts(h) PROVE Accounts'
  <2>1. PICK e \in Keys : \E code \in CanType(e) : VerifyRight(h, e, code, "create")
    BY <1>3 DEF VerifyAccepts
  <2>2. PICK code \in CanType(e) : VerifyRight(h, e, code, "create")
    BY <2>1
  <2>3. code # None
    BY <2>2, RightMeans, FlowAssumption DEF IInv
  <2>4. /\ \A g \in Handlers \ {h} : UNCHANGED <<pc[g], held[g], typed[g]>>
        /\ pc'[h] = "create" /\ typed'[h] # None
        /\ mails' = mails /\ spent \subseteq spent'
    BY <2>2, <2>3 DEF VerifyRight, IInv, FlowInv, FlowType
  <2>5. ~Creating(h)'
    BY <2>4 DEF Creating
  <2>6. pc'[h] \in OwnLabels
    BY <2>4 DEF OwnLabels
  <2> QED BY <1>3, <2>4, <2>5, <2>6, AccountsFrame DEF VerifyAccepts, accounts, IInv, TypeOK
<1>4. ASSUME NEW h \in Handlers, CreateUser(h) PROVE Accounts'
  BY <1>4, CreationKeeps, MoveKeeps DEF CreateUser, KeycloakFails, OwnLabels, IInv, TypeOK
<1>5. ASSUME NEW h \in Handlers, ClearRequiredActions(h) \/ OkDel(h) \/ DuplicateDel(h)
      PROVE  Accounts'
  BY <1>5, MoveKeeps DEF ClearRequiredActions, OkDel, DuplicateDel, KeycloakFails, OwnLabels,
                         Creating, accounts, IInv, TypeOK
<1>6. ASSUME NEW h \in Handlers, AssignRealmRole(h) PROVE Accounts'
  <2>1. role' \in [Keys -> BOOLEAN]
    BY <1>6 DEF AssignRealmRole, IInv, TypeOK
  <2> QED BY <1>6, <2>1, MoveKeeps DEF AssignRealmRole, KeycloakFails, OwnLabels, Creating
<1>7. ASSUME NEW h \in Handlers, Login(h) PROVE Accounts'
  BY <1>7, LoginKeeps, MoveKeeps DEF Login, OwnLabels, IInv, TypeOK
<1>8. CASE UNCHANGED vars
  BY <1>8 DEF vars, flowVars, IInv, TypeOK, Accounts, SignupInv, PastVerify, OneCreator,
              Creating, SessionsBacked, AccountAsConfirmed
<1> QED BY <1>1, <1>2, <1>3, <1>4, <1>5, <1>6, <1>7, <1>8 DEF Next, SignupVerify

LEMMA Invariance == Spec => []IInv
<1>1. IInv /\ [Next]_vars => IInv'
  BY FlowStep, AccountsStep DEF IInv, Accounts, TypeOK, FlowInv
<1> QED
  BY <1>1, InitInv, PTL DEF Spec

-----------------------------------------------------------------------------
(* The theorems. *)

\* Every variable of the signup flow keeps its type.
THEOREM TypeCorrect == Spec => []TypeOK
<1>1. IInv => TypeOK
  BY DEF IInv
<1> QED BY <1>1, Invariance, PTL

\* An account carries the name and password whose code its owner was mailed
\* and typed back, whatever Starts overwrite each other.
THEOREM AccountsConfirmed == Spec => []AccountAsConfirmed
<1>1. IInv => AccountAsConfirmed
  BY DEF IInv, SignupInv
<1> QED BY <1>1, Invariance, PTL

\* Signup opens one session for an address, however many verifies overlap:
\* Keycloak answers 201 to one CreateUser, and only that handler logs in.
THEOREM SignsInOnce == Spec => []OneSessionPerAccount
<1>1. IInv => OneSessionPerAccount
  BY DEF IInv, SignupInv, SessionsBacked, OneSessionPerAccount
<1> QED BY <1>1, Invariance, PTL

-----------------------------------------------------------------------------
(* What only a verify can do. *)

LEMMA OnlyVerifyAccepts ==
  ASSUME IInv, Next, NEW h \in Handlers, Accepts(h)
  PROVE  \E g \in Handlers : VerifyAccepts(g)
<1>0. FlowInv(Forms, OwnLabels)
  BY DEF IInv
<1>1. ~Tick
  BY <1>0, FlowAcceptsNothing
<1>2. ASSUME NEW g \in Handlers,
             SignupStart(g) \/ SignupResend(g) \/ VerifyRefuses(g) \/ Crash(g)
      PROVE  FALSE
  <2>1. CASE FlowStart(g) \/ FlowResend(g) \/ FlowRefuse(g) \/ Crash(g)
    BY <1>0, <2>1, FlowAcceptsNothing
  <2>2. CASE \E e \in Keys, f \in Forms, c \in Codes : StartDraw(g, e, f, c)
    BY <2>2 DEF StartDraw, Accepts
  <2> QED BY <1>2, <2>1, <2>2 DEF SignupStart, SignupResend, VerifyRefuses
<1>3. ASSUME NEW g \in Handlers,
             \/ CreateUser(g) \/ DuplicateDel(g) \/ ClearRequiredActions(g)
             \/ AssignRealmRole(g) \/ OkDel(g) \/ Login(g)
      PROVE  FALSE
  BY <1>0, <1>3, MovingAcceptsNothing
  DEF CreateUser, DuplicateDel, ClearRequiredActions, AssignRealmRole, OkDel, Login, KeycloakFails
<1> QED BY <1>1, <1>2, <1>3 DEF Next, SignupVerify

\* No signup accepts a code more than OTPTTL after its draw, whatever Starts and
\* stale write-backs renew the Redis key.
THEOREM NeverAfterExpiry == Spec => NotAfterExpiry
<1>1. IInv /\ [Next]_vars => [\A h \in Handlers : Accepts(h) =>
                                  now <= issued[typed'[h]].lastSent + OTPTTL]_flowVars
  <2> SUFFICES ASSUME IInv, Next, NEW h \in Handlers, Accepts(h)
               PROVE  now <= issued[typed'[h]].lastSent + OTPTTL
    BY DEF vars, flowVars
  <2>1. PICK g \in Handlers : VerifyAccepts(g)
    BY OnlyVerifyAccepts
  <2> QED BY <2>1, RightAcceptsInTime DEF VerifyAccepts, IInv
<1> QED BY <1>1, Invariance, PTL DEF Spec, NotAfterExpiry

-----------------------------------------------------------------------------
(* Implementation of ConfirmedAccount. *)

LEMMA CreationInit == Init => Created!Init
  BY DEF Init, FlowInit, Created!Init, Confirmations

\* A mail offers the address it goes to the form it was sent for.
LEMMA MailOffers ==
  ASSUME NEW m \in [to : Keys, code : Codes, payload : Forms],
         mails' = mails \cup {m}, \A n \in mails : n.code = m.code => n = m,
         UNCHANGED Confirmations, UNCHANGED account
  PROVE  Created!Next
<1>1. OfferOf(m) \in Created!Offer
  BY DEF OfferOf, Created!Offer
<1>2. \A o \in {OfferOf(n) : n \in mails} : o.code = OfferOf(m).code => o = OfferOf(m)
  BY DEF OfferOf
<1>3. {OfferOf(n) : n \in mails}' = {OfferOf(n) : n \in mails} \cup {OfferOf(m)}
  BY DEF OfferOf
<1> QED BY <1>1, <1>2, <1>3 DEF Created!Next, Created!Announce

\* A code that comes back confirms what its mail offered.
LEMMA ReturnConfirms ==
  ASSUME FlowInv(Forms, OwnLabels), NEW h \in Handlers, NEW e \in Keys, NEW code \in CanType(e),
         VerifyRight(h, e, code, "create"), UNCHANGED account
  PROVE  Created!Next
<1>1. PICK m \in mails : m.code = code
  BY RightMeans
<1>2. mails' = mails /\ spent' = spent \cup {code}
  BY DEF VerifyRight
<1>3. \A n \in mails : n.code = code => n = m
  BY <1>1 DEF FlowInv, FlowType, MailsGenuine
<1>4. {n \in mails : n.code \in spent}' = {n \in mails : n.code \in spent} \cup {m}
  BY <1>1, <1>2, <1>3
<1>5. Confirmations' = Confirmations \cup {<<m.to, m.payload, m.code>>}
  BY <1>4 DEF Confirmations
<1>6. /\ OfferOf(m) \in {OfferOf(n) : n \in mails} /\ m.payload \in OfferOf(m).values
      /\ OfferOf(m).owner = m.to /\ OfferOf(m).code = m.code
  BY <1>1 DEF OfferOf
<1>7. UNCHANGED {OfferOf(n) : n \in mails}
  BY <1>2 DEF OfferOf
<1>8. Created!Confirm(OfferOf(m), m.payload)
  BY <1>5, <1>6, <1>7 DEF Created!Confirm
<1> QED BY <1>6, <1>8 DEF Created!Next

LEMMA CreationStep == IInv /\ [Next]_vars => [Created!Next]_(Created!owned)
<1> SUFFICES ASSUME IInv, [Next]_vars PROVE Created!Next \/ UNCHANGED Created!owned
  BY DEF Created!owned
<1>0. FlowInv(Forms, OwnLabels)
  BY DEF IInv
<1>1. ASSUME UNCHANGED <<mails, spent, account>> PROVE UNCHANGED Created!owned
  BY <1>1 DEF Created!owned, Confirmations, OfferOf
<1>2. ASSUME NEW h \in Handlers, FlowStart(h) \/ FlowResend(h), UNCHANGED account
      PROVE  Created!Next \/ UNCHANGED Created!owned
  <2>1. UNCHANGED Confirmations /\ spent' = spent
    BY <1>0, <1>2, FlowReturnsNothing, FlowMovesOne DEF Confirmations
  <2>2. CASE mails' = mails
    BY <1>1, <1>2, <2>1, <2>2
  <2> QED BY <1>0, <1>2, <2>1, <2>2, FlowMails, MailOffers
<1>3. ASSUME NEW h \in Handlers, SignupStart(h) \/ SignupResend(h)
      PROVE  Created!Next \/ UNCHANGED Created!owned
  <2>1. CASE \E e \in Keys, f \in Forms, c \in Codes : StartDraw(h, e, f, c)
    BY <1>0, <1>1, <1>3, <2>1, OthersMailNothing DEF SignupStart, SignupResend, accounts
  <2> QED BY <1>2, <1>3, <2>1 DEF SignupStart, SignupResend, accounts
<1>4. ASSUME NEW h \in Handlers, VerifyRefuses(h) \/ (Crash(h) /\ UNCHANGED accounts)
      PROVE  UNCHANGED Created!owned
  BY <1>0, <1>1, <1>4, OthersMailNothing DEF VerifyRefuses, accounts
<1>5. ASSUME NEW h \in Handlers, VerifyAccepts(h) PROVE Created!Next
  BY <1>0, <1>5, ReturnConfirms DEF VerifyAccepts, accounts
<1>6. ASSUME NEW h \in Handlers, CreateUser(h)
      PROVE  Created!Next \/ UNCHANGED Created!owned
  <2>1. PICK m \in mails : m.to = held[h].key /\ m.payload = held[h].payload /\ m.code \in spent
    BY <1>6, AcceptedHolds DEF CreateUser, OwnLabels
  <2> DEFINE t == <<m.to, m.payload, m.code>>
  <2>2. t \in Confirmations
    BY <2>1 DEF Confirmations
  <2>3. UNCHANGED <<mails, spent>>
    BY <1>6 DEF CreateUser, history
  <2>4. CASE account' = [account EXCEPT ![held[h].key] = held[h].payload]
    <3>1. UNCHANGED Confirmations /\ UNCHANGED {OfferOf(n) : n \in mails}
      BY <2>3 DEF Confirmations, OfferOf
    <3>2. Created!Set(t)
      BY <2>1, <2>4, <3>1 DEF Created!Set
    <3> QED BY <2>2, <3>2 DEF Created!Next
  <2> QED BY <1>1, <1>6, <2>3, <2>4 DEF CreateUser
<1>7. ASSUME NEW h \in Handlers,
             \/ DuplicateDel(h) \/ ClearRequiredActions(h) \/ AssignRealmRole(h)
             \/ OkDel(h) \/ Login(h)
      PROVE  UNCHANGED Created!owned
  BY <1>1, <1>7
  DEF DuplicateDel, ClearRequiredActions, AssignRealmRole, OkDel, Login, accounts, history
<1>8. CASE (Tick /\ UNCHANGED accounts) \/ UNCHANGED vars
  BY <1>1, <1>8 DEF Tick, vars, flowVars, accounts, history
<1> QED BY <1>3, <1>4, <1>5, <1>6, <1>7, <1>8 DEF Next, SignupVerify

\* Signup implements ConfirmedAccount: it creates an address's account only with the
\* form that a code mailed to that address, and typed back before, stood for.
THEOREM ImplementsConfirmed == Spec => CreationSpec
<1> QED
  BY CreationInit, CreationStep, Invariance, PTL DEF Spec, CreationSpec, Created!Spec

-----------------------------------------------------------------------------
(* Requests one at a time, Redis answering and no process dying.  U are the  *)
(* codes whose challenge a verify has deleted: a creation that failed leaves *)
(* its code out of them.                                                     *)

LEMMA LabelsAside == OwnAside({"create"}, {})
  BY DEF OwnAside, FlowLabels

\* Codes used up stay so: a drawn challenge, an accepted code and an account are
\* for good.
LEMMA ConsumedGrows ==
  ASSUME NEW U \in SUBSET Codes, CodesDeleted(U), spent \subseteq spent',
         \A c \in Issued : issued'[c] = issued[c],
         \A e \in Keys : account[e] # None => account'[e] = account[e],
         \A c \in Issued : issued[c].key \in Keys
  PROVE  U \subseteq Consumed'
<1>1. \A c \in U : c \in spent /\ account[issued[c].key] # None /\ c \in Issued
  BY DEF CodesDeleted, Consumed, CountInv, TriesCounted
<1> QED BY <1>1 DEF Consumed

LEMMA DrawnKeys == ASSUME IInv PROVE \A c \in Issued : issued[c] \in Challenge(Forms) /\ issued[c].key \in Keys
  BY DEF IInv, FlowInv, FlowType, Issued, Challenge

\* The steps of OtpFlow: no code becomes used up, and none is decided upon.
LEMMA SharedOnce ==
  ASSUME ~MayFail("redis"), ~MayFail("crash"), IInv, OneAtATime', NEW h \in Handlers,
         UNCHANGED accounts,
         \/ FlowStart(h) \/ FlowResend(h) \/ FlowRefuse(h) \/ Crash(h)
         \/ \E e \in Keys, f \in Forms, c \in Codes : StartDraw(h, e, f, c),
         NEW U \in SUBSET Codes, CodesDeleted(U)
  PROVE  CodesDeleted(U)'
<1>0. FlowInv(Forms, OwnLabels) /\ CountInv(U, {"create"}, {})
  BY DEF IInv, CodesDeleted
<1>1. CountInv(U, {"create"}, {})'
  BY <1>0, LabelsAside, FlowCounts, StartDrawCounts
<1>2. /\ \A g \in Handlers \ {h} : UNCHANGED <<pc[g], held[g]>>
      /\ pc'[h] \in FlowLabels /\ spent' = spent
      /\ \A c \in Issued : issued'[c] = issued[c]
  <2>1. CASE FlowStart(h) \/ FlowResend(h) \/ FlowRefuse(h) \/ Crash(h)
    <3>1. /\ \A g \in Handlers \ {h} : UNCHANGED <<pc[g], held[g]>>
          /\ pc'[h] \in FlowLabels /\ spent' = spent
      BY <1>0, <2>1, FlowMovesOne
    <3>2. CASE \E k \in Keys, c \in Codes : ResendDraw(h, k, c)
      <4>1. PICK k \in Keys, c \in Codes : ResendDraw(h, k, c)
        BY <3>2
      <4>2. pend[k] \in Challenge(Forms) /\ now \in Nat
        BY <1>0, <4>1 DEF ResendDraw, FlowInv, FlowType
      <4>3. Rotate(pend[k], c).code = c
        BY <4>2, DrawFields DEF Rotate
      <4>4. c \notin Issued /\ issued' = [issued EXCEPT ![c] = Rotate(pend[k], c)]
        BY <4>1, <4>3 DEF ResendDraw, Issue
      <4> QED BY <1>0, <3>1, <4>4 DEF FlowInv, FlowType, Issued
    <3>3. CASE ~\E k \in Keys, c \in Codes : ResendDraw(h, k, c)
      <4>1. issued' = issued
        BY <2>1, <3>3 DEF FlowStart, StartPut, StartMail, StartMailFails, StartDel, FlowResend,
                  ResendPut, ResendMail, ResendMailFails, FlowRefuse, VerifyRefused,
                  VerifyWrong, ErrPut, ErrDel, Crash, draws, history
      <4> QED BY <3>1, <4>1
    <3> QED BY <3>2, <3>3
  <2>2. ASSUME NEW e \in Keys, NEW f \in Forms, NEW c \in Codes, StartDraw(h, e, f, c)
        PROVE  /\ \A g \in Handlers \ {h} : UNCHANGED <<pc[g], held[g]>>
               /\ pc'[h] \in FlowLabels /\ spent' = spent
               /\ \A d \in Issued : issued'[d] = issued[d]
    <3>1. c \notin Issued /\ issued' = [issued EXCEPT ![c] = NewChallenge(e, f, c)]
      BY <2>2 DEF StartDraw, Issue, NewChallenge
    <3>2. \A d \in Issued : issued'[d] = issued[d]
      BY <1>0, <3>1 DEF FlowInv, FlowType, Issued
    <3> QED BY <1>0, <2>2, <3>2 DEF StartDraw, FlowInv, FlowType, FlowLabels
  <2> QED BY <2>1, <2>2
<1>3. U \subseteq Consumed'
  BY <1>2, ConsumedGrows, DrawnKeys DEF accounts
<1>4. \A g \in Handlers : pc'[g] \in Deciding => pc[g] = pc'[g] /\ held[g] = held'[g]
  BY <1>2 DEF Deciding, FlowLabels
<1> QED BY <1>1, <1>3, <1>4 DEF CodesDeleted, Deciding, accounts

LEMMA AcceptOnce ==
  ASSUME IInv, OneAtATime', NEW h \in Handlers, VerifyAccepts(h),
         NEW U \in SUBSET Codes, CodesDeleted(U)
  PROVE  CodesDeleted(U)'
<1>0. FlowInv(Forms, OwnLabels) /\ CountInv(U, {"create"}, {}) /\ account' = account
  BY DEF IInv, CodesDeleted, VerifyAccepts, accounts
<1>1. PICK e \in Keys : \E code \in CanType(e) : VerifyRight(h, e, code, "create")
  BY DEF VerifyAccepts
<1>2. PICK code \in CanType(e) : VerifyRight(h, e, code, "create")
  BY <1>1
<1>3. CountInv(U, {"create"}, {})'
  BY <1>0, <1>2, LabelsAside, RightCounts
<1>4. U \subseteq Consumed'
  BY <1>0, <1>2, ConsumedGrows, DrawnKeys DEF VerifyRight, draws
<1>5. /\ \A g \in Handlers \ {h} : UNCHANGED <<pc[g], held[g]>>
      /\ pc'[h] = "create" /\ held'[h] = Counted(pend[e])
  BY <1>0, <1>2 DEF VerifyRight, FlowInv, FlowType
<1>6. Counted(pend[e]).code \notin U
  <2>1. pend[e] # None /\ pend[e] \in Challenge(Forms) /\ pc[h] = "idle" /\ pc'[h] # "idle"
    BY <1>0, <1>2, <1>5 DEF VerifyRight, FlowInv, FlowType
  <2>2. Counted(pend[e]).code = pend[e].code
    BY <2>1, CountedFields
  <2>3. pend[e].code \notin U
    BY <1>0, <1>5, <2>1, LabelsAside, VerifyFinds
  <2> QED BY <2>2, <2>3
<1>7. \A g \in Handlers : pc'[g] = "dupDel" => pc[g] = "dupDel" /\ held'[g] = held[g]
  BY <1>5
<1> QED BY <1>0, <1>3, <1>4, <1>5, <1>6, <1>7 DEF CodesDeleted

\* A verify's own step: the code is used up with its challenge's delete, when
\* the address has an account, and not before.
LEMMA OwnOnce ==
  ASSUME IInv, OneAtATime', NEW h \in Handlers, pc[h] \in OwnLabels,
         UNCHANGED <<now, history>>,
         \A e \in Keys : account[e] # None => account'[e] = account[e],
         NEW l \in {"dupDel", "clear", "role", "okDel", "login", "idle"},
         (l # "idle" /\ Goto(h, l)) \/ (l = "idle" /\ Return(h)),
         l = "dupDel" => account'[held[h].key] # None,
         \/ UNCHANGED redis /\ l # "login" /\ (pc[h] = "login" => l = "idle")
         \/ Delete(held[h].key) /\ pc[h] \in {"dupDel", "okDel"} /\ l \in {"login", "idle"},
         OnceInv
  PROVE  OnceInv'
<1> USE DEF history
<1>0. FlowInv(Forms, OwnLabels) /\ pc[h] \notin FlowLabels /\ l \notin FlowLabels \ {"idle"}
  BY DEF IInv, OwnLabels, FlowLabels
<1>1. PICK U \in SUBSET Codes : CodesDeleted(U)
  BY DEF OnceInv
<1>2. CountInv(U, {"create"}, {})
  BY <1>1 DEF CodesDeleted
<1>3. /\ held[h].code \in spent /\ held[h].code \in Codes /\ held[h].key \in Keys
      /\ held[h].code \in Issued /\ issued[held[h].code].key = held[h].key
  <2>1. typed[h] # None /\ held[h] \in Challenge(Forms)
    BY AcceptedHolds
  <2>2. held[h].code \in spent /\ Genuine(held[h])
    BY <2>1 DEF IInv, FlowInv, AcceptedIsSpent, CopiesGenuine, FlowType
  <2> QED BY <2>1, <2>2 DEF Genuine, Challenge
<1>4. /\ pc'[h] = l /\ (l # "idle" => held'[h] = held[h])
      /\ \A g \in Handlers \ {h} : pc'[g] = pc[g] /\ held'[g] = held[g] /\ pc[g] = "idle"
  <2>1. /\ pc'[h] = l /\ (l # "idle" => held'[h] = held[h])
        /\ \A g \in Handlers \ {h} : pc'[g] = pc[g] /\ held'[g] = held[g]
    BY <1>0 DEF Goto, Return, FlowInv, FlowType
  <2>2. \A g \in Handlers \ {h} : pc[g] = "idle"
    BY <1>0, <1>2 DEF CountInv, OneAtATime, FlowLabels
  <2> QED BY <2>1, <2>2
<1>5. U \subseteq Consumed'
  BY <1>1, ConsumedGrows, DrawnKeys
<1>6. CASE UNCHANGED redis /\ l # "login" /\ (pc[h] = "login" => l = "idle")
  <2>1. held[h].code \notin U \/ pc[h] = "login"
    BY <1>1 DEF CodesDeleted, Deciding, OwnLabels
  <2>2. CountInv(U, {"create"}, {})'
    BY <1>0, <1>2, <1>6, <2>1, LabelsAside, OwnCounts
  <2>3. \A g \in Handlers : /\ pc'[g] \in Deciding => held'[g].code \notin U
                            /\ pc'[g] = "dupDel" => account'[held'[g].key] # None
    BY <1>4, <1>6, <2>1 DEF Deciding
  <2>4. CodesDeleted(U)'
    BY <1>5, <2>2, <2>3 DEF CodesDeleted
  <2> QED BY <2>4 DEF OnceInv
<1>7. CASE Delete(held[h].key) /\ pc[h] \in {"dupDel", "okDel"} /\ l \in {"login", "idle"}
  <2>1. PICK V \in SUBSET Codes : V = U \cup {held[h].code}
    BY <1>3
  <2>2. CountInv(V, {"create"}, {})'
    BY <1>0, <1>2, <1>7, <2>1, LabelsAside, OwnCounts
  <2>3. account[held[h].key] # None
    <3>1. CASE pc[h] = "dupDel"
      BY <1>1, <3>1 DEF CodesDeleted
    <3>2. CASE pc[h] = "okDel"
      BY <3>2 DEF IInv, SignupInv, OneCreator, Creating
    <3> QED BY <1>7, <3>1, <3>2
  <2>4. V \subseteq Consumed'
    BY <1>3, <1>5, <2>1, <2>3 DEF Consumed
  <2>5. \A g \in Handlers : pc'[g] \notin Deciding
    BY <1>4, <1>7 DEF Deciding
  <2>6. CodesDeleted(V)'
    BY <2>2, <2>4, <2>5 DEF CodesDeleted, Deciding
  <2> QED BY <2>6 DEF OnceInv
<1> QED BY <1>6, <1>7

LEMMA OnceStep ==
  ASSUME ~MayFail("redis"), ~MayFail("crash"), serial,
         IInv, OnceInv, [Next]_vars
  PROVE  OnceInv'
<1>1. PICK U \in SUBSET Codes : CodesDeleted(U)
  BY DEF OnceInv
<1>2. CountInv(U, {"create"}, {}) /\ FlowInv(Forms, OwnLabels)
  BY <1>1 DEF CodesDeleted, IInv
<1>3. CASE Tick /\ UNCHANGED accounts
  <2>1. CountInv(U, {"create"}, {})'
    BY <1>2, <1>3, LabelsAside, TickCounts
  <2>2. CodesDeleted(U)'
    BY <1>1, <1>3, <2>1 DEF CodesDeleted, Consumed, Tick, handlers, history, accounts
  <2> QED BY <2>2 DEF OnceInv
<1>4. CASE UNCHANGED vars
  <2>1. CountInv(U, {"create"}, {})'
    BY <1>2, <1>4, StutterCounts DEF vars, flowVars, redis
  <2>2. CodesDeleted(U)'
    BY <1>1, <1>4, <2>1 DEF CodesDeleted, Consumed, vars, flowVars
  <2> QED BY <2>2 DEF OnceInv
<1>5. ASSUME OneAtATime', NEW h \in Handlers,
             \/ SignupStart(h) \/ SignupResend(h) \/ VerifyRefuses(h)
             \/ Crash(h) /\ UNCHANGED accounts
      PROVE  OnceInv'
  <2>1. UNCHANGED accounts
    BY <1>5 DEF SignupStart, SignupResend, VerifyRefuses
  <2>2. \/ FlowStart(h) \/ FlowResend(h) \/ FlowRefuse(h) \/ Crash(h)
        \/ \E e \in Keys, f \in Forms, c \in Codes : StartDraw(h, e, f, c)
    BY <1>5 DEF SignupStart, SignupResend, VerifyRefuses
  <2>3. CodesDeleted(U)'
    BY <1>1, <1>5, <2>1, <2>2, SharedOnce
  <2> QED BY <2>3 DEF OnceInv
<1>6. ASSUME OneAtATime', NEW h \in Handlers, VerifyAccepts(h) PROVE OnceInv'
  <2>1. CodesDeleted(U)'
    BY <1>1, <1>6, AcceptOnce
  <2> QED BY <2>1 DEF OnceInv
<1>7. ASSUME OneAtATime', NEW h \in Handlers, CreateUser(h) PROVE OnceInv'
  <2>1. /\ pc[h] = "create" /\ UNCHANGED <<now, redis, history>>
        /\ \/ account[held[h].key] = None /\ Goto(h, "clear")
           \/ account[held[h].key] # None /\ account' = account /\ Goto(h, "dupDel")
           \/ Return(h)
        /\ \/ account' = account
           \/ /\ account[held[h].key] = None
              /\ account' = [account EXCEPT ![held[h].key] = held[h].payload]
    BY <1>7 DEF CreateUser, KeycloakFails
  <2>2. \A e \in Keys : account[e] # None => account'[e] = account[e]
    BY <2>1 DEF IInv, TypeOK
  <2>3. pc[h] \in OwnLabels
    BY <2>1 DEF OwnLabels
  <2>4. PICK l \in {"dupDel", "clear", "idle"} :
            /\ (l # "idle" /\ Goto(h, l)) \/ (l = "idle" /\ Return(h))
            /\ l = "dupDel" => account'[held[h].key] # None
    BY <2>1
  <2> QED BY <1>7, <2>1, <2>2, <2>3, <2>4, OwnOnce
<1>8. ASSUME OneAtATime', NEW h \in Handlers, ClearRequiredActions(h) \/ AssignRealmRole(h)
      PROVE  OnceInv'
  <2>1. /\ pc[h] \in {"clear", "role"} /\ UNCHANGED <<now, redis, history, account>>
        /\ Goto(h, "role") \/ Goto(h, "okDel") \/ Return(h)
    BY <1>8 DEF ClearRequiredActions, AssignRealmRole, KeycloakFails, accounts
  <2>2. PICK l \in {"role", "okDel", "idle"} :
            (l # "idle" /\ Goto(h, l)) \/ (l = "idle" /\ Return(h))
    BY <2>1
  <2>3. pc[h] \in OwnLabels
    BY <2>1 DEF OwnLabels
  <2> QED BY <1>8, <2>1, <2>2, <2>3, OwnOnce
<1>9. ASSUME OneAtATime', NEW h \in Handlers, DuplicateDel(h) \/ OkDel(h) PROVE OnceInv'
  <2>1. /\ pc[h] \in {"dupDel", "okDel"} /\ UNCHANGED <<now, history, account>>
        /\ Delete(held[h].key)
        /\ Goto(h, "login") \/ Return(h)
    BY <1>9 DEF DuplicateDel, OkDel, DeleteIgnored, RedisFails, accounts
  <2>2. PICK l \in {"login", "idle"} : (l # "idle" /\ Goto(h, l)) \/ (l = "idle" /\ Return(h))
    BY <2>1
  <2>3. pc[h] \in OwnLabels
    BY <2>1 DEF OwnLabels
  <2> QED BY <1>9, <2>1, <2>2, <2>3, OwnOnce
<1>10. ASSUME OneAtATime', NEW h \in Handlers, Login(h) PROVE OnceInv'
  <2>1. /\ pc[h] = "login" /\ UNCHANGED <<now, redis, history, account>> /\ Return(h)
    BY <1>10 DEF Login
  <2>2. pc[h] \in OwnLabels
    BY <2>1 DEF OwnLabels
  <2> QED BY <1>10, <2>1, <2>2, OwnOnce
<1> QED
  BY <1>3, <1>4, <1>5, <1>6, <1>7, <1>8, <1>9, <1>10 DEF Next, AsServed, SignupVerify

LEMMA Once ==
  ASSUME "redis" \notin SerialFaults, "crash" \notin SerialFaults
  PROVE  Spec => [](serial => OnceInv)
<1> DEFINE I == serial => OnceInv
<1>1. Init => I
  <2> SUFFICES ASSUME Init PROVE OnceInv
    OBVIOUS
  <2>1. PICK U \in SUBSET Codes : U = {}
    OBVIOUS
  <2>2. CountInv(U, {"create"}, {})
    BY <2>1, InitCounts, LabelsAside DEF Init
  <2>3. CodesDeleted(U)
    BY <2>1, <2>2 DEF CodesDeleted, Init, FlowInit
  <2> QED BY <2>3 DEF OnceInv
<1>2. IInv /\ I /\ [Next]_vars => I'
  <2> SUFFICES ASSUME IInv, I, [Next]_vars, serial' PROVE OnceInv'
    OBVIOUS
  <2>1. serial
    BY DEF Next, AsServed, vars, flowVars
  <2>2. ~MayFail("redis") /\ ~MayFail("crash")
    BY <2>1 DEF MayFail
  <2> QED BY <2>1, <2>2, OnceStep
<1> QED BY <1>1, <1>2, Invariance, PTL DEF Spec

\* Served one at a time, and with Redis answering, an address that was promised a
\* code can finish its signup with it, whatever Keycloak failed at before.
THEOREM LatestUsable ==
  ASSUME "redis" \notin SerialFaults, "crash" \notin SerialFaults
  PROVE  Spec => []LatestCodeUsable
<1>1. IInv /\ (serial => OnceInv) => LatestCodeUsable
  <2> SUFFICES ASSUME IInv, OnceInv, \A h \in Handlers : pc[h] = "idle",
                      NEW k \in Keys, Usable(k, Consumed)
               PROVE  pend[k] # None /\ Accepted(pend[k], latest[k], now)
    BY DEF LatestCodeUsable, LatestUsableUnless
  <2>1. PICK U \in SUBSET Codes : CodesDeleted(U)
    BY DEF OnceInv
  <2>2. CountInv(U, {"create"}, {}) /\ Usable(k, U)
    BY <2>1 DEF CodesDeleted, Usable
  <2> QED BY <2>2, LabelsAside, UsableAccepted DEF IInv
<1> QED BY <1>1, Invariance, Once, PTL

\* Served one at a time, no signup allows more wrong guesses than the limit, not
\* even one that is verified again after Keycloak failed.
THEOREM AttemptsCapped ==
  ASSUME "redis" \notin SerialFaults, "crash" \notin SerialFaults
  PROVE  Spec => []AttemptCap
<1>1. (serial => OnceInv) => AttemptCap
  BY DEF OnceInv, CodesDeleted, CountInv, TriesCounted, AttemptCap
<1> QED BY <1>1, Once, PTL
=============================================================================
