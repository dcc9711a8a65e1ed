-------------------------- MODULE CredentialsProofs --------------------------
(***************************************************************************)
(* Proofs about Credentials for every set of accounts, passwords,          *)
(* handlers, codes and faults: its types, that neither a password nor a    *)
(* session comes from a code that was not mailed for it, that no code      *)
(* works after its time, and that it implements ConfirmedAccount. For      *)
(* requests served one at a time: that the three flows leave each          *)
(* other's codes alone, and that a code is used once but for a reset       *)
(* that failed.                                                            *)
(***************************************************************************)
EXTENDS Credentials, OtpFlowProofs

USE CredentialsAssumption

LEMMA InitInv == Init => IInv
<1> SUFFICES ASSUME Init PROVE IInv
  OBVIOUS
<1>1. FlowInv(Payload, OwnLabels)
  BY FlowInitInv DEF Init
<1>2. TypeOK
  BY <1>1 DEF FlowInv, TypeOK, Init
<1>3. /\ \A h \in Handlers : Entitled(h)
      /\ ChangesCarryPasswords /\ PasswordAsConfirmed /\ SessionsEarned
  BY DEF Init, FlowInit, Entitled, ChangesCarryPasswords, PasswordAsConfirmed, SessionsEarned,
         OwnLabels, LoginLabels, ResetLabels, ChangeLabels, Issued
<1> QED BY <1>1, <1>2, <1>3 DEF IInv

-----------------------------------------------------------------------------
(* The shared part of the invariant. *)

\* A step past verify: Redis is left alone, or the handler's key deleted.
LEMMA OwnKeeps ==
  ASSUME IInv, NEW h \in Handlers, pc[h] \in OwnLabels, NEW l \in OwnLabels,
         Goto(h, l) \/ Return(h), UNCHANGED redis \/ Delete(held[h].key),
         UNCHANGED <<now, history>>
  PROVE  FlowInv(Payload, OwnLabels)'
  BY DeleteKeeps DEF IInv, OwnLabels

\* An accepted code belongs to one flow and one user, and starts that flow's steps.
LEMMA AcceptedKeeps ==
  ASSUME IInv, NEW h \in Handlers, NEW flow \in Flows, NEW u \in Users,
         NEW code \in CanType(<<flow, u>>), NEW l \in OwnLabels,
         VerifyRight(h, <<flow, u>>, code, l)
  PROVE  FlowInv(Payload, OwnLabels)'
<1>1. <<flow, u>> \in Keys /\ l # "idle"
  BY DEF OwnLabels
<1> QED BY <1>1, RightKeeps DEF IInv

LEMMA FlowStep == IInv /\ [Next]_vars => FlowInv(Payload, OwnLabels)'
<1> SUFFICES ASSUME IInv, [Next]_vars PROVE FlowInv(Payload, OwnLabels)'
  OBVIOUS
<1>0. FlowInv(Payload, OwnLabels)
  BY DEF IInv
<1>1. CASE Tick
  BY <1>0, <1>1, TickKeeps
<1>2. ASSUME NEW h \in Handlers, Start(h) PROVE FlowInv(Payload, OwnLabels)'
  <2>1. ASSUME NEW u \in Users, NEW c \in Codes, NEW flow \in {"login", "reset"},
               EmailStart(h, flow, u, c)
        PROVE  FlowInv(Payload, OwnLabels)'
    BY <1>0, <2>1, StartDrawKeeps DEF EmailStart, Flows, Payload
  <2>2. ASSUME NEW u \in Users, NEW c \in Codes, NEW p \in Passwords, ChangeStart(h, u, p, c)
        PROVE  FlowInv(Payload, OwnLabels)'
    BY <1>0, <2>2, StartDrawKeeps DEF ChangeStart, Flows, Payload
  <2> QED BY <1>0, <1>2, <2>1, <2>2, FlowStartKeeps DEF Start
<1>3. ASSUME NEW h \in Handlers, Resend(h) \/ Refused(h) PROVE FlowInv(Payload, OwnLabels)'
  BY <1>0, <1>3, FlowResendKeeps, FlowRefuseKeeps DEF Resend, Refused
<1>4. ASSUME NEW h \in Handlers, LoginAccepted(h) \/ ResetAccepted(h) \/ ChangeAccepted(h)
      PROVE  FlowInv(Payload, OwnLabels)'
  BY <1>4, AcceptedKeeps DEF LoginAccepted, ResetAccepted, ChangeAccepted, Flows, OwnLabels
<1>5. ASSUME NEW h \in Handlers, LoginDel(h) \/ LoginFind(h) \/ LoginSession(h)
      PROVE  FlowInv(Payload, OwnLabels)'
  BY <1>5, OwnKeeps DEF LoginDel, LoginFind, LoginSession, DeleteIgnored, RedisFails, OwnLabels
<1>6. ASSUME NEW h \in Handlers, ResetFind(h) \/ ResetFindDel(h) \/ ResetSet(h)
      PROVE  FlowInv(Payload, OwnLabels)'
  BY <1>6, OwnKeeps DEF ResetFind, ResetFindDel, ResetSet, Back, DeleteIgnored, RedisFails, OwnLabels
<1>7. ASSUME NEW h \in Handlers, ResetDel(h) \/ ResetLogin(h)
      PROVE  FlowInv(Payload, OwnLabels)'
  BY <1>7, OwnKeeps DEF ResetDel, ResetLogin, Back, DeleteIgnored, RedisFails, OwnLabels
<1>8. ASSUME NEW h \in Handlers, ChangeDel(h) \/ ChangeSet(h)
      PROVE  FlowInv(Payload, OwnLabels)'
  BY <1>8, OwnKeeps DEF ChangeDel, ChangeSet, DeleteIgnored, RedisFails, OwnLabels
<1>9. ASSUME NEW h \in Handlers, Dies(h) PROVE FlowInv(Payload, OwnLabels)'
  BY <1>0, <1>9, CrashKeeps DEF Dies
<1>10. CASE UNCHANGED vars \/ \E u \in Users : Disable(u)
  BY <1>0, <1>10, StutterKeeps DEF vars, Disable
<1> QED
  BY <1>1, <1>2, <1>3, <1>4, <1>5, <1>6, <1>7, <1>8, <1>9, <1>10
  DEF Next, Login, Reset, Change

-----------------------------------------------------------------------------
(* The flows' own part of the invariant. *)

OwnType ==
    /\ password \in [Users -> Passwords]
    /\ enabled \subseteq Users
    /\ asked \in [Handlers -> Passwords \cup {None}]
    /\ sessions \subseteq Codes
    /\ confirmed \subseteq Users \X Passwords \X Codes
    /\ failed \subseteq Codes

Own == /\ OwnType
       /\ \A h \in Handlers : Entitled(h)
       /\ ChangesCarryPasswords
       /\ PasswordAsConfirmed
       /\ SessionsEarned

\* What a handler past its verify knows of the code it accepted.
LEMMA AcceptedHolds ==
  ASSUME IInv, NEW h \in Handlers, pc[h] \in OwnLabels
  PROVE  /\ UserOf(h) \in Users /\ held[h].key = <<held[h].key[1], UserOf(h)>>
         /\ typed[h] \in Issued /\ typed[h] \in Codes /\ typed[h] \in spent
         /\ issued[typed[h]].key = held[h].key
         /\ \E m \in mails : /\ m.code = typed[h] /\ m.to = held[h].key
                             /\ m.payload = held[h].payload
<1> USE DEF IInv, FlowInv
<1>1. typed[h] # None
  BY DEF Entitled
<1>2. held[h] # None /\ typed[h] = held[h].code /\ typed[h] \in spent
  BY <1>1 DEF AcceptedIsSpent
<1>3. held[h] \in Challenge(Payload) /\ Genuine(held[h])
  BY <1>2 DEF FlowType, CopiesGenuine
<1>4. held[h].key \in Flows \X Users
  BY <1>3 DEF Challenge
<1>5. PICK m \in mails : m.code = typed[h]
  BY <1>2 DEF SpentWasMailed
<1>6. /\ typed[h] \in Issued /\ issued[typed[h]].key = held[h].key
      /\ m.to = held[h].key /\ m.payload = held[h].payload
  BY <1>2, <1>3, <1>5 DEF Genuine, MailsGenuine
<1> QED BY <1>2, <1>4, <1>5, <1>6 DEF UserOf, Issued

\* What is confirmed, mailed and spent stays so, and with it the properties, as
\* long as no password and no session changes.
LEMMA HistoryGrows ==
  ASSUME IInv, mails \subseteq mails', spent \subseteq spent', confirmed \subseteq confirmed',
         \A c \in Issued : issued'[c] = issued[c],
         UNCHANGED <<password, sessions>>
  PROVE  PasswordAsConfirmed' /\ SessionsEarned'
<1>1. \A c \in spent : c \in Issued
  BY DEF IInv, FlowInv, SpentWasMailed, MailsGenuine
<1>2. PasswordAsConfirmed'
  BY DEF IInv, PasswordAsConfirmed
<1>3. SessionsEarned'
  BY <1>1 DEF IInv, SessionsEarned, FlowOf
<1> QED BY <1>2, <1>3

\* One handler's step leaves the others entitled.
LEMMA OthersEntitled ==
  ASSUME IInv, NEW h \in Handlers,
         \A g \in Handlers \ {h} : UNCHANGED <<pc[g], held[g], typed[g], asked[g]>>,
         confirmed \subseteq confirmed', Entitled(h)'
  PROVE  \A g \in Handlers : Entitled(g)'
  BY DEF IInv, Entitled, UserOf

\* A request at a shared label needs no title.
LEMMA SharedEntitled ==
  ASSUME NEW h \in Handlers, pc'[h] \in FlowLabels
  PROVE  Entitled(h)'
  BY DEF Entitled, FlowLabels, OwnLabels, LoginLabels, ResetLabels, ChangeLabels

\* A fresh draw leaves the earlier ones, and carries what its challenge holds.
LEMMA DrawAdds ==
  ASSUME IInv, NEW ch \in Challenge(Payload), ch.code \notin Issued, Issue(ch),
         ch.key[1] = "change" => ch.payload \in Passwords
  PROVE  /\ \A c \in Issued : issued'[c] = issued[c]
         /\ ChangesCarryPasswords'
<1>1. /\ Issued' = Issued \cup {ch.code}
      /\ issued'[ch.code] = ch
      /\ \A d \in Issued : issued'[d] = issued[d] /\ d # ch.code
  BY IssueKeeps DEF IInv, FlowInv
<1> QED BY <1>1 DEF IInv, ChangesCarryPasswords, FlowOf

\* The stored challenge of a change carries its password, and so does its rotation.
LEMMA RotationAdds ==
  ASSUME IInv, NEW h \in Handlers, NEW k \in Keys, NEW c \in Codes, ResendDraw(h, k, c)
  PROVE  /\ \A d \in Issued : issued'[d] = issued[d]
         /\ ChangesCarryPasswords'
<1>1. /\ pend[k] \in Challenge(Payload) /\ now \in Nat
      /\ Genuine(pend[k]) /\ pend[k].key = k
  BY DEF IInv, FlowInv, FlowType, CopiesGenuine, ResendDraw
<1> DEFINE ch == Rotate(pend[k], c)
<1>2. /\ ch \in Challenge(Payload) /\ ch.code = c /\ ch.key = k
      /\ ch.payload = pend[k].payload
  BY <1>1, DrawFields DEF Rotate
<1>3. k[1] = "change" => pend[k].payload \in Passwords
  BY <1>1 DEF Genuine, IInv, ChangesCarryPasswords, FlowOf
<1>4. c \notin Issued /\ Issue(ch)
  BY DEF ResendDraw
<1> HIDE DEF ch
<1> QED BY <1>2, <1>3, <1>4, DrawAdds

\* A step that draws nothing issues nothing.
LEMMA NothingIssued ==
  ASSUME IInv, issued' = issued
  PROVE  ChangesCarryPasswords' /\ \A c \in Issued : issued'[c] = issued[c]
  BY DEF IInv, ChangesCarryPasswords, FlowOf, Issued

\* A shared step changes nothing of the accounts.
LEMMA SharedKeeps ==
  ASSUME IInv, NEW h \in Handlers,
         FlowStart(h) \/ FlowResend(h) \/ FlowRefuse(h) \/ Crash(h),
         asked' \in {asked, [asked EXCEPT ![h] = None]},
         UNCHANGED <<accounts, sessions, confirmed, failed>>
  PROVE  Own'
<1>1. /\ \A g \in Handlers \ {h} : UNCHANGED <<pc[g], held[g], typed[g]>>
      /\ pc'[h] \in FlowLabels
      /\ spent' = spent /\ mails \subseteq mails'
      /\ issued' = issued \/ \E k \in Keys, c \in Codes : ResendDraw(h, k, c)
  BY FlowMovesOne DEF IInv
<1>2. OwnType' /\ \A g \in Handlers \ {h} : asked'[g] = asked[g]
  BY DEF IInv, TypeOK, OwnType, accounts
<1>3. ChangesCarryPasswords' /\ \A c \in Issued : issued'[c] = issued[c]
  BY <1>1, NothingIssued, RotationAdds
<1>4. \A g \in Handlers : Entitled(g)'
  BY <1>1, <1>2, SharedEntitled, OthersEntitled
<1>5. PasswordAsConfirmed' /\ SessionsEarned'
  BY <1>1, <1>3, HistoryGrows DEF accounts
<1> QED BY <1>2, <1>3, <1>4, <1>5 DEF Own

\* So does a Start's draw.
LEMMA StartKeeps ==
  ASSUME IInv, NEW h \in Handlers, NEW k \in Keys, NEW p \in Payload, NEW c \in Codes,
         StartDraw(h, k, p, c), k[1] = "change" => p \in Passwords, UNCHANGED ownVars
  PROVE  Own'
<1>1. now \in Nat
  BY DEF IInv, FlowInv, FlowType
<1> DEFINE ch == NewChallenge(k, p, c)
<1>2. ch \in Challenge(Payload) /\ ch.code = c /\ ch.key = k /\ ch.payload = p
  BY <1>1, NewFields
<1>3. c \notin Issued /\ Issue(ch)
  BY DEF StartDraw
<1> HIDE DEF ch
<1>4. ChangesCarryPasswords' /\ \A d \in Issued : issued'[d] = issued[d]
  BY <1>2, <1>3, DrawAdds
<1>5. /\ \A g \in Handlers \ {h} : UNCHANGED <<pc[g], held[g], typed[g], asked[g]>>
      /\ pc'[h] \in FlowLabels
      /\ mails' = mails /\ spent' = spent
  BY DEF StartDraw, IInv, FlowInv, FlowType, FlowLabels, ownVars
<1>6. OwnType' /\ confirmed' = confirmed /\ UNCHANGED <<password, sessions>>
  BY DEF IInv, TypeOK, OwnType, ownVars
<1>7. \A g \in Handlers : Entitled(g)'
  BY <1>5, <1>6, SharedEntitled, OthersEntitled
<1>8. PasswordAsConfirmed' /\ SessionsEarned'
  BY <1>4, <1>5, <1>6, HistoryGrows
<1> QED BY <1>4, <1>6, <1>7, <1>8 DEF Own

\* What an accepted code hands to its handler.
LEMMA RightHands ==
  ASSUME IInv, NEW h \in Handlers, NEW flow \in Flows, NEW u \in Users,
         NEW code \in CanType(<<flow, u>>), NEW l, VerifyRight(h, <<flow, u>>, code, l)
  PROVE  /\ pc'[h] = l /\ typed'[h] = code /\ code \in Codes /\ code # None
         /\ held'[h].key = <<flow, u>> /\ UserOf(h)' = u
         /\ held'[h].payload = pend[<<flow, u>>].payload
         /\ flow = "change" => pend[<<flow, u>>].payload \in Passwords
<1> DEFINE k == <<flow, u>>
<1>1. k \in Keys /\ k[1] = flow /\ k[2] = u
  OBVIOUS
<1> HIDE DEF k
<1>2. VerifyRight(h, k, code, l) /\ code \in CanType(k)
  BY DEF k
<1>3. /\ pend[k] \in Challenge(Payload) /\ Genuine(pend[k]) /\ pend[k].key = k
      /\ code \in Codes
  <2>1. code \in Codes
    BY <1>1, <1>2, RightMeans DEF IInv
  <2> QED BY <1>1, <1>2, <2>1 DEF VerifyRight, IInv, FlowInv, FlowType, CopiesGenuine
<1>4. /\ pc'[h] = l /\ typed'[h] = code /\ held'[h] = Counted(pend[k])
  BY <1>2 DEF VerifyRight, IInv, FlowInv, FlowType
<1>5. Counted(pend[k]).key = k /\ Counted(pend[k]).payload = pend[k].payload
  BY <1>3, CountedFields
<1>6. flow = "change" => pend[k].payload \in Passwords
  BY <1>1, <1>3 DEF Genuine, IInv, ChangesCarryPasswords, FlowOf
<1>7. UserOf(h)' = u
  BY <1>1, <1>4, <1>5 DEF UserOf
<1> QED BY <1>3, <1>4, <1>5, <1>6, <1>7, FlowAssumption DEF k

\* An accepted code changes no account yet.
LEMMA AcceptedLeaves ==
  ASSUME IInv, NEW h \in Handlers, NEW flow \in Flows, NEW u \in Users,
         NEW code \in CanType(<<flow, u>>), NEW l, VerifyRight(h, <<flow, u>>, code, l),
         confirmed \subseteq confirmed', OwnType', Entitled(h)',
         \A g \in Handlers \ {h} : asked'[g] = asked[g],
         UNCHANGED <<password, sessions>>
  PROVE  Own'
<1>1. /\ \A g \in Handlers \ {h} : UNCHANGED <<pc[g], held[g], typed[g]>>
      /\ mails' = mails /\ spent \subseteq spent' /\ issued' = issued
  BY DEF VerifyRight, IInv, FlowInv, FlowType, draws
<1>2. ChangesCarryPasswords' /\ \A c \in Issued : issued'[c] = issued[c]
  BY <1>1, NothingIssued
<1>3. \A g \in Handlers : Entitled(g)'
  BY <1>1, OthersEntitled
<1>4. PasswordAsConfirmed' /\ SessionsEarned'
  BY <1>1, <1>2, HistoryGrows
<1> QED BY <1>2, <1>3, <1>4 DEF Own

\* The three verifies.
LEMMA AcceptStep ==
  ASSUME IInv, NEW h \in Handlers, LoginAccepted(h) \/ ResetAccepted(h) \/ ChangeAccepted(h)
  PROVE  Own'
<1> USE DEF IInv, TypeOK
<1>1. CASE LoginAccepted(h)
  <2>1. PICK u \in Users : \E code \in CanType(<<"login", u>>) :
                              VerifyRight(h, <<"login", u>>, code, "loginDel")
    BY <1>1 DEF LoginAccepted
  <2>2. PICK code \in CanType(<<"login", u>>) : VerifyRight(h, <<"login", u>>, code, "loginDel")
    BY <2>1
  <2>3. UNCHANGED ownVars
    BY <1>1 DEF LoginAccepted
  <2>4. pc'[h] = "loginDel" /\ typed'[h] # None /\ held'[h].key = <<"login", u>>
    BY <2>2, RightHands DEF Flows
  <2>5. Entitled(h)'
    BY <2>4 DEF Entitled, LoginLabels, ResetLabels, ChangeLabels
  <2>6. OwnType'
    BY <2>3 DEF OwnType, ownVars
  <2> QED BY <2>2, <2>3, <2>5, <2>6, AcceptedLeaves DEF ownVars, Flows
<1>2. CASE ResetAccepted(h)
  <2>1. PICK u \in Users, p \in Passwords : \E code \in CanType(<<"reset", u>>) :
              /\ VerifyRight(h, <<"reset", u>>, code, "resetFind")
              /\ asked' = [asked EXCEPT ![h] = p]
              /\ confirmed' = confirmed \cup {<<u, p, code>>}
              /\ UNCHANGED <<accounts, sessions, failed>>
    BY <1>2 DEF ResetAccepted
  <2>2. PICK code \in CanType(<<"reset", u>>) :
              /\ VerifyRight(h, <<"reset", u>>, code, "resetFind")
              /\ asked' = [asked EXCEPT ![h] = p]
              /\ confirmed' = confirmed \cup {<<u, p, code>>}
              /\ UNCHANGED <<accounts, sessions, failed>>
    BY <2>1
  <2>3. /\ pc'[h] = "resetFind" /\ typed'[h] = code /\ code \in Codes /\ code # None
        /\ held'[h].key = <<"reset", u>> /\ UserOf(h)' = u
    BY <2>2, RightHands DEF Flows
  <2>4. /\ asked'[h] = p /\ \A g \in Handlers \ {h} : asked'[g] = asked[g]
    BY <2>2
  <2>5. Entitled(h)'
    BY <2>2, <2>3, <2>4 DEF Entitled, LoginLabels, ResetLabels, ChangeLabels
  <2>6. OwnType'
    BY <2>2, <2>3 DEF OwnType, accounts
  <2> QED BY <2>2, <2>4, <2>5, <2>6, AcceptedLeaves DEF accounts, Flows
<1>3. CASE ChangeAccepted(h)
  <2>1. PICK u \in Users : \E code \in CanType(<<"change", u>>) :
              /\ VerifyRight(h, <<"change", u>>, code, "changeDel")
              /\ confirmed' = confirmed \cup {<<u, pend[<<"change", u>>].payload, code>>}
              /\ UNCHANGED <<accounts, asked, sessions, failed>>
    BY <1>3 DEF ChangeAccepted
  <2>2. PICK code \in CanType(<<"change", u>>) :
              /\ VerifyRight(h, <<"change", u>>, code, "changeDel")
              /\ confirmed' = confirmed \cup {<<u, pend[<<"change", u>>].payload, code>>}
              /\ UNCHANGED <<accounts, asked, sessions, failed>>
    BY <2>1
  <2>3. /\ pc'[h] = "changeDel" /\ typed'[h] = code /\ code \in Codes /\ code # None
        /\ held'[h].key = <<"change", u>> /\ UserOf(h)' = u
        /\ held'[h].payload = pend[<<"change", u>>].payload
        /\ pend[<<"change", u>>].payload \in Passwords
    BY <2>2, RightHands DEF Flows
  <2>4. Entitled(h)'
    BY <2>2, <2>3 DEF Entitled, LoginLabels, ResetLabels, ChangeLabels
  <2>5. OwnType'
    BY <2>2, <2>3 DEF OwnType, accounts
  <2> QED BY <2>2, <2>4, <2>5, AcceptedLeaves DEF accounts, Flows
<1> QED BY <1>1, <1>2, <1>3

\* A request goes on within its flow, or returns.
LEMMA MoveEntitled ==
  ASSUME IInv, NEW h \in Handlers, NEW l,
         \/ Goto(h, l) /\ asked' = asked
            /\ \E L \in {LoginLabels, ResetLabels, ChangeLabels} : pc[h] \in L /\ l \in L
         \/ Return(h) /\ asked' \in {asked, [asked EXCEPT ![h] = None]},
         UNCHANGED <<history, confirmed>>
  PROVE  ChangesCarryPasswords' /\ \A g \in Handlers : Entitled(g)'
<1>1. ChangesCarryPasswords'
  BY NothingIssued DEF history
<1>2. \A g \in Handlers \ {h} : UNCHANGED <<pc[g], held[g], typed[g], asked[g]>>
  BY DEF IInv, TypeOK, FlowType, Goto, Return
<1>3. CASE Goto(h, l) /\ asked' = asked
           /\ \E L \in {LoginLabels, ResetLabels, ChangeLabels} : pc[h] \in L /\ l \in L
  <2>1. /\ pc'[h] = l /\ UNCHANGED <<held, typed, asked, confirmed>>
    BY <1>3 DEF IInv, TypeOK, FlowType, Goto
  <2>2. Entitled(h)
    BY DEF IInv
  <2>3. Entitled(h)'
    BY <1>3, <2>1, <2>2
    DEF Entitled, UserOf, OwnLabels, LoginLabels, ResetLabels, ChangeLabels
  <2> QED BY <1>1, <1>2, <2>3, OthersEntitled
<1>4. CASE Return(h)
  <2>1. pc'[h] \in FlowLabels
    BY <1>4 DEF IInv, TypeOK, FlowType, Return, FlowLabels
  <2> QED BY <1>1, <1>2, <2>1, SharedEntitled, OthersEntitled
<1> QED BY <1>3, <1>4

\* A session is opened by a request that accepted a sign-in or reset code.
LEMMA SessionOpened ==
  ASSUME IInv, NEW h \in Handlers, pc[h] \in LoginLabels \cup ResetLabels,
         sessions' \in {sessions, sessions \cup {typed[h]}}, UNCHANGED <<history, confirmed>>
  PROVE  SessionsEarned' /\ sessions' \subseteq Codes
<1>1. /\ UserOf(h) \in Users /\ held[h].key = <<held[h].key[1], UserOf(h)>>
      /\ typed[h] \in Codes /\ typed[h] \in spent
      /\ issued[typed[h]].key = held[h].key
      /\ \E m \in mails : m.code = typed[h] /\ m.to = held[h].key
  BY AcceptedHolds DEF OwnLabels, LoginLabels, ResetLabels
<1>2. \/ held[h].key[1] = "login"
      \/ /\ held[h].key[1] = "reset" /\ asked[h] \in Passwords
         /\ <<UserOf(h), asked[h], typed[h]>> \in confirmed
  BY DEF IInv, Entitled
<1>3. \/ FlowOf(typed[h]) = "login"
      \/ /\ FlowOf(typed[h]) = "reset"
         /\ \E t \in confirmed : t[1] = issued[typed[h]].key[2] /\ t[3] = typed[h]
  BY <1>1, <1>2 DEF FlowOf
<1>4. SessionsEarned
  BY DEF IInv
<1>5. SessionsEarned'
  BY <1>1, <1>3, <1>4 DEF SessionsEarned, FlowOf, history
<1> QED BY <1>1, <1>5 DEF IInv, TypeOK

\* A password is set by a request that accepted a code confirming it.
LEMMA PasswordSet ==
  ASSUME IInv, NEW h \in Handlers, NEW p,
         \/ pc[h] \in ResetLabels /\ p = asked[h]
         \/ pc[h] \in ChangeLabels /\ p = held[h].payload,
         SetPassword(UserOf(h), p) \/ UNCHANGED password, UNCHANGED <<history, confirmed>>
  PROVE  PasswordAsConfirmed' /\ password' \in [Users -> Passwords]
<1> DEFINE u == UserOf(h)
<1>1. PICK m \in mails : m.code = typed[h] /\ m.to = held[h].key /\ m.payload = held[h].payload
  BY AcceptedHolds DEF OwnLabels, ResetLabels, ChangeLabels
<1>2. u \in Users /\ held[h].key = <<held[h].key[1], u>> /\ typed[h] \in spent
  BY AcceptedHolds DEF OwnLabels, ResetLabels, ChangeLabels
<1>3. p \in Passwords /\ <<u, p, typed[h]>> \in confirmed
  BY DEF IInv, Entitled
<1>4. \/ held[h].key[1] = "reset"
      \/ held[h].key[1] = "change" /\ p = held[h].payload
  BY DEF IInv, Entitled
<1>5. /\ m \in mails' /\ m.code \in spent' /\ m.to \in {<<"reset", u>>, <<"change", u>>}
      /\ m.to[1] = "change" => m.payload = p
      /\ <<u, p, m.code>> \in confirmed'
  BY <1>1, <1>2, <1>3, <1>4 DEF history
<1>6. password \in [Users -> Passwords] /\ PasswordAsConfirmed
  BY DEF IInv, TypeOK
<1> HIDE DEF u
<1>7. \/ password' = password
      \/ password' = [password EXCEPT ![u] = p]
  BY DEF SetPassword, u
<1>8. \A v \in Users : password'[v] = password[v] \/ (v = u /\ password'[v] = p)
  BY <1>6, <1>7
<1>9. PasswordAsConfirmed'
  <2> SUFFICES ASSUME NEW v \in Users, password'[v] # FirstPassword[v]
               PROVE  \E n \in mails' :
                        /\ n.code \in spent'
                        /\ n.to \in {<<"reset", v>>, <<"change", v>>}
                        /\ n.to[1] = "change" => n.payload = password'[v]
                        /\ <<v, password'[v], n.code>> \in confirmed'
    BY DEF PasswordAsConfirmed
  <2>1. CASE v = u /\ password'[v] = p
    BY <1>5, <2>1
  <2>2. CASE password'[v] = password[v]
    BY <1>6, <2>2 DEF PasswordAsConfirmed, history
  <2> QED BY <1>8, <2>1, <2>2
<1> QED BY <1>2, <1>3, <1>6, <1>7, <1>9

\* The remaining steps of the three flows.
LEMMA WorkStep ==
  ASSUME IInv, NEW h \in Handlers,
         \/ LoginDel(h) \/ LoginFind(h) \/ LoginSession(h)
         \/ ResetFind(h) \/ ResetFindDel(h) \/ ResetSet(h) \/ ResetDel(h) \/ ResetLogin(h)
         \/ ChangeDel(h) \/ ChangeSet(h)
  PROVE  Own'
<1>0. OwnType /\ PasswordAsConfirmed /\ SessionsEarned /\ (typed[h] \in Codes \cup {None})
  BY DEF IInv, TypeOK, OwnType, FlowType
<1>1. /\ UNCHANGED <<history, confirmed, enabled>>
      /\ asked' \in {asked, [asked EXCEPT ![h] = None]}
  BY DEF LoginDel, LoginFind, LoginSession, ResetFind, ResetFindDel, ResetSet, ResetDel,
         ResetLogin, ChangeDel, ChangeSet, Back, ownVars, accounts
<1>2. ChangesCarryPasswords' /\ \A g \in Handlers : Entitled(g)'
  <2> USE <1>1, MoveEntitled
  <2>1. CASE LoginDel(h) \/ LoginFind(h) \/ LoginSession(h)
    BY <2>1 DEF LoginDel, LoginFind, LoginSession, LoginLabels, ownVars
  <2>2. CASE ResetFind(h) \/ ResetFindDel(h) \/ ResetSet(h)
    BY <2>2 DEF ResetFind, ResetFindDel, ResetSet, ResetLabels, Back, ownVars
  <2>3. CASE ResetDel(h) \/ ResetLogin(h)
    BY <2>3 DEF ResetDel, ResetLogin, ResetLabels, Back, ownVars
  <2>4. CASE ChangeDel(h) \/ ChangeSet(h)
    BY <2>4 DEF ChangeDel, ChangeSet, ChangeLabels, ownVars
  <2> QED BY <2>1, <2>2, <2>3, <2>4
<1>3. SessionsEarned' /\ sessions' \subseteq Codes
  <2>1. CASE LoginSession(h) \/ ResetLogin(h)
    BY <1>1, <2>1, SessionOpened DEF LoginSession, ResetLogin, LoginLabels, ResetLabels
  <2>2. CASE sessions' = sessions
    BY <1>0, <1>1, <2>2 DEF SessionsEarned, FlowOf, history, OwnType
  <2>3. sessions' = sessions \/ LoginSession(h) \/ ResetLogin(h)
    BY DEF LoginDel, LoginFind, ResetFind, ResetFindDel, ResetSet, ResetDel,
           ChangeDel, ChangeSet, ownVars
  <2> QED BY <2>1, <2>2, <2>3
<1>4. PasswordAsConfirmed' /\ password' \in [Users -> Passwords]
  <2>1. CASE ResetSet(h)
    BY <1>1, <2>1, PasswordSet DEF ResetSet, ResetLabels
  <2>2. CASE ChangeSet(h)
    BY <1>1, <2>2, PasswordSet DEF ChangeSet, ChangeLabels
  <2>3. CASE password' = password
    BY <1>0, <1>1, <2>3 DEF PasswordAsConfirmed, history, OwnType
  <2>4. password' = password \/ ResetSet(h) \/ ChangeSet(h)
    BY DEF LoginDel, LoginFind, LoginSession, ResetFind, ResetFindDel, ResetDel,
           ResetLogin, ChangeDel, ownVars, accounts
  <2> QED BY <2>1, <2>2, <2>3, <2>4
<1>5. failed' \subseteq Codes
  <2>1. typed[h] \in Codes
    BY AcceptedHolds
    DEF OwnLabels, LoginDel, LoginFind, LoginSession, ResetFind, ResetFindDel, ResetSet,
        ResetDel, ResetLogin, ChangeDel, ChangeSet
  <2> QED BY <1>0, <2>1
      DEF LoginDel, LoginFind, LoginSession, ResetFind, ResetFindDel, ResetSet, ResetDel,
          ResetLogin, ChangeDel, ChangeSet, ownVars, OwnType
<1> QED BY <1>0, <1>1, <1>2, <1>3, <1>4, <1>5 DEF Own, OwnType

LEMMA OwnStep == IInv /\ [Next]_vars => Own'
<1> SUFFICES ASSUME IInv, [Next]_vars PROVE Own'
  OBVIOUS
<1>1. ASSUME NEW h \in Handlers, Start(h) PROVE Own'
  <2>0. UNCHANGED ownVars
    BY <1>1 DEF Start
  <2>1. ASSUME NEW u \in Users, NEW c \in Codes, NEW flow \in {"login", "reset"},
               EmailStart(h, flow, u, c)
        PROVE  Own'
    BY <2>0, <2>1, StartKeeps DEF EmailStart, Flows, Payload
  <2>2. ASSUME NEW u \in Users, NEW c \in Codes, NEW p \in Passwords, ChangeStart(h, u, p, c)
        PROVE  Own'
    BY <2>0, <2>2, StartKeeps DEF ChangeStart, Flows, Payload
  <2>3. CASE FlowStart(h)
    BY <2>0, <2>3, SharedKeeps DEF ownVars, accounts
  <2> QED BY <1>1, <2>1, <2>2, <2>3 DEF Start
<1>2. ASSUME NEW h \in Handlers, Resend(h) \/ Refused(h) PROVE Own'
  BY <1>2, SharedKeeps DEF Resend, Refused, ownVars, accounts
<1>3. ASSUME NEW h \in Handlers, Dies(h) PROVE Own'
  BY <1>3, SharedKeeps DEF Dies
<1>4. CASE UNCHANGED <<issued, mails, spent, pc, held, typed, password, asked, sessions,
                       confirmed, failed>> /\ enabled' \subseteq enabled
  <2>1. OwnType'
    BY <1>4 DEF IInv, TypeOK, OwnType
  <2>2. ChangesCarryPasswords' /\ \A c \in Issued : issued'[c] = issued[c]
    BY <1>4, NothingIssued
  <2>3. \A h \in Handlers : Entitled(h)'
    BY <1>4 DEF IInv, Entitled, UserOf
  <2>4. PasswordAsConfirmed' /\ SessionsEarned'
    BY <1>4, <2>2, HistoryGrows
  <2> QED BY <2>1, <2>2, <2>3, <2>4 DEF Own
<1>5. CASE (Tick /\ UNCHANGED ownVars) \/ (\E u \in Users : Disable(u)) \/ UNCHANGED vars
  BY <1>4, <1>5 DEF Tick, Disable, vars, flowVars, ownVars, handlers, history
<1> QED BY <1>1, <1>2, <1>3, <1>5, AcceptStep, WorkStep DEF Next, Login, Reset, Change

LEMMA Inductive == IInv /\ [Next]_vars => IInv'
  BY FlowStep, OwnStep DEF IInv, Own, OwnType, TypeOK, FlowInv

LEMMA Invariance == Spec => []IInv
<1> QED BY Inductive, InitInv, PTL DEF Spec

-----------------------------------------------------------------------------
(* The theorems. *)

\* Every variable of the three flows keeps its type.
THEOREM TypeCorrect == Spec => []TypeOK
<1>1. IInv => TypeOK
  BY DEF IInv
<1> QED BY <1>1, Invariance, PTL

\* An account's password is the one it started with or one confirmed with a
\* code mailed to that account for a reset or a change, whatever requests
\* overlap, whichever calls fail or report an error after their effect.
THEOREM PasswordsConfirmed == Spec => []PasswordAsConfirmed
<1>1. IInv => PasswordAsConfirmed
  BY DEF IInv
<1> QED BY <1>1, Invariance, PTL

\* Every session opened by code rests on a sign-in or reset code its account
\* was mailed and typed back.
THEOREM SessionsRestOnCodes == Spec => []SessionsEarned
<1>1. IInv => SessionsEarned
  BY DEF IInv
<1> QED BY <1>1, Invariance, PTL

-----------------------------------------------------------------------------
(* Implementation of ConfirmedAccount. *)

LEMMA PasswordInit == Init => Passworded!Init
  BY DEF Init, FlowInit, Passworded!Init

\* A mail offers its owner what its flow lets a code confirm.
LEMMA MailOffers ==
  ASSUME NEW m \in [to : Keys, code : Codes, payload : Payload],
         m.to[1] = "change" => m.payload \in Passwords
  PROVE  /\ OfferOf(m) \in Passworded!Offer
         /\ \A n \in mails : OfferOf(n).code = OfferOf(m).code => n.code = m.code
<1>1. m.to[1] \in Flows /\ m.to[2] \in Users /\ m.code \in Codes
  OBVIOUS
<1>2. OfferOf(m).values \in SUBSET Passwords
  BY <1>1 DEF OfferOf, Flows
<1> QED BY <1>1, <1>2 DEF OfferOf, Passworded!Offer

LEMMA PasswordStep == IInv /\ [Next]_vars => [Passworded!Next]_(Passworded!owned)
<1> SUFFICES ASSUME IInv, [Next]_vars PROVE Passworded!Next \/ UNCHANGED Passworded!owned
  BY DEF Passworded!owned
<1> USE DEF Passworded!owned
<1>0. FlowInv(Payload, OwnLabels) /\ IInv'
  BY Inductive DEF IInv
<1>1. ASSUME UNCHANGED <<mails, confirmed, password>> PROVE UNCHANGED Passworded!owned
  BY <1>1
<1>2. ASSUME NEW h \in Handlers, FlowStart(h) \/ FlowResend(h), UNCHANGED <<confirmed, password>>
      PROVE  Passworded!Next \/ UNCHANGED Passworded!owned
  <2>1. CASE mails' = mails
    BY <1>1, <1>2, <2>1
  <2>2. ASSUME NEW m \in [to : Keys, code : Codes, payload : Payload],
               mails' = mails \cup {m}, \A n \in mails : n.code = m.code => n = m
        PROVE  Passworded!Next
    <3>1. m.to[1] = "change" => m.payload \in Passwords
      BY <1>0, <2>2 DEF IInv, FlowInv, MailsGenuine, ChangesCarryPasswords, FlowOf
    <3>2. /\ OfferOf(m) \in Passworded!Offer
          /\ \A n \in mails : OfferOf(n).code = OfferOf(m).code => n.code = m.code
      BY <3>1, MailOffers
    <3>3. \A o \in {OfferOf(n) : n \in mails} : o.code = OfferOf(m).code => o = OfferOf(m)
      BY <2>2, <3>2
    <3>4. {OfferOf(n) : n \in mails}' = {OfferOf(n) : n \in mails} \cup {OfferOf(m)}
      BY <2>2 DEF OfferOf
    <3> QED BY <1>2, <3>2, <3>3, <3>4 DEF Passworded!Next, Passworded!Announce
  <2> QED BY <1>0, <1>2, <2>1, <2>2, FlowMails
<1>3. ASSUME NEW h \in Handlers, Start(h) PROVE Passworded!Next \/ UNCHANGED Passworded!owned
  <2>1. \/ FlowStart(h)
        \/ \E k \in Keys, p \in Payload, c \in Codes : StartDraw(h, k, p, c)
    BY <1>3 DEF Start, EmailStart, ChangeStart, Flows, Payload
  <2>2. CASE \E k \in Keys, p \in Payload, c \in Codes : StartDraw(h, k, p, c)
    BY <1>0, <1>1, <1>3, <2>2, OthersMailNothing DEF Start, ownVars
  <2> QED BY <1>2, <1>3, <2>1, <2>2 DEF Start, ownVars
<1>4. ASSUME NEW h \in Handlers, Resend(h) PROVE Passworded!Next \/ UNCHANGED Passworded!owned
  BY <1>2, <1>4 DEF Resend, ownVars
<1>5. ASSUME NEW h \in Handlers, Refused(h) \/ Dies(h) \/ LoginAccepted(h)
      PROVE  UNCHANGED Passworded!owned
  BY <1>0, <1>1, <1>5, OthersMailNothing
  DEF Refused, Dies, LoginAccepted, VerifyRight, ownVars, accounts, draws
<1>6. ASSUME NEW h \in Handlers, ResetAccepted(h) PROVE Passworded!Next
  <2>1. PICK u \in Users, p \in Passwords :
               \E code \in CanType(<<"reset", u>>) :
                  /\ VerifyRight(h, <<"reset", u>>, code, "resetFind")
                  /\ confirmed' = confirmed \cup {<<u, p, code>>}
                  /\ UNCHANGED accounts
    BY <1>6 DEF ResetAccepted
  <2>2. PICK code \in CanType(<<"reset", u>>) :
                  /\ VerifyRight(h, <<"reset", u>>, code, "resetFind")
                  /\ confirmed' = confirmed \cup {<<u, p, code>>}
                  /\ UNCHANGED accounts
    BY <2>1
  <2>3. PICK m \in mails : m.code = code /\ m.to = <<"reset", u>>
    BY <1>0, <2>2, RightMeans DEF Flows
  <2>4. OfferOf(m).owner = u /\ OfferOf(m).code = code /\ p \in OfferOf(m).values
    BY <2>3 DEF OfferOf
  <2>5. Passworded!Confirm(OfferOf(m), p)
    BY <2>2, <2>4 DEF Passworded!Confirm, VerifyRight, accounts
  <2> QED BY <2>4, <2>5 DEF Passworded!Next
<1>7. ASSUME NEW h \in Handlers, ChangeAccepted(h) PROVE Passworded!Next
  <2>1. PICK u \in Users :
               \E code \in CanType(<<"change", u>>) :
                  /\ VerifyRight(h, <<"change", u>>, code, "changeDel")
                  /\ confirmed' = confirmed \cup {<<u, pend[<<"change", u>>].payload, code>>}
                  /\ UNCHANGED accounts
    BY <1>7 DEF ChangeAccepted
  <2>2. PICK code \in CanType(<<"change", u>>) :
                  /\ VerifyRight(h, <<"change", u>>, code, "changeDel")
                  /\ confirmed' = confirmed \cup {<<u, pend[<<"change", u>>].payload, code>>}
                  /\ UNCHANGED accounts
    BY <2>1
  <2> DEFINE p == pend[<<"change", u>>].payload
  <2>3. PICK m \in mails : m.code = code /\ m.to = <<"change", u>>
    BY <1>0, <2>2, RightMeans DEF Flows
  <2>4. m.payload = p
    <3>1. Genuine(pend[<<"change", u>>]) /\ code = pend[<<"change", u>>].code
      BY <1>0, <2>2, RightMeans DEF Flows
    <3> QED BY <1>0, <2>3, <3>1 DEF Genuine, FlowInv, MailsGenuine
  <2>5. OfferOf(m).owner = u /\ OfferOf(m).code = code /\ p \in OfferOf(m).values
    BY <2>3, <2>4 DEF OfferOf
  <2>6. Passworded!Confirm(OfferOf(m), p)
    BY <2>2, <2>5 DEF Passworded!Confirm, VerifyRight, accounts
  <2> QED BY <2>5, <2>6 DEF Passworded!Next
<1>8. ASSUME NEW h \in Handlers, ResetSet(h) \/ ChangeSet(h)
      PROVE  Passworded!Next \/ UNCHANGED Passworded!owned
  <2>1. UNCHANGED <<mails, confirmed>>
    BY <1>8 DEF ResetSet, ChangeSet, history
  <2>2. ASSUME NEW p, <<UserOf(h), p, typed[h]>> \in confirmed, SetPassword(UserOf(h), p)
        PROVE  Passworded!Next
    <3>1. Passworded!Set(<<UserOf(h), p, typed[h]>>)
      BY <2>1, <2>2 DEF Passworded!Set, SetPassword
    <3> QED BY <2>2, <3>1 DEF Passworded!Next
  <2>3. CASE ResetSet(h)
    <3>1. <<UserOf(h), asked[h], typed[h]>> \in confirmed
      BY <2>3 DEF ResetSet, IInv, Entitled, ResetLabels
    <3>2. SetPassword(UserOf(h), asked[h]) \/ UNCHANGED password
      BY <2>3 DEF ResetSet
    <3> QED BY <1>1, <2>1, <2>2, <3>1, <3>2
  <2>4. CASE ChangeSet(h)
    <3>1. <<UserOf(h), held[h].payload, typed[h]>> \in confirmed
      BY <2>4 DEF ChangeSet, IInv, Entitled, ChangeLabels
    <3>2. SetPassword(UserOf(h), held[h].payload) \/ UNCHANGED password
      BY <2>4 DEF ChangeSet
    <3> QED BY <1>1, <2>1, <2>2, <3>1, <3>2
  <2> QED BY <1>8, <2>3, <2>4
<1>9. ASSUME NEW h \in Handlers,
             \/ LoginDel(h) \/ LoginFind(h) \/ LoginSession(h)
             \/ ResetFind(h) \/ ResetFindDel(h) \/ ResetDel(h) \/ ResetLogin(h)
             \/ ChangeDel(h)
      PROVE  UNCHANGED Passworded!owned
  BY <1>1, <1>9
  DEF LoginDel, LoginFind, LoginSession, ResetFind, ResetFindDel, ResetDel, ResetLogin,
      ChangeDel, ownVars, accounts, history
<1>10. CASE (Tick /\ UNCHANGED ownVars) \/ (\E u \in Users : Disable(u)) \/ UNCHANGED vars
  BY <1>1, <1>10 DEF Tick, Disable, vars, flowVars, ownVars, history
<1> QED
  BY <1>3, <1>4, <1>5, <1>6, <1>7, <1>8, <1>9, <1>10 DEF Next, Login, Reset, Change

\* The three flows implement ConfirmedAccount: every step mails an offer, confirms what
\* a mail offered, sets a password to one its account confirmed, or changes none of it.
THEOREM ImplementsConfirmed == Spec => PasswordSpec
<1> QED
  BY PasswordInit, PasswordStep, Invariance, PTL DEF Spec, PasswordSpec, Passworded!Spec

-----------------------------------------------------------------------------
(* Requests one at a time, Redis answering and no process dying: what a user *)
(* is promised of a code.                                                    *)

LEMMA LabelsAside == OwnAside(Deleting, Keeping)
  BY DEF OwnAside, FlowLabels, Deleting, Keeping

\* CountInv of the codes used up, and of a set that names the same.
LEMMA UsedSame ==
  ASSUME NEW U
  PROVE  /\ U = spent \ failed /\ CountInv(spent \ failed, Deleting, Keeping)
               => CountInv(U, Deleting, Keeping)
         /\ U = (spent \ failed)' /\ CountInv(U, Deleting, Keeping)'
               => CountInv(spent \ failed, Deleting, Keeping)'
  BY DEF CountInv, TriesCounted, StoredCounts, UsableStored, Usable, HeldCounts

\* A step of the shared part, or an administrator's.
LEMMA FailedStay ==
  ASSUME FailedAreResets, failed' = failed,
         \A c \in Issued : c \in Issued' /\ issued'[c] = issued[c],
         \A h \in Handlers : /\ pc'[h] \in {"resetDel", "resetLogin"}
                                => pc[h] \in {"resetDel", "resetLogin"} /\ typed'[h] = typed[h]
  PROVE  FailedAreResets'
  BY DEF FailedAreResets, FlowOf

\* What a request past its verify knows: of all its codes only a reset's may have
\* failed before, and not once its password was set.
LEMMA PastVerifyHolds ==
  ASSUME IInv, OnceInv, NEW h \in Handlers, pc[h] \in OwnLabels
  PROVE  /\ held[h].code = typed[h] /\ typed[h] \in spent /\ typed[h] \in Issued
         /\ pc[h] \in ResetLabels => FlowOf(typed[h]) = "reset"
         /\ pc[h] \in OwnLabels \ {"resetFind", "resetFindDel", "resetSet"} => typed[h] \notin failed
<1>1. /\ typed[h] \in spent /\ typed[h] \in Issued /\ issued[typed[h]].key = held[h].key
  BY AcceptedHolds
<1>2. held[h].code = typed[h]
  BY DEF IInv, FlowInv, AcceptedIsSpent, Entitled
<1>3. /\ pc[h] \in LoginLabels => FlowOf(typed[h]) = "login"
      /\ pc[h] \in ResetLabels => FlowOf(typed[h]) = "reset"
      /\ pc[h] \in ChangeLabels => FlowOf(typed[h]) = "change"
  BY <1>1 DEF IInv, Entitled, FlowOf
<1>4. pc[h] \in LoginLabels \cup ChangeLabels \cup {"resetDel", "resetLogin"} => typed[h] \notin failed
  BY <1>3 DEF OnceInv, FailedAreResets
<1> QED BY <1>1, <1>2, <1>3, <1>4 DEF OwnLabels, LoginLabels, ResetLabels, ChangeLabels

\* The flows' own steps, each with what it does to Redis and to the retries.
LEMMA OwnOnce ==
  ASSUME ~MayFail("redis"), IInv, OnceInv, OneAtATime', NEW h \in Handlers,
         \/ LoginDel(h) \/ LoginFind(h) \/ LoginSession(h)
         \/ ResetFind(h) \/ ResetFindDel(h) \/ ResetSet(h) \/ ResetDel(h) \/ ResetLogin(h)
         \/ ChangeDel(h) \/ ChangeSet(h)
  PROVE  OnceInv'
<1> DEFINE code == held[h].code
<1>0. FlowInv(Payload, OwnLabels) /\ FlowType(Payload, OwnLabels)
  BY DEF IInv, FlowInv
<1>1. pc[h] \in OwnLabels /\ UNCHANGED <<now, history>>
  BY DEF LoginDel, LoginFind, LoginSession, ResetFind, ResetFindDel, ResetSet, ResetDel,
         ResetLogin, ChangeDel, ChangeSet, OwnLabels
<1>2. /\ code = typed[h] /\ code \in spent /\ code \in Issued
      /\ pc[h] \in ResetLabels => FlowOf(code) = "reset"
      /\ pc[h] \in OwnLabels \ {"resetFind", "resetFindDel", "resetSet"} => code \notin failed
  BY <1>1, PastVerifyHolds
<1>3. PICK U : U = spent \ failed
  OBVIOUS
<1>4. CountInv(U, Deleting, Keeping)
  BY <1>3, UsedSame DEF OnceInv
<1>5. PICK V : V = spent \ failed'
  OBVIOUS
<1>6. UNCHANGED <<spent, issued, latest, answered, tries>>
  BY <1>1 DEF history
<1>7. pc[h] \notin FlowLabels
  BY <1>1 DEF OwnLabels, FlowLabels
<1>8. ASSUME NEW l \in OwnLabels \cup {"idle"}, V \ {code} = U \ {code},
             (l # "idle" /\ Goto(h, l)) \/ (l = "idle" /\ Return(h)),
             \/ Delete(held[h].key) /\ code \in V /\ l \notin Keeping
             \/ /\ UNCHANGED redis
                /\ l \in Deleting \/ code \notin V \/ (pc[h] \notin Deleting /\ V = U)
                /\ code \in U \ V => pc[h] \in Keeping
                /\ l \in Keeping => pc[h] \in Keeping
      PROVE  CountInv(spent \ failed, Deleting, Keeping)'
  <2>1. l \notin FlowLabels \ {"idle"}
    BY DEF OwnLabels, FlowLabels
  <2>2. CountInv(V, Deleting, Keeping)'
    BY <1>0, <1>1, <1>4, <1>6, <1>7, <1>8, <2>1, LabelsAside, OwnCounts
  <2> QED BY <1>5, <1>6, <2>2, UsedSame
<1>9. CASE LoginDel(h) \/ ResetDel(h) \/ ChangeDel(h)
  <2>1. PICK l \in {"loginFind", "resetLogin", "changeSet"} : Goto(h, l)
    BY <1>9 DEF LoginDel, ResetDel, ChangeDel
  <2>2. failed' = failed /\ Delete(held[h].key) /\ pc[h] \in {"loginDel", "resetDel", "changeDel"}
    BY <1>9 DEF LoginDel, ResetDel, ChangeDel, DeleteIgnored, RedisFails, ownVars
  <2>3. code \in V /\ V = U
    BY <1>2, <1>3, <1>5, <2>2 DEF OwnLabels
  <2>4. CountInv(spent \ failed, Deleting, Keeping)'
    BY <1>8, <2>1, <2>2, <2>3 DEF OwnLabels, Keeping
  <2>5. FailedAreResets'
    <3>1. pc[h] \in {"resetDel"} \/ pc'[h] \notin {"resetDel", "resetLogin"}
      BY <1>0, <1>9 DEF LoginDel, ResetDel, ChangeDel, Goto, FlowType
    <3>2. typed' = typed /\ \A g \in Handlers \ {h} : pc'[g] = pc[g]
      BY <1>0, <2>1 DEF Goto, FlowType
    <3> QED BY <1>6, <2>2, <3>1, <3>2, FailedStay DEF OnceInv, Issued
  <2> QED BY <2>4, <2>5 DEF OnceInv
<1>10. CASE LoginFind(h) \/ LoginSession(h) \/ ResetLogin(h) \/ ChangeSet(h)
  <2>1. /\ failed' = failed /\ UNCHANGED redis
        /\ Return(h) \/ Goto(h, "loginSession")
        /\ pc[h] \in {"loginFind", "loginSession", "resetLogin", "changeSet"}
    BY <1>10 DEF LoginFind, LoginSession, ResetLogin, ChangeSet, ownVars, Back
  <2>2. V = U /\ pc[h] \notin Deleting
    BY <1>3, <1>5, <2>1 DEF Deleting
  <2>3. CountInv(spent \ failed, Deleting, Keeping)'
    BY <1>8, <2>1, <2>2 DEF OwnLabels, Keeping
  <2>4. FailedAreResets'
    <3>1. pc'[h] \notin {"resetDel", "resetLogin"}
          /\ \A g \in Handlers \ {h} : pc'[g] = pc[g] /\ typed'[g] = typed[g]
      BY <1>0, <2>1 DEF Goto, Return, FlowType
    <3> QED BY <1>6, <2>1, <3>1, FailedStay DEF OnceInv, Issued
  <2> QED BY <2>3, <2>4 DEF OnceInv
<1>11. CASE ResetFind(h)
  <2>1. /\ failed' = failed /\ UNCHANGED redis
        /\ Goto(h, "resetSet") \/ Goto(h, "resetFindDel")
        /\ pc[h] = "resetFind"
    BY <1>11 DEF ResetFind, ownVars
  <2>2. V = U
    BY <1>3, <1>5, <2>1
  <2>3. CountInv(spent \ failed, Deleting, Keeping)'
    BY <1>8, <2>1, <2>2 DEF OwnLabels, Keeping, Deleting
  <2>4. FailedAreResets'
    <3>1. pc'[h] \notin {"resetDel", "resetLogin"}
          /\ \A g \in Handlers \ {h} : pc'[g] = pc[g] /\ typed'[g] = typed[g]
      BY <1>0, <2>1 DEF Goto, FlowType
    <3> QED BY <1>6, <2>1, <3>1, FailedStay DEF OnceInv, Issued
  <2> QED BY <2>3, <2>4 DEF OnceInv
<1>12. CASE ResetFindDel(h)
  <2>1. /\ failed' = failed \ {code} /\ Delete(held[h].key) /\ Return(h)
    BY <1>2, <1>12 DEF ResetFindDel, DeleteIgnored, RedisFails, Back
  <2>2. V \ {code} = U \ {code} /\ code \in V
    BY <1>2, <1>3, <1>5, <2>1
  <2>3. CountInv(spent \ failed, Deleting, Keeping)'
    BY <1>8, <2>1, <2>2 DEF Keeping
  <2>4. FailedAreResets'
    <3>1. pc'[h] = "idle" /\ \A g \in Handlers \ {h} : pc'[g] = pc[g] /\ typed'[g] = typed[g]
      BY <1>0, <2>1 DEF Return, FlowType
    <3> QED BY <1>6, <2>1, <3>1 DEF OnceInv, FailedAreResets, FlowOf, Issued
  <2> QED BY <2>3, <2>4 DEF OnceInv
<1>13. CASE ResetSet(h) /\ Goto(h, "resetDel")
  <2>1. /\ failed' = failed \ {code} /\ UNCHANGED redis
    <3>1. pc'[h] # "idle"
      BY <1>0, <1>13 DEF Goto, FlowType
    <3> QED BY <1>0, <1>2, <1>13, <3>1 DEF ResetSet, Back, Return, FlowType
  <2>2. V \ {code} = U \ {code} /\ code \in V
    BY <1>2, <1>3, <1>5, <2>1
  <2>3. CountInv(spent \ failed, Deleting, Keeping)'
    BY <1>8, <1>13, <2>1, <2>2 DEF Keeping, Deleting, OwnLabels
  <2>4. FailedAreResets'
    <3>1. typed' = typed /\ typed[h] \notin failed' /\ \A g \in Handlers \ {h} : pc'[g] = pc[g]
      BY <1>0, <1>2, <1>13, <2>1 DEF Goto, FlowType
    <3> QED BY <1>6, <2>1, <3>1 DEF OnceInv, FailedAreResets, FlowOf, Issued
  <2> QED BY <2>3, <2>4 DEF OnceInv
<1>14. CASE ResetSet(h) /\ Return(h)
  <2>1. /\ failed' = failed \cup {code} /\ UNCHANGED redis /\ pc[h] = "resetSet"
    <3>1. pc'[h] = "idle" /\ pc[h] = "resetSet"
      BY <1>0, <1>14 DEF Return, FlowType, ResetSet
    <3> QED BY <1>0, <1>2, <1>14, <3>1 DEF ResetSet, Goto, FlowType
  <2>2. V \ {code} = U \ {code} /\ code \notin V
    BY <1>2, <1>3, <1>5, <2>1
  <2>3. CountInv(spent \ failed, Deleting, Keeping)'
    BY <1>8, <1>14, <2>1, <2>2 DEF Keeping, Deleting
  <2>4. FailedAreResets'
    <3>1. \A g \in Handlers : pc'[g] = "idle"
      <4>1. pc'[h] = "idle" /\ \A g \in Handlers \ {h} : pc'[g] = pc[g]
        BY <1>0, <1>14 DEF Return, FlowType
      <4> QED BY <2>1, <4>1, OthersIdle DEF OnceInv, CountInv
    <3> QED BY <1>2, <1>6, <2>1, <3>1
            DEF OnceInv, FailedAreResets, FlowOf, Issued, ResetLabels
  <2> QED BY <2>3, <2>4 DEF OnceInv
<1> QED BY <1>9, <1>10, <1>11, <1>12, <1>13, <1>14 DEF ResetSet, Back

\* An accepted code: used up at once, but for a reset's that is tried again.
LEMMA AcceptOnce ==
  ASSUME IInv, OnceInv, OneAtATime', NEW h \in Handlers,
         LoginAccepted(h) \/ ResetAccepted(h) \/ ChangeAccepted(h)
  PROVE  OnceInv'
<1>0. FlowInv(Payload, OwnLabels) /\ FlowType(Payload, OwnLabels)
  BY DEF IInv, FlowInv
<1>1. PICK k \in Keys, l \in {"loginDel", "resetFind", "changeDel"} :
            \E code \in CanType(k) : VerifyRight(h, k, code, l)
  BY DEF LoginAccepted, ResetAccepted, ChangeAccepted, Flows
<1>2. PICK code \in CanType(k) : VerifyRight(h, k, code, l)
  BY <1>1
<1>3. failed' = failed /\ spent' = spent \cup {code}
  BY <1>2 DEF LoginAccepted, ResetAccepted, ChangeAccepted, ownVars, VerifyRight
<1>4. PICK U : U = spent \ failed
  OBVIOUS
<1>5. PICK V : V = spent' \ failed'
  OBVIOUS
<1>6. V \in {U, U \cup {code}} /\ l \in Deleting
  BY <1>3, <1>4, <1>5 DEF Deleting
<1>7. CountInv(V, Deleting, Keeping)'
  BY <1>0, <1>2, <1>4, <1>6, UsedSame, LabelsAside, RightCounts DEF OnceInv
<1>8. FailedAreResets'
  <2>1. /\ issued' = issued /\ pc'[h] = l
        /\ \A g \in Handlers \ {h} : pc'[g] = pc[g] /\ typed'[g] = typed[g]
    BY <1>0, <1>2 DEF VerifyRight, FlowType, draws
  <2> QED BY <1>3, <2>1, FailedStay DEF OnceInv, Issued
<1> QED BY <1>5, <1>7, <1>8, UsedSame DEF OnceInv

\* A shared step.
LEMMA SharedOnce ==
  ASSUME ~MayFail("redis"), ~MayFail("crash"),
         IInv, OnceInv, OneAtATime', NEW h \in Handlers, failed' = failed,
         \/ FlowStart(h) \/ FlowResend(h) \/ FlowRefuse(h) \/ Crash(h)
         \/ \E k \in Keys, p \in Payload, c \in Codes : StartDraw(h, k, p, c)
  PROVE  OnceInv'
<1>0. FlowInv(Payload, OwnLabels) /\ FlowType(Payload, OwnLabels)
  BY DEF IInv, FlowInv
<1>1. PICK U : U = spent \ failed
  OBVIOUS
<1>2. CountInv(U, Deleting, Keeping)'
  BY <1>0, <1>1, UsedSame, LabelsAside, FlowCounts, StartDrawCounts DEF OnceInv
<1>3. /\ spent' = spent /\ pc'[h] \in FlowLabels
      /\ \A g \in Handlers \ {h} : pc'[g] = pc[g] /\ typed'[g] = typed[g]
  <2>1. CASE \E k \in Keys, p \in Payload, c \in Codes : StartDraw(h, k, p, c)
    BY <1>0, <2>1 DEF StartDraw, FlowType, FlowLabels
  <2> QED BY <1>0, <2>1, FlowMovesOne
<1>4. \A c \in Issued : issued'[c] = issued[c]
  <2>1. ASSUME NEW k \in Keys, NEW p \in Payload, NEW c \in Codes, StartDraw(h, k, p, c),
               NEW d \in Issued
        PROVE  issued'[d] = issued[d]
    <3>1. issued' = [issued EXCEPT ![NewChallenge(k, p, c).code] = NewChallenge(k, p, c)]
          /\ NewChallenge(k, p, c).code = c /\ d # c
      BY <2>1 DEF StartDraw, Issue, NewChallenge
    <3> QED BY <1>0, <3>1 DEF FlowType, Issued
  <2>2. ASSUME NEW k \in Keys, NEW c \in Codes, ResendDraw(h, k, c)
        PROVE  \A d \in Issued : issued'[d] = issued[d]
    BY <2>2, RotationAdds
  <2>3. CASE FlowStart(h) \/ FlowResend(h) \/ FlowRefuse(h) \/ Crash(h)
    BY <1>0, <2>2, <2>3, FlowMovesOne
  <2> QED BY <2>1, <2>3
<1>5. FailedAreResets'
  <2>1. \A c \in Issued : c \in Issued'
    BY <1>4 DEF Issued
  <2> QED BY <1>3, <1>4, <2>1, FailedStay DEF OnceInv, FlowLabels
<1> QED BY <1>1, <1>2, <1>3, <1>5, UsedSame DEF OnceInv

LEMMA OnceStep ==
  ASSUME ~MayFail("redis"), ~MayFail("crash"), serial,
         IInv, OnceInv, [Next]_vars
  PROVE  OnceInv'
<1>1. CASE Tick /\ UNCHANGED ownVars
  <2>1. PICK U : U = spent \ failed
    OBVIOUS
  <2>2. CountInv(U, Deleting, Keeping)'
    BY <1>1, <2>1, UsedSame, LabelsAside, TickCounts DEF OnceInv, IInv
  <2>3. UNCHANGED <<spent, failed, issued, pc, typed>>
    BY <1>1 DEF Tick, ownVars, history, handlers
  <2> QED BY <2>1, <2>2, <2>3, UsedSame DEF OnceInv, FailedAreResets, FlowOf, Issued
<1>2. CASE UNCHANGED vars \/ \E u \in Users : Disable(u)
  <2>1. PICK U : U = spent \ failed
    OBVIOUS
  <2>2. UNCHANGED <<flowVars, failed>>
    BY <1>2 DEF vars, Disable
  <2>3. CountInv(U, Deleting, Keeping)'
    BY <2>1, <2>2, UsedSame, StutterCounts DEF OnceInv, flowVars, redis
  <2> QED BY <2>1, <2>2, <2>3, UsedSame DEF OnceInv, FailedAreResets, FlowOf, Issued, flowVars
<1>3. ASSUME OneAtATime', NEW h \in Handlers, Start(h) PROVE OnceInv'
  <2>1. \/ FlowStart(h)
        \/ \E k \in Keys, p \in Payload, c \in Codes : StartDraw(h, k, p, c)
    BY <1>3 DEF Start, EmailStart, ChangeStart, Flows, Payload
  <2> QED BY <1>3, <2>1, SharedOnce DEF Start, ownVars
<1>4. ASSUME OneAtATime', NEW h \in Handlers, Resend(h) \/ Refused(h) \/ Dies(h) PROVE OnceInv'
  BY <1>4, SharedOnce DEF Resend, Refused, Dies, ownVars
<1> QED BY <1>1, <1>2, <1>3, <1>4, OwnOnce, AcceptOnce DEF Next, AsServed, Login, Reset, Change

LEMMA Once ==
  ASSUME "redis" \notin SerialFaults, "crash" \notin SerialFaults
  PROVE  Spec => [](serial => OnceInv)
<1> DEFINE I == serial => OnceInv
<1>1. Init => I
  <2> SUFFICES ASSUME Init PROVE OnceInv
    OBVIOUS
  <2>1. PICK U : U = spent \ failed
    OBVIOUS
  <2>2. CountInv(U, Deleting, Keeping)
    BY <2>1, InitCounts, LabelsAside DEF Init, FlowInit
  <2>3. CountInv(spent \ failed, Deleting, Keeping)
    BY <2>1, <2>2 DEF CountInv, TriesCounted, StoredCounts, UsableStored, Usable, HeldCounts
  <2> QED BY <2>3 DEF OnceInv, FailedAreResets, Init, FlowInit
<1>2. IInv /\ I /\ [Next]_vars => I'
  <2> SUFFICES ASSUME IInv, I, [Next]_vars, serial' PROVE OnceInv'
    OBVIOUS
  <2>1. serial
    BY DEF Next, AsServed, vars, flowVars
  <2>2. ~MayFail("redis") /\ ~MayFail("crash")
    BY <2>1 DEF MayFail
  <2> QED BY <2>1, <2>2, OnceStep
<1> QED BY <1>1, <1>2, Invariance, PTL DEF Spec

-----------------------------------------------------------------------------
(* What only a verify can do. *)

LEMMA OnlyVerifiesAccept ==
  ASSUME IInv, Next, NEW h \in Handlers, Accepts(h)
  PROVE  \E g \in Handlers : LoginAccepted(g) \/ ResetAccepted(g) \/ ChangeAccepted(g)
<1>0. FlowInv(Payload, OwnLabels)
  BY DEF IInv
<1>1. ~Tick
  BY <1>0, FlowAcceptsNothing
<1>2. ASSUME NEW u \in Users, Disable(u) PROVE FALSE
  BY <1>0, <1>2, MovingAcceptsNothing DEF Disable, flowVars, Accepts
<1>3. ASSUME NEW g \in Handlers, Start(g) \/ Resend(g) \/ Refused(g) \/ Dies(g) PROVE FALSE
  <2>1. CASE FlowStart(g) \/ FlowResend(g) \/ FlowRefuse(g) \/ Crash(g)
    BY <1>0, <2>1, FlowAcceptsNothing
  <2>2. CASE \E k \in Keys, p \in Payload, c \in Codes : StartDraw(g, k, p, c)
    BY <2>2 DEF StartDraw, Accepts
  <2>3. Start(g) => FlowStart(g) \/ \E k \in Keys, p \in Payload, c \in Codes : StartDraw(g, k, p, c)
    BY DEF Start, EmailStart, ChangeStart, Flows, Payload
  <2> QED BY <1>3, <2>1, <2>2, <2>3 DEF Resend, Refused, Dies
<1>4. ASSUME NEW g \in Handlers,
             \/ LoginDel(g) \/ LoginFind(g) \/ LoginSession(g)
             \/ ResetFind(g) \/ ResetFindDel(g) \/ ResetSet(g) \/ ResetDel(g) \/ ResetLogin(g)
             \/ ChangeDel(g) \/ ChangeSet(g)
      PROVE  FALSE
  BY <1>0, <1>4, MovingAcceptsNothing
  DEF LoginDel, LoginFind, LoginSession, ResetFind, ResetFindDel, ResetSet, ResetDel,
      ResetLogin, ChangeDel, ChangeSet, Back
<1> QED BY <1>1, <1>2, <1>3, <1>4 DEF Next, Login, Reset, Change

LEMMA VerifiesAreRight ==
  ASSUME NEW g \in Handlers, LoginAccepted(g) \/ ResetAccepted(g) \/ ChangeAccepted(g)
  PROVE  \E k \in Keys, l \in Deleting : \E code \in CanType(k) : VerifyRight(g, k, code, l)
BY DEF LoginAccepted, ResetAccepted, ChangeAccepted, Flows, Deleting

\* No sign-in, reset or change accepts a code more than OTPTTL after its draw.
THEOREM NeverAfterExpiry == Spec => NotAfterExpiry
<1>1. IInv /\ [Next]_vars => [\A h \in Handlers : Accepts(h) =>
                                  now <= issued[typed'[h]].lastSent + OTPTTL]_flowVars
  <2> SUFFICES ASSUME IInv, Next, NEW h \in Handlers, Accepts(h)
               PROVE  now <= issued[typed'[h]].lastSent + OTPTTL
    BY DEF vars, flowVars
  <2>1. PICK g \in Handlers : LoginAccepted(g) \/ ResetAccepted(g) \/ ChangeAccepted(g)
    BY OnlyVerifiesAccept
  <2>2. PICK k \in Keys, l \in Deleting : \E code \in CanType(k) : VerifyRight(g, k, code, l)
    BY <2>1, VerifiesAreRight
  <2> QED BY <2>2, RightAcceptsInTime DEF IInv
<1> QED BY <1>1, Invariance, PTL DEF Spec, NotAfterExpiry

\* Served one at a time, and with Redis answering, the flows leave each other's
\* codes alone, and a reset whose SetPassword failed can be tried again with its.
THEOREM CodesStayUsable ==
  ASSUME "redis" \notin SerialFaults, "crash" \notin SerialFaults
  PROVE  Spec => []CodesUsable
<1>1. IInv /\ (serial => OnceInv) => CodesUsable
  <2> SUFFICES ASSUME IInv, OnceInv, \A h \in Handlers : pc[h] = "idle",
                      NEW k \in Keys, Usable(k, spent \ failed)
               PROVE  pend[k] # None /\ Accepted(pend[k], latest[k], now)
    BY DEF CodesUsable, LatestUsableUnless
  <2>1. PICK U : U = spent \ failed
    OBVIOUS
  <2>2. CountInv(U, Deleting, Keeping) /\ Usable(k, U)
    BY <2>1, UsedSame DEF OnceInv, Usable
  <2> QED BY <2>2, LabelsAside, UsableAccepted DEF IInv
<1> QED BY <1>1, Invariance, Once, PTL

\* Served one at a time, no code of the three flows allows more wrong guesses than
\* the limit.
THEOREM AttemptsCapped ==
  ASSUME "redis" \notin SerialFaults, "crash" \notin SerialFaults
  PROVE  Spec => []AttemptCap
<1>1. (serial => OnceInv) => AttemptCap
  BY DEF OnceInv, CountInv, TriesCounted, AttemptCap
<1> QED BY <1>1, Once, PTL

\* Served one at a time, no verify accepts a code a second time, unless a reset
\* with it could not set the password.
THEOREM UsedOnce ==
  ASSUME "redis" \notin SerialFaults, "crash" \notin SerialFaults
  PROVE  Spec => OneTimeUse
<1>1. IInv /\ (serial => OnceInv) /\ [Next]_vars
          => [\A h \in Handlers : serial /\ Accepts(h) => typed'[h] \notin spent \ failed]_vars
  <2> SUFFICES ASSUME IInv, OnceInv, Next, OneAtATime', NEW h \in Handlers, Accepts(h)
               PROVE  typed'[h] \notin spent \ failed
    BY DEF Next, AsServed
  <2>1. PICK g \in Handlers : LoginAccepted(g) \/ ResetAccepted(g) \/ ChangeAccepted(g)
    BY OnlyVerifiesAccept
  <2>2. PICK k \in Keys, l \in Deleting : \E code \in CanType(k) : VerifyRight(g, k, code, l)
    BY <2>1, VerifiesAreRight
  <2>3. PICK code \in CanType(k) : VerifyRight(g, k, code, l)
    BY <2>2
  <2>4. PICK U : U = spent \ failed
    OBVIOUS
  <2>5. CountInv(U, Deleting, Keeping)
    BY <2>4, UsedSame DEF OnceInv
  <2>6. typed'[h] \notin U
    BY <2>3, <2>5, LabelsAside, RightIsFresh DEF IInv
  <2> QED BY <2>4, <2>6
<1> QED BY <1>1, Invariance, Once, PTL DEF Spec, OneTimeUse
=============================================================================
