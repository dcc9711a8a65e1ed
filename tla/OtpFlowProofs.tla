--------------------------- MODULE OtpFlowProofs ---------------------------
(***************************************************************************)
(* Every action of OtpFlow keeps the invariants the flows share,           *)
(* whatever a flow's Start stores with the code (P): FlowInv always,       *)
(* CountInv while requests come one at a time, Redis answers and no        *)
(* process dies. The proofs about a flow cite these lemmas for the         *)
(* actions it takes from OtpFlow, and DeleteKeeps, RightCounts and         *)
(* OwnCounts for its own.                                                  *)
(***************************************************************************)
EXTENDS OtpFlow, TLAPS

USE OtpAssumption, FlowAssumption

-----------------------------------------------------------------------------
(* The records. *)

\* What a drawn challenge carries over, and what it takes from the draw.
LEMMA DrawFields ==
  ASSUME NEW P, NEW ch \in Challenge(P), NEW c \in Codes, NEW t \in Nat
  PROVE  /\ Draw(ch, c, t) \in Challenge(P)
         /\ Draw(ch, c, t).key = ch.key
         /\ Draw(ch, c, t).payload = ch.payload
         /\ Draw(ch, c, t).code = c
         /\ Draw(ch, c, t).lastSent = t
         /\ Draw(ch, c, t).otpExp = t + OTPTTL
         /\ Draw(ch, c, t).attempts = 0
<1> DEFINE d1 == [ch EXCEPT !.code = c]
           d2 == [d1 EXCEPT !.lastSent = t]
           d3 == [d2 EXCEPT !.otpExp = t + OTPTTL]
           d4 == [d3 EXCEPT !.attempts = 0]
<1>1. d1 \in Challenge(P) /\ d1.code = c /\ d1.key = ch.key /\ d1.payload = ch.payload
  BY DEF Challenge
<1> HIDE DEF d1
<1>2. /\ d2 \in Challenge(P) /\ d2.code = c /\ d2.lastSent = t
      /\ d2.key = ch.key /\ d2.payload = ch.payload
  BY <1>1 DEF Challenge
<1> HIDE DEF d2
<1>3. /\ d3 \in Challenge(P) /\ d3.code = c /\ d3.lastSent = t /\ d3.otpExp = t + OTPTTL
      /\ d3.key = ch.key /\ d3.payload = ch.payload
  BY <1>2 DEF Challenge
<1> HIDE DEF d3
<1>4. /\ d4 \in Challenge(P) /\ d4.code = c /\ d4.lastSent = t /\ d4.otpExp = t + OTPTTL
      /\ d4.key = ch.key /\ d4.payload = ch.payload /\ d4.attempts = 0
  BY <1>3 DEF Challenge
<1>5. d4 = Draw(ch, c, t)
  BY DEF d1, d2, d3, Draw
<1> HIDE DEF d4
<1> QED BY <1>4, <1>5

\* Counting a comparison changes the counter alone.
LEMMA CountedFields ==
  ASSUME NEW P, NEW ch \in Challenge(P)
  PROVE  /\ Counted(ch) \in Challenge(P)
         /\ Counted(ch).key = ch.key
         /\ Counted(ch).payload = ch.payload
         /\ Counted(ch).code = ch.code
         /\ Counted(ch).lastSent = ch.lastSent
         /\ Counted(ch).otpExp = ch.otpExp
  BY DEF Counted, Challenge

LEMMA NewFields ==
  ASSUME NEW P, NEW k \in Keys, NEW p \in P, NEW c \in Codes, now \in Nat
  PROVE  /\ NewChallenge(k, p, c) \in Challenge(P)
         /\ NewChallenge(k, p, c).key = k
         /\ NewChallenge(k, p, c).payload = p
         /\ NewChallenge(k, p, c).code = c
         /\ NewChallenge(k, p, c).lastSent = now
         /\ NewChallenge(k, p, c).otpExp = now + OTPTTL
  BY DEF NewChallenge, Challenge

-----------------------------------------------------------------------------
LEMMA FlowInitInv ==
  ASSUME NEW P, NEW L, None \notin Challenge(P), FlowInit
  PROVE  FlowInv(P, L)
  BY DEF FlowInit, FlowInv, FlowType, FlowLabels, DrawnAsCoded, CopiesGenuine, MailsGenuine,
         SpentWasMailed, AcceptedIsSpent, HeldWhileBusy, Issued

\* Recording a fresh draw leaves everything said of earlier draws true.
LEMMA IssueKeeps ==
  ASSUME NEW P, NEW L, None \notin Challenge(P), FlowType(P, L),
         NEW ch \in Challenge(P), ch.code \notin Issued, Issue(ch)
  PROVE  /\ Issued' = Issued \cup {ch.code}
         /\ issued'[ch.code] = ch
         /\ \A d \in Issued : issued'[d] = issued[d] /\ d # ch.code
         /\ Genuine(ch)'
         /\ \A g \in Challenge(P) : Genuine(g) => Genuine(g)'
<1>1. ch.code \in Codes /\ issued'[ch.code] = ch /\ ch # None
  BY DEF Issue, FlowType, FlowLabels, Challenge
<1>2. \A d \in Codes \ {ch.code} : issued'[d] = issued[d]
  BY DEF Issue, FlowType
<1>3. Issued' = Issued \cup {ch.code}
  BY <1>1, <1>2 DEF Issued
<1>4. \A d \in Issued : issued'[d] = issued[d] /\ d # ch.code
  BY <1>2 DEF Issued
<1>5. Genuine(ch)'
  BY <1>1, <1>3 DEF Genuine
<1>6. ASSUME NEW g \in Challenge(P), Genuine(g) PROVE Genuine(g)'
  BY <1>3, <1>4, <1>6 DEF Genuine
<1> QED BY <1>1, <1>3, <1>4, <1>5, <1>6

\* An idle handler that takes a fresh draw into its hands.
LEMMA DrawKeeps ==
  ASSUME NEW P, NEW L, None \notin Challenge(P), FlowInv(P, L),
         NEW h \in Handlers, NEW ch \in Challenge(P), NEW l \in FlowLabels \cup L,
         pc[h] = "idle", l # "idle",
         ch.code \notin Issued, ch.otpExp = ch.lastSent + OTPTTL,
         Issue(ch), held' = [held EXCEPT ![h] = ch], pc' = [pc EXCEPT ![h] = l],
         UNCHANGED <<now, redis, typed, mails, answered, tries, spent>>
  PROVE  FlowInv(P, L)'
<1> USE DEF FlowInv, redis
<1>1. /\ Issued' = Issued \cup {ch.code}
      /\ issued'[ch.code] = ch
      /\ \A d \in Issued : issued'[d] = issued[d] /\ d # ch.code
      /\ Genuine(ch)'
      /\ \A g \in Challenge(P) : Genuine(g) => Genuine(g)'
  BY IssueKeeps
<1>2. FlowType(P, L)' /\ HeldWhileBusy'
  BY DEF FlowType, Issue, HeldWhileBusy, Challenge
<1>3. DrawnAsCoded'
  BY <1>1 DEF DrawnAsCoded
<1>4. CopiesGenuine'
  <2>1. ASSUME NEW k \in Keys, pend'[k] # None PROVE Genuine(pend[k])' /\ pend'[k].key = k
    BY <1>1, <2>1 DEF CopiesGenuine, FlowType, Genuine
  <2>2. ASSUME NEW g \in Handlers, held'[g] # None PROVE Genuine(held[g])'
    BY <1>1, <2>2 DEF CopiesGenuine, FlowType, Genuine
  <2> QED BY <2>1, <2>2 DEF CopiesGenuine
<1>5. MailsGenuine' /\ SpentWasMailed'
  BY <1>1 DEF MailsGenuine, SpentWasMailed
<1>6. AcceptedIsSpent'
  BY <1>2 DEF AcceptedIsSpent, FlowType, HeldWhileBusy
<1> QED BY <1>2, <1>3, <1>4, <1>5, <1>6

LEMMA StartDrawKeeps ==
  ASSUME NEW P, NEW L, None \notin Challenge(P), FlowInv(P, L),
         NEW h \in Handlers, NEW k \in Keys, NEW p \in P, NEW c \in Codes,
         StartDraw(h, k, p, c)
  PROVE  FlowInv(P, L)'
<1> DEFINE ch == NewChallenge(k, p, c)
<1>1. ch \in Challenge(P) /\ ch.code = c /\ ch.otpExp = ch.lastSent + OTPTTL
  <2>1. now \in Nat
    BY DEF FlowInv, FlowType
  <2> QED BY <2>1, NewFields
<1>2. /\ pc[h] = "idle" /\ c \notin Issued /\ Issue(ch)
      /\ held' = [held EXCEPT ![h] = ch] /\ pc' = [pc EXCEPT ![h] = "startPut"]
      /\ UNCHANGED <<now, redis, typed, mails, answered, tries, spent>>
  BY DEF StartDraw
<1>3. "startPut" \in FlowLabels \cup L /\ "startPut" # "idle"
  BY DEF FlowLabels
<1> HIDE DEF ch
<1> QED BY <1>1, <1>2, <1>3, DrawKeeps

LEMMA ResendDrawKeeps ==
  ASSUME NEW P, NEW L, None \notin Challenge(P), FlowInv(P, L),
         NEW h \in Handlers, NEW k \in Keys, NEW c \in Codes, ResendDraw(h, k, c)
  PROVE  FlowInv(P, L)'
<1>1. now \in Nat /\ pend[k] \in Challenge(P)
  BY DEF FlowInv, FlowType, ResendDraw
<1> DEFINE ch == Rotate(pend[k], c)
<1>2. ch \in Challenge(P) /\ ch.code = c /\ ch.otpExp = ch.lastSent + OTPTTL
  BY <1>1, DrawFields DEF Rotate
<1>3. /\ pc[h] = "idle" /\ c \notin Issued /\ Issue(ch)
      /\ held' = [held EXCEPT ![h] = ch] /\ pc' = [pc EXCEPT ![h] = "resendPut"]
      /\ UNCHANGED <<now, redis, typed, mails, answered, tries, spent>>
  BY DEF ResendDraw
<1> HIDE DEF ch
<1>4. "resendPut" \in FlowLabels \cup L /\ "resendPut" # "idle"
  BY DEF FlowLabels
<1> QED BY <1>2, <1>3, <1>4, DrawKeeps

-----------------------------------------------------------------------------
\* A handler stores its own copy.
LEMMA PutKeeps ==
  ASSUME NEW P, NEW L, None \notin Challenge(P), FlowInv(P, L), NEW h \in Handlers,
         NEW l \in FlowLabels \cup L, l # "idle", pc[h] # "idle", Put(held[h]) \/ UNCHANGED redis,
         Goto(h, l) \/ Return(h), UNCHANGED <<now, history>>
  PROVE  FlowInv(P, L)'
<1> USE DEF FlowInv, redis, draws, history, handlers, Issued, Goto, Return
<1>1. FlowType(P, L)' /\ HeldWhileBusy'
  BY DEF Put, FlowType, FlowLabels, Challenge, HeldWhileBusy
<1>2. DrawnAsCoded' /\ MailsGenuine' /\ SpentWasMailed'
  BY DEF Put, DrawnAsCoded, MailsGenuine, SpentWasMailed, CopiesGenuine, Genuine, HeldWhileBusy
<1>3. CopiesGenuine'
  BY <1>1 DEF Put, CopiesGenuine, Genuine, HeldWhileBusy, FlowType, FlowLabels, Challenge
<1>4. AcceptedIsSpent'
  BY <1>1 DEF Put, AcceptedIsSpent, FlowType, FlowLabels, Challenge, HeldWhileBusy
<1> QED BY <1>1, <1>2, <1>3, <1>4

\* A handler deletes the key it works on, or calls something else.
LEMMA DeleteKeeps ==
  ASSUME NEW P, NEW L, None \notin Challenge(P), FlowInv(P, L), NEW h \in Handlers,
         NEW l \in FlowLabels \cup L, l # "idle", pc[h] # "idle",
         Goto(h, l) \/ Return(h),
         UNCHANGED redis \/ Delete(held[h].key), UNCHANGED <<now, history>>
  PROVE  FlowInv(P, L)'
<1> USE DEF FlowInv, redis, draws, history, handlers, Issued, Goto, Return
<1>1. FlowType(P, L)' /\ HeldWhileBusy'
  BY DEF Delete, FlowType, FlowLabels, Challenge, HeldWhileBusy
<1>2. DrawnAsCoded' /\ MailsGenuine' /\ SpentWasMailed'
  BY DEF Delete, DrawnAsCoded, MailsGenuine, SpentWasMailed, CopiesGenuine, Genuine, HeldWhileBusy
<1>3. CopiesGenuine'
  BY <1>1 DEF Delete, CopiesGenuine, Genuine, HeldWhileBusy, FlowType, FlowLabels, Challenge
<1>4. AcceptedIsSpent'
  BY <1>1 DEF Delete, AcceptedIsSpent, FlowType, FlowLabels, Challenge, HeldWhileBusy
<1> QED BY <1>1, <1>2, <1>3, <1>4

\* A handler mails what it holds.
LEMMA SendKeeps ==
  ASSUME NEW P, NEW L, None \notin Challenge(P), FlowInv(P, L), NEW h \in Handlers,
         NEW l \in FlowLabels \cup L, l # "idle", pc[h] # "idle",
         mails' \in {mails, mails \cup {MailOf(held[h])}},
         answered' \in {answered, answered \cup {held[h].code}},
         Goto(h, l) \/ Return(h), UNCHANGED <<now, redis, draws, tries, spent>>
  PROVE  FlowInv(P, L)'
<1> USE DEF FlowInv, redis, draws, history, handlers, Issued, Goto, Return
<1>1. FlowType(P, L)' /\ HeldWhileBusy'
  BY DEF MailOf, FlowType, FlowLabels, Challenge, HeldWhileBusy
<1>2. DrawnAsCoded' /\ MailsGenuine' /\ SpentWasMailed'
  BY DEF MailOf, DrawnAsCoded, MailsGenuine, SpentWasMailed, CopiesGenuine, Genuine, HeldWhileBusy
<1>3. CopiesGenuine'
  BY <1>1 DEF MailOf, CopiesGenuine, Genuine, HeldWhileBusy, FlowType, FlowLabels, Challenge
<1>4. AcceptedIsSpent'
  BY <1>1 DEF MailOf, AcceptedIsSpent, FlowType, FlowLabels, Challenge, HeldWhileBusy
<1> QED BY <1>1, <1>2, <1>3, <1>4

\* Time passes.
LEMMA TickKeeps ==
  ASSUME NEW P, NEW L, None \notin Challenge(P), FlowInv(P, L), Tick
  PROVE  FlowInv(P, L)'
<1> USE DEF FlowInv, redis, draws, history, handlers, Issued, Goto, Return
<1>1. FlowType(P, L)' /\ HeldWhileBusy'
  BY DEF Tick, FlowType, FlowLabels, Challenge, HeldWhileBusy
<1>2. DrawnAsCoded' /\ MailsGenuine' /\ SpentWasMailed'
  BY DEF Tick, DrawnAsCoded, MailsGenuine, SpentWasMailed, CopiesGenuine, Genuine, HeldWhileBusy
<1>3. CopiesGenuine'
  BY <1>1 DEF Tick, CopiesGenuine, Genuine, HeldWhileBusy, FlowType, FlowLabels, Challenge
<1>4. AcceptedIsSpent'
  BY <1>1 DEF Tick, AcceptedIsSpent, FlowType, FlowLabels, Challenge, HeldWhileBusy
<1> QED BY <1>1, <1>2, <1>3, <1>4


-----------------------------------------------------------------------------
(* Whole handlers. *)

LEMMA FlowStartKeeps ==
  ASSUME NEW P, NEW L, None \notin Challenge(P), FlowInv(P, L), NEW h \in Handlers, FlowStart(h)
  PROVE  FlowInv(P, L)'
<1> USE DEF FlowLabels
<1>1. CASE StartPut(h)
  BY <1>1, PutKeeps DEF StartPut, RedisFails
<1>2. CASE StartMail(h) \/ StartMailFails(h)
  BY <1>2, SendKeeps DEF StartMail, StartMailFails
<1>3. CASE StartDel(h)
  BY <1>3, DeleteKeeps DEF StartDel, DeleteIgnored, RedisFails
<1> QED BY <1>1, <1>2, <1>3 DEF FlowStart

LEMMA FlowResendKeeps ==
  ASSUME NEW P, NEW L, None \notin Challenge(P), FlowInv(P, L), NEW h \in Handlers, FlowResend(h)
  PROVE  FlowInv(P, L)'
<1> USE DEF FlowLabels
<1>1. CASE ResendPut(h)
  BY <1>1, PutKeeps DEF ResendPut, RedisFails
<1>2. CASE ResendMail(h) \/ ResendMailFails(h)
  BY <1>2, SendKeeps DEF ResendMail, ResendMailFails
<1>3. CASE \E k \in Keys, c \in Codes : ResendDraw(h, k, c)
  BY <1>3, ResendDrawKeeps
<1> QED BY <1>1, <1>2, <1>3 DEF FlowResend

\* A handler that takes its copy from Redis and goes on.
LEMMA TakeKeeps ==
  ASSUME NEW P, NEW L, None \notin Challenge(P), FlowInv(P, L), NEW h \in Handlers,
         NEW k \in Keys, pend[k] # None, NEW l \in FlowLabels \cup L, l # "idle", pc[h] = "idle",
         held' \in {[held EXCEPT ![h] = pend[k]], [held EXCEPT ![h] = Counted(pend[k])]},
         pc' = [pc EXCEPT ![h] = l], typed' = typed,
         tries' \in [Codes -> Nat],
         UNCHANGED <<now, redis, draws, mails, answered, spent>>
  PROVE  FlowInv(P, L)'
<1> USE DEF FlowInv, redis, draws, Issued
<1>1. pend[k] \in Challenge(P) /\ Genuine(pend[k])
  BY DEF FlowType, CopiesGenuine
<1>2. Counted(pend[k]) \in Challenge(P) /\ Genuine(Counted(pend[k]))
  BY <1>1, CountedFields DEF Genuine
<1>3. PICK ch \in Challenge(P) : Genuine(ch) /\ held' = [held EXCEPT ![h] = ch]
  BY <1>1, <1>2
<1>4. FlowType(P, L)' /\ HeldWhileBusy'
  BY <1>3 DEF FlowType, HeldWhileBusy
<1>5. DrawnAsCoded' /\ MailsGenuine' /\ SpentWasMailed'
  BY DEF DrawnAsCoded, MailsGenuine, SpentWasMailed
<1>6. CopiesGenuine'
  BY <1>3 DEF CopiesGenuine, Genuine, FlowType
<1>7. AcceptedIsSpent'
  BY <1>3 DEF AcceptedIsSpent, FlowType, HeldWhileBusy
<1> QED BY <1>4, <1>5, <1>6, <1>7

LEMMA FlowRefuseKeeps ==
  ASSUME NEW P, NEW L, None \notin Challenge(P), FlowInv(P, L), NEW h \in Handlers, FlowRefuse(h)
  PROVE  FlowInv(P, L)'
<1> USE DEF FlowLabels
<1>1. ASSUME NEW k \in Keys, VerifyRefused(h, k)
      PROVE  FlowInv(P, L)'
  <2>1. tries' \in [Codes -> Nat] /\ UNCHANGED <<draws, mails, answered, spent>>
    BY <1>1 DEF VerifyRefused, FlowInv, FlowType, history, draws
  <2> QED BY <1>1, <2>1, TakeKeeps DEF VerifyRefused
<1>2. ASSUME NEW k \in Keys, NEW code, VerifyWrong(h, k, code)
      PROVE  FlowInv(P, L)'
  <2>1. tries' \in [Codes -> Nat]
    <3>1. pend[k].code \in Codes /\ tries \in [Codes -> Nat]
      BY <1>2 DEF VerifyWrong, FlowInv, FlowType, Challenge
    <3> QED BY <1>2, <3>1 DEF VerifyWrong
  <2> QED BY <1>2, <2>1, TakeKeeps DEF VerifyWrong
<1>3. CASE ErrPut(h)
  BY <1>3, PutKeeps DEF ErrPut, RedisFails
<1>4. CASE ErrDel(h)
  BY <1>4, DeleteKeeps DEF ErrDel, DeleteIgnored, RedisFails
<1> QED BY <1>1, <1>2, <1>3, <1>4 DEF FlowRefuse

\* What an accepted code tells of the challenge it was compared with.
LEMMA RightMeans ==
  ASSUME NEW P, NEW L, FlowInv(P, L), NEW h \in Handlers, NEW k \in Keys,
         NEW code \in CanType(k), NEW l, VerifyRight(h, k, code, l)
  PROVE  /\ code \in Codes /\ code = pend[k].code /\ Genuine(pend[k])
         /\ now <= issued[code].lastSent + OTPTTL
         /\ \E m \in mails : m.code = code /\ m.to = k
<1> USE DEF FlowInv
<1>1. pend[k] \in Challenge(P) /\ Genuine(pend[k]) /\ code = pend[k].code /\ now <= pend[k].otpExp
  BY DEF VerifyRight, Accepted, Compared, FlowType, CopiesGenuine
<1>2. code \in Codes
  BY <1>1 DEF Challenge
<1>3. \E m \in mails : m.code = code /\ m.to = k
  BY <1>2 DEF CanType
<1>4. now <= issued[code].lastSent + OTPTTL
  BY <1>1 DEF Genuine, DrawnAsCoded
<1> QED BY <1>1, <1>2, <1>3, <1>4

LEMMA RightKeeps ==
  ASSUME NEW P, NEW L, None \notin Challenge(P), FlowInv(P, L), NEW h \in Handlers,
         NEW k \in Keys, NEW code \in CanType(k), NEW l \in L, l # "idle",
         VerifyRight(h, k, code, l)
  PROVE  FlowInv(P, L)'
<1> USE DEF FlowInv, redis, draws, Issued
<1>1. code \in Codes /\ code = pend[k].code /\ Genuine(pend[k])
      /\ \E m \in mails : m.code = code
  BY RightMeans
<1>2. /\ Counted(pend[k]) \in Challenge(P) /\ Genuine(Counted(pend[k]))
      /\ Counted(pend[k]).code = code
  BY <1>1, CountedFields DEF Genuine, VerifyRight, FlowType
<1> DEFINE ch == Counted(pend[k])
<1> HIDE DEF ch
<1>3. held' = [held EXCEPT ![h] = ch] /\ ch \in Challenge(P) /\ Genuine(ch) /\ ch.code = code
  BY <1>2 DEF ch, VerifyRight
<1>4. FlowType(P, L)' /\ HeldWhileBusy'
  BY <1>1, <1>3 DEF VerifyRight, FlowType, HeldWhileBusy
<1>5. DrawnAsCoded' /\ MailsGenuine' /\ SpentWasMailed'
  BY <1>1 DEF VerifyRight, DrawnAsCoded, MailsGenuine, SpentWasMailed
<1>6. CopiesGenuine'
  BY <1>3 DEF VerifyRight, CopiesGenuine, Genuine, FlowType
<1>7. AcceptedIsSpent'
  BY <1>1, <1>3 DEF VerifyRight, AcceptedIsSpent, FlowType
<1> QED BY <1>4, <1>5, <1>6, <1>7

LEMMA CrashKeeps ==
  ASSUME NEW P, NEW L, None \notin Challenge(P), FlowInv(P, L), NEW h \in Handlers, Crash(h)
  PROVE  FlowInv(P, L)'
<1>1. "errDel" \in FlowLabels \cup L /\ "errDel" # "idle"
  BY DEF FlowLabels
<1> QED BY <1>1, PutKeeps DEF Crash

LEMMA StutterKeeps ==
  ASSUME NEW P, NEW L, FlowInv(P, L), UNCHANGED flowVars
  PROVE  FlowInv(P, L)'
  BY DEF flowVars, FlowInv, FlowType, HeldWhileBusy, DrawnAsCoded, CopiesGenuine, Genuine,
         MailsGenuine, SpentWasMailed, AcceptedIsSpent, Issued

-----------------------------------------------------------------------------
(* Acceptance. *)

\* A step that only moves a handler on accepts nothing.
LEMMA MovingAcceptsNothing ==
  ASSUME NEW P, NEW L, FlowInv(P, L), NEW g \in Handlers, NEW l,
         Goto(g, l) \/ Return(g) \/ typed' = typed,
         NEW h \in Handlers
  PROVE  ~Accepts(h)
  BY DEF FlowInv, FlowType, Goto, Return, Accepts

LEMMA FlowAcceptsNothing ==
  ASSUME NEW P, NEW L, FlowInv(P, L), NEW g \in Handlers,
         FlowStart(g) \/ FlowResend(g) \/ FlowRefuse(g) \/ Crash(g) \/ Tick,
         NEW h \in Handlers
  PROVE  ~Accepts(h)
<1>1. CASE FlowStart(g)
  BY <1>1, MovingAcceptsNothing
  DEF FlowStart, StartPut, StartMail, StartMailFails, StartDel
<1>2. CASE FlowResend(g)
  BY <1>2, MovingAcceptsNothing
  DEF FlowResend, ResendDraw, ResendPut, ResendMail, ResendMailFails
<1>3. CASE FlowRefuse(g)
  BY <1>3, MovingAcceptsNothing
  DEF FlowRefuse, VerifyRefused, VerifyWrong, ErrPut, ErrDel
<1>4. CASE Crash(g) \/ Tick
  BY <1>4, MovingAcceptsNothing DEF Crash, Tick, handlers
<1> QED BY <1>1, <1>2, <1>3, <1>4

LEMMA RightAcceptsInTime ==
  ASSUME NEW P, NEW L, FlowInv(P, L), NEW g \in Handlers, NEW k \in Keys,
         NEW code \in CanType(k), NEW l, VerifyRight(g, k, code, l),
         NEW h \in Handlers, Accepts(h)
  PROVE  now <= issued[typed'[h]].lastSent + OTPTTL
<1>1. typed'[h] = code
  BY DEF VerifyRight, Accepts, FlowInv, FlowType
<1>2. now <= issued[code].lastSent + OTPTTL
  BY RightMeans
<1> QED BY <1>1, <1>2

-----------------------------------------------------------------------------
\* A shared step of one handler leaves the others where they are, ends at a
\* shared label, accepts no code and recalls no mail; only the draws change what
\* is issued.
LEMMA FlowMovesOne ==
  ASSUME NEW P, NEW L, FlowInv(P, L), NEW h \in Handlers,
         FlowStart(h) \/ FlowResend(h) \/ FlowRefuse(h) \/ Crash(h)
  PROVE  /\ \A g \in Handlers \ {h} : UNCHANGED <<pc[g], held[g], typed[g]>>
         /\ pc'[h] \in FlowLabels
         /\ spent' = spent /\ mails \subseteq mails'
         /\ issued' = issued \/ \E k \in Keys, c \in Codes : ResendDraw(h, k, c)
<1> USE DEF FlowInv, FlowType, FlowLabels, Goto, Return, history, draws
<1>1. CASE FlowStart(h)
  BY <1>1 DEF FlowStart, StartPut, StartMail, StartMailFails, StartDel
<1>2. CASE FlowResend(h)
  BY <1>2 DEF FlowResend, ResendDraw, ResendPut, ResendMail, ResendMailFails
<1>3. CASE FlowRefuse(h)
  BY <1>3 DEF FlowRefuse, VerifyRefused, VerifyWrong, ErrPut, ErrDel
<1>4. CASE Crash(h)
  BY <1>4 DEF Crash
<1> QED BY <1>1, <1>2, <1>3, <1>4

\* A Start or Resend delivers no mail but one of the code its request holds, and
\* every other mail has another code.
LEMMA FlowMails ==
  ASSUME NEW P, NEW L, FlowInv(P, L), NEW h \in Handlers, FlowStart(h) \/ FlowResend(h)
  PROVE  \/ mails' = mails
         \/ \E m \in [to : Keys, code : Codes, payload : P] :
               /\ mails' = mails \cup {m}
               /\ \A n \in mails : n.code = m.code => n = m
<1>1. \/ mails' = mails
      \/ pc[h] \in {"startMail", "resendMail"} /\ mails' = mails \cup {MailOf(held[h])}
  BY DEF FlowStart, StartPut, StartMail, StartMailFails, StartDel,
         FlowResend, ResendDraw, ResendPut, ResendMail, ResendMailFails, history, draws
<1>2. CASE pc[h] \in {"startMail", "resendMail"} /\ mails' = mails \cup {MailOf(held[h])}
  <2>1. held[h] \in Challenge(P) /\ Genuine(held[h])
    BY <1>2 DEF FlowInv, HeldWhileBusy, FlowType, CopiesGenuine
  <2>2. MailOf(held[h]) \in [to : Keys, code : Codes, payload : P]
    BY <2>1 DEF MailOf, Challenge
  <2>3. \A n \in mails : n.code = MailOf(held[h]).code => n = MailOf(held[h])
    BY <2>1 DEF FlowInv, MailsGenuine, Genuine, MailOf, FlowType
  <2> QED BY <1>2, <2>2, <2>3
<1> QED BY <1>1, <1>2

\* A mail of a code that came back already is one that was delivered before.
LEMMA FlowReturnsNothing ==
  ASSUME NEW P, NEW L, FlowInv(P, L), NEW h \in Handlers, FlowStart(h) \/ FlowResend(h)
  PROVE  {n \in mails : n.code \in spent}' = {n \in mails : n.code \in spent}
<1>1. spent' = spent
  BY FlowMovesOne
<1>2. mails' = mails \/ \E m : /\ mails' = mails \cup {m}
                               /\ \A n \in mails : n.code = m.code => n = m
  BY FlowMails
<1> QED BY <1>1, <1>2 DEF FlowInv, SpentWasMailed

\* Nothing else delivers a mail, and only an accepted verify takes a code back.
LEMMA OthersMailNothing ==
  ASSUME NEW P, NEW L, FlowInv(P, L), NEW h \in Handlers,
         \/ FlowRefuse(h) \/ Crash(h) \/ Tick
         \/ \E k \in Keys, p \in P, c \in Codes : StartDraw(h, k, p, c)
  PROVE  UNCHANGED <<mails, spent>>
BY DEF FlowRefuse, VerifyRefused, VerifyWrong, ErrPut, ErrDel, Crash, Tick, StartDraw,
       history, draws

-----------------------------------------------------------------------------
(* Requests one at a time: every shared step keeps CountInv, whichever set U *)
(* a flow counts as used up and whatever its labels D and K are.             *)

OwnAside(D, K) == D \cap FlowLabels = {} /\ K \cap FlowLabels = {}

\* While one handler has a request, the others have none.
LEMMA OthersIdle ==
  ASSUME OneAtATime, OneAtATime', NEW h \in Handlers, pc[h] # "idle" \/ pc'[h] # "idle",
         \A g \in Handlers \ {h} : pc'[g] = pc[g]
  PROVE  \A g \in Handlers \ {h} : pc[g] = "idle" /\ pc'[g] = "idle"
  BY DEF OneAtATime

\* What the invariants say of the challenge a busy handler holds.
LEMMA HeldMeans ==
  ASSUME NEW P, NEW L, FlowInv(P, L), NEW h \in Handlers, pc[h] # "idle"
  PROVE  /\ held[h] \in Challenge(P) /\ held[h].code \in Issued /\ held[h].code \in Codes
         /\ held[h].key \in Keys /\ issued[held[h].code].key = held[h].key
         /\ held[h].lastSent \in Nat /\ held[h].otpExp \in Nat
         /\ issued[held[h].code].otpExp = held[h].otpExp
         /\ issued[held[h].code].lastSent = held[h].lastSent
         /\ held[h].otpExp = held[h].lastSent + OTPTTL
<1>1. held[h] \in Challenge(P) /\ Genuine(held[h])
  BY DEF FlowInv, HeldWhileBusy, FlowType, CopiesGenuine
<1> QED BY <1>1 DEF Genuine, Challenge, FlowInv, DrawnAsCoded

\* What they say of a stored challenge.
LEMMA StoredMeans ==
  ASSUME NEW P, NEW L, FlowInv(P, L), NEW k \in Keys, pend[k] # None
  PROVE  /\ pend[k] \in Challenge(P) /\ pend[k].code \in Issued /\ pend[k].code \in Codes
         /\ pend[k].key = k /\ issued[pend[k].code].key = k
         /\ pend[k].otpExp \in Nat /\ pend[k].lastSent \in Nat /\ pend[k].attempts \in Nat
         /\ issued[pend[k].code].otpExp = pend[k].otpExp
         /\ issued[pend[k].code].lastSent = pend[k].lastSent
<1>1. pend[k] \in Challenge(P) /\ Genuine(pend[k]) /\ pend[k].key = k
  BY DEF FlowInv, FlowType, CopiesGenuine
<1> QED BY <1>1 DEF Genuine, Challenge

LEMMA DrawCounts ==
  ASSUME NEW P, NEW L, NEW U, NEW D, NEW K, None \notin Challenge(P), OwnAside(D, K),
         FlowInv(P, L), CountInv(U, D, K), OneAtATime',
         NEW h \in Handlers, NEW ch \in Challenge(P), NEW l \in Drawing,
         pc[h] = "idle", ch.code \notin Issued, ch.lastSent = now, ch.attempts = 0,
         Issue(ch), held' = [held EXCEPT ![h] = ch], pc' = [pc EXCEPT ![h] = l],
         UNCHANGED <<now, redis, answered, tries>>
  PROVE  CountInv(U, D, K)'
<1>0. FlowType(P, L) /\ HeldWhileBusy
  BY DEF FlowInv
<1>1. /\ Issued' = Issued \cup {ch.code}
      /\ issued'[ch.code] = ch
      /\ \A d \in Issued : issued'[d] = issued[d] /\ d # ch.code
  BY <1>0, IssueKeeps
<1>2. ch.code \in Codes /\ ch.key \in Keys /\ latest' = [latest EXCEPT ![ch.key] = ch.code]
  BY DEF Challenge, Issue
<1>3. /\ pc'[h] = l /\ held'[h] = ch /\ l # "idle"
      /\ \A g \in Handlers \ {h} : pc'[g] = pc[g] /\ held'[g] = held[g]
  BY <1>0 DEF FlowType, Drawing
<1>4. \A g \in Handlers : pc[g] = "idle" /\ held[g] = None
  BY <1>0, <1>3, OthersIdle DEF CountInv, HeldWhileBusy
<1>5. ch.code \notin answered /\ ch.code \notin U /\ tries[ch.code] = 0
  BY <1>2 DEF CountInv, TriesCounted
<1>6. SamePlace'
  BY <1>3, <1>4 DEF SamePlace
<1>7. TriesCounted(U)'
  <2>1. now \in Nat
    BY <1>0 DEF FlowType
  <2> QED BY <1>1, <1>5, <2>1 DEF CountInv, TriesCounted
<1>8. LatestIssued'
  BY <1>0, <1>1, <1>2 DEF CountInv, LatestIssued, FlowType
<1>9. StoredCounts(U, D)'
  BY <1>3, <1>4 DEF CountInv, StoredCounts, OwnAside, FlowLabels, redis
<1>10. UsableStored(U)'
  <2> SUFFICES ASSUME NEW k \in Keys, Usable(k, U)'
               PROVE  pend'[k] # None /\ pend'[k].code = latest'[k]
    BY DEF UsableStored
  <2>1. k # ch.key /\ latest'[k] = latest[k]
    BY <1>0, <1>2, <1>5 DEF Usable, FlowType
  <2>2. latest[k] \in answered /\ latest[k] \in Codes /\ latest[k] \in Issued
    BY <1>0, <2>1 DEF Usable, FlowType, CountInv, TriesCounted
  <2>3. Usable(k, U)
    BY <1>1, <2>1, <2>2 DEF Usable
  <2> QED BY <2>1, <2>3 DEF CountInv, UsableStored, redis
<1>11. HeldCounts(U, K)'
  <2>1. ch.attempts = tries'[ch.code] /\ latest'[ch.key] = ch.code
    BY <1>0, <1>2, <1>5 DEF FlowType
  <2>2. l \in {"startPut", "resendPut"} /\ l \notin K
    BY DEF Drawing, OwnAside, FlowLabels
  <2>3. \A g \in Handlers \ {h} : pc'[g] = "idle" /\ "idle" \notin K
    BY <1>3, <1>4 DEF OwnAside, FlowLabels
  <2> QED BY <1>3, <1>5, <2>1, <2>2, <2>3 DEF HeldCounts, FlowLabels, Refusing
<1> QED BY <1>6, <1>7, <1>8, <1>9, <1>10, <1>11 DEF CountInv

\* Where a put leads.
PutTo == [startPut |-> "startMail", resendPut |-> "resendMail",
          errPutKeep |-> "idle", errPutDrop |-> "errDel"]

LEMMA PutCounts ==
  ASSUME NEW P, NEW L, NEW U, NEW D, NEW K, None \notin Challenge(P), OwnAside(D, K),
         FlowInv(P, L), CountInv(U, D, K), OneAtATime', NEW h \in Handlers,
         pc[h] \in {"startPut", "resendPut", "errPutKeep", "errPutDrop"},
         pc' = [pc EXCEPT ![h] = PutTo[pc[h]]], held' \in {held, [held EXCEPT ![h] = None]},
         pc'[h] # "idle" => held' = held, pc'[h] = "idle" => held'[h] = None,
         Put(held[h]), UNCHANGED <<now, issued, latest, answered, tries>>
  PROVE  CountInv(U, D, K)'
<1> DEFINE ch == held[h]
<1>0. FlowType(P, L) /\ HeldWhileBusy
  BY DEF FlowInv
<1>1. /\ ch \in Challenge(P) /\ ch.code \in Issued /\ ch.code \in Codes
      /\ ch.key \in Keys /\ issued[ch.code].key = ch.key
      /\ ch.lastSent \in Nat /\ ch.otpExp = ch.lastSent + OTPTTL
      /\ issued[ch.code].lastSent = ch.lastSent
  BY HeldMeans
<1>2. /\ pend'[ch.key] = ch /\ dies'[ch.key] = now + ChallengeTTL
      /\ \A k \in Keys \ {ch.key} : pend'[k] = pend[k] /\ dies'[k] = dies[k]
  BY <1>0, <1>1 DEF Put, FlowType
<1>3. \A g \in Handlers \ {h} : pc'[g] = pc[g] /\ held'[g] = held[g]
  BY <1>0 DEF FlowType
<1>4. \A g \in Handlers \ {h} : pc[g] = "idle" /\ pc'[g] = "idle" /\ held[g] = None /\ held'[g] = None
  BY <1>0, <1>3, OthersIdle DEF CountInv, HeldWhileBusy
<1>5. ch.attempts = tries[ch.code] /\ ch.code \notin U
  BY DEF CountInv, HeldCounts, FlowLabels
<1>6. \/ pc[h] = "startPut" /\ pc'[h] = "startMail"
      \/ pc[h] = "resendPut" /\ pc'[h] = "resendMail"
      \/ pc[h] = "errPutKeep" /\ pc'[h] = "idle"
      \/ pc[h] = "errPutDrop" /\ pc'[h] = "errDel"
  BY <1>0 DEF PutTo, FlowType
<1>7. ch # None
  BY <1>1
<1>8. pc[h] \in {"startPut", "resendPut"} => latest[ch.key] = ch.code /\ ch.code \notin answered
  BY DEF CountInv, HeldCounts, FlowLabels, Refusing
<1> HIDE DEF ch
<1>9. SamePlace'
  BY <1>2, <1>3, <1>4, <1>7 DEF SamePlace, ch
<1>10. TriesCounted(U)' /\ LatestIssued'
  BY DEF CountInv, TriesCounted, LatestIssued, Issued
<1>11. StoredCounts(U, D)'
  <2>1. now \in Nat /\ ch.lastSent <= now
    BY <1>0, <1>1 DEF CountInv, TriesCounted, FlowType
  <2>2. ch.otpExp < dies'[ch.key]
    BY <1>1, <1>2, <2>1
  <2>3. ASSUME NEW k \in Keys \ {ch.key}, pend[k] # None
        PROVE  /\ pend[k].otpExp < dies[k] /\ pend[k].attempts = tries[pend[k].code]
               /\ pend[k].code \notin U
    <3>1. pend[k].code # ch.code
      BY <1>1, <2>3, StoredMeans
    <3>2. \A g \in Handlers : pc[g] = "errPutKeep" \/ pc[g] \in D => held[g].code # pend[k].code
      BY <1>4, <3>1 DEF OwnAside, FlowLabels, ch
    <3> QED BY <2>3, <3>2 DEF CountInv, StoredCounts
  <2> QED BY <1>2, <1>5, <2>2, <2>3 DEF StoredCounts
<1>12. UsableStored(U)'
  <2> SUFFICES ASSUME NEW k \in Keys, Usable(k, U)
               PROVE  pend'[k] # None /\ pend'[k].code = latest[k]
    BY DEF UsableStored, Usable
  <2>1. pend[k] # None /\ pend[k].code = latest[k]
    BY DEF CountInv, UsableStored
  <2>2. CASE k = ch.key
    <3>1. pend[k].code = ch.code \/ pc[h] \in {"startPut", "resendPut"}
      BY <1>7, <2>1, <2>2 DEF CountInv, SamePlace, Drawing, ch
    <3> QED BY <1>2, <1>7, <1>8, <2>1, <2>2, <3>1
  <2> QED BY <1>2, <2>1, <2>2
<1>13. HeldCounts(U, K)'
  <2>1. pc'[h] # "idle" => held'[h] = ch
    BY DEF ch
  <2>2. pc[h] = "errPutDrop" => ~Usable(ch.key, U)
    BY DEF CountInv, HeldCounts, ch
  <2>3. pc'[h] \notin K /\ "idle" \notin K
    BY <1>6 DEF OwnAside, FlowLabels
  <2>4. ASSUME NEW g \in Handlers, g # h
        PROVE  pc'[g] = "idle"
    BY <1>4, <2>4
  <2>5. CASE pc'[h] = "idle"
    BY <2>3, <2>4, <2>5 DEF HeldCounts, FlowLabels, Refusing
  <2>6. CASE pc'[h] \in {"startMail", "resendMail"}
    BY <1>2, <1>5, <1>6, <1>7, <1>8, <2>1, <2>3, <2>4, <2>6 DEF HeldCounts, FlowLabels, Refusing
  <2>7. CASE pc'[h] = "errDel"
    <3>1. pc'[h] \notin {"idle", "startPut", "startMail", "startDel", "resendPut", "resendMail"}
      BY <2>7
    <3>2. /\ latest'[ch.key] \in answered' \ U
          /\ now' <= issued'[latest'[ch.key]].otpExp
          /\ tries'[latest'[ch.key]] < MaxVerifyAttempts
          => FALSE
      BY <1>6, <2>2, <2>7 DEF Usable
    <3>3. pc'[h] # "idle" /\ held'[h] = ch
      BY <2>1, <2>7
    <3>4. \A g \in Handlers : pc'[g] # "idle" => g = h
      BY <2>4
    <3> QED BY <1>5, <2>3, <3>1, <3>2, <3>3, <3>4 DEF HeldCounts, FlowLabels, Refusing, Usable
  <2> QED BY <1>6, <2>5, <2>6, <2>7
<1> QED BY <1>9, <1>10, <1>11, <1>12, <1>13 DEF CountInv

\* A mail is sent, and the request answers 200, ends, or deletes its challenge.
LEMMA SendCounts ==
  ASSUME NEW P, NEW L, NEW U, NEW D, NEW K, None \notin Challenge(P), OwnAside(D, K),
         FlowInv(P, L), CountInv(U, D, K), OneAtATime', NEW h \in Handlers,
         pc[h] \in {"startMail", "resendMail"},
         \/ Return(h) /\ answered' \in {answered, answered \cup {held[h].code}}
         \/ Goto(h, "startDel") /\ answered' = answered,
         UNCHANGED <<now, redis, issued, latest, tries>>
  PROVE  CountInv(U, D, K)'
<1> DEFINE ch == held[h]
<1>0. FlowType(P, L) /\ HeldWhileBusy
  BY DEF FlowInv
<1>1. /\ ch \in Challenge(P) /\ ch.code \in Issued /\ ch.code \in Codes
      /\ ch.key \in Keys /\ issued[ch.code].key = ch.key
      /\ issued[ch.code].otpExp = ch.otpExp
  BY HeldMeans
<1>2. ch.attempts = tries[ch.code] /\ ch.code \notin U
  BY DEF CountInv, HeldCounts, FlowLabels
<1>3. \A g \in Handlers \ {h} : pc'[g] = pc[g] /\ held'[g] = held[g]
  BY <1>0 DEF FlowType, Return, Goto
<1>4. \A g \in Handlers \ {h} : pc[g] = "idle" /\ pc'[g] = "idle" /\ held[g] = None /\ held'[g] = None
  BY <1>0, <1>3, OthersIdle DEF CountInv, HeldWhileBusy
<1>5. /\ latest[ch.key] = ch.code /\ ch.code \notin answered
      /\ now <= ch.otpExp => pend[ch.key] # None /\ pend[ch.key].code = ch.code
  BY DEF CountInv, HeldCounts, FlowLabels, Refusing
<1> HIDE DEF ch
<1>6. SamePlace'
  BY <1>0, <1>4 DEF CountInv, SamePlace, FlowType, Goto, Return, redis, Drawing
<1>7. TriesCounted(U)' /\ LatestIssued'
  BY <1>1 DEF CountInv, TriesCounted, LatestIssued, Issued, ch
<1>8. StoredCounts(U, D)'
  BY <1>4 DEF CountInv, StoredCounts, OwnAside, FlowLabels, redis
<1>9. UsableStored(U)'
  <2> SUFFICES ASSUME NEW k \in Keys, Usable(k, U)'
               PROVE  pend[k] # None /\ pend[k].code = latest[k]
    BY DEF UsableStored, redis
  <2>1. CASE latest[k] \in answered
    <3>1. Usable(k, U)
      BY <2>1 DEF Usable
    <3> QED BY <3>1 DEF CountInv, UsableStored
  <2>2. CASE latest[k] \notin answered
    <3>1. latest[k] = ch.code
      BY <2>2 DEF Usable, ch
    <3>2. k = ch.key
      BY <1>0, <1>1, <3>1, FlowAssumption DEF CountInv, LatestIssued
    <3>3. now <= ch.otpExp
      BY <1>1, <3>1 DEF Usable
    <3> QED BY <1>5, <3>1, <3>2, <3>3
  <2> QED BY <2>1, <2>2
<1>10. HeldCounts(U, K)'
  <2>1. CASE Return(h)
    <3>1. \A g \in Handlers : pc'[g] = "idle"
      BY <1>0, <1>4, <2>1 DEF Return, FlowType
    <3> QED BY <3>1 DEF HeldCounts, OwnAside, FlowLabels
  <2>2. CASE Goto(h, "startDel") /\ answered' = answered
    <3>1. pc'[h] = "startDel" /\ held'[h] = ch
      BY <1>0, <2>2 DEF Goto, FlowType, ch
    <3>2. "startDel" \notin K /\ "idle" \notin K
      BY DEF OwnAside, FlowLabels
    <3> QED BY <1>2, <1>4, <1>5, <2>2, <3>1, <3>2 DEF HeldCounts, FlowLabels, Refusing
  <2> QED BY <2>1, <2>2
<1> QED BY <1>6, <1>7, <1>8, <1>9, <1>10 DEF CountInv

\* A challenge whose code is not usable is deleted.
LEMMA DropCounts ==
  ASSUME NEW P, NEW L, NEW U, NEW D, NEW K, None \notin Challenge(P), OwnAside(D, K),
         FlowInv(P, L), CountInv(U, D, K), OneAtATime', NEW h \in Handlers,
         pc[h] \in {"startDel", "errDel"}, Delete(held[h].key), Return(h),
         UNCHANGED <<now, issued, latest, answered, tries>>
  PROVE  CountInv(U, D, K)'
<1> DEFINE ch == held[h]
<1>0. FlowType(P, L) /\ HeldWhileBusy
  BY DEF FlowInv
<1>1. /\ ch \in Challenge(P) /\ ch.code \in Issued /\ ch.code \in Codes
      /\ ch.key \in Keys /\ issued[ch.code].key = ch.key
      /\ issued[ch.code].otpExp = ch.otpExp
  BY HeldMeans
<1>2. ch.attempts = tries[ch.code] /\ ch.code \notin U
  BY DEF CountInv, HeldCounts, FlowLabels
<1>3. \A g \in Handlers \ {h} : pc'[g] = pc[g] /\ held'[g] = held[g]
  BY <1>0 DEF FlowType, Return, Goto
<1>4. \A g \in Handlers \ {h} : pc[g] = "idle" /\ pc'[g] = "idle" /\ held[g] = None /\ held'[g] = None
  BY <1>0, <1>3, OthersIdle DEF CountInv, HeldWhileBusy
<1>5. ~Usable(ch.key, U)
  BY DEF CountInv, HeldCounts, FlowLabels, Refusing, Usable
<1> HIDE DEF ch
<1>6. \A g \in Handlers : pc'[g] = "idle" /\ held'[g] = None
  BY <1>0, <1>4 DEF Return, FlowType
<1>7. pend'[ch.key] = None /\ \A k \in Keys \ {ch.key} : pend'[k] = pend[k] /\ dies'[k] = dies[k]
  BY <1>0, <1>1 DEF Delete, FlowType, ch
<1>8. SamePlace' /\ HeldCounts(U, K)'
  BY <1>6 DEF SamePlace, HeldCounts, OwnAside, FlowLabels
<1>9. TriesCounted(U)' /\ LatestIssued'
  BY DEF CountInv, TriesCounted, LatestIssued, Issued
<1>10. StoredCounts(U, D)'
  BY <1>4, <1>7 DEF CountInv, StoredCounts, OwnAside, FlowLabels
<1>11. UsableStored(U)'
  BY <1>5, <1>7 DEF CountInv, UsableStored, Usable
<1> QED BY <1>8, <1>9, <1>10, <1>11 DEF CountInv

\* With no request in flight, every stored challenge counts its code's
\* comparisons, and none is for a code used up.
LEMMA QuietStore ==
  ASSUME NEW U, NEW D, NEW K, OwnAside(D, K), CountInv(U, D, K),
         \A g \in Handlers : pc[g] = "idle"
  PROVE  \A k \in Keys : pend[k] # None =>
            pend[k].attempts = tries[pend[k].code] /\ pend[k].code \notin U
  BY DEF CountInv, StoredCounts, OwnAside, FlowLabels

\* What a Verify finds.
LEMMA VerifyFinds ==
  ASSUME NEW P, NEW L, NEW U, NEW D, NEW K, OwnAside(D, K),
         FlowInv(P, L), CountInv(U, D, K), OneAtATime', NEW h \in Handlers,
         pc[h] = "idle", pc'[h] # "idle",
         \A g \in Handlers \ {h} : pc'[g] = pc[g] /\ held'[g] = held[g]
  PROVE  /\ \A g \in Handlers : pc[g] = "idle"
         /\ \A g \in Handlers \ {h} : pc'[g] = "idle" /\ held'[g] = None
         /\ \A j \in Keys : pend[j] # None =>
                pend[j].attempts = tries[pend[j].code] /\ pend[j].code \notin U
<1>1. \A g \in Handlers : pc[g] = "idle"
  BY OthersIdle DEF CountInv
<1>2. \A g \in Handlers \ {h} : pc'[g] = "idle" /\ held'[g] = None
  BY <1>1 DEF FlowInv, HeldWhileBusy
<1> QED BY <1>1, <1>2, QuietStore

LEMMA RefusedCounts ==
  ASSUME NEW P, NEW L, NEW U, NEW D, NEW K, None \notin Challenge(P), OwnAside(D, K),
         FlowInv(P, L), CountInv(U, D, K), OneAtATime', NEW h \in Handlers,
         NEW k \in Keys, VerifyRefused(h, k)
  PROVE  CountInv(U, D, K)'
<1> DEFINE ch == pend[k]
<1>0. /\ pc[h] = "idle" /\ pend[k] # None /\ held' = [held EXCEPT ![h] = ch]
      /\ pc' = [pc EXCEPT ![h] = "errPutDrop"]
      /\ TooManyTries(ch) \/ Expired(ch, now)
      /\ UNCHANGED <<now, pend, dies, issued, latest, answered, tries>>
  BY DEF VerifyRefused, history, redis
<1>1. /\ ch.code \in Issued /\ ch.key = k /\ issued[ch.code].otpExp = ch.otpExp
      /\ ch.otpExp \in Nat /\ ch.attempts \in Nat
  BY <1>0, StoredMeans
<1>2. /\ \A g \in Handlers : pc[g] = "idle"
      /\ \A g \in Handlers \ {h} : pc'[g] = "idle" /\ held'[g] = None
      /\ pc'[h] = "errPutDrop" /\ held'[h] = ch
      /\ \A j \in Keys : pend[j] # None =>
            pend[j].attempts = tries[pend[j].code] /\ pend[j].code \notin U
  <2>1. /\ pc'[h] = "errPutDrop" /\ held'[h] = ch
        /\ \A g \in Handlers \ {h} : pc'[g] = pc[g] /\ held'[g] = held[g]
    BY <1>0 DEF FlowInv, FlowType
  <2> QED BY <1>0, <2>1, VerifyFinds
<1>3. ~Usable(k, U)
  <2>1. now \in Nat
    BY DEF FlowInv, FlowType
  <2>2. ch.attempts >= MaxVerifyAttempts \/ now > ch.otpExp
    BY <1>0 DEF TooManyTries, Expired
  <2>3. Usable(k, U) => ch.code = latest[k]
    BY DEF CountInv, UsableStored
  <2> QED BY <1>0, <1>1, <1>2, <2>1, <2>2, <2>3, OtpAssumption DEF Usable
<1>4. SamePlace'
  BY <1>0, <1>1, <1>2 DEF SamePlace
<1>5. TriesCounted(U)' /\ LatestIssued' /\ UsableStored(U)'
  BY <1>0 DEF CountInv, TriesCounted, LatestIssued, UsableStored, Usable, Issued
<1>6. StoredCounts(U, D)'
  BY <1>0, <1>2 DEF CountInv, StoredCounts
<1>7. HeldCounts(U, K)'
  <2>1. "errPutDrop" \notin K /\ "idle" \notin K
    BY DEF OwnAside, FlowLabels
  <2>2. ch.attempts = tries'[ch.code] /\ ch.code \notin U
    BY <1>0, <1>2
  <2>3. /\ latest'[k] \in answered' \ U
        /\ now' <= issued'[latest'[k]].otpExp
        /\ tries'[latest'[k]] < MaxVerifyAttempts
        => FALSE
    BY <1>0, <1>3 DEF Usable
  <2>4. held'[h].key = k
    BY <1>1, <1>2
  <2> QED BY <1>2, <2>1, <2>2, <2>3, <2>4 DEF HeldCounts, FlowLabels, Refusing, Usable
<1> QED BY <1>4, <1>5, <1>6, <1>7 DEF CountInv

LEMMA WrongCounts ==
  ASSUME NEW P, NEW L, NEW U, NEW D, NEW K, None \notin Challenge(P), OwnAside(D, K),
         FlowInv(P, L), CountInv(U, D, K), OneAtATime', NEW h \in Handlers,
         NEW k \in Keys, NEW code, VerifyWrong(h, k, code)
  PROVE  CountInv(U, D, K)'
<1> DEFINE ch == Counted(pend[k])
           c  == pend[k].code
<1>0. /\ pc[h] = "idle" /\ pend[k] # None /\ held' = [held EXCEPT ![h] = ch]
      /\ pc' = [pc EXCEPT ![h] = "errPutKeep"]
      /\ pend[k].attempts < MaxVerifyAttempts
      /\ tries' = [tries EXCEPT ![c] = IF @ > MaxVerifyAttempts THEN @ ELSE @ + 1]
      /\ UNCHANGED <<now, pend, dies, issued, latest, answered>>
  <2>1. pend[k] \in Challenge(P)
    BY StoredMeans DEF VerifyWrong
  <2> QED BY <2>1, OtpAssumption
          DEF VerifyWrong, Compared, TooManyTries, Challenge, draws, redis
<1>1. /\ pend[k] \in Challenge(P) /\ c \in Issued /\ c \in Codes /\ pend[k].key = k
      /\ pend[k].attempts \in Nat
  BY <1>0, StoredMeans
<1>2. ch.key = k /\ ch.code = c /\ ch.attempts = pend[k].attempts + 1
  BY <1>1 DEF Counted, Challenge
<1> HIDE DEF ch
<1>3. /\ \A g \in Handlers : pc[g] = "idle"
      /\ \A g \in Handlers \ {h} : pc'[g] = "idle" /\ held'[g] = None
      /\ pc'[h] = "errPutKeep" /\ held'[h] = ch
      /\ \A j \in Keys : pend[j] # None =>
            pend[j].attempts = tries[pend[j].code] /\ pend[j].code \notin U
  <2>1. /\ pc'[h] = "errPutKeep" /\ held'[h] = ch
        /\ \A g \in Handlers \ {h} : pc'[g] = pc[g] /\ held'[g] = held[g]
    BY <1>0 DEF FlowInv, FlowType
  <2> QED BY <1>0, <2>1, VerifyFinds
<1>4. /\ tries'[c] = tries[c] + 1 /\ tries[c] < MaxVerifyAttempts /\ tries[c] \in Nat
      /\ \A d \in Codes \ {c} : tries'[d] = tries[d]
  <2>1. tries \in [Codes -> Nat] /\ tries[c] = pend[k].attempts
    BY <1>0, <1>3 DEF FlowInv, FlowType
  <2> QED BY <1>0, <1>1, <2>1, OtpAssumption
<1> HIDE DEF c
<1>5. SamePlace'
  BY <1>0, <1>2, <1>3 DEF SamePlace, c
<1>6. TriesCounted(U)'
  BY <1>0, <1>1, <1>4, OtpAssumption DEF CountInv, TriesCounted, Issued
<1>7. LatestIssued'
  BY <1>0 DEF CountInv, LatestIssued, Issued
<1>8. UsableStored(U)'
  <2> SUFFICES ASSUME NEW j \in Keys, Usable(j, U)'
               PROVE  pend[j] # None /\ pend[j].code = latest[j]
    BY <1>0 DEF UsableStored
  <2>1. latest[j] \in Codes
    BY <1>0 DEF Usable, FlowInv, FlowType
  <2>2. tries[latest[j]] < MaxVerifyAttempts
    BY <1>0, <1>4, <2>1 DEF Usable
  <2>3. Usable(j, U)
    BY <1>0, <2>2 DEF Usable
  <2> QED BY <2>3 DEF CountInv, UsableStored
<1>9. StoredCounts(U, D)'
  <2> SUFFICES ASSUME NEW j \in Keys, pend[j] # None
               PROVE  /\ pend[j].otpExp < dies[j]
                      /\ \/ pend[j].attempts = tries'[pend[j].code]
                         \/ pend[j].code = c
                      /\ pend[j].code \notin U
    BY <1>0, <1>2, <1>3 DEF StoredCounts
  <2>1. pend[j].code \in Codes
    BY StoredMeans
  <2> QED BY <1>3, <1>4, <2>1 DEF CountInv, StoredCounts
<1>10. HeldCounts(U, K)'
  <2>1. "errPutKeep" \notin K /\ "idle" \notin K
    BY DEF OwnAside, FlowLabels
  <2>2. ch.attempts = tries'[ch.code] /\ ch.code \notin U
    BY <1>0, <1>2, <1>3, <1>4 DEF c
  <2> QED BY <1>3, <2>1, <2>2 DEF HeldCounts, FlowLabels, Refusing
<1> QED BY <1>5, <1>6, <1>7, <1>8, <1>9, <1>10 DEF CountInv

\* An accepted code is used up from now on, or not yet (V).
LEMMA RightCounts ==
  ASSUME NEW P, NEW L, NEW U, NEW D, NEW K, None \notin Challenge(P), OwnAside(D, K),
         FlowInv(P, L), CountInv(U, D, K), OneAtATime', NEW h \in Handlers,
         NEW k \in Keys, NEW code \in CanType(k), NEW l \in D, VerifyRight(h, k, code, l),
         NEW V, V \in {U, U \cup {code}}
  PROVE  CountInv(V, D, K)'
<1> DEFINE ch == Counted(pend[k])
<1>0. /\ pc[h] = "idle" /\ pend[k] # None /\ held' = [held EXCEPT ![h] = ch]
      /\ pc' = [pc EXCEPT ![h] = l] /\ l \notin FlowLabels /\ l # "idle"
      /\ UNCHANGED <<now, pend, dies, issued, latest, answered, tries>>
  BY DEF VerifyRight, OwnAside, FlowLabels, draws, redis
<1>1. /\ pend[k] \in Challenge(P) /\ code \in Issued /\ code \in Codes
      /\ pend[k].key = k /\ code = pend[k].code
  BY <1>0, StoredMeans, RightMeans
<1>2. ch.key = k /\ ch.code = code
  BY <1>1, CountedFields
<1> HIDE DEF ch
<1>3. /\ \A g \in Handlers : pc[g] = "idle"
      /\ \A g \in Handlers \ {h} : pc'[g] = "idle" /\ held'[g] = None
      /\ pc'[h] = l /\ held'[h] = ch
      /\ \A j \in Keys : pend[j] # None =>
            pend[j].attempts = tries[pend[j].code] /\ pend[j].code \notin U
  <2>1. /\ pc'[h] = l /\ held'[h] = ch
        /\ \A g \in Handlers \ {h} : pc'[g] = pc[g] /\ held'[g] = held[g]
    BY <1>0 DEF FlowInv, FlowType
  <2> QED BY <1>0, <2>1, VerifyFinds
<1>4. SamePlace'
  BY <1>0, <1>1, <1>2, <1>3 DEF SamePlace
<1>5. TriesCounted(V)'
  BY <1>0, <1>1 DEF CountInv, TriesCounted, Issued
<1>6. LatestIssued'
  BY <1>0 DEF CountInv, LatestIssued, Issued
<1>7. UsableStored(V)'
  BY <1>0 DEF CountInv, UsableStored, Usable
<1>8. StoredCounts(V, D)'
  BY <1>0, <1>2, <1>3 DEF CountInv, StoredCounts
<1>9. HeldCounts(V, K)'
  <2>1. "idle" \notin K
    BY DEF OwnAside, FlowLabels
  <2> QED BY <1>0, <1>1, <1>2, <1>3, <2>1 DEF HeldCounts, FlowLabels, Refusing
<1> QED BY <1>4, <1>5, <1>6, <1>7, <1>8, <1>9 DEF CountInv

\* A flow's own step past Verify, after which the codes used up are V: it deletes
\* its challenge, whose code is then used up, or leaves Redis alone.
LEMMA OwnCounts ==
  ASSUME NEW P, NEW L, NEW U, NEW D, NEW K, None \notin Challenge(P), OwnAside(D, K),
         FlowInv(P, L), CountInv(U, D, K), OneAtATime', NEW h \in Handlers,
         NEW V, NEW l, pc[h] \notin FlowLabels, l \notin FlowLabels \ {"idle"},
         V \ {held[h].code} = U \ {held[h].code},
         (l # "idle" /\ Goto(h, l)) \/ (l = "idle" /\ Return(h)),
         \/ Delete(held[h].key) /\ held[h].code \in V /\ l \notin K
         \/ /\ UNCHANGED redis
            /\ l \in D \/ held[h].code \notin V \/ (pc[h] \notin D /\ V = U)
            /\ held[h].code \in U \ V => pc[h] \in K
            /\ l \in K => pc[h] \in K,
         UNCHANGED <<now, issued, latest, answered, tries>>
  PROVE  CountInv(V, D, K)'
<1> DEFINE ch == held[h]
<1>0. FlowType(P, L) /\ HeldWhileBusy /\ pc[h] # "idle" /\ "idle" \notin D \cup K
  BY DEF FlowInv, FlowLabels, OwnAside
<1>1. /\ ch \in Challenge(P) /\ ch.code \in Issued /\ ch.code \in Codes
      /\ ch.key \in Keys /\ issued[ch.code].key = ch.key
      /\ issued[ch.code].otpExp = ch.otpExp
  BY <1>0, HeldMeans
<1>2. /\ pc'[h] = l /\ (l # "idle" => held'[h] = ch) /\ (l = "idle" => held'[h] = None)
      /\ \A g \in Handlers \ {h} : pc'[g] = pc[g] /\ held'[g] = held[g]
  BY <1>0 DEF FlowType, Return, Goto
<1>3. \A g \in Handlers \ {h} : pc[g] = "idle" /\ pc'[g] = "idle" /\ held[g] = None /\ held'[g] = None
  BY <1>0, <1>2, OthersIdle DEF CountInv, HeldWhileBusy
<1>4. pc[h] \in K /\ now <= ch.otpExp => pend[ch.key] # None /\ pend[ch.key].code = ch.code
  BY DEF CountInv, HeldCounts
<1>5. pend[ch.key] # None => pend[ch.key].code = ch.code
  BY <1>0, <1>1 DEF CountInv, SamePlace, Drawing, FlowLabels
<1> HIDE DEF ch
<1>6. \/ /\ pend'[ch.key] = None /\ ch.code \in V /\ l \notin K
         /\ \A k \in Keys \ {ch.key} : pend'[k] = pend[k] /\ dies'[k] = dies[k]
      \/ /\ pend' = pend /\ dies' = dies
         /\ l \in D \/ ch.code \notin V \/ (pc[h] \notin D /\ V = U)
         /\ ch.code \in U \ V => pc[h] \in K
         /\ l \in K => pc[h] \in K
  BY <1>0, <1>1 DEF Delete, FlowType, redis, ch
<1>7. \A d \in Codes \ {ch.code} : d \in V <=> d \in U
  BY DEF ch
<1>8. ASSUME NEW k \in Keys, pend[k] # None
      PROVE  /\ pend[k].otpExp < dies[k] /\ pend[k].attempts = tries[pend[k].code]
             /\ pend[k].code \in Codes
             /\ pend[k].code \in U => pc[h] \in D /\ pend[k].code = ch.code
  <2>1. \A g \in Handlers : pc[g] # "errPutKeep" /\ (pc[g] \in D => g = h)
    BY <1>0, <1>3 DEF FlowLabels
  <2>2. pend[k].code \in Codes
    BY <1>8, StoredMeans
  <2> QED BY <1>8, <2>1, <2>2 DEF CountInv, StoredCounts, ch
<1>9. SamePlace'
  BY <1>1, <1>2, <1>3, <1>5, <1>6 DEF SamePlace
<1>10. TriesCounted(V)' /\ LatestIssued'
  BY <1>1, <1>7 DEF CountInv, TriesCounted, LatestIssued, Issued
<1>11. StoredCounts(V, D)'
  <2> SUFFICES ASSUME NEW k \in Keys, pend'[k] # None
               PROVE  /\ pend'[k].otpExp < dies'[k]
                      /\ pend'[k].attempts = tries[pend'[k].code]
                      /\ pend'[k].code \in V => l \in D /\ ch.code = pend'[k].code
    BY <1>0, <1>2 DEF StoredCounts
  <2>1. pend'[k] = pend[k] /\ dies'[k] = dies[k]
    BY <1>6
  <2>2. CASE pend[k].code = ch.code
    <3>1. k = ch.key
      BY <1>1, <2>1, <2>2, StoredMeans
    <3> QED BY <1>6, <1>8, <2>1, <2>2, <3>1
  <2>3. CASE pend[k].code # ch.code
    BY <1>7, <1>8, <2>1, <2>3
  <2> QED BY <2>2, <2>3
<1>12. UsableStored(V)'
  <2> SUFFICES ASSUME NEW k \in Keys, Usable(k, V)
               PROVE  pend'[k] # None /\ pend'[k].code = latest[k]
    BY DEF UsableStored, Usable
  <2>1. CASE latest[k] # ch.code
    <3>1. latest[k] \in Codes
      BY <1>0 DEF Usable, FlowType
    <3>2. Usable(k, U)
      BY <1>7, <2>1, <3>1 DEF Usable
    <3>3. pend[k] # None /\ pend[k].code = latest[k]
      BY <3>2 DEF CountInv, UsableStored
    <3>4. k # ch.key
      BY <1>5, <2>1, <3>3
    <3> QED BY <1>6, <3>3, <3>4
  <2>2. CASE latest[k] = ch.code
    <3>1. k = ch.key
      BY <1>0, <1>1, <2>2, FlowAssumption DEF CountInv, LatestIssued
    <3>2. ch.code \notin V /\ now <= ch.otpExp
      BY <1>1, <2>2 DEF Usable
    <3>3. pend[k] # None /\ pend[k].code = latest[k]
      <4>1. CASE ch.code \in U
        BY <1>4, <1>6, <2>2, <3>1, <3>2, <4>1
      <4>2. CASE ch.code \notin U
        <5>1. Usable(k, U)
          BY <2>2, <4>2 DEF Usable
        <5> QED BY <5>1 DEF CountInv, UsableStored
      <4> QED BY <4>1, <4>2
    <3> QED BY <1>6, <3>2, <3>3
  <2> QED BY <2>1, <2>2
<1>13. HeldCounts(V, K)'
  <2>1. l \in K => (now <= ch.otpExp => pend'[ch.key] # None /\ pend'[ch.key].code = ch.code)
    BY <1>4, <1>6
  <2>2. l \in K => l # "idle"
    BY <1>0
  <2>3. \A g \in Handlers : pc'[g] \in K => g = h
    BY <1>0, <1>3
  <2>4. \A g \in Handlers : pc'[g] \notin FlowLabels \ {"idle"}
    BY <1>2, <1>3
  <2> QED BY <1>2, <2>1, <2>2, <2>3, <2>4 DEF HeldCounts, FlowLabels, Refusing
<1> QED BY <1>9, <1>10, <1>11, <1>12, <1>13 DEF CountInv

\* Time passes: a stored challenge outlives its code.
LEMMA TickCounts ==
  ASSUME NEW P, NEW L, NEW U, NEW D, NEW K, OwnAside(D, K),
         FlowInv(P, L), CountInv(U, D, K), Tick
  PROVE  CountInv(U, D, K)'
<1>0. FlowType(P, L) /\ now \in Nat /\ now' = now + 1
  BY DEF Tick, FlowInv, FlowType
<1>1. /\ UNCHANGED <<pc, held, issued, latest, answered, tries>>
      /\ \A k \in Keys : pend'[k] # None => pend'[k] = pend[k] /\ dies'[k] = dies[k]
      /\ \A k \in Keys : now' < dies[k] => pend'[k] = pend[k]
  BY <1>0 DEF Tick, handlers, history, FlowType
<1>2. OneAtATime'
  BY <1>1 DEF CountInv, OneAtATime
<1>3. SamePlace'
  <2>1. ASSUME NEW h \in Handlers, held[h] # None PROVE held[h].key \in Keys
    BY <2>1, HeldMeans DEF FlowInv, HeldWhileBusy
  <2> QED BY <1>1, <2>1 DEF CountInv, SamePlace
<1>4. TriesCounted(U)'
  <2>1. \A c \in Issued : issued[c].lastSent \in Nat
    BY <1>0 DEF FlowType, Issued, Challenge
  <2> QED BY <1>0, <1>1, <2>1 DEF CountInv, TriesCounted, Issued
<1>5. LatestIssued'
  BY <1>1 DEF CountInv, LatestIssued, Issued
<1>6. StoredCounts(U, D)'
  BY <1>1 DEF CountInv, StoredCounts
<1>7. \A k \in Keys : pend[k] # None /\ now' <= pend[k].otpExp => pend'[k] = pend[k]
  <2> SUFFICES ASSUME NEW k \in Keys, pend[k] # None, now' <= pend[k].otpExp
               PROVE  now' < dies[k]
    BY <1>1
  <2>1. pend[k].otpExp \in Nat /\ dies[k] \in Nat /\ pend[k].otpExp < dies[k]
    BY <1>0, StoredMeans DEF FlowType, CountInv, StoredCounts
  <2> QED BY <1>0, <2>1
<1>8. \A k \in Keys : Usable(k, U)' => Usable(k, U) /\ now' <= issued[latest[k]].otpExp
  <2> SUFFICES ASSUME NEW k \in Keys, Usable(k, U)'
               PROVE  now <= issued[latest[k]].otpExp /\ now' <= issued[latest[k]].otpExp
    BY <1>1 DEF Usable
  <2>1. latest[k] \in Codes /\ latest[k] \in Issued
    BY <1>0, <1>1 DEF Usable, FlowType, CountInv, TriesCounted
  <2>2. issued[latest[k]].otpExp \in Nat
    BY <1>0, <2>1 DEF FlowType, Challenge, Issued
  <2>3. now' <= issued[latest[k]].otpExp
    BY <1>1 DEF Usable
  <2> QED BY <1>0, <2>2, <2>3
<1>9. UsableStored(U)'
  <2> SUFFICES ASSUME NEW k \in Keys, Usable(k, U)'
               PROVE  pend'[k] # None /\ pend'[k].code = latest[k]
    BY <1>1 DEF UsableStored
  <2>1. pend[k] # None /\ pend[k].code = latest[k] /\ now' <= issued[latest[k]].otpExp
    BY <1>8 DEF CountInv, UsableStored
  <2>2. pend[k].otpExp = issued[latest[k]].otpExp
    BY <2>1, StoredMeans
  <2> QED BY <1>7, <2>1, <2>2
<1>10. HeldCounts(U, K)'
  <2>1. ASSUME NEW h \in Handlers, pc[h] \in {"startMail", "resendMail"} \cup K,
               now' <= held[h].otpExp
        PROVE  pend'[held[h].key] # None /\ pend'[held[h].key].code = held[h].code
    <3>1. pc[h] # "idle" /\ now <= held[h].otpExp
      <4>1. pc[h] # "idle"
        BY <2>1 DEF OwnAside, FlowLabels
      <4> QED BY <1>0, <2>1, <4>1, HeldMeans
    <3>2. held[h].key \in Keys /\ issued[held[h].code].otpExp = held[h].otpExp
      BY <3>1, HeldMeans
    <3>3. pend[held[h].key] # None /\ pend[held[h].key].code = held[h].code
      BY <2>1, <3>1 DEF CountInv, HeldCounts
    <3>4. pend[held[h].key].otpExp = held[h].otpExp
      BY <3>2, <3>3, StoredMeans
    <3> QED BY <1>7, <2>1, <3>2, <3>3, <3>4
  <2>2. ASSUME NEW h \in Handlers, pc[h] \in {"errPutDrop", "errDel"},
               latest[held[h].key] \in answered \ U,
               now' <= issued[latest[held[h].key]].otpExp,
               tries[latest[held[h].key]] < MaxVerifyAttempts
        PROVE  FALSE
    <3>1. held[h].key \in Keys
      BY <2>2, HeldMeans
    <3>2. PICK k \in Keys : k = held[h].key
      BY <3>1
    <3>3. Usable(k, U)'
      BY <1>1, <2>2, <3>2 DEF Usable
    <3>4. Usable(k, U)
      BY <1>8, <3>3
    <3> QED BY <2>2, <3>2, <3>4 DEF CountInv, HeldCounts
  <2> QED BY <1>1, <2>1, <2>2 DEF CountInv, HeldCounts, Usable
<1> QED BY <1>2, <1>3, <1>4, <1>5, <1>6, <1>9, <1>10 DEF CountInv

LEMMA StutterCounts ==
  ASSUME NEW U, NEW D, NEW K, CountInv(U, D, K),
         UNCHANGED <<now, redis, pc, held, issued, latest, answered, tries>>
  PROVE  CountInv(U, D, K)'
  BY DEF CountInv, OneAtATime, SamePlace, TriesCounted, LatestIssued, StoredCounts,
         UsableStored, Usable, HeldCounts, Issued, redis

\* The shared steps together, as long as Redis answers and no process dies.
LEMMA FlowCounts ==
  ASSUME ~MayFail("redis"), ~MayFail("crash"),
         NEW P, NEW L, NEW U, NEW D, NEW K, None \notin Challenge(P), OwnAside(D, K),
         FlowInv(P, L), CountInv(U, D, K), OneAtATime', NEW h \in Handlers,
         FlowStart(h) \/ FlowResend(h) \/ FlowRefuse(h) \/ Crash(h)
  PROVE  CountInv(U, D, K)'
<1>0. FlowType(P, L) /\ now \in Nat
  BY DEF FlowInv, FlowType
<1>1. CASE StartPut(h) \/ ResendPut(h) \/ ErrPut(h)
  <2>1. /\ pc[h] \in {"startPut", "resendPut", "errPutKeep", "errPutDrop"}
        /\ pc' = [pc EXCEPT ![h] = PutTo[pc[h]]] /\ held' \in {held, [held EXCEPT ![h] = None]}
        /\ pc'[h] # "idle" => held' = held
        /\ pc'[h] = "idle" => held'[h] = None
        /\ Put(held[h]) /\ UNCHANGED <<now, issued, latest, answered, tries>>
    BY <1>0, <1>1 DEF StartPut, ResendPut, ErrPut, RedisFails, Goto, Return, PutTo, history, FlowType
  <2> QED BY <2>1, PutCounts
<1>2. CASE StartMail(h) \/ StartMailFails(h) \/ ResendMail(h) \/ ResendMailFails(h)
  BY <1>2, SendCounts DEF StartMail, StartMailFails, ResendMail, ResendMailFails, draws
<1>3. CASE StartDel(h) \/ ErrDel(h)
  BY <1>3, DropCounts DEF StartDel, ErrDel, DeleteIgnored, RedisFails, history
<1>4. ASSUME NEW k \in Keys, NEW c \in Codes, ResendDraw(h, k, c) PROVE CountInv(U, D, K)'
  <2> DEFINE ch == Rotate(pend[k], c)
  <2>1. pend[k] \in Challenge(P)
    BY <1>4, StoredMeans DEF ResendDraw
  <2>2. /\ ch \in Challenge(P) /\ ch.code = c /\ ch.lastSent = now
        /\ ch.attempts = 0
    BY <1>0, <2>1, DrawFields DEF Rotate
  <2>3. /\ pc[h] = "idle" /\ c \notin Issued /\ Issue(ch)
        /\ held' = [held EXCEPT ![h] = ch] /\ pc' = [pc EXCEPT ![h] = "resendPut"]
        /\ UNCHANGED <<now, redis, answered, tries>>
    BY <1>4 DEF ResendDraw
  <2> HIDE DEF ch
  <2> QED BY <2>2, <2>3, DrawCounts DEF Drawing
<1>5. ASSUME NEW k \in Keys, VerifyRefused(h, k) PROVE CountInv(U, D, K)'
  BY <1>5, RefusedCounts
<1>6. ASSUME NEW k \in Keys, NEW code, VerifyWrong(h, k, code) PROVE CountInv(U, D, K)'
  BY <1>6, WrongCounts
<1>7. CASE Crash(h)
  BY <1>7 DEF Crash
<1> QED BY <1>1, <1>2, <1>3, <1>4, <1>5, <1>6, <1>7 DEF FlowStart, FlowResend, FlowRefuse

LEMMA StartDrawCounts ==
  ASSUME NEW P, NEW L, NEW U, NEW D, NEW K, None \notin Challenge(P), OwnAside(D, K),
         FlowInv(P, L), CountInv(U, D, K), OneAtATime', NEW h \in Handlers,
         NEW k \in Keys, NEW p \in P, NEW c \in Codes, StartDraw(h, k, p, c)
  PROVE  CountInv(U, D, K)'
<1> DEFINE ch == NewChallenge(k, p, c)
<1>1. /\ ch \in Challenge(P) /\ ch.code = c /\ ch.lastSent = now
      /\ ch.attempts = 0
  <2>1. now \in Nat
    BY DEF FlowInv, FlowType
  <2> QED BY <2>1, NewFields DEF NewChallenge
<1>2. /\ pc[h] = "idle" /\ c \notin Issued /\ Issue(ch)
      /\ held' = [held EXCEPT ![h] = ch] /\ pc' = [pc EXCEPT ![h] = "startPut"]
      /\ UNCHANGED <<now, redis, answered, tries>>
  BY DEF StartDraw
<1> HIDE DEF ch
<1> QED BY <1>1, <1>2, DrawCounts DEF Drawing

LEMMA InitCounts ==
  ASSUME NEW U, NEW D, NEW K, U = {}, FlowInit, OwnAside(D, K)
  PROVE  CountInv(U, D, K)
  BY FlowAssumption, OtpAssumption
  DEF FlowInit, CountInv, OneAtATime, SamePlace, TriesCounted, LatestIssued, StoredCounts,
      UsableStored, Usable, HeldCounts, Issued, OwnAside, FlowLabels

\* What the invariant says of a state with no request in flight: a usable code
\* would be accepted.
LEMMA UsableAccepted ==
  ASSUME NEW P, NEW L, NEW U, NEW D, NEW K, FlowInv(P, L), CountInv(U, D, K), OwnAside(D, K),
         \A h \in Handlers : pc[h] = "idle", NEW k \in Keys, Usable(k, U)
  PROVE  pend[k] # None /\ Accepted(pend[k], latest[k], now)
<1>1. pend[k] # None /\ pend[k].code = latest[k]
  BY DEF CountInv, UsableStored
<1>2. issued[latest[k]].otpExp = pend[k].otpExp /\ pend[k].attempts = tries[latest[k]]
      /\ pend[k].attempts \in Nat
  BY <1>1, StoredMeans, QuietStore
<1> QED BY <1>1, <1>2, OtpAssumption DEF Accepted, Compared, TooManyTries, Usable

\* A code that is accepted was not used up.
LEMMA RightIsFresh ==
  ASSUME NEW P, NEW L, NEW U, NEW D, NEW K, FlowInv(P, L), CountInv(U, D, K), OwnAside(D, K),
         OneAtATime', NEW g \in Handlers, NEW k \in Keys, NEW code \in CanType(k),
         NEW l \in D, VerifyRight(g, k, code, l), NEW h \in Handlers, Accepts(h)
  PROVE  typed'[h] \notin U
<1>1. typed'[h] = code /\ code = pend[k].code /\ pend[k] # None
  BY RightMeans DEF VerifyRight, Accepts, FlowInv, FlowType
<1>2. /\ pc[g] = "idle" /\ pc'[g] # "idle"
      /\ \A i \in Handlers \ {g} : pc'[i] = pc[i] /\ held'[i] = held[i]
  BY DEF VerifyRight, OwnAside, FlowLabels, FlowInv, FlowType
<1> QED BY <1>1, <1>2, VerifyFinds

-----------------------------------------------------------------------------
(* SamePlace needs no working Redis: a failed put ends the request or writes *)
(* back what the key held.                                                   *)

\* Only the one request in flight matters.
LEMMA PlaceOfOne ==
  ASSUME NEW P, NEW L, FlowInv(P, L), OneAtATime, OneAtATime', NEW h \in Handlers,
         pc[h] # "idle" \/ pc'[h] # "idle",
         \A g \in Handlers \ {h} : pc'[g] = pc[g] /\ held'[g] = held[g],
         held'[h] # None /\ pc'[h] \notin Drawing /\ pend'[held'[h].key] # None
            => pend'[held'[h].key].code = held'[h].code
  PROVE  SamePlace'
<1>1. \A g \in Handlers \ {h} : pc[g] = "idle"
  BY OthersIdle
<1>2. \A g \in Handlers \ {h} : held'[g] = None
  BY <1>1 DEF FlowInv, HeldWhileBusy
<1> QED BY <1>2 DEF SamePlace

\* A handler past its draw writes its copy, deletes it, or leaves Redis alone.
LEMMA MovePlace ==
  ASSUME NEW P, NEW L, FlowInv(P, L), OneAtATime, OneAtATime', SamePlace, NEW h \in Handlers,
         pc[h] # "idle", NEW l, l \notin Drawing, Goto(h, l) \/ Return(h),
         \/ Put(held[h])
         \/ Delete(held[h].key)
         \/ UNCHANGED redis /\ (pc[h] \notin Drawing \/ Return(h))
  PROVE  SamePlace'
<1>1. FlowType(P, L) /\ held[h].key \in Keys
  BY HeldMeans DEF FlowInv
<1>2. \A g \in Handlers \ {h} : pc'[g] = pc[g] /\ held'[g] = held[g]
  BY <1>1 DEF FlowType, Goto, Return
<1>3. CASE Return(h)
  <2>1. held'[h] = None
    BY <1>1, <1>3 DEF Return, FlowType
  <2> QED BY <1>2, <2>1, PlaceOfOne
<1>4. CASE Goto(h, l)
  <2>1. held'[h] = held[h]
    BY <1>4 DEF Goto
  <2>2. \/ pend'[held[h].key] = held[h]
        \/ pend'[held[h].key] = None
        \/ pend' = pend /\ (pc[h] \notin Drawing \/ held'[h] = None)
    BY <1>1 DEF Put, Delete, redis, FlowType, Return
  <2>3. held'[h] # None /\ pend'[held[h].key] # None => pend'[held[h].key].code = held[h].code
    BY <2>1, <2>2 DEF SamePlace
  <2> QED BY <1>2, <2>1, <2>3, PlaceOfOne
<1> QED BY <1>3, <1>4

LEMMA TakePlace ==
  ASSUME NEW P, NEW L, FlowInv(P, L), OneAtATime, OneAtATime', NEW h \in Handlers,
         NEW k \in Keys, pend[k] # None, UNCHANGED redis, pc'[h] # "idle",
         \A g \in Handlers \ {h} : pc'[g] = pc[g] /\ held'[g] = held[g],
         held'[h].key = pend[k].key, held'[h].code = pend[k].code
  PROVE  SamePlace'
<1>1. pend[k].key = k
  BY StoredMeans
<1>2. pend'[held'[h].key].code = held'[h].code
  BY <1>1 DEF redis
<1> QED BY <1>2, PlaceOfOne

LEMMA DrawPlace ==
  ASSUME NEW P, NEW L, FlowInv(P, L), OneAtATime, OneAtATime', NEW h \in Handlers,
         \/ \E k \in Keys, p \in P, c \in Codes : StartDraw(h, k, p, c)
         \/ \E k \in Keys, c \in Codes : ResendDraw(h, k, c)
  PROVE  SamePlace'
<1>1. PICK ch : held' = [held EXCEPT ![h] = ch]
  BY DEF StartDraw, ResendDraw
<1>2. PICK l \in Drawing : pc' = [pc EXCEPT ![h] = l]
  BY DEF StartDraw, ResendDraw, Drawing
<1>3. /\ pc'[h] \in Drawing /\ pc'[h] # "idle"
      /\ \A g \in Handlers \ {h} : pc'[g] = pc[g] /\ held'[g] = held[g]
  BY <1>1, <1>2 DEF FlowInv, FlowType, Drawing
<1> QED BY <1>3, PlaceOfOne

LEMMA FlowPlace ==
  ASSUME NEW P, NEW L, FlowInv(P, L), OneAtATime, OneAtATime', SamePlace, NEW h \in Handlers,
         FlowStart(h) \/ FlowResend(h) \/ FlowRefuse(h) \/ Crash(h)
  PROVE  SamePlace'
<1>1. CASE FlowStart(h)
  BY <1>1, MovePlace
  DEF FlowStart, StartPut, StartMail, StartMailFails, StartDel, DeleteIgnored, RedisFails, Drawing
<1>2. CASE ResendPut(h) \/ ResendMail(h) \/ ResendMailFails(h)
  BY <1>2, MovePlace DEF ResendPut, ResendMail, ResendMailFails, RedisFails, Drawing
<1>3. CASE \E k \in Keys, c \in Codes : ResendDraw(h, k, c)
  BY <1>3, DrawPlace
<1>4. CASE ErrPut(h) \/ ErrDel(h)
  BY <1>4, MovePlace DEF ErrPut, ErrDel, DeleteIgnored, RedisFails, Drawing
<1>5. ASSUME NEW k \in Keys, VerifyRefused(h, k) PROVE SamePlace'
  <2>1. /\ held'[h] = pend[k] /\ pc'[h] = "errPutDrop" /\ pend[k] # None /\ UNCHANGED redis
        /\ \A g \in Handlers \ {h} : pc'[g] = pc[g] /\ held'[g] = held[g]
    BY <1>5 DEF VerifyRefused, FlowInv, FlowType
  <2> QED BY <2>1, TakePlace
<1>6. ASSUME NEW k \in Keys, NEW code, VerifyWrong(h, k, code) PROVE SamePlace'
  <2>1. /\ held'[h] = Counted(pend[k]) /\ pc'[h] = "errPutKeep"
        /\ pend[k] # None /\ UNCHANGED redis
        /\ \A g \in Handlers \ {h} : pc'[g] = pc[g] /\ held'[g] = held[g]
    BY <1>6 DEF VerifyWrong, FlowInv, FlowType
  <2>2. held'[h].key = pend[k].key /\ held'[h].code = pend[k].code
    BY <2>1, StoredMeans, CountedFields
  <2> QED BY <2>1, <2>2, TakePlace
<1>7. CASE Crash(h)
  BY <1>7, MovePlace DEF Crash, Drawing
<1> QED BY <1>1, <1>2, <1>3, <1>4, <1>5, <1>6, <1>7 DEF FlowResend, FlowRefuse

LEMMA RightPlace ==
  ASSUME NEW P, NEW L, FlowInv(P, L), OneAtATime, OneAtATime', NEW h \in Handlers,
         NEW k \in Keys, NEW code, NEW l, l # "idle", VerifyRight(h, k, code, l)
  PROVE  SamePlace'
<1>1. /\ held'[h] = Counted(pend[k]) /\ pc'[h] # "idle" /\ pend[k] # None /\ UNCHANGED redis
      /\ \A g \in Handlers \ {h} : pc'[g] = pc[g] /\ held'[g] = held[g]
  BY DEF VerifyRight, FlowInv, FlowType
<1>2. held'[h].key = pend[k].key /\ held'[h].code = pend[k].code
  BY <1>1, StoredMeans, CountedFields
<1> QED BY <1>1, <1>2, TakePlace

LEMMA TickPlace ==
  ASSUME NEW P, NEW L, FlowInv(P, L), SamePlace, Tick
  PROVE  SamePlace'
<1>1. ASSUME NEW h \in Handlers, held[h] # None PROVE held[h].key \in Keys
  BY <1>1, HeldMeans DEF FlowInv, HeldWhileBusy
<1> QED BY <1>1 DEF Tick, handlers, SamePlace
=============================================================================
