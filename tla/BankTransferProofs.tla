------------------------- MODULE BankTransferProofs -------------------------
(***************************************************************************)
(* Proofs about BankTransfer for every number of users, handlers, codes    *)
(* and transfers, every clock bound and every set of faults: its types,    *)
(* its safety invariants, NotAfterExpiry, and that it implements           *)
(* GatedTransfer. For requests served one at a time: that a promised       *)
(* code works, is used once and allows so many wrong guesses, and that     *)
(* mails keep their distance.                                              *)
(***************************************************************************)
EXTENDS BankTransfer, OtpFlowProofs

USE BankAssumption

LEMMA InitInv == Init => IInv
<1> SUFFICES ASSUME Init PROVE IInv
  OBVIOUS
<1>1. FlowInv(Transfer, OwnLabels)
  BY FlowInitInv DEF Init
<1>2. TypeOK
  BY <1>1 DEF FlowInv, TypeOK, Init
<1>3. BankInv
  BY DEF Init, FlowInit, BankInv, TransfersApart, PastVerify, LedgerBacked, SeenBacked,
         ReceiptsTellTheTruth, Issued
<1> QED BY <1>1, <1>2, <1>3 DEF IInv

-----------------------------------------------------------------------------
(* The shared part of the invariant. *)

LEMMA FlowStep == IInv /\ [Next]_vars => FlowInv(Transfer, OwnLabels)'
<1> SUFFICES ASSUME IInv, [Next]_vars PROVE FlowInv(Transfer, OwnLabels)'
  OBVIOUS
<1>0. FlowInv(Transfer, OwnLabels)
  BY DEF IInv
<1>1. CASE Tick
  BY <1>0, <1>1, TickKeeps
<1>2. ASSUME NEW h \in Handlers, ChallengeStart(h) PROVE FlowInv(Transfer, OwnLabels)'
  BY <1>0, <1>2, StartDrawKeeps, FlowStartKeeps DEF ChallengeStart, ChallengeDraw
<1>3. ASSUME NEW h \in Handlers, ChallengeResend(h) PROVE FlowInv(Transfer, OwnLabels)'
  BY <1>0, <1>3, FlowResendKeeps DEF ChallengeResend
<1>4. ASSUME NEW h \in Handlers, ConfirmRefused(h) PROVE FlowInv(Transfer, OwnLabels)'
  BY <1>0, <1>4, FlowRefuseKeeps DEF ConfirmRefused
<1>5. ASSUME NEW h \in Handlers, ConfirmRight(h) PROVE FlowInv(Transfer, OwnLabels)'
  BY <1>0, <1>5, RightKeeps DEF ConfirmRight, OwnLabels
<1>6. ASSUME NEW h \in Handlers, OkDel(h) \/ BankPost(h) \/ Receipts(h)
      PROVE  FlowInv(Transfer, OwnLabels)'
  BY <1>0, <1>6, DeleteKeeps
  DEF OkDel, DeleteIgnored, RedisFails, BankPost, Receipts, OwnLabels
<1>7. ASSUME NEW h \in Handlers, Crash(h) PROVE FlowInv(Transfer, OwnLabels)'
  BY <1>0, <1>7, CrashKeeps
<1>8. CASE UNCHANGED vars
  BY <1>0, <1>8, StutterKeeps DEF vars
<1> QED
  BY <1>1, <1>2, <1>3, <1>4, <1>5, <1>6, <1>7, <1>8 DEF Next, Confirm

-----------------------------------------------------------------------------
(* The bank's part of the invariant. *)

Bank == /\ bankSeen \subseteq IdemKeys
        /\ ledger \in [Intents -> Nat]
        /\ receipts \subseteq Intents
        /\ BankInv

\* Accepted codes stand for drawn transfers.
LEMMA SpentIsIssued ==
  ASSUME FlowInv(Transfer, OwnLabels)
  PROVE  \A c \in spent : /\ c \in Issued
                          /\ issued[c].payload.intent \in Intents
                          /\ issued[c].payload.idem \in IdemKeys
  BY DEF FlowInv, FlowType, SpentWasMailed, MailsGenuine, Issued, Challenge, Transfer

\* A step of the shared part that draws nothing, enters none of this module's
\* labels and forgets no accepted code leaves the bank's part alone.
LEMMA BankFrame ==
  ASSUME IInv, UNCHANGED <<bank, receipts, issued, spent>>, NEW h \in Handlers,
         \A g \in Handlers \ {h} : UNCHANGED <<pc[g], held[g], typed[g]>>,
         pc'[h] \in OwnLabels => UNCHANGED <<pc[h], held[h], typed[h]>>
  PROVE  Bank'
<1> USE DEF IInv, TypeOK, Bank, BankInv, bank, Issued, OwnLabels
<1>1. TransfersApart' /\ LedgerBacked' /\ ReceiptsTellTheTruth'
  BY DEF TransfersApart, LedgerBacked, ReceiptsTellTheTruth
<1>2. PastVerify'
  BY DEF PastVerify
<1>3. SeenBacked'
  BY DEF SeenBacked
<1> QED BY <1>1, <1>2, <1>3
\* A draw whose transfer is new, or that of the challenge it rotates.
LEMMA BankDraw ==
  ASSUME IInv, UNCHANGED <<bank, receipts, spent>>, NEW h \in Handlers,
         \A g \in Handlers \ {h} : UNCHANGED <<pc[g], held[g], typed[g]>>,
         pc'[h] \in FlowLabels,
         NEW ch \in Challenge(Transfer), ch.code \notin Issued, Issue(ch),
         \A d \in Issued : issued[d].payload.intent = ch.payload.intent
                               <=> issued[d].payload.idem = ch.payload.idem
  PROVE  Bank'
<1> USE DEF IInv, TypeOK, Bank, BankInv, bank, OwnLabels, FlowLabels
<1>1. /\ Issued' = Issued \cup {ch.code}
      /\ issued'[ch.code] = ch
      /\ \A d \in Issued : issued'[d] = issued[d] /\ d # ch.code
  BY IssueKeeps
<1>2. \A c \in spent : c \in Issued
  BY SpentIsIssued
<1>3. TransfersApart'
  BY <1>1 DEF TransfersApart
<1>4. PastVerify' /\ ReceiptsTellTheTruth'
  BY DEF PastVerify, ReceiptsTellTheTruth
<1>5. LedgerBacked' /\ SeenBacked'
  BY <1>1, <1>2 DEF LedgerBacked, SeenBacked
<1> QED BY <1>3, <1>4, <1>5

LEMMA BankShared ==
  ASSUME IInv, UNCHANGED <<bank, receipts>>, NEW h \in Handlers,
         \/ FlowStart(h) \/ FlowResend(h) \/ FlowRefuse(h) \/ Crash(h)
         \/ \E u \in Keys, t \in Transfer, c \in Codes : ChallengeDraw(h, u, t, c)
  PROVE  Bank'
<1>0. FlowInv(Transfer, OwnLabels)
  BY DEF IInv
<1>1. ASSUME FlowStart(h) \/ FlowResend(h) \/ FlowRefuse(h) \/ Crash(h)
      PROVE  /\ \A g \in Handlers \ {h} : UNCHANGED <<pc[g], held[g], typed[g]>>
             /\ pc'[h] \in FlowLabels
             /\ spent' = spent
             /\ issued' = issued \/ \E k \in Keys, c \in Codes : ResendDraw(h, k, c)
  BY <1>0, <1>1, FlowMovesOne
<1>2. CASE /\ FlowStart(h) \/ FlowResend(h) \/ FlowRefuse(h) \/ Crash(h)
           /\ issued' = issued
  BY <1>1, <1>2, BankFrame DEF OwnLabels, FlowLabels
<1>3. ASSUME NEW k \in Keys, NEW c \in Codes, ResendDraw(h, k, c) PROVE Bank'
  <2> DEFINE ch == Rotate(pend[k], c)
  <2>1. pend[k] \in Challenge(Transfer) /\ Genuine(pend[k]) /\ now \in Nat
    BY <1>3 DEF ResendDraw, IInv, FlowInv, FlowType, CopiesGenuine
  <2>2. ch \in Challenge(Transfer) /\ ch.code = c /\ ch.payload = pend[k].payload
    BY <2>1, DrawFields DEF Rotate
  <2>3. \A d \in Issued : issued[d].payload.intent = pend[k].payload.intent
                              <=> issued[d].payload.idem = pend[k].payload.idem
    BY <2>1 DEF Genuine, IInv, BankInv, TransfersApart
  <2>4. c \notin Issued /\ Issue(ch)
    BY <1>3 DEF ResendDraw
  <2>5. FlowResend(h)
    BY <1>3 DEF FlowResend
  <2> HIDE DEF ch
  <2> QED BY <1>1, <2>2, <2>3, <2>4, <2>5, BankDraw
<1>4. ASSUME NEW u \in Keys, NEW t \in Transfer, NEW c \in Codes, ChallengeDraw(h, u, t, c)
      PROVE  Bank'
  <2> DEFINE ch == NewChallenge(u, t, c)
  <2>1. now \in Nat
    BY DEF IInv, FlowInv, FlowType
  <2>2. ch \in Challenge(Transfer) /\ ch.code = c /\ ch.payload = t
    BY <2>1, NewFields
  <2>3. c \notin Issued /\ Issue(ch)
    BY <1>4 DEF ChallengeDraw, StartDraw
  <2>4. \A d \in Issued : issued[d].payload.intent = t.intent <=> issued[d].payload.idem = t.idem
    BY <1>4 DEF ChallengeDraw
  <2>5. /\ \A g \in Handlers \ {h} : UNCHANGED <<pc[g], held[g], typed[g]>>
        /\ pc'[h] \in FlowLabels
        /\ spent' = spent
    BY <1>0, <1>4 DEF ChallengeDraw, StartDraw, FlowInv, FlowType, FlowLabels
  <2> HIDE DEF ch
  <2> QED BY <2>2, <2>3, <2>4, <2>5, BankDraw
<1> QED BY <1>1, <1>2, <1>3, <1>4

\* What a handler about to post holds.
LEMMA ReadyToPost ==
  ASSUME IInv, NEW h \in Handlers, pc[h] \in OwnLabels
  PROVE  /\ held[h] \in Challenge(Transfer) /\ Genuine(held[h])
         /\ held[h].code = typed[h] /\ typed[h] \in spent
         /\ [to |-> held[h].key, code |-> typed[h], payload |-> held[h].payload] \in mails
<1> USE DEF IInv, FlowInv
<1>1. typed[h] # None
  BY DEF BankInv, PastVerify, OwnLabels
<1>2. /\ held[h] \in Challenge(Transfer) /\ Genuine(held[h])
      /\ held[h].code = typed[h] /\ typed[h] \in spent
  BY <1>1 DEF AcceptedIsSpent, CopiesGenuine, FlowType
<1>3. PICK m \in mails : m.code = typed[h]
  BY <1>2 DEF SpentWasMailed
<1>4. m = [to |-> held[h].key, code |-> typed[h], payload |-> held[h].payload]
  BY <1>2, <1>3 DEF MailsGenuine, FlowType, Genuine
<1> QED BY <1>2, <1>3, <1>4

\* A transfer moves money on the first post with its key, and never again.
LEMMA FirstPostOnly ==
  ASSUME IInv, NEW h \in Handlers, pc[h] = "bankPost"
  PROVE  /\ held[h].payload.intent \in Intents /\ held[h].payload.idem \in IdemKeys
         /\ held[h].payload.idem \notin bankSeen => ledger[held[h].payload.intent] = 0
         /\ held[h].payload.idem \in bankSeen => ledger[held[h].payload.intent] > 0
<1>1. held[h] \in Challenge(Transfer) /\ Genuine(held[h])
  BY ReadyToPost DEF OwnLabels
<1>2. held[h].payload.intent \in Intents /\ held[h].payload.idem \in IdemKeys
  BY <1>1 DEF Challenge, Transfer
<1>3. \A c \in spent : issued[c].payload.intent = held[h].payload.intent
                           <=> issued[c].payload.idem = held[h].payload.idem
  BY <1>1, SpentIsIssued DEF Genuine, IInv, BankInv, TransfersApart
<1> QED BY <1>2, <1>3 DEF IInv, BankInv, LedgerBacked, SeenBacked, TypeOK

LEMMA PostKeeps ==
  ASSUME IInv, NEW h \in Handlers, BankPost(h)
  PROVE  Bank'
<1> DEFINE t == held[h].payload
<1> USE DEF IInv, TypeOK, Bank, BankInv, bank, Goto, Return, history, redis
<1>1. /\ held[h] \in Challenge(Transfer) /\ Genuine(held[h])
      /\ held[h].code \in spent /\ typed[h] # None
  BY ReadyToPost DEF BankPost, OwnLabels, FlowInv, FlowType, SpentWasMailed, PastVerify
<1>2. /\ t.intent \in Intents /\ t.idem \in IdemKeys
      /\ t.idem \notin bankSeen => ledger[t.intent] = 0
      /\ t.idem \in bankSeen => ledger[t.intent] > 0
  BY FirstPostOnly DEF BankPost
<1>3. issued[held[h].code].payload = t
  BY <1>1 DEF Genuine
<1> HIDE DEF t
<1>4. TransfersApart' /\ PastVerify'
  BY <1>1 DEF BankPost, TransfersApart, PastVerify, FlowInv, FlowType, Issued
<1>5. ASSUME UNCHANGED bank, Return(h) \/ (Goto(h, "receipts") /\ t.idem \in bankSeen)
      PROVE  Bank'
  <2>1. LedgerBacked' /\ ReceiptsTellTheTruth'
    BY <1>5 DEF BankPost, LedgerBacked, ReceiptsTellTheTruth
  <2>2. SeenBacked'
    BY <1>2, <1>5 DEF BankPost, SeenBacked, FlowInv, FlowType, t
  <2> QED BY <1>4, <1>5, <2>1, <2>2 DEF BankPost
<1>6. ASSUME t.idem \notin bankSeen,
             bankSeen' = bankSeen \cup {t.idem},
             ledger' = [ledger EXCEPT ![t.intent] = @ + 1],
             Goto(h, "receipts") \/ Return(h)
      PROVE  Bank'
  <2>1. /\ ledger'[t.intent] = 1
        /\ \A j \in Intents \ {t.intent} : ledger'[j] = ledger[j]
        /\ ledger' \in [Intents -> Nat]
    BY <1>2, <1>6
  <2>2. \A j \in Intents : ledger[j] > 0 => ledger'[j] > 0
    BY <2>1
  <2>3. LedgerBacked'
    BY <1>1, <1>3, <1>6, <2>1 DEF BankPost, LedgerBacked
  <2>4. \A k \in bankSeen' : \E c \in spent' :
            issued'[c].payload.idem = k /\ ledger'[issued'[c].payload.intent] > 0
    BY <1>1, <1>3, <1>6, <2>1, <2>2, SpentIsIssued DEF BankPost, SeenBacked
  <2>5. ASSUME NEW g \in Handlers, pc'[g] = "receipts"
        PROVE  ledger'[held'[g].payload.intent] > 0
    <3>1. CASE g = h
      BY <1>6, <2>1, <2>5, <3>1 DEF FlowInv, FlowType, t
    <3>2. CASE g # h
      <4>1. pc[g] = "receipts" /\ held'[g] = held[g]
        BY <1>6, <2>5, <3>2 DEF FlowInv, FlowType
      <4>2. held[g].payload.intent \in Intents
        BY <4>1, ReadyToPost DEF OwnLabels, Challenge, Transfer
      <4> QED BY <2>2, <4>1, <4>2 DEF SeenBacked
    <3> QED BY <3>1, <3>2
  <2>6. ReceiptsTellTheTruth'
    BY <2>2 DEF BankPost, ReceiptsTellTheTruth
  <2> QED BY <1>2, <1>4, <1>6, <2>1, <2>3, <2>4, <2>5, <2>6 DEF BankPost, SeenBacked
<1> QED BY <1>5, <1>6 DEF BankPost, BankExecutes, t

LEMMA BankStep == IInv /\ [Next]_vars => Bank'
<1> SUFFICES ASSUME IInv, [Next]_vars PROVE Bank'
  OBVIOUS
<1>1. CASE Tick /\ UNCHANGED <<bank, receipts>>
  BY <1>1 DEF Tick, handlers, history, bank, IInv, TypeOK, Bank, BankInv, TransfersApart,
              PastVerify, LedgerBacked, SeenBacked, ReceiptsTellTheTruth, Issued
<1>2. ASSUME NEW h \in Handlers,
             \/ ChallengeStart(h) \/ ChallengeResend(h) \/ ConfirmRefused(h)
             \/ Crash(h) /\ UNCHANGED <<bank, receipts>>
      PROVE  Bank'
  BY <1>2, BankShared DEF ChallengeStart, ChallengeResend, ConfirmRefused
<1>3. ASSUME NEW h \in Handlers, ConfirmRight(h) PROVE Bank'
  <2>1. PICK u \in Keys : \E code \in CanType(u) : VerifyRight(h, u, code, "okDel")
    BY <1>3 DEF ConfirmRight
  <2>2. PICK code \in CanType(u) : VerifyRight(h, u, code, "okDel")
    BY <2>1
  <2>3. code \in Codes
    BY <2>2, RightMeans DEF IInv
  <2>4. UNCHANGED <<bank, receipts, issued>> /\ spent \subseteq spent'
    BY <1>3, <2>2 DEF ConfirmRight, VerifyRight, draws
  <2>5. PastVerify'
    BY <2>2, <2>3, FlowAssumption
    DEF VerifyRight, PastVerify, IInv, BankInv, FlowInv, FlowType
  <2>6. SeenBacked'
    BY <2>2, <2>4 DEF VerifyRight, SeenBacked, IInv, BankInv, FlowInv, FlowType, bank
  <2>7. TransfersApart' /\ LedgerBacked' /\ ReceiptsTellTheTruth'
    BY <2>4 DEF TransfersApart, LedgerBacked, ReceiptsTellTheTruth, IInv, BankInv, bank, Issued
  <2> QED BY <2>4, <2>5, <2>6, <2>7 DEF Bank, BankInv, bank, IInv, TypeOK
<1>4. ASSUME NEW h \in Handlers, OkDel(h) PROVE Bank'
  <2>1. UNCHANGED <<bank, receipts, issued, spent, held, typed>>
        /\ pc' = [pc EXCEPT ![h] = "bankPost"] /\ pc[h] = "okDel"
    BY <1>4 DEF OkDel, Goto, history
  <2> QED BY <2>1 DEF IInv, TypeOK, Bank, BankInv, TransfersApart, PastVerify, LedgerBacked,
              SeenBacked, ReceiptsTellTheTruth, Issued, FlowInv, FlowType, bank
<1>5. ASSUME NEW h \in Handlers, BankPost(h) PROVE Bank'
  BY <1>5, PostKeeps
<1>6. ASSUME NEW h \in Handlers, Receipts(h) PROVE Bank'
  <2>1. held[h].payload.intent \in Intents
    BY <1>6, ReadyToPost DEF Receipts, OwnLabels, Challenge, Transfer
  <2> QED BY <1>6, <2>1 DEF Receipts, Return, history, IInv, TypeOK, Bank, BankInv,
              TransfersApart, PastVerify, LedgerBacked, SeenBacked, ReceiptsTellTheTruth,
              Issued, FlowInv, FlowType, bank
<1>7. CASE UNCHANGED vars
  BY <1>7 DEF vars, flowVars, IInv, TypeOK, Bank, BankInv, TransfersApart, PastVerify,
              LedgerBacked, SeenBacked, ReceiptsTellTheTruth, Issued
<1> QED BY <1>1, <1>2, <1>3, <1>4, <1>5, <1>6, <1>7 DEF Next, Confirm

LEMMA Invariance == Spec => []IInv
<1>1. IInv /\ [Next]_vars => IInv'
  BY FlowStep, BankStep DEF IInv, Bank, TypeOK, FlowInv
<1> QED
  BY <1>1, InitInv, PTL DEF Spec

-----------------------------------------------------------------------------
(* The theorems. *)

\* Every variable of the transfer flow keeps its type: a stored or held
\* challenge is a well-formed one, and only drawn codes are mailed or accepted.
THEOREM TypeCorrect == Spec => []TypeOK
<1>1. IInv => TypeOK
  BY DEF IInv
<1> QED BY <1>1, Invariance, PTL

\* One Start moves money at most once, whatever overlaps, fails or is retried:
\* every copy of its challenge carries the idempotency key drawn with it.
THEOREM MovesOnce == Spec => []AtMostOncePerStart
<1>1. IInv => AtMostOncePerStart
  BY DEF IInv, BankInv, LedgerBacked, AtMostOncePerStart, TypeOK
<1> QED BY <1>1, Invariance, PTL

\* Money moves only for a transfer whose own mail was delivered to its owner
\* and whose code was typed back.
THEOREM MovesAsMailed == Spec => []ConfirmedAsMailed
<1>1. IInv => ConfirmedAsMailed
  <2> SUFFICES ASSUME IInv PROVE ConfirmedAsMailed
    OBVIOUS
  <2>1. ASSUME NEW i \in Intents, ledger[i] > 0
        PROVE  \E m \in mails : m.payload.intent = i /\ m.code \in spent
    <3>1. PICK c \in spent : issued[c].payload.intent = i
      BY <2>1 DEF IInv, BankInv, LedgerBacked
    <3>2. PICK m \in mails : m.code = c
      BY DEF IInv, FlowInv, SpentWasMailed
    <3> QED BY <3>1, <3>2 DEF IInv, FlowInv, MailsGenuine
  <2> QED BY <2>1, ReadyToPost DEF ConfirmedAsMailed, OwnLabels
<1> QED BY <1>1, Invariance, PTL

\* A receipt is mailed only for a transfer the bank executed.
THEOREM ReceiptsTrue == Spec => []ReceiptsTellTheTruth
<1>1. IInv => ReceiptsTellTheTruth
  BY DEF IInv, BankInv
<1> QED BY <1>1, Invariance, PTL

\* Of all steps, only a confirm's verify accepts a code.
LEMMA OnlyConfirmAccepts ==
  ASSUME IInv, Next, NEW h \in Handlers, Accepts(h)
  PROVE  \E g \in Handlers : ConfirmRight(g)
<1>0. FlowInv(Transfer, OwnLabels)
  BY DEF IInv
<1>1. ~Tick
  BY <1>0, FlowAcceptsNothing
<1>2. ASSUME NEW g \in Handlers,
             ChallengeStart(g) \/ ChallengeResend(g) \/ ConfirmRefused(g) \/ Crash(g)
      PROVE  FALSE
  <2>1. CASE FlowStart(g) \/ FlowResend(g) \/ FlowRefuse(g) \/ Crash(g)
    BY <1>0, <2>1, FlowAcceptsNothing
  <2>2. CASE \E u \in Keys, t \in Transfer, c \in Codes : ChallengeDraw(g, u, t, c)
    BY <2>2 DEF ChallengeDraw, StartDraw, Accepts
  <2> QED BY <1>2, <2>1, <2>2 DEF ChallengeStart, ChallengeResend, ConfirmRefused
<1>3. ASSUME NEW g \in Handlers, OkDel(g) \/ BankPost(g) \/ Receipts(g)
      PROVE  FALSE
  BY <1>0, <1>3, MovingAcceptsNothing DEF OkDel, BankPost, Receipts
<1> QED BY <1>1, <1>2, <1>3 DEF Next, Confirm

\* A confirm accepts no code more than OTPTTL after its draw: it compares with
\* a copy that still carries the expiry set when the code was drawn.
THEOREM NeverAfterExpiry == Spec => NotAfterExpiry
<1>1. IInv /\ [Next]_vars => [\A h \in Handlers : Accepts(h) =>
                                  now <= issued[typed'[h]].lastSent + OTPTTL]_flowVars
  <2> SUFFICES ASSUME IInv, Next, NEW h \in Handlers, Accepts(h)
               PROVE  now <= issued[typed'[h]].lastSent + OTPTTL
    BY DEF vars
  <2>1. PICK g \in Handlers : ConfirmRight(g)
    BY OnlyConfirmAccepts
  <2> QED BY <2>1, RightAcceptsInTime DEF ConfirmRight, IInv
<1> QED BY <1>1, Invariance, PTL DEF Spec, NotAfterExpiry

-----------------------------------------------------------------------------
(* Implementation of GatedTransfer. *)

LEMMA GateInit == Init => Gate!Init
  BY DEF Init, FlowInit, Gate!Init

LEMMA GateStep == IInv /\ [Next]_vars => [Gate!Next]_(Gate!gate)
<1> SUFFICES ASSUME IInv, [Next]_vars PROVE Gate!Next \/ UNCHANGED Gate!gate
  BY DEF Gate!gate
<1> USE DEF Gate!gate, history, draws, bank
<1>0. FlowInv(Transfer, OwnLabels)
  BY DEF IInv
<1>1. ASSUME NEW h \in Handlers, FlowStart(h) \/ FlowResend(h), UNCHANGED ledger
      PROVE  Gate!Next \/ UNCHANGED Gate!gate
  <2>1. UNCHANGED spent
    BY <1>0, <1>1, FlowMovesOne
  <2>2. CASE mails' = mails
    BY <1>1, <2>1, <2>2
  <2>3. ASSUME NEW m \in [to : Keys, code : Codes, payload : Transfer],
               mails' = mails \cup {m}, \A n \in mails : n.code = m.code => n = m
        PROVE  Gate!Next
    BY <1>1, <2>1, <2>3 DEF Gate!Next, Gate!Announce
  <2> QED BY <1>0, <1>1, <2>2, <2>3, FlowMails
<1>2. ASSUME NEW h \in Handlers, FlowRefuse(h) \/ Crash(h), UNCHANGED ledger
      PROVE  UNCHANGED Gate!gate
  BY <1>2 DEF FlowRefuse, VerifyRefused, VerifyWrong, ErrPut, ErrDel, Crash
<1>3. ASSUME NEW h \in Handlers, ConfirmRight(h)
      PROVE  Gate!Next \/ UNCHANGED Gate!gate
  <2>1. PICK u \in Keys : \E code \in CanType(u) : VerifyRight(h, u, code, "okDel")
    BY <1>3 DEF ConfirmRight
  <2>2. PICK code \in CanType(u) : VerifyRight(h, u, code, "okDel")
    BY <2>1
  <2>3. PICK m \in mails : m.code = code
    BY <1>0, <2>2, RightMeans
  <2>4. m \in [to : Keys, code : Codes, payload : Transfer]
    BY <1>0, <2>3 DEF FlowInv, FlowType
  <2> QED BY <1>3, <2>2, <2>3, <2>4 DEF ConfirmRight, VerifyRight, Gate!Next, Gate!ComeBack
<1>4. ASSUME NEW h \in Handlers, BankPost(h)
      PROVE  Gate!Next \/ UNCHANGED Gate!gate
  <2> DEFINE t == held[h].payload
             m == [to |-> held[h].key, code |-> typed[h], payload |-> t]
  <2>1. m \in mails /\ m.code \in spent /\ m.payload = t
    BY <1>4, ReadyToPost DEF BankPost, OwnLabels
  <2>2. m \in [to : Keys, code : Codes, payload : Transfer]
    BY <1>0, <2>1 DEF FlowInv, FlowType
  <2>3. t.intent \in Intents /\ (t.idem \notin bankSeen => ledger[t.intent] = 0)
    BY <1>4, FirstPostOnly DEF BankPost
  <2>4. CASE UNCHANGED bank
    BY <1>4, <2>4 DEF BankPost
  <2>5. ASSUME t.idem \notin bankSeen, ledger' = [ledger EXCEPT ![t.intent] = @ + 1]
        PROVE  Gate!Next
    <3> HIDE DEF m, t
    <3>0. ledger[t.intent] = 0 /\ m.payload = t
      BY <2>1, <2>3, <2>5
    <3>1. ledger' = [ledger EXCEPT ![m.payload.intent] = 1] /\ ledger[m.payload.intent] = 0
      BY <2>5, <3>0
    <3>2. Gate!Move(m)
      BY <1>4, <2>1, <3>1 DEF BankPost, Gate!Move
    <3> QED BY <2>2, <3>2 DEF Gate!Next
  <2> QED BY <1>4, <2>4, <2>5 DEF BankPost, BankExecutes
<1>5. ASSUME NEW h \in Handlers, OkDel(h) \/ Receipts(h)
      PROVE  UNCHANGED Gate!gate
  BY <1>5 DEF OkDel, Receipts
<1>6. CASE Tick /\ UNCHANGED <<bank, receipts>>
  BY <1>6 DEF Tick
<1>7. ASSUME NEW h \in Handlers,
             \E u \in Keys, t \in Transfer, c \in Codes : ChallengeDraw(h, u, t, c),
             UNCHANGED ledger
      PROVE  UNCHANGED Gate!gate
  BY <1>7 DEF ChallengeDraw, StartDraw
<1>8. CASE UNCHANGED vars
  BY <1>8 DEF vars, flowVars
<1> QED
  BY <1>1, <1>2, <1>3, <1>4, <1>5, <1>6, <1>7, <1>8
  DEF Next, Confirm, ChallengeStart, ChallengeResend, ConfirmRefused

\* The transfer flow implements the email-gated transfer of GatedTransfer: every
\* step announces, takes back a code, moves money once, or changes none of it.
THEOREM ImplementsGate == Spec => GateSpec
<1> QED
  BY GateInit, GateStep, Invariance, PTL DEF Spec, GateSpec, Gate!Spec

-----------------------------------------------------------------------------
(* Requests one at a time, Redis answering and no process dying: what a user *)
(* is promised of a code.                                                    *)

LEMMA LabelsAside == OwnAside({"okDel"}, {})
  BY DEF OwnAside, FlowLabels

\* CountInv of the codes spent, and of a set that names the same.
LEMMA SpentSame ==
  ASSUME NEW U
  PROVE  /\ U = spent /\ OnceInv => CountInv(U, {"okDel"}, {})
         /\ U = spent' /\ CountInv(U, {"okDel"}, {})' => OnceInv'
  BY DEF OnceInv, CountInv, TriesCounted, StoredCounts, UsableStored, Usable, HeldCounts

LEMMA OnceStep ==
  ASSUME ~MayFail("redis"), ~MayFail("crash"), serial,
         IInv, OnceInv, [Next]_vars
  PROVE  OnceInv'
<1>0. FlowInv(Transfer, OwnLabels)
  BY DEF IInv
<1>1. PICK U : U = spent
  OBVIOUS
<1>2. CountInv(U, {"okDel"}, {}) /\ OwnAside({"okDel"}, {})
  BY <1>1, SpentSame, LabelsAside
<1>3. ASSUME spent' = spent, CountInv(U, {"okDel"}, {})' PROVE OnceInv'
  BY <1>1, <1>3, SpentSame
<1>4. CASE Tick
  <2>1. CountInv(U, {"okDel"}, {})'
    BY <1>0, <1>2, <1>4, TickCounts
  <2> QED BY <1>3, <1>4, <2>1 DEF Tick, history
<1>5. ASSUME OneAtATime', NEW h \in Handlers,
             FlowStart(h) \/ FlowResend(h) \/ FlowRefuse(h) \/ Crash(h)
      PROVE  OnceInv'
  <2>1. CountInv(U, {"okDel"}, {})'
    BY <1>0, <1>2, <1>5, FlowCounts
  <2>2. spent' = spent
    BY <1>0, <1>5, FlowMovesOne
  <2> QED BY <1>3, <2>1, <2>2
<1>6. ASSUME OneAtATime', NEW h \in Handlers, NEW u \in Keys, NEW t \in Transfer, NEW c \in Codes,
             ChallengeDraw(h, u, t, c)
      PROVE  OnceInv'
  <2>1. CountInv(U, {"okDel"}, {})'
    BY <1>0, <1>2, <1>6, StartDrawCounts DEF ChallengeDraw
  <2> QED BY <1>3, <1>6, <2>1 DEF ChallengeDraw, StartDraw
<1>7. ASSUME OneAtATime', NEW h \in Handlers, ConfirmRight(h) PROVE OnceInv'
  <2>1. PICK u \in Keys : \E code \in CanType(u) : VerifyRight(h, u, code, "okDel")
    BY <1>7 DEF ConfirmRight
  <2>2. PICK code \in CanType(u) : VerifyRight(h, u, code, "okDel")
    BY <2>1
  <2>3. PICK V : V = U \cup {code}
    OBVIOUS
  <2>4. CountInv(V, {"okDel"}, {})'
    BY <1>0, <1>2, <1>7, <2>2, <2>3, RightCounts
  <2> QED BY <1>1, <2>2, <2>3, <2>4, SpentSame DEF VerifyRight
<1>8. ASSUME OneAtATime', NEW h \in Handlers, OkDel(h) \/ BankPost(h) \/ Receipts(h)
      PROVE  OnceInv'
  <2>1. spent' = spent /\ UNCHANGED <<now, issued, latest, answered, tries>>
    BY <1>8 DEF OkDel, BankPost, Receipts, history
  <2>2. pc[h] \in OwnLabels /\ pc[h] \notin FlowLabels /\ held[h].code \in U
    <3>1. pc[h] \in OwnLabels
      BY <1>8 DEF OkDel, BankPost, Receipts, OwnLabels
    <3> QED BY <1>1, <3>1, ReadyToPost DEF OwnLabels, FlowLabels
  <2>3. CASE OkDel(h)
    <3>1. Delete(held[h].key) /\ Goto(h, "bankPost")
      BY <2>3 DEF OkDel, DeleteIgnored, RedisFails
    <3>2. "bankPost" \notin FlowLabels /\ "bankPost" # "idle"
      BY DEF FlowLabels
    <3>3. CountInv(U, {"okDel"}, {})'
      BY <1>0, <1>2, <1>8, <2>1, <2>2, <3>1, <3>2, OwnCounts
    <3> QED BY <1>3, <2>1, <3>3
  <2>4. CASE BankPost(h) \/ Receipts(h)
    <3>1. /\ UNCHANGED redis /\ pc[h] \notin {"okDel"}
          /\ Goto(h, "receipts") \/ Return(h)
      BY <2>4 DEF BankPost, Receipts
    <3>2. "receipts" \notin FlowLabels /\ "receipts" # "idle"
      BY DEF FlowLabels
    <3>3. CountInv(U, {"okDel"}, {})'
      BY <1>0, <1>2, <1>8, <2>1, <2>2, <3>1, <3>2, OwnCounts
    <3> QED BY <1>3, <2>1, <3>3
  <2> QED BY <1>8, <2>3, <2>4
<1>9. CASE UNCHANGED vars
  <2>1. CountInv(U, {"okDel"}, {})'
    BY <1>2, <1>9, StutterCounts DEF vars, flowVars, redis
  <2> QED BY <1>3, <1>9, <2>1 DEF vars, flowVars
<1> QED
  BY <1>4, <1>5, <1>6, <1>7, <1>8, <1>9
  DEF Next, AsServed, ChallengeStart, ChallengeResend, Confirm, ConfirmRefused

LEMMA OnceInit == Init => OnceInv
<1> SUFFICES ASSUME Init PROVE OnceInv
  OBVIOUS
<1>1. PICK U : U = spent
  OBVIOUS
<1>2. CountInv(U, {"okDel"}, {})
  BY <1>1, InitCounts, LabelsAside DEF Init, FlowInit
<1> QED BY <1>1, <1>2
        DEF OnceInv, CountInv, TriesCounted, StoredCounts, UsableStored, Usable, HeldCounts

LEMMA Once ==
  ASSUME "redis" \notin SerialFaults, "crash" \notin SerialFaults
  PROVE  Spec => [](serial => OnceInv)
<1> DEFINE I == serial => OnceInv
<1>1. Init => I
  BY OnceInit
<1>2. IInv /\ I /\ [Next]_vars => I'
  <2> SUFFICES ASSUME IInv, I, [Next]_vars, serial' PROVE OnceInv'
    OBVIOUS
  <2>1. serial
    BY DEF Next, AsServed, vars, flowVars
  <2>2. ~MayFail("redis") /\ ~MayFail("crash")
    BY <2>1 DEF MayFail
  <2> QED BY <2>1, <2>2, OnceStep
<1> QED BY <1>1, <1>2, Invariance, PTL DEF Spec

\* Served one at a time, and with Redis answering, a code answered for with a
\* 200 is accepted until it expires, is used or has failed too often.
THEOREM LatestUsable ==
  ASSUME "redis" \notin SerialFaults, "crash" \notin SerialFaults
  PROVE  Spec => []LatestCodeUsable
<1>1. IInv /\ (serial => OnceInv) => LatestCodeUsable
  <2> SUFFICES ASSUME IInv, OnceInv, \A h \in Handlers : pc[h] = "idle",
                      NEW k \in Keys, Usable(k, spent)
               PROVE  pend[k] # None /\ Accepted(pend[k], latest[k], now)
    BY DEF LatestCodeUsable, LatestUsableUnless
  <2>1. PICK U : U = spent
    OBVIOUS
  <2>2. CountInv(U, {"okDel"}, {}) /\ Usable(k, U)
    BY <2>1, SpentSame DEF Usable
  <2> QED BY <2>2, LabelsAside, UsableAccepted DEF IInv
<1> QED BY <1>1, Invariance, Once, PTL

\* Served one at a time, no code allows a wrong guess more than the limit: no
\* comparison works on a copy that has not seen the ones before.
THEOREM AttemptsCapped ==
  ASSUME "redis" \notin SerialFaults, "crash" \notin SerialFaults
  PROVE  Spec => []AttemptCap
<1>1. (serial => OnceInv) => AttemptCap
  BY DEF OnceInv, CountInv, TriesCounted, AttemptCap
<1> QED BY <1>1, Once, PTL

\* Served one at a time, no confirm accepts a code a second time: the challenge
\* is gone before the confirm that used it ends.
THEOREM UsedOnce ==
  ASSUME "redis" \notin SerialFaults, "crash" \notin SerialFaults
  PROVE  Spec => OneTimeUse
<1>1. IInv /\ (serial => OnceInv) /\ [Next]_vars
          => [\A h \in Handlers : serial /\ Accepts(h) => typed'[h] \notin spent]_flowVars
  <2> SUFFICES ASSUME IInv, OnceInv, Next, OneAtATime', NEW h \in Handlers, Accepts(h)
               PROVE  typed'[h] \notin spent
    BY DEF vars, Next, AsServed
  <2>0. FlowInv(Transfer, OwnLabels)
    BY DEF IInv
  <2>1. PICK g \in Handlers : ConfirmRight(g)
    BY OnlyConfirmAccepts
  <2>2. PICK u \in Keys : \E code \in CanType(u) : VerifyRight(g, u, code, "okDel")
    BY <2>1 DEF ConfirmRight
  <2>3. PICK code \in CanType(u) : VerifyRight(g, u, code, "okDel")
    BY <2>2
  <2>4. PICK U : U = spent
    OBVIOUS
  <2>5. CountInv(U, {"okDel"}, {})
    BY <2>4, SpentSame
  <2>6. typed'[h] \notin U
    BY <2>0, <2>3, <2>5, LabelsAside, RightIsFresh
  <2> QED BY <2>4, <2>6
<1> QED BY <1>1, Invariance, Once, PTL DEF Spec, OneTimeUse

-----------------------------------------------------------------------------
(* Requests one at a time: the cooldown between mails, whatever fails. *)

\* A fresh draw, of a new transfer or the cooldown after the one before.
LEMMA SpacedDraw ==
  ASSUME IInv, SpacingInv, OneAtATime', NEW h \in Handlers, NEW l \in Drawing, pc[h] = "idle",
         NEW ch \in Challenge(Transfer), ch.code \notin Issued, ch.lastSent = now, Issue(ch),
         held' = [held EXCEPT ![h] = ch], pc' = [pc EXCEPT ![h] = l],
         UNCHANGED <<now, redis, mails>>, SamePlace', Spaced(ch),
         \A d \in Issued : issued[d].payload = ch.payload => issued[d].key = ch.key
  PROVE  SpacingInv'
<1>0. FlowType(Transfer, OwnLabels) /\ HeldWhileBusy /\ MailsGenuine /\ now \in Nat
  BY DEF IInv, FlowInv, FlowType
<1>1. /\ Issued' = Issued \cup {ch.code}
      /\ issued'[ch.code] = ch
      /\ \A d \in Issued : issued'[d] = issued[d] /\ d # ch.code
  BY <1>0, IssueKeeps
<1>2. \A m \in mails : m.code \in Issued /\ issued'[m.code] = issued[m.code]
  BY <1>0, <1>1 DEF MailsGenuine
<1>3. /\ pc'[h] = l /\ held'[h] = ch
      /\ \A g \in Handlers \ {h} : pc'[g] = pc[g] /\ held'[g] = held[g]
  BY <1>0 DEF FlowType
<1>4. \A g \in Handlers \ {h} : pc'[g] = "idle"
  BY <1>3, OthersIdle DEF SpacingInv, Drawing
<1>5. PayloadsApart'
  BY <1>1 DEF SpacingInv, PayloadsApart
<1>6. \A k \in Keys : pend'[k] # None => Spaced(pend[k])'
  BY <1>2 DEF SpacingInv, Spaced, redis
<1>7. \A g \in Handlers : pc'[g] \in FlowLabels \ {"idle"} => Spaced(held[g])'
  BY <1>2, <1>3, <1>4 DEF Spaced
<1>8. \A c \in Issued' : issued'[c].lastSent <= now'
  BY <1>0, <1>1 DEF SpacingInv
<1>9. MailsApart'
  BY <1>2 DEF SpacingInv, MailsApart
<1> QED BY <1>5, <1>6, <1>7, <1>8, <1>9 DEF SpacingInv

\* A step that draws and mails nothing, where each challenge stored or held for a
\* put afterwards is one that was stored or held so before.
LEMMA SpacedMove ==
  ASSUME IInv, SpacingInv, OneAtATime', SamePlace', UNCHANGED <<issued, mails>>,
         now' \in Nat, now <= now',
         \A k \in Keys : pend'[k] # None =>
            \/ pend'[k] = pend[k]
            \/ \E g \in Handlers : pc[g] \in FlowLabels \ {"idle"} /\ pend'[k] = held[g],
         \A g \in Handlers : pc'[g] \in FlowLabels \ {"idle"} =>
            \/ held'[g] = held[g] /\ pc[g] \in FlowLabels \ {"idle"}
            \/ \E k \in Keys : /\ pend[k] # None /\ held'[g].code = pend[k].code
                               /\ held'[g].payload = pend[k].payload
                               /\ held'[g].lastSent = pend[k].lastSent
  PROVE  SpacingInv'
<1>1. \A k \in Keys : pend'[k] # None => Spaced(pend[k])'
  BY DEF SpacingInv, Spaced
<1>2. \A g \in Handlers : pc'[g] \in FlowLabels \ {"idle"} => Spaced(held[g])'
  BY DEF SpacingInv, Spaced
<1>3. \A c \in Issued' : issued'[c].lastSent <= now'
  <2>1. now \in Nat /\ \A c \in Issued : issued[c].lastSent \in Nat
    BY DEF IInv, FlowInv, FlowType, Issued, Challenge
  <2> QED BY <2>1 DEF SpacingInv, Issued
<1>4. PayloadsApart' /\ MailsApart'
  BY DEF SpacingInv, PayloadsApart, MailsApart, Issued
<1> QED BY <1>1, <1>2, <1>3, <1>4 DEF SpacingInv

\* A mail, with what the request holds.
LEMMA SpacedSend ==
  ASSUME IInv, SpacingInv, OneAtATime', SamePlace', NEW h \in Handlers,
         pc[h] \in {"startMail", "resendMail"}, Goto(h, "startDel") \/ Return(h),
         mails' \in {mails, mails \cup {MailOf(held[h])}},
         UNCHANGED <<now, redis, issued>>
  PROVE  SpacingInv'
<1> DEFINE ch == held[h]
           new == MailOf(held[h])
<1>0. FlowInv(Transfer, OwnLabels) /\ FlowType(Transfer, OwnLabels) /\ MailsGenuine
  BY DEF IInv, FlowInv
<1>1. /\ ch \in Challenge(Transfer) /\ ch.code \in Issued /\ Genuine(ch)
      /\ issued[ch.code].key = ch.key /\ issued[ch.code].lastSent = ch.lastSent
      /\ ch.lastSent \in Nat
  BY <1>0, HeldMeans DEF FlowInv, CopiesGenuine, HeldWhileBusy
<1>2. new.code = ch.code /\ new.payload = ch.payload /\ new.to = ch.key
  BY DEF MailOf
<1>3. Spaced(ch)
  BY DEF SpacingInv, FlowLabels
<1>4. \A k \in Keys : pend[k] # None /\ pend[k].payload = ch.payload => pend[k].code = ch.code
  <2> SUFFICES ASSUME NEW k \in Keys, pend[k] # None, pend[k].payload = ch.payload
               PROVE  pend[k].code = ch.code
    OBVIOUS
  <2>1. /\ pend[k].code \in Issued /\ issued[pend[k].code].key = k
        /\ issued[pend[k].code].payload = ch.payload
    BY <1>0, StoredMeans DEF FlowInv, CopiesGenuine, Genuine
  <2>2. issued[ch.code].payload = ch.payload
    BY <1>1 DEF Genuine
  <2>3. k = ch.key
    BY <1>1, <2>1, <2>2 DEF SpacingInv, PayloadsApart
  <2>4. ch # None
    BY <1>1
  <2> QED BY <2>3, <2>4 DEF SpacingInv, SamePlace, Drawing
<1>5. \A g \in Handlers : pc'[g] \in FlowLabels \ {"idle"} => g = h /\ held'[g] = ch
  <2>1. \A g \in Handlers \ {h} : pc'[g] = pc[g] /\ pc[h] # "idle"
    BY <1>0 DEF Goto, Return, FlowType
  <2>2. \A g \in Handlers \ {h} : pc'[g] = "idle"
    BY <2>1, OthersIdle DEF SpacingInv
  <2>3. pc'[h] # "idle" => held'[h] = ch
    BY <1>0 DEF Goto, Return, FlowType
  <2> QED BY <2>2, <2>3
<1>6. \A n \in mails : n.code \in Issued /\ issued[n.code].lastSent \in Nat
                       /\ (n.code = new.code => n = new)
  <2> SUFFICES ASSUME NEW n \in mails
               PROVE  n.code \in Issued /\ issued[n.code].lastSent \in Nat
                      /\ (n.code = new.code => n = new)
    OBVIOUS
  <2>1. /\ n.code \in Issued /\ n.to = issued[n.code].key /\ n.payload = issued[n.code].payload
        /\ n \in [to : Keys, code : Codes, payload : Transfer]
    BY <1>0 DEF MailsGenuine, FlowType
  <2>2. issued[n.code].lastSent \in Nat
    BY <1>0, <2>1 DEF FlowType, Issued, Challenge
  <2>3. n.code = new.code => n = new
    BY <1>1, <2>1 DEF MailOf, Genuine
  <2> QED BY <2>1, <2>2, <2>3
<1>7. \A n \in mails : n.payload = new.payload /\ n # new =>
        new.code # n.code /\ issued[new.code].lastSent - issued[n.code].lastSent >= ResendCooldown
  BY <1>1, <1>2, <1>3, <1>6 DEF Spaced
<1>8. mails' = mails \/ mails' = mails \cup {new}
  OBVIOUS
<1> HIDE DEF ch, new
<1>9. \A k \in Keys : pend'[k] # None => Spaced(pend[k])'
  BY <1>2, <1>4, <1>8 DEF SpacingInv, Spaced, redis
<1>10. \A g \in Handlers : pc'[g] \in FlowLabels \ {"idle"} => Spaced(held[g])'
  BY <1>2, <1>3, <1>5, <1>8 DEF Spaced
<1>11. MailsApart'
  <2> SUFFICES ASSUME NEW m \in mails', NEW n \in mails', m # n, m.payload = n.payload,
                      issued[m.code].lastSent <= issued[n.code].lastSent
               PROVE  issued[n.code].lastSent - issued[m.code].lastSent >= ResendCooldown
    BY DEF MailsApart
  <2>1. CASE m \in mails /\ n \in mails
    BY <2>1 DEF SpacingInv, MailsApart
  <2>2. CASE n = new /\ m \in mails
    BY <1>7, <2>2
  <2>3. CASE m = new /\ n \in mails
    <3>1. issued[m.code].lastSent - issued[n.code].lastSent >= ResendCooldown
      BY <1>7, <2>3
    <3>2. issued[m.code].lastSent \in Nat /\ issued[n.code].lastSent \in Nat
      BY <1>1, <1>2, <1>6, <2>3
    <3> QED BY <3>1, <3>2, OtpAssumption
  <2> QED BY <1>8, <2>1, <2>2, <2>3
<1>12. PayloadsApart' /\ \A c \in Issued' : issued'[c].lastSent <= now'
  BY DEF SpacingInv, PayloadsApart, Issued
<1> QED BY <1>9, <1>10, <1>11, <1>12 DEF SpacingInv

LEMMA SpacingStep ==
  ASSUME serial, IInv, SpacingInv, [Next]_vars
  PROVE  SpacingInv'
<1>0. /\ FlowInv(Transfer, OwnLabels) /\ FlowType(Transfer, OwnLabels) /\ now \in Nat
      /\ OneAtATime /\ SamePlace
  BY DEF IInv, FlowInv, FlowType, SpacingInv
<1>1. CASE Tick
  <2>1. /\ UNCHANGED <<pc, held, issued, mails>> /\ now' = now + 1
        /\ \A k \in Keys : pend'[k] # None => pend'[k] = pend[k]
    BY <1>1 DEF Tick, handlers, history
  <2>2. SamePlace'
    BY <1>0, <1>1, TickPlace
  <2>3. OneAtATime'
    BY <1>0, <2>1 DEF OneAtATime
  <2> QED BY <1>0, <2>1, <2>2, <2>3, SpacedMove
<1>2. ASSUME OneAtATime', NEW h \in Handlers, NEW u \in Keys, NEW t \in Transfer, NEW c \in Codes,
             ChallengeDraw(h, u, t, c)
      PROVE  SpacingInv'
  <2> DEFINE ch == NewChallenge(u, t, c)
  <2>1. ch \in Challenge(Transfer) /\ ch.code = c /\ ch.payload = t /\ ch.lastSent = now
    BY <1>0, NewFields
  <2>2. /\ pc[h] = "idle" /\ c \notin Issued /\ Issue(ch)
        /\ held' = [held EXCEPT ![h] = ch] /\ pc' = [pc EXCEPT ![h] = "startPut"]
        /\ UNCHANGED <<now, redis, mails>>
        /\ \A d \in Issued : issued[d].payload # t
    BY <1>2 DEF ChallengeDraw, StartDraw
  <2>3. SamePlace'
    BY <1>0, <1>2, DrawPlace DEF ChallengeDraw
  <2> HIDE DEF ch
  <2>4. Spaced(ch)
    BY <1>0, <2>1, <2>2 DEF Spaced, FlowInv, MailsGenuine
  <2> QED BY <1>2, <2>1, <2>2, <2>3, <2>4, SpacedDraw DEF Drawing
<1>3. ASSUME OneAtATime', NEW h \in Handlers, NEW k \in Keys, NEW c \in Codes, ResendDraw(h, k, c)
      PROVE  SpacingInv'
  <2> DEFINE ch == Rotate(pend[k], c)
  <2>1. /\ pend[k] \in Challenge(Transfer) /\ Genuine(pend[k]) /\ pend[k].lastSent \in Nat
        /\ pend[k] # None /\ pend[k].code \in Issued
        /\ issued[pend[k].code].lastSent = pend[k].lastSent
        /\ issued[pend[k].code].payload = pend[k].payload
    BY <1>0, <1>3, StoredMeans DEF ResendDraw, FlowInv, CopiesGenuine, Genuine
  <2>2. /\ ch \in Challenge(Transfer) /\ ch.code = c /\ ch.lastSent = now
        /\ ch.payload = pend[k].payload /\ ch.key = pend[k].key
    BY <1>0, <2>1, DrawFields DEF Rotate
  <2>3. /\ pc[h] = "idle" /\ c \notin Issued /\ Issue(ch)
        /\ held' = [held EXCEPT ![h] = ch] /\ pc' = [pc EXCEPT ![h] = "resendPut"]
        /\ UNCHANGED <<now, redis, mails>> /\ now - pend[k].lastSent >= ResendCooldown
    BY <1>3 DEF ResendDraw, ResendAllowed
  <2>4. SamePlace'
    BY <1>0, <1>3, DrawPlace
  <2> HIDE DEF ch
  <2>5. Spaced(ch)
    <3> SUFFICES ASSUME NEW m \in mails, m.payload = pend[k].payload
                 PROVE  now - issued[m.code].lastSent >= ResendCooldown
      BY <2>2 DEF Spaced
    <3>1. issued[m.code].lastSent \in Nat
      BY <1>0 DEF FlowInv, MailsGenuine, FlowType, Issued, Challenge
    <3>2. \/ m.code = pend[k].code
          \/ pend[k].lastSent - issued[m.code].lastSent >= ResendCooldown
      BY <2>1 DEF SpacingInv, Spaced
    <3>3. pend[k].lastSent <= now
      BY <2>1 DEF SpacingInv
    <3> QED BY <1>0, <2>1, <2>3, <3>1, <3>2, <3>3, OtpAssumption
  <2>6. \A d \in Issued : issued[d].payload = ch.payload => issued[d].key = ch.key
    BY <2>1, <2>2 DEF SpacingInv, PayloadsApart, Genuine
  <2> QED BY <1>3, <2>2, <2>3, <2>4, <2>5, <2>6, SpacedDraw DEF Drawing
<1>4. ASSUME OneAtATime', NEW h \in Handlers,
             StartMail(h) \/ StartMailFails(h) \/ ResendMail(h) \/ ResendMailFails(h)
      PROVE  SpacingInv'
  <2>1. SamePlace'
    BY <1>0, <1>4, FlowPlace DEF FlowStart, FlowResend
  <2> QED BY <1>4, <2>1, SpacedSend
          DEF StartMail, StartMailFails, ResendMail, ResendMailFails, draws
<1>5. ASSUME OneAtATime', NEW h \in Handlers,
             \/ StartPut(h) \/ StartDel(h) \/ ResendPut(h) \/ ErrPut(h) \/ ErrDel(h) \/ Crash(h)
      PROVE  SpacingInv'
  <2>1. SamePlace'
    BY <1>0, <1>5, FlowPlace DEF FlowStart, FlowResend, FlowRefuse
  <2>2. UNCHANGED <<now, issued, mails>>
    BY <1>5 DEF StartPut, StartDel, ResendPut, ErrPut, ErrDel, Crash, history
  <2>3. \A k \in Keys : pend'[k] # None =>
            \/ pend'[k] = pend[k]
            \/ \E g \in Handlers : pc[g] \in FlowLabels \ {"idle"} /\ pend'[k] = held[g]
    BY <1>0, <1>5 DEF StartPut, StartDel, ResendPut, ErrPut, ErrDel, Crash, RedisFails,
       DeleteIgnored, Put, Delete, redis, FlowType, FlowLabels
  <2>4. \A g \in Handlers : pc'[g] \in FlowLabels \ {"idle"} =>
            held'[g] = held[g] /\ pc[g] \in FlowLabels \ {"idle"}
    BY <1>0, <1>5 DEF StartPut, StartDel, ResendPut, ErrPut, ErrDel, Crash, Goto, Return,
       FlowType, FlowLabels
  <2> QED BY <1>0, <1>5, <2>1, <2>2, <2>3, <2>4, SpacedMove
<1>6. ASSUME OneAtATime', NEW h \in Handlers, NEW k \in Keys,
             VerifyRefused(h, k) \/ \E code \in CanType(k) : VerifyWrong(h, k, code)
      PROVE  SpacingInv'
  <2>1. SamePlace'
    BY <1>0, <1>6, FlowPlace DEF FlowRefuse
  <2>2. pend[k] \in Challenge(Transfer) /\ pend[k] # None
    BY <1>0, <1>6, StoredMeans DEF VerifyRefused, VerifyWrong
  <2>3. /\ UNCHANGED <<now, pend, issued, mails>>
        /\ held'[h] \in {pend[k], Counted(pend[k])}
        /\ \A g \in Handlers \ {h} : pc'[g] = pc[g] /\ held'[g] = held[g]
    BY <1>0, <1>6 DEF VerifyRefused, VerifyWrong, FlowType, redis, history, draws
  <2>4. /\ held'[h].code = pend[k].code /\ held'[h].payload = pend[k].payload
        /\ held'[h].lastSent = pend[k].lastSent
    BY <2>2, <2>3, CountedFields
  <2> QED BY <1>0, <1>6, <2>1, <2>2, <2>3, <2>4, SpacedMove
<1>7. ASSUME OneAtATime', NEW h \in Handlers, ConfirmRight(h) PROVE SpacingInv'
  <2>1. PICK u \in Keys : \E code \in CanType(u) : VerifyRight(h, u, code, "okDel")
    BY <1>7 DEF ConfirmRight
  <2>2. PICK code \in CanType(u) : VerifyRight(h, u, code, "okDel")
    BY <2>1
  <2>3. SamePlace'
    BY <1>0, <1>7, <2>2, RightPlace
  <2>4. UNCHANGED <<now, pend, issued, mails>>
    BY <2>2 DEF VerifyRight, redis, draws
  <2>5. \A g \in Handlers : pc'[g] \in FlowLabels => held'[g] = held[g] /\ pc'[g] = pc[g]
    BY <1>0, <2>2 DEF VerifyRight, FlowType, FlowLabels
  <2> QED BY <1>0, <1>7, <2>3, <2>4, <2>5, SpacedMove
<1>8. ASSUME OneAtATime', NEW h \in Handlers, OkDel(h) \/ BankPost(h) \/ Receipts(h)
      PROVE  SpacingInv'
  <2>1. SamePlace'
    BY <1>0, <1>8, MovePlace
    DEF OkDel, BankPost, Receipts, DeleteIgnored, RedisFails, Drawing
  <2>2. UNCHANGED <<now, issued, mails>>
    BY <1>8 DEF OkDel, BankPost, Receipts, history
  <2>3. \A k \in Keys : pend'[k] # None => pend'[k] = pend[k]
    BY <1>0, <1>8
    DEF OkDel, BankPost, Receipts, DeleteIgnored, RedisFails, Delete, redis, FlowType
  <2>4. \A g \in Handlers : pc'[g] \in FlowLabels \ {"idle"} => held'[g] = held[g] /\ pc'[g] = pc[g]
    BY <1>0, <1>8 DEF OkDel, BankPost, Receipts, Goto, Return, FlowType, FlowLabels
  <2> QED BY <1>0, <1>8, <2>1, <2>2, <2>3, <2>4, SpacedMove
<1>9. CASE UNCHANGED vars
  BY <1>9 DEF vars, flowVars, SpacingInv, OneAtATime, SamePlace, PayloadsApart, Spaced,
              MailsApart, Issued
<1> QED
  BY <1>1, <1>2, <1>3, <1>4, <1>5, <1>6, <1>7, <1>8, <1>9
  DEF Next, AsServed, ChallengeStart, ChallengeResend, Confirm, ConfirmRefused,
      FlowStart, FlowResend, FlowRefuse

\* Served one at a time, whatever call fails or request dies, two mails for one
\* Start carry codes drawn at least the cooldown apart.
THEOREM MailsSpaced == Spec => []ResendSpacing
<1> DEFINE I == serial => SpacingInv
<1>1. Init => I
  BY DEF Init, FlowInit, SpacingInv, OneAtATime, SamePlace, PayloadsApart, Spaced,
         MailsApart, Issued
<1>2. IInv /\ I /\ [Next]_vars => I'
  <2> SUFFICES ASSUME IInv, I, [Next]_vars, serial' PROVE SpacingInv'
    OBVIOUS
  <2>1. serial
    BY DEF Next, AsServed, vars, flowVars
  <2> QED BY <2>1, SpacingStep
<1>3. I => ResendSpacing
  BY DEF ResendSpacing, SpacingInv
<1> QED BY <1>1, <1>2, <1>3, Invariance, PTL DEF Spec
=============================================================================
