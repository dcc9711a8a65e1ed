---------------------------- MODULE BankTransfer ----------------------------
(***************************************************************************)
(* E-mail-gated bank transfers: transferChallengeStart, -Resend and        *)
(* transferConfirm of internal/httpapi/bank_transfer.go over the Redis     *)
(* store of internal/otp/transfer_challenge.go, the mailer and the bank.   *)
(* Start, Resend and the refusals of confirm are those of OtpFlow, with    *)
(* the user's subject as the key; this module adds what a Start draws, and *)
(* what a confirm does with an accepted code.                              *)
(***************************************************************************)
EXTENDS OtpFlow

CONSTANTS
    Intents,  \* fresh transfers (amount, destination, memo) a Start can ask for
    IdemKeys  \* fresh idempotency keys uuid.NewString can still draw

\* What a Start stores beside the code.
Transfer == [intent : Intents, idem : IdemKeys]

ASSUME BankAssumption == None \notin Challenge(Transfer)

VARIABLES
    bankSeen, \* the bank: idempotency keys it has executed
    ledger,   \* the bank: how often each intent moved money
    receipts  \* history: the intents a receipt was mailed for

bank == <<bankSeen, ledger>>
vars == <<flowVars, bankSeen, ledger, receipts>>

OwnLabels == {"okDel", "bankPost", "receipts"}

Init ==
    /\ FlowInit
    /\ bankSeen = {}
    /\ ledger = [i \in Intents |-> 0]
    /\ receipts = {}

-----------------------------------------------------------------------------
\* Start draws an idempotency key for the transfer before it draws the code.
ChallengeDraw(h, u, t, c) ==
    /\ \A d \in Issued : /\ issued[d].payload.intent # t.intent
                         /\ issued[d].payload.idem # t.idem
    /\ StartDraw(h, u, t, c)

ChallengeStart(h) ==
    /\ \/ \E u \in Keys, t \in Transfer, c \in Codes : ChallengeDraw(h, u, t, c)
       \/ FlowStart(h)
    /\ UNCHANGED <<bank, receipts>>

ChallengeResend(h) == FlowResend(h) /\ UNCHANGED <<bank, receipts>>

ConfirmRefused(h) == FlowRefuse(h) /\ UNCHANGED <<bank, receipts>>

ConfirmRight(h) ==
    /\ \E u \in Keys : \E code \in CanType(u) : VerifyRight(h, u, code, "okDel")
    /\ UNCHANGED <<bank, receipts>>

\* Mutant: the delete forgotten.
OkDelForgotten(h) ==
    /\ pc[h] = "okDel"
    /\ Goto(h, "bankPost")
    /\ UNCHANGED <<now, redis, history, bank, receipts>>

\* The challenge is deleted first, the error ignored, ...
OkDel(h) ==
    /\ pc[h] = "okDel"
    /\ DeleteIgnored(held[h].key)
    /\ Goto(h, "bankPost")
    /\ UNCHANGED <<now, history, bank, receipts>>

\* The bank executes a key once and replays its answer afterwards.
BankExecutes(t) ==
    IF t.idem \in bankSeen
    THEN UNCHANGED bank
    ELSE /\ bankSeen' = bankSeen \cup {t.idem}
         /\ ledger' = [ledger EXCEPT ![t.intent] = @ + 1]

\* Mutant: a key drawn by each confirm.
BankPostOwnKey(h) ==
    /\ pc[h] = "bankPost"
    /\ \E k \in IdemKeys \ bankSeen : BankExecutes([held[h].payload EXCEPT !.idem = k])
    /\ Goto(h, "receipts")
    /\ UNCHANGED <<now, redis, history, receipts>>

\* Mutant: the challenge read again for the post.
BankPostReread(h) ==
    /\ pc[h] = "bankPost"
    /\ IF pend[held[h].key] = None
       THEN UNCHANGED bank /\ Return(h)
       ELSE BankExecutes(pend[held[h].key].payload) /\ Goto(h, "receipts")
    /\ UNCHANGED <<now, redis, history, receipts>>

\* Mutant: the bank's status not looked at before the receipts.
BankPostAnyStatus(h) ==
    /\ pc[h] = "bankPost"
    /\ BankExecutes(held[h].payload) \/ UNCHANGED bank
    /\ Goto(h, "receipts")
    /\ UNCHANGED <<now, redis, history, receipts>>

\* ... then the transfer is posted with the key its Start drew, ...
BankPost(h) ==
    /\ pc[h] = "bankPost"
    /\ \/ BankExecutes(held[h].payload) /\ Goto(h, "receipts")
       \/ MayFail("bank") /\ BankExecutes(held[h].payload) /\ Return(h)  \* answer lost
       \/ UNCHANGED bank /\ Return(h)                       \* refused, or never arrived
    /\ UNCHANGED <<now, redis, history, receipts>>

\* ... and a 200 from the bank sends the receipts; that its answer cannot be
\* read, or that a mail fails, nobody notices.
Receipts(h) ==
    /\ pc[h] = "receipts"
    /\ \/ receipts' = receipts \cup {held[h].payload.intent}
       \/ UNCHANGED receipts
    /\ Return(h)
    /\ UNCHANGED <<now, redis, history, bank>>

Confirm(h) == ConfirmRefused(h) \/ ConfirmRight(h) \/ OkDel(h) \/ BankPost(h) \/ Receipts(h)

Next ==
    /\ \/ Tick /\ UNCHANGED <<bank, receipts>>
       \/ \E h \in Handlers : \/ ChallengeStart(h) \/ ChallengeResend(h) \/ Confirm(h)
                              \/ Crash(h) /\ UNCHANGED <<bank, receipts>>
    /\ AsServed

Spec == Init /\ [][Next]_vars

-----------------------------------------------------------------------------
TypeOK ==
    /\ FlowType(Transfer, OwnLabels)
    /\ bankSeen \subseteq IdemKeys
    /\ ledger \in [Intents -> Nat]
    /\ receipts \subseteq Intents

\* However requests overlap and whatever call fails, one Start moves money at
\* most once: Rotate keeps the idempotency key bank_transfer.go:96 drew, and
\* every confirm posts with it.
AtMostOncePerStart == \A i \in Intents : ledger[i] <= 1

\* Money moves, and a handler is about to move it, only for an intent whose
\* own confirmation mail reached its owner and whose code was typed back: no
\* overwrite, retry or stale copy pairs a code with another transfer.
ConfirmedAsMailed ==
    /\ \A i \in Intents : ledger[i] > 0 =>
        \E m \in mails : m.payload.intent = i /\ m.code \in spent
    /\ \A h \in Handlers : pc[h] = "bankPost" =>
        [to |-> held[h].key, code |-> typed[h], payload |-> held[h].payload] \in mails

\* A receipt is mailed only for a transfer the bank did execute.
ReceiptsTellTheTruth == \A i \in receipts : ledger[i] > 0

\* Served one at a time, the code of the last Start or Resend that answered 200 confirms
\* its transfer until it expires, as the mail says, is used or fails too often.
LatestCodeUsable == serial => LatestUsableUnless(spent)

\* Served one at a time, a confirm accepts no code a second time: it deletes the
\* challenge before it posts the transfer.
OneTimeUse == [][\A h \in Handlers : serial /\ Accepts(h) => typed'[h] \notin spent]_flowVars

\* The flow implements the gate its type's comment promises: mails announce,
\* accepted codes come back, the ledger moves.
Gate == INSTANCE GatedTransfer WITH
            Mail <- [to : Keys, code : Codes, payload : Transfer],
            mailed <- mails, returned <- spent, moved <- ledger
GateSpec == Gate!Spec

-----------------------------------------------------------------------------
(* The inductive invariant behind the safety properties. *)

\* An intent and its idempotency key are drawn together.
TransfersApart ==
    \A c, d \in Issued :
        issued[c].payload.intent = issued[d].payload.intent
            <=> issued[c].payload.idem = issued[d].payload.idem

PastVerify == \A h \in Handlers :
    pc[h] \in {"okDel", "bankPost", "receipts"} => typed[h] # None

\* Money moved for an accepted code's transfer, whose key the bank has seen ...
LedgerBacked ==
    \A i \in Intents : ledger[i] > 0 =>
        /\ ledger[i] = 1
        /\ \E c \in spent : /\ issued[c].payload.intent = i
                            /\ issued[c].payload.idem \in bankSeen

\* ... and the other way round.
SeenBacked ==
    /\ \A k \in bankSeen : \E c \in spent :
        issued[c].payload.idem = k /\ ledger[issued[c].payload.intent] > 0
    /\ \A h \in Handlers : pc[h] = "receipts" => ledger[held[h].payload.intent] > 0

BankInv == /\ TransfersApart /\ PastVerify /\ LedgerBacked
           /\ SeenBacked /\ ReceiptsTellTheTruth

IInv ==
    /\ TypeOK
    /\ FlowInv(Transfer, OwnLabels)
    /\ BankInv

-----------------------------------------------------------------------------
(* What more holds while requests come one at a time. *)

\* The codes mailed for one Start belong to one user.
PayloadsApart ==
    \A c, d \in Issued : issued[c].payload = issued[d].payload => issued[c].key = issued[d].key

\* The mails sent for a challenge's Start carry its code, or one that was drawn
\* the cooldown before.
Spaced(ch) ==
    \A m \in mails : m.payload = ch.payload =>
        \/ m.code = ch.code
        \/ ch.lastSent - issued[m.code].lastSent >= ResendCooldown

SpacingInv ==
    /\ OneAtATime
    /\ SamePlace
    /\ PayloadsApart
    /\ \A k \in Keys : pend[k] # None => Spaced(pend[k])
    /\ \A h \in Handlers : pc[h] \in FlowLabels \ {"idle"} => Spaced(held[h])
    /\ \A c \in Issued : issued[c].lastSent <= now
    /\ MailsApart

OnceInv == CountInv(spent, {"okDel"}, {})
=============================================================================
