------------------------------ MODULE OtpFlow ------------------------------
(***************************************************************************)
(* The part every one-time-code flow of internal/httpapi has in common:    *)
(* a Start draws a code, stores its challenge in Redis and mails it; a     *)
(* Resend does so again for the stored challenge; a Verify reads the       *)
(* challenge, compares the typed code and, on refusal, writes back or      *)
(* deletes.  What an accepted code sets off is each flow's own module.     *)
(*                                                                         *)
(* A request is a handler that runs between external calls: every action   *)
(* is one call to Redis or the mailer with what the handler does up to the *)
(* next one.  Several handlers may serve the same Redis key at once, and   *)
(* nothing in the code orders them.                                        *)
(***************************************************************************)
EXTENDS Otp, FiniteSets

CONSTANTS
    Keys,       \* Redis keys: the user's subject, or an e-mail address
    Handlers,   \* requests that can be in flight at the same time
    Codes,      \* fresh one-time codes RandomOTP can still draw
    Faults,     \* which kinds of call may fail, and whether requests may die
    SerialFaults, \* the same, where requests are served one at a time
    MaxTime,    \* bound: the clock stops here
    None, Wrong \* no value; a mistyped code

ASSUME FlowAssumption == MaxTime \in Nat /\ Wrong \notin Codes /\ None \notin Codes

\* A challenge of a flow whose Start stores a member of P with the code.
Challenge(P) ==
    [key : Keys, payload : P, code : Codes, lastSent : Nat, otpExp : Nat, attempts : Nat]

VARIABLES
    now,      \* the clock
    pend,     \* Redis: the challenge stored under each key, or None
    dies,     \* Redis: when that key expires
    pc,       \* where each handler is
    held,     \* each handler's own copy of the challenge
    typed,    \* the code a handler's Verify accepted
    issued,   \* history: the challenge as drawn with each code
    mails,    \* history: the mails delivered
    latest,   \* history: the code drawn last for each key
    answered, \* history: the codes whose Start or Resend answered 200
    tries,    \* history: failed comparisons against each code
    spent,    \* history: the codes accepted
    serial    \* whether users wait for each answer before the next request

redis    == <<pend, dies>>
handlers == <<pc, held, typed>>
draws    == <<issued, latest>>
history  == <<issued, mails, latest, answered, tries, spent>>
flowVars == <<now, pend, dies, pc, held, typed,
              issued, mails, latest, answered, tries, spent, serial>>

FlowLabels == {"idle", "startPut", "startMail", "startDel", "resendPut", "resendMail",
               "errPutKeep", "errPutDrop", "errDel"}

FlowInit ==
    /\ now = 0
    /\ pend = [k \in Keys |-> None]
    /\ dies = [k \in Keys |-> 0]
    /\ pc = [h \in Handlers |-> "idle"]
    /\ held = [h \in Handlers |-> None]
    /\ typed = [h \in Handlers |-> None]
    /\ issued = [c \in Codes |-> None]
    /\ mails = {}
    /\ latest = [k \in Keys |-> None]
    /\ answered = {}
    /\ tries = [c \in Codes |-> 0]
    /\ spent = {}
    /\ serial \in BOOLEAN

-----------------------------------------------------------------------------
(* A handler's control, and the operations of the store. *)

Goto(h, l) == pc' = [pc EXCEPT ![h] = l] /\ UNCHANGED <<held, typed>>

Return(h) == /\ pc' = [pc EXCEPT ![h] = "idle"]
             /\ held' = [held EXCEPT ![h] = None]
             /\ typed' = [typed EXCEPT ![h] = None]

Put(ch) == /\ pend' = [pend EXCEPT ![ch.key] = ch]
           /\ dies' = [dies EXCEPT ![ch.key] = now + ChallengeTTL]

Delete(k) == pend' = [pend EXCEPT ![k] = None] /\ dies' = [dies EXCEPT ![k] = 0]

MayFail(kind) == kind \in IF serial THEN SerialFaults ELSE Faults

\* A Redis call that answers an error: it may or may not have taken effect.
RedisFails(effect) == MayFail("redis") /\ (effect \/ UNCHANGED redis)

\* A Delete whose error the code ignores.
DeleteIgnored(k) == Delete(k) \/ RedisFails(Delete(k))

\* The mail for a challenge: who gets it, its code, and what the code is for.
MailOf(ch) == [to |-> ch.key, code |-> ch.code, payload |-> ch.payload]

Issued == {c \in Codes : issued[c] # None}

Issue(ch) == /\ issued' = [issued EXCEPT ![ch.code] = ch]
             /\ latest' = [latest EXCEPT ![ch.key] = ch.code]

\* A user types a code read in a mail, or mistypes it.
CanType(k) == {m.code : m \in {n \in mails : n.to = k}} \cup {Wrong}

-----------------------------------------------------------------------------
(* Start *)

NewChallenge(k, p, c) ==
    [key |-> k, payload |-> p, code |-> c,
     lastSent |-> now, otpExp |-> now + OTPTTL, attempts |-> 0]

StartDraw(h, k, p, c) ==
    /\ pc[h] = "idle"
    /\ c \notin Issued
    /\ held' = [held EXCEPT ![h] = NewChallenge(k, p, c)]
    /\ pc' = [pc EXCEPT ![h] = "startPut"]
    /\ Issue(NewChallenge(k, p, c))
    /\ UNCHANGED <<now, redis, typed, mails, answered, tries, spent>>

StartPut(h) ==
    /\ pc[h] = "startPut"
    /\ \/ Put(held[h]) /\ Goto(h, "startMail")
       \/ RedisFails(Put(held[h])) /\ Return(h)
    /\ UNCHANGED <<now, history>>

\* The mail goes out and the request answers 200, ...
StartMail(h) ==
    /\ pc[h] = "startMail"
    /\ mails' = mails \cup {MailOf(held[h])}
    /\ answered' = answered \cup {held[h].code}
    /\ Return(h)
    /\ UNCHANGED <<now, redis, draws, tries, spent>>

\* ... or the mailer reports an error, delivered or not, and the challenge
\* under the key is deleted.
StartMailFails(h) ==
    /\ pc[h] = "startMail"
    /\ MayFail("mail")
    /\ mails' \in {mails, mails \cup {MailOf(held[h])}}
    /\ Goto(h, "startDel")
    /\ UNCHANGED <<now, redis, draws, answered, tries, spent>>

StartDel(h) ==
    /\ pc[h] = "startDel"
    /\ DeleteIgnored(held[h].key)
    /\ Return(h)
    /\ UNCHANGED <<now, history>>

-----------------------------------------------------------------------------
(* Resend *)

Rotate(ch, c) == Draw(ch, c, now)

ResendDraw(h, k, c) ==
    /\ pc[h] = "idle"
    /\ pend[k] # None
    /\ ResendAllowed(pend[k], now)
    /\ c \notin Issued
    /\ held' = [held EXCEPT ![h] = Rotate(pend[k], c)]
    /\ pc' = [pc EXCEPT ![h] = "resendPut"]
    /\ Issue(Rotate(pend[k], c))
    /\ UNCHANGED <<now, redis, typed, mails, answered, tries, spent>>

ResendPut(h) ==
    /\ pc[h] = "resendPut"
    /\ \/ Put(held[h]) /\ Goto(h, "resendMail")
       \/ RedisFails(Put(held[h])) /\ Return(h)
    /\ UNCHANGED <<now, history>>

ResendMail(h) ==
    /\ pc[h] = "resendMail"
    /\ mails' = mails \cup {MailOf(held[h])}
    /\ answered' = answered \cup {held[h].code}
    /\ Return(h)
    /\ UNCHANGED <<now, redis, draws, tries, spent>>

\* A Resend whose mail fails leaves the rotated challenge in place.
ResendMailFails(h) ==
    /\ pc[h] = "resendMail"
    /\ MayFail("mail")
    /\ mails' \in {mails, mails \cup {MailOf(held[h])}}
    /\ Return(h)
    /\ UNCHANGED <<now, redis, draws, answered, tries, spent>>

-----------------------------------------------------------------------------
(* Verify *)

\* Get, and Verify refuses before it compares.
VerifyRefused(h, k) ==
    /\ pc[h] = "idle"
    /\ pend[k] # None
    /\ TooManyTries(pend[k]) \/ Expired(pend[k], now)
    /\ held' = [held EXCEPT ![h] = pend[k]]
    /\ pc' = [pc EXCEPT ![h] = "errPutDrop"]
    /\ UNCHANGED <<now, redis, typed, history>>

\* Get, and the comparison fails; the history saturates one above the limit.
VerifyWrong(h, k, code) ==
    /\ pc[h] = "idle"
    /\ pend[k] # None
    /\ Compared(pend[k], now)
    /\ ~Accepted(pend[k], code, now)
    /\ held' = [held EXCEPT ![h] = Counted(pend[k])]
    /\ pc' = [pc EXCEPT ![h] = "errPutKeep"]
    /\ tries' = [tries EXCEPT ![pend[k].code] = IF @ > MaxVerifyAttempts THEN @ ELSE @ + 1]
    /\ UNCHANGED <<now, redis, typed, draws, mails, answered, spent>>

\* Get, and the comparison succeeds: the flow goes on at its own label l.
VerifyRight(h, k, code, l) ==
    /\ pc[h] = "idle"
    /\ pend[k] # None
    /\ Accepted(pend[k], code, now)
    /\ held' = [held EXCEPT ![h] = Counted(pend[k])]
    /\ typed' = [typed EXCEPT ![h] = code]
    /\ pc' = [pc EXCEPT ![h] = l]
    /\ spent' = spent \cup {code}
    /\ UNCHANGED <<now, redis, draws, mails, answered, tries>>

\* Every refusal writes the handler's copy back, the error ignored, ...
ErrPut(h) ==
    /\ pc[h] \in {"errPutKeep", "errPutDrop"}
    /\ Put(held[h]) \/ RedisFails(Put(held[h]))
    /\ IF pc[h] = "errPutDrop" THEN Goto(h, "errDel") ELSE Return(h)
    /\ UNCHANGED <<now, history>>

\* ... and deletes it again when no further comparison is allowed.
ErrDel(h) ==
    /\ pc[h] = "errDel"
    /\ DeleteIgnored(held[h].key)
    /\ Return(h)
    /\ UNCHANGED <<now, history>>

-----------------------------------------------------------------------------
(* The three handlers, as far as they are common. *)

FlowStart(h)  == StartPut(h) \/ StartMail(h) \/ StartMailFails(h) \/ StartDel(h)
FlowResend(h) == \/ \E k \in Keys, c \in Codes : ResendDraw(h, k, c)
                 \/ ResendPut(h) \/ ResendMail(h) \/ ResendMailFails(h)
FlowRefuse(h) == \/ \E k \in Keys : \/ VerifyRefused(h, k)
                                    \/ \E code \in CanType(k) : VerifyWrong(h, k, code)
                 \/ ErrPut(h) \/ ErrDel(h)

\* The process of a request dies.
Crash(h) ==
    /\ MayFail("crash")
    /\ pc[h] # "idle"
    /\ Return(h)
    /\ UNCHANGED <<now, redis, history>>

\* No two requests are in flight: each is served before the next comes in.
OneAtATime == \A g, h \in Handlers : pc[g] # "idle" /\ pc[h] # "idle" => g = h

\* Nothing in the code orders requests; users who wait for each answer do.
AsServed == UNCHANGED serial /\ (serial => OneAtATime')

\* Time passes, and Redis drops what has expired.
Tick ==
    /\ now < MaxTime
    /\ now' = now + 1
    /\ pend' = [k \in Keys |-> IF dies[k] <= now' THEN None ELSE pend[k]]
    /\ dies' = [k \in Keys |-> IF dies[k] <= now' THEN 0 ELSE dies[k]]
    /\ UNCHANGED <<handlers, history>>

-----------------------------------------------------------------------------
(* What the flows share of their properties. *)

\* P: what a Start stores with the code; L: the labels of the flow's own steps.
FlowType(P, L) ==
    /\ now \in Nat
    /\ pend \in [Keys -> Challenge(P) \cup {None}]
    /\ dies \in [Keys -> Nat]
    /\ pc \in [Handlers -> FlowLabels \cup L]
    /\ held \in [Handlers -> Challenge(P) \cup {None}]
    /\ typed \in [Handlers -> Codes \cup {None}]
    /\ issued \in [Codes -> Challenge(P) \cup {None}]
    /\ mails \subseteq [to : Keys, code : Codes, payload : P]
    /\ latest \in [Keys -> Codes \cup {None}]
    /\ answered \subseteq Codes
    /\ tries \in [Codes -> Nat]
    /\ spent \subseteq Codes

Accepts(h) == typed[h] = None /\ typed'[h] # None

\* No stale copy written back keeps a code alive past the 15 minutes from its
\* draw, although every write-back renews the 30 minutes of the Redis key.
NotAfterExpiry ==
    [][\A h \in Handlers : Accepts(h) => now <= issued[typed'[h]].lastSent + OTPTTL]_flowVars

\* Served one at a time, no more than MaxVerifyAttempts comparisons fail against a
\* code: no count is lost on the way of its challenge through a handler.
AttemptCap == serial => \A c \in Codes : tries[c] <= MaxVerifyAttempts

\* Two mails for one Start carry codes drawn at least the cooldown apart, ...
MailsApart ==
    \A m, n \in mails :
        (m # n /\ m.payload = n.payload
               /\ issued[m.code].lastSent <= issued[n.code].lastSent)
        => issued[n.code].lastSent - issued[m.code].lastSent >= ResendCooldown

\* ... whatever failed between them, where requests are served one at a time.
ResendSpacing == serial => MailsApart

\* The code drawn last for a key was answered for with a 200, and is not expired,
\* used up or compared too often.
Usable(k, usedUp) ==
    /\ latest[k] \in answered \ usedUp
    /\ now <= issued[latest[k]].otpExp
    /\ tries[latest[k]] < MaxVerifyAttempts

\* With no request in flight, a usable code would be accepted.
LatestUsableUnless(usedUp) ==
    (\A h \in Handlers : pc[h] = "idle") =>
        \A k \in Keys :
            Usable(k, usedUp) => pend[k] # None /\ Accepted(pend[k], latest[k], now)

-----------------------------------------------------------------------------
(* The inductive invariant the flows share. *)

\* A copy of a challenge is what was drawn with its code, up to its counter.
Genuine(ch) ==
    LET d == issued[ch.code] IN
    /\ ch.code \in Issued
    /\ ch.key = d.key /\ ch.payload = d.payload
    /\ ch.lastSent = d.lastSent /\ ch.otpExp = d.otpExp

HeldWhileBusy == \A h \in Handlers : pc[h] # "idle" <=> held[h] # None

DrawnAsCoded ==
    \A c \in Issued : issued[c].code = c /\ issued[c].otpExp = issued[c].lastSent + OTPTTL

CopiesGenuine ==
    /\ \A k \in Keys : pend[k] # None => Genuine(pend[k]) /\ pend[k].key = k
    /\ \A h \in Handlers : held[h] # None => Genuine(held[h])

MailsGenuine ==
    \A m \in mails : /\ m.code \in Issued
                     /\ m.to = issued[m.code].key
                     /\ m.payload = issued[m.code].payload

SpentWasMailed == \A c \in spent : \E m \in mails : m.code = c

AcceptedIsSpent ==
    \A h \in Handlers : typed[h] # None =>
        held[h] # None /\ typed[h] = held[h].code /\ typed[h] \in spent

FlowInv(P, L) ==
    /\ FlowType(P, L)
    /\ HeldWhileBusy
    /\ DrawnAsCoded
    /\ CopiesGenuine
    /\ MailsGenuine
    /\ SpentWasMailed
    /\ AcceptedIsSpent

-----------------------------------------------------------------------------
(* What more holds while requests come one at a time.  U: the codes used up; *)
(* D: the flow's own labels at which an accepted code's challenge may still  *)
(* be stored; K: those at which it still is.                                 *)

Drawing == {"startPut", "resendPut"}
Refusing == {"errPutKeep", "errPutDrop", "errDel"}

\* Once a request has put its challenge, or read it, its key holds no other.
SamePlace ==
    \A h \in Handlers :
        held[h] # None /\ pc[h] \notin Drawing /\ pend[held[h].key] # None
            => pend[held[h].key].code = held[h].code

\* Comparisons are counted against answered codes, up to the limit.
TriesCounted(U) ==
    \A c \in Codes :
        /\ tries[c] <= MaxVerifyAttempts
        /\ c \notin Issued => tries[c] = 0 /\ c \notin answered /\ c \notin U
        /\ c \in Issued => issued[c].lastSent <= now

LatestIssued ==
    \A k \in Keys : latest[k] # None => latest[k] \in Issued /\ issued[latest[k]].key = k

\* A stored challenge outlives its code and counts the code's comparisons, but
\* for the one being written back; it is not used up, but for one being deleted.
StoredCounts(U, D) ==
    \A k \in Keys : pend[k] # None =>
        /\ pend[k].otpExp < dies[k]
        /\ \/ pend[k].attempts = tries[pend[k].code]
           \/ \E h \in Handlers : pc[h] = "errPutKeep" /\ held[h].code = pend[k].code
        /\ pend[k].code \in U =>
              \E h \in Handlers : pc[h] \in D /\ held[h].code = pend[k].code

UsableStored(U) ==
    \A k \in Keys : Usable(k, U) => pend[k] # None /\ pend[k].code = latest[k]

\* A request's copy counts the comparisons of its code; a fresh code is the last
\* of its key; one given up is not usable.
HeldCounts(U, K) ==
    \A h \in Handlers :
        LET ch == held[h] IN
        /\ pc[h] \in FlowLabels \ {"idle"} =>
              ch.attempts = tries[ch.code] /\ ch.code \notin U
        /\ pc[h] \in FlowLabels \ ({"idle"} \cup Refusing) =>
              latest[ch.key] = ch.code /\ ch.code \notin answered
        /\ pc[h] \in {"errPutDrop", "errDel"} => ~Usable(ch.key, U)
        /\ pc[h] \in {"startMail", "resendMail"} \cup K =>
              (now <= ch.otpExp => pend[ch.key] # None /\ pend[ch.key].code = ch.code)

CountInv(U, D, K) ==
    /\ OneAtATime
    /\ SamePlace
    /\ TriesCounted(U)
    /\ LatestIssued
    /\ StoredCounts(U, D)
    /\ UsableStored(U)
    /\ HeldCounts(U, K)
=============================================================================
