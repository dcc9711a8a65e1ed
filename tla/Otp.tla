-------------------------------- MODULE Otp --------------------------------
(***************************************************************************)
(* The one-time-code rules of internal/otp that every flow of the server   *)
(* shares: how long a code lives, when another may be sent, and what       *)
(* comparing a typed code with a stored challenge answers.                 *)
(*                                                                         *)
(* A challenge is a record with at least the fields                        *)
(*   code      the code whose hash is stored (draws are pairwise distinct),*)
(*   lastSent  when that code was drawn,                                   *)
(*   otpExp    the last instant at which it is accepted,                   *)
(*   attempts  the comparisons counted so far.                             *)
(* Each flow adds what its own challenge carries.                          *)
(***************************************************************************)
EXTENDS Integers

CONSTANTS
    ChallengeTTL,       \* lifetime Redis gives a stored challenge, from each SET
    OTPTTL,             \* how long a drawn code is accepted
    ResendCooldown,     \* least time between two sends
    MaxVerifyAttempts   \* comparisons a code allows

ASSUME OtpAssumption ==
    /\ ChallengeTTL \in Nat
    /\ OTPTTL \in Nat
    /\ ResendCooldown \in Nat
    /\ MaxVerifyAttempts \in Nat \ {0}
    /\ OTPTTL < ChallengeTTL

\* Mutants, here and in the other modules: plausible slips of the code in the
\* definition that follows, each caught by a property.
ResendAllowedAlways(ch, t) == TRUE

\* ResendAllowed: the cooldown since the last send has run out.
ResendAllowed(ch, t) == t - ch.lastSent >= ResendCooldown

\* Mutants: the last try not granted; the expiry left to Redis; any code will do.
OneTryTooFew(ch) == ch.attempts + 1 >= MaxVerifyAttempts
ComparedWhileStored(ch, t) == ch.attempts < MaxVerifyAttempts
AcceptedUncompared(ch, typed, t) == ch.attempts < MaxVerifyAttempts /\ t <= ch.otpExp

\* What Verify answers for a typed code at time t, in the order of its returns.
TooManyTries(ch)        == ch.attempts >= MaxVerifyAttempts
Expired(ch, t)          == ~TooManyTries(ch) /\ t > ch.otpExp
Compared(ch, t)         == ~TooManyTries(ch) /\ t <= ch.otpExp
Accepted(ch, typed, t)  == Compared(ch, t) /\ typed = ch.code

\* Mutant: the counter is not stepped.
NotCounted(ch) == ch

\* Verify counts a comparison before it makes it, right or wrong.
Counted(ch) == [ch EXCEPT !.attempts = @ + 1]

\* New and Rotate give a challenge a fresh code, its times and a zero counter.
Draw(ch, c, t) ==
    [ch EXCEPT !.code = c, !.lastSent = t, !.otpExp = t + OTPTTL, !.attempts = 0]
=============================================================================
