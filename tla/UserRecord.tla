----------------------------- MODULE UserRecord -----------------------------
(***************************************************************************)
(* One account's record in Keycloak, and everything that writes it: each   *)
(* operation of internal/keycloak/admin.go reads the user and puts a       *)
(* representation back (UpdateUserNames, UpdateUserEmail, and the          *)
(* clearRequiredActions at the end of SetPassword and CreateUser), nothing *)
(* orders two of them, and an administrator works on the record as well.   *)
(* A put replaces the fields its payload names and keeps the others.       *)
(*                                                                         *)
(* Profile follows the address alone, through codes and session rows; this *)
(* module follows every field, through the operations alone.  Its names    *)
(* differ from Profile's, because ProfileProofs speaks of both.            *)
(***************************************************************************)
EXTENDS Naturals

CONSTANTS
    Requests, \* updates that can be in flight at the same time
    Emails,   \* addresses the account may get; that they are confirmed is Profile's
    Names,
    MaxAdmin, \* bound: changes the administrator makes
    Absent    \* no copy, no operation

Fields == {"email", "name", "enabled", "trapped"}

\* trapped: a required action stands in the way of signing in with the password.
User == [email : Emails, name : Names, enabled : BOOLEAN, trapped : BOOLEAN]

Op == [kind : {"names", "sync"}, arg : Names]
        \cup [kind : {"email"}, arg : Emails]
        \cup [kind : {"clear"}, arg : {TRUE}]

ASSUME RecordAssumption ==
    Emails # {} /\ Names # {} /\ MaxAdmin \in Nat /\ Absent \notin User \cup Op \cup Requests

VARIABLES
    user,    \* Keycloak: the record
    op,      \* what each request is to do, None when there is none
    seen,    \* the copy each request has read, None before
    changes, \* the administrator's changes so far
    meant,   \* history: what each field was last set to on purpose
    overlaps,\* history: the fields set since each request read them
    lost     \* history: the fields put back by a request that overlapped their setting

recordHistory == <<meant, overlaps, lost>>
recordVars    == <<user, op, seen, changes, meant, overlaps, lost>>

RecordInit ==
    /\ user \in User
    /\ op = [r \in Requests |-> Absent]
    /\ seen = [r \in Requests |-> Absent]
    /\ changes = 0
    /\ meant = user
    /\ overlaps = [r \in Requests |-> {}]
    /\ lost = {}

-----------------------------------------------------------------------------
(* Payloads *)

\* Mutants: enabled by default; the whole user, as clearRequiredActions does.
NamesPayloadEnables(u, n) == [email |-> u.email, name |-> n, enabled |-> TRUE]
NamesPayloadWhole(u, n)   == [u EXCEPT !.name = n]

\* The lean payload of UpdateUserNames.
NamesPayload(u, n) == [email |-> u.email, name |-> n, enabled |-> u.enabled]

EmailPayload(u, e) == [email |-> e, name |-> u.name, enabled |-> u.enabled, trapped |-> FALSE]

ClearPayload(u) == [u EXCEPT !.trapped = FALSE]

-----------------------------------------------------------------------------
\* fs are set on purpose to what user' has; every other copy is older than that.
SetOnPurpose(fs, r) ==
    /\ meant' = [f \in Fields |-> IF f \in fs THEN user'[f] ELSE meant[f]]
    /\ overlaps' = [q \in Requests |->
                      IF q = r \/ op[q] = Absent THEN {} ELSE overlaps[q] \cup fs]

Ends(r) == op' = [op EXCEPT ![r] = Absent] /\ seen' = [seen EXCEPT ![r] = Absent]

\* updateProfile, an accepted emailChangeVerify, or a password just set.
Begin(r) ==
    /\ op[r] = Absent
    /\ \E o \in Op : o.kind # "sync" /\ op' = [op EXCEPT ![r] = o]
    /\ UNCHANGED <<user, seen, changes, recordHistory>>

\* An OAuth sign-in has exchanged its code: the token names the user as of now.
ExchangeCode(r) ==
    /\ op[r] = Absent
    /\ op' = [op EXCEPT ![r] = [kind |-> "sync", arg |-> user.name]]
    /\ UNCHANGED <<user, seen, changes, recordHistory>>

\* The user is read; of what came before, a sync alone carries something, its name.
GetRecord(r) ==
    /\ op[r] # Absent /\ seen[r] = Absent
    /\ \/ /\ seen' = [seen EXCEPT ![r] = user]
          /\ overlaps' = [overlaps EXCEPT ![r] = IF op[r].kind = "sync" THEN @ \cap {"name"} ELSE {}]
          /\ UNCHANGED op
       \/ Ends(r) /\ overlaps' = [overlaps EXCEPT ![r] = {}]   \* an error
    /\ UNCHANGED <<user, changes, meant, lost>>

\* Keycloak replaces the fields it is sent, those the operation is for on purpose.
PutRecord(r, kind, p, mine) ==
    /\ seen[r] # Absent /\ op[r].kind = kind
    /\ user' = [f \in Fields |-> IF f \in DOMAIN p THEN p[f] ELSE user[f]]
    /\ SetOnPurpose(mine, r)
    /\ lost' = (lost \cup (DOMAIN p \cap overlaps[r])) \ mine
    /\ Ends(r)
    /\ UNCHANGED changes

UpdateUserNames(r) == PutRecord(r, "names", NamesPayload(seen[r], op[r].arg), {"name"})

\* The name comes from Keycloak's own token, and is put back like what was read.
SyncOAuthProfile(r) == PutRecord(r, "sync", NamesPayload(seen[r], op[r].arg), {})

UpdateUserEmail(r) == PutRecord(r, "email", EmailPayload(seen[r], op[r].arg), {"email", "trapped"})

ClearRequiredActions(r) == PutRecord(r, "clear", ClearPayload(seen[r]), {"trapped"})

\* The put is refused, or the request dies.
Fails(r) ==
    /\ op[r] # Absent
    /\ Ends(r)
    /\ overlaps' = [overlaps EXCEPT ![r] = {}]
    /\ UNCHANGED <<user, changes, meant, lost>>

\* An administrator sets a field in Keycloak's console, or the user on its pages.
Administer(f, v) ==
    /\ changes < MaxAdmin /\ changes' = changes + 1
    /\ user' = [user EXCEPT ![f] = v]
    /\ SetOnPurpose({f}, Absent)
    /\ lost' = lost \ {f}
    /\ UNCHANGED <<op, seen>>

RecordNext ==
    \/ \E r \in Requests : \/ Begin(r) \/ ExchangeCode(r)
                           \/ GetRecord(r) \/ Fails(r)
                           \/ UpdateUserNames(r) \/ SyncOAuthProfile(r)
                           \/ UpdateUserEmail(r) \/ ClearRequiredActions(r)
    \/ \E b \in BOOLEAN : Administer("enabled", b) \/ Administer("trapped", b)
    \/ \E n \in Names : Administer("name", n)

RecordSpec == RecordInit /\ [][RecordNext]_recordVars

-----------------------------------------------------------------------------
RecordTypeOK ==
    /\ user \in User /\ meant \in User
    /\ op \in [Requests -> Op \cup {Absent}]
    /\ seen \in [Requests -> User \cup {Absent}]
    /\ changes \in 0 .. MaxAdmin
    /\ overlaps \in [Requests -> SUBSET Fields] /\ lost \subseteq Fields

\* Whatever updates of an account overlap, fail or come late, only an overlap loses
\* anything: a field not what it was last set to was put back by a request that read
\* it before that setting and wrote after it.  An account disabled, a name or an
\* address changed while no other update is between its read and its put stays so.
OnlyOverlapsLose == \A f \in Fields \ lost : user[f] = meant[f]

\* A required action that was cleared comes back by nobody's stale copy: no request,
\* however it overlaps others, puts a trap in the way of signing in.
NoTrapReturns == [][~user.trapped /\ user'.trapped => changes' # changes]_recordVars

-----------------------------------------------------------------------------
(* The inductive invariant behind OnlyOverlapsLose. *)

\* What a request carries, read or from its token, is what was last set unless it
\* was set again since or had been lost before.
CarriedAsMeant ==
    \A r \in Requests :
        /\ seen[r] # Absent =>
            /\ op[r] # Absent
            /\ \A f \in Fields \ (lost \cup overlaps[r]) : seen[r][f] = meant[f]
        /\ op[r] # Absent => (op[r].kind = "sync" /\ "name" \notin lost \cup overlaps[r]
                              => op[r].arg = meant.name)

RecordInv == RecordTypeOK /\ OnlyOverlapsLose /\ CarriedAsMeant
=============================================================================
