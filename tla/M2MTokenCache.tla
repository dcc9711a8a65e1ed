--------------------------- MODULE M2MTokenCache ---------------------------
(***************************************************************************)
(* cachedClientToken of internal/httpapi/upstream.go with                  *)
(* ClientCredentialsToken of internal/keycloak/client.go: the service      *)
(* token every proxied request needs is kept under a mutex, and the caller *)
(* that finds it missing or run out fetches a new one while the others     *)
(* wait.  The server has two such caches, one per upstream, that share     *)
(* nothing.                                                                *)
(*                                                                         *)
(* Time is kept as the time left, so no bound on the clock is needed.      *)
(***************************************************************************)
EXTENDS Integers

CONSTANTS
    Callers,    \* proxied requests in flight
    Lifetimes,  \* what Keycloak may answer as expires_in; 0 stands for none
    Skew,       \* taken off a long lifetime
    Timeout,    \* of the HTTP client towards Keycloak
    DefaultTTL, \* assumed when the answer has no lifetime
    None

ASSUME CacheAssumption ==
    /\ None \notin Callers
    /\ Lifetimes \subseteq Nat
    /\ Skew \in Nat /\ Timeout \in Nat \ {0} /\ DefaultTTL \in Nat \ {0}
    /\ Timeout < Skew

\* A token: the lifetime Keycloak told, and how much of its real one is left.
Token == [says : Nat, left : Int]
ASSUME TokenAssumption == None \notin Token

VARIABLES
    pc,      \* where each caller is
    mu,      \* the caller that holds the mutex over a fetch, or None
    token,   \* the cached token, or None
    keep,    \* the time before the cache's own expiry
    minted,  \* Keycloak: the token issued to the fetch in flight, or None
    age,     \* how long the fetch in flight has taken
    served   \* history: the token each caller last got, as it was then

vars == <<pc, mu, token, keep, minted, age, served>>

Init ==
    /\ pc = [h \in Callers |-> "idle"]
    /\ mu = None /\ token = None /\ keep = 0
    /\ minted = None /\ age = 0
    /\ served = [h \in Callers |-> None]

-----------------------------------------------------------------------------
\* Mutants: expires_in ignored; the skew never taken off.
ToldDefault(says) == DefaultTTL
KeptWhole(says) == IF says = 0 THEN DefaultTTL ELSE says

\* The lifetime the cache gives a token.
Told(says) == IF says = 0 THEN DefaultTTL ELSE says
Kept(says) == IF Told(says) > 2 * Skew THEN Told(says) - Skew ELSE Told(says)

Fresh == token # None /\ keep > 0

Ask(h) ==
    /\ pc[h] = "idle"
    /\ pc' = [pc EXCEPT ![h] = "lock"]
    /\ served' = [served EXCEPT ![h] = None]
    /\ UNCHANGED <<mu, token, keep, minted, age>>

\* The caller gets the mutex and finds the cached token good, ...
ServeCached(h) ==
    /\ pc[h] = "lock" /\ mu = None
    /\ Fresh
    /\ served' = [served EXCEPT ![h] = token]
    /\ pc' = [pc EXCEPT ![h] = "idle"]
    /\ UNCHANGED <<mu, token, keep, minted, age>>

\* Mutant: the cached token looked at before the mutex was taken.
StartFetchUnchecked(h) ==
    /\ pc[h] = "lock" /\ mu = None
    /\ mu' = h
    /\ pc' = [pc EXCEPT ![h] = "fetch"]
    /\ minted' = None /\ age' = 0
    /\ UNCHANGED <<token, keep, served>>

\* ... or keeps the mutex and asks Keycloak.
StartFetch(h) ==
    /\ pc[h] = "lock" /\ mu = None
    /\ ~Fresh
    /\ mu' = h
    /\ pc' = [pc EXCEPT ![h] = "fetch"]
    /\ minted' = None /\ age' = 0
    /\ UNCHANGED <<token, keep, served>>

\* Keycloak issues a token some time before its answer arrives; one it tells no
\* lifetime for has a lifetime all the same.
Mint(h) ==
    /\ pc[h] = "fetch" /\ minted = None
    /\ \E says \in Lifetimes, life \in Lifetimes \ {0} :
        /\ says # 0 => life = says
        /\ minted' = [says |-> says, left |-> life]
    /\ UNCHANGED <<pc, mu, token, keep, age, served>>

Unlock(h) == mu' = None /\ minted' = None /\ age' = 0 /\ pc' = [pc EXCEPT ![h] = "idle"]

Answer(h) ==
    /\ pc[h] = "fetch" /\ minted # None
    /\ token' = minted
    /\ keep' = Kept(minted.says)
    /\ served' = [served EXCEPT ![h] = minted]
    /\ Unlock(h)

\* An error status, an unreadable answer, a lost connection, a cancelled request.
FetchFails(h) ==
    /\ pc[h] = "fetch"
    /\ Unlock(h)
    /\ UNCHANGED <<token, keep, served>>

\* Mutant: a client without a timeout.
FetchNeverTimesOut(h) == age > Timeout /\ FetchFails(h)

\* The HTTP client gives up: the same, but sure to come.
FetchTimesOut(h) == age = Timeout /\ FetchFails(h)

\* Time passes; a token more than Timeout past its end counts as just that old.
Older(t) == IF t # None /\ t.left > -Timeout THEN [t EXCEPT !.left = @ - 1] ELSE t

Tick ==
    /\ mu # None => age < Timeout
    /\ token' = Older(token)
    /\ keep' = IF keep > 0 THEN keep - 1 ELSE 0
    /\ minted' = Older(minted)
    /\ age' = IF mu # None THEN age + 1 ELSE 0
    /\ UNCHANGED <<pc, mu, served>>

Enter(h) == ServeCached(h) \/ StartFetch(h)

Next ==
    \/ Tick
    \/ \E h \in Callers : \/ Ask(h) \/ Enter(h)
                          \/ Mint(h) \/ Answer(h) \/ FetchFails(h)

\* Time goes on, the client's timeout fires, and sync.Mutex starves no waiter.
Fairness ==
    /\ WF_vars(Tick)
    /\ \A h \in Callers : WF_vars(FetchTimesOut(h)) /\ SF_vars(Enter(h))

Spec == Init /\ [][Next]_vars /\ Fairness

-----------------------------------------------------------------------------
Labels == {"idle", "lock", "fetch"}

TypeOK ==
    /\ pc \in [Callers -> Labels]
    /\ mu \in Callers \cup {None}
    /\ token \in Token \cup {None}
    /\ keep \in Nat
    /\ minted \in Token \cup {None}
    /\ age \in 0..Timeout
    /\ served \in [Callers -> Token \cup {None}]

\* A token told to live longer than twice the skew is never handed out with
\* less than the skew minus the HTTP timeout to go: the cache starts its own
\* clock when the answer arrives, up to Timeout after Keycloak started its own.
LongTokensServedLive ==
    \A h \in Callers :
        served[h] # None /\ served[h].says > 2 * Skew => served[h].left > Skew - Timeout

\* A shorter one is cached without skew and can be handed out after its end,
\* but by less than the HTTP timeout.
ShortTokensServedLate ==
    \A h \in Callers :
        served[h] # None /\ served[h].says > 0 => served[h].left > -Timeout

\* Callers that queued behind a fetch do not fetch again: a token is replaced
\* only after the cache's clock for it ran out.
Fetched(h) == pc[h] = "fetch" /\ served'[h] # None
ReplacedOnlyWhenOut == [][(\E h \in Callers : Fetched(h)) => ~Fresh]_vars

\* Keycloak may hang, yet every caller gets a token or an error.
EveryCallerReturns == \A h \in Callers : pc[h] = "lock" ~> pc[h] = "idle"

-----------------------------------------------------------------------------
(* The inductive invariant behind the safety properties. *)

\* One fetch at a time, by the holder of the mutex, while nothing fresh is cached.
OneFetch == \A h \in Callers : pc[h] = "fetch" <=> mu = h

FetchOnlyWhenOut == mu # None => ~Fresh

\* A token in flight has lost no more than the fetch took.
MintedYoung ==
    minted # None =>
        /\ mu # None
        /\ minted.says > 0 => minted.left >= minted.says - age

\* The cache's clock and Keycloak's differ by at most Timeout, the skew aside.
CachedBehind ==
    Fresh /\ token.says > 0 =>
        token.left >= keep - Timeout + (IF token.says > 2 * Skew THEN Skew ELSE 0)

CacheInv ==
    /\ OneFetch /\ FetchOnlyWhenOut /\ MintedYoung /\ CachedBehind
    /\ LongTokensServedLive /\ ShortTokensServedLate

IInv == TypeOK /\ CacheInv
=============================================================================
