----------------------------- MODULE RateLimit -----------------------------
(***************************************************************************)
(* allowRate of internal/httpapi/server.go: a counter per client and       *)
(* window in Redis, INCR first and EXPIRE by the request that found 1.     *)
(* The two calls are separate, and the error of the second is ignored.     *)
(* A client is the address clientIP finds: the proxy in front says it in a *)
(* header, which requests that come directly may carry too.  Transfers are *)
(* counted by the user's subject instead, where no header has a say.       *)
(***************************************************************************)
EXTENDS Integers, FiniteSets

CONSTANTS
    Clients,   \* the addresses requests come from, one endpoint's prefix aside
    Proxy,     \* the address of the proxy in front, a private one
    Handlers,  \* requests in flight
    Limit,     \* requests a window allows
    Window,    \* its length
    Faults,    \* which calls may fail
    Unset

ASSUME RateAssumption ==
    /\ Proxy \notin Clients
    /\ Limit \in Nat \ {0} /\ Window \in Nat \ {0}
    /\ Unset \notin Nat \cup Clients \cup {Proxy}

VARIABLES
    count,   \* Redis: the counter under each key, 0 when there is none
    ttl,     \* Redis: its time to live, or Unset
    expiring,\* the key each request still has to put an expiry on, or Unset
    granted  \* history: the requests of each client allowed, by age

rateVars == <<count, ttl, expiring, granted>>

Keys == Clients \cup {Proxy}
Ages == 0 .. Window - 1

RateInit ==
    /\ count = [k \in Keys |-> 0]
    /\ ttl = [k \in Keys |-> Unset]
    /\ expiring = [h \in Handlers |-> Unset]
    /\ granted = [c \in Clients |-> [a \in Ages |-> 0]]

-----------------------------------------------------------------------------
\* INCR counts refused requests too; the model's counter stops above the limit.
Incremented(n) == IF n > Limit THEN n ELSE n + 1

\* Mutant: the limit compared with the requests before this one.
AllowsOneMore(n) == n - 1 <= Limit

Allows(n) == n <= Limit

Grant(c) == granted' = [granted EXCEPT ![c][0] = @ + 1]

\* isTrustedHop: loopback and private addresses.
Trusted == {Proxy}

\* Mutant: whoever says so.
ClientIPAsTold(remote, real) == IF real # Unset THEN real ELSE remote

\* The X-Real-IP header, if it is an address and comes from a trusted hop.
ClientIP(remote, real) == IF real # Unset /\ remote \in Trusted THEN real ELSE remote

\* The keys under which a request of c may be counted: Caddy puts c's address in
\* the header, a direct request has any address or none there.
KeysOf(c) == {ClientIP(Proxy, c)} \cup {ClientIP(c, real) : real \in Keys \cup {Unset}}

\* Mutant: every request renews the expiry.
IncrRenews(h, c, k) ==
    /\ expiring[h] = Unset /\ k \in KeysOf(c)
    /\ count' = [count EXCEPT ![k] = Incremented(@)]
    /\ expiring' = [expiring EXCEPT ![h] = k]
    /\ IF Allows(count'[k]) THEN Grant(c) ELSE UNCHANGED granted
    /\ UNCHANGED ttl

\* The request that created the counter goes on to its EXPIRE; what the
\* request is answered does not depend on it.
Incr(h, c, k) ==
    /\ expiring[h] = Unset /\ k \in KeysOf(c)
    /\ count' = [count EXCEPT ![k] = Incremented(@)]
    /\ expiring' = [expiring EXCEPT ![h] = IF count'[k] = 1 THEN k ELSE Unset]
    /\ IF Allows(count'[k]) THEN Grant(c) ELSE UNCHANGED granted
    /\ UNCHANGED ttl

\* An INCR whose answer is an error refuses the request, counted or not.
IncrFails(h, c, k) ==
    /\ "redis" \in Faults
    /\ expiring[h] = Unset /\ k \in KeysOf(c)
    /\ count' = [count EXCEPT ![k] = Incremented(@)]
    /\ UNCHANGED <<ttl, expiring, granted>>

Expire(h) ==
    LET k == expiring[h] IN
    /\ k # Unset
    /\ expiring' = [expiring EXCEPT ![h] = Unset]
    /\ ttl' = [ttl EXCEPT ![k] = IF count[k] > 0 THEN Window ELSE Unset]
    /\ UNCHANGED <<count, granted>>

\* The EXPIRE fails, or its request is cancelled first: nobody notices.
ExpireLost(h) ==
    /\ "redis" \in Faults
    /\ expiring[h] # Unset
    /\ expiring' = [expiring EXCEPT ![h] = Unset]
    /\ UNCHANGED <<count, ttl, granted>>

\* A unit of time passes, and Redis drops what has expired.
Elapse ==
    /\ count' = [k \in Keys |-> IF ttl[k] = 1 THEN 0 ELSE count[k]]
    /\ ttl' = [k \in Keys |-> IF ttl[k] \in {Unset, 1} THEN Unset ELSE ttl[k] - 1]
    /\ granted' = [c \in Clients |-> [a \in Ages |-> IF a = 0 THEN 0 ELSE granted[c][a - 1]]]
    /\ UNCHANGED expiring

RateNext ==
    \/ Elapse
    \/ \E h \in Handlers : \/ \E c \in Clients, k \in Keys : Incr(h, c, k) \/ IncrFails(h, c, k)
                           \/ Expire(h) \/ ExpireLost(h)

\* Time goes on, and a request that reached its EXPIRE makes the call.
RateSpec == RateInit /\ [][RateNext]_rateVars /\ WF_rateVars(Elapse)
             /\ \A h \in Handlers : WF_rateVars(Expire(h) \/ ExpireLost(h))

-----------------------------------------------------------------------------
RateTypeOK ==
    /\ count \in [Keys -> 0 .. Limit + 1]
    /\ ttl \in [Keys -> 1 .. Window \cup {Unset}]
    /\ expiring \in [Handlers -> Keys \cup {Unset}]
    /\ granted \in [Clients -> [Ages -> Nat]]

\* The requests of c let through in the last window's length, numbered at each age.
Passed(c) == UNION {{a} \X (1 .. granted[c][a]) : a \in Ages}

\* However requests fall on the edge between two windows, however late or lost an
\* EXPIRE is, and whatever the requests of a client say of its address, no stretch as
\* long as a window lets more than two windows' worth of them through.
BurstBounded == \A c \in Clients : Cardinality(Passed(c)) <= 2 * Limit

\* A counter without an expiry, and no request left to put one on: the first INCR
\* or the EXPIRE after it failed.
Stuck(k) == count[k] > 0 /\ ttl[k] = Unset /\ \A h \in Handlers : expiring[h] # k

\* A client that used up its window is let in again, time after time, unless its
\* counter was left without an expiry: nothing else keeps it out for ever.
ReopensUnlessLost == \A k \in Keys : <>[]Stuck(k) \/ []<>(count[k] < Limit)

-----------------------------------------------------------------------------
(* The inductive invariant behind BurstBounded. *)

\* A request on its way to EXPIRE is the only one, and its counter has none yet.
OneExpiring ==
    \A h \in Handlers : expiring[h] # Unset =>
        /\ count[expiring[h]] > 0 /\ ttl[expiring[h]] = Unset
        /\ \A g \in Handlers : expiring[g] = expiring[h] => g = h

\* What is let through since time last passed is in the counter.
Counted(c) ==
    /\ granted[c][0] <= count[c]
    /\ \A a \in Ages : granted[c][a] <= Limit

Since(c, b)  == {g \in Passed(c) : g[1] < b}
Before(c, b) == {g \in Passed(c) : g[1] >= b}

\* The counter in force was made b ago or, for b = Window, longer ago: no more than
\* the limit was let through since, and no more in what a window's length still
\* shows of the time before; and the counter lives on until that is out of sight.
TwoWindows(c) ==
    \E b \in 0 .. Window :
        /\ b = 0 <=> count[c] = 0
        /\ ttl[c] # Unset => b + ttl[c] >= Window
        /\ Cardinality(Since(c, b)) <= count[c] /\ Cardinality(Since(c, b)) <= Limit
        /\ Cardinality(Before(c, b)) <= Limit

RateInv ==
    /\ RateTypeOK
    /\ OneExpiring
    /\ \A k \in Keys : count[k] = 0 => ttl[k] = Unset
    /\ \A c \in Clients : Counted(c) /\ TwoWindows(c)
=============================================================================
