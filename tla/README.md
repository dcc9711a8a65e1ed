# A TLA+ model of kalke-auth

kalke-auth is a Go server in front of Keycloak: it signs users up and in, opens
browser sessions, issues API tokens, gates changes and bank transfers behind
one-time codes sent by e-mail, and proxies two sibling APIs with a service token.
It keeps little state of its own. What is hard about it is that the state sits in
four places (Redis, Keycloak, Postgres, the bank), that every handler walks
through several of them without a transaction, and that nothing in the code
orders two requests of one user.

This directory models those walks call by call, checks them with TLC on small
instances, and proves the main results with TLAPS for every instance.

    tlc -config MCBankTransfer.cfg MCBankTransfer         # model-check a run
    tlapm BankTransferProofs.tla                        # check proofs

`PROJECT.json` lists the runs, the lines of source each definition stands for,
the hazards, the findings and the theorems.

## The system

| Component | State | Operations | Interacts with |
|---|---|---|---|
| One-time codes (`internal/otp`, `internal/signup`) | Redis: one challenge per key, 30 min from each SET | New, Rotate, Put, Get, Delete, ResendAllowed, Verify | every code-gated flow |
| Bank transfer gate (`httpapi/bank_transfer.go`) | challenge per user subject, with the transfer and its idempotency key | Start, Resend, confirm | mailer, bank |
| Signup (`httpapi/signup.go`) | pending signup per address | Start, Resend, verify | mailer, Keycloak `CreateUser` |
| Sign-in by code, password reset (`httpapi/email_auth.go`), password change (`httpapi/server.go`) | challenge per address or subject, under three prefixes | nine handlers | mailer, Keycloak, sessions |
| Profile (`httpapi/profile.go`) | challenge per *new address* | name update, e-mail change | mailer, Keycloak, sessions |
| Admin client (`keycloak/admin.go`) | none of its own; each account's record in Keycloak, read and put back | UpdateUserNames, UpdateUserEmail, clearRequiredActions, CreateUser, SetPassword | signup, reset, profile, OAuth sign-in |
| Sessions and API tokens (`store`) | Postgres rows, each with a copy of address and permissions | create, read, delete, revoke, introspect | everything signed in |
| Service token cache (`httpapi/upstream.go`) | a token and its expiry under a mutex, once per upstream | cachedClientToken | Keycloak, every proxied request |
| Rate limit (`httpapi/server.go`) | Redis: a counter per client and endpoint | clientIP, INCR, EXPIRE | every public handler, the proxy in front |
| OAuth sign-in (`httpapi/oauth.go`) | Redis: a state record for ten minutes | start, callback | Keycloak, sessions |
| Permissions, CORS, origin check, access log, OIDC proxy | none | per request | |
| Start-up (`scripts/entrypoint.sh`, `cmd/api`, `secrets`, `migrate`, `db`) | Postgres: schema and `schema_migrations`; Keycloak: the client's secret; each container's environment and processes | load secrets, start Keycloak, set the client secret, migrate, check tables, supervise | Docker, Secrets Manager, deployments |
| Configuration, logging, mail providers | none after start | | |

The behaviours that are hard:

* **Interleaving.** Get, Verify, Put and Delete of a challenge are separate calls.
  Two verifies may both accept, a refused verify writes its whole stale copy back,
  a Start that fails deletes by key what another Start stored, and two Resends both
  pass the cooldown.
* **Partial failure.** Each handler is a chain of three to eight calls. Errors of
  Delete and of the write-back are ignored; `CreateUser` is five calls, of which
  the first is not repeatable; `SetPassword` may report an error after the change.
* **Lost answers.** A call may take effect and answer an error, because of a
  timeout or because the request's context ended.
* **Stale copies.** Keycloak users are read whole and put back whole; sessions
  and API tokens keep the address they were made with.
* **Starting over.** A container dies at any point of coming up and starts again beside
  what it left: a transaction still open in Postgres, a `COMMIT` whose answer was
  lost, a secret published meanwhile.
* **Time.** A code has an expiry inside its challenge and one in Redis, and they
  move differently; the token cache's clock starts later than Keycloak's.

## Modules

    Otp                     the rules of a challenge (pure operators)
     └ OtpFlow              Start, Resend, refused Verify: shared by all flows
        ├ BankTransfer      + confirm, the bank, receipts     implements GatedTransfer
        ├ Signup            + CreateUser call by call        implements ConfirmedAccount
        ├ Credentials       + sign-in, reset and change       implements ConfirmedAccount
        └ Profile           + e-mail change, name update      implements ConfirmedAccount
    Access                  sign-ins, OAuth states, sessions, API tokens, permissions
    M2MTokenCache           the service token cache
    RateLimit               allowRate and clientIP
    UserRecord              every writer of an account's record in Keycloak
    Startup                 entrypoint, secrets, migrations  implements SchemaUpgrade

    OtpFlowProofs           lemmas about OtpFlow, for any flow
     ├ BankTransferProofs
     ├ SignupProofs
     ├ CredentialsProofs
     └ ProfileProofs      Profile and UserRecord
    AccessProofs
    StartupProofs
    TimeLeftProofs          M2MTokenCache and RateLimit

    MCBankTransfer, MCBankOverlap, MCSignup, MCCredentials, MCProfile, MCAccess,
    MCM2MTokenCache, MCRateLimit, MCUserRecord, MCStartup    instances for TLC

### How state and actions correspond to the code

A **request** is a member of `Handlers`: `pc[h]` says which call it makes next,
`held[h]` is its own copy of the challenge (the Go variable `pending` or
`challenge`), `typed[h]` the code it accepted. One action is one call to Redis,
the mailer, Keycloak, Postgres or the bank, with everything the handler does until
its next one. The read-only Get is merged with the comparison that follows,
since nothing between them leaves the handler; everything after it may interleave.

`pend` and `dies` are Redis. `Put` is SET with the TTL, so a write-back renews
`dies`; `Tick` drops what has expired. A challenge is a record with the key, the
payload (what a Start of that flow stores with the code), the code, `lastSent`,
`otpExp` and `attempts`.

`issued`, `mails`, `latest`, `answered`, `tries`, `spent` (and `told`, `confirmed`,
`failed`, `receipts`, `served`, `granted`, `had`, `named`, `opened`, `ended`, `meant`, `overlaps`,
`lost`, `overtaken` of single modules) are history
variables: no guard of a code action reads them except that a fresh code or row is
one not drawn or made before and that a user types codes found in delivered mails.

`Faults` and, where `serial` holds (see Runs), `SerialFaults` say which calls may fail
in a run: `"redis"`, `"mail"`, `"keycloak"`, `"postgres"` and `"bank"` make that kind of
call answer an error, with or without its effect; `"crash"` lets a request vanish
between two calls; `"admin"` lets an administrator disable an account. A cancelled
request context shows as such errors.

| Module | Source | What is kept, what is abstracted |
|---|---|---|
| Otp | `otp/challenge.go`; the same rules in `transfer_challenge.go`, `password_challenge.go`, `signup/pending.go` | Order of the checks in Verify, the count before the comparison, strictness of both time limits. The hash stands for the code itself. |
| OtpFlow | the handlers' common parts, mapped to `email_auth.go` | All calls and all error returns. A mistyped code is one value, `Wrong`. |
| BankTransfer | `bank_transfer.go` | The transfer is an intent and the idempotency key its Start drew. The bank executes a key once and replays its answer: it is external, modelled from the header the code sends. Two receipts count as one. |
| GatedTransfer | abstract | Announce by mail, code comes back, money moves once. |
| Signup | `signup.go`, `admin.go` | `CreateUser` is POST (201, 409 or an error, with or without effect), clear actions, assign role; each may be the last. |
| Credentials | `email_auth.go`, `server.go`, `admin.go` | Keys are pairs of flow and user, as the prefixes are. `SetPassword` may change the password and then fail. |
| Profile | `profile.go`, `admin.go`, `store.go` | GET and PUT of a user are separate. Keycloak refuses a second user with one address (external; the realm has `duplicateEmailsAllowed` false). Names are left out: a name update, `oauth.go`'s sync included, is the address it read and puts back; UserRecord has the other fields. A sign-in copies Keycloak's address in one step; Access has its steps. |
| Access | `server.go`, `email_auth.go`, `oauth.go`, `client.go`, `admin.go`, `store.go`, `permissions.go` | Sign-ins by password, by OAuth and by an accepted code. A row is owner, address and permissions. A request is a job: its next call and what it holds for it. The token grant and the userinfo call are two steps, and so are the lookup of an account by its address and that of its roles; that a disabled account is refused is left out. Time is that a session or a state may expire; revoked token rows, which every query leaves out, are gone; built-in roles, `bank:demo` and the time of a token's last use are left out. Keycloak may refuse any change of address. |
| M2MTokenCache | `upstream.go`, `client.go` | Time left instead of times: no clock bound. `Older` stops counting below `-Timeout`, `age` at `Timeout`. |
| RateLimit | `server.go`, `Caddyfile.aws` | The counter stops at `Limit + 1`, from where nothing changes. `X-Real-IP` is set by the proxy, or by anybody to anything. The keys of one endpoint. |
| UserRecord | `admin.go`, `oauth.go`, `profile.go` | Four fields: address (the user name goes with it), name, enabled, and whether a required action is set; `emailVerified`, which every writer but one sets, and attributes are left out. A request is one read and one put of the payload its operation builds; a put replaces the fields it names (external). An administrator changes fields at any time. |
| Startup | `entrypoint.sh`, `secrets.go`, `main.go`, `db.go`, `migrate.go`, `docker-compose.aws.yml`, `remote-update.sh` | One step per call of `migrate.Up`. A file's body is the fact that it ran; open transactions lock what they make, and one whose client is gone ends by itself, committing if it had the COMMIT (external). Of the secrets, the one client secret that the entrypoint and the API must agree on; retries within a step are part of it. |
| ConfirmedAccount | abstract | What an account has (its address, its password, the form it is created with) changes only to what its owner confirmed with a code mailed to that owner for it. |
| SchemaUpgrade | abstract | The schema moves forward one file at a time; servers open only on all of it. |

Abstractions that hold for all flows: codes are drawn pairwise distinct (a
collision of six-digit codes within one challenge's life is not looked at); the
session, permission and rate-limit checks in front of a handler are left out where
they only refuse; hashing, sealing and JSON are taken to work.

## Runs

Bounds common to all: `None` and `Wrong` are model values; codes, handlers and
other fresh values are symmetric. Deadlock is not checked where codes, the
clock (`MaxTime`) or faults are bounded, because such an instance really runs out of
moves; it is checked for the token cache, the rate limit, Access and UserRecord.

Nothing in the code orders requests, but users who wait for each answer do, and are
promised more. Each flow therefore has a variable `serial`, chosen at the start and never
changed. When it is false, requests overlap in every order and the calls named in `Faults`
fail; when it is true, `AsServed` lets a request come in only when none is in flight (a
name update, sign-ins and the clock still go on beside it), and the calls named in
`SerialFaults` fail. One run asks its questions of both kinds of behaviour. `MCSpec` of an
MC module bounds the overlapping ones by `Bounds`, so that the serial ones, where there is
less to interleave, can have more codes, a longer clock and more wrong guesses.

| Run | Question | Bounds and why they are enough | Result |
|---|---|---|---|
| bank_transfer | Does one Start move money at most once, as mailed, and is the gate implemented, whatever overlaps and fails? Serial: does a promised code work and work once, do mails keep their distance, are attempts capped? | 2 intents, 2 idempotency keys, a code living 1 and a key 2. Overlapping: 2 requests, 2 codes, all faults, clock to 2, a wrong guess per code: two Starts, or Start and Resend, beside confirms; expiry on both clocks. Serial: 3 codes so that a Resend follows an overwrite, 2 attempts, clock to 3, mail and bank errors | pass |
| bank_overlap | Does the promised code work when requests overlap? | 2 requests, no faults | **violated**: finding 1 |
| signup_concurrent | Is an account what was confirmed (ConfirmedAccount too), and signed in once? Serial: does a promised code work until the account is there, whatever Keycloak failed at? | 2 forms; a second, administrator's address. Overlapping: 2 requests, 2 codes, all faults, clock to 1. Serial: 3 codes, 2 attempts, clock to 2, mail and Keycloak errors: a creation fails, is repeated, or is overtaken by a Resend | pass |
| signup_grant | Does an account get its role? | 1 request, Keycloak faults | **violated**: finding 2 |
| credentials | Do the three flows keep to their own codes, and implement ConfirmedAccount, when they overlap? Serial: do they leave each other's codes usable, use a code once, and can a failed reset be repeated? | 1 account, 2 passwords, 2 codes (any two flows). Overlapping: 2 requests, Redis, Keycloak, crash, no clock. Serial: clock to 2 with a code living 1 and a key 2, 2 attempts, mail, Keycloak, disabled accounts | pass |
| profile_shared | Can one user's e-mail change be confirmed for another, and do stale records ever bring an unconfirmed address (AddressesConfirmed, ConfirmedAccount)? Serial: does the code promised last for an address work and work once, though two users share its key? | 2 users with a session each, 3 addresses (either's own, one new), 2 codes, 1 name update. Overlapping: 2 requests, clock to 1, one wrong guess (not while a name update holds its copy), Keycloak, Postgres, crash after an accepted code. Serial: 2 attempts, clock to 2, mail, Keycloak, Postgres. A VIEW leaves out the history that nothing reads where requests overlap | pass |
| profile_names | Does a change the user was told of stay in Keycloak, beside a name update? | 1 request, 1 name update, no faults | **violated**: finding 3 |
| access | Do copies of addresses and permissions of different ages ever add up to a privilege nobody earned; does what ended stay ended; does a state sign in once? | 1 account (rows of two meet only in the owner check of a revocation), its ordinary and an allowlisted address, 1 privilege, 2 requests, 2 sessions, 1 API token, 1 OAuth state, all faults | pass |
| m2m_cache | How late can a served token be; do waiters refetch; does everybody return? | 2 callers (one fetches, one waits), a unit of 10 s: lifetimes none, 10, 60, 70, 90 s on both sides of the skew's limit, timeout 20 s, skew 30 s | pass |
| rate_limit | How many requests of one client can a window's length let through, whatever it says of its address, and is a refused client let in again? | 2 clients and the proxy, 2 requests, limit 2, window 3, Redis faults | pass |
| startup | Is each migration applied once and in order, is no server open on half a schema or with a secret Keycloak does not have, and does every container come up? | 2 containers (the deployment runs one; the second stands for an overlapping replacement), 2 files, 2 secrets, 3 faults: a lost COMMIT, a death and one more | pass |
| user_record | Can a field of an account be lost other than by an overlap, and a cleared required action come back? | 2 requests (a third adds nothing: a put depends on its own read alone), 2 addresses, 2 names, 2 changes by an administrator | pass |

Type invariants are checked of the transfer flow and of Startup only: TypeCorrect and
its likes prove those of every module. AttemptCap is a definition of OtpFlow: one run
asks it, and it is proved for each flow. The safety results that need no bound are
proved (below); there the runs serve to find out whether a formula holds, and the
mutants (one plausible slip of the code per property) show that each property can fail.

Why some properties begin with `serial`: LatestCodeUsable, CodesUsable, ResendSpacing,
AttemptCap and OneTimeUse are false when requests overlap, and ChangeSticks beside a
name update, because the code does not order them. The serial behaviours say what a user
who waits for each answer gets; the findings show what the others do not: bank_overlap
asks `CodeUsable`, which is LatestCodeUsable without its premise. UserRecord states the
same the other way round: what a put loses, it loses by an overlap and by nothing else.
OneTimeUse is not asked of a signup: a verify whose creation failed is meant to be
repeated, and its LatestCodeUsable says that it can be.

### Fairness

Three modules state liveness.

* **M2MTokenCache.** `WF(Tick)`: time goes on. `WF(FetchTimesOut)`: the HTTP client
  has a timeout (`client.go:29`). `SF(Enter)`: a `sync.Mutex` hands itself to a
  waiter after a bounded time (its starvation mode), although the lock is
  taken and released again and again meanwhile. Nothing is assumed about Keycloak: it
  may never answer.
* **RateLimit.** `WF(Elapse)`, and `WF` of the step that follows an INCR that returned
  1: the handler goes on to its EXPIRE, which works or is lost. Clients are under
  no fairness.

* **Startup.** `WF` of a container's own next step: a process goes on, every call has a
  timeout or ends, and Docker restarts a container that ended
  (`restart: unless-stopped`). `WF(Supervise)` apart from it: the loop at the end of the
  entrypoint looks every two seconds whatever the API does. `WF` of Postgres ending
  transactions whose client is gone, and of somebody publishing a first secret,
  without which `config.Load` refuses for good. Faults are finitely many, under no
  fairness: `ComesUp` says what holds once they are over.

The flows of one-time codes state none: nothing in the code retries or cleans up
but Redis' expiry.

## Findings

1. **bank_overlap.** A mistyped confirm writes its copy of the whole challenge back
   (`bank_transfer.go:221`), over the challenge a Resend has rotated meanwhile. The
   code just mailed, good for 15 minutes by the mail's words, is refused. All flows
   share the shape.
2. **signup_grant.** "CreateUser creates a realm user with password and grants
   extract:write" (`admin.go:71`), but a failure between the two leaves the user
   without the role, and the retry, meeting "user exists", deletes the pending
   signup.
3. **profile_names.** `UpdateUserNames` puts back the address it read: beside an
   e-mail change it undoes it, after the change answered 200.

Three behaviours the models show and no doc contradicts are listed as hazards only. The
write-back of a refused verify loses counts when verifies overlap (`signup.go:119`,
and its likes), so a code can be compared wrongly more often than
`MaxVerifyAttempts`: `AttemptCap` holds for one request at a time. And an EXPIRE
that is lost leaves a counter that never expires and its client refused
(`server.go:652`): `ReopensUnlessLost` says that nothing else does. And the put of
`clearRequiredActions` carries the whole user (`admin.go:150`): overlapping an
administrator who disables the account, it enables it again.

## Proofs

For every value of the constants that satisfies the named assumptions (`OtpAssumption`,
`FlowAssumption`, `BankAssumption`, `SignupAssumption`, `RateAssumption`, ...: numbers are
naturals, `MaxVerifyAttempts`, limit and window are positive, `None` and `Wrong` are not
data, a code expires before its key). Any number of requests, keys, codes, any set of
faults and any clock bound are covered.

**Flow.** `FlowInv` (in OtpFlow, proved inductive in OtpFlowProofs for every action a
flow inherits) says that every copy of a challenge, stored or held, is *genuine*: what
was drawn with its code, up to the attempt counter; that mails tell the truth
about their code; that a code accepted was mailed; and that a handler past
Verify holds the challenge of the code it accepted. It is needed because a
stale write-back is harmless for safety exactly when copies cannot mix: nothing
weaker is preserved by `ErrPut`. From it, for all four flows, `NeverAfterExpiry`: only
Verify accepts, and what it finds has the expiry of its draw.

**One request at a time.** The theorems about `serial` behaviours assume that in these Redis
answers and no process dies (`"redis" \notin SerialFaults`, `"crash" \notin SerialFaults`,
hypotheses of the theorems, not of the modules); mailer, Keycloak, Postgres, bank and
administrators may fail and interfere, and `Faults` is arbitrary. They rest on
`CountInv(U, D, K)` of OtpFlow, where U are the codes used up and D and K the flow's own steps
at which an accepted challenge may still, or must still, be stored. It says that a stored
challenge counts every comparison of its code, but for the one being written back; outlives
its code; is not used up, but for the one being deleted; and that a usable code is stored
under its key. None of the promises is inductive without all of these: a lost count lets a
later comparison through, a key that expires first takes a good code along, and the
challenge of a request between its Get and its Delete is in Redis and used up. OtpFlowProofs
proves the shared steps for any U, D, K; a flow chooses them (`OnceInv`). For the transfer
and the e-mail change U is `spent`; in Credentials it is `spent` without the resets that
failed. In Signup no expression over the variables is right, since a creation may fail after
it took effect, so the invariant is that there is such a U: the codes whose challenge a verify
deleted, each typed back for an address that has its account. `MailsSpaced` needs
neither assumption: it rests on `SpacingInv`, that every copy in Redis or in a hand carries,
against each mail of its Start, that mail's code or one drawn the cooldown after it.

**ConfirmedAccount.** Credentials (`PasswordSpec`), Profile (`AddressSpec`) and Signup
(`CreationSpec`) implement it: `ImplementsConfirmed` in each proof module. Mails are offers, of
any password for a reset, of the one asked for at a change, of none at a sign-in, of the
address a change's mail went to, of the form a signup was started with. Each step that
sets a password, an address or an account maps to `Set` of a pair confirmed *before*,
and a code makes one offer. The invariants of the state properties suffice, with `FlowMails`:
a mail sent now tells what was drawn with its code.

**BankTransferProofs.** `TypeCorrect`, `MovesOnce`, `MovesAsMailed`, `ReceiptsTrue`,
`ImplementsGate`, and for one request at a time `LatestUsable`, `AttemptsCapped`, `UsedOnce`
and `MailsSpaced`. BankTransfer implements GatedTransfer under
the mapping mails → mailed, spent → returned, ledger → moved. The invariant adds
`BankInv`: an intent and its idempotency key are drawn together (`TransfersApart`), a
handler past Verify has accepted a code, the ledger and the bank's seen keys
back each other (`LedgerBacked`, `SeenBacked`).

**SignupProofs.** `TypeCorrect`, `AccountsConfirmed`, `SignsInOnce`, and for one request at a
time `LatestUsable` and `AttemptsCapped`. `SignupInv` adds that
at most one handler per address is past a 201 (`OneCreator`): accounts are
never deleted, so the second POST meets 409.

**TimeLeftProofs**, about M2MTokenCache: `TypeCorrect`, `LongTokensLive`, `ShortTokensLate`,
`NoNeedlessFetch`. `CacheInv`: a token in flight has lost no more than the
fetch took (`MintedYoung`); the cached token's real time left is at least the cache's
own minus the timeout, plus the skew if it was taken off (`CachedBehind`).

About RateLimit: `RateTypeCorrect` and `TwoWindowsAtMost`. The sum over a window is the
cardinality of the set of requests let through, so the library's theorems on finite
sets take the place of an induction. `TwoWindows` says where the window in force began:
no more than the limit was let through since, no more before, and what came before is out
of sight by the time the counter goes. `OneExpiring`: a counter waits for
at most one EXPIRE, so a late one cannot shorten another window's life. A counter
without an expiry only grows, which the bound does not mind.

**CredentialsProofs.** `TypeCorrect`, `PasswordsConfirmed`, `SessionsRestOnCodes`, from
`FlowInv` and two additions; for one request at a time `CodesStayUsable`, `AttemptsCapped`
and `UsedOnce`. `Entitled`: a request past its verify is at a step of the flow its key
belongs to, and for a reset or change the triple of its user, the password it is to set
and its code is among the confirmed ones. `ChangesCarryPasswords`: a code for a change was
drawn with a password, so that a Resend cannot turn a change into one without. Neither
property says anything of requests in flight, so neither is inductive alone: the request
that sets a password was entitled some calls earlier, and its challenge may be deleted,
overwritten or expired by then. `RightHands` says what the verify hands over,
`PasswordSet` and `SessionOpened` what a request may do with it.

**ProfileProofs**, about Profile: `TypeCorrect`, `OwnAddressesOnly`, and for one request
at a time `LatestUsable`, `AttemptsCapped` and `UsedOnce`. Two users may share a
challenge's key here, so `FlowInv`'s genuine copies carry the argument: `ActsForOwner`
says that a verify past its acceptance holds a challenge whose payload is the user of
its session, and by `FlowInv` the mail with its code named that user. `EditsConfirmed` says
that what a name update has read was confirmed for its user; `Confirmed` only grows, so a
stale copy put back is old but never somebody else's.

About UserRecord: `RecordTypeCorrect`, `LosesOnlyByOverlap`, `TrapsByAdminOnly`.
`RecordInv` adds `CarriedAsMeant`: what a request holds, read or from its token, is what each
field was last set to, unless the field was set again since the read or had been lost
before. `OnlyOverlapsLose` alone says nothing of copies and is not inductive.
`PutRecordKeeps` proves the step for any payload, once, and the four writers
instantiate it. The two modules share no variable and no assumption; they are in one
proof module because they follow one record.

**AccessProofs.** `TypeCorrect`, `PrivilegesEarned`, `AddressesTrue`, `StatesOpenOnce`,
`EndsForGood`. `IInv` carries what the properties say of rows over to every copy in a
request's hands. `RowsGood`: each stored row's address was its owner's (`Held`) and its
privileges were named to its owner (`Earned`). `JobGood` says through `Fits`, step by step, what a
request's copy can be relied on for: a row about to be written under an address was
held, a row about to be inserted has its privileges named, and an e-mail change works on a
session that lives or has ended but was never somebody else's, since a row made anew
takes a place nobody had. `CurrentHad`: Keycloak's present address counts as had.
`StatesSpent` is a conservation law: a state is unused, pending, in the hands of exactly one
callback, or used up, which is what GETDEL gives and `opened <= 1` alone does not.

**StartupProofs.** `TypeCorrect`, `FilesAppliedOnce`, `SecretsSynced`, and `ImplementsUpgrade`:
Startup implements SchemaUpgrade under version → length of the schema and serving → the
containers that listen. `NoneSkipped`: a migration's file is at most one ahead of
the schema, and a server listens only past the last. `OneTransactionPerFile`: a
file is made by one open transaction at a time, its client alive or not.
`NextCommitted`: what is about to be committed, by a client or by an orphan whose `COMMIT` was
sent, is the next file. `SecretSynced`: from its own sync on, a container holds Keycloak's
secret or another one has overtaken it. Without the orphans in the second and
third, a lost `COMMIT` answer breaks the induction: the file would be applied by the orphan and
by the container that starts again.

Each of these invariants was checked with TLC, as an invariant of the runs above or
of a smaller instance of them, before it was proved.

What stays with TLC, and why:

* `EveryCallerReturns`, `ReopensUnlessLost` and `ComesUp`: liveness, out of the prover's reach.
* The three violated properties are false.

## Not modelled

CORS, the origin check, the access log and the OIDC proxy are functions of one
request. The upstream proxy of `upstream.go` beyond its token cache is too: it reads the
principal, tests a permission, copies headers and streams the answer; its session row
and permissions are those of Access, and it keeps nothing. `GetUser` feeds answers that
are only shown. Parsing of the configuration, logging, the mailers' wire formats and
the realm's settings in the entrypoint (login flow, identity providers), whose failures
warn or end the container, are left out. Cryptography is taken to do what it promises.
What stays partly modelled stays so for these reasons.
