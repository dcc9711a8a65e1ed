------------------------------ MODULE Startup ------------------------------
(***************************************************************************)
(* How a container comes up and stays up: scripts/entrypoint.sh loads the  *)
(* secrets, starts Keycloak, gives it the client secret, starts the API    *)
(* and stops when either process dies; cmd/api/main.go loads its           *)
(* configuration, runs the migrations of internal/migrate and checks the   *)
(* tables (internal/db) before it listens.  Docker starts a container that *)
(* ended again (restart: unless-stopped).                                  *)
(*                                                                         *)
(* The deployment runs one container.  Two of them at once, or a container *)
(* beside a transaction that its earlier life left behind in Postgres, are *)
(* what the migrations may meet.                                           *)
(***************************************************************************)
EXTENDS Naturals, Sequences, SequencesExt

CONSTANTS
    Replicas,  \* containers on one Postgres and one secret
    LastFile,  \* the number of .sql files
    MaxSecret, \* bound: how often the client secret is published
    MaxFaults  \* bound: how many calls fail and processes die

ASSUME StartupAssumption ==
    LastFile \in Nat \ {0} /\ MaxSecret \in Nat \ {0} /\ MaxFaults \in Nat

\* The files in the order of sort.Strings.
Files == 1 .. LastFile

VARIABLES
    pc,       \* what each container does next
    kc,       \* the containers whose Keycloak process runs
    env,      \* the client secret in each container's environment, 0 for none
    file,     \* the file its migration has come to
    schema,   \* Postgres: the bodies committed, in order
    applied,  \* Postgres: the rows of schema_migrations
    orphans,  \* Postgres: transactions whose client has gone
    blob,     \* Secrets Manager: the client secret in the JSON published last, 0 for none
    realm,    \* Keycloak's database: the secret of client kalke-bff
    overtaken,\* history: another container set realm after this one was started
    faults    \* the faults so far

postgres == <<schema, applied, orphans>>
secrets  == <<env, blob, realm, overtaken>>
vars     == <<pc, kc, file, schema, applied, orphans, env, blob, realm, overtaken, faults>>

ApiSteps == {"connect", "check", "body", "insert", "commit", "ensure", "up"}
Steps    == {"down", "load", "boot", "sync", "api", "exited"} \cup ApiSteps

Orphan == [file : Files, sent : BOOLEAN]

Init ==
    /\ pc = [r \in Replicas |-> "down"] /\ kc = {}
    /\ file = [r \in Replicas |-> 1]
    /\ schema = <<>> /\ applied = {} /\ orphans = {}
    /\ env = [r \in Replicas |-> 0] /\ blob \in {0, 1} /\ realm = 0
    /\ overtaken = {} /\ faults = 0

-----------------------------------------------------------------------------
At(r, step) == pc[r] = step
Goto(r, step) == pc' = [pc EXCEPT ![r] = step]
Fault == faults < MaxFaults /\ faults' = faults + 1
NoFault == UNCHANGED faults

\* The transaction of r has run the body of its file.
InTx(r) == pc[r] \in {"insert", "commit"}

\* Somebody else's open transaction has made what f makes.
Locked(r, f) ==
    \/ \E q \in Replicas \ {r} : InTx(q) /\ file[q] = f
    \/ \E o \in orphans : o.file = f

\* The client of an open transaction is gone; its COMMIT may be on the way.
Leaves(r) ==
    \E sent \in IF At(r, "commit") THEN BOOLEAN ELSE {FALSE} :
        orphans' = orphans \cup
            IF InTx(r) THEN {[file |-> file[r], sent |-> sent]} ELSE {}

\* The container ends, and with it all its processes.
Ends(r) == Goto(r, "down") /\ kc' = kc \ {r} /\ Leaves(r)

\* os.Exit(1) of the API with its transaction, if any, rolled back.
ExitApi(r) == Goto(r, "exited")

-----------------------------------------------------------------------------
(* entrypoint.sh *)

\* The restart policy.
Restart(r) ==
    /\ At(r, "down")
    /\ Goto(r, "load")
    /\ env' = [env EXCEPT ![r] = 0]
    /\ overtaken' = overtaken \ {r}
    /\ UNCHANGED <<kc, file, postgres, blob, realm, faults>>

\* What was published last, for a key the environment has no value for.
Merged(r) == IF env[r] # 0 THEN env[r] ELSE blob

\* loadsecret, with the sentinel for the API.
LoadSecrets(r) ==
    /\ At(r, "load")
    /\ \/ Goto(r, "boot") /\ env' = [env EXCEPT ![r] = Merged(r)] /\ NoFault
       \/ Fault /\ Goto(r, "down") /\ UNCHANGED env
    /\ UNCHANGED <<kc, file, postgres, blob, realm, overtaken>>

\* Keycloak is started and waited for.
KeycloakReady(r) ==
    /\ At(r, "boot")
    /\ \/ Goto(r, "sync") /\ kc' = kc \cup {r} /\ NoFault
       \/ Fault /\ Goto(r, "down") /\ UNCHANGED kc
    /\ UNCHANGED <<file, postgres, secrets>>

SetsSecret(r) ==
    /\ realm' = env[r]
    /\ overtaken' = overtaken \cup {q \in Replicas \ {r} : pc[q] # "down"}

\* kcadm gives the client its secret, if the environment has one.
SyncClientSecret(r) ==
    /\ At(r, "sync")
    /\ \/ /\ r \in kc \/ env[r] = 0
          /\ IF env[r] = 0 THEN UNCHANGED <<realm, overtaken>> ELSE SetsSecret(r)
          /\ Goto(r, "api") /\ UNCHANGED <<kc, orphans>> /\ NoFault
       \/ /\ env[r] # 0 /\ r \notin kc
          /\ Ends(r) /\ UNCHANGED <<realm, overtaken>> /\ NoFault
       \/ /\ env[r] # 0 /\ Fault
          /\ SetsSecret(r) \/ UNCHANGED <<realm, overtaken>>
          /\ Ends(r)
    /\ UNCHANGED <<file, schema, applied, env, blob>>

\* Mutant: the loop watches the API alone.
SuperviseApi(r) ==
    /\ At(r, "exited")
    /\ Ends(r)
    /\ UNCHANGED <<file, schema, applied, secrets, faults>>

\* The loop at the end finds one of its two processes gone.
Supervise(r) ==
    /\ At(r, "exited") \/ (pc[r] \in ApiSteps /\ r \notin kc)
    /\ Ends(r)
    /\ UNCHANGED <<file, schema, applied, secrets, faults>>

-----------------------------------------------------------------------------
(* cmd/api/main.go *)

\* Mutant: the sentinel not looked at.
MustLoadAnew(r) == Merged(r)

\* The secrets are loaded already.
MustLoad(r) == env[r]

\* config.Load requires the secret.
LoadConfig(r) ==
    /\ At(r, "api")
    /\ env' = [env EXCEPT ![r] = MustLoad(r)]
    /\ IF env'[r] # 0 THEN Goto(r, "connect") ELSE ExitApi(r)
    /\ UNCHANGED <<kc, file, postgres, blob, realm, overtaken, faults>>

\* db.Connect, and migrate.Up as far as its table and the sorted names.
Connect(r) ==
    /\ At(r, "connect")
    /\ file' = [file EXCEPT ![r] = 1]
    /\ \/ Goto(r, "check") /\ NoFault
       \/ Fault /\ ExitApi(r)
    /\ UNCHANGED <<kc, postgres, secrets>>

\* Mutant: one name too many.
CheckAppliedPastEnd(r) ==
    /\ At(r, "check")
    /\ \/ /\ file[r] > LastFile + 1 /\ Goto(r, "ensure") /\ UNCHANGED file
       \/ /\ file[r] \in applied /\ file' = [file EXCEPT ![r] = @ + 1] /\ UNCHANGED pc
       \/ /\ file[r] \in 1 .. LastFile + 1 /\ file[r] \notin applied
          /\ Goto(r, "body") /\ UNCHANGED file
    /\ UNCHANGED <<kc, postgres, secrets, faults>>

\* SELECT EXISTS, outside any transaction.
CheckApplied(r) ==
    /\ At(r, "check")
    /\ \/ /\ file[r] > LastFile /\ NoFault
          /\ Goto(r, "ensure") /\ UNCHANGED file
       \/ /\ file[r] \in applied /\ NoFault
          /\ file' = [file EXCEPT ![r] = @ + 1] /\ UNCHANGED pc
       \/ /\ file[r] \in Files \ applied /\ NoFault
          /\ Goto(r, "body") /\ UNCHANGED file
       \/ /\ file[r] \in Files /\ Fault
          /\ ExitApi(r) /\ UNCHANGED file
    /\ UNCHANGED <<kc, postgres, secrets>>

\* Mutant: the body outside the transaction.
RunBodyAutocommit(r) ==
    /\ At(r, "body") /\ ~Locked(r, file[r])
    /\ schema' = Append(schema, file[r])
    /\ Goto(r, "insert")
    /\ UNCHANGED <<kc, file, applied, orphans, secrets, faults>>

\* Mutant: an error is logged and the next file tried.
RunBodyGoesOn(r) ==
    /\ At(r, "body") /\ ~Locked(r, file[r])
    /\ \/ Goto(r, "insert") /\ NoFault /\ UNCHANGED file
       \/ Fault /\ Goto(r, "check") /\ file' = [file EXCEPT ![r] = @ + 1]
    /\ UNCHANGED <<kc, postgres, secrets>>

\* The body waits for a transaction that made the same tables; if that one
\* committed, it fails or, with IF NOT EXISTS, finds nothing to do.
RunBody(r) ==
    /\ At(r, "body") /\ ~Locked(r, file[r])
    /\ \/ Goto(r, "insert") /\ NoFault
       \/ file[r] \in applied /\ ExitApi(r) /\ NoFault
       \/ Fault /\ ExitApi(r)
    /\ UNCHANGED <<kc, file, postgres, secrets>>

\* The row's primary key refuses a second application.  After an error the
\* rollback may not arrive either.
InsertRow(r) ==
    /\ At(r, "insert")
    /\ \/ /\ file[r] \notin applied /\ NoFault
          /\ Goto(r, "commit") /\ UNCHANGED orphans
       \/ /\ file[r] \in applied /\ NoFault
          /\ ExitApi(r) /\ UNCHANGED orphans
       \/ /\ Fault
          /\ ExitApi(r) /\ (Leaves(r) \/ UNCHANGED orphans)
    /\ UNCHANGED <<kc, file, schema, applied, secrets>>

Applies(f) == schema' = Append(schema, f) /\ applied' = applied \cup {f}

\* COMMIT may take effect, at once or late, and answer an error.
Commit(r) ==
    /\ At(r, "commit")
    /\ \/ /\ Applies(file[r]) /\ NoFault
          /\ Goto(r, "check") /\ file' = [file EXCEPT ![r] = @ + 1]
          /\ UNCHANGED orphans
       \/ /\ Fault /\ ExitApi(r) /\ UNCHANGED file
          /\ \/ Applies(file[r]) /\ UNCHANGED orphans
             \/ Leaves(r) /\ UNCHANGED <<schema, applied>>
    /\ UNCHANGED <<kc, secrets>>

\* db.EnsureAppTables looks for the tables of the first file; then the API listens.
EnsureAppTables(r) ==
    /\ At(r, "ensure")
    /\ \/ Contains(schema, 1) /\ Goto(r, "up") /\ NoFault
       \/ ~Contains(schema, 1) /\ ExitApi(r) /\ NoFault
       \/ Fault /\ ExitApi(r)
    /\ UNCHANGED <<kc, file, postgres, secrets>>

-----------------------------------------------------------------------------
(* What dies, and what goes on by itself *)

KeycloakDies(r) ==
    /\ r \in kc /\ Fault
    /\ kc' = kc \ {r}
    /\ UNCHANGED <<pc, file, postgres, secrets>>

ApiDies(r) ==
    /\ pc[r] \in ApiSteps /\ Fault
    /\ ExitApi(r) /\ Leaves(r)
    /\ UNCHANGED <<kc, file, schema, applied, secrets>>

\* The host restarts, memory runs out, or a deployment replaces the container.
ContainerDies(r) ==
    /\ ~At(r, "down") /\ Fault
    /\ Ends(r)
    /\ UNCHANGED <<file, schema, applied, secrets>>

\* Postgres finds the client gone: it has the COMMIT already, or rolls back.
OrphanEnds(o) ==
    /\ orphans' = orphans \ {o}
    /\ \/ o.sent /\ Applies(o.file)
       \/ UNCHANGED <<schema, applied>>
    /\ UNCHANGED <<pc, kc, file, secrets, faults>>

\* A deployment publishes a new secret (deploy/remote-update.sh).
Publish ==
    /\ blob < MaxSecret
    /\ blob' = blob + 1
    /\ UNCHANGED <<pc, kc, file, postgres, env, realm, overtaken, faults>>

Goes(r) ==
    \/ Restart(r) \/ LoadSecrets(r) \/ KeycloakReady(r) \/ SyncClientSecret(r)
    \/ LoadConfig(r) \/ Connect(r) \/ CheckApplied(r) \/ RunBody(r) \/ InsertRow(r)
    \/ Commit(r) \/ EnsureAppTables(r)

Next ==
    \/ \E r \in Replicas : \/ Goes(r) \/ Supervise(r)
                           \/ KeycloakDies(r) \/ ApiDies(r) \/ ContainerDies(r)
    \/ \E o \in orphans : OrphanEnds(o)
    \/ Publish

\* Processes go on, the entrypoint's loop and the restart policy do their work,
\* Postgres ends what clients left, and somebody publishes a first secret.
Fairness ==
    /\ \A r \in Replicas : WF_vars(Goes(r)) /\ WF_vars(Supervise(r))
    /\ WF_vars(\E o \in orphans : OrphanEnds(o))
    /\ WF_vars(blob = 0 /\ Publish)

Spec == Init /\ [][Next]_vars /\ Fairness

-----------------------------------------------------------------------------
TypeOK ==
    /\ pc \in [Replicas -> Steps]
    /\ kc \subseteq Replicas
    /\ file \in [Replicas -> 1 .. LastFile + 1]
    /\ schema \in Seq(Files) /\ applied \subseteq Files /\ orphans \subseteq Orphan
    /\ env \in [Replicas -> 0 .. MaxSecret]
    /\ blob \in 0 .. MaxSecret /\ realm \in 0 .. MaxSecret
    /\ overtaken \subseteq Replicas
    /\ faults \in 0 .. MaxFaults

\* However two migrations race and wherever one dies, its commit's answer
\* included, every body is committed once, in the order of the names, and
\* schema_migrations names exactly those.
AppliedOnce ==
    /\ \A i \in DOMAIN schema : schema[i] = i
    /\ applied = 1 .. Len(schema)

\* A server that is given nothing else by Keycloak's side can sign users in:
\* it holds the secret that Keycloak has for its client, unless another
\* container has set another since.
SecretsAgree ==
    \A r \in Replicas : At(r, "up") /\ r \notin overtaken => env[r] = realm

\* Starting up implements SchemaUpgrade: no server listens on half a schema.
Upgrade == INSTANCE SchemaUpgrade
           WITH version <- Len(schema), serving <- {r \in Replicas : At(r, "up")}
UpgradeSpec == Upgrade!Spec

\* Whatever died, failed or lost its race, once that is over every container comes
\* up with both its processes, and stays up.
ComesUp == <>[](\A r \in Replicas : At(r, "up") /\ r \in kc)

-----------------------------------------------------------------------------
(* The inductive invariant behind the safety properties. *)

\* A migration has left no file behind, and listens only past the last one.
NoneSkipped ==
    \A r \in Replicas :
        /\ pc[r] \in ApiSteps \ {"connect"} => file[r] <= Len(schema) + 1
        /\ pc[r] \in {"body", "insert", "commit"} => file[r] \in Files
        /\ pc[r] \in {"ensure", "up"} => file[r] = LastFile + 1

\* A file is made in one open transaction at a time, its client gone or not.
OneTransactionPerFile ==
    /\ \A q, r \in Replicas : InTx(q) /\ InTx(r) /\ file[q] = file[r] => q = r
    /\ \A r \in Replicas, o \in orphans : InTx(r) => file[r] # o.file
    /\ \A o, p \in orphans : o.file = p.file => o = p

\* What is about to be committed is the next file.
NextCommitted ==
    /\ \A r \in Replicas : At(r, "commit") => file[r] = Len(schema) + 1
    /\ \A o \in orphans : o.sent => o.file = Len(schema) + 1

\* From its sync on, a container's secret is Keycloak's, or another container's is.
SecretSynced ==
    \A r \in Replicas :
        /\ pc[r] \in {"api"} \cup ApiSteps /\ r \notin overtaken => env[r] \in {0, realm}
        /\ pc[r] \in ApiSteps => env[r] # 0

IInv ==
    /\ TypeOK
    /\ AppliedOnce
    /\ NoneSkipped
    /\ OneTransactionPerFile
    /\ NextCommitted
    /\ SecretSynced
=============================================================================
