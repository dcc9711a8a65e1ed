---------------------------- MODULE StartupProofs ----------------------------
(***************************************************************************)
(* Proofs about Startup for every number of containers, files, secrets and *)
(* faults: its types, that the migrations apply every file once, that      *)
(* Keycloak and the API agree on their secret, and that starting up        *)
(* implements SchemaUpgrade.                                               *)
(***************************************************************************)
EXTENDS Startup, TLAPS

USE StartupAssumption

LEMMA InitInv == Init => IInv
<1> SUFFICES ASSUME Init PROVE IInv
  OBVIOUS
<1> USE DEF Init, Files
<1>1. TypeOK
  BY DEF TypeOK, Steps
<1>2. AppliedOnce
  BY DEF AppliedOnce
<1>3. NoneSkipped /\ OneTransactionPerFile /\ NextCommitted /\ SecretSynced
  BY DEF NoneSkipped, OneTransactionPerFile, NextCommitted, SecretSynced, InTx, At, ApiSteps
<1> QED BY <1>1, <1>2, <1>3 DEF IInv

-----------------------------------------------------------------------------
(* Steps. *)

\* The other containers stay where they are.
OthersStay(r) == \A q \in Replicas \ {r} : pc'[q] = pc[q] /\ file'[q] = file[q]

LEMMA GotoSets ==
  ASSUME IInv, NEW r \in Replicas, NEW step \in Steps, Goto(r, step)
  PROVE  /\ pc' \in [Replicas -> Steps] /\ pc'[r] = step
         /\ \A q \in Replicas \ {r} : pc'[q] = pc[q]
  BY DEF IInv, TypeOK, Goto

LEMMA FaultCounts ==
  ASSUME IInv, Fault \/ NoFault
  PROVE  faults' \in 0 .. MaxFaults
  BY DEF IInv, TypeOK, Fault, NoFault

\* schema_migrations names as many files as were applied, from the first on.
LEMMA SchemaIs ==
  ASSUME IInv
  PROVE  /\ Len(schema) \in Nat /\ Len(schema) <= LastFile
         /\ \A f \in Files : f \in applied <=> f <= Len(schema)
<1>1. Len(schema) \in Nat /\ \A i \in 1 .. Len(schema) : schema[i] = i /\ schema[i] \in Files
  BY DEF IInv, TypeOK, AppliedOnce
<1>2. Len(schema) <= LastFile
  BY <1>1 DEF Files
<1> QED BY <1>1, <1>2 DEF IInv, AppliedOnce, Files

\* The next file is appended.
LEMMA AppliesNext ==
  ASSUME IInv, NEW f \in Files, f = Len(schema) + 1, Applies(f)
  PROVE  /\ Len(schema') = Len(schema) + 1
         /\ schema' \in Seq(Files) /\ applied' \subseteq Files
         /\ AppliedOnce'
<1>1. schema \in Seq(Files) /\ Len(schema) \in Nat /\ applied \subseteq Files
  BY SchemaIs DEF IInv, TypeOK
<1>2. schema' = Append(schema, f) /\ applied' = applied \cup {f}
  BY DEF Applies
<1>3. /\ schema' \in Seq(Files) /\ Len(schema') = Len(schema) + 1
      /\ \A i \in 1 .. Len(schema) : schema'[i] = schema[i]
      /\ schema'[Len(schema) + 1] = f
  BY <1>1, <1>2
<1>4. DOMAIN schema' = 1 .. Len(schema) + 1
  BY <1>3
<1>5. \A i \in DOMAIN schema' : schema'[i] = i
  BY <1>1, <1>3, <1>4 DEF IInv, AppliedOnce
<1>6. applied' = 1 .. Len(schema')
  BY <1>1, <1>2, <1>3 DEF IInv, AppliedOnce
<1> QED BY <1>1, <1>2, <1>3, <1>5, <1>6 DEF AppliedOnce

-----------------------------------------------------------------------------
(* The migrations. *)

Migrations == AppliedOnce /\ NoneSkipped /\ OneTransactionPerFile /\ NextCommitted

\* Where a migration has come to, in itself.
Placed(r) ==
    /\ pc[r] \in ApiSteps \ {"connect"} => file[r] <= Len(schema) + 1
    /\ pc[r] \in {"body", "insert", "commit"} => file[r] \in Files
    /\ pc[r] \in {"ensure", "up"} => file[r] = LastFile + 1

\* A step that begins no transaction and ends none.
LEMMA RestsKeep ==
  ASSUME IInv, NEW r \in Replicas, OthersStay(r), UNCHANGED postgres, Placed(r)',
         InTx(r)' => InTx(r) /\ file'[r] = file[r],
         At(r, "commit")' => file'[r] = Len(schema) + 1
  PROVE  Migrations'
<1> USE DEF IInv, postgres, OthersStay, Migrations
<1>1. AppliedOnce'
  BY DEF AppliedOnce
<1>2. NoneSkipped'
  BY DEF NoneSkipped, Placed
<1>3. OneTransactionPerFile'
  BY DEF OneTransactionPerFile, InTx
<1>4. NextCommitted'
  BY DEF NextCommitted, At
<1> QED BY <1>1, <1>2, <1>3, <1>4

\* A container or its API goes and leaves its transaction, if any, to Postgres.
LEMMA LeavesKeep ==
  ASSUME IInv, NEW r \in Replicas, OthersStay(r), UNCHANGED <<schema, applied, file>>,
         Leaves(r), pc'[r] \notin ApiSteps
  PROVE  Migrations' /\ orphans' \subseteq Orphan
<1> USE DEF IInv, OthersStay, Migrations
<1>1. PICK sent \in BOOLEAN :
        /\ sent => At(r, "commit")
        /\ orphans' = orphans \cup
             IF InTx(r) THEN {[file |-> file[r], sent |-> sent]} ELSE {}
  BY DEF Leaves
<1>2. InTx(r) => file[r] \in Files
  BY DEF InTx, NoneSkipped
<1>3. orphans' \subseteq Orphan
  BY <1>1, <1>2 DEF TypeOK, Orphan
<1>4. AppliedOnce' /\ NoneSkipped'
  BY DEF AppliedOnce, NoneSkipped, ApiSteps
<1>5. ~InTx(r)' /\ \A q \in Replicas \ {r} : InTx(q)' <=> InTx(q)
  BY DEF InTx, ApiSteps
<1>6. \A o \in orphans' : o \in orphans \/ (InTx(r) /\ o.file = file[r] /\ o.sent = sent
                                            /\ o = [file |-> file[r], sent |-> sent])
  BY <1>1
<1>7. OneTransactionPerFile'
  BY <1>5, <1>6 DEF OneTransactionPerFile
<1>8. NextCommitted'
  BY <1>1, <1>6 DEF NextCommitted, At, ApiSteps
<1> QED BY <1>3, <1>4, <1>7, <1>8

\* A body that meets nobody's lock begins the file's only transaction.
LEMMA RunBodyKeeps ==
  ASSUME IInv, NEW r \in Replicas, RunBody(r)
  PROVE  Migrations'
<1> USE DEF IInv, Migrations
<1>1. UNCHANGED <<file, postgres>> /\ At(r, "body") /\ ~Locked(r, file[r])
  BY DEF RunBody
<1>2. CASE Goto(r, "insert")
  <2>1. pc'[r] = "insert" /\ \A q \in Replicas \ {r} : pc'[q] = pc[q]
    BY <1>2, GotoSets DEF Steps, ApiSteps
  <2>2. AppliedOnce' /\ NextCommitted'
    BY <1>1, <2>1 DEF AppliedOnce, NextCommitted, At, postgres
  <2>3. NoneSkipped'
    BY <1>1, <2>1 DEF NoneSkipped, ApiSteps, At, postgres
  <2>4. /\ \A q \in Replicas \ {r} : InTx(q) => file[q] # file[r]
        /\ \A o \in orphans : o.file # file[r]
    BY <1>1 DEF Locked
  <2>5. OneTransactionPerFile'
    BY <1>1, <2>1, <2>4 DEF OneTransactionPerFile, InTx, postgres
  <2> QED BY <2>2, <2>3, <2>5
<1>3. CASE ExitApi(r)
  <2>1. pc'[r] = "exited" /\ OthersStay(r)
    BY <1>1, <1>3, GotoSets DEF ExitApi, Steps, ApiSteps, OthersStay
  <2>2. Placed(r)' /\ ~InTx(r)' /\ ~At(r, "commit")'
    BY <2>1 DEF Placed, InTx, At, ApiSteps
  <2> QED BY <1>1, <2>1, <2>2, RestsKeep
<1> QED BY <1>2, <1>3 DEF RunBody

\* The COMMIT of a container takes effect: no other is for the next file, so none
\* becomes one for a file applied already.
LEMMA CommitApplies ==
  ASSUME IInv, NEW r \in Replicas, At(r, "commit"), Applies(file[r]), UNCHANGED orphans,
         OthersStay(r), pc'[r] \in {"check", "exited"},
         file'[r] = file[r] + 1 \/ (pc'[r] = "exited" /\ file'[r] = file[r])
  PROVE  Migrations'
<1> USE DEF IInv, OthersStay, Migrations
<1>1. file[r] \in Files /\ file[r] = Len(schema) + 1 /\ InTx(r)
  BY DEF NoneSkipped, NextCommitted, At, InTx
<1>2. /\ Len(schema) \in Nat
      /\ Len(schema') = Len(schema) + 1
      /\ AppliedOnce'
  BY <1>1, AppliesNext, SchemaIs
<1>3. NoneSkipped'
  <2>1. \A q \in Replicas \ {r} : file[q] \in Nat
    BY DEF TypeOK
  <2> QED BY <1>1, <1>2, <2>1 DEF NoneSkipped, ApiSteps
<1>4. ~InTx(r)'
  BY DEF InTx
<1>5. OneTransactionPerFile'
  BY <1>4 DEF OneTransactionPerFile, InTx
<1>6. NextCommitted'
  <2>1. ASSUME NEW q \in Replicas, At(q, "commit")' PROVE FALSE
    BY <1>1, <2>1 DEF At, InTx, OneTransactionPerFile, NextCommitted
  <2>2. ASSUME NEW o \in orphans, o.sent PROVE FALSE
    BY <1>1, <2>2 DEF OneTransactionPerFile, NextCommitted
  <2> QED BY <2>1, <2>2 DEF NextCommitted
<1> QED BY <1>2, <1>3, <1>5, <1>6

LEMMA CommitKeeps ==
  ASSUME IInv, NEW r \in Replicas, Commit(r)
  PROVE  Migrations'
<1>1. CASE Applies(file[r]) /\ Goto(r, "check") /\ file' = [file EXCEPT ![r] = @ + 1]
           /\ UNCHANGED orphans
  <2>1. pc'[r] = "check" /\ file'[r] = file[r] + 1 /\ OthersStay(r)
    BY <1>1, GotoSets DEF IInv, TypeOK, OthersStay, Steps, ApiSteps
  <2> QED BY <1>1, <2>1, CommitApplies DEF Commit
<1>2. CASE /\ ExitApi(r) /\ UNCHANGED file
           /\ \/ Applies(file[r]) /\ UNCHANGED orphans
              \/ Leaves(r) /\ UNCHANGED <<schema, applied>>
  <2>1. pc'[r] = "exited" /\ OthersStay(r) /\ pc'[r] \notin ApiSteps
    BY <1>2, GotoSets DEF ExitApi, OthersStay, Steps, ApiSteps
  <2>2. CASE Applies(file[r]) /\ UNCHANGED orphans
    BY <1>2, <2>1, <2>2, CommitApplies DEF Commit
  <2>3. CASE Leaves(r) /\ UNCHANGED <<schema, applied>>
    <3>1. UNCHANGED <<schema, applied, file>>
      BY <1>2, <2>3
    <3> QED BY <2>1, <2>3, <3>1, LeavesKeep
  <2> QED BY <1>2, <2>2, <2>3
<1> QED BY <1>1, <1>2 DEF Commit

\* Postgres ends what a client left: the COMMIT it had was for the next file.
LEMMA OrphanEndsKeeps ==
  ASSUME IInv, NEW o \in orphans, OrphanEnds(o)
  PROVE  /\ Migrations'
         /\ schema' \in Seq(Files) /\ applied' \subseteq Files /\ orphans' \subseteq Orphan
         /\ Len(schema') = Len(schema) \/ Len(schema') = Len(schema) + 1
<1> USE DEF IInv, Migrations
<1>1. orphans' = orphans \ {o} /\ UNCHANGED <<pc, file>> /\ o \in Orphan
  BY DEF OrphanEnds, TypeOK
<1>2. OneTransactionPerFile'
  BY <1>1 DEF OneTransactionPerFile, InTx
<1>3. CASE UNCHANGED <<schema, applied>>
  <2>1. AppliedOnce' /\ NoneSkipped' /\ NextCommitted'
    BY <1>1, <1>3 DEF AppliedOnce, NoneSkipped, NextCommitted, At
  <2> QED BY <1>1, <1>2, <1>3, <2>1 DEF TypeOK
<1>4. CASE o.sent /\ Applies(o.file)
  <2>1. o.file \in Files /\ o.file = Len(schema) + 1
    BY <1>1, <1>4 DEF NextCommitted, Orphan
  <2>2. /\ Len(schema) \in Nat /\ Len(schema') = Len(schema) + 1
        /\ schema' \in Seq(Files) /\ applied' \subseteq Files
        /\ AppliedOnce'
    BY <1>4, <2>1, AppliesNext, SchemaIs
  <2>3. NoneSkipped'
    <3>1. \A q \in Replicas : file[q] \in Nat
      BY DEF TypeOK
    <3> QED BY <1>1, <2>2, <3>1 DEF NoneSkipped, ApiSteps
  <2>4. NextCommitted'
    <3>1. ASSUME NEW q \in Replicas, At(q, "commit")' PROVE FALSE
      BY <1>1, <2>1, <3>1 DEF At, InTx, OneTransactionPerFile, NextCommitted
    <3>2. ASSUME NEW p \in orphans', p.sent PROVE FALSE
      BY <1>1, <2>1, <3>2 DEF OneTransactionPerFile, NextCommitted
    <3> QED BY <3>1, <3>2 DEF NextCommitted
  <2> QED BY <1>1, <1>2, <2>2, <2>3, <2>4 DEF TypeOK
<1> QED BY <1>3, <1>4 DEF OrphanEnds

\* What ends a container, or its API alone.
LEMMA EndingKeeps ==
  ASSUME IInv, NEW r \in Replicas, Ends(r) \/ (ExitApi(r) /\ Leaves(r)),
         UNCHANGED <<schema, applied, file>>
  PROVE  Migrations' /\ orphans' \subseteq Orphan
<1>1. OthersStay(r) /\ pc'[r] \notin ApiSteps /\ Leaves(r)
  BY GotoSets DEF Ends, ExitApi, OthersStay, Steps, ApiSteps
<1> QED BY <1>1, LeavesKeep

\* The steps of entrypoint.sh before the API runs.
LEMMA EntrypointKeeps ==
  ASSUME IInv, NEW r \in Replicas,
         Restart(r) \/ LoadSecrets(r) \/ KeycloakReady(r) \/ SyncClientSecret(r)
  PROVE  Migrations'
<1>1. ASSUME NEW step \in {"down", "load", "boot", "sync", "api"}, Goto(r, step),
             UNCHANGED <<file, postgres>>
      PROVE  Migrations'
  <2>1. OthersStay(r) /\ pc'[r] = step
    BY <1>1, GotoSets DEF OthersStay, Steps
  <2>2. Placed(r)' /\ ~InTx(r)' /\ ~At(r, "commit")'
    BY <2>1 DEF Placed, InTx, At, ApiSteps
  <2> QED BY <1>1, <2>1, <2>2, RestsKeep
<1>2. CASE Restart(r) \/ LoadSecrets(r) \/ KeycloakReady(r)
  BY <1>1, <1>2 DEF Restart, LoadSecrets, KeycloakReady
<1>3. CASE SyncClientSecret(r)
  BY <1>1, <1>3, EndingKeeps DEF SyncClientSecret, postgres
<1> QED BY <1>2, <1>3

\* The steps of main that begin no transaction and end none.
LEMMA MainKeeps ==
  ASSUME IInv, NEW r \in Replicas,
         LoadConfig(r) \/ Connect(r) \/ CheckApplied(r) \/ EnsureAppTables(r)
  PROVE  Migrations'
<1>0. Len(schema) \in Nat /\ Len(schema) <= LastFile /\ file[r] \in 1 .. LastFile + 1
      /\ \A f \in Files : f \in applied <=> f <= Len(schema)
  BY SchemaIs DEF IInv, TypeOK
<1>1. UNCHANGED postgres
  BY DEF LoadConfig, Connect, CheckApplied, EnsureAppTables
<1>2. OthersStay(r) /\ ~InTx(r)'
  BY DEF IInv, TypeOK, Goto, ExitApi, InTx, At, OthersStay,
         LoadConfig, Connect, CheckApplied, EnsureAppTables
<1>3. ~At(r, "commit")'
  BY <1>2 DEF At, InTx
<1>4. Placed(r)'
  <2>1. CASE LoadConfig(r)
    BY <2>1 DEF LoadConfig, Goto, ExitApi, Placed, IInv, TypeOK, ApiSteps
  <2>2. CASE Connect(r)
    BY <1>0, <1>1, <2>2 DEF Connect, Goto, ExitApi, Placed, IInv, TypeOK, ApiSteps, postgres
  <2>3. CASE CheckApplied(r)
    <3>1. /\ pc[r] = "check" /\ file[r] <= Len(schema) + 1
          /\ pc \in [Replicas -> Steps] /\ file \in [Replicas -> 1 .. LastFile + 1]
          /\ schema' = schema
      BY <1>1, <2>3 DEF CheckApplied, At, IInv, NoneSkipped, ApiSteps, TypeOK, postgres
    <3>2. CASE file[r] > LastFile /\ Goto(r, "ensure") /\ UNCHANGED file
      BY <1>0, <3>1, <3>2 DEF Goto, Placed, ApiSteps
    <3>3. CASE file[r] \in applied /\ file' = [file EXCEPT ![r] = @ + 1] /\ UNCHANGED pc
      BY <1>0, <3>1, <3>3 DEF Placed, ApiSteps, IInv, TypeOK, Files
    <3>4. CASE file[r] \in Files /\ Goto(r, "body") /\ UNCHANGED file
      BY <3>1, <3>4 DEF Goto, Placed, ApiSteps
    <3>5. CASE ExitApi(r)
      BY <3>1, <3>5 DEF ExitApi, Goto, Placed, ApiSteps
    <3> QED BY <2>3, <3>2, <3>3, <3>4, <3>5 DEF CheckApplied
  <2>4. CASE EnsureAppTables(r)
    BY <1>1, <2>4 DEF EnsureAppTables, At, Goto, ExitApi, Placed, IInv, TypeOK, NoneSkipped,
                      ApiSteps, postgres
  <2> QED BY <2>1, <2>2, <2>3, <2>4
<1> QED BY <1>1, <1>2, <1>3, <1>4, RestsKeep

LEMMA InsertRowKeeps ==
  ASSUME IInv, NEW r \in Replicas, InsertRow(r)
  PROVE  Migrations'
<1>0. /\ pc[r] = "insert" /\ file[r] \in Files /\ file[r] <= Len(schema) + 1
      /\ Len(schema) \in Nat /\ \A f \in Files : f \in applied <=> f <= Len(schema)
      /\ UNCHANGED <<file, schema, applied>>
  BY SchemaIs DEF InsertRow, At, IInv, NoneSkipped, ApiSteps
<1>1. CASE file[r] \notin applied /\ Goto(r, "commit") /\ UNCHANGED orphans
  <2>1. pc'[r] = "commit" /\ OthersStay(r)
    BY <1>0, <1>1, GotoSets DEF OthersStay, Steps, ApiSteps
  <2>2. file[r] = Len(schema) + 1
    BY <1>0, <1>1 DEF Files
  <2>3. Placed(r)' /\ InTx(r)
    BY <1>0, <2>1 DEF Placed, InTx
  <2> QED BY <1>0, <1>1, <2>1, <2>2, <2>3, RestsKeep DEF postgres
<1>2. CASE ExitApi(r) /\ UNCHANGED orphans
  <2>1. pc'[r] = "exited" /\ OthersStay(r)
    BY <1>0, <1>2, GotoSets DEF ExitApi, OthersStay, Steps, ApiSteps
  <2>2. Placed(r)' /\ ~InTx(r)' /\ ~At(r, "commit")'
    BY <2>1 DEF Placed, InTx, At, ApiSteps
  <2> QED BY <1>0, <1>2, <2>1, <2>2, RestsKeep DEF postgres
<1>3. CASE ExitApi(r) /\ Leaves(r)
  BY <1>0, <1>3, EndingKeeps
<1> QED BY <1>1, <1>2, <1>3 DEF InsertRow

LEMMA MigrationStep == IInv /\ [Next]_vars => Migrations'
<1> SUFFICES ASSUME IInv, [Next]_vars PROVE Migrations'
  OBVIOUS
<1>1. ASSUME NEW r \in Replicas, Goes(r) PROVE Migrations'
  BY <1>1, EntrypointKeeps, MainKeeps, RunBodyKeeps, InsertRowKeeps, CommitKeeps DEF Goes
<1>2. ASSUME NEW r \in Replicas, Supervise(r) \/ ApiDies(r) \/ ContainerDies(r)
      PROVE  Migrations'
  BY <1>2, EndingKeeps DEF Supervise, ApiDies, ContainerDies
<1>3. ASSUME NEW o \in orphans, OrphanEnds(o) PROVE Migrations'
  BY <1>3, OrphanEndsKeeps
<1>4. CASE Publish \/ UNCHANGED vars \/ \E r \in Replicas : KeycloakDies(r)
  BY <1>4 DEF Publish, KeycloakDies, vars, postgres, IInv, Migrations, AppliedOnce,
              NoneSkipped, OneTransactionPerFile, NextCommitted, InTx, At
<1> QED BY <1>1, <1>2, <1>3, <1>4 DEF Next

-----------------------------------------------------------------------------
(* Types. *)

\* Where a step of the containers keeps the types of what is in Postgres.
LEMMA LeavesTyped ==
  ASSUME IInv, NEW r \in Replicas, Leaves(r)
  PROVE  orphans' \subseteq Orphan
<1>1. InTx(r) => file[r] \in Files
  BY DEF IInv, NoneSkipped, InTx
<1>2. PICK sent \in BOOLEAN : orphans' = orphans \cup
        IF InTx(r) THEN {[file |-> file[r], sent |-> sent]} ELSE {}
  BY DEF Leaves
<1> QED BY <1>1, <1>2 DEF IInv, TypeOK, Orphan

LEMMA TypeStep == IInv /\ [Next]_vars => TypeOK'
<1> SUFFICES ASSUME IInv, [Next]_vars PROVE TypeOK'
  OBVIOUS
<1> USE DEF postgres, secrets
<1>0. TypeOK
  BY DEF IInv
<1>1. ASSUME NEW r \in Replicas,
             Restart(r) \/ LoadSecrets(r) \/ KeycloakReady(r)
      PROVE  TypeOK'
  <2>1. pc' \in [Replicas -> Steps] /\ kc' \subseteq Replicas /\ UNCHANGED <<file, postgres, blob, realm>>
    BY <1>0, <1>1 DEF TypeOK, Restart, LoadSecrets, KeycloakReady, Goto, Steps
  <2>2. env' \in [Replicas -> 0 .. MaxSecret] /\ overtaken' \subseteq Replicas
    <3>1. CASE Restart(r) \/ KeycloakReady(r)
      BY <1>0, <3>1 DEF TypeOK, Restart, KeycloakReady
    <3>2. CASE LoadSecrets(r)
      <4>1. Merged(r) \in 0 .. MaxSecret
        BY <1>0 DEF TypeOK, Merged
      <4> QED BY <1>0, <3>2, <4>1 DEF TypeOK, LoadSecrets
    <3> QED BY <1>1, <3>1, <3>2
  <2>3. faults' \in 0 .. MaxFaults
    BY <1>1, FaultCounts DEF Restart, LoadSecrets, KeycloakReady, NoFault
  <2> QED BY <1>0, <2>1, <2>2, <2>3 DEF TypeOK
<1>2. ASSUME NEW r \in Replicas, SyncClientSecret(r) PROVE TypeOK'
  <2>1. pc' \in [Replicas -> Steps] /\ kc' \subseteq Replicas
    BY <1>0, <1>2 DEF TypeOK, SyncClientSecret, Ends, Goto, Steps
  <2>2. orphans' \subseteq Orphan
    BY <1>0, <1>2, LeavesTyped DEF TypeOK, SyncClientSecret, Ends
  <2>3. /\ faults' \in 0 .. MaxFaults /\ realm' \in 0 .. MaxSecret /\ overtaken' \subseteq Replicas
        /\ UNCHANGED <<file, schema, applied, env, blob>>
    BY <1>0, <1>2, FaultCounts DEF TypeOK, SyncClientSecret, SetsSecret
  <2> QED BY <1>0, <2>1, <2>2, <2>3 DEF TypeOK
<1>3. ASSUME NEW r \in Replicas, Supervise(r) \/ ApiDies(r) \/ ContainerDies(r) PROVE TypeOK'
  <2>1. /\ pc' \in [Replicas -> Steps] /\ kc' \subseteq Replicas
        /\ UNCHANGED <<file, schema, applied, secrets>>
    BY <1>0, <1>3 DEF TypeOK, Supervise, ApiDies, ContainerDies, Ends, ExitApi, Goto, Steps
  <2>2. orphans' \subseteq Orphan
    BY <1>3, LeavesTyped DEF Supervise, ApiDies, ContainerDies, Ends
  <2>3. faults' \in 0 .. MaxFaults
    BY <1>3, FaultCounts DEF NoFault, Supervise, ApiDies, ContainerDies
  <2> QED BY <1>0, <2>1, <2>2, <2>3 DEF TypeOK
<1>4. ASSUME NEW r \in Replicas, LoadConfig(r) \/ Connect(r) \/ EnsureAppTables(r) PROVE TypeOK'
  <2>1. pc' \in [Replicas -> Steps] /\ UNCHANGED <<kc, postgres, blob, realm, overtaken>>
    BY <1>0, <1>4 DEF TypeOK, LoadConfig, Connect, EnsureAppTables, Goto, ExitApi, Steps, ApiSteps
  <2>2. env' \in [Replicas -> 0 .. MaxSecret] /\ file' \in [Replicas -> 1 .. LastFile + 1]
    BY <1>0, <1>4 DEF TypeOK, LoadConfig, MustLoad, Connect, EnsureAppTables
  <2>3. faults' \in 0 .. MaxFaults
    BY <1>4, FaultCounts DEF LoadConfig, Connect, EnsureAppTables, NoFault
  <2> QED BY <1>0, <2>1, <2>2, <2>3 DEF TypeOK
<1>5. ASSUME NEW r \in Replicas, CheckApplied(r) \/ RunBody(r) PROVE TypeOK'
  <2>1. file' \in [Replicas -> 1 .. LastFile + 1]
    BY <1>0, <1>5 DEF TypeOK, CheckApplied, RunBody, Files
  <2>2. pc' \in [Replicas -> Steps] /\ UNCHANGED <<kc, postgres, secrets>>
    BY <1>0, <1>5 DEF TypeOK, CheckApplied, RunBody, Goto, ExitApi, Steps, ApiSteps
  <2>3. faults' \in 0 .. MaxFaults
    BY <1>5, FaultCounts DEF CheckApplied, RunBody
  <2> QED BY <1>0, <2>1, <2>2, <2>3 DEF TypeOK
<1>6. ASSUME NEW r \in Replicas, InsertRow(r) PROVE TypeOK'
  <2>1. pc' \in [Replicas -> Steps] /\ UNCHANGED <<kc, file, schema, applied, secrets>>
    BY <1>0, <1>6 DEF TypeOK, InsertRow, Goto, ExitApi, Steps, ApiSteps
  <2>2. orphans' \subseteq Orphan
    BY <1>0, <1>6, LeavesTyped DEF InsertRow, TypeOK
  <2>3. faults' \in 0 .. MaxFaults
    BY <1>6, FaultCounts DEF InsertRow
  <2> QED BY <1>0, <2>1, <2>2, <2>3 DEF TypeOK
<1>7. ASSUME NEW r \in Replicas, Commit(r) PROVE TypeOK'
  <2>1. file[r] \in Files /\ file[r] = Len(schema) + 1
    BY <1>7 DEF Commit, At, IInv, NoneSkipped, NextCommitted
  <2>2. schema' \in Seq(Files) /\ applied' \subseteq Files
    <3>1. Applies(file[r]) \/ UNCHANGED <<schema, applied>>
      BY <1>7 DEF Commit
    <3> QED BY <1>0, <2>1, <3>1, AppliesNext DEF TypeOK
  <2>3. orphans' \subseteq Orphan
    BY <1>0, <1>7, LeavesTyped DEF Commit, TypeOK
  <2>4. pc' \in [Replicas -> Steps] /\ UNCHANGED <<kc, secrets>>
    BY <1>0, <1>7 DEF TypeOK, Commit, Goto, ExitApi, Steps, ApiSteps
  <2>5. file' \in [Replicas -> 1 .. LastFile + 1]
    BY <1>0, <1>7, <2>1 DEF TypeOK, Commit, Files
  <2>6. faults' \in 0 .. MaxFaults
    BY <1>7, FaultCounts DEF Commit
  <2> QED BY <1>0, <2>2, <2>3, <2>4, <2>5, <2>6 DEF TypeOK
<1>8. ASSUME NEW o \in orphans, OrphanEnds(o) PROVE TypeOK'
  BY <1>0, <1>8, OrphanEndsKeeps DEF TypeOK, OrphanEnds
<1>9. CASE Publish \/ UNCHANGED vars \/ \E r \in Replicas : KeycloakDies(r)
  BY <1>0, <1>9, FaultCounts DEF TypeOK, Publish, vars, KeycloakDies
<1> QED BY <1>1, <1>2, <1>3, <1>4, <1>5, <1>6, <1>7, <1>8, <1>9 DEF Next, Goes

-----------------------------------------------------------------------------
(* The client secret. *)

Synced(r) ==
    /\ pc[r] \in {"api"} \cup ApiSteps /\ r \notin overtaken => env[r] \in {0, realm}
    /\ pc[r] \in ApiSteps => env[r] # 0

\* A step of r that leaves Keycloak's secret alone.
LEMMA SecretKept ==
  ASSUME IInv, NEW r \in Replicas, realm' = realm,
         \A q \in Replicas \ {r} : pc'[q] = pc[q] /\ env'[q] = env[q],
         overtaken' \in {overtaken, overtaken \ {r}}, Synced(r)'
  PROVE  SecretSynced'
  BY DEF IInv, SecretSynced, Synced

\* A step that ends r, or goes on with the secret it has.
LEMMA SecretKeptOn ==
  ASSUME IInv, NEW r \in Replicas, UNCHANGED secrets, NEW step \in Steps,
         Goto(r, step) \/ pc' = pc,
         step \in ApiSteps => pc[r] \in ApiSteps, step = "api" => env[r] = 0
  PROVE  SecretSynced'
<1>1. \A q \in Replicas \ {r} : pc'[q] = pc[q] /\ env'[q] = env[q]
  BY GotoSets DEF secrets
<1>2. Synced(r)'
  BY GotoSets DEF Synced, secrets, IInv, SecretSynced, ApiSteps
<1> QED BY <1>1, <1>2, SecretKept DEF secrets

LEMMA SecretStep == IInv /\ [Next]_vars => SecretSynced'
<1> SUFFICES ASSUME IInv, [Next]_vars PROVE SecretSynced'
  OBVIOUS
<1> USE DEF secrets
<1>1. ASSUME NEW r \in Replicas, Restart(r) \/ LoadSecrets(r) PROVE SecretSynced'
  <2>1. pc'[r] \in {"load", "boot", "down"}
        /\ \A q \in Replicas \ {r} : pc'[q] = pc[q] /\ env'[q] = env[q]
    BY <1>1 DEF Restart, LoadSecrets, Goto, IInv, TypeOK
  <2>2. Synced(r)' /\ realm' = realm /\ overtaken' \in {overtaken, overtaken \ {r}}
    BY <1>1, <2>1 DEF Synced, ApiSteps, Restart, LoadSecrets
  <2> QED BY <2>1, <2>2, SecretKept
<1>2. ASSUME NEW r \in Replicas, KeycloakReady(r) PROVE SecretSynced'
  BY <1>2, SecretKeptOn DEF KeycloakReady, Steps, ApiSteps
<1>3. ASSUME NEW r \in Replicas, SyncClientSecret(r) PROVE SecretSynced'
  <2>0. pc'[r] \in {"api", "down"} /\ env' = env /\ \A q \in Replicas \ {r} : pc'[q] = pc[q]
    BY <1>3 DEF SyncClientSecret, Ends, Goto, IInv, TypeOK
  <2>1. CASE SetsSecret(r)
    <3>1. \A q \in Replicas \ {r} : pc[q] # "down" => q \in overtaken'
      BY <2>1 DEF SetsSecret
    <3>2. realm' = env[r]
      BY <2>1 DEF SetsSecret
    <3> QED BY <2>0, <3>1, <3>2 DEF IInv, SecretSynced, ApiSteps
  <2>2. CASE UNCHANGED <<realm, overtaken>> /\ (pc'[r] = "api" => env[r] = 0)
    <3>1. Synced(r)'
      BY <2>0, <2>2 DEF Synced, ApiSteps
    <3> QED BY <2>0, <2>2, <3>1, SecretKept
  <2> QED BY <1>3, <2>0, <2>1, <2>2 DEF SyncClientSecret, Ends, Goto, IInv, TypeOK
<1>4. ASSUME NEW r \in Replicas, LoadConfig(r) PROVE SecretSynced'
  <2>1. /\ \A q \in Replicas \ {r} : pc'[q] = pc[q] /\ env'[q] = env[q]
        /\ pc[r] = "api" /\ env'[r] = env[r] /\ UNCHANGED <<realm, overtaken>>
        /\ pc'[r] = IF env'[r] # 0 THEN "connect" ELSE "exited"
    BY <1>4 DEF LoadConfig, MustLoad, At, Goto, ExitApi, IInv, TypeOK
  <2>2. Synced(r)'
    BY <2>1 DEF Synced, ApiSteps, IInv, SecretSynced
  <2> QED BY <2>1, <2>2, SecretKept
<1>5. ASSUME NEW r \in Replicas, Supervise(r) \/ ApiDies(r) \/ ContainerDies(r)
      PROVE  SecretSynced'
  BY <1>5, SecretKeptOn DEF Supervise, ApiDies, ContainerDies, Ends, ExitApi, Steps, ApiSteps
<1>6. ASSUME NEW r \in Replicas, Connect(r) \/ CheckApplied(r) \/ RunBody(r) PROVE SecretSynced'
  BY <1>6, SecretKeptOn DEF Connect, CheckApplied, RunBody, At, ExitApi, Steps, ApiSteps
<1>7. ASSUME NEW r \in Replicas, InsertRow(r) \/ Commit(r) \/ EnsureAppTables(r) PROVE SecretSynced'
  BY <1>7, SecretKeptOn DEF InsertRow, Commit, EnsureAppTables, At, ExitApi, Steps, ApiSteps
<1>8. CASE Publish \/ UNCHANGED vars \/ (\E r \in Replicas : KeycloakDies(r))
           \/ \E o \in orphans : OrphanEnds(o)
  BY <1>8 DEF Publish, vars, KeycloakDies, OrphanEnds, IInv, SecretSynced
<1> QED BY <1>1, <1>2, <1>3, <1>4, <1>5, <1>6, <1>7, <1>8 DEF Next, Goes

LEMMA Invariance == Spec => []IInv
<1>1. IInv /\ [Next]_vars => IInv'
  BY TypeStep, MigrationStep, SecretStep DEF IInv, Migrations
<1> QED BY <1>1, InitInv, PTL DEF Spec

-----------------------------------------------------------------------------
(* Starting up implements SchemaUpgrade. *)

\* The servers that answer requests.
Serving == {r \in Replicas : At(r, "up")}

LEMMA UpgradeInit == Init => Upgrade!Init
  BY DEF Init, Upgrade!Init, At

\* A container that moves on, with nothing committed, opens or closes at most
\* its own server.
LEMMA ServerMoves ==
  ASSUME IInv, NEW r \in Replicas, UNCHANGED schema,
         \A q \in Replicas \ {r} : pc'[q] = pc[q],
         pc'[r] = "up" => pc[r] = "up" \/ Len(schema) = LastFile
  PROVE  [Upgrade!Next]_(Upgrade!vars)
<1>1. CASE pc'[r] = "up" <=> pc[r] = "up"
  <2>1. Serving' = Serving
    BY <1>1 DEF Serving, At
  <2> QED BY <2>1 DEF Upgrade!vars, Serving
<1>2. CASE pc'[r] = "up" /\ pc[r] # "up"
  <2>1. Serving' = Serving \cup {r}
    BY <1>2 DEF Serving, At
  <2>2. Upgrade!Open(r)
    BY <1>2, <2>1 DEF Upgrade!Open, Serving
  <2> QED BY <2>2 DEF Upgrade!Next
<1>3. CASE pc'[r] # "up" /\ pc[r] = "up"
  <2>1. Serving' = Serving \ {r}
    BY <1>3 DEF Serving, At
  <2>2. Upgrade!Close(r)
    BY <2>1 DEF Upgrade!Close, Serving
  <2> QED BY <2>2 DEF Upgrade!Next
<1> QED BY <1>1, <1>2, <1>3

\* A commit, early or late, moves the schema by one file and opens no server.
LEMMA VersionMoves ==
  ASSUME IInv, NEW f \in Files, f = Len(schema) + 1, Applies(f), Serving' = Serving
  PROVE  Upgrade!Next
<1>1. Len(schema) \in Nat /\ Len(schema') = Len(schema) + 1 /\ Len(schema) < LastFile
  BY SchemaIs, AppliesNext DEF Files
<1>2. Upgrade!Upgrade
  BY <1>1 DEF Upgrade!Upgrade, Serving
<1> QED BY <1>2 DEF Upgrade!Next

LEMMA UpgradeStep == IInv /\ [Next]_vars => [Upgrade!Next]_(Upgrade!vars)
<1> SUFFICES ASSUME IInv, [Next]_vars PROVE [Upgrade!Next]_(Upgrade!vars)
  OBVIOUS
<1> USE DEF postgres
<1>1. ASSUME NEW r \in Replicas, UNCHANGED schema, NEW step \in Steps, Goto(r, step) \/ pc' = pc,
             step = "up" => Len(schema) = LastFile
      PROVE  [Upgrade!Next]_(Upgrade!vars)
  BY <1>1, GotoSets, ServerMoves
<1>2. ASSUME NEW r \in Replicas,
             Restart(r) \/ LoadSecrets(r) \/ KeycloakReady(r) \/ SyncClientSecret(r)
      PROVE  [Upgrade!Next]_(Upgrade!vars)
  BY <1>1, <1>2 DEF Restart, LoadSecrets, KeycloakReady, SyncClientSecret, Ends, Steps
<1>3. ASSUME NEW r \in Replicas, Supervise(r) \/ ApiDies(r) \/ ContainerDies(r)
      PROVE  [Upgrade!Next]_(Upgrade!vars)
  BY <1>1, <1>3 DEF Supervise, ApiDies, ContainerDies, Ends, ExitApi, Steps
<1>4. ASSUME NEW r \in Replicas,
             LoadConfig(r) \/ Connect(r) \/ CheckApplied(r) \/ RunBody(r) \/ InsertRow(r)
      PROVE  [Upgrade!Next]_(Upgrade!vars)
  BY <1>1, <1>4 DEF LoadConfig, Connect, CheckApplied, RunBody, InsertRow, ExitApi, Steps, ApiSteps
<1>5. ASSUME NEW r \in Replicas, EnsureAppTables(r) PROVE [Upgrade!Next]_(Upgrade!vars)
  <2>1. Len(schema) = LastFile
    BY <1>5, SchemaIs DEF EnsureAppTables, At, IInv, NoneSkipped, ApiSteps
  <2> QED BY <1>1, <1>5, <2>1 DEF EnsureAppTables, ExitApi, Steps, ApiSteps
<1>6. ASSUME NEW r \in Replicas, Commit(r) PROVE [Upgrade!Next]_(Upgrade!vars)
  <2>1. pc[r] = "commit" /\ (Goto(r, "check") \/ Goto(r, "exited"))
    BY <1>6 DEF Commit, At, ExitApi
  <2>2. CASE UNCHANGED schema
    BY <1>1, <2>1, <2>2 DEF Steps, ApiSteps
  <2>3. CASE Applies(file[r])
    <3>1. file[r] \in Files /\ file[r] = Len(schema) + 1
      BY <2>1 DEF At, IInv, NoneSkipped, NextCommitted
    <3>2. Serving' = Serving
      BY <2>1 DEF Serving, At, Goto, IInv, TypeOK
    <3> QED BY <2>3, <3>1, <3>2, VersionMoves
  <2> QED BY <1>6, <2>2, <2>3 DEF Commit
<1>7. ASSUME NEW o \in orphans, OrphanEnds(o) PROVE [Upgrade!Next]_(Upgrade!vars)
  <2>1. Serving' = Serving
    BY <1>7 DEF OrphanEnds, Serving, At
  <2>2. CASE UNCHANGED <<schema, applied>>
    BY <2>1, <2>2 DEF Upgrade!vars, Serving
  <2>3. CASE o.sent /\ Applies(o.file)
    <3>1. o.file \in Files /\ o.file = Len(schema) + 1
      BY <2>3 DEF IInv, TypeOK, Orphan, NextCommitted
    <3> QED BY <2>1, <2>3, <3>1, VersionMoves
  <2> QED BY <1>7, <2>2, <2>3 DEF OrphanEnds
<1>8. CASE Publish \/ UNCHANGED vars \/ \E r \in Replicas : KeycloakDies(r)
  <2>1. Serving' = Serving /\ schema' = schema
    BY <1>8 DEF Publish, vars, KeycloakDies, Serving, At
  <2> QED BY <2>1 DEF Upgrade!vars, Serving
<1> QED BY <1>2, <1>3, <1>4, <1>5, <1>6, <1>7, <1>8 DEF Next, Goes

-----------------------------------------------------------------------------
(* The theorems. *)

\* Every variable of the containers, Postgres and the secrets keeps its type.
THEOREM TypeCorrect == Spec => []TypeOK
<1>1. IInv => TypeOK
  BY DEF IInv
<1> QED BY <1>1, Invariance, PTL

\* Every file is committed once and in order, and its row with it, however many
\* containers migrate at once and whatever transactions their deaths leave behind.
THEOREM FilesAppliedOnce == Spec => []AppliedOnce
<1>1. IInv => AppliedOnce
  BY DEF IInv
<1> QED BY <1>1, Invariance, PTL

\* A server that listens has the secret Keycloak has for its client, unless
\* another container has set another since it was started.
THEOREM SecretsSynced == Spec => []SecretsAgree
<1>1. IInv => SecretsAgree
  BY DEF IInv, SecretSynced, SecretsAgree, At, ApiSteps
<1> QED BY <1>1, Invariance, PTL

\* The schema moves forward file by file, and no server listens on part of it.
THEOREM ImplementsUpgrade == Spec => UpgradeSpec
<1> QED
  BY UpgradeInit, UpgradeStep, Invariance, PTL DEF Spec, UpgradeSpec, Upgrade!Spec
=============================================================================
