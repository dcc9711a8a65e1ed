---------------------------- MODULE SchemaUpgrade ----------------------------
(***************************************************************************)
(* What starting up promises, whatever dies on the way: the schema moves   *)
(* forward one file at a time, and a server answers requests only when all *)
(* of it is there.                                                         *)
(***************************************************************************)
EXTENDS Naturals

CONSTANTS Replicas, LastFile

VARIABLES
    version, \* the files applied so far
    serving  \* the servers that answer requests

vars == <<version, serving>>

Init == version = 0 /\ serving = {}

Upgrade ==
    /\ version < LastFile
    /\ version' = version + 1
    /\ UNCHANGED serving

Open(r) ==
    /\ version = LastFile
    /\ serving' = serving \cup {r}
    /\ UNCHANGED version

Close(r) ==
    /\ serving' = serving \ {r}
    /\ UNCHANGED version

Next == Upgrade \/ \E r \in Replicas : Open(r) \/ Close(r)

Spec == Init /\ [][Next]_vars
=============================================================================
