----------------------------- MODULE MCProfile -----------------------------
(* Small instances of Profile for TLC: users ann and bob, one session each, *)
(* whose requests overlap in every order or, with a longer clock and more   *)
(* wrong guesses, are served one at a time.                                 *)
EXTENDS Profile, TLC

CONSTANTS ann, bob, sa, sb, ea, eb, new

MCSessionOf   == [s \in Sessions |-> IF s = sa THEN ann ELSE bob]
MCFirstEmail  == [x \in Users |-> IF x = ann THEN ea ELSE eb]
MCFaults      == {"keycloak", "postgres", "crash"}
MCSerialFaults == {"mail", "keycloak", "postgres"}
MCNoFaults    == {}

\* The bounds of behaviours where requests overlap: one wrong guess, not while a name
\* update holds its copy, and no request dies that has not accepted a code.
Wrongs(n) == {k \in Keys : pend[k] # None /\ pend[k].attempts >= n}
Bounds == /\ now <= 1 /\ Cardinality(Wrongs(1)) <= 1 /\ Wrongs(2) = {}
          /\ Wrongs(1) # {} => \A d \in Editors : edits[d] = None
LateCrashes == \A h \in Handlers : pc[h] \in FlowLabels => ~Crash(h)
MCSpec == Init /\ [][Next /\ (serial \/ (LateCrashes /\ Bounds'))]_vars

\* Handlers, codes, and ann with all that is hers for bob with all that is his.
Swap == [x \in {ann, bob, sa, sb, ea, eb} |->
            CASE x = ann -> bob [] x = bob -> ann
              [] x = sa -> sb [] x = sb -> sa
              [] x = ea -> eb [] x = eb -> ea]
MCSymmetry == Permutations(Handlers) \cup Permutations(Codes)
MCUserSymmetry == MCSymmetry \cup {Swap}

\* The variables that guards and properties read; where requests overlap, the rest is
\* history of properties that say nothing then.
MCView == <<now, redis, handlers, issued, mails, spent, email, sessEmail, acting, edits, serial,
            IF serial THEN <<latest, answered, tries>> ELSE <<>> >>
=============================================================================
