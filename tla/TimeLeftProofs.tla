--------------------------- MODULE TimeLeftProofs ---------------------------
(***************************************************************************)
(* Proofs about the two components that keep how much time is left.        *)
(*                                                                         *)
(* RateLimit, for every set of clients, limit and window: how many         *)
(* requests of one client any stretch as long as the window lets through.  *)
(*                                                                         *)
(* M2MTokenCache, for every set of callers and lifetimes and every skew    *)
(* greater than the timeout: how live a token is handed out, and that no   *)
(* caller fetches while a fresh token is cached.                           *)
(***************************************************************************)
EXTENDS M2MTokenCache, RateLimit, FiniteSetTheorems, TLAPS

-----------------------------------------------------------------------------
(* RateLimit. *)

USE RateAssumption

\* Whatever a request of c says of its address, it is counted under c.
LEMMA OwnKey ==
  ASSUME NEW c \in Clients
  PROVE  KeysOf(c) = {c} /\ c \in Keys
  BY DEF KeysOf, ClientIP, Trusted, Keys

LEMMA PassedElements ==
  ASSUME NEW c \in Clients, granted \in [Clients -> [Ages -> Nat]]
  PROVE  /\ \A g \in Passed(c) : /\ g[1] \in Ages /\ g[2] \in 1 .. granted[c][g[1]]
                                 /\ g = <<g[1], g[2]>>
         /\ \A a \in Ages, i \in Nat :
                <<a, i>> \in Passed(c) <=> 1 <= i /\ i <= granted[c][a]
  BY DEF Passed, Ages

LEMMA Finite ==
  ASSUME RateTypeOK, NEW c \in Clients, Counted(c), NEW b \in Int
  PROVE  /\ IsFiniteSet(Since(c, b)) /\ Cardinality(Since(c, b)) \in Nat
         /\ IsFiniteSet(Before(c, b)) /\ Cardinality(Before(c, b)) \in Nat
         /\ IsFiniteSet(Passed(c))
         /\ Cardinality(Passed(c)) <= Cardinality(Since(c, b)) + Cardinality(Before(c, b))
<1>1. IsFiniteSet(Ages \X (1 .. Limit))
  <2>1. IsFiniteSet(Ages) /\ IsFiniteSet(1 .. Limit)
    BY FS_Interval DEF Ages
  <2> QED BY <2>1, FS_Product
<1>2. Passed(c) \in SUBSET (Ages \X (1 .. Limit))
  <2> SUFFICES ASSUME NEW g \in Passed(c) PROVE g \in Ages \X (1 .. Limit)
    OBVIOUS
  <2>1. g[1] \in Ages /\ g[2] \in 1 .. granted[c][g[1]] /\ g = <<g[1], g[2]>>
    BY PassedElements DEF RateTypeOK
  <2>2. granted[c][g[1]] <= Limit /\ granted[c][g[1]] \in Nat
    BY <2>1 DEF Counted, RateTypeOK
  <2>3. g[2] \in 1 .. Limit
    BY <2>1, <2>2
  <2> QED BY <2>1, <2>3
<1>3. IsFiniteSet(Passed(c))
  BY <1>1, <1>2, FS_Subset
<1>4. Since(c, b) \in SUBSET Passed(c) /\ Before(c, b) \in SUBSET Passed(c)
  BY DEF Since, Before
<1>5. /\ IsFiniteSet(Since(c, b)) /\ Cardinality(Since(c, b)) \in Nat
      /\ IsFiniteSet(Before(c, b)) /\ Cardinality(Before(c, b)) \in Nat
  BY <1>3, <1>4, FS_Subset, FS_CardinalityType
<1>6. \A g \in Passed(c) : g[1] \in Int
  BY PassedElements DEF RateTypeOK, Ages
<1>7. Passed(c) = Since(c, b) \cup Before(c, b)
  BY <1>6 DEF Since, Before
<1>8. Since(c, b) \cap Before(c, b) = {}
  BY <1>6 DEF Since, Before
<1>9. Cardinality(Passed(c)) = Cardinality(Since(c, b)) + Cardinality(Before(c, b)) - 0
  BY <1>5, <1>7, <1>8, FS_Union, FS_EmptySet
<1> QED BY <1>3, <1>5, <1>9

\* What moved one age further is no more than it was.
LEMMA OlderNoMore ==
  ASSUME NEW S, NEW T, IsFiniteSet(S),
         \A g \in T : \E a \in Nat, i \in Nat : g = <<a + 1, i>> /\ <<a, i>> \in S
  PROVE  IsFiniteSet(T) /\ Cardinality(T) <= Cardinality(S)
<1> DEFINE f == [g \in T |-> <<g[1] - 1, g[2]>>]
<1>1. ASSUME NEW g \in T
      PROVE  g[1] \in Int /\ g[2] \in Int /\ g = <<g[1], g[2]>> /\ <<g[1] - 1, g[2]>> \in S
  <2>1. PICK a \in Nat, i \in Nat : g = <<a + 1, i>> /\ <<a, i>> \in S
    OBVIOUS
  <2>2. g[1] = a + 1 /\ g[2] = i
    BY <2>1
  <2>3. g[1] - 1 = a
    BY <2>2
  <2> QED BY <2>1, <2>2, <2>3
<1>2. f \in [T -> S]
  BY <1>1
<1>3. ASSUME NEW g \in T, NEW k \in T, f[g] = f[k] PROVE g = k
  <2>1. g[1] - 1 = k[1] - 1 /\ g[2] = k[2]
    BY <1>3
  <2>2. g[1] \in Int /\ k[1] \in Int
    BY <1>1
  <2>3. g[1] = k[1]
    BY <2>1, <2>2
  <2> QED BY <1>1, <2>1, <2>3
<1>4. IsInjective(f)
  BY <1>2, <1>3 DEF IsInjective
<1>5. f \in Injection(T, S)
  BY <1>2, <1>4 DEF Injection
<1> QED BY <1>5, FS_Injection
-----------------------------------------------------------------------------
LEMMA RateInitInv == RateInit => RateInv
<1> SUFFICES ASSUME RateInit PROVE RateInv
  OBVIOUS
<1>1. RateTypeOK /\ OneExpiring /\ \A k \in Keys : count[k] = 0 => ttl[k] = Unset
  BY DEF RateInit, RateTypeOK, OneExpiring, Keys, Ages
<1>2. ASSUME NEW c \in Clients PROVE Counted(c) /\ TwoWindows(c)
  <2>1. Counted(c)
    BY <1>2 DEF RateInit, Counted, Keys, Ages
  <2>2. Passed(c) = {}
    BY DEF RateInit, Passed
  <2>3. Since(c, 0) = {} /\ Before(c, 0) = {}
    BY <2>2 DEF Since, Before
  <2>4. Cardinality(Since(c, 0)) = 0 /\ Cardinality(Before(c, 0)) = 0
    BY <2>3, FS_EmptySet
  <2>5. count[c] = 0 /\ ttl[c] = Unset
    BY DEF RateInit, Keys
  <2> QED BY <2>1, <2>4, <2>5 DEF TwoWindows
<1> QED BY <1>1, <1>2 DEF RateInv

\* A client whose counter and requests stay as they are; its counter may have got
\* its expiry.
LEMMA SameWindows ==
  ASSUME RateTypeOK, NEW c \in Clients, Counted(c), TwoWindows(c),
         granted'[c] = granted[c], count'[c] = count[c],
         ttl'[c] = ttl[c] \/ (count[c] > 0 /\ ttl'[c] = Window) \/ ttl'[c] = Unset
  PROVE  Counted(c)' /\ TwoWindows(c)'
<1>1. Counted(c)'
  BY DEF Counted
<1>2. PICK b \in 0 .. Window :
        /\ b = 0 <=> count[c] = 0
        /\ ttl[c] # Unset => b + ttl[c] >= Window
        /\ Cardinality(Since(c, b)) <= count[c] /\ Cardinality(Since(c, b)) <= Limit
        /\ Cardinality(Before(c, b)) <= Limit
  BY DEF TwoWindows
<1>3. Since(c, b)' = Since(c, b) /\ Before(c, b)' = Before(c, b)
  BY DEF Since, Before, Passed
<1>4. ttl'[c] # Unset => b + ttl'[c] >= Window
  BY <1>2
<1>5. TwoWindows(c)'
  BY <1>2, <1>3, <1>4 DEF TwoWindows
<1> QED BY <1>1, <1>5

\* A counter about to be stepped covers at least the present age.
LEMMA WindowOpen ==
  ASSUME RateInv, NEW c \in Clients
  PROVE  \E b \in 1 .. Window :
            /\ ttl[c] # Unset => b + ttl[c] >= Window
            /\ Cardinality(Since(c, b)) <= count[c] /\ Cardinality(Since(c, b)) <= Limit
            /\ Cardinality(Before(c, b)) <= Limit
<1>1. PICK b \in 0 .. Window :
        /\ b = 0 <=> count[c] = 0
        /\ ttl[c] # Unset => b + ttl[c] >= Window
        /\ Cardinality(Since(c, b)) <= count[c] /\ Cardinality(Since(c, b)) <= Limit
        /\ Cardinality(Before(c, b)) <= Limit
  BY DEF RateInv, TwoWindows
<1>2. CASE b # 0
  BY <1>1, <1>2
<1>3. CASE b = 0
  <2>1. count[c] = 0 /\ ttl[c] = Unset /\ granted[c][0] = 0
    BY <1>1, <1>3 DEF RateInv, RateTypeOK, Counted, Keys, Ages
  <2>2. \A g \in Passed(c) : g[1] \in Nat /\ g[1] # 0
    BY <2>1, PassedElements DEF RateInv, RateTypeOK, Ages
  <2>3. Since(c, 1) = {} /\ Before(c, 1) \subseteq Before(c, 0)
    BY <2>2 DEF Since, Before
  <2>4. IsFiniteSet(Before(c, 0)) /\ Cardinality(Before(c, 0)) \in Nat
    BY Finite DEF RateInv
  <2>5. Cardinality(Before(c, 1)) <= Cardinality(Before(c, 0)) /\ Cardinality(Before(c, 1)) \in Nat
    BY <2>3, <2>4, FS_Subset, FS_CardinalityType
  <2>6. Cardinality(Since(c, 1)) = 0
    BY <2>3, FS_EmptySet
  <2>7. Cardinality(Before(c, 1)) <= Limit
    BY <1>1, <1>3, <2>4, <2>5
  <2>8. 1 \in 1 .. Window
    OBVIOUS
  <2> QED BY <2>1, <2>6, <2>7, <2>8
<1> QED BY <1>2, <1>3

\* A request counted, and let through or refused.
LEMMA CountedKeeps ==
  ASSUME RateInv, NEW c \in Clients, RateTypeOK', count'[c] = Incremented(count[c]),
         ttl'[c] = ttl[c],
         \/ granted'[c] = granted[c]
         \/ /\ Allows(count'[c])
            /\ granted'[c] = [granted[c] EXCEPT ![0] = @ + 1]
  PROVE  Counted(c)' /\ TwoWindows(c)'
<1> USE DEF RateInv
<1>0. count[c] \in 0 .. Limit + 1 /\ c \in Keys
  BY DEF RateTypeOK, Keys
<1>1. /\ count'[c] > 0 /\ count'[c] >= count[c] /\ count'[c] \in Nat
      /\ Allows(count'[c]) => count'[c] = count[c] + 1 /\ count'[c] <= Limit
  BY <1>0 DEF Incremented, Allows
<1>2. PICK b \in 1 .. Window :
        /\ ttl[c] # Unset => b + ttl[c] >= Window
        /\ Cardinality(Since(c, b)) <= count[c] /\ Cardinality(Since(c, b)) <= Limit
        /\ Cardinality(Before(c, b)) <= Limit
  BY WindowOpen
<1>3. IsFiniteSet(Since(c, b)) /\ Cardinality(Since(c, b)) \in Nat
  BY Finite
<1>4. CASE granted'[c] = granted[c]
  <2>1. Counted(c)'
    BY <1>0, <1>1, <1>4 DEF Counted, RateTypeOK, Ages
  <2>2. Since(c, b)' = Since(c, b) /\ Before(c, b)' = Before(c, b)
    BY <1>4 DEF Since, Before, Passed
  <2>3. Cardinality(Since(c, b)') <= count'[c]
    BY <1>0, <1>1, <1>2, <1>3, <2>2
  <2> QED BY <1>1, <1>2, <2>1, <2>2, <2>3 DEF TwoWindows
<1>5. CASE Allows(count'[c]) /\ granted'[c] = [granted[c] EXCEPT ![0] = @ + 1]
  <2> DEFINE new == <<0, granted[c][0] + 1>>
  <2>0. granted[c][0] \in Nat /\ granted[c] \in [Ages -> Nat] /\ 0 \in Ages
    BY DEF RateTypeOK, Ages
  <2>1. Counted(c)'
    BY <1>0, <1>1, <1>5, <2>0 DEF Counted
  <2>2. \A a \in Ages : a # 0 => granted'[c][a] = granted[c][a]
    BY <1>5, <2>0
  <2>3. granted'[c][0] = granted[c][0] + 1
    BY <1>5, <2>0
  <2>4. Passed(c)' = Passed(c) \cup {new}
    BY <2>0, <2>2, <2>3 DEF Passed, Ages
  <2>5. Since(c, b)' = Since(c, b) \cup {new} /\ Before(c, b)' = Before(c, b)
    BY <2>4 DEF Since, Before
  <2>6. /\ Cardinality(Since(c, b)') <= Cardinality(Since(c, b)) + 1
        /\ Cardinality(Since(c, b)') \in Nat
    <3> DEFINE S == Since(c, b)
    <3>1. IsFiniteSet(S) /\ Cardinality(S) \in Nat
      BY <1>3
    <3> HIDE DEF S, new
    <3>2. IsFiniteSet(S \cup {new})
          /\ Cardinality(S \cup {new}) = IF new \in S THEN Cardinality(S) ELSE Cardinality(S) + 1
      BY <3>1, FS_AddElement
    <3>3. Since(c, b)' = S \cup {new}
      BY <2>5 DEF S
    <3>4. /\ Cardinality(Since(c, b)') <= Cardinality(S) + 1
          /\ Cardinality(Since(c, b)') \in Nat
      BY <3>1, <3>2, <3>3
    <3> QED BY <3>4 DEF S
  <2>7. Cardinality(Since(c, b)') <= count'[c] /\ Cardinality(Since(c, b)') <= Limit
    BY <1>0, <1>1, <1>2, <1>3, <1>5, <2>6
  <2> HIDE DEF new
  <2>8. /\ b \in 0 .. Window /\ (b = 0 <=> count'[c] = 0)
        /\ ttl'[c] # Unset => b + ttl'[c] >= Window
        /\ Cardinality(Before(c, b)') <= Limit
    BY <1>1, <1>2, <2>5
  <2>9. TwoWindows(c)'
    BY <2>7, <2>8 DEF TwoWindows
  <2> QED BY <2>1, <2>9
<1> QED BY <1>4, <1>5

\* Time passes: what is out of sight is forgotten, and a counter that ends leaves
\* what it let through as the time before.
LEMMA ElapseKeeps ==
  ASSUME RateInv, Elapse, RateTypeOK', NEW c \in Clients
  PROVE  Counted(c)' /\ TwoWindows(c)'
<1> USE DEF RateInv
<1>0. c \in Keys /\ count[c] \in 0 .. Limit + 1
  BY DEF RateTypeOK, Keys
<1>1. /\ granted'[c][0] = 0
      /\ \A a \in Ages : a # 0 => granted'[c][a] = granted[c][a - 1]
      /\ granted[c] \in [Ages -> Nat]
  BY DEF Elapse, RateTypeOK, Ages
<1>2. \A a \in Ages : a # 0 => a - 1 \in Ages
  BY DEF Ages
<1>3. Counted(c)'
  <2>1. granted'[c][0] <= count'[c]
    BY <1>0, <1>1 DEF RateTypeOK
  <2>2. \A a \in Ages : granted'[c][a] <= Limit
    BY <1>1, <1>2 DEF Counted
  <2> QED BY <2>1, <2>2 DEF Counted
<1>4. \A g \in Passed(c)' : /\ \E a \in Nat, i \in Nat : g = <<a + 1, i>> /\ <<a, i>> \in Passed(c)
                            /\ g[1] \in Ages
  <2> SUFFICES ASSUME NEW g \in Passed(c)'
               PROVE  /\ \E a \in Nat, i \in Nat : g = <<a + 1, i>> /\ <<a, i>> \in Passed(c)
                      /\ g[1] \in Ages
    OBVIOUS
  <2>1. PICK a \in Ages : \E i \in 1 .. granted'[c][a] : g = <<a, i>>
    BY DEF Passed
  <2>6. PICK i \in 1 .. granted'[c][a] : g = <<a, i>>
    BY <2>1
  <2>2. a # 0
    BY <1>1, <2>6
  <2>3. a - 1 \in Ages /\ a - 1 \in Nat /\ i \in Nat /\ g = <<(a - 1) + 1, i>>
    BY <1>1, <1>2, <2>6, <2>2 DEF Ages
  <2>4. i \in 1 .. granted[c][a - 1]
    BY <1>1, <2>6, <2>2
  <2>5. <<a - 1, i>> \in Passed(c)
    BY <2>3, <2>4 DEF Passed
  <2> QED BY <2>6, <2>3, <2>5
<1>5. PICK b \in 0 .. Window :
        /\ b = 0 <=> count[c] = 0
        /\ ttl[c] # Unset => b + ttl[c] >= Window
        /\ Cardinality(Since(c, b)) <= count[c] /\ Cardinality(Since(c, b)) <= Limit
        /\ Cardinality(Before(c, b)) <= Limit
  BY DEF TwoWindows
<1>6. /\ IsFiniteSet(Since(c, b)) /\ Cardinality(Since(c, b)) \in Nat
      /\ IsFiniteSet(Before(c, b)) /\ Cardinality(Before(c, b)) \in Nat
  BY Finite
<1>7. CASE ttl[c] = 1
  <2>1. count'[c] = 0 /\ ttl'[c] = Unset
    BY <1>0, <1>7 DEF Elapse
  <2>2. b >= Window - 1
    <3>1. ttl[c] # Unset
      BY <1>7
    <3>2. b + ttl[c] >= Window
      BY <1>5, <3>1
    <3> QED BY <1>7, <3>2
  <2>3. \A g \in Before(c, 0)' : \E a \in Nat, i \in Nat : g = <<a + 1, i>> /\ <<a, i>> \in Since(c, b)
    <3> SUFFICES ASSUME NEW g \in Passed(c)'
                 PROVE  \E a \in Nat, i \in Nat : g = <<a + 1, i>> /\ <<a, i>> \in Since(c, b)
      BY DEF Before
    <3>1. PICK a \in Nat, i \in Nat : g = <<a + 1, i>> /\ <<a, i>> \in Passed(c)
      BY <1>4
    <3>2. a + 1 \in Ages
      BY <1>4, <3>1
    <3>3. a < b
      BY <2>2, <3>2 DEF Ages
    <3> QED BY <3>1, <3>3 DEF Since
  <2>4. Cardinality(Before(c, 0)') <= Cardinality(Since(c, b)) /\ Cardinality(Before(c, 0)') \in Nat
    <3> DEFINE S == Since(c, b)
               T == Before(c, 0)'
    <3>1. IsFiniteSet(S) /\ \A g \in T : \E a \in Nat, i \in Nat : g = <<a + 1, i>> /\ <<a, i>> \in S
      BY <1>6, <2>3
    <3> HIDE DEF S, T
    <3>2. IsFiniteSet(T) /\ Cardinality(T) <= Cardinality(S)
      BY <3>1, OlderNoMore
    <3>3. Cardinality(T) \in Nat
      BY <3>2, FS_CardinalityType
    <3> QED BY <3>2, <3>3 DEF S, T
  <2>5. Since(c, 0)' = {}
    BY <1>4 DEF Since, Ages
  <2>6. Cardinality(Since(c, 0)') = 0
    BY <2>5, FS_EmptySet
  <2>7. Cardinality(Before(c, 0)') <= Limit
    BY <1>5, <1>6, <2>4
  <2>8. TwoWindows(c)'
    BY <2>1, <2>6, <2>7 DEF TwoWindows
  <2> QED BY <1>3, <2>8
<1>8. CASE ttl[c] # 1
  <2>1. count'[c] = count[c]
    BY <1>0, <1>8 DEF Elapse, RateTypeOK
  <2>2. /\ ttl'[c] # Unset => ttl[c] # Unset /\ ttl'[c] = ttl[c] - 1
        /\ ttl[c] \in Nat \cup {Unset}
    BY <1>0, <1>8 DEF Elapse, RateTypeOK
  <2> DEFINE n == IF b = 0 \/ b = Window THEN b ELSE b + 1
  <2>3. n \in 0 .. Window /\ (n = 0 <=> b = 0)
    OBVIOUS
  <2>4. ttl'[c] # Unset => n + ttl'[c] >= Window
    <3>1. ttl[c] # Unset => b # 0
      BY <1>0, <1>5
    <3>2. ttl[c] # Unset => ttl[c] \in 1 .. Window
      BY <1>0 DEF RateTypeOK
    <3> QED BY <1>5, <2>2, <3>1, <3>2
  <2>5. n = 0 \/ n = b + 1 \/ n = Window
    OBVIOUS
  <2>6. \A g \in Since(c, n)' : \E a \in Nat, i \in Nat : g = <<a + 1, i>> /\ <<a, i>> \in Since(c, b)
    BY <1>4, <2>5 DEF Since, Ages
  <2>7. \A g \in Before(c, n)' : \E a \in Nat, i \in Nat : g = <<a + 1, i>> /\ <<a, i>> \in Before(c, b)
    BY <1>4, <2>5 DEF Before, Ages
  <2>8. /\ Cardinality(Since(c, n)') <= Cardinality(Since(c, b))
        /\ Cardinality(Before(c, n)') <= Cardinality(Before(c, b))
        /\ Cardinality(Since(c, n)') \in Nat /\ Cardinality(Before(c, n)') \in Nat
    BY <1>6, <2>6, <2>7, OlderNoMore, FS_CardinalityType
  <2> HIDE DEF n
  <2>9. /\ Cardinality(Since(c, n)') <= count'[c] /\ Cardinality(Since(c, n)') <= Limit
        /\ Cardinality(Before(c, n)') <= Limit
    BY <1>0, <1>5, <1>6, <2>1, <2>8
  <2>10. TwoWindows(c)'
    BY <1>5, <2>1, <2>3, <2>4, <2>9 DEF TwoWindows
  <2> QED BY <1>3, <2>10
<1> QED BY <1>7, <1>8

LEMMA RateStep == RateInv /\ [RateNext]_rateVars => RateInv'
<1> SUFFICES ASSUME RateInv, [RateNext]_rateVars PROVE RateInv'
  OBVIOUS
<1> DEFINE Rest == /\ RateTypeOK' /\ OneExpiring'
                   /\ \A k \in Keys : count'[k] = 0 => ttl'[k] = Unset
<1>1. CASE Elapse
  <2>1. RateTypeOK'
    BY <1>1 DEF RateInv, RateTypeOK, Elapse, Ages
  <2>2. OneExpiring'
    BY <1>1 DEF RateInv, RateTypeOK, Elapse, OneExpiring
  <2>3. \A k \in Keys : count'[k] = 0 => ttl'[k] = Unset
    BY <1>1 DEF RateInv, RateTypeOK, Elapse
  <2>4. \A c \in Clients : Counted(c)' /\ TwoWindows(c)'
    BY <1>1, <2>1, ElapseKeeps
  <2> QED BY <2>1, <2>2, <2>3, <2>4 DEF RateInv
<1>2. ASSUME NEW h \in Handlers, NEW c \in Clients, NEW k \in Keys,
             Incr(h, c, k) \/ IncrFails(h, c, k)
      PROVE  RateInv'
  <2>1. k = c /\ c \in Keys
    BY <1>2, OwnKey DEF Incr, IncrFails
  <2>2. /\ count' = [count EXCEPT ![c] = Incremented(count[c])] /\ ttl' = ttl
        /\ expiring[h] = Unset
        /\ \/ granted' = granted
           \/ Allows(count'[c]) /\ granted' = [granted EXCEPT ![c][0] = @ + 1]
        /\ \/ expiring' = expiring
           \/ expiring' = [expiring EXCEPT ![h] = IF count'[c] = 1 THEN c ELSE Unset]
    BY <1>2, <2>1 DEF Incr, IncrFails, Grant
  <2>3. count'[c] > 0 /\ \A d \in Keys : count[d] > 0 => count'[d] > 0
    BY <2>1, <2>2 DEF RateInv, RateTypeOK, Incremented
  <2>0. /\ count[c] \in 0 .. Limit + 1 /\ count'[c] = Incremented(count[c])
        /\ Incremented(count[c]) \in 0 .. Limit + 1
    BY <2>1, <2>2 DEF RateInv, RateTypeOK, Incremented
  <2>4. RateTypeOK'
    <3>1. count' \in [Keys -> 0 .. Limit + 1]
      BY <2>0, <2>1, <2>2 DEF RateInv, RateTypeOK
    <3>2. granted' \in [Clients -> [Ages -> Nat]]
      <4>1. granted \in [Clients -> [Ages -> Nat]] /\ 0 \in Ages
        BY DEF RateInv, RateTypeOK, Ages
      <4>2. granted[c][0] + 1 \in Nat
        BY <4>1
      <4>3. [granted EXCEPT ![c][0] = @ + 1] \in [Clients -> [Ages -> Nat]]
        BY <4>1, <4>2
      <4> QED BY <2>2, <4>1, <4>3
    <3> QED BY <2>1, <2>2, <3>1, <3>2 DEF RateInv, RateTypeOK
  <2>5. count'[c] = 1 => count[c] = 0 /\ ttl[c] = Unset
    BY <2>0, <2>1 DEF RateInv, Incremented
  <2>6. OneExpiring'
    BY <2>1, <2>2, <2>3, <2>5 DEF RateInv, RateTypeOK, OneExpiring
  <2>7. \A d \in Keys : count'[d] = 0 => ttl'[d] = Unset
    BY <2>1, <2>2, <2>3 DEF RateInv, RateTypeOK
  <2>8. Counted(c)' /\ TwoWindows(c)'
    <3>1. count'[c] = Incremented(count[c]) /\ ttl'[c] = ttl[c]
      BY <2>1, <2>2 DEF RateInv, RateTypeOK
    <3>2. granted' = granted \/ (Allows(count'[c]) /\ granted'[c] = [granted[c] EXCEPT ![0] = @ + 1])
      BY <2>2 DEF RateInv, RateTypeOK
    <3> QED BY <2>4, <3>1, <3>2, CountedKeeps
  <2>9. ASSUME NEW d \in Clients, d # c PROVE Counted(d)' /\ TwoWindows(d)'
    <3>1. granted'[d] = granted[d] /\ count'[d] = count[d] /\ ttl'[d] = ttl[d]
      BY <2>1, <2>2, <2>9 DEF RateInv, RateTypeOK, Keys
    <3> QED BY <3>1, SameWindows DEF RateInv
  <2> QED BY <2>4, <2>6, <2>7, <2>8, <2>9 DEF RateInv
<1>3. ASSUME NEW h \in Handlers, Expire(h) \/ ExpireLost(h)
      PROVE  RateInv'
  <2>1. /\ count' = count /\ granted' = granted
        /\ expiring[h] # Unset /\ expiring' = [expiring EXCEPT ![h] = Unset]
        /\ \/ ttl' = ttl
           \/ ttl' = [ttl EXCEPT ![expiring[h]] = IF count[expiring[h]] > 0 THEN Window ELSE Unset]
    BY <1>3 DEF Expire, ExpireLost
  <2>2. expiring[h] \in Keys /\ count[expiring[h]] > 0
    BY <2>1 DEF RateInv, RateTypeOK, OneExpiring
  <2>3. ttl' = ttl \/ ttl' = [ttl EXCEPT ![expiring[h]] = Window]
    BY <2>1, <2>2
  <2>4. RateTypeOK'
    BY <2>1, <2>3 DEF RateInv, RateTypeOK
  <2>5. OneExpiring'
    BY <2>1, <2>3 DEF RateInv, RateTypeOK, OneExpiring
  <2>6. \A d \in Keys : count'[d] = 0 => ttl'[d] = Unset
    BY <2>1, <2>2, <2>3 DEF RateInv, RateTypeOK
  <2>7. ASSUME NEW d \in Clients PROVE Counted(d)' /\ TwoWindows(d)'
    <3>1. ttl'[d] = ttl[d] \/ (count[d] > 0 /\ ttl'[d] = Window)
      BY <2>2, <2>3 DEF RateInv, RateTypeOK, Keys
    <3> QED BY <2>1, <3>1, SameWindows DEF RateInv
  <2> QED BY <2>4, <2>5, <2>6, <2>7 DEF RateInv
<1>4. CASE UNCHANGED rateVars
  <2>1. RateTypeOK' /\ OneExpiring' /\ \A d \in Keys : count'[d] = 0 => ttl'[d] = Unset
    BY <1>4 DEF rateVars, RateInv, RateTypeOK, OneExpiring
  <2>2. \A d \in Clients : Counted(d)' /\ TwoWindows(d)'
    BY <1>4, SameWindows DEF rateVars, RateInv
  <2> QED BY <2>1, <2>2 DEF RateInv
<1> QED BY <1>1, <1>2, <1>3, <1>4 DEF RateNext

LEMMA RateInvariance == RateSpec => []RateInv
  BY RateInitInv, RateStep, PTL DEF RateSpec

\* The counters, their times to live and the requests on their way to EXPIRE
\* keep their types.
THEOREM RateTypeCorrect == RateSpec => []RateTypeOK
<1>1. RateInv => RateTypeOK
  BY DEF RateInv
<1> QED BY <1>1, RateInvariance, PTL

\* Any stretch as long as the window lets through at most twice the limit of one
\* client's requests: what it sees are the requests of the counter in force and of
\* no more than one before it.
THEOREM TwoWindowsAtMost == RateSpec => []BurstBounded
<1>1. RateInv => BurstBounded
  <2> SUFFICES ASSUME RateInv, NEW c \in Clients PROVE Cardinality(Passed(c)) <= 2 * Limit
    BY DEF BurstBounded
  <2>1. PICK b \in 0 .. Window : /\ Cardinality(Since(c, b)) <= Limit
                                 /\ Cardinality(Before(c, b)) <= Limit
    BY DEF RateInv, TwoWindows
  <2>2. /\ Cardinality(Since(c, b)) \in Nat /\ Cardinality(Before(c, b)) \in Nat
        /\ IsFiniteSet(Passed(c))
        /\ Cardinality(Passed(c)) <= Cardinality(Since(c, b)) + Cardinality(Before(c, b))
    BY Finite DEF RateInv
  <2>3. Cardinality(Passed(c)) \in Nat
    BY <2>2, FS_CardinalityType
  <2> QED BY <2>1, <2>2, <2>3
<1> QED BY <1>1, RateInvariance, PTL

-----------------------------------------------------------------------------
(* M2MTokenCache. *)

USE CacheAssumption, TokenAssumption DEF Token, Labels

LEMMA InitInv == Init => IInv
  BY DEF Init, IInv, TypeOK, CacheInv, OneFetch, FetchOnlyWhenOut, MintedYoung, CachedBehind,
         LongTokensServedLive, ShortTokensServedLate, Fresh

\* What the cache keeps of a token's lifetime.
LEMMA KeptBounds ==
  ASSUME NEW says \in Nat
  PROVE  /\ Kept(says) \in Nat
         /\ says > 0 => Kept(says) = IF says > 2 * Skew THEN says - Skew ELSE says
  BY DEF Kept, Told

LEMMA OlderFields ==
  ASSUME NEW t \in Token \cup {None}
  PROVE  /\ Older(t) \in Token \cup {None}
         /\ Older(t) = None <=> t = None
         /\ t # None => /\ Older(t).says = t.says
                        /\ Older(t).left >= t.left - 1
  BY DEF Older

-----------------------------------------------------------------------------
\* A token younger than the timeout is one that may be served.
LEMMA MintedServable ==
  ASSUME IInv, minted # None, minted.says > 0
  PROVE  /\ minted.left >= minted.says - Timeout
         /\ minted.left > -Timeout
         /\ minted.says > 2 * Skew => minted.left > Skew - Timeout
  BY DEF IInv, TypeOK, CacheInv, MintedYoung

\* So is a fresh cached one.
LEMMA CachedServable ==
  ASSUME IInv, Fresh, token.says > 0
  PROVE  /\ token.left > -Timeout
         /\ token.says > 2 * Skew => token.left > Skew - Timeout
  BY DEF IInv, TypeOK, CacheInv, CachedBehind, Fresh

LEMMA TickInv == IInv /\ Tick => IInv'
<1> SUFFICES ASSUME IInv, Tick PROVE IInv'
  OBVIOUS
<1> USE DEF IInv, CacheInv, Tick
<1>1. /\ token' \in Token \cup {None} /\ (token' = None <=> token = None)
      /\ token # None => token'.says = token.says /\ token'.left >= token.left - 1
  BY OlderFields DEF TypeOK
<1>2. /\ minted' \in Token \cup {None} /\ (minted' = None <=> minted = None)
      /\ minted # None => minted'.says = minted.says /\ minted'.left >= minted.left - 1
  BY OlderFields DEF TypeOK
<1>3. TypeOK'
  BY <1>1, <1>2 DEF TypeOK
<1>4. OneFetch' /\ FetchOnlyWhenOut' /\ LongTokensServedLive' /\ ShortTokensServedLate'
  BY <1>1 DEF OneFetch, FetchOnlyWhenOut, LongTokensServedLive, ShortTokensServedLate, Fresh, TypeOK
<1>5. MintedYoung'
  BY <1>2 DEF MintedYoung, TypeOK
<1>6. CachedBehind'
  BY <1>1 DEF CachedBehind, Fresh, TypeOK
<1> QED BY <1>3, <1>4, <1>5, <1>6

LEMMA AskInv == ASSUME IInv, NEW h \in Callers, Ask(h) PROVE IInv'
  BY DEF IInv, CacheInv, Ask, TypeOK, OneFetch, FetchOnlyWhenOut, MintedYoung, CachedBehind,
         LongTokensServedLive, ShortTokensServedLate, Fresh

LEMMA ServeInv == ASSUME IInv, NEW h \in Callers, ServeCached(h) PROVE IInv'
<1> USE DEF IInv, CacheInv, ServeCached
<1>1. TypeOK' /\ OneFetch' /\ FetchOnlyWhenOut' /\ MintedYoung' /\ CachedBehind'
  BY DEF TypeOK, OneFetch, FetchOnlyWhenOut, MintedYoung, CachedBehind, Fresh
<1>2. LongTokensServedLive' /\ ShortTokensServedLate'
  BY CachedServable DEF TypeOK, LongTokensServedLive, ShortTokensServedLate
<1> QED BY <1>1, <1>2

LEMMA StartFetchInv == ASSUME IInv, NEW h \in Callers, StartFetch(h) PROVE IInv'
  BY DEF IInv, CacheInv, StartFetch, TypeOK, OneFetch, FetchOnlyWhenOut, MintedYoung, CachedBehind,
         LongTokensServedLive, ShortTokensServedLate, Fresh

LEMMA MintInv == ASSUME IInv, NEW h \in Callers, Mint(h) PROVE IInv'
<1> USE DEF IInv, CacheInv, Mint
<1>1. PICK says \in Lifetimes, life \in Lifetimes \ {0} :
          (says # 0 => life = says) /\ minted' = [says |-> says, left |-> life]
  OBVIOUS
<1>2. TypeOK'
  BY <1>1 DEF TypeOK
<1>3. mu = h /\ mu # None
  BY DEF OneFetch
<1>4. MintedYoung'
  BY <1>1, <1>3 DEF MintedYoung, TypeOK
<1>5. OneFetch' /\ FetchOnlyWhenOut' /\ CachedBehind' /\ LongTokensServedLive' /\ ShortTokensServedLate'
  BY DEF OneFetch, FetchOnlyWhenOut, CachedBehind, LongTokensServedLive, ShortTokensServedLate, Fresh
<1> QED BY <1>2, <1>4, <1>5

LEMMA UnlockKeeps ==
  ASSUME IInv, NEW h \in Callers, pc[h] = "fetch", Unlock(h)
  PROVE  /\ pc' \in [Callers -> Labels] /\ mu' = None /\ minted' = None /\ age' \in 0..Timeout
         /\ OneFetch' /\ FetchOnlyWhenOut' /\ MintedYoung'
  BY DEF IInv, TypeOK, CacheInv, Unlock, OneFetch, FetchOnlyWhenOut, MintedYoung

LEMMA AnswerInv == ASSUME IInv, NEW h \in Callers, Answer(h) PROVE IInv'
<1>0. pc[h] = "fetch" /\ Unlock(h)
  BY DEF Answer
<1>1. /\ pc' \in [Callers -> Labels] /\ mu' = None /\ minted' = None /\ age' \in 0..Timeout
      /\ OneFetch' /\ FetchOnlyWhenOut' /\ MintedYoung'
  BY <1>0, UnlockKeeps
<1> USE DEF IInv, CacheInv, Answer
<1>2. minted \in Token /\ minted.says \in Nat /\ minted.left \in Int
  BY DEF TypeOK
<1>3. TypeOK'
  BY <1>1, <1>2, KeptBounds DEF TypeOK
<1>4. LongTokensServedLive' /\ ShortTokensServedLate'
  BY <1>2, MintedServable DEF TypeOK, LongTokensServedLive, ShortTokensServedLate
<1>5. CachedBehind'
  <2>1. minted.says > 0 =>
          /\ keep' = IF minted.says > 2 * Skew THEN minted.says - Skew ELSE minted.says
          /\ minted.left >= minted.says - Timeout
    BY <1>2, KeptBounds, MintedServable
  <2> QED BY <1>2, <2>1 DEF CachedBehind
<1> QED BY <1>1, <1>3, <1>4, <1>5

LEMMA FailInv == ASSUME IInv, NEW h \in Callers, FetchFails(h) PROVE IInv'
<1>1. pc[h] = "fetch" /\ Unlock(h) /\ UNCHANGED <<token, keep, served>>
  BY DEF FetchFails
<1>2. /\ pc' \in [Callers -> Labels] /\ mu' = None /\ minted' = None /\ age' \in 0..Timeout
      /\ OneFetch' /\ FetchOnlyWhenOut' /\ MintedYoung'
  BY <1>1, UnlockKeeps
<1> QED BY <1>1, <1>2 DEF IInv, TypeOK, CacheInv, CachedBehind, LongTokensServedLive,
                          ShortTokensServedLate, Fresh

LEMMA StutterInv == IInv /\ UNCHANGED vars => IInv'
  BY DEF vars, IInv, CacheInv, TypeOK, OneFetch, FetchOnlyWhenOut, MintedYoung, CachedBehind,
         LongTokensServedLive, ShortTokensServedLate, Fresh

LEMMA Invariance == Spec => []IInv
<1>1. IInv /\ [Next]_vars => IInv'
  BY TickInv, AskInv, ServeInv, StartFetchInv, MintInv, AnswerInv, FailInv, StutterInv
  DEF Next, Enter
<1> QED BY <1>1, InitInv, PTL DEF Spec

-----------------------------------------------------------------------------
(* The theorems. *)

\* Every variable of the cache keeps its type.
THEOREM TypeCorrect == Spec => []TypeOK
<1>1. IInv => TypeOK
  BY DEF IInv
<1> QED BY <1>1, Invariance, PTL

\* A token told to live more than twice the skew is handed out with at least
\* the skew less the HTTP timeout to go, whoever fetched it and however slowly.
THEOREM LongTokensLive == Spec => []LongTokensServedLive
<1>1. IInv => LongTokensServedLive
  BY DEF IInv, CacheInv
<1> QED BY <1>1, Invariance, PTL

\* A shorter one is handed out less than the HTTP timeout after its end.
THEOREM ShortTokensLate == Spec => []ShortTokensServedLate
<1>1. IInv => ShortTokensServedLate
  BY DEF IInv, CacheInv
<1> QED BY <1>1, Invariance, PTL

\* A caller that waited for another's fetch does not fetch again: a fetch ends
\* while the cached token it replaces is still out.
THEOREM NoNeedlessFetch == Spec => ReplacedOnlyWhenOut
<1>1. IInv /\ [Next]_vars => [(\E h \in Callers : Fetched(h)) => ~Fresh]_vars
  <2> SUFFICES ASSUME IInv, NEW h \in Callers, pc[h] = "fetch" PROVE ~Fresh
    BY DEF Fetched
  <2> QED BY DEF IInv, CacheInv, OneFetch, FetchOnlyWhenOut
<1> QED BY <1>1, Invariance, PTL DEF Spec, ReplacedOnlyWhenOut
=============================================================================
