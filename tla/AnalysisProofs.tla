----------------------------- MODULE AnalysisProofs -----------------------------
(***************************************************************************)
(* What holds of an analysis for any agent, tools, blocks, results and     *)
(* limits.  The answer ends on the block the agent said last because the   *)
(* three ways to take a text in come to one (ReceivedHolds); the ledger    *)
(* holds the first result of each tool and text, whether an event carries  *)
(* one result or all (ToolReturnsSteps); and what is published is governed *)
(* by that ledger (ParseHolds), so that a refusal in it bounds the         *)
(* confidence (DenialIsRetrieved, DenialGoverns).  What Distinct computes  *)
(* is shown by induction, over a set of naturals.                          *)
(***************************************************************************)
EXTENDS AnalysisStream, WellFoundedInduction, SequenceTheorems, TLAPS

-----------------------------------------------------------------------------
(* Induction, and the greatest of a set. *)

LEMMA LeastOf ==
    ASSUME NEW S, S \subseteq Nat, S # {}
    PROVE  \E i \in S : \A j \in S : i <= j
  <1> DEFINE R == {ss \in Nat \X Nat : ss[1] < ss[2]}
  <1>1. IsWellFoundedOn(R, Nat)
    BY NatLessThanWellFounded DEF OpToRel
  <1> HIDE DEF R
  <1>2. PICK i \in S : \A j \in S : <<j, i>> \notin R
    BY <1>1, WFMin
  <1>3. ASSUME NEW j \in S PROVE i <= j
    <2>1. i \in Nat /\ j \in Nat /\ <<j, i>> \notin R
      BY <1>2
    <2>2. <<j, i>> \in R <=> j < i
      BY <2>1 DEF R
    <2> QED
      BY <2>1, <2>2
  <1> QED
    BY <1>3

\* Induction, over a set of naturals.
LEMMA UpFromZero ==
    ASSUME NEW S, 0 \in S, \A n \in Nat : n \in S => n + 1 \in S
    PROVE  \A n \in Nat : n \in S
  <1> SUFFICES ASSUME Nat \ S # {} PROVE FALSE
    OBVIOUS
  <1>1. PICK i \in Nat \ S : \A j \in Nat \ S : i <= j
    <2> DEFINE Out == Nat \ S
    <2>1. Out \subseteq Nat /\ Out # {}
      OBVIOUS
    <2> HIDE DEF Out
    <2>2. \E i \in Out : \A j \in Out : i <= j
      BY <2>1, LeastOf
    <2> QED
      BY <2>2 DEF Out
  <1>2. i # 0 /\ i - 1 \in Nat /\ i - 1 \in S
    BY <1>1
  <1> QED
    BY <1>1, <1>2

LEMMA MaxOf ==
    ASSUME NEW S, NEW n \in Nat, S \subseteq 0 .. n, S # {}
    PROVE  Max(S) \in S /\ \A k \in S : k <= Max(S)
  <1> DEFINE Above == {i \in Nat : \A k \in S : k <= i}
  <1>1. Above \subseteq Nat /\ n \in Above
    OBVIOUS
  <1> HIDE DEF Above
  <1>2. PICK i \in Above : \A j \in Above : i <= j
    BY <1>1, LeastOf
  <1>3. i \in Nat /\ \A k \in S : k <= i
    BY <1>2 DEF Above
  <1>4. i \in S
    <2> SUFFICES ASSUME i \notin S PROVE FALSE
      OBVIOUS
    <2>1. PICK k \in S : TRUE
      OBVIOUS
    <2>2. i - 1 \in Nat
      BY <1>3, <2>1
    <2>3. \A m \in S : m <= i - 1
      BY <1>3
    <2>4. i - 1 \in Above
      BY <2>2, <2>3 DEF Above
    <2> QED
      BY <1>2, <1>3, <2>2, <2>4
  <1>5. \E m \in S : \A k \in S : m >= k
    BY <1>3, <1>4
  <1>6. Max(S) \in S /\ \A k \in S : Max(S) >= k
    BY <1>5 DEF Max
  <1> QED
    BY <1>6

-----------------------------------------------------------------------------
(* Distinct. *)

\* u is found with one entry of s after the other, as far as the n-th.
Recursion(u, found, s, key, n) ==
    u = [k \in 0 .. n |-> IF k = 0 THEN found ELSE Joined(u[k - 1], s[k], key)]

LEMMA DistinctIsRecursive ==
    ASSUME NEW found, NEW s, NEW key, Len(s) \in Nat
    PROVE  \E u : Recursion(u, found, s, key, Len(s)) /\ Distinct(found, s, key) = u[Len(s)]
  <1> DEFINE Recurs(u, n) == u = [k \in 0 .. n |-> IF k = 0 THEN found ELSE Joined(u[k - 1], s[k], key)]
             N == {n \in Nat : \E u : Recurs(u, n)}
  <1>1. 0 \in N
    <2> DEFINE u == [k \in 0 .. 0 |-> found]
    <2>1. Recurs(u, 0)
      OBVIOUS
    <2> QED
      BY <2>1
  <1>2. ASSUME NEW n \in Nat, n \in N PROVE n + 1 \in N
    <2>1. PICK u : Recurs(u, n)
      BY <1>2
    <2> DEFINE v == [k \in 0 .. n + 1 |-> IF k = n + 1 THEN Joined(u[n], s[n + 1], key) ELSE u[k]]
    <2>2. ASSUME NEW k \in 0 .. n + 1
          PROVE  v[k] = IF k = 0 THEN found ELSE Joined(v[k - 1], s[k], key)
      <3>1. CASE k = n + 1
        <4>1. v[k] = Joined(u[n], s[n + 1], key) /\ v[k - 1] = u[n] /\ k # 0
          BY <3>1
        <4> QED
          BY <3>1, <4>1
      <3>2. CASE k = 0
        <4>1. v[k] = u[0] /\ u[0] = found
          BY <2>1, <3>2
        <4> QED
          BY <3>2, <4>1
      <3>3. CASE k # 0 /\ k # n + 1
        <4>1. k \in 0 .. n /\ k - 1 \in 0 .. n
          BY <3>3
        <4>2. v[k] = u[k] /\ v[k - 1] = u[k - 1]
          BY <3>3, <4>1
        <4>3. u[k] = Joined(u[k - 1], s[k], key)
          BY <2>1, <3>3, <4>1
        <4> QED
          BY <3>3, <4>2, <4>3
      <3> QED
        BY <3>1, <3>2, <3>3
    <2>3. v = [k \in 0 .. n + 1 |-> v[k]]
      OBVIOUS
    <2> HIDE DEF v
    <2>4. Recurs(v, n + 1)
      BY <2>2, <2>3
    <2> QED
      BY <2>4
  <1>3. Len(s) \in N
    <2> HIDE DEF N
    <2> QED
      BY <1>1, <1>2, UpFromZero
  <1> DEFINE upTo == CHOOSE u : Recurs(u, Len(s))
  <1>4. Recurs(upTo, Len(s))
    <2>1. \E u : Recurs(u, Len(s))
      BY <1>3
    <2> QED
      BY <2>1
  <1>5. Distinct(found, s, key) = upTo[Len(s)]
    BY DEF Distinct
  <1> HIDE DEF upTo
  <1> QED
    BY <1>4, <1>5 DEF Recursion

\* One entry of each key.
KeysDiffer(s, key) == \A i, j \in DOMAIN s : key[s[i]] = key[s[j]] => i = j

\* What Joined makes of a list all of whose entries have a key.
LEMMA JoinedHolds ==
    ASSUME NEW T, NEW before \in Seq(T), NEW e \in T, NEW key,
           \A i \in DOMAIN before : before[i] \in DOMAIN key, KeysDiffer(before, key)
    PROVE  LET d == Joined(before, e, key)
           IN  /\ d \in Seq(T)
               /\ \A i \in DOMAIN d : d[i] \in DOMAIN key
               /\ KeysDiffer(d, key)
               /\ \A i \in DOMAIN before : i \in DOMAIN d /\ d[i] = before[i]
               /\ \A i \in DOMAIN d : d[i] = e \/ \E j \in DOMAIN before : d[i] = before[j]
               /\ e \in DOMAIN key => \E i \in DOMAIN d : key[d[i]] = key[e]
               /\ e \in DOMAIN key /\ (\A i \in DOMAIN before : key[before[i]] # key[e])
                    => \E i \in DOMAIN d : d[i] = e
  <1> DEFINE d == Joined(before, e, key)
  <1>1. CASE e \in DOMAIN key /\ \A i \in DOMAIN before : key[before[i]] # key[e]
    <2>1. d = Append(before, e)
      BY <1>1 DEF Joined
    <2> HIDE DEF d
    <2>2. /\ d \in Seq(T) /\ Len(d) = Len(before) + 1 /\ d[Len(d)] = e
          /\ \A i \in 1 .. Len(before) : d[i] = before[i]
      BY <2>1
    <2>3. DOMAIN before = 1 .. Len(before) /\ DOMAIN d = 1 .. Len(d) /\ Len(before) \in Nat
      BY <2>2
    <2>4. KeysDiffer(d, key)
      <3> SUFFICES ASSUME NEW i \in DOMAIN d, NEW j \in DOMAIN d, key[d[i]] = key[d[j]] PROVE i = j
        BY DEF KeysDiffer
      <3>1. \/ i \in DOMAIN before /\ j \in DOMAIN before
            \/ i \in DOMAIN before /\ j = Len(d)
            \/ i = Len(d) /\ j \in DOMAIN before
            \/ i = Len(d) /\ j = Len(d)
        BY <2>2, <2>3
      <3> QED
        BY <3>1, <1>1, <2>2, <2>3 DEF KeysDiffer
    <2>5. \A i \in DOMAIN d : d[i] \in DOMAIN key /\ (d[i] = e \/ \E j \in DOMAIN before : d[i] = before[j])
      <3> SUFFICES ASSUME NEW i \in DOMAIN d
                   PROVE  d[i] \in DOMAIN key /\ (d[i] = e \/ \E j \in DOMAIN before : d[i] = before[j])
        OBVIOUS
      <3>1. i \in DOMAIN before \/ i = Len(d)
        BY <2>2, <2>3
      <3> QED
        BY <3>1, <1>1, <2>2, <2>3
    <2>6. \A i \in DOMAIN before : i \in DOMAIN d /\ d[i] = before[i]
      BY <2>2, <2>3
    <2>7. Len(d) \in DOMAIN d
      BY <2>2, <2>3
    <2>8. \E i \in DOMAIN d : d[i] = e
      BY <2>2, <2>7
    <2> QED
      BY <2>2, <2>4, <2>5, <2>6, <2>8 DEF d
  <1>2. CASE ~(e \in DOMAIN key /\ \A i \in DOMAIN before : key[before[i]] # key[e])
    <2>1. d = before
      BY <1>2 DEF Joined
    <2> QED
      BY <1>2, <2>1
  <1> QED
    BY <1>1, <1>2

\* d is found and what s has of new keys: an entry each, the first with its key.
Extends(d, found, s, key) ==
    /\ \A i \in DOMAIN d : d[i] \in DOMAIN key
    /\ KeysDiffer(d, key)
    /\ \A i \in DOMAIN found : i \in DOMAIN d /\ d[i] = found[i]
    /\ \A i \in DOMAIN d : (\E j \in DOMAIN found : d[i] = found[j]) \/ (\E j \in DOMAIN s : d[i] = s[j])
    /\ \A k \in DOMAIN s : s[k] \in DOMAIN key => \E i \in DOMAIN d : key[d[i]] = key[s[k]]
    /\ \A k \in DOMAIN s :
         (/\ s[k] \in DOMAIN key
          /\ \A i \in DOMAIN found : key[found[i]] # key[s[k]]
          /\ \A j \in 1 .. k - 1 : key[s[j]] # key[s[k]])
         => \E i \in DOMAIN d : d[i] = s[k]

LEMMA DistinctHolds ==
    ASSUME NEW T, NEW found \in Seq(T), NEW s \in Seq(T), NEW key,
           \A i \in DOMAIN found : found[i] \in DOMAIN key, KeysDiffer(found, key),
           NEW d, d = Distinct(found, s, key)
    PROVE  d \in Seq(T) /\ Extends(d, found, s, key)
  <1>1. Len(s) \in Nat /\ DOMAIN s = 1 .. Len(s)
    OBVIOUS
  <1>2. PICK u : Recursion(u, found, s, key, Len(s)) /\ Distinct(found, s, key) = u[Len(s)]
    BY <1>1, DistinctIsRecursive
  <1>3. u[0] = found
    BY <1>1, <1>2 DEF Recursion
  <1>4. ASSUME NEW k \in 1 .. Len(s) PROVE u[k] = Joined(u[k - 1], s[k], key)
    <2>1. k \in 0 .. Len(s) /\ k # 0
      BY <1>1
    <2> QED
      BY <1>2, <2>1 DEF Recursion
  \* What Distinct promises, of the entries up to n.
  <1> DEFINE Typed(n) == /\ u[n] \in Seq(T)
                         /\ \A i \in DOMAIN u[n] : u[n][i] \in DOMAIN key
                         /\ KeysDiffer(u[n], key)
             Keeps(n) == \A i \in DOMAIN found : i \in DOMAIN u[n] /\ u[n][i] = found[i]
             Adds(n) == \A i \in DOMAIN u[n] : \/ \E j \in DOMAIN found : u[n][i] = found[j]
                                               \/ \E j \in 1 .. n : u[n][i] = s[j]
             Covers(n) == \A k \in 1 .. n : s[k] \in DOMAIN key => \E i \in DOMAIN u[n] : key[u[n][i]] = key[s[k]]
             New(k) == /\ s[k] \in DOMAIN key
                       /\ \A i \in DOMAIN found : key[found[i]] # key[s[k]]
                       /\ \A j \in 1 .. k - 1 : key[s[j]] # key[s[k]]
             Takes(n) == \A k \in 1 .. n : New(k) => \E i \in DOMAIN u[n] : u[n][i] = s[k]
             Good(n) == Typed(n) /\ Keeps(n) /\ Adds(n) /\ Covers(n) /\ Takes(n)
             N == {n \in Nat : n <= Len(s) => Good(n)}
  <1>5. Good(0)
    BY <1>3
  <1>6. ASSUME NEW n \in Nat, n + 1 <= Len(s), Good(n) PROVE Good(n + 1)
    <2> DEFINE m == n + 1
               c == u[m]
               b == u[n]
               e == s[m]
    <2>1. m \in 1 .. Len(s) /\ m - 1 = n
      BY <1>1, <1>6
    <2>2. c = Joined(b, e, key)
      BY <1>4, <2>1
    <2>3. e \in T /\ b \in Seq(T)
      BY <1>6, <2>1
    <2>4. /\ c \in Seq(T)
          /\ \A i \in DOMAIN c : c[i] \in DOMAIN key
          /\ KeysDiffer(c, key)
          /\ \A i \in DOMAIN b : i \in DOMAIN c /\ c[i] = b[i]
          /\ \A i \in DOMAIN c : c[i] = e \/ \E j \in DOMAIN b : c[i] = b[j]
          /\ e \in DOMAIN key => \E i \in DOMAIN c : key[c[i]] = key[e]
          /\ e \in DOMAIN key /\ (\A i \in DOMAIN b : key[b[i]] # key[e]) => \E i \in DOMAIN c : c[i] = e
      <3>1. (\A i \in DOMAIN b : b[i] \in DOMAIN key) /\ KeysDiffer(b, key)
        BY <1>6
      <3> HIDE DEF c, b, e
      <3> QED
        BY <2>2, <2>3, <3>1, JoinedHolds
    <2>5. \A k \in 1 .. m : k \in 1 .. n \/ k = m
      BY <2>1
    <2>6. Typed(m)
      BY <2>4
    <2>7. Keeps(m)
      BY <1>6, <2>4
    <2>8. Adds(m)
      <3> SUFFICES ASSUME NEW i \in DOMAIN c
                   PROVE  \/ \E j \in DOMAIN found : c[i] = found[j]
                          \/ \E j \in 1 .. m : c[i] = s[j]
        OBVIOUS
      <3>1. m \in 1 .. m /\ \A j \in 1 .. n : j \in 1 .. m
        BY <2>1
      <3>2. CASE c[i] = e
        BY <3>1, <3>2
      <3>3. CASE \E j \in DOMAIN b : c[i] = b[j]
        <4>1. PICK j \in DOMAIN b : c[i] = b[j]
          BY <3>3
        <4>2. (\E f \in DOMAIN found : b[j] = found[f]) \/ (\E f \in 1 .. n : b[j] = s[f])
          BY <1>6
        <4> HIDE DEF c, b, m
        <4> QED
          BY <3>1, <4>1, <4>2
      <3> QED
        BY <3>2, <3>3, <2>4
    <2>9. Covers(m)
      <3> SUFFICES ASSUME NEW k \in 1 .. m, s[k] \in DOMAIN key PROVE \E i \in DOMAIN c : key[c[i]] = key[s[k]]
        OBVIOUS
      <3>1. CASE k = m
        BY <3>1, <2>4
      <3>2. CASE k \in 1 .. n
        <4>1. PICK i \in DOMAIN b : key[b[i]] = key[s[k]]
          BY <3>2, <1>6
        <4> QED
          BY <4>1, <2>4
      <3> QED
        BY <3>1, <3>2, <2>5
    <2>10. Takes(m)
      <3> SUFFICES ASSUME NEW k \in 1 .. m, New(k) PROVE \E i \in DOMAIN c : c[i] = s[k]
        OBVIOUS
      <3>1. CASE k = m
        <4>1. ASSUME NEW i \in DOMAIN b PROVE key[b[i]] # key[e]
          <5>1. (\E j \in DOMAIN found : b[i] = found[j]) \/ (\E j \in 1 .. n : b[i] = s[j])
            BY <1>6
          <5>2. n = k - 1
            BY <2>1, <3>1
          <5> QED
            BY <3>1, <5>1, <5>2
        <4> QED
          BY <3>1, <4>1, <2>4
      <3>2. CASE k \in 1 .. n
        <4>1. PICK i \in DOMAIN b : b[i] = s[k]
          BY <3>2, <1>6
        <4> QED
          BY <4>1, <2>4
      <3> QED
        BY <3>1, <3>2, <2>5
    <2> QED
      BY <2>6, <2>7, <2>8, <2>9, <2>10
  <1> HIDE DEF Good
  <1>7. 0 \in N /\ \A n \in Nat : n \in N => n + 1 \in N
    BY <1>1, <1>5, <1>6
  <1> HIDE DEF N
  <1>8. Len(s) \in N
    BY <1>1, <1>7, UpFromZero
  <1>9. Good(Len(s))
    BY <1>1, <1>8 DEF N
  <1>10. d = u[Len(s)]
    BY <1>2
  <1>11. Typed(Len(s)) /\ Keeps(Len(s)) /\ Adds(Len(s)) /\ Covers(Len(s)) /\ Takes(Len(s))
    BY <1>9 DEF Good
  <1>12. /\ d \in Seq(T) /\ KeysDiffer(d, key)
         /\ \A i \in DOMAIN d : d[i] \in DOMAIN key
    BY <1>10, <1>11
  <1>13. \A i \in DOMAIN found : i \in DOMAIN d /\ d[i] = found[i]
    BY <1>10, <1>11
  <1>14. ASSUME NEW i \in DOMAIN d
         PROVE  (\E j \in DOMAIN found : d[i] = found[j]) \/ (\E j \in DOMAIN s : d[i] = s[j])
    <2>1. (\E j \in DOMAIN found : d[i] = found[j]) \/ (\E j \in 1 .. Len(s) : d[i] = s[j])
      <3>1. Adds(Len(s))
        BY <1>11
      <3> QED
        BY ONLY <3>1, <1>10, i \in DOMAIN d
    <2> QED
      BY <1>1, <2>1
  <1>15. \A k \in DOMAIN s : s[k] \in DOMAIN key => \E i \in DOMAIN d : key[d[i]] = key[s[k]]
    BY <1>1, <1>10, <1>11
  <1>16. \A k \in DOMAIN s : New(k) => \E i \in DOMAIN d : d[i] = s[k]
    BY <1>1, <1>10, <1>11
  <1> HIDE DEF Typed, Keeps, Adds, Covers, Takes
  <1> QED
    BY <1>12, <1>13, <1>14, <1>15, <1>16 DEF Extends, New

-----------------------------------------------------------------------------
(* The answer. *)

LEMMA BlocksAreSequence == Len(Blocks) \in Nat /\ DOMAIN Blocks = 1 .. Len(Blocks)
  BY StreamAssumption DEF StreamAssumption

\* The last piece of s that is no prose is b.
EndsOn(s, b) ==
    \/ b = 0 /\ \A k \in 1 .. Len(s) : s[k] = 0
    \/ \E k \in 1 .. Len(s) : s[k] = b /\ b # 0 /\ \A j \in k + 1 .. Len(s) : s[j] = 0

LEMMA LastBlockEnds ==
    ASSUME NEW s \in Seq(Pieces)
    PROVE  EndsOn(s, LastBlock(s)) /\ \A b : EndsOn(s, b) => LastBlock(s) = b
  <1> DEFINE blocks == {k \in DOMAIN s : s[k] # 0}
             m == Max(blocks)
  <1>1. DOMAIN s = 1 .. Len(s) /\ Len(s) \in Nat
    OBVIOUS
  <1>2. blocks \subseteq 0 .. Len(s)
    BY <1>1
  <1>3. EndsOn(s, LastBlock(s))
    <2>1. CASE blocks = {}
      BY <1>1, <2>1 DEF LastBlock, EndsOn
    <2>2. CASE blocks # {}
      <3>1. LastBlock(s) = s[m]
        BY <2>2 DEF LastBlock
      <3> HIDE DEF m
      <3>2. m \in blocks /\ \A k \in blocks : k <= m
        <4> HIDE DEF blocks
        <4> QED
          BY <1>1, <1>2, <2>2, MaxOf DEF m
      <3>3. m \in 1 .. Len(s) /\ s[m] # 0 /\ \A j \in m + 1 .. Len(s) : s[j] = 0
        BY <1>1, <3>2
      <3> QED
        BY <3>1, <3>3 DEF EndsOn
    <2> QED
      BY <2>1, <2>2
  <1>4. ASSUME NEW a, NEW b, EndsOn(s, a), EndsOn(s, b) PROVE a = b
    <2>1. CASE a = 0
      BY <1>4, <2>1 DEF EndsOn
    <2>2. CASE b = 0
      BY <1>4, <2>2 DEF EndsOn
    <2>3. CASE a # 0 /\ b # 0
      <3>1. PICK k \in 1 .. Len(s) : s[k] = a /\ \A j \in k + 1 .. Len(s) : s[j] = 0
        BY <1>4, <2>3 DEF EndsOn
      <3>2. PICK i \in 1 .. Len(s) : s[i] = b /\ \A j \in i + 1 .. Len(s) : s[j] = 0
        BY <1>4, <2>3 DEF EndsOn
      <3>3. ~(k < i) /\ ~(i < k)
        BY <1>1, <2>3, <3>1, <3>2
      <3> QED
        BY <1>1, <3>1, <3>2, <3>3
    <2> QED
      BY <2>1, <2>2, <2>3
  <1> QED
    BY <1>3, <1>4

\* The last block of two texts, one after the other.
Then(a, b) == IF b # 0 THEN b ELSE a

LEMMA LastBlockOfConcat ==
    ASSUME NEW s \in Seq(Pieces), NEW t \in Seq(Pieces)
    PROVE  LastBlock(s \o t) = Then(LastBlock(s), LastBlock(t))
  <1> DEFINE st == s \o t
  <1>1. /\ st \in Seq(Pieces) /\ Len(st) = Len(s) + Len(t) /\ Len(s) \in Nat /\ Len(t) \in Nat
        /\ \A k \in 1 .. Len(s) : st[k] = s[k]
        /\ \A k \in Len(s) + 1 .. Len(st) : st[k] = t[k - Len(s)]
    OBVIOUS
  <1>2. EndsOn(s, LastBlock(s)) /\ EndsOn(t, LastBlock(t))
    BY LastBlockEnds
  <1> HIDE DEF st
  <1>3. CASE LastBlock(t) = 0
    <2>1. \A k \in 1 .. Len(t) : t[k] = 0
      BY <1>2, <1>3 DEF EndsOn
    <2>2. \A k \in Len(s) + 1 .. Len(st) : st[k] = 0
      <3> SUFFICES ASSUME NEW k \in Len(s) + 1 .. Len(st) PROVE st[k] = 0
        OBVIOUS
      <3>1. k - Len(s) \in 1 .. Len(t)
        BY <1>1
      <3> QED
        BY <1>1, <2>1, <3>1
    <2>3. EndsOn(st, LastBlock(s))
      <3>1. CASE LastBlock(s) = 0 /\ \A k \in 1 .. Len(s) : s[k] = 0
        <4>1. ASSUME NEW k \in 1 .. Len(st) PROVE st[k] = 0
          <5>1. k \in 1 .. Len(s) \/ k \in Len(s) + 1 .. Len(st)
            BY <1>1
          <5> QED
            BY <5>1, <3>1, <1>1, <2>2
        <4> QED
          BY <3>1, <4>1 DEF EndsOn
      <3>2. CASE \E k \in 1 .. Len(s) : s[k] = LastBlock(s) /\ LastBlock(s) # 0 /\ \A j \in k + 1 .. Len(s) : s[j] = 0
        <4>1. PICK k \in 1 .. Len(s) : s[k] = LastBlock(s) /\ LastBlock(s) # 0 /\ \A j \in k + 1 .. Len(s) : s[j] = 0
          BY <3>2
        <4>2. k \in 1 .. Len(st) /\ st[k] = LastBlock(s)
          BY <1>1, <4>1
        <4>3. ASSUME NEW j \in k + 1 .. Len(st) PROVE st[j] = 0
          <5>1. j \in k + 1 .. Len(s) \/ j \in Len(s) + 1 .. Len(st)
            BY <1>1
          <5>2. j \in k + 1 .. Len(s) => j \in 1 .. Len(s)
            BY <1>1
          <5> QED
            BY <5>1, <5>2, <4>1, <1>1, <2>2
        <4> QED
          BY <4>1, <4>2, <4>3 DEF EndsOn
      <3> QED
        BY <1>2, <3>1, <3>2 DEF EndsOn
    <2>4. LastBlock(st) = LastBlock(s)
      BY <1>1, <2>3, LastBlockEnds
    <2> QED
      BY <1>3, <2>4 DEF Then, st
  <1>4. CASE LastBlock(t) # 0
    <2>1. PICK k \in 1 .. Len(t) : t[k] = LastBlock(t) /\ \A j \in k + 1 .. Len(t) : t[j] = 0
      BY <1>2, <1>4 DEF EndsOn
    <2> DEFINE i == Len(s) + k
    <2>2. i \in 1 .. Len(st) /\ st[i] = t[k]
      <3>1. i \in Len(s) + 1 .. Len(st) /\ i \in 1 .. Len(st) /\ i - Len(s) = k
        BY <1>1
      <3> QED
        BY <1>1, <3>1
    <2>3. ASSUME NEW j \in i + 1 .. Len(st) PROVE st[j] = 0
      <3>1. j \in Len(s) + 1 .. Len(st) /\ j - Len(s) \in k + 1 .. Len(t)
        BY <1>1
      <3> QED
        BY <1>1, <2>1, <3>1
    <2> HIDE DEF i
    <2>4. EndsOn(st, LastBlock(t))
      BY <1>4, <2>1, <2>2, <2>3 DEF EndsOn
    <2>5. LastBlock(st) = LastBlock(t)
      BY <1>1, <2>4, LastBlockEnds
    <2> QED
      BY <1>4, <2>5 DEF Then, st
  <1> QED
    BY <1>3, <1>4

LEMMA LastBlockOfOne == \A p \in Pieces : <<p>> \in Seq(Pieces) /\ LastBlock(<<p>>) = p
  <1> SUFFICES ASSUME NEW p \in Pieces PROVE <<p>> \in Seq(Pieces) /\ LastBlock(<<p>>) = p
    OBVIOUS
  <1>1. <<p>> \in Seq(Pieces) /\ Len(<<p>>) = 1 /\ <<p>>[1] = p
    OBVIOUS
  <1>2. EndsOn(<<p>>, p)
    <2>1. \A k \in 1 .. 1 : k = 1
      OBVIOUS
    <2>2. \A k \in 1 + 1 .. 1 : FALSE
      OBVIOUS
    <2> QED
      BY <1>1, <2>1, <2>2 DEF EndsOn
  <1> QED
    BY <1>1, <1>2, LastBlockEnds

LEMMA PrefixSplits ==
    ASSUME NEW S, NEW s \in Seq(S), NEW t \in Seq(S), IsPrefix(s, t)
    PROVE  \E u \in Seq(S) : t = s \o u
  <1> DEFINE u == SubSeq(t, Len(s) + 1, Len(t))
  <1>1. Len(s) \in Nat /\ Len(t) \in Nat /\ Len(s) <= Len(t) /\ SubSeq(s, 1, Len(s)) = SubSeq(t, 1, Len(s))
    BY DEF IsPrefix
  <1>2. \A k \in 1 .. Len(s) : s[k] = t[k]
    <2>1. \A k \in 1 .. Len(s) : SubSeq(s, 1, Len(s))[k] = s[k] /\ SubSeq(t, 1, Len(s))[k] = t[k]
      BY <1>1
    <2> QED
      BY <1>1, <2>1
  <1>3. u \in Seq(S) /\ Len(u) = Len(t) - Len(s) /\ \A k \in 1 .. Len(u) : u[k] = t[Len(s) + k]
    BY <1>1
  <1> HIDE DEF u
  <1>4. s \o u \in Seq(S) /\ Len(s \o u) = Len(t)
    BY <1>1, <1>3
  <1>5. \A k \in 1 .. Len(t) : (s \o u)[k] = t[k]
    BY <1>1, <1>2, <1>3
  <1>6. s \o u = t
    BY <1>4, <1>5, SeqEqual
  <1> QED
    BY <1>3, <1>6

LEMMA SuffixSplits ==
    ASSUME NEW S, NEW s \in Seq(S), NEW t \in Seq(S), IsSuffix(s, t)
    PROVE  \E u \in Seq(S) : t = u \o s
  <1> DEFINE u == SubSeq(t, 1, Len(t) - Len(s))
             rs == Reverse(s)
             rt == Reverse(t)
  <1>1. Len(s) \in Nat /\ Len(t) \in Nat
    OBVIOUS
  <1>2. /\ rs \in Seq(S) /\ Len(rs) = Len(s) /\ \A k \in 1 .. Len(s) : rs[k] = s[Len(s) - k + 1]
        /\ rt \in Seq(S) /\ Len(rt) = Len(t) /\ \A k \in 1 .. Len(t) : rt[k] = t[Len(t) - k + 1]
    BY <1>1 DEF Reverse
  <1>3. IsPrefix(rs, rt)
    BY DEF IsSuffix
  <1> HIDE DEF rs, rt
  <1>4. PICK v \in Seq(S) : rt = rs \o v
    BY <1>2, <1>3, PrefixSplits
  <1>5. Len(s) <= Len(t) /\ \A k \in 1 .. Len(s) : rt[k] = rs[k]
    BY <1>2, <1>4
  <1>6. u \in Seq(S) /\ Len(u) = Len(t) - Len(s) /\ \A k \in 1 .. Len(u) : u[k] = t[k]
    BY <1>1, <1>5
  <1> HIDE DEF u
  <1>7. ASSUME NEW k \in 1 .. Len(s) PROVE t[Len(u) + k] = s[k]
    <2> DEFINE j == Len(s) - k + 1
    <2>1. j \in 1 .. Len(s) /\ j \in 1 .. Len(t) /\ Len(s) - j + 1 = k /\ Len(t) - j + 1 = Len(u) + k
      BY <1>1, <1>5, <1>6
    <2> HIDE DEF j
    <2>2. rs[j] = s[k] /\ rt[j] = t[Len(u) + k]
      BY <1>2, <2>1
    <2> QED
      BY <1>5, <2>1, <2>2
  <1>8. u \o s \in Seq(S) /\ Len(u \o s) = Len(t)
    BY <1>1, <1>5, <1>6
  <1>9. \A k \in 1 .. Len(t) : (u \o s)[k] = t[k]
    <2> SUFFICES ASSUME NEW k \in 1 .. Len(t) PROVE (u \o s)[k] = t[k]
      OBVIOUS
    <2>1. CASE k <= Len(u)
      BY <1>1, <1>6, <2>1
    <2>2. CASE k > Len(u)
      <3>1. k - Len(u) \in 1 .. Len(s) /\ Len(u) + (k - Len(u)) = k
        BY <1>1, <1>5, <1>6, <2>2
      <3>2. (u \o s)[k] = s[k - Len(u)]
        BY <1>1, <1>6, <2>2
      <3> QED
        BY <1>7, <3>1, <3>2
    <2> QED
      BY <1>1, <1>6, <2>1, <2>2
  <1>10. u \o s = t
    BY <1>8, <1>9, SeqEqual
  <1> QED
    BY <1>6, <1>10

\* Whether a text extends the answer, repeats its end, or is new, the answer goes on to end on the
\* text's last block, if it has one, and holds nothing that neither of them holds.
LEMMA ReceivedHolds ==
    ASSUME NEW text \in Seq(Pieces), out \in Seq(Pieces), NEW r, r = Received(text)
    PROVE  /\ r \in Seq(Pieces)
           /\ LastBlock(r) = Then(LastBlock(out), LastBlock(text))
           /\ ToSet(r) \subseteq ToSet(out) \cup ToSet(text)
  <1>1. CASE IsPrefix(out, text)
    <2>1. r = text
      BY <1>1 DEF Received
    <2>2. PICK u \in Seq(Pieces) : text = out \o u
      BY <1>1, PrefixSplits
    <2>3. LastBlock(text) = Then(LastBlock(out), LastBlock(u))
      BY <2>2, LastBlockOfConcat
    <2> QED
      BY <2>1, <2>3 DEF Then
  <1>2. CASE ~IsPrefix(out, text) /\ IsSuffix(text, out)
    <2>1. r = out
      BY <1>2 DEF Received
    <2>2. PICK u \in Seq(Pieces) : out = u \o text
      BY <1>2, SuffixSplits
    <2>3. LastBlock(out) = Then(LastBlock(u), LastBlock(text))
      BY <2>2, LastBlockOfConcat
    <2> QED
      BY <2>1, <2>3 DEF Then
  <1>3. CASE ~IsPrefix(out, text) /\ ~IsSuffix(text, out)
    <2>1. r = out \o text
      BY <1>3 DEF Received
    <2>2. LastBlock(r) = Then(LastBlock(out), LastBlock(text)) /\ r \in Seq(Pieces)
      BY <2>1, LastBlockOfConcat
    <2>3. ToSet(r) \subseteq ToSet(out) \cup ToSet(text)
      <3> SUFFICES ASSUME NEW k \in DOMAIN r PROVE r[k] \in ToSet(out) \cup ToSet(text)
        BY DEF ToSet
      <3>1. (k \in DOMAIN out /\ r[k] = out[k]) \/ (k - Len(out) \in DOMAIN text /\ r[k] = text[k - Len(out)])
        BY <2>1
      <3> QED
        BY <3>1 DEF ToSet
    <2> QED
      BY <2>2, <2>3
  <1> QED
    BY <1>1, <1>2, <1>3

AnswerTyped ==
    /\ mode \in {"snapshot", "delta"}
    /\ earlier \in Seq(Pieces) /\ current \in Seq(Pieces) /\ out \in Seq(Pieces)
    /\ Len(said) <= MaxPieces

OnlySaid == ToSet(out) \subseteq ToSet(said)

AnswerInv == AnswerTyped /\ OnlySaid /\ ConclusionKept /\ AnswerOnce

answerVars == <<mode, earlier, current, out>>

LEMMA ToSetOfConcat ==
    ASSUME NEW S, NEW s \in Seq(S), NEW t \in Seq(S)
    PROVE  ToSet(s \o t) = ToSet(s) \cup ToSet(t)
  <1> DEFINE st == s \o t
  <1>1. /\ st \in Seq(S) /\ Len(st) = Len(s) + Len(t) /\ Len(s) \in Nat /\ Len(t) \in Nat
        /\ \A k \in 1 .. Len(s) : st[k] = s[k]
        /\ \A k \in 1 .. Len(t) : st[Len(s) + k] = t[k]
    OBVIOUS
  <1>2. DOMAIN st = 1 .. Len(st) /\ DOMAIN s = 1 .. Len(s) /\ DOMAIN t = 1 .. Len(t)
    OBVIOUS
  <1> HIDE DEF st
  <1>3. ASSUME NEW k \in DOMAIN st PROVE st[k] \in ToSet(s) \cup ToSet(t)
    <2>1. CASE k \in 1 .. Len(s)
      BY <2>1, <1>1, <1>2 DEF ToSet
    <2>2. CASE k \notin 1 .. Len(s)
      <3>1. k - Len(s) \in 1 .. Len(t) /\ Len(s) + (k - Len(s)) = k
        BY <2>2, <1>1, <1>2
      <3> QED
        BY <3>1, <1>1, <1>2 DEF ToSet
    <2> QED
      BY <2>1, <2>2
  <1>4. ASSUME NEW k \in DOMAIN s PROVE s[k] \in ToSet(st)
    <2>1. k \in DOMAIN st /\ st[k] = s[k]
      BY <1>1, <1>2
    <2> QED
      BY <2>1 DEF ToSet
  <1>5. ASSUME NEW k \in DOMAIN t PROVE t[k] \in ToSet(st)
    <2>1. Len(s) + k \in DOMAIN st /\ st[Len(s) + k] = t[k]
      BY <1>1, <1>2
    <2> QED
      BY <2>1 DEF ToSet
  <1>6. ToSet(st) \subseteq ToSet(s) \cup ToSet(t)
    BY <1>3 DEF ToSet
  <1>7. ToSet(s) \cup ToSet(t) \subseteq ToSet(st)
    BY <1>4, <1>5 DEF ToSet
  <1> QED
    BY <1>6, <1>7 DEF st

\* What it is to say a piece more.
LEMMA OneMore ==
    ASSUME NEW S, NEW e \in Seq(S), NEW c \in Seq(S), NEW p \in S
    PROVE  /\ <<p>> \in Seq(S) /\ ToSet(<<p>>) = {p}
           /\ Append(c, p) = c \o <<p>> /\ Append(c, p) \in Seq(S)
           /\ (e \o c) \in Seq(S) /\ e \o Append(c, p) = (e \o c) \o <<p>>
           /\ e \o Append(c, p) \in Seq(S)
           /\ Len(c \o <<p>>) = Len(c) + 1 /\ (c \o <<p>>)[Len(c) + 1] = p
           /\ \A k \in 1 .. Len(c) : (c \o <<p>>)[k] = c[k]
           /\ IsPrefix(c, Append(c, p))
  <1>1. <<p>> \in Seq(S) /\ Len(<<p>>) = 1 /\ <<p>>[1] = p /\ DOMAIN <<p>> = 1 .. 1
    OBVIOUS
  <1>2. ToSet(<<p>>) = {p}
    BY <1>1 DEF ToSet
  <1>3. Append(c, p) = c \o <<p>>
    BY AppendIsConcat
  <1>4. /\ c \o <<p>> \in Seq(S) /\ Len(c \o <<p>>) = Len(c) + 1 /\ (c \o <<p>>)[Len(c) + 1] = p
        /\ \A k \in 1 .. Len(c) : (c \o <<p>>)[k] = c[k]
    BY <1>1
  <1>5. e \o (c \o <<p>>) = (e \o c) \o <<p>>
    BY <1>1, ConcatAssociative
  <1>6. e \o c \in Seq(S) /\ e \o (c \o <<p>>) \in Seq(S)
    BY <1>4, ConcatProperties
  <1>7. IsPrefix(c, c \o <<p>>)
    <2>1. SubSeq(c \o <<p>>, 1, Len(c)) = SubSeq(c, 1, Len(c))
      <3>1. CASE c = <<>>
        BY <3>1, SubSeqEmpty
      <3>2. CASE c # <<>>
        <4>1. Len(c) \in 1 .. Len(c) /\ 1 \in 1 .. Len(c)
          BY <3>2
        <4> QED
          BY <1>1, <4>1, SubSeqOfConcat1
      <3> QED
        BY <3>1, <3>2
    <2> QED
      BY <1>4, <2>1 DEF IsPrefix
  <1> QED
    BY <1>1, <1>2, <1>3, <1>4, <1>5, <1>6, <1>7

\* A list that begins, or ends with, a single piece.
LEMMA WithinOne ==
    ASSUME NEW S, NEW s \in Seq(S), NEW p \in S
    PROVE  /\ IsPrefix(s, <<p>>) => s \in {<<>>, <<p>>}
           /\ IsSuffix(<<p>>, s) => Len(s) \in 1 .. Len(s) /\ s[Len(s)] = p
  <1> DEFINE one == <<p>>
  <1>1. one \in Seq(S) /\ Len(one) = 1 /\ one[1] = p
    OBVIOUS
  <1>2. ASSUME IsPrefix(s, one) PROVE s \in {<<>>, one}
    <2> HIDE DEF one
    <2>1. PICK u \in Seq(S) : one = s \o u
      BY <1>1, <1>2, PrefixSplits
    <2>2. Len(s) \in Nat /\ Len(u) \in Nat /\ Len(s) + Len(u) = 1
      BY <1>1, <2>1, ConcatProperties
    <2>3. Len(s) < 1 => s = <<>>
      BY <2>2
    <2>4. Len(u) < 1 => one = s
      <3> SUFFICES ASSUME Len(u) < 1 PROVE one = s
        OBVIOUS
      <3>1. u = <<>> /\ s \o <<>> = s
        BY <2>2, ConcatEmptySeq
      <3> QED
        BY <2>1, <3>1
    <2>5. Len(s) < 1 \/ Len(u) < 1
      BY <2>2
    <2> QED
      BY <2>3, <2>4, <2>5
  <1>3. ASSUME IsSuffix(one, s) PROVE Len(s) \in 1 .. Len(s) /\ s[Len(s)] = p
    <2> HIDE DEF one
    <2>1. PICK u \in Seq(S) : s = u \o one
      BY <1>1, <1>3, SuffixSplits
    <2>2. Len(s) = Len(u) + 1 /\ Len(u) \in Nat
      <3>1. Len(u \o one) = Len(u) + Len(one)
        BY <1>1, ConcatProperties
      <3> QED
        BY <1>1, <2>1, <3>1
    <2>3. s[Len(u) + 1] = one[1]
      <3>1. \A i \in 1 .. Len(u) + Len(one) : (u \o one)[i] = IF i <= Len(u) THEN u[i] ELSE one[i - Len(u)]
        BY <1>1, ConcatProperties
      <3>2. Len(u) + 1 \in 1 .. Len(u) + Len(one) /\ ~(Len(u) + 1 <= Len(u)) /\ (Len(u) + 1) - Len(u) = 1
        BY <1>1, <2>2
      <3>3. (u \o one)[Len(u) + 1] = one[1]
        BY <3>1, <3>2
      <3> QED
        BY <2>1, <3>3
    <2>4. Len(s) \in 1 .. Len(s)
      BY <2>2
    <2>5. s[Len(s)] = one[1]
      BY <2>2, <2>3
    <2> QED
      BY <1>1, <2>4, <2>5
  <1> QED
    BY <1>2, <1>3

LEMMA EndsWithOne ==
    ASSUME NEW S, NEW s \in Seq(S), NEW p \in S
    PROVE  IsSuffix(<<p>>, s \o <<p>>)
  <1> DEFINE t == s \o <<p>>
             rt == Reverse(t)
             ro == Reverse(<<p>>)
  <1>1. t \in Seq(S) /\ Len(t) = Len(s) + 1 /\ t[Len(s) + 1] = p /\ Len(s) \in Nat
    OBVIOUS
  <1> HIDE DEF t
  <1>2. rt \in Seq(S) /\ Len(rt) = Len(s) + 1 /\ rt[1] = p
    BY <1>1 DEF Reverse
  <1>3. ro \in Seq(S) /\ Len(ro) = 1 /\ ro[1] = p
    BY DEF Reverse
  <1> HIDE DEF rt, ro
  <1>4. SubSeq(ro, 1, 1) = SubSeq(rt, 1, 1)
    <2>1. /\ SubSeq(ro, 1, 1) \in Seq(S) /\ Len(SubSeq(ro, 1, 1)) = 1 /\ SubSeq(ro, 1, 1)[1] = p
          /\ SubSeq(rt, 1, 1) \in Seq(S) /\ Len(SubSeq(rt, 1, 1)) = 1 /\ SubSeq(rt, 1, 1)[1] = p
      BY <1>1, <1>2, <1>3
    <2>2. \A k \in 1 .. 1 : k = 1
      OBVIOUS
    <2> QED
      BY <2>1, <2>2, SeqEqual
  <1>5. IsPrefix(ro, rt)
    BY <1>1, <1>2, <1>3, <1>4 DEF IsPrefix
  <1> QED
    BY <1>5 DEF IsSuffix, ro, rt, t

\* A piece more, put together whole or taken from its snapshot.
LEMMA SaySteps == ASSUME AnswerInv, NEW p \in Pieces, Say(p) PROVE AnswerInv'
  <1> DEFINE one == <<p>>
             text == IF mode = "snapshot" THEN current' ELSE one
  <1>1. /\ mode' = mode /\ earlier' = earlier /\ current' = Append(current, p)
        /\ out' = Received(text) /\ Len(said) < MaxPieces
    BY DEF Say
  <1>2. AnswerTyped /\ earlier \in Seq(Pieces) /\ current \in Seq(Pieces) /\ out \in Seq(Pieces)
    BY DEF AnswerInv, AnswerTyped
  <1>3. one \in Seq(Pieces) /\ LastBlock(one) = p /\ ToSet(one) = {p} /\ Len(one) = 1 /\ one[1] = p
    BY OneMore, LastBlockOfOne
  <1>4. current' = current \o one /\ current' \in Seq(Pieces) /\ IsPrefix(current, current')
    <2>1. Append(current, p) = current \o one /\ Append(current, p) \in Seq(Pieces) /\ IsPrefix(current, Append(current, p))
      BY <1>2, OneMore
    <2> QED
      BY <1>1, <2>1
  <1>5. said \in Seq(Pieces) /\ said' = said \o one /\ said' \in Seq(Pieces)
    <2>1. said' = earlier \o Append(current, p)
      BY <1>1 DEF said
    <2> QED
      BY <1>2, <2>1, OneMore DEF said
  <1>6. /\ Len(said') = Len(said) + 1 /\ Len(said) \in Nat /\ said'[Len(said) + 1] = p
         /\ \A k \in 1 .. Len(said) : said'[k] = said[k]
         /\ DOMAIN said = 1 .. Len(said) /\ DOMAIN said' = 1 .. Len(said')
    <2> DEFINE s == said
               t == said'
    <2>1. s \in Seq(Pieces) /\ t = s \o <<p>> /\ t \in Seq(Pieces)
      BY <1>5
    <2> HIDE DEF s, t
    <2>2. /\ Len(t) = Len(s) + 1 /\ Len(s) \in Nat /\ t[Len(s) + 1] = p
          /\ \A k \in 1 .. Len(s) : t[k] = s[k]
          /\ DOMAIN s = 1 .. Len(s) /\ DOMAIN t = 1 .. Len(t)
      BY <2>1, OneMore
    <2> QED
      BY <2>2 DEF s, t
  <1>7. text \in Seq(Pieces)
    BY <1>3, <1>4
  <1> HIDE DEF one, text
  <1>8. /\ out' \in Seq(Pieces) /\ LastBlock(out') = Then(LastBlock(out), LastBlock(text))
        /\ ToSet(out') \subseteq ToSet(out) \cup ToSet(text)
    BY <1>1, <1>2, <1>7, ReceivedHolds
  <1>9. AnswerTyped'
    BY <1>1, <1>2, <1>4, <1>5, <1>6, <1>8, StreamAssumption DEF AnswerTyped, StreamAssumption
  <1>10. /\ ToSet(said') = ToSet(said) \cup {p} /\ ToSet(current') = ToSet(current) \cup {p}
        /\ ToSet(current) \subseteq ToSet(said)
    <2>1. ToSet(said') = ToSet(said) \cup {p} /\ ToSet(current') = ToSet(current) \cup {p}
      BY <1>2, <1>3, <1>4, <1>5, ToSetOfConcat
    <2>2. ToSet(said) = ToSet(earlier) \cup ToSet(current)
      BY <1>2, ToSetOfConcat DEF said
    <2> QED
      BY <2>1, <2>2
  <1>11. OnlySaid'
    BY <1>3, <1>8, <1>10 DEF AnswerInv, OnlySaid, text
  <1>12. ConclusionKept'
    <2>1. LastBlock(said') = Then(LastBlock(said), p) /\ LastBlock(current') = Then(LastBlock(current), p)
      BY <1>2, <1>3, <1>4, <1>5, LastBlockOfConcat
    <2>2. LastBlock(said) = Then(LastBlock(earlier), LastBlock(current))
      BY <1>2, LastBlockOfConcat DEF said
    <2>3. LastBlock(out) = LastBlock(said)
      BY DEF AnswerInv, ConclusionKept
    <2>4. LastBlock(text) \in {p, Then(LastBlock(current), p)}
      BY <1>3, <2>1 DEF text
    <2>5. LastBlock(out') = LastBlock(said')
      BY <1>8, <2>1, <2>2, <2>3, <2>4 DEF Then
    <2> QED
      BY <2>5 DEF ConclusionKept
  <1>13. AnswerOnce'
    <2>1. CASE mode = "snapshot" /\ earlier = <<>>
      <3>1. said = current /\ said' = current'
        BY <1>1, <1>2, <1>4, <2>1 DEF said
      <3>2. out = current
        BY <2>1, <3>1 DEF AnswerInv, AnswerOnce
      <3>3. IsPrefix(out, text)
        BY <1>4, <2>1, <3>2 DEF text
      <3>4. out' = text
        BY <1>1, <3>3 DEF Received
      <3> QED
        BY <2>1, <3>1, <3>4, <1>1 DEF AnswerOnce, text
    <2>2. CASE mode = "delta" /\ IsInjective(said')
      <3>3. IsInjective(said) /\ \A k \in 1 .. Len(said) : said[k] # p
        <4> DEFINE s == said
                   t == said'
        <4>1. IsInjective(t) /\ Len(s) + 1 \in DOMAIN t /\ \A k \in DOMAIN s : k \in DOMAIN t /\ k # Len(s) + 1
          BY <1>6, <2>2
        <4>2. /\ \A k \in DOMAIN s : t[k] = s[k]
              /\ DOMAIN s = 1 .. Len(s) /\ t[Len(s) + 1] = p
          BY <1>6
        <4> HIDE DEF s, t
        <4>3. IsInjective(s) /\ \A k \in 1 .. Len(s) : s[k] # p
          BY <4>1, <4>2 DEF IsInjective
        <4> QED
          BY <4>3 DEF s
      <3>4. out = said
        BY <2>2, <3>3 DEF AnswerInv, AnswerOnce
      <3>6. text = one
        BY <2>2 DEF text
      <3>7. out' = said \o one
        <4>1. CASE IsPrefix(out, one)
          <5>1. out \in {<<>>, one}
            BY <1>2, <4>1, WithinOne DEF one
          <5>2. out # one
            <6>1. 1 \in 1 .. Len(one)
              BY <1>3
            <6> QED
              BY <1>3, <3>3, <3>4, <6>1
          <5>3. out = <<>>
            BY <5>1, <5>2
          <5>4. said \o one = one
            BY <1>3, <3>4, <5>3
          <5> QED
            BY <1>1, <3>6, <4>1, <5>4 DEF Received
        <4>2. CASE IsSuffix(one, out)
          <5>2. Len(out) \in 1 .. Len(out) /\ out[Len(out)] = p
            BY <1>2, <4>2, WithinOne DEF one
          <5> QED
            BY <3>3, <3>4, <5>2
        <4>3. CASE ~IsPrefix(out, one) /\ ~IsSuffix(one, out)
          BY <1>1, <3>4, <3>6, <4>3 DEF Received
        <4> QED
          BY <4>1, <4>2, <4>3
      <3> QED
        BY <1>5, <3>7 DEF AnswerOnce
    <2> QED
      BY <1>1, <2>1, <2>2 DEF AnswerOnce
  <1> QED
    BY <1>9, <1>11, <1>12, <1>13 DEF AnswerInv

LEMMA NotEmptyEnds ==
    ASSUME NEW S, NEW c \in Seq(S), c # <<>>
    PROVE  /\ Last(c) \in S /\ Last(c) \in ToSet(c)
           /\ \E d \in Seq(S) : c = d \o <<Last(c)>>
  <1>1. Len(c) \in 1 .. Len(c) /\ c[Len(c)] \in S /\ DOMAIN c = 1 .. Len(c)
    OBVIOUS
  <1>2. Last(c) = c[Len(c)]
    BY DEF Last
  <1>3. PICK d \in Seq(S), p \in S : c = Append(d, p)
    BY SequenceEmptyOrAppend
  <1>4. Len(c) = Len(d) + 1 /\ c[Len(d) + 1] = p
    BY <1>3
  <1>5. c = d \o <<p>>
    BY <1>3, AppendIsConcat
  <1> QED
    BY <1>1, <1>2, <1>4, <1>5 DEF ToSet

\* The last text, sent again, changes nothing of what the answer ends on.
LEMMA SayAgainSteps == ASSUME AnswerInv, SayAgain PROVE AnswerInv'
  <1> DEFINE p == Last(current)
             one == <<p>>
             text == IF mode = "snapshot" THEN current ELSE one
  <1>1. /\ mode' = mode /\ earlier' = earlier /\ current' = current /\ said' = said
        /\ out' = Received(text) /\ current # <<>>
    BY DEF SayAgain, said
  <1>2. AnswerTyped /\ earlier \in Seq(Pieces) /\ current \in Seq(Pieces) /\ out \in Seq(Pieces)
    BY DEF AnswerInv, AnswerTyped
  <1>3. PICK d \in Seq(Pieces) : current = d \o one
    BY <1>1, <1>2, NotEmptyEnds
  <1>4. p \in Pieces /\ p \in ToSet(current)
    BY <1>1, <1>2, NotEmptyEnds
  <1> HIDE DEF p
  <1>5. one \in Seq(Pieces) /\ LastBlock(one) = p /\ ToSet(one) = {p}
    BY <1>4, OneMore, LastBlockOfOne
  <1>6. text \in Seq(Pieces)
    BY <1>2, <1>5
  <1> HIDE DEF one, text
  <1>7. /\ out' \in Seq(Pieces) /\ LastBlock(out') = Then(LastBlock(out), LastBlock(text))
        /\ ToSet(out') \subseteq ToSet(out) \cup ToSet(text)
    BY <1>1, <1>2, <1>6, ReceivedHolds
  <1>8. AnswerTyped'
    BY <1>1, <1>2, <1>7 DEF AnswerTyped
  <1>9. OnlySaid'
    <2>1. ToSet(said) = ToSet(earlier) \cup ToSet(current)
      BY <1>2, ToSetOfConcat DEF said
    <2> QED
      BY <1>1, <1>4, <1>5, <1>7, <2>1 DEF AnswerInv, OnlySaid, text
  <1>10. ConclusionKept'
    <2>1. LastBlock(said) = Then(LastBlock(earlier), LastBlock(current))
      BY <1>2, LastBlockOfConcat DEF said
    <2>2. LastBlock(current) = Then(LastBlock(d), p)
      BY <1>3, <1>5, LastBlockOfConcat
    <2>3. LastBlock(text) \in {p, LastBlock(current)}
      BY <1>5 DEF text
    <2>4. LastBlock(out) = LastBlock(said)
      BY DEF AnswerInv, ConclusionKept
    <2>5. LastBlock(out') = LastBlock(said)
      BY <1>7, <2>1, <2>2, <2>3, <2>4 DEF Then
    <2> QED
      BY <1>1, <2>5 DEF ConclusionKept
  <1>11. AnswerOnce'
    <2>1. CASE mode = "snapshot" /\ earlier = <<>>
      <3>1. said = current
        BY <1>2, <2>1 DEF said
      <3>2. out = current /\ text = current
        BY <2>1, <3>1 DEF AnswerInv, AnswerOnce, text
      <3>3. IsPrefix(out, text)
        <4>1. Len(current) \in Nat
          BY <1>2
        <4> QED
          BY <3>2, <4>1 DEF IsPrefix
      <3>4. out' = current
        BY <1>1, <3>2, <3>3 DEF Received
      <3> QED
        BY <1>1, <3>1, <3>4 DEF AnswerOnce
    <2>2. CASE mode = "delta" /\ IsInjective(said)
      <3>1. out = said /\ text = one
        BY <2>2 DEF AnswerInv, AnswerOnce, text
      <3>2. out = (earlier \o d) \o one
        <4>1. earlier \o (d \o one) = (earlier \o d) \o one
          <5> SUFFICES ASSUME earlier \in Seq(Pieces), d \in Seq(Pieces), one \in Seq(Pieces)
                       PROVE  earlier \o (d \o one) = (earlier \o d) \o one
            BY <1>2, <1>5
          <5> QED
            BY ConcatAssociative
        <4> QED
          BY <1>3, <3>1, <4>1 DEF said
      <3>3. IsSuffix(one, out)
        <4>1. earlier \o d \in Seq(Pieces)
          BY <1>2, ConcatProperties
        <4> QED
          BY <1>4, <3>2, <4>1, EndsWithOne DEF one
      <3>4. CASE IsPrefix(out, one)
        <4>1. out \in {<<>>, one}
          BY <1>2, <1>4, <3>4, WithinOne DEF one
        <4>2. out # <<>>
          <5>1. Len(out) \in 1 .. Len(out)
            BY <1>2, <1>4, <3>3, WithinOne DEF one
          <5> QED
            BY <5>1
        <4>3. out' = out
          BY <1>1, <3>1, <3>4, <4>1, <4>2 DEF Received
        <4> QED
          BY <1>1, <3>1, <4>3 DEF AnswerOnce
      <3>5. CASE ~IsPrefix(out, one)
        <4>1. out' = out
          BY <1>1, <3>1, <3>3, <3>5 DEF Received
        <4> QED
          BY <1>1, <3>1, <4>1 DEF AnswerOnce
      <3> QED
        BY <3>4, <3>5
    <2> QED
      BY <1>1, <2>1, <2>2 DEF AnswerOnce
  <1> QED
    BY <1>8, <1>9, <1>10, <1>11 DEF AnswerInv

\* Between two messages the answer stands.
LEMMA NextMessageSteps == ASSUME AnswerInv, NextMessage PROVE AnswerInv'
  <1>1. mode' = mode /\ earlier' = said /\ current' = <<>> /\ out' = out /\ current # <<>>
    BY DEF NextMessage
  <1>2. AnswerTyped /\ earlier \in Seq(Pieces) /\ current \in Seq(Pieces)
    BY DEF AnswerInv, AnswerTyped
  <1>3. said \in Seq(Pieces) /\ said # <<>>
    <2>1. said \in Seq(Pieces)
      BY <1>2, ConcatProperties DEF said
    <2> QED
      BY <1>1, <1>2, <2>1, ConcatEqualIffEmpty DEF said
  <1>4. said' = said
    <2>1. said' = said \o <<>>
      BY <1>1 DEF said
    <2> QED
      BY <1>3, <2>1, ConcatEmptySeq
  <1>5. AnswerTyped'
    BY <1>1, <1>2, <1>3, <1>4 DEF AnswerTyped
  <1> QED
    BY <1>1, <1>3, <1>4, <1>5 DEF AnswerInv, OnlySaid, ConclusionKept, AnswerOnce

LEMMA AnswerUnchanged == AnswerInv /\ UNCHANGED answerVars => AnswerInv'
  BY DEF answerVars, AnswerInv, AnswerTyped, OnlySaid, ConclusionKept, AnswerOnce, said

LEMMA AnswerInitial == Init => AnswerInv
  <1> SUFFICES ASSUME Init PROVE AnswerInv
    OBVIOUS
  <1>1. earlier = <<>> /\ current = <<>> /\ out = <<>> /\ <<>> \in Seq(Pieces)
    BY DEF Init
  <1>2. said = <<>> /\ Len(said) = 0
    BY <1>1 DEF said
  <1>3. AnswerTyped
    BY <1>1, <1>2, StreamAssumption DEF Init, AnswerTyped, StreamAssumption
  <1> QED
    BY <1>1, <1>2, <1>3 DEF AnswerInv, OnlySaid, ConclusionKept, AnswerOnce

LEMMA AnswerSteps == AnswerInv /\ [Next]_vars => AnswerInv'
  <1> SUFFICES ASSUME AnswerInv, [Next]_vars PROVE AnswerInv'
    OBVIOUS
  <1>1. ASSUME NEW p \in Pieces, Say(p) PROVE AnswerInv'
    BY <1>1, SaySteps
  <1>2. CASE SayAgain
    BY <1>2, SayAgainSteps
  <1>3. CASE NextMessage
    BY <1>3, NextMessageSteps
  <1>4. CASE UNCHANGED answerVars
    BY <1>4, AnswerUnchanged
  <1> QED
    BY <1>1, <1>2, <1>3, <1>4 DEF Next, vars, answerVars, ToolReturns, End, Fail

-----------------------------------------------------------------------------
(* The ledger. *)

\* The ledger holds what the tools returned, one result of each tool and text, the first.
LedgerInv ==
    /\ returned \in Seq(Results) /\ Len(returned) <= MaxResults
    /\ ledger \in Seq(Results)
    /\ KeysDiffer(ledger, NameAndText)
    /\ ToSet(ledger) \subseteq ToSet(returned)
    /\ \A k \in DOMAIN returned : First(k) => returned[k] \in ToSet(ledger)

LEMMA ResultsHaveKeys ==
    ASSUME NEW s \in Seq(Results)
    PROVE  \A i \in DOMAIN s : s[i] \in Results /\ s[i] \in DOMAIN NameAndText
  BY StreamAssumption DEF StreamAssumption, NameAndText

LEMMA ToolReturnsSteps ==
    ASSUME LedgerInv, NEW r \in Results, ToolReturns(r)
    PROVE  LedgerInv'
  <1>1. returned' = Append(returned, r) /\ Len(returned) < MaxResults
    BY DEF ToolReturns
  <1>2. PICK results \in {<<r>>, returned'} : ledger' = Distinct(ledger, results, NameAndText)
    BY DEF ToolReturns, Lifted
  <1> DEFINE key == NameAndText
             q == returned
             qn == returned'
             d == ledger'
  <1>3. q \in Seq(Results) /\ ledger \in Seq(Results) /\ KeysDiffer(ledger, key)
    BY DEF LedgerInv
  <1>4. /\ qn \in Seq(Results) /\ Len(qn) = Len(q) + 1 /\ qn[Len(q) + 1] = r
        /\ \A k \in 1 .. Len(q) : qn[k] = q[k]
        /\ DOMAIN q = 1 .. Len(q) /\ DOMAIN qn = 1 .. Len(qn) /\ Len(q) \in Nat
    BY <1>1, <1>3
  <1>5. ToSet(q) \subseteq ToSet(qn) /\ r \in ToSet(qn)
    <2>1. \A k \in DOMAIN q : k \in DOMAIN qn /\ qn[k] = q[k]
      BY <1>4
    <2>2. Len(q) + 1 \in DOMAIN qn
      BY <1>4
    <2> HIDE DEF q, qn
    <2> QED
      BY <1>4, <2>1, <2>2 DEF ToSet
  <1>6. /\ results \in Seq(Results) /\ ToSet(results) \subseteq ToSet(qn)
        /\ \E k \in DOMAIN results : results[k] = r /\ \A j \in 1 .. k - 1 : j \in 1 .. Len(q) /\ results[j] = q[j]
    <2>1. CASE results = <<r>>
      <3>1. /\ results \in Seq(Results) /\ ToSet(results) = {r}
        BY <1>3, <2>1, OneMore
      <3>2. 1 \in DOMAIN results /\ results[1] = r /\ \A j \in 1 .. 1 - 1 : FALSE
        BY <2>1
      <3> QED
        BY <1>5, <3>1, <3>2
    <2>2. CASE results = qn
      <3>1. Len(q) + 1 \in DOMAIN qn /\ \A j \in 1 .. (Len(q) + 1) - 1 : j \in 1 .. Len(q) /\ qn[j] = q[j]
        BY <1>4
      <3> QED
        <4>1. results \in Seq(Results) /\ ToSet(results) \subseteq ToSet(qn)
          BY <1>4, <2>2
        <4>2. \E k \in DOMAIN qn : qn[k] = r /\ \A j \in 1 .. k - 1 : j \in 1 .. Len(q) /\ qn[j] = q[j]
          BY <1>4, <3>1
        <4> HIDE DEF qn, q
        <4> QED
          BY <2>2, <4>1, <4>2
    <2> QED
      BY <1>2, <2>1, <2>2
  <1>7. \A i \in DOMAIN ledger : ledger[i] \in DOMAIN key
    BY <1>3, ResultsHaveKeys
  <1>8. d \in Seq(Results) /\ Extends(d, ledger, results, key)
    <2>1. d = Distinct(ledger, results, key) /\ results \in Seq(Results)
      BY <1>2, <1>6
    <2> HIDE DEF d, key
    <2> QED
      BY <1>3, <1>7, <2>1, DistinctHolds
  <1>9. ToSet(d) \subseteq ToSet(qn)
    <2> SUFFICES ASSUME NEW i \in DOMAIN d PROVE d[i] \in ToSet(qn)
      BY DEF ToSet
    <2>1. ToSet(ledger) \subseteq ToSet(qn)
      BY <1>5 DEF LedgerInv
    <2>2. (\E j \in DOMAIN ledger : d[i] = ledger[j]) \/ (\E j \in DOMAIN results : d[i] = results[j])
      BY <1>8 DEF Extends
    <2> HIDE DEF d, qn
    <2> QED
      BY <1>6, <2>1, <2>2 DEF ToSet
  <1>10. ASSUME NEW k \in DOMAIN qn, First(k)' PROVE qn[k] \in ToSet(d)
    <2>1. \A j \in 1 .. k - 1 : key[qn[j]] # key[qn[k]]
      BY <1>10 DEF First, NameAndText
    <2>2. CASE k \in DOMAIN q
      <3>1. qn[k] = q[k] /\ \A j \in 1 .. k - 1 : qn[j] = q[j]
        BY <1>4, <2>2
      <3>2. First(k)
        BY <2>1, <3>1 DEF First
      <3>3. PICK i \in DOMAIN ledger : ledger[i] = q[k]
        BY <2>2, <3>2 DEF LedgerInv, ToSet
      <3> HIDE DEF d, qn, q
      <3> QED
        BY <1>8, <3>1, <3>3 DEF ToSet, Extends
    <2>3. CASE k = Len(q) + 1
      <3>1. qn[k] = r /\ k - 1 = Len(q)
        BY <1>4, <2>3
      <3>2. \A j \in 1 .. Len(q) : key[q[j]] # key[r]
        BY <1>4, <2>1, <3>1
      <3>3. ASSUME NEW i \in DOMAIN ledger PROVE key[ledger[i]] # key[r]
        <4>1. PICK j \in DOMAIN q : q[j] = ledger[i]
          BY DEF LedgerInv, ToSet
        <4> QED
          BY <1>4, <3>2, <4>1
      <3>4. PICK m \in DOMAIN results : results[m] = r /\ \A j \in 1 .. m - 1 : j \in 1 .. Len(q) /\ results[j] = q[j]
        BY <1>6
      <3>5. results[m] \in DOMAIN key
        BY <1>6, ResultsHaveKeys
      <3> HIDE DEF d, qn, q, key
      <3>6. \E i \in DOMAIN d : d[i] = results[m]
        BY <1>8, <3>2, <3>3, <3>4, <3>5 DEF Extends
      <3> QED
        BY <3>1, <3>4, <3>6 DEF ToSet
    <2> QED
      BY <1>4, <2>2, <2>3
  <1> QED
    BY <1>1, <1>4, <1>8, <1>9, <1>10, StreamAssumption DEF LedgerInv, StreamAssumption, Extends

LEMMA LedgerUnchanged == LedgerInv /\ UNCHANGED <<returned, ledger>> => LedgerInv'
  BY DEF LedgerInv, First

LEMMA LedgerInitial == Init => LedgerInv
  <1> SUFFICES ASSUME Init PROVE LedgerInv
    OBVIOUS
  <1>1. returned = <<>> /\ ledger = <<>> /\ <<>> \in Seq(Results) /\ Len(<<>>) = 0 /\ DOMAIN <<>> = {}
    BY DEF Init
  <1> QED
    BY <1>1, StreamAssumption DEF LedgerInv, KeysDiffer, ToSet, StreamAssumption

LEMMA LedgerSteps == LedgerInv /\ [Next]_vars => LedgerInv'
  <1> SUFFICES ASSUME LedgerInv, [Next]_vars PROVE LedgerInv'
    OBVIOUS
  <1>1. ASSUME NEW r \in Results, ToolReturns(r) PROVE LedgerInv'
    BY <1>1, ToolReturnsSteps
  <1>2. CASE UNCHANGED <<returned, ledger>>
    BY <1>2, LedgerUnchanged
  <1> QED
    BY <1>1, <1>2 DEF Next, vars, Say, SayAgain, NextMessage, End, Fail

LEMMA LedgerIsInjective == LedgerInv => IsInjective(ledger)
  BY DEF LedgerInv, KeysDiffer, IsInjective

-----------------------------------------------------------------------------
(* What the policy and Parse make of a block. *)

FieldNames == {"block", "sources", "trace", "resources", "root", "confidence", "cap", "fix", "missingContext"}

Lines == {"missing", "gap", "noFix", "note"}

LEMMA CutHolds ==
    ASSUME NEW S, NEW s \in Seq(S), NEW n \in Nat
    PROVE  /\ Cut(s, n) \in Seq(S) /\ Len(Cut(s, n)) <= n
           /\ \A k \in 1 .. Len(s) : k <= n => k <= Len(Cut(s, n)) /\ Cut(s, n)[k] = s[k]
           /\ Len(s) <= n => Cut(s, n) = s
  <1> DEFINE m == IF Len(s) < n THEN Len(s) ELSE n
             c == SubSeq(s, 1, m)
  <1>1. m \in Nat /\ m <= n /\ m <= Len(s) /\ Len(s) \in Nat
    OBVIOUS
  <1>2. Len(s) <= n => m = Len(s)
    BY <1>1
  <1>3. \A k \in 1 .. Len(s) : k <= n => k \in 1 .. m
    BY <1>1
  <1>4. Cut(s, n) = c
    BY DEF Cut
  <1> HIDE DEF m
  <1>5. c \in Seq(S) /\ Len(c) = m /\ (\A k \in 1 .. m : c[k] = s[k])
    BY <1>1
  <1>6. m = Len(s) => c = s
    BY SubSeqFull
  <1> HIDE DEF c
  <1> QED
    BY <1>1, <1>2, <1>3, <1>4, <1>5, <1>6

LEMMA CutIsPrefix ==
    ASSUME NEW S, NEW s \in Seq(S), NEW n \in Nat
    PROVE  \A k \in DOMAIN Cut(s, n) : k \in 1 .. Len(s) /\ Cut(s, n)[k] = s[k]
  <1>1. \A k \in 1 .. Len(s) : k <= n => k <= Len(Cut(s, n)) /\ Cut(s, n)[k] = s[k]
    BY CutHolds
  <1>2. DOMAIN Cut(s, n) = 1 .. Len(Cut(s, n)) /\ Len(Cut(s, n)) <= n /\ Len(Cut(s, n)) \in Nat
    BY CutHolds
  <1>3. Len(Cut(s, n)) <= Len(s) /\ Len(s) \in Nat
    BY DEF Cut
  <1> QED
    BY <1>1, <1>2, <1>3

LEMMA CeilingsAre == \A v2, retrieval : Ceilings(v2, retrieval) \subseteq {20, 40, 60}
  <1> SUFFICES ASSUME NEW v2, NEW retrieval, NEW x \in Ceilings(v2, retrieval) PROVE x \in {20, 40, 60}
    OBVIOUS
  <1>1. x = noEvidenceCeiling \/ \E u \in DOMAIN confidenceCeiling : x = confidenceCeiling[u]
    BY DEF Ceilings
  <1>2. ASSUME NEW u \in DOMAIN confidenceCeiling PROVE confidenceCeiling[u] \in {40, 60}
    BY DEF confidenceCeiling
  <1> QED
    BY <1>1, <1>2 DEF noEvidenceCeiling

\* Parse takes the confidence of a root cause as the block declares it (report.go:296-305).
LEMMA FieldsDeclared ==
    ASSUME NEW b, IsBlock(b), NEW v2, v2 = Fields(b)
    PROVE  /\ DOMAIN v2 = FieldNames /\ v2.block = b
           /\ v2.root = b.root /\ v2.root \in BOOLEAN /\ v2.fix = howToFix(b) /\ v2.fix \in BOOLEAN
           /\ v2.root => v2.confidence = b.confidence
           /\ v2.confidence \in Confidences /\ v2.cap = NoCap
           /\ v2.missingContext \in Seq(Lines) /\ Len(v2.missingContext) <= MaxContext
           /\ OwnGaps(b) = {k \in DOMAIN v2.missingContext : v2.missingContext[k] = "gap"}
  <1> DEFINE cut == Cut(b.missingContext, MaxEntries)
             mc == [k \in DOMAIN cut |-> IF cut[k].gap THEN "gap" ELSE "missing"]
  <1>1. b.root \in BOOLEAN /\ b.confidence \in Confidences
    BY DEF IsBlock
  <1>2. /\ mc \in Seq(Lines) /\ Len(mc) <= MaxContext
        /\ OwnGaps(b) = {k \in DOMAIN mc : mc[k] = "gap"}
    <2>1. PICK S : b.missingContext \in Seq(S)
      BY DEF IsBlock
    <2>2. cut \in Seq(S) /\ Len(cut) <= MaxEntries /\ \A k \in DOMAIN cut : cut[k] = b.missingContext[k]
      <3>1. cut \in Seq(S) /\ Len(cut) <= MaxEntries
        BY <2>1, CutHolds, PolicyAssumption DEF PolicyAssumption
      <3>2. \A k \in DOMAIN cut : cut[k] = b.missingContext[k]
        BY <2>1, CutIsPrefix, PolicyAssumption DEF PolicyAssumption
      <3> QED
        BY <3>1, <3>2
    <2>5. OwnGaps(b) = {k \in DOMAIN cut : cut[k].gap}
      BY <2>2 DEF OwnGaps
    <2> HIDE DEF cut
    <2>3. DOMAIN cut = 1 .. Len(cut) /\ Len(cut) \in Nat
      BY <2>2
    <2>4. mc \in Seq(Lines) /\ Len(mc) = Len(cut)
      BY <2>3 DEF Lines
    <2>6. DOMAIN mc = DOMAIN cut /\ \A k \in DOMAIN cut : mc[k] = "gap" <=> cut[k].gap
      OBVIOUS
    <2> HIDE DEF mc
    <2> QED
      BY <2>2, <2>3, <2>4, <2>5, <2>6, PolicyAssumption DEF PolicyAssumption
  <1>3. v2.missingContext = mc
    BY DEF Fields, MapSeq
  <1>4. Unstated \in Confidences
    BY DEF Confidences
  <1>5. /\ DOMAIN v2 = FieldNames /\ v2.block = b
        /\ v2.root = b.root /\ v2.fix = howToFix(b) /\ v2.cap = NoCap
        /\ v2.confidence = IF b.root THEN b.confidence ELSE Unstated
    BY DEF Fields, FieldNames
  <1>6. howToFix(b) \in BOOLEAN
    BY DEF howToFix
  <1> QED
    BY <1>1, <1>2, <1>3, <1>4, <1>5, <1>6

\* What the policy leaves of the fields of b: its confidence as declared or lowered to the ceiling
\* reported, above no ceiling.
Governed(v2, b, retrieval) ==
    /\ DOMAIN v2 = FieldNames /\ v2.block = b
    /\ v2.root = b.root /\ v2.root \in BOOLEAN /\ v2.fix = howToFix(b) /\ v2.fix \in BOOLEAN
    /\ v2.confidence \in Confidences
    /\ v2.root => \/ v2.confidence = b.confidence
                  \/ b.confidence > v2.confidence /\ v2.confidence = v2.cap
    /\ v2.root => \A c \in Ceilings(Fields(b), retrieval) : v2.confidence <= c
    /\ v2.missingContext \in Seq(Lines) /\ Len(v2.missingContext) <= MaxContext

\* Its missingContext tells of the gap, first or where the agent did, but for its last n lines.
Told(v2, b, n) ==
    v2.root /\ v2.cap # NoCap =>
        /\ OwnGaps(b) = {} => Len(v2.missingContext) >= 1 /\ v2.missingContext[1] = "gap"
        /\ \A k \in OwnGaps(b) :
             k <= MaxContext - n => k \in 1 .. Len(v2.missingContext) /\ v2.missingContext[k] = "gap"

\* The gap goes first, or the lines are as they were (policy.go:476-480).
LEMMA GapFirstHolds ==
    ASSUME NEW mc \in Seq(Lines), Len(mc) <= MaxContext, NEW lines, lines = GapFirst(mc)
    PROVE  /\ lines \in Seq(Lines) /\ Len(lines) <= MaxContext
           /\ (\A k \in DOMAIN mc : mc[k] # "gap") => Len(lines) >= 1 /\ lines[1] = "gap"
           /\ (\E k \in DOMAIN mc : mc[k] = "gap") => lines = mc
  <1>1. MaxContext \in Nat /\ MaxContext - 1 \in Nat
    BY PolicyAssumption DEF PolicyAssumption
  <1>2. DOMAIN mc = 1 .. Len(mc)
    OBVIOUS
  <1>3. CASE \E k \in DOMAIN mc : mc[k] = "gap"
    <2>1. Contains(mc, "gap")
      BY <1>2, <1>3 DEF Contains
    <2>2. lines = mc
      BY <2>1 DEF GapFirst
    <2> QED
      BY <1>3, <2>2
  <1>4. CASE \A k \in DOMAIN mc : mc[k] # "gap"
    <2> DEFINE cut == Cut(mc, MaxContext - 1)
    <2>1. ~Contains(mc, "gap")
      BY <1>2, <1>4 DEF Contains
    <2>2. lines = <<"gap">> \o cut
      BY <2>1 DEF GapFirst
    <2>3. cut \in Seq(Lines) /\ Len(cut) <= MaxContext - 1 /\ Len(cut) \in Nat
      BY <1>1, CutHolds
    <2> HIDE DEF cut
    <2>4. <<"gap">> \in Seq(Lines) /\ Len(<<"gap">>) = 1 /\ <<"gap">>[1] = "gap"
      BY DEF Lines
    <2>5. lines \in Seq(Lines) /\ Len(lines) = 1 + Len(cut) /\ lines[1] = "gap"
      BY <2>2, <2>3, <2>4, ConcatProperties
    <2> QED
      BY <1>1, <1>4, <2>3, <2>5
  <1> QED
    BY <1>3, <1>4

\* The policy leaves a declared confidence alone, or lowers it to the ceiling it reports
\* (policy.go:399-489).
LEMMA PolicyGoverns ==
    ASSUME NEW b, IsBlock(b), NEW retrieval, NEW v3, v3 = applyEvidencePolicy(Fields(b), retrieval)
    PROVE  Governed(v3, b, retrieval) /\ Told(v3, b, 0)
  <1> DEFINE v2 == Fields(b)
             ceilings == Ceilings(v2, retrieval)
             ceiling == CHOOSE c \in ceilings : \A d \in ceilings : c <= d
             lines == GapFirst(v2.missingContext)
             bounded == [v2 EXCEPT !.confidence = Bounded(@, ceiling), !.cap = ceiling,
                                   !.missingContext = GapFirst(@)]
  <1>1. /\ DOMAIN v2 = FieldNames /\ v2.block = b
        /\ v2.root = b.root /\ v2.root \in BOOLEAN /\ v2.fix = howToFix(b) /\ v2.fix \in BOOLEAN
        /\ v2.root => v2.confidence = b.confidence
        /\ v2.confidence \in Confidences /\ v2.cap = NoCap
        /\ v2.missingContext \in Seq(Lines) /\ Len(v2.missingContext) <= MaxContext
        /\ OwnGaps(b) = {k \in DOMAIN v2.missingContext : v2.missingContext[k] = "gap"}
    <2> DEFINE v == Fields(b)
    <2> HIDE DEF v
    <2>1. v = Fields(b)
      BY DEF v
    <2> QED
      BY <2>1, FieldsDeclared DEF v
  <1>2. CASE ~v2.root \/ ceilings = {}
    <2>1. v3 = v2
      BY <1>2 DEF applyEvidencePolicy
    <2> HIDE DEF v2
    <2>2. \A c \in Ceilings(v2, retrieval) : v2.root => FALSE
      BY <1>2
    <2>3. v2 = Fields(b)
      BY DEF v2
    <2> QED
      BY <1>1, <2>1, <2>2, <2>3 DEF Governed, Told
  <1>3. CASE v2.root /\ ceilings # {}
    <2>1. v3 = bounded
      BY <1>3 DEF applyEvidencePolicy
    <2>2. /\ v3.confidence = Bounded(v2.confidence, ceiling) /\ v3.cap = ceiling
          /\ DOMAIN v3 = FieldNames /\ v3.block = b /\ v3.root = v2.root /\ v3.fix = v2.fix
          /\ v3.missingContext = lines
      BY <2>1 DEF Fields, FieldNames
    <2>3. /\ lines \in Seq(Lines) /\ Len(lines) <= MaxContext
          /\ OwnGaps(b) = {} => Len(lines) >= 1 /\ lines[1] = "gap"
          /\ \A k \in OwnGaps(b) : k \in 1 .. Len(lines) /\ lines[k] = "gap"
      <3> DEFINE mc == v2.missingContext
      <3>1. /\ mc \in Seq(Lines) /\ Len(mc) <= MaxContext /\ DOMAIN mc = 1 .. Len(mc)
            /\ OwnGaps(b) = {k \in DOMAIN mc : mc[k] = "gap"}
        BY <1>1
      <3> HIDE DEF mc
      <3>2. lines = GapFirst(mc)
        BY DEF mc
      <3> HIDE DEF lines
      <3>3. /\ lines \in Seq(Lines) /\ Len(lines) <= MaxContext
            /\ (\A k \in DOMAIN mc : mc[k] # "gap") => Len(lines) >= 1 /\ lines[1] = "gap"
            /\ (\E k \in DOMAIN mc : mc[k] = "gap") => lines = mc
        BY <3>1, <3>2, GapFirstHolds
      <3> QED
        BY <3>1, <3>3
    <2>4. ceilings \subseteq {20, 40, 60}
      BY CeilingsAre
    <2> HIDE DEF v2, lines, ceilings
    <2>5. ceilings \subseteq Nat
      BY <2>4
    <2>6. ceiling \in ceilings /\ \A c \in ceilings : ceiling <= c
      BY <1>3, <2>5, LeastOf
    <2> HIDE DEF ceiling
    <2>7. ceiling \in {20, 40, 60} /\ v2.confidence \in Int /\ {20, 40, 60} \subseteq Confidences
      <3>1. ceiling \in {20, 40, 60}
        BY <2>4, <2>6
      <3>2. v2.confidence \in Confidences
        BY <1>1
      <3>3. Confidences \subseteq Int /\ {20, 40, 60} \subseteq Confidences
        BY DEF Confidences, NaN, Unstated
      <3> QED
        BY <3>1, <3>2, <3>3
    <2>8. \/ v3.confidence = v2.confidence /\ v2.confidence <= ceiling
          \/ v2.confidence > ceiling /\ v3.confidence = ceiling
      BY <2>2, <2>7 DEF Bounded
    <2>9. v3.confidence \in Confidences /\ \A c \in ceilings : v3.confidence <= c
      BY <1>1, <2>4, <2>6, <2>7, <2>8
    <2>10. ceilings = Ceilings(Fields(b), retrieval)
      BY DEF ceilings, v2
    <2> QED
      BY <1>1, <1>3, <2>2, <2>3, <2>8, <2>9, <2>10 DEF Governed, Told
  <1> QED
    BY <1>1, <1>2, <1>3

LEMMA OwnGapsAreInts == ASSUME NEW b, IsBlock(b) PROVE OwnGaps(b) \subseteq Int
  <1>1. PICK S : b.missingContext \in Seq(S)
    BY DEF IsBlock
  <1>2. Cut(b.missingContext, MaxEntries) \in Seq(S)
    BY <1>1, CutHolds, PolicyAssumption DEF PolicyAssumption
  <1>3. DOMAIN Cut(b.missingContext, MaxEntries) \subseteq Int
    BY <1>2
  <1> QED
    BY <1>3 DEF OwnGaps

\* The lines Parse adds to missingContext touch nothing else, and of missingContext only its last
\* lines (report.go:544-551).
LEMMA NotesKeep ==
    ASSUME NEW b, IsBlock(b), NEW retrieval, NEW v2, Governed(v2, b, retrieval), Told(v2, b, 0),
           NEW v3, v3 = WithNotes(v2, b)
    PROVE  /\ Governed(v3, b, retrieval) /\ Told(v3, b, Added(v3))
           /\ v3.root /\ ~v3.fix => Len(v3.missingContext) >= 1 /\ Last(v3.missingContext) = "noFix"
  <1> DEFINE mc == v2.missingContext
             cutFix == Cut(mc, MaxContext - 1)
             cutNotes == Cut(mc, MaxContext - b.notes)
             notes == [k \in 1 .. b.notes |-> "note"]
             withFix == Append(cutFix, "noFix")
             withNotes == cutNotes \o notes
  <1>1. /\ b.notes \in 0 .. 2 /\ MaxContext \in Nat /\ MaxContext >= 3
        /\ MaxContext - 1 \in Nat /\ MaxContext - b.notes \in Nat /\ MaxContext - b.notes >= 1
    BY PolicyAssumption DEF PolicyAssumption, IsBlock
  <1>2. mc \in Seq(Lines) /\ Len(mc) \in Nat /\ Len(mc) <= MaxContext /\ v2.fix \in BOOLEAN /\ v2.root \in BOOLEAN
    BY DEF Governed
  <1>3. /\ cutFix \in Seq(Lines) /\ Len(cutFix) <= MaxContext - 1 /\ Len(cutFix) \in Nat
        /\ \A k \in 1 .. Len(mc) : k <= MaxContext - 1 => k <= Len(cutFix) /\ cutFix[k] = mc[k]
    <2> HIDE DEF mc
    <2>1. cutFix \in Seq(Lines) /\ Len(cutFix) <= MaxContext - 1
      BY <1>1, <1>2, CutHolds
    <2>2. \A k \in 1 .. Len(mc) : k <= MaxContext - 1 => k <= Len(cutFix) /\ cutFix[k] = mc[k]
      BY <1>1, <1>2, CutHolds
    <2> HIDE DEF cutFix
    <2> QED
      BY <2>1, <2>2
  <1>4. /\ cutNotes \in Seq(Lines) /\ Len(cutNotes) <= MaxContext - b.notes /\ Len(cutNotes) \in Nat
        /\ \A k \in 1 .. Len(mc) : k <= MaxContext - b.notes => k <= Len(cutNotes) /\ cutNotes[k] = mc[k]
    <2> HIDE DEF mc
    <2>1. cutNotes \in Seq(Lines) /\ Len(cutNotes) <= MaxContext - b.notes
      BY <1>1, <1>2, CutHolds
    <2>2. \A k \in 1 .. Len(mc) : k <= MaxContext - b.notes => k <= Len(cutNotes) /\ cutNotes[k] = mc[k]
      BY <1>1, <1>2, CutHolds
    <2> HIDE DEF cutNotes
    <2> QED
      BY <2>1, <2>2
  <1>5. notes \in Seq(Lines) /\ Len(notes) = b.notes
    BY <1>1 DEF Lines
  <1> HIDE DEF cutFix, cutNotes, notes
  <1>6. /\ withFix \in Seq(Lines) /\ Len(withFix) = Len(cutFix) + 1 /\ Last(withFix) = "noFix"
        /\ \A k \in 1 .. Len(mc) : k <= MaxContext - 1 => k <= Len(withFix) /\ withFix[k] = mc[k]
    BY <1>1, <1>2, <1>3 DEF Lines, Last
  <1>7. /\ withNotes \in Seq(Lines) /\ Len(withNotes) = Len(cutNotes) + b.notes
        /\ \A k \in 1 .. Len(mc) : k <= MaxContext - b.notes => k <= Len(withNotes) /\ withNotes[k] = mc[k]
    BY <1>1, <1>2, <1>4, <1>5, ConcatProperties
  <1> HIDE DEF withFix, withNotes
  <1>8. ASSUME NEW lines \in Seq(Lines), Len(lines) <= MaxContext, NEW n \in 0 .. 2,
               \A k \in 1 .. Len(mc) : k <= MaxContext - n => k <= Len(lines) /\ lines[k] = mc[k],
               NEW v4, v4 = [v2 EXCEPT !.missingContext = lines]
        PROVE  /\ Governed(v4, b, retrieval) /\ Told(v4, b, n)
               /\ v4.missingContext = lines /\ v4.root = v2.root /\ v4.fix = v2.fix /\ v4.block = b
    <2>1. /\ DOMAIN v4 = FieldNames /\ v4.missingContext = lines
          /\ v4.block = v2.block /\ v4.root = v2.root /\ v4.fix = v2.fix
          /\ v4.confidence = v2.confidence /\ v4.cap = v2.cap
      BY <1>8 DEF Governed, FieldNames
    <2>2. Governed(v4, b, retrieval) /\ v4.block = b
      BY <1>8, <2>1 DEF Governed
    <2>3. 1 <= MaxContext - n /\ Len(lines) \in Nat
      BY <1>1, <1>8
    <2>4. ASSUME v4.root, v4.cap # NoCap
          PROVE  /\ OwnGaps(b) = {} => Len(lines) >= 1 /\ lines[1] = "gap"
                 /\ \A k \in OwnGaps(b) : k <= MaxContext - n => k \in 1 .. Len(lines) /\ lines[k] = "gap"
      <3>1. /\ OwnGaps(b) = {} => Len(mc) >= 1 /\ mc[1] = "gap"
            /\ \A k \in OwnGaps(b) : k <= MaxContext => k \in 1 .. Len(mc) /\ mc[k] = "gap"
        BY <1>1, <2>1, <2>4 DEF Told
      <3>2. ASSUME OwnGaps(b) = {} PROVE Len(lines) >= 1 /\ lines[1] = "gap"
        <4>1. Len(mc) >= 1 /\ mc[1] = "gap" /\ 1 \in 1 .. Len(mc)
          BY <1>2, <3>1, <3>2
        <4> QED
          BY <1>8, <2>3, <4>1
      <3>3. ASSUME NEW k \in OwnGaps(b), k <= MaxContext - n PROVE k \in 1 .. Len(lines) /\ lines[k] = "gap"
        <4>1. k \in Int
          BY OwnGapsAreInts
        <4>2. k <= MaxContext
          BY <1>1, <3>3, <4>1
        <4>3. k \in 1 .. Len(mc) /\ mc[k] = "gap"
          BY <3>1, <4>2
        <4> QED
          BY <1>8, <2>3, <3>3, <4>3
      <3> QED
        BY <3>2, <3>3
    <2>5. Told(v4, b, n)
      BY <2>1, <2>4 DEF Told
    <2> QED
      BY <2>1, <2>2, <2>5
  <1>9. CASE ~v2.fix /\ v2.root
    <2>1. v3 = [v2 EXCEPT !.missingContext = withFix]
      BY <1>9 DEF WithNotes, withFix, cutFix
    <2>2. Len(withFix) <= MaxContext /\ Len(withFix) >= 1
      BY <1>1, <1>3, <1>6
    <2>3. /\ Governed(v3, b, retrieval) /\ Told(v3, b, 1) /\ v3.missingContext = withFix
          /\ v3.fix = v2.fix
      BY <1>6, <1>8, <2>1, <2>2
    <2>4. Added(v3) = 1
      BY <1>9, <2>3 DEF Added
    <2> QED
      BY <1>6, <2>2, <2>3, <2>4
  <1>10. CASE v2.fix /\ b.notes > 0
    <2>1. v3 = [v2 EXCEPT !.missingContext = withNotes]
      BY <1>10 DEF WithNotes, withNotes, cutNotes, notes
    <2>2. Len(withNotes) <= MaxContext /\ Len(withNotes) >= 1
      BY <1>1, <1>4, <1>7, <1>10
    <2>3. Governed(v3, b, retrieval) /\ Told(v3, b, b.notes) /\ v3.fix = v2.fix /\ v3.block = b
      BY <1>1, <1>7, <1>8, <2>1, <2>2
    <2>4. Added(v3) = b.notes
      BY <1>10, <2>3 DEF Added
    <2> QED
      BY <1>10, <2>3, <2>4
  <1>11. CASE ~(~v2.fix /\ v2.root) /\ ~(v2.fix /\ b.notes > 0)
    <2>1. v3 = v2
      BY <1>11 DEF WithNotes
    <2>2. ASSUME v3.root PROVE Added(v3) = 0
      <3>1. v2.fix /\ b.notes = 0
        BY <1>1, <1>2, <1>11, <2>1, <2>2
      <3>2. v2.block = b
        BY DEF Governed
      <3> QED
        BY <2>1, <3>1, <3>2 DEF Added
    <2>3. Told(v3, b, Added(v3))
      BY <2>1, <2>2 DEF Told
    <2> QED
      BY <1>11, <2>1, <2>3
  <1> QED
    BY <1>9, <1>10, <1>11

LEMMA OutcomesTyped ==
    /\ \A t : classifyOutcome(t) \in Outcomes
    /\ \A t : toolOutcome(t) \in Outcomes
  BY DEF classifyOutcome, toolOutcome, toolSuccessOutcome, Outcomes

\* The three signals, as entries of the retrieval ledger.
LEMMA SignalsTyped ==
    ASSUME NEW b, IsBlock(b), NEW results \in Seq(ToolResult)
    PROVE  /\ declaredRetrieval(b) \in Seq(Entry) /\ fromMissingContext(b) \in Seq(Entry \cup {NoEntry})
           /\ fromToolLedger(results) \in Seq(Entry)
  <1>1. MaxEntries \in Nat /\ ToolClass \in [Tools -> Classes]
    BY PolicyAssumption DEF PolicyAssumption
  <1>2. declaredRetrieval(b) \in Seq(Entry)
    <2> DEFINE D == [source : Classes, scope : Scopes, words : Text, outcome : Outcomes \cup {"unrecognized"}]
               cut == Cut(b.retrieval, MaxEntries)
               E(d) == [source |-> d.source, scope |-> d.scope,
                        outcome |-> IF d.outcome \in Outcomes THEN d.outcome ELSE classifyOutcome(d.words)]
    <2>1. cut \in Seq(D)
      <3>1. b.retrieval \in Seq(D)
        BY DEF IsBlock
      <3> HIDE DEF D
      <3> QED
        BY <1>1, <3>1, CutHolds
    <2>2. \A d \in D : E(d) \in Entry
      BY OutcomesTyped DEF Entry
    <2>3. declaredRetrieval(b) = [k \in DOMAIN cut |-> E(cut[k])]
      BY DEF declaredRetrieval, MapSeq
    <2> HIDE DEF D, E, cut
    <2>4. DOMAIN cut = 1 .. Len(cut) /\ Len(cut) \in Nat /\ \A k \in 1 .. Len(cut) : cut[k] \in D
      BY <2>1
    <2>5. [k \in 1 .. Len(cut) |-> E(cut[k])] \in Seq(Entry)
      BY <2>2, <2>4
    <2> QED
      BY <2>3, <2>4, <2>5
  <1>3. fromMissingContext(b) \in Seq(Entry \cup {NoEntry})
    <2> DEFINE M == [class : Classes, line : Text, gap : BOOLEAN]
               cut == Cut(b.missingContext, MaxEntries)
               E(m) == IF classifyOutcome(m.line) = "success"
                       THEN NoEntry
                       ELSE [source |-> m.class, scope |-> "missingContext", outcome |-> classifyOutcome(m.line)]
    <2>1. cut \in Seq(M)
      <3>1. b.missingContext \in Seq(M)
        BY DEF IsBlock
      <3> HIDE DEF M
      <3> QED
        BY <1>1, <3>1, CutHolds
    <2>2. \A m \in M : E(m) \in Entry \cup {NoEntry}
      BY OutcomesTyped DEF Entry
    <2>3. fromMissingContext(b) = [k \in DOMAIN cut |-> E(cut[k])]
      BY DEF fromMissingContext, MapSeq
    <2> HIDE DEF M, E, cut
    <2>4. DOMAIN cut = 1 .. Len(cut) /\ Len(cut) \in Nat /\ \A k \in 1 .. Len(cut) : cut[k] \in M
      BY <2>1
    <2>5. [k \in 1 .. Len(cut) |-> E(cut[k])] \in Seq(Entry \cup {NoEntry})
      BY <2>2, <2>4
    <2> QED
      BY <2>3, <2>4, <2>5
  <1>4. fromToolLedger(results) \in Seq(Entry)
    <2> DEFINE cut == Cut(results, MaxEntries)
               E(t) == [source |-> ToolClass[t.name], scope |-> t.name, outcome |-> toolOutcome(t)]
    <2>1. cut \in Seq(ToolResult)
      BY <1>1, CutHolds
    <2>2. \A t \in ToolResult : E(t) \in Entry
      BY <1>1, OutcomesTyped DEF Entry, ToolResult
    <2>3. fromToolLedger(results) = [k \in DOMAIN cut |-> E(cut[k])]
      BY DEF fromToolLedger, MapSeq
    <2> HIDE DEF E, cut
    <2>4. DOMAIN cut = 1 .. Len(cut) /\ Len(cut) \in Nat /\ \A k \in 1 .. Len(cut) : cut[k] \in ToolResult
      BY <2>1
    <2>5. [k \in 1 .. Len(cut) |-> E(cut[k])] \in Seq(Entry)
      BY <2>2, <2>4
    <2> QED
      BY <2>3, <2>4, <2>5
  <1> QED
    BY <1>2, <1>3, <1>4

\* A refusal governs its class, whatever else is known of it (policy.go:269-316).
LEMMA DenialGoverns ==
    ASSUME NEW retrieval \in Seq(Entry), NEW e \in ToSet(retrieval), e.outcome = "denied", NEW v2
    PROVE  confidenceCeiling.denied \in Ceilings(v2, retrieval)
  <1> DEFINE entries == ToSet(retrieval)
             c == e.source
             all == {x.outcome : x \in {f \in entries : f.source = c}}
             outcomes == Governing(all)
             worst == worstByClass(retrieval)
             o == CHOOSE o \in outcomes : \A u \in outcomes : Rank[u] <= Rank[o]
  <1>1. entries \subseteq Entry
    BY DEF ToSet
  <1>2. "denied" \in all /\ all \subseteq Outcomes
    BY <1>1 DEF Entry
  <1>3. c \in DOMAIN worst /\ worst[c] = o
    <2>1. c \in {x.source : x \in entries}
      OBVIOUS
    <2> QED
      BY <2>1 DEF worstByClass
  <1> HIDE DEF all, entries, worst
  <1>4. "denied" \in outcomes /\ outcomes \subseteq Outcomes
    BY <1>2 DEF Governing
  <1> HIDE DEF outcomes
  <1>5. /\ Rank["denied"] = 3
        /\ \A u \in Outcomes : Rank[u] \in 0 .. 3 /\ (Rank[u] = 3 => u = "denied")
    BY DEF Rank, Outcomes
  <1>6. o = "denied"
    <2>1. \A u \in outcomes : Rank[u] <= Rank["denied"]
      BY <1>4, <1>5
    <2>2. o \in outcomes /\ \A u \in outcomes : Rank[u] <= Rank[o]
      BY <1>4, <2>1
    <2> HIDE DEF o
    <2>3. Rank["denied"] <= Rank[o] /\ Rank[o] \in 0 .. 3
      BY <1>4, <1>5, <2>2
    <2> QED
      BY <1>4, <1>5, <2>2, <2>3
  <1>7. "denied" \in DOMAIN confidenceCeiling
    BY DEF confidenceCeiling
  <1>8. c \in {d \in DOMAIN worst : worst[d] \in DOMAIN confidenceCeiling}
    BY <1>3, <1>6, <1>7
  <1>9. confidenceCeiling[worst[c]] \in Ceilings(v2, retrieval)
    BY <1>8 DEF Ceilings, worst
  <1>10. confidenceCeiling[worst[c]] = confidenceCeiling.denied
    BY <1>3, <1>6
  <1> QED
    BY <1>9, <1>10

\* Within the limits of its lists, the retrieval ledger holds every refusal of the tool ledger
\* (policy.go:241-267).
LEMMA DenialIsRetrieved ==
    ASSUME NEW b, IsBlock(b), NEW results \in Seq(ToolResult), Len(results) <= MaxEntries,
           Len(Retrievals(b, results)) <= MaxLedger,
           NEW k \in DOMAIN results, toolOutcome(results[k]) = "denied"
    PROVE  /\ buildRetrievalLedger(b, results) \in Seq(Entry)
           /\ \E e \in ToSet(buildRetrievalLedger(b, results)) : e.outcome = "denied"
  <1> DEFINE declared == declaredRetrieval(b)
             missing == fromMissingContext(b)
             tools == fromToolLedger(results)
             all == AllRetrievals(b, results)
             key == [x \in Entry |-> x]
             Some == Entry \cup {NoEntry}
             d == Retrievals(b, results)
             e == [source |-> ToolClass[results[k].name], scope |-> results[k].name, outcome |-> "denied"]
  <1>1. declared \in Seq(Some) /\ missing \in Seq(Some) /\ tools \in Seq(Entry) /\ tools \in Seq(Some)
    BY SignalsTyped, SeqMonotonic
  <1>2. k \in 1 .. Len(tools) /\ tools[k] = e
    <2>1. Cut(results, MaxEntries) = results
      BY CutHolds, PolicyAssumption DEF PolicyAssumption
    <2>2. DOMAIN tools = DOMAIN results /\ tools[k] = e
      BY <2>1 DEF fromToolLedger, MapSeq
    <2> HIDE DEF tools, e
    <2>3. DOMAIN tools = 1 .. Len(tools)
      BY <1>1
    <2> QED
      BY <2>2, <2>3
  <1>3. e \in Entry /\ e.outcome = "denied"
    <2>1. e.outcome = "denied"
      OBVIOUS
    <2> HIDE DEF e, tools
    <2>2. e \in Entry
      BY <1>1, <1>2
    <2> QED
      BY <2>1, <2>2
  <1>4. all = declared \o missing \o tools
    BY DEF AllRetrievals
  <1> HIDE DEF declared, missing, tools, e, all, Some
  <1>5. all \in Seq(Some) /\ \E j \in DOMAIN all : all[j] = e
    <2> DEFINE front == declared \o missing
    <2>1. front \in Seq(Some) /\ Len(front) \in Nat /\ all = front \o tools
      BY <1>1, <1>4, ConcatProperties
    <2> HIDE DEF front
    <2>2. /\ all \in Seq(Some) /\ Len(all) = Len(front) + Len(tools)
          /\ \A i \in 1 .. Len(front) + Len(tools) : all[i] = IF i <= Len(front) THEN front[i] ELSE tools[i - Len(front)]
      BY <1>1, <2>1, ConcatProperties
    <2>3. DOMAIN all = 1 .. Len(all) /\ Len(tools) \in Nat
      BY <1>1, <2>2
    <2> DEFINE j == Len(front) + k
    <2>4. j \in 1 .. Len(front) + Len(tools) /\ ~(j <= Len(front)) /\ j - Len(front) = k
      BY <1>2, <2>1, <2>3
    <2> HIDE DEF j
    <2>5. all[j] = e /\ j \in DOMAIN all
      BY <1>2, <2>2, <2>3, <2>4
    <2> QED
      BY <2>2, <2>5
  <1>6. d \in Seq(Some) /\ d \in Seq(Entry) /\ Extends(d, <<>>, all, key)
    <2>1. d = Distinct(<<>>, all, key)
      BY DEF Retrievals, all
    <2> HIDE DEF d, key
    <2>2. <<>> \in Seq(Some) /\ DOMAIN <<>> = {}
      OBVIOUS
    <2>3. KeysDiffer(<<>>, key) /\ \A i \in DOMAIN <<>> : <<>>[i] \in DOMAIN key
      BY <2>2 DEF KeysDiffer
    <2>4. d \in Seq(Some) /\ Extends(d, <<>>, all, key)
      BY <1>5, <2>1, <2>2, <2>3, DistinctHolds
    <2>5. \A i \in 1 .. Len(d) : d[i] \in Entry
      BY <2>4 DEF Extends, key
    <2> QED
      BY <2>4, <2>5
  <1> HIDE DEF d
  <1>7. e \in ToSet(d)
    <2>1. PICK j \in DOMAIN all : all[j] = e
      BY <1>5
    <2>2. all[j] \in DOMAIN key
      BY <1>3, <2>1
    <2>3. \A i \in DOMAIN d : d[i] \in DOMAIN key
      BY <1>6 DEF Extends
    <2>4. \A x \in DOMAIN key : key[x] = x
      OBVIOUS
    <2> HIDE DEF key
    <2>5. PICK i \in DOMAIN d : key[d[i]] = key[all[j]]
      BY <1>6, <2>2 DEF Extends
    <2>6. d[i] = e
      BY <2>1, <2>2, <2>3, <2>4, <2>5
    <2> QED
      BY <2>6 DEF ToSet
  <1>8. buildRetrievalLedger(b, results) = d
    <2>1. Len(d) <= MaxLedger /\ MaxLedger \in Nat
      BY PolicyAssumption DEF d, PolicyAssumption
    <2>2. Cut(d, MaxLedger) = d
      BY <1>6, <2>1, CutHolds
    <2> QED
      BY <2>2 DEF buildRetrievalLedger, d
  <1> QED
    BY <1>3, <1>6, <1>7, <1>8

\* What Parse publishes is a block of the answer, governed by what the tools returned and by what
\* the block says itself.
LEMMA ParseHolds ==
    ASSUME NEW blocks, NEW n \in Nat, DOMAIN blocks \subseteq 0 .. n,
           \A k \in DOMAIN blocks : IsBlock(blocks[k]),
           NEW results, NEW v2, v2 = Parse(blocks, results), v2 # NoFields
    PROVE  \E k \in DOMAIN blocks :
             /\ Governed(v2, blocks[k], buildRetrievalLedger(blocks[k], results))
             /\ Told(v2, blocks[k], Added(v2))
             /\ v2.root /\ ~v2.fix => Len(v2.missingContext) >= 1 /\ Last(v2.missingContext) = "noFix"
  <1> DEFINE usable == {k \in DOMAIN blocks : Usable(blocks[k])}
             m == Max(usable)
             b == blocks[m]
             retrieval == buildRetrievalLedger(b, results)
             v1 == applyEvidencePolicy(Fields(b), retrieval)
  <1>1. usable # {} /\ v2 = WithNotes(v1, b)
    <2>1. usable # {}
      BY DEF Parse
    <2> QED
      BY <2>1 DEF Parse
  <1>2. m \in DOMAIN blocks
    <2>1. usable \subseteq 0 .. n
      OBVIOUS
    <2>2. usable \subseteq DOMAIN blocks
      OBVIOUS
    <2> HIDE DEF usable
    <2>3. m \in usable
      BY <1>1, <2>1, MaxOf
    <2> QED
      BY <2>2, <2>3
  <1> HIDE DEF m, usable
  <1>3. IsBlock(b)
    BY <1>2
  <1> HIDE DEF b, retrieval
  <1>4. Governed(v1, b, retrieval) /\ Told(v1, b, 0)
    BY <1>3, PolicyGoverns
  <1> HIDE DEF v1
  <1>5. /\ Governed(v2, b, retrieval) /\ Told(v2, b, Added(v2))
        /\ v2.root /\ ~v2.fix => Len(v2.missingContext) >= 1 /\ Last(v2.missingContext) = "noFix"
    BY <1>1, <1>3, <1>4, NotesKeep
  <1> QED
    BY <1>2, <1>5 DEF b, retrieval

\* The published fields are governed by the ledger as it is: no tool returns after the answer is parsed.
FieldsInv ==
    fields # NoFields =>
        /\ pc = "parsed"
        /\ \E k \in DOMAIN Blocks : fields.block = Blocks[k]
        /\ Governed(fields, fields.block, buildRetrievalLedger(fields.block, ledger))
        /\ Told(fields, fields.block, Added(fields))
        /\ fields.root /\ ~fields.fix =>
             Len(fields.missingContext) >= 1 /\ Last(fields.missingContext) = "noFix"

PhaseInv == pc \in {"streaming", "parsed", "failed"}

LEMMA EndSteps == ASSUME AnswerInv, FieldsInv, End PROVE FieldsInv'
  <1> DEFINE blocks == [k \in {j \in DOMAIN out : out[j] # 0} |-> Blocks[out[k]]]
  <1>1. fields' = Parse(blocks, ledger) /\ pc' = "parsed" /\ ledger' = ledger
    BY DEF End
  <1>2. out \in Seq(Pieces)
    BY DEF AnswerInv, AnswerTyped
  <1>3. DOMAIN blocks \subseteq 0 .. Len(out) /\ Len(out) \in Nat
    BY <1>2
  <1>4. ASSUME NEW k \in DOMAIN blocks PROVE blocks[k] = Blocks[out[k]] /\ out[k] \in DOMAIN Blocks
    <2>1. k \in DOMAIN out /\ out[k] # 0 /\ out[k] \in Pieces
      BY <1>2
    <2>2. out[k] \in 1 .. Len(Blocks)
      BY <2>1, BlocksAreSequence DEF Pieces
    <2> QED
      BY <2>2, BlocksAreSequence
  <1>5. \A k \in DOMAIN blocks : IsBlock(blocks[k])
    BY <1>4, StreamAssumption DEF StreamAssumption
  <1> HIDE DEF blocks
  <1>6. CASE fields' # NoFields
    <2> DEFINE f == fields'
    <2>1. f = Parse(blocks, ledger) /\ f # NoFields
      BY <1>1, <1>6
    <2> HIDE DEF f
    <2>2. PICK k \in DOMAIN blocks :
            /\ Governed(f, blocks[k], buildRetrievalLedger(blocks[k], ledger))
            /\ Told(f, blocks[k], Added(f))
            /\ f.root /\ ~f.fix => Len(f.missingContext) >= 1 /\ Last(f.missingContext) = "noFix"
      BY <1>3, <1>5, <2>1, ParseHolds
    <2>3. f.block = blocks[k]
      BY <2>2 DEF Governed
    <2>4. \E j \in DOMAIN Blocks : f.block = Blocks[j]
      BY <1>4, <2>3
    <2>5. /\ Governed(f, f.block, buildRetrievalLedger(f.block, ledger))
          /\ Told(f, f.block, Added(f))
          /\ f.root /\ ~f.fix => Len(f.missingContext) >= 1 /\ Last(f.missingContext) = "noFix"
      BY <2>2, <2>3
    <2> QED
      BY <1>1, <2>4, <2>5 DEF f, FieldsInv
  <1>7. CASE fields' = NoFields
    BY <1>7 DEF FieldsInv
  <1> QED
    BY <1>6, <1>7

AnalysisInv == AnswerInv /\ LedgerInv /\ FieldsInv /\ PhaseInv

LEMMA AnalysisInvariant == Spec => []AnalysisInv
  <1>1. Init => AnalysisInv
    BY AnswerInitial, LedgerInitial DEF Init, AnalysisInv, FieldsInv, PhaseInv
  <1>2. AnalysisInv /\ [Next]_vars => AnalysisInv'
    <2> SUFFICES ASSUME AnalysisInv, [Next]_vars PROVE AnalysisInv'
      OBVIOUS
    <2>1. AnswerInv' /\ LedgerInv'
      BY AnswerSteps, LedgerSteps DEF AnalysisInv
    <2>2. FieldsInv' /\ PhaseInv'
      <3>1. CASE End
        BY <3>1, EndSteps DEF AnalysisInv, End, PhaseInv
      <3>2. CASE UNCHANGED <<fields, pc, ledger>>
        BY <3>2 DEF AnalysisInv, FieldsInv, PhaseInv
      <3>3. CASE pc = "streaming" /\ fields' = fields /\ pc' \in {"streaming", "failed"}
        <4>1. fields = NoFields
          BY <3>3 DEF AnalysisInv, FieldsInv
        <4> QED
          BY <3>3, <4>1 DEF FieldsInv, PhaseInv
      <3> QED
        BY <3>1, <3>2, <3>3 DEF Next, vars, Say, SayAgain, NextMessage, ToolReturns, Fail
    <2> QED
      BY <2>1, <2>2 DEF AnalysisInv
  <1> QED
    BY <1>1, <1>2, PTL DEF Spec

-----------------------------------------------------------------------------
(* The theorems. *)

\* The answer and the ledger hold only what was sent, every ledger entry once, and fields are there
\* only of an answer that was parsed (a2a.go:37-139).
THEOREM AnalysisTypes == Spec => []TypeOK
  <1>1. AnalysisInv => TypeOK
    <2> SUFFICES ASSUME AnalysisInv PROVE TypeOK
      OBVIOUS
    <2>1. fields # NoFields => fields.block \in ToSet(Blocks) /\ fields.confidence \in Confidences /\ pc = "parsed"
      BY DEF AnalysisInv, FieldsInv, Governed, ToSet
    <2>2. IsInjective(ledger)
      BY LedgerIsInjective DEF AnalysisInv
    <2> QED
      BY <2>1, <2>2 DEF TypeOK, AnalysisInv, PhaseInv, AnswerInv, AnswerTyped, OnlySaid, LedgerInv
  <1> QED
    BY <1>1, AnalysisInvariant, PTL

\* For any agent, a message sent as snapshots, and an answer sent as deltas none of which repeats, is
\* put together as it was said, however often its last text comes again (a2a.go:126-133).
THEOREM AnswerIsWhole == Spec => []AnswerOnce
  <1>1. AnalysisInv => AnswerOnce
    BY DEF AnalysisInv, AnswerInv
  <1> QED
    BY <1>1, AnalysisInvariant, PTL

\* For any agent, over any number of messages sent in either way, the last block of the answer is the
\* last block the agent said (a2a.go:126-133).
THEOREM ConclusionStands == Spec => []ConclusionKept
  <1>1. AnalysisInv => ConclusionKept
    BY DEF AnalysisInv, AnswerInv
  <1> QED
    BY <1>1, AnalysisInvariant, PTL

\* No analysis publishes more confidence than its block declared, or a confidence it did not
\* declare, whatever its tools returned (policy.go:408).
THEOREM ConfidenceNeverRaised == Spec => []NeverRaised
  <1>1. AnalysisInv => NeverRaised
    BY DEF AnalysisInv, FieldsInv, Governed, NeverRaised, Concluded
  <1> QED
    BY <1>1, AnalysisInvariant, PTL

\* For any blocks and limits, missingContext stays within its length, ends with the missing scripts,
\* and tells of the gap first, or where the agent wrote that line itself, unless it is among the last
\* lines, which make room for the notes (policy.go:476-480, report.go:544-551).
THEOREM GapsAreTold == Spec => []GapsTold
  <1>1. AnalysisInv => GapsTold
    BY DEF AnalysisInv, FieldsInv, Governed, Told, GapsTold
  <1> QED
    BY <1>1, AnalysisInvariant, PTL

\* For any tools, results, scopes and blocks: once a tool reports that the analyzer was refused, no
\* analysis whose results, and whose retrievals by class, scope and outcome, fit their limits claims
\* more than the ceiling of a denial, whatever its other calls returned and its block declares
\* (policy.go:241-267 and 399-462).
THEOREM DenialsBound == Spec => []DenialBounds
  <1>1. AnalysisInv => DenialBounds
    <2> SUFFICES ASSUME AnalysisInv, Concluded, Len(ledger) <= MaxEntries,
                        Len(Retrievals(fields.block, ledger)) <= MaxLedger,
                        NEW k \in DOMAIN returned, First(k), toolOutcome(returned[k]) = "denied"
                 PROVE  fields.confidence <= confidenceCeiling.denied
      BY DEF DenialBounds
    <2> DEFINE b == fields.block
               retrieval == buildRetrievalLedger(b, ledger)
    <2>1. /\ IsBlock(b) /\ Governed(fields, b, retrieval) /\ fields.root
      BY StreamAssumption DEF AnalysisInv, FieldsInv, Concluded, StreamAssumption
    <2>2. ledger \in Seq(ToolResult)
      <3>1. ledger \in Seq(Results) /\ Results \subseteq ToolResult
        BY StreamAssumption DEF AnalysisInv, LedgerInv, StreamAssumption
      <3> QED
        BY <3>1, SeqMonotonic
    <2>3. PICK j \in DOMAIN ledger : toolOutcome(ledger[j]) = "denied"
      BY DEF AnalysisInv, LedgerInv, ToSet
    <2> HIDE DEF b
    <2>4. retrieval \in Seq(Entry) /\ \E e \in ToSet(retrieval) : e.outcome = "denied"
      <3>1. Len(Retrievals(b, ledger)) <= MaxLedger
        BY DEF b
      <3> QED
        BY <2>1, <2>2, <2>3, <3>1, DenialIsRetrieved
    <2> HIDE DEF retrieval
    <2>5. confidenceCeiling.denied \in Ceilings(Fields(b), retrieval)
      BY <2>4, DenialGoverns
    <2> QED
      BY <2>1, <2>5 DEF Governed
  <1> QED
    BY <1>1, AnalysisInvariant, PTL

=============================================================================
