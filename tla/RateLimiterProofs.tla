------------------------- MODULE RateLimiterProofs -------------------------
(***************************************************************************)
(* Proofs about RateLimiter, for any number of callers and keys, any       *)
(* window, lag and limits, and an administrator who changes the limit: the *)
(* limiter never lets more through than the largest limit, and never locks *)
(* a caller out without cause.                                             *)
(***************************************************************************)
EXTENDS RateLimiter, FiniteSetTheorems, TLAPS

USE WindowAssumption, LimitsAssumption, TimeAssumption

(***************************************************************************)
(* The strengthening.  The queue of a key holds the readings of calls that *)
(* were admitted, each once, in the order in which they had the lock; none *)
(* is missing that could still be inside the window of a caller.           *)
(***************************************************************************)
Labels == {"idle", "unlimited", "clock", "waiting", "admitted", "refused"}

LimiterTypeOK ==
    /\ now \in Nat
    /\ limit \in Limits
    /\ entries \in [Keys -> Seq(Nat)]
    /\ pc \in [Calls -> Labels]
    /\ key \in [Calls -> Keys]
    /\ bound \in [Calls -> Nat]
    /\ reading \in [Calls -> Nat]

Admitted == {c \in Calls : pc[c] = "admitted"}

\* A caller that waits for the lock has read the clock not long ago, and a limit in force.
CallsInTime ==
    \A c \in Calls : /\ reading[c] <= now
                     /\ pc[c] = "waiting" => now <= reading[c] + MaxLag
                     /\ pc[c] \in {"clock", "waiting"} => bound[c] \in Limits

\* s names the calls whose readings q holds.
Holds(q, k, s) ==
    /\ s \in Seq(Admitted) /\ Len(s) = Len(q)
    /\ \A i \in 1..Len(q) : key[s[i]] = k /\ reading[s[i]] = q[i]
    /\ \A i, j \in 1..Len(q) : s[i] = s[j] => i = j

\* Readings may come out of order, by no more than the lag.
NearlySorted(q) == \A i, j \in 1..Len(q) : i < j => q[i] <= q[j] + MaxLag

\* A call that was admitted within a window of now has its reading in q.
NoneMissing(q, k, s) ==
    \A c \in Admitted : key[c] = k /\ now <= reading[c] + Window => \E i \in 1..Len(q) : s[i] = c

QueueInv(q, k) ==
    /\ NearlySorted(q)
    /\ \E s : Holds(q, k, s) /\ NoneMissing(q, k, s)

LimiterInv ==
    /\ LimiterTypeOK
    /\ CallsInTime
    /\ IsFiniteSet(Admitted)
    /\ \A k \in Keys : QueueInv(entries[k], k)
    /\ WindowLimit
    /\ RefusalHasCause

-----------------------------------------------------------------------------
(* Extremes of sets of numbers.                                            *)

\* A nonempty set of natural numbers has a least element.
LEMMA LeastNatural ==
    ASSUME NEW T \in SUBSET Nat, T # {}
    PROVE  \E n \in T : \A m \in T : n <= m
<1>1. PICK R : R = {pair \in Nat \X Nat : pair[1] < pair[2]}
  OBVIOUS
<1>2. IsWellFoundedOn(R, Nat)
  BY <1>1, NatLessThanWellFounded DEF OpToRel
<1>3. PICK n \in T : \A m \in T : ~(<<m, n>> \in R)
  BY <1>2, WFMin, Zenon
<1>4. \A m \in T : m < n => <<m, n>> \in R
  BY <1>1
<1>5. \A m \in T : ~(m < n)
  BY <1>3, <1>4, Zenon
<1>6. n \in Nat /\ \A m \in T : m \in Nat
  OBVIOUS
<1> QED BY <1>5, <1>6

LEMMA LeastOf ==
    ASSUME NEW S \in SUBSET Nat, S # {}
    PROVE  Min(S) \in S /\ \A n \in S : Min(S) <= n
<1>1. \E m \in S : \A n \in S : m <= n
  BY LeastNatural
<1> QED BY <1>1, Zenon DEF Min

LEMMA GreatestOf ==
    ASSUME NEW S \in SUBSET Nat, IsFiniteSet(S), S # {}
    PROVE  Max(S) \in S /\ \A n \in S : n <= Max(S)
<1> DEFINE Unbounded == {A \in SUBSET S : \A b \in Nat : \E n \in A : n > b}
<1>1. Unbounded = {}
  <2> SUFFICES ASSUME Unbounded # {} PROVE FALSE
    OBVIOUS
  <2>1. Unbounded \subseteq FiniteSubsetsOf(S)
    BY FS_Subset DEF FiniteSubsetsOf
  <2>2. PICK A \in Unbounded : \A C \in Unbounded : ~(<<C, A>> \in StrictSubsetOrdering(S))
    <3> HIDE DEF Unbounded
    <3> QED BY <2>1, FS_StrictSubsetOrderingWellFounded, WFMin, Zenon
  <2>3. PICK x \in A : x > 0
    BY <2>2
  <2>4. A \ {x} \notin Unbounded
    <3>1. <<A \ {x}, A>> \in StrictSubsetOrdering(S)
      BY <2>2, <2>3 DEF StrictSubsetOrdering
    <3> QED BY <2>2, <3>1
  <2>5. PICK b \in Nat : \A n \in A \ {x} : n <= b
    BY <2>2, <2>4
  <2>6. x \in Nat /\ b + x \in Nat
    BY <2>2, <2>3
  <2>7. \A n \in A : n <= b + x
    BY <2>2, <2>5, <2>6
  <2> QED BY <2>2, <2>6, <2>7
<1>2. \E b \in Nat : \A n \in S : n <= b
  BY <1>1
<1> HIDE DEF Unbounded
<1> DEFINE B == {b \in Nat : \A n \in S : n <= b}
<1>4. PICK b \in B : \A c \in B : b <= c
  <2>1. B \in SUBSET Nat /\ B # {}
    BY <1>2
  <2> HIDE DEF B
  <2> QED BY <2>1, LeastNatural
<1>5. b \in S
  <2> SUFFICES ASSUME b \notin S PROVE FALSE
    OBVIOUS
  <2>1. \A n \in S : n \in Nat /\ n <= b /\ n # b
    OBVIOUS
  <2>2. PICK x \in S : TRUE
    OBVIOUS
  <2>3. b - 1 \in Nat
    BY <2>1, <2>2
  <2>4. \A n \in S : n <= b - 1
    BY <2>1
  <2>5. b - 1 \in B
    BY <2>3, <2>4
  <2> QED BY <1>4, <2>5
<1>6. \E m \in S : \A n \in S : m >= n
  BY <1>5
<1>7. Max(S) \in S /\ \A n \in S : Max(S) >= n
  BY <1>6, Zenon DEF Max
<1> QED BY <1>7

LEMMA SubsetCounts ==
    ASSUME NEW S, IsFiniteSet(S), NEW A \in SUBSET S
    PROVE  IsFiniteSet(A) /\ Cardinality(A) \in Nat /\ Cardinality(A) <= Cardinality(S)
BY FS_Subset, FS_CardinalityType

\* A sequence without repetitions counts the members of any set that it lists, and all of the
\* members when it lists every one.
LEMMA ListCounts ==
    ASSUME NEW S, IsFiniteSet(S), NEW s \in Seq(S),
           \A i, j \in 1..Len(s) : s[i] = s[j] => i = j
    PROVE  /\ Cardinality({s[i] : i \in 1..Len(s)}) = Len(s)
           /\ IsFiniteSet({s[i] : i \in 1..Len(s)})
<1> DEFINE n == Len(s)
           R == {s[i] : i \in 1..n}
           f == [i \in 1..n |-> s[i]]
<1>1. n \in Nat
  OBVIOUS
<1>2. f \in Bijection(1..n, R)
  <2>1. f \in [1..n -> R] /\ \A r \in R : \E i \in 1..n : f[i] = r
    OBVIOUS
  <2>2. \A i, j \in 1..n : f[i] = f[j] => i = j
    OBVIOUS
  <2> HIDE DEF f, R, n
  <2> QED BY <2>1, <2>2 DEF Bijection, Injection, Surjection, IsInjective
<1> HIDE DEF f, R, n
<1>3. ExistsBijection(1..n, R)
  BY <1>2 DEF ExistsBijection
<1>4. Cardinality(R) = n
  BY <1>1, <1>3, FS_CountingElements
<1>5. IsFiniteSet(R)
  BY <1>1, <1>3, FS_NatBijection
<1> QED BY <1>4, <1>5 DEF R, n

-----------------------------------------------------------------------------
(* Pruning.                                                                *)

\* Indices from a to b of a sequence.
LEMMA Slice ==
    ASSUME NEW S, NEW q \in Seq(S), NEW m \in 1..Len(q)
    PROVE  /\ SubSeq(q, m, Len(q)) \in Seq(S)
           /\ Len(SubSeq(q, m, Len(q))) = Len(q) - m + 1
           /\ \A i \in 1..(Len(q) - m + 1) : SubSeq(q, m, Len(q))[i] = q[i + m - 1]
OBVIOUS

\* What is left of a queue once a waiting call has pruned it: nothing that still counts is lost,
\* and what is kept is no older than the window and the lag.
Pruned(c, p, s) ==
    /\ p \in Seq(Nat)
    /\ NearlySorted(p)
    /\ Holds(p, key[c], s)
    /\ NoneMissing(p, key[c], s)
    /\ \A i \in 1..Len(p) : reading[c] - Window - MaxLag <= p[i] /\ p[i] <= now

LEMMA PruneKeeps ==
    ASSUME LimiterTypeOK, CallsInTime, NEW c \in Calls, pc[c] = "waiting",
           QueueInv(entries[key[c]], key[c])
    PROVE  \E s : Pruned(c, Recent(c), s)
<1> DEFINE k == key[c]
           q == entries[k]
           live == {i \in DOMAIN q : ~ Expired(c, q[i])}
<1>1. PICK s : Holds(q, k, s) /\ NoneMissing(q, k, s)
  BY DEF QueueInv
<1>2. q \in Seq(Nat) /\ k \in Keys /\ reading[c] \in Nat /\ now \in Nat /\ reading[c] <= now
  BY DEF LimiterTypeOK, CallsInTime
<1>3. s \in Seq(Admitted) /\ Len(s) = Len(q)
  BY <1>1 DEF Holds
<1>4. NearlySorted(q)
  BY DEF QueueInv
<1>5. CASE live = {}
  <2>1. Recent(c) = <<>>
    BY <1>5 DEF Recent
  <2>2. \A i \in 1..Len(q) : reading[c] - q[i] > Window
    BY <1>2, <1>5 DEF Expired
  <2>3. \A a \in Admitted : key[a] = k => ~(now <= reading[a] + Window)
    <3> SUFFICES ASSUME NEW a \in Admitted, key[a] = k, now <= reading[a] + Window PROVE FALSE
      OBVIOUS
    <3>1. PICK i \in 1..Len(q) : s[i] = a
      BY <1>1 DEF NoneMissing
    <3>2. reading[a] = q[i]
      BY <1>1, <3>1 DEF Holds
    <3>3. q[i] \in Nat
      BY <1>2
    <3> DEFINE x == q[i]
    <3>4. reading[c] - x > Window /\ x \in Nat /\ reading[a] = x
      BY <2>2, <3>2, <3>3
    <3>5. now \in Nat /\ reading[c] \in Nat /\ reading[c] <= now
      BY <1>2
    <3> HIDE DEF x
    <3> QED BY <3>4, <3>5
  <2>4. Holds(<<>>, k, <<>>)
    BY DEF Holds
  <2>5. NoneMissing(<<>>, k, <<>>)
    BY <2>3 DEF NoneMissing
  <2>6. NearlySorted(<<>>)
    BY DEF NearlySorted
  <2> QED BY <2>1, <2>4, <2>5, <2>6 DEF Pruned
<1>6. CASE live # {}
  <2> DEFINE m == Min(live)
             p == SubSeq(q, m, Len(q))
             r == SubSeq(s, m, Len(s))
             n == Len(q) - m + 1
  <2>1. live \in SUBSET Nat /\ live \subseteq 1..Len(q)
    BY <1>2
  <2>2. m \in live /\ \A i \in live : m <= i
    <3> HIDE DEF live
    <3> QED BY <1>6, <2>1, LeastOf
  <2>3. m \in 1..Len(q) /\ Len(q) \in Nat
    BY <1>2, <2>1, <2>2
  <2>4. q[m] \in Nat /\ reading[c] - Window <= q[m]
    <3>1. ~(reading[c] - q[m] > Window)
      BY <2>2 DEF Expired
    <3>2. q[m] \in Nat
      <4> HIDE DEF m, q
      <4> QED BY <1>2, <2>3
    <3> HIDE DEF m, q
    <3> QED BY <1>2, <3>1, <3>2
  <2>5. \A i \in 1..(m - 1) : reading[c] - q[i] > Window
    <3> TAKE i \in 1..(m - 1)
    <3>1. i \in DOMAIN q /\ ~(m <= i)
      <4> HIDE DEF m
      <4> QED BY <1>2, <2>3
    <3>2. i \notin live
      <4> HIDE DEF m, live
      <4> QED BY <2>2, <3>1
    <3> QED BY <3>1, <3>2 DEF Expired
  <2>6. Recent(c) = p
    BY <1>6 DEF Recent
  <2> HIDE DEF m, live
  <2>7. p \in Seq(Nat) /\ Len(p) = n /\ \A i \in 1..n : p[i] = q[i + m - 1]
    <3> HIDE DEF q
    <3> QED BY <1>2, <2>3, Slice
  <2>8. r \in Seq(Admitted) /\ Len(r) = n /\ \A i \in 1..n : r[i] = s[i + m - 1]
    <3> HIDE DEF q
    <3>1. m \in 1..Len(s)
      BY <1>3, <2>3
    <3> QED BY <1>3, <3>1, Slice
  <2> HIDE DEF p, r
  <2>9. n \in Nat /\ \A i \in 1..n : i + m - 1 \in 1..Len(q)
    BY <2>3
  <2>10. Holds(p, k, r)
    <3>1. \A i \in 1..n : key[r[i]] = k /\ reading[r[i]] = p[i]
      <4> TAKE i \in 1..n
      <4> DEFINE j == i + m - 1
      <4>1. j \in 1..Len(q) /\ r[i] = s[j] /\ p[i] = q[j]
        BY <2>7, <2>8, <2>9
      <4> HIDE DEF j, n
      <4>2. key[s[j]] = k /\ reading[s[j]] = q[j]
        BY <1>1, <4>1 DEF Holds
      <4> QED BY <4>1, <4>2
    <3>2. \A i, j \in 1..n : r[i] = r[j] => i = j
      <4> TAKE i, j \in 1..n
      <4>1. i + m - 1 \in 1..Len(q) /\ j + m - 1 \in 1..Len(q)
        BY <2>9
      <4>2. r[i] = r[j] => i + m - 1 = j + m - 1
        BY <1>1, <2>8, <4>1 DEF Holds
      <4> QED BY <2>3, <4>2
    <3> QED BY <2>7, <2>8, <3>1, <3>2 DEF Holds
  <2>11. NoneMissing(p, k, r)
    <3> SUFFICES ASSUME NEW a \in Admitted, key[a] = k, now <= reading[a] + Window
                 PROVE  \E i \in 1..Len(p) : r[i] = a
      BY DEF NoneMissing
    <3>1. PICK i \in 1..Len(q) : s[i] = a
      BY <1>1 DEF NoneMissing
    <3>2. reading[a] = q[i] /\ q[i] \in Nat
      BY <1>1, <1>2, <3>1 DEF Holds
    <3>3. i >= m
      <4> SUFFICES ASSUME i < m PROVE FALSE
        BY <2>3
      <4>1. i \in 1..(m - 1)
        BY <2>3
      <4>2. reading[c] - q[i] > Window
        BY <2>5, <4>1
      <4> DEFINE x == q[i]
      <4>3. reading[c] - x > Window /\ x \in Nat /\ reading[a] = x
        BY <3>2, <4>2
      <4> HIDE DEF x
      <4>4. now \in Nat /\ reading[c] \in Nat /\ reading[c] <= now
        BY <1>2
      <4> QED BY <4>3, <4>4
    <3>4. i - m + 1 \in 1..n /\ (i - m + 1) + m - 1 = i
      BY <2>3, <3>3
    <3> QED BY <2>7, <2>8, <3>1, <3>4
  <2>12. NearlySorted(p)
    <3>1. \A i, j \in 1..n : i < j => p[i] <= p[j] + MaxLag
      <4> TAKE i, j \in 1..n
      <4>1. i + m - 1 \in 1..Len(q) /\ j + m - 1 \in 1..Len(q)
        BY <2>9
      <4>2. i < j => i + m - 1 < j + m - 1
        BY <2>3
      <4> QED BY <1>4, <2>7, <4>1, <4>2 DEF NearlySorted
    <3> QED BY <2>7, <3>1 DEF NearlySorted
  <2>13. \A i \in 1..n : reading[c] - Window - MaxLag <= p[i] /\ p[i] <= now
    <3> TAKE i \in 1..n
    <3> DEFINE j == i + m - 1
    <3>1. /\ j \in 1..Len(q) /\ p[i] = q[j] /\ m <= j
          /\ q[j] \in Nat /\ p[i] \in Nat
      <4> HIDE DEF q
      <4>1. j \in 1..Len(q) /\ p[i] = q[j]
        BY <2>7, <2>9
      <4>2. m <= j
        BY <2>3
      <4> HIDE DEF j
      <4>3. q[j] \in Nat
        BY <1>2, <4>1
      <4> QED BY <4>1, <4>2, <4>3
    <3>2. s[j] \in Calls /\ reading[s[j]] = q[j]
      <4>1. s[j] \in Admitted
        BY <1>3, <3>1
      <4> QED BY <1>1, <3>1, <4>1 DEF Holds, Admitted
    <3>3. q[j] <= now
      BY <3>2 DEF CallsInTime
    <3> HIDE DEF j
    <3>4. q[m] <= q[j] + MaxLag
      <4>1. CASE j = m
        BY <2>4, <4>1
      <4>2. CASE m < j
        BY <1>4, <2>3, <3>1, <4>2 DEF NearlySorted
      <4> QED BY <2>3, <3>1, <4>1, <4>2
    <3> DEFINE x == q[m]
               y == q[j]
    <3>5. /\ x \in Nat /\ y \in Nat /\ p[i] = y /\ reading[c] - Window <= x
          /\ x <= y + MaxLag /\ y <= now
      BY <2>4, <3>1, <3>3, <3>4
    <3>6. reading[c] \in Nat
      BY <1>2
    <3> HIDE DEF x, y
    <3> QED BY <3>5, <3>6
  <2> QED BY <2>6, <2>7, <2>10, <2>11, <2>12, <2>13 DEF Pruned
<1> QED BY <1>5, <1>6

-----------------------------------------------------------------------------
(* The steps.                                                              *)

LEMMA InitLimiter == Init => LimiterInv
<1> SUFFICES ASSUME Init PROVE LimiterInv
  OBVIOUS
<1>1. LimiterTypeOK
  BY DEF Init, LimiterTypeOK, Labels
<1>2. CallsInTime
  BY DEF Init, CallsInTime
<1>3. Admitted = {}
  BY DEF Init, Admitted
<1>4. IsFiniteSet({}) /\ Cardinality({}) = 0
  BY FS_EmptySet
<1>5. ASSUME NEW k \in Keys PROVE QueueInv(entries[k], k)
  <2>1. entries[k] = <<>>
    BY DEF Init
  <2>2. NearlySorted(<<>>) /\ Holds(<<>>, k, <<>>) /\ NoneMissing(<<>>, k, <<>>)
    BY <1>3 DEF NearlySorted, Holds, NoneMissing
  <2> QED BY <2>1, <2>2 DEF QueueInv
<1>6. WindowLimit
  <2>1. Max(Limits) \in Nat
    <3>1. limit \in Limits
      BY DEF Init
    <3>2. Limits \in SUBSET Nat /\ IsFiniteSet(Limits) /\ Limits # {}
      BY <3>1
    <3> QED BY <3>2, GreatestOf
  <2>2. \A k, a, b : AdmittedBetween(k, a, b) = {}
    BY DEF Init, AdmittedBetween
  <2> QED BY <1>4, <2>1, <2>2 DEF WindowLimit
<1>7. RefusalHasCause
  BY DEF Init, RefusalHasCause
<1> QED BY <1>1, <1>2, <1>3, <1>4, <1>5, <1>6, <1>7 DEF LimiterInv

\* A step that admits and refuses nobody leaves the queues and the counts as they are.
LEMMA Undisturbed ==
    ASSUME LimiterInv, entries' = entries, key' = key, Admitted' = Admitted,
           now \in Nat, now' \in Nat, now <= now',
           \A a \in Admitted : reading'[a] = reading[a],
           \A c \in Calls : pc'[c] = "refused" => /\ pc[c] = "refused"
                                                  /\ bound'[c] = bound[c]
                                                  /\ reading'[c] = reading[c]
    PROVE  /\ IsFiniteSet(Admitted')
           /\ (\A k \in Keys : QueueInv(entries[k], k))'
           /\ WindowLimit'
           /\ RefusalHasCause'
<1>1. IsFiniteSet(Admitted')
  BY DEF LimiterInv
<1>2. \A k, a, b : AdmittedBetween(k, a, b)' = AdmittedBetween(k, a, b)
  BY DEF AdmittedBetween, Admitted
<1>3. WindowLimit'
  BY <1>2 DEF WindowLimit, LimiterInv
<1>4. RefusalHasCause'
  BY <1>2 DEF RefusalHasCause, LimiterInv
<1>5. ASSUME NEW k \in Keys PROVE QueueInv(entries[k], k)'
  <2> DEFINE q == entries[k]
  <2>1. NearlySorted(q) /\ \E s : Holds(q, k, s) /\ NoneMissing(q, k, s)
    BY DEF LimiterInv, QueueInv
  <2>2. PICK s : Holds(q, k, s) /\ NoneMissing(q, k, s)
    BY <2>1
  <2>3. q' = q
    OBVIOUS
  <2> HIDE DEF q
  <2>4. NearlySorted(q)'
    BY <2>1, <2>3 DEF NearlySorted
  <2>5. (Holds(q, k, s))'
    <3>1. \A i \in 1..Len(q) : s[i] \in Admitted
      BY <2>2 DEF Holds
    <3> QED BY <2>2, <2>3, <3>1 DEF Holds
  <2>6. (NoneMissing(q, k, s))'
    <3> SUFFICES ASSUME NEW a \in Admitted, key[a] = k, now' <= reading[a] + Window
                 PROVE  \E i \in 1..Len(q) : s[i] = a
      BY <2>3 DEF NoneMissing
    <3>1. reading[a] \in Nat
      BY DEF LimiterInv, LimiterTypeOK, Admitted
    <3>2. now <= reading[a] + Window
      BY <3>1
    <3> QED BY <2>2, <3>2 DEF NoneMissing
  <2> QED BY <2>4, <2>5, <2>6 DEF QueueInv, q
<1> QED BY <1>1, <1>3, <1>4, <1>5

LEMMA TickStep ==
    ASSUME LimiterInv, Tick PROVE LimiterInv'
<1>1. LimiterTypeOK'
  BY DEF LimiterInv, LimiterTypeOK, Tick
<1>2. CallsInTime'
  <2> SUFFICES ASSUME NEW c \in Calls
               PROVE  /\ reading[c] <= now + 1
                      /\ pc[c] = "waiting" => now + 1 <= reading[c] + MaxLag
                      /\ pc[c] \in {"clock", "waiting"} => bound[c] \in Limits
    BY DEF CallsInTime, Tick
  <2>1. now \in Nat /\ reading[c] \in Nat /\ reading[c] <= now
    BY DEF LimiterInv, LimiterTypeOK, CallsInTime
  <2>2. pc[c] = "waiting" => now < reading[c] + MaxLag
    BY DEF Tick
  <2>3. pc[c] \in {"clock", "waiting"} => bound[c] \in Limits
    BY DEF LimiterInv, CallsInTime
  <2> QED BY <2>1, <2>2, <2>3
<1>3. /\ entries' = entries /\ key' = key /\ reading' = reading /\ pc' = pc /\ bound' = bound
      /\ now' = now + 1 /\ now \in Nat
  BY DEF LimiterInv, LimiterTypeOK, Tick
<1>4. Admitted' = Admitted
  BY <1>3 DEF Admitted
<1>5. now' \in Nat /\ now <= now'
  BY <1>3
<1> QED BY <1>1, <1>2, <1>3, <1>4, <1>5, Undisturbed DEF LimiterInv

LEMMA SetLimitStep ==
    ASSUME LimiterInv, SetLimit \/ UNCHANGED vars PROVE LimiterInv'
<1>1. /\ entries' = entries /\ key' = key /\ reading' = reading /\ pc' = pc /\ bound' = bound
      /\ now' = now /\ limit' \in Limits /\ now \in Nat
  BY DEF LimiterInv, LimiterTypeOK, SetLimit, vars
<1>2. LimiterTypeOK'
  BY <1>1 DEF LimiterInv, LimiterTypeOK
<1>3. CallsInTime'
  BY <1>1 DEF LimiterInv, CallsInTime
<1>4. Admitted' = Admitted
  BY <1>1 DEF Admitted
<1> QED BY <1>1, <1>2, <1>3, <1>4, Undisturbed DEF LimiterInv

LEMMA LoadLimitStep ==
    ASSUME LimiterInv, NEW c \in Calls, LoadLimit(c) PROVE LimiterInv'
<1>1. /\ entries' = entries /\ key' = key /\ reading' = reading /\ now' = now
      /\ limit' = limit /\ now \in Nat /\ limit \in Limits
  BY DEF LimiterInv, LimiterTypeOK, LoadLimit
<1>2. /\ pc[c] = "idle" /\ pc'[c] \in {"unlimited", "clock"} /\ bound'[c] = limit
      /\ \A d \in Calls \ {c} : pc'[d] = pc[d] /\ bound'[d] = bound[d]
  BY DEF LimiterInv, LimiterTypeOK, LoadLimit, Goto
<1>3. LimiterTypeOK'
  BY DEF LimiterInv, LimiterTypeOK, LoadLimit, Goto, Labels
<1>4. CallsInTime'
  BY <1>1, <1>2 DEF LimiterInv, CallsInTime
<1>5. Admitted' = Admitted
  BY <1>2 DEF Admitted
<1>6. \A d \in Calls : pc'[d] = "refused" => pc[d] = "refused" /\ bound'[d] = bound[d]
  BY <1>2
<1> QED BY <1>1, <1>3, <1>4, <1>5, <1>6, Undisturbed DEF LimiterInv

LEMMA ReadClockStep ==
    ASSUME LimiterInv, NEW c \in Calls, ReadClock(c) PROVE LimiterInv'
<1>1. /\ entries' = entries /\ key' = key /\ bound' = bound /\ now' = now
      /\ limit' = limit /\ now \in Nat
  BY DEF LimiterInv, LimiterTypeOK, ReadClock
<1>2. /\ pc[c] = "clock" /\ pc'[c] = "waiting" /\ reading'[c] = now
      /\ \A d \in Calls \ {c} : pc'[d] = pc[d] /\ reading'[d] = reading[d]
  BY DEF LimiterInv, LimiterTypeOK, ReadClock, Goto
<1>3. LimiterTypeOK'
  BY DEF LimiterInv, LimiterTypeOK, ReadClock, Goto, Labels
<1>4. CallsInTime'
  BY <1>1, <1>2 DEF LimiterInv, CallsInTime
<1>5. Admitted' = Admitted
  BY <1>2 DEF Admitted
<1>6. \A d \in Calls : pc'[d] = "refused" => pc[d] = "refused" /\ reading'[d] = reading[d]
  BY <1>2
<1>7. \A a \in Admitted : reading'[a] = reading[a]
  BY <1>2 DEF Admitted
<1> QED BY <1>1, <1>3, <1>4, <1>5, <1>6, <1>7, Undisturbed DEF LimiterInv

\* The calls that a pruned queue lists.
Listed(s) == {s[i] : i \in 1..Len(s)}

LEMMA ListedCounts ==
    ASSUME LimiterInv, NEW c \in Calls, NEW p, NEW s, Pruned(c, p, s)
    PROVE  Cardinality(Listed(s)) = Len(p) /\ IsFiniteSet(Listed(s))
<1>1. s \in Seq(Admitted) /\ Len(s) = Len(p) /\ IsFiniteSet(Admitted)
  BY DEF LimiterInv, Pruned, Holds
<1>2. \A i, j \in 1..Len(s) : s[i] = s[j] => i = j
  BY <1>1 DEF Pruned, Holds
<1> QED BY <1>1, <1>2, ListCounts DEF Listed

\* The queue of another key is left as it is.
LEMMA OtherQueues ==
    ASSUME LimiterInv, NEW k \in Keys, entries'[k] = entries[k], key' = key, now' = now,
           reading' = reading, Admitted \subseteq Admitted',
           \A a \in Admitted' \ Admitted : key[a] # k
    PROVE  QueueInv(entries[k], k)'
<1> DEFINE q == entries[k]
<1>1. PICK s : NearlySorted(q) /\ Holds(q, k, s) /\ NoneMissing(q, k, s)
  BY DEF LimiterInv, QueueInv
<1>2. q' = q
  OBVIOUS
<1> HIDE DEF q
<1>3. NearlySorted(q)'
  BY <1>1, <1>2 DEF NearlySorted
<1>4. (Holds(q, k, s))'
  BY <1>1, <1>2 DEF Holds
<1>5. (NoneMissing(q, k, s))'
  BY <1>1, <1>2 DEF NoneMissing
<1> QED BY <1>3, <1>4, <1>5 DEF QueueInv, q

LEMMA RefuseStep ==
    ASSUME LimiterInv, NEW c \in Calls, Refuse(c) PROVE LimiterInv'
<1> DEFINE k == key[c]
           p == Recent(c)
<1>1. /\ key' = key /\ bound' = bound /\ now' = now /\ reading' = reading /\ limit' = limit
      /\ k \in Keys /\ now \in Nat
  BY DEF LimiterInv, LimiterTypeOK, Refuse
<1>2. /\ pc[c] = "waiting" /\ pc'[c] = "refused"
      /\ \A d \in Calls \ {c} : pc'[d] = pc[d]
  BY DEF LimiterInv, LimiterTypeOK, Refuse, Goto
<1>3. PICK s : Pruned(c, p, s)
  <2>1. LimiterTypeOK /\ CallsInTime /\ QueueInv(entries[key[c]], key[c])
    BY <1>1 DEF LimiterInv
  <2> QED BY <1>2, <2>1, PruneKeeps
<1>4. /\ entries'[k] = p /\ \A l \in Keys \ {k} : entries'[l] = entries[l]
      /\ ~(Len(p) < bound[c])
  BY <1>1 DEF LimiterInv, LimiterTypeOK, Refuse, HasRoom
<1>5. entries' = [entries EXCEPT ![k] = p]
  BY DEF Refuse
<1> HIDE DEF p
<1>6. p \in Seq(Nat)
  BY <1>3 DEF Pruned
<1>7. LimiterTypeOK'
  BY <1>1, <1>5, <1>6 DEF LimiterInv, LimiterTypeOK, Refuse, Goto, Labels
<1>8. CallsInTime'
  BY <1>1, <1>2 DEF LimiterInv, CallsInTime
<1>9. Admitted' = Admitted
  BY <1>2 DEF Admitted
<1>10. IsFiniteSet(Admitted)
  BY DEF LimiterInv
<1>11. ASSUME NEW l \in Keys PROVE QueueInv(entries[l], l)'
  <2>1. CASE l # k
    BY <1>1, <1>4, <1>9, <2>1, OtherQueues
  <2>2. CASE l = k
    <3>1. NearlySorted(entries[l])' /\ Holds(entries[l], l, s)'
      BY <1>1, <1>3, <1>4, <1>9, <2>2 DEF Pruned, NearlySorted, Holds
    <3>2. NoneMissing(entries[l], l, s)'
      BY <1>1, <1>3, <1>4, <1>9, <2>2 DEF Pruned, NoneMissing
    <3> QED BY <3>1, <3>2 DEF QueueInv
  <2> QED BY <2>1, <2>2
<1>12. \A m, a, b : AdmittedBetween(m, a, b)' = AdmittedBetween(m, a, b)
  BY <1>1, <1>9 DEF AdmittedBetween, Admitted
<1>13. WindowLimit'
  BY <1>12 DEF WindowLimit, LimiterInv
<1>14. RefusalHasCause'
  <2> SUFFICES ASSUME NEW d \in Calls, pc'[d] = "refused"
               PROVE  Cardinality(AdmittedBetween(key[d], reading[d] - Window - MaxLag,
                                                  reading[d] + MaxLag)) >= bound[d]
    BY <1>1, <1>12 DEF RefusalHasCause
  <2>1. CASE d # c
    BY <1>2, <2>1 DEF LimiterInv, RefusalHasCause
  <2>2. CASE d = c
    <3> DEFINE A == AdmittedBetween(k, reading[c] - Window - MaxLag, reading[c] + MaxLag)
    <3>1. Cardinality(Listed(s)) = Len(p) /\ IsFiniteSet(Listed(s))
      BY <1>3, ListedCounts
    <3>2. Listed(s) \subseteq A
      <4> SUFFICES ASSUME NEW i \in 1..Len(p) PROVE s[i] \in A
        BY <1>3 DEF Listed, Pruned, Holds
      <4>1. s[i] \in Calls /\ pc[s[i]] = "admitted"
        BY <1>3 DEF Pruned, Holds, Admitted
      <4>2. key[s[i]] = k /\ reading[s[i]] = p[i]
        BY <1>3 DEF Pruned, Holds
      <4>3. reading[c] - Window - MaxLag <= p[i] /\ p[i] <= now /\ p[i] \in Nat
        BY <1>3, <1>6 DEF Pruned
      <4>4. now <= reading[c] + MaxLag /\ reading[c] \in Nat
        BY <1>2 DEF LimiterInv, LimiterTypeOK, CallsInTime
      <4>5. p[i] \in (reading[c] - Window - MaxLag)..(reading[c] + MaxLag)
        BY <1>1, <4>3, <4>4
      <4> QED BY <4>1, <4>2, <4>5 DEF AdmittedBetween
    <3>3. IsFiniteSet(A)
      <4>1. A \subseteq Admitted
        BY DEF AdmittedBetween, Admitted
      <4> HIDE DEF A
      <4> QED BY <1>10, <4>1, FS_Subset
    <3> HIDE DEF A
    <3>4. Cardinality(A) \in Nat /\ Cardinality(Listed(s)) <= Cardinality(A)
      BY <3>2, <3>3, SubsetCounts, FS_CardinalityType
    <3>5. bound[c] \in Nat /\ Len(p) \in Nat
      BY <1>6 DEF LimiterInv, LimiterTypeOK
    <3>6. Cardinality(A) >= bound[c]
      BY <1>4, <3>1, <3>4, <3>5
    <3> QED BY <2>2, <3>6 DEF A
  <2> QED BY <2>1, <2>2
<1> QED BY <1>7, <1>8, <1>9, <1>10, <1>11, <1>13, <1>14 DEF LimiterInv

LEMMA AdmitStep ==
    ASSUME LimiterInv, NEW c \in Calls, Admit(c) PROVE LimiterInv'
<1> DEFINE k == key[c]
<1>0. PICK p, q : p = Recent(c) /\ q = Append(p, reading[c])
  OBVIOUS
<1>1. /\ key' = key /\ bound' = bound /\ now' = now /\ reading' = reading /\ limit' = limit
      /\ k \in Keys /\ now \in Nat /\ reading[c] \in Nat /\ bound[c] \in Nat
  BY DEF LimiterInv, LimiterTypeOK, Admit
<1>2. /\ pc[c] = "waiting" /\ pc'[c] = "admitted"
      /\ \A d \in Calls \ {c} : pc'[d] = pc[d]
  BY DEF LimiterInv, LimiterTypeOK, Admit, Goto
<1>3. PICK s : Pruned(c, p, s)
  <2>1. LimiterTypeOK /\ CallsInTime /\ QueueInv(entries[key[c]], key[c])
    BY <1>1 DEF LimiterInv
  <2> QED BY <1>0, <1>2, <2>1, PruneKeeps
<1>4. entries' = [entries EXCEPT ![k] = q] /\ Len(p) < bound[c]
  BY <1>0 DEF Admit, HasRoom
<1>5. /\ p \in Seq(Nat) /\ q \in Seq(Nat) /\ Len(q) = Len(p) + 1 /\ q[Len(p) + 1] = reading[c]
      /\ \A i \in 1..Len(p) : q[i] = p[i]
  BY <1>0, <1>1, <1>3 DEF Pruned
<1>6. LimiterTypeOK'
  <2>1. entries' \in [Keys -> Seq(Nat)]
    BY <1>1, <1>4, <1>5 DEF LimiterInv, LimiterTypeOK
  <2>2. pc' \in [Calls -> Labels]
    BY DEF LimiterInv, LimiterTypeOK, Admit, Goto, Labels
  <2> QED BY <1>1, <2>1, <2>2 DEF LimiterInv, LimiterTypeOK
<1>7. CallsInTime'
  BY <1>1, <1>2 DEF LimiterInv, CallsInTime
<1>8. Admitted' = Admitted \cup {c} /\ c \notin Admitted
  BY <1>2 DEF Admitted
<1>9. IsFiniteSet(Admitted) /\ IsFiniteSet(Admitted')
  <2>1. IsFiniteSet(Admitted)
    BY DEF LimiterInv
  <2> QED BY <1>8, <2>1, FS_AddElement
<1>10. /\ now <= reading[c] + MaxLag /\ reading[c] <= now /\ bound[c] \in Limits
  BY <1>2 DEF LimiterInv, CallsInTime
<1>11. /\ s \in Seq(Admitted) /\ Len(s) = Len(p) /\ Len(p) \in Nat
       /\ \A i \in 1..Len(p) : /\ s[i] \in Admitted /\ key[s[i]] = k /\ reading[s[i]] = p[i]
                               /\ p[i] \in Nat /\ p[i] <= now
  <2>1. s \in Seq(Admitted) /\ Len(s) = Len(p) /\ Len(p) \in Nat
    BY <1>3, <1>5 DEF Pruned, Holds
  <2>2. \A i \in 1..Len(p) : key[s[i]] = k /\ reading[s[i]] = p[i]
    BY <1>3 DEF Pruned, Holds
  <2>3. \A i \in 1..Len(p) : p[i] \in Nat /\ p[i] <= now
    BY <1>3, <1>5 DEF Pruned
  <2>4. \A i \in 1..Len(p) : s[i] \in Admitted
    BY <2>1
  <2> QED BY <2>1, <2>2, <2>3, <2>4
<1>12. ASSUME NEW l \in Keys PROVE QueueInv(entries[l], l)'
  <2>1. CASE l # k
    <3>1. entries'[l] = entries[l]
      BY <1>4, <2>1 DEF LimiterInv, LimiterTypeOK
    <3> QED BY <1>1, <1>8, <2>1, <3>1, OtherQueues
  <2>2. CASE l = k
    <3> DEFINE r == Append(s, c)
    <3>1. entries'[l] = q
      BY <1>4, <2>2 DEF LimiterInv, LimiterTypeOK
    <3>2. /\ r \in Seq(Admitted') /\ Len(r) = Len(q) /\ r[Len(p) + 1] = c
          /\ \A i \in 1..Len(p) : r[i] = s[i]
      BY <1>5, <1>8, <1>11
    <3> HIDE DEF r
    <3>3. \A i \in 1..Len(q) : i \in 1..Len(p) \/ i = Len(p) + 1
      BY <1>5, <1>11
    <3>4. NearlySorted(q)
      <4> SUFFICES ASSUME NEW i \in 1..Len(q), NEW j \in 1..Len(q), i < j
                   PROVE  q[i] <= q[j] + MaxLag
        BY DEF NearlySorted
      <4>1. i \in 1..Len(p)
        BY <1>5, <1>11
      <4>2. CASE j = Len(p) + 1
        <5>1. q[i] = p[i] /\ p[i] \in Nat /\ p[i] <= now /\ q[j] = reading[c]
          BY <1>5, <1>11, <4>1, <4>2
        <5> QED BY <1>1, <1>10, <5>1
      <4>3. CASE j \in 1..Len(p)
        BY <1>3, <1>5, <4>1, <4>3 DEF Pruned, NearlySorted
      <4> QED BY <3>3, <4>2, <4>3
    <3>5. Holds(q, l, r)'
      <4>1. \A i \in 1..Len(q) : key[r[i]] = l /\ reading[r[i]] = q[i]
        BY <1>5, <1>11, <2>2, <3>2, <3>3
      <4>2. \A i, j \in 1..Len(q) : r[i] = r[j] => i = j
        <5>1. \A i, j \in 1..Len(p) : s[i] = s[j] => i = j
          BY <1>3 DEF Pruned, Holds
        <5>2. \A i \in 1..Len(p) : s[i] # c
          BY <1>8, <1>11
        <5> QED BY <3>2, <3>3, <5>1, <5>2
      <4> QED BY <1>1, <3>2, <4>1, <4>2 DEF Holds
    <3>6. NoneMissing(q, l, r)'
      <4> SUFFICES ASSUME NEW a \in Admitted', key[a] = k, now <= reading[a] + Window
                   PROVE  \E i \in 1..Len(q) : r[i] = a
        BY <1>1, <2>2 DEF NoneMissing
      <4>1. CASE a = c
        <5>1. Len(p) + 1 \in 1..Len(q)
          BY <1>5, <1>11
        <5> QED BY <3>2, <4>1, <5>1
      <4>2. CASE a \in Admitted
        <5>1. PICK i \in 1..Len(p) : s[i] = a
          BY <1>3, <4>2 DEF Pruned, NoneMissing
        <5>2. i \in 1..Len(q)
          BY <1>5, <1>11
        <5> QED BY <3>2, <5>1, <5>2
      <4> QED BY <1>8, <4>1, <4>2
    <3>7. NearlySorted(entries[l])'
      BY <3>1, <3>4 DEF NearlySorted
    <3>8. Holds(entries[l], l, r)' /\ NoneMissing(entries[l], l, r)'
      BY <3>1, <3>5, <3>6 DEF Holds, NoneMissing
    <3> QED BY <3>7, <3>8 DEF QueueInv
  <2> QED BY <2>1, <2>2
<1>13. \A m, a, b : /\ AdmittedBetween(m, a, b) \subseteq AdmittedBetween(m, a, b)'
                    /\ AdmittedBetween(m, a, b)' \subseteq AdmittedBetween(m, a, b) \cup {c}
                    /\ AdmittedBetween(m, a, b) \subseteq Admitted
                    /\ AdmittedBetween(m, a, b)' \subseteq Admitted'
  BY <1>1, <1>2 DEF AdmittedBetween, Admitted
<1>14. WindowLimit'
  <2> SUFFICES ASSUME NEW l \in Keys, NEW t \in 0..MaxTime
               PROVE  Cardinality(AdmittedBetween(l, t, t + Window - MaxLag)') <= Max(Limits)
    BY DEF WindowLimit
  <2> DEFINE u == t + Window - MaxLag
             A == AdmittedBetween(l, t, u)
             B == AdmittedBetween(l, t, u)'
  <2>1. IsFiniteSet(A) /\ Cardinality(A) \in Nat
    <3> HIDE DEF A
    <3>1. A \subseteq Admitted
      BY <1>13 DEF A
    <3> QED BY <1>9, <3>1, FS_Subset, FS_CardinalityType
  <2>2. Max(Limits) \in Nat /\ \A n \in Limits : n <= Max(Limits)
    <3>1. Limits \in SUBSET Nat /\ IsFiniteSet(Limits) /\ Limits # {}
      BY <1>10
    <3> QED BY <3>1, GreatestOf
  <2>3. CASE c \notin B
    <3>1. B = A
      BY <1>13, <2>3
    <3>2. Cardinality(A) <= Max(Limits)
      BY DEF LimiterInv, WindowLimit
    <3> QED BY <3>1, <3>2
  <2>4. CASE c \in B
    <3>1. l = k /\ reading[c] \in t..u
      BY <1>1, <2>4 DEF AdmittedBetween
    <3>2. c \notin A /\ B = A \cup {c}
      BY <1>8, <1>13, <2>4
    <3>3. A \subseteq Listed(s)
      <4> SUFFICES ASSUME NEW a \in A PROVE a \in Listed(s)
        OBVIOUS
      <4>1. a \in Admitted /\ key[a] = k /\ reading[a] \in t..u
        BY <3>1 DEF AdmittedBetween, Admitted
      <4>2. now <= reading[a] + Window
        BY <1>1, <1>10, <3>1, <4>1
      <4> QED BY <1>3, <1>11, <4>1, <4>2 DEF Pruned, NoneMissing, Listed
    <3>4. Cardinality(Listed(s)) = Len(p) /\ IsFiniteSet(Listed(s))
      BY <1>3, ListedCounts
    <3> HIDE DEF A, B
    <3>5. Cardinality(A) <= Len(p)
      BY <3>3, <3>4, SubsetCounts
    <3>6. Cardinality(B) = Cardinality(A) + 1
      BY <2>1, <3>2, FS_AddElement
    <3>7. Cardinality(B) <= Max(Limits)
      BY <1>1, <1>4, <1>10, <1>11, <2>1, <2>2, <3>5, <3>6
    <3> QED BY <3>7 DEF B
  <2> QED BY <2>3, <2>4
<1>15. RefusalHasCause'
  <2> SUFFICES ASSUME NEW d \in Calls, pc'[d] = "refused"
               PROVE  Cardinality(AdmittedBetween(key[d], reading[d] - Window - MaxLag,
                                                  reading[d] + MaxLag)') >= bound[d]
    BY <1>1 DEF RefusalHasCause
  <2> DEFINE A == AdmittedBetween(key[d], reading[d] - Window - MaxLag, reading[d] + MaxLag)
             B == A'
  <2>1. Cardinality(A) >= bound[d] /\ bound[d] \in Nat
    BY <1>2 DEF LimiterInv, LimiterTypeOK, RefusalHasCause
  <2>2. A \subseteq B /\ A \subseteq Admitted /\ B \subseteq Admitted'
    BY <1>1, <1>13
  <2> HIDE DEF A, B
  <2>3. IsFiniteSet(B) /\ Cardinality(B) \in Nat
    BY <1>9, <2>2, FS_Subset, FS_CardinalityType
  <2>4. Cardinality(A) <= Cardinality(B) /\ Cardinality(A) \in Nat
    BY <2>2, <2>3, SubsetCounts
  <2>5. Cardinality(B) >= bound[d]
    BY <2>1, <2>3, <2>4
  <2> QED BY <1>1, <2>5 DEF A, B
<1> QED BY <1>6, <1>7, <1>9, <1>12, <1>14, <1>15 DEF LimiterInv

-----------------------------------------------------------------------------
(* The theorems.                                                           *)

\* The strengthening holds in every state: check_wallet_rate_limit and
\* check_transfer_rate_limit keep in the queue of a key every call that may still count.
THEOREM LimiterInvariant == Spec => []LimiterInv
<1>1. ASSUME LimiterInv, [Next]_vars PROVE LimiterInv'
  <2>1. CASE Tick
    BY <1>1, <2>1, TickStep
  <2>2. CASE SetLimit \/ UNCHANGED vars
    BY <1>1, <2>2, SetLimitStep
  <2>3. ASSUME NEW c \in Calls, LoadLimit(c) PROVE LimiterInv'
    BY <1>1, <2>3, LoadLimitStep
  <2>4. ASSUME NEW c \in Calls, ReadClock(c) PROVE LimiterInv'
    BY <1>1, <2>4, ReadClockStep
  <2>5. ASSUME NEW c \in Calls, Admit(c) PROVE LimiterInv'
    BY <1>1, <2>5, AdmitStep
  <2>6. ASSUME NEW c \in Calls, Refuse(c) PROVE LimiterInv'
    BY <1>1, <2>6, RefuseStep
  <2> QED BY <1>1, <2>1, <2>2, <2>3, <2>4, <2>5, <2>6 DEF Next
<1> QED BY <1>1, InitLimiter, PTL DEF Spec

\* WindowLimit: callers that read the clock before they take the lock, in whatever order they
\* get it, are never let through beyond the largest limit within a window less the lag.
THEOREM NeverOverTheLimit == Spec => []WindowLimit
<1>1. LimiterInv => WindowLimit
  BY DEF LimiterInv
<1> QED BY <1>1, LimiterInvariant, PTL

\* RefusalHasCause: a caller is turned away only after as many recorded calls of its key as
\* its limit, within a window and the lag around its own reading.
THEOREM NobodyIsLockedOut == Spec => []RefusalHasCause
<1>1. LimiterInv => RefusalHasCause
  BY DEF LimiterInv
<1> QED BY <1>1, LimiterInvariant, PTL

=============================================================================
