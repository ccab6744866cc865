---------------------------- MODULE EconomyProofs ---------------------------
(***************************************************************************)
(* Facts about the operators of Totals and Economy, for any wallets and    *)
(* parameters.  First what the proofs of several components rest on:       *)
(* induction over numbers and over finite sets, facts about the sum of a   *)
(* column of amounts, proved from the cardinality of its units, and sums   *)
(* counted by thresholds and ranks, which order statistics need.  Then the *)
(* economy: every amount it computes is a natural number, every wallet it  *)
(* returns is a wallet again, and an iteration neither loses coins nor     *)
(* makes any that its commit does not record.                              *)
(***************************************************************************)
EXTENDS Economy, FiniteSetTheorems, TLAPS

-----------------------------------------------------------------------------
(* Induction over a set.  The principle is stated for a set instead of a   *)
(* predicate, so that it can be cited like any other fact; it comes from   *)
(* the well-foundedness of the strict subsets.                             *)

\* A nonempty set of natural numbers has a least element.
LEMMA LeastNatural ==
    ASSUME NEW T \in SUBSET Nat, T # {}
    PROVE  \E n \in T : \A m \in T : n <= m
<1>1. PICK R : R = {pair \in Nat \X Nat : pair[1] < pair[2]}
  OBVIOUS
<1>2. IsWellFoundedOn(R, Nat)
  BY <1>1, NatLessThanWellFounded DEF OpToRel
<1>3. PICK n \in T : \A m \in T : ~(<<m, n>> \in R)
  BY <1>2, WFMin, Zenon
<1>4. \A m \in T : m < n => <<m, n>> \in R
  BY <1>1
<1>5. \A m \in T : ~(m < n)
  BY <1>3, <1>4, Zenon
<1>6. n \in Nat /\ \A m \in T : m \in Nat
  OBVIOUS
<1> QED BY <1>5, <1>6

\* What contains 0, and the successor of each of its members below N, contains 0..N.
LEMMA IntervalInduction ==
    ASSUME NEW N \in Nat, NEW T, 0 \in T, \A n \in 0..(N - 1) : n \in T => n + 1 \in T
    PROVE  0..N \subseteq T
<1> SUFFICES ASSUME NEW k \in 0..N, k \notin T PROVE FALSE
  OBVIOUS
<1> DEFINE B == {n \in 0..N : n \notin T}
<1>1. PICK b \in B : \A m \in B : b <= m
  <2>1. B \in SUBSET Nat /\ B # {}
    OBVIOUS
  <2> HIDE DEF B
  <2> QED BY <2>1, LeastNatural
<1>2. b # 0 /\ b - 1 \in 0..(N - 1) /\ b - 1 \notin B
  BY <1>1
<1> QED BY <1>1, <1>2

\* What contains {}, and with each of its members that member enlarged by an element of S,
\* contains the finite set S.
LEMMA SubsetInduction ==
    ASSUME NEW S, IsFiniteSet(S), NEW T, {} \in T,
           \A A \in SUBSET S : \A x \in S \ A : A \in T => A \cup {x} \in T
    PROVE  S \in T
<1> SUFFICES ASSUME S \notin T PROVE FALSE
  OBVIOUS
<1> DEFINE W == {A \in SUBSET S : A \notin T}
<1>1. W \subseteq FiniteSubsetsOf(S) /\ W # {}
  <2>1. \A A \in SUBSET S : IsFiniteSet(A)
    BY FS_Subset
  <2> QED BY <2>1 DEF FiniteSubsetsOf
<1>2. PICK A \in W : \A B \in W : ~(<<B, A>> \in StrictSubsetOrdering(S))
  <2> HIDE DEF W
  <2> QED BY <1>1, FS_StrictSubsetOrderingWellFounded, WFMin, Zenon
<1>3. PICK x \in A : TRUE
  BY <1>2
<1> DEFINE B == A \ {x}
<1>4. B \in SUBSET S /\ x \in S \ B /\ B \cup {x} = A
  BY <1>2, <1>3
<1>5. B \notin W
  <2>1. <<B, A>> \in StrictSubsetOrdering(S)
    BY <1>2, <1>3 DEF StrictSubsetOrdering
  <2> QED BY <1>2, <2>1
<1> QED BY <1>2, <1>4, <1>5

-----------------------------------------------------------------------------
(* Sums: a column is split into disjoint parts, and the parts' units are   *)
(* disjoint.                                                               *)

\* The units of a column of finitely many natural numbers are finite.
LEMMA UnitsFinite ==
    ASSUME NEW S, IsFiniteSet(S), NEW f \in [S -> Nat]
    PROVE  IsFiniteSet(Units(f))
<1> DEFINE part == [w \in S |-> {w} \X (1..f[w])]
           parts == {part[w] : w \in S}
<1>1. \A w \in S : IsFiniteSet(part[w])
  <2> TAKE w \in S
  <2>1. IsFiniteSet({w})
    BY FS_Singleton
  <2>2. f[w] \in Int /\ 1 \in Int
    OBVIOUS
  <2>3. IsFiniteSet(1..f[w])
    BY <2>2, FS_Interval
  <2> QED BY <2>1, <2>3, FS_Product
<1>2. IsFiniteSet(parts)
  <2>1. part \in Surjection(S, parts)
    BY DEF Surjection
  <2> HIDE DEF parts, part
  <2> QED BY <2>1, FS_Surjection
<1>3. \A T \in parts : IsFiniteSet(T)
  BY <1>1
<1>4. Units(f) = UNION parts
  BY DEF Units
<1> HIDE DEF parts
<1> QED BY <1>2, <1>3, <1>4, FS_UNION

\* The sum of natural numbers is a natural number.
LEMMA TotalType ==
    ASSUME NEW S, IsFiniteSet(S), NEW f \in [S -> Nat]
    PROVE  Total(f) \in Nat
BY UnitsFinite, FS_CardinalityType DEF Total

\* The sum of a column in two disjoint parts.
LEMMA TotalUnion ==
    ASSUME NEW S, NEW T, IsFiniteSet(S), IsFiniteSet(T), S \cap T = {},
           NEW f \in [S -> Nat], NEW g \in [T -> Nat], NEW h \in [S \cup T -> Nat],
           \A x \in S : h[x] = f[x], \A x \in T : h[x] = g[x]
    PROVE  Total(h) = Total(f) + Total(g)
<1>1. Units(h) = Units(f) \cup Units(g)
  <2>1. \A u : u \in Units(h) <=> \E w \in S \cup T : u \in {w} \X (1..h[w])
    BY DEF Units
  <2>2. \A u : u \in Units(f) <=> \E w \in S : u \in {w} \X (1..f[w])
    BY DEF Units
  <2>3. \A u : u \in Units(g) <=> \E w \in T : u \in {w} \X (1..g[w])
    BY DEF Units
  <2> QED BY <2>1, <2>2, <2>3
<1>2. Units(f) \cap Units(g) = {}
  <2>1. ASSUME NEW u, u \in Units(f), u \in Units(g) PROVE FALSE
    <3>1. PICK v \in S : u \in {v} \X (1..f[v])
      BY <2>1 DEF Units
    <3>2. PICK w \in T : u \in {w} \X (1..g[w])
      BY <2>1 DEF Units
    <3> QED BY <3>1, <3>2
  <2> QED BY <2>1
<1>3. IsFiniteSet(Units(f)) /\ IsFiniteSet(Units(g))
  BY UnitsFinite
<1>4. /\ Cardinality(Units(f) \cup Units(g))
            = Cardinality(Units(f)) + Cardinality(Units(g)) - Cardinality(Units(f) \cap Units(g))
      /\ Cardinality(Units(f)) \in Nat
      /\ Cardinality(Units(g)) \in Nat
  BY <1>3, FS_Union, FS_CardinalityType
<1>5. Cardinality({}) = 0
  BY FS_EmptySet
<1>6. /\ Cardinality(Units(h)) = Cardinality(Units(f) \cup Units(g))
      /\ Cardinality(Units(f) \cap Units(g)) = Cardinality({})
  BY <1>1, <1>2, Zenon
<1> QED BY <1>4, <1>5, <1>6 DEF Total

\* The sum of a column whose amounts are all the same.
LEMMA TotalConstant ==
    ASSUME NEW S, IsFiniteSet(S), NEW c \in Nat, NEW f \in [S -> Nat], \A x \in S : f[x] = c
    PROVE  Total(f) = Cardinality(S) * c
<1>1. Units(f) = S \X (1..c)
  <2>1. \A u : u \in Units(f) <=> \E w \in S : u \in {w} \X (1..c)
    BY DEF Units
  <2> QED BY <2>1
<1>2. 1 \in Int /\ c \in Int
  OBVIOUS
<1>3. IsFiniteSet(1..c) /\ Cardinality(1..c) = IF 1 > c THEN 0 ELSE c - 1 + 1
  BY <1>2, FS_Interval
<1>4. Cardinality(1..c) = c
  BY <1>3
<1>5. Cardinality(S \X (1..c)) = Cardinality(S) * Cardinality(1..c)
  BY <1>3, FS_Product
<1>6. Cardinality(Units(f)) = Cardinality(S \X (1..c))
  BY <1>1, Zenon
<1>7. Total(f) = Cardinality(S) * Cardinality(1..c)
  BY <1>5, <1>6, Zenon DEF Total
<1> QED BY <1>4, <1>7, Zenon

\* The sum of a column with one more row.
LEMMA TotalExtend ==
    ASSUME NEW S, IsFiniteSet(S), NEW w, w \notin S,
           NEW f \in [S -> Nat], NEW g \in [S \cup {w} -> Nat],
           \A x \in S : g[x] = f[x]
    PROVE  Total(g) = Total(f) + g[w]
<1> DEFINE T == {w}
           one == [x \in T |-> g[w]]
<1>1. IsFiniteSet(T) /\ Cardinality(T) = 1
  BY FS_Singleton
<1>2. /\ g[w] \in Nat
      /\ one \in [T -> Nat]
      /\ S \cap T = {}
      /\ g \in [S \cup T -> Nat]
  OBVIOUS
<1>3. /\ \A x \in T : one[x] = g[w]
      /\ \A x \in T : g[x] = one[x]
  OBVIOUS
<1> HIDE DEF T, one
<1>4. Total(one) = 1 * g[w]
  BY <1>1, <1>2, <1>3, TotalConstant
<1>5. Total(g) = Total(f) + Total(one)
  BY <1>1, <1>2, <1>3, TotalUnion
<1> QED BY <1>2, <1>4, <1>5

\* The sum of a column after one of its rows has changed.
LEMMA TotalUpdate ==
    ASSUME NEW S, IsFiniteSet(S), NEW w \in S,
           NEW f \in [S -> Nat], NEW g \in [S -> Nat],
           \A x \in S \ {w} : g[x] = f[x]
    PROVE  Total(g) = Total(f) - f[w] + g[w]
<1> DEFINE R == S \ {w}
           rest == [x \in R |-> f[x]]
<1>1. IsFiniteSet(R)
  BY FS_RemoveElement
<1>2. /\ R \cup {w} = S
      /\ w \notin R
      /\ rest \in [R -> Nat]
      /\ \A x \in R : f[x] = rest[x] /\ g[x] = rest[x]
  OBVIOUS
<1>3. f \in [R \cup {w} -> Nat] /\ g \in [R \cup {w} -> Nat]
  BY <1>2
<1> HIDE DEF R, rest
<1>4. Total(f) = Total(rest) + f[w]
  BY <1>1, <1>2, <1>3, TotalExtend
<1>5. Total(g) = Total(rest) + g[w]
  BY <1>1, <1>2, <1>3, TotalExtend
<1>6. Total(rest) \in Nat
  BY <1>1, <1>2, TotalType
<1> QED BY <1>4, <1>5, <1>6

\* The sum of a column after two of its rows have changed.
LEMMA TotalUpdateTwo ==
    ASSUME NEW S, IsFiniteSet(S), NEW v \in S, NEW w \in S, v # w,
           NEW f \in [S -> Nat], NEW g \in [S -> Nat],
           \A x \in S \ {v, w} : g[x] = f[x]
    PROVE  Total(g) = Total(f) - f[v] + g[v] - f[w] + g[w]
<1> DEFINE h == [f EXCEPT ![v] = g[v]]
<1>1. /\ h \in [S -> Nat] /\ h[v] = g[v] /\ h[w] = f[w]
      /\ \A x \in S \ {v} : h[x] = f[x]
      /\ \A x \in S \ {w} : g[x] = h[x]
  OBVIOUS
<1> HIDE DEF h
<1>2. Total(h) = Total(f) - f[v] + h[v]
  BY <1>1, TotalUpdate
<1>3. Total(g) = Total(h) - h[w] + g[w]
  BY <1>1, TotalUpdate
<1>4. Total(f) \in Nat /\ f[v] \in Nat /\ f[w] \in Nat /\ g[v] \in Nat /\ g[w] \in Nat
  BY TotalType
<1> QED BY <1>1, <1>2, <1>3, <1>4

\* The sum of a column whose rows are renamed.
LEMMA TotalRename ==
    ASSUME NEW S, IsFiniteSet(S), NEW T, NEW b \in Bijection(S, T),
           NEW f \in [S -> Nat], NEW g \in [T -> Nat], \A x \in S : g[b[x]] = f[x]
    PROVE  Total(g) = Total(f)
<1> DEFINE U == Units(f)
           V == Units(g)
           rename == [u \in U |-> <<b[u[1]], u[2]>>]
<1>1. \A u : u \in U <=> \E x \in S : \E n \in 1..f[x] : u = <<x, n>>
  BY DEF Units
<1>2. \A u : u \in V <=> \E y \in T : \E n \in 1..g[y] : u = <<y, n>>
  BY DEF Units
<1>3. /\ \A x \in S : b[x] \in T
      /\ \A x, y \in S : b[x] = b[y] => x = y
      /\ \A y \in T : \E x \in S : b[x] = y
  BY DEF Bijection, Injection, Surjection, IsInjective
<1>4. IsFiniteSet(U)
  BY UnitsFinite
<1> HIDE DEF U, V
<1>5. \A u \in U : rename[u] \in V
  BY <1>1, <1>2, <1>3
<1>6. \A u, v \in U : rename[u] = rename[v] => u = v
  <2> SUFFICES ASSUME NEW u \in U, NEW v \in U, rename[u] = rename[v] PROVE u = v
    BY Zenon
  <2>1. PICK x \in S : \E n \in 1..f[x] : u = <<x, n>>
    BY <1>1
  <2>2. PICK y \in S : \E m \in 1..f[y] : v = <<y, m>>
    BY <1>1
  <2>3. b[x] = b[y] /\ u[2] = v[2]
    BY <2>1, <2>2
  <2> QED BY <1>3, <2>1, <2>2, <2>3
<1>7. \A v \in V : \E u \in U : rename[u] = v
  <2> TAKE v \in V
  <2>1. PICK y \in T : \E n \in 1..g[y] : v = <<y, n>>
    BY <1>2
  <2>2. PICK x \in S : b[x] = y
    BY <1>3
  <2>3. <<x, v[2]>> \in U
    BY <1>1, <2>1, <2>2
  <2> QED BY <2>1, <2>2, <2>3
<1>8. rename \in Bijection(U, V)
  <2>1. rename \in [U -> V]
    BY <1>5
  <2> HIDE DEF rename
  <2> QED BY <1>6, <1>7, <2>1 DEF Bijection, Injection, Surjection, IsInjective
<1>9. Cardinality(V) = Cardinality(U)
  <2>1. ExistsBijection(U, V)
    BY <1>8 DEF ExistsBijection
  <2> QED BY <1>4, <2>1, FS_Bijection
<1> QED BY <1>9 DEF U, V, Total

\* No row is larger than the sum.
LEMMA TotalBound ==
    ASSUME NEW S, IsFiniteSet(S), NEW w \in S, NEW f \in [S -> Nat]
    PROVE  f[w] <= Total(f)
<1> DEFINE g == [f EXCEPT ![w] = 0]
<1>1. g \in [S -> Nat] /\ g[w] = 0 /\ \A x \in S \ {w} : g[x] = f[x]
  OBVIOUS
<1> HIDE DEF g
<1>2. Total(g) = Total(f) - f[w] + g[w]
  BY <1>1, TotalUpdate
<1>3. Total(g) \in Nat /\ Total(f) \in Nat
  BY <1>1, TotalType
<1> QED BY <1>1, <1>2, <1>3

-----------------------------------------------------------------------------
(* Sums of columns row by row.                                             *)

\* The rows A of the column f.
Rows(f, A) == [x \in A |-> f[x]]

\* The sum of the rows A of a column, and of one row more.
LEMMA RowsExtend ==
    ASSUME NEW S, NEW k \in [S -> Nat], NEW A \in SUBSET S, IsFiniteSet(A), NEW w \in S \ A
    PROVE  /\ Total(Rows(k, A \cup {w})) = Total(Rows(k, A)) + k[w]
           /\ Total(Rows(k, A)) \in Nat
           /\ k[w] \in Nat
<1> DEFINE u == Rows(k, A)
           v == Rows(k, A \cup {w})
<1>1. u \in [A -> Nat]
  BY DEF Rows
<1>2. v \in [A \cup {w} -> Nat]
  BY DEF Rows
<1>3. \A y \in A : v[y] = u[y]
  BY DEF Rows
<1>4. v[w] = k[w] /\ k[w] \in Nat
  BY DEF Rows
<1> HIDE DEF u, v
<1>5. Total(v) = Total(u) + v[w]
  BY <1>1, <1>2, <1>3, TotalExtend
<1>6. Total(u) \in Nat
  BY <1>1, TotalType
<1> QED BY <1>4, <1>5, <1>6 DEF u, v

\* The sum of a column whose rows are sums.
LEMMA TotalAdd ==
    ASSUME NEW S, IsFiniteSet(S), NEW f \in [S -> Nat], NEW g \in [S -> Nat],
           NEW h \in [S -> Nat], \A x \in S : h[x] = f[x] + g[x]
    PROVE  Total(h) = Total(f) + Total(g)
<1> DEFINE T == {A \in SUBSET S : Total(Rows(h, A)) = Total(Rows(f, A)) + Total(Rows(g, A))}
<1>1. {} \in T
  <2>1. Rows(h, {}) = Rows(f, {}) /\ Rows(f, {}) = Rows(g, {}) /\ Rows(f, {}) \in [{} -> Nat]
    BY DEF Rows
  <2>2. Units(Rows(f, {})) = {}
    BY <2>1 DEF Units
  <2>3. Total(Rows(f, {})) = Cardinality({})
    BY <2>2, Zenon DEF Total
  <2> QED BY <2>1, <2>3, FS_EmptySet
<1>2. ASSUME NEW A \in SUBSET S, NEW x \in S \ A, A \in T
      PROVE  A \cup {x} \in T
  <2> DEFINE B == A \cup {x}
  <2>1. IsFiniteSet(A) /\ x \notin A
    BY FS_Subset
  <2>2. \A k \in [S -> Nat] : Total(Rows(k, B)) = Total(Rows(k, A)) + k[x]
                              /\ Total(Rows(k, A)) \in Nat /\ k[x] \in Nat
    BY <2>1, RowsExtend
  <2>3. Total(Rows(h, A)) = Total(Rows(f, A)) + Total(Rows(g, A))
    BY <1>2
  <2>4. Total(Rows(h, B)) = Total(Rows(f, B)) + Total(Rows(g, B))
    <3>1. h[x] = f[x] + g[x]
      OBVIOUS
    <3> HIDE DEF B
    <3> QED BY <2>2, <2>3, <3>1
  <2> QED BY <2>4
<1>3. S \in T
  <2> HIDE DEF T
  <2> QED BY <1>1, <1>2, SubsetInduction
<1>4. Rows(h, S) = h /\ Rows(f, S) = f /\ Rows(g, S) = g
  BY DEF Rows
<1> QED BY <1>3, <1>4

\* A column whose rows are no larger has a sum that is no larger.
LEMMA TotalMonotone ==
    ASSUME NEW S, IsFiniteSet(S), NEW f \in [S -> Nat], NEW g \in [S -> Nat],
           \A x \in S : f[x] <= g[x]
    PROVE  Total(f) <= Total(g)
<1> DEFINE d == [x \in S |-> g[x] - f[x]]
<1>1. d \in [S -> Nat] /\ \A x \in S : g[x] = f[x] + d[x]
  OBVIOUS
<1> HIDE DEF d
<1>2. Total(g) = Total(f) + Total(d)
  BY <1>1, TotalAdd
<1>3. Total(f) \in Nat /\ Total(d) \in Nat
  BY <1>1, TotalType
<1> QED BY <1>2, <1>3

\* The sum of a column whose rows are multiplied by the same number.
LEMMA TotalScale ==
    ASSUME NEW S, IsFiniteSet(S), NEW f \in [S -> Nat], NEW c \in Nat,
           NEW h \in [S -> Nat], \A x \in S : h[x] = c * f[x]
    PROVE  Total(h) = c * Total(f)
<1> DEFINE times(n) == [x \in S |-> n * f[x]]
           T == {n \in Nat : Total(times(n)) = n * Total(f)}
<1>1. \A n \in Nat : times(n) \in [S -> Nat]
  OBVIOUS
<1>2. Total(f) \in Nat
  BY TotalType
<1>3. 0 \in T
  <2>1. times(0) \in [S -> Nat] /\ \A x \in S : times(0)[x] = 0
    OBVIOUS
  <2> DEFINE z == times(0)
  <2> HIDE DEF z
  <2>2. Total(z) = Cardinality(S) * 0
    BY <2>1, TotalConstant DEF z
  <2>3. Cardinality(S) \in Nat
    BY FS_CardinalityType
  <2> QED BY <1>2, <2>2, <2>3 DEF z
<1>4. ASSUME NEW n \in Nat, n \in T PROVE n + 1 \in T
  <2> DEFINE u == times(n)
             v == times(n + 1)
  <2>1. u \in [S -> Nat] /\ v \in [S -> Nat] /\ \A x \in S : v[x] = u[x] + f[x]
    <3>1. \A y \in Nat : (n + 1) * y = n * y + y
      OBVIOUS
    <3> QED BY <3>1
  <2>2. Total(u) = n * Total(f)
    BY <1>4
  <2> HIDE DEF u, v
  <2>3. Total(v) = Total(u) + Total(f)
    BY <2>1, TotalAdd
  <2>4. Total(v) = (n + 1) * Total(f)
    BY <1>2, <2>2, <2>3
  <2> QED BY <2>4 DEF v
<1>5. c \in T
  <2> HIDE DEF T
  <2>1. 0..c \subseteq T
    BY <1>3, <1>4, IntervalInduction
  <2> QED BY <2>1
<1>6. times(c) = h
  OBVIOUS
<1> QED BY <1>5, <1>6

\* A positive factor can be cancelled.
LEMMA CancelFactor ==
    ASSUME NEW a \in Nat, NEW b \in Nat, NEW t \in Nat \ {0}, t * a <= t * b
    PROVE  a <= b
<1> SUFFICES ASSUME a > b PROVE FALSE
  OBVIOUS
<1>1. PICK d \in Nat : a = b + 1 + d
  <2>1. a - b - 1 \in Nat /\ a = b + 1 + (a - b - 1)
    OBVIOUS
  <2> QED BY <2>1
<1>2. t * a = t * b + t + t * d
  BY <1>1
<1>3. t * b \in Nat /\ t * d \in Nat
  OBVIOUS
<1> QED BY <1>2, <1>3

\* Rounding down never divides more than the pool: the shares of the rows, in proportion to
\* their weights, add up to no more than what is shared.
LEMMA TotalShares ==
    ASSUME NEW S, IsFiniteSet(S), NEW f \in [S -> Nat], NEW pool \in Nat, Total(f) > 0,
           NEW h \in [S -> Nat], \A x \in S : h[x] = (pool * f[x]) \div Total(f)
    PROVE  Total(h) <= pool
<1> DEFINE t == Total(f)
           u == [x \in S |-> t * h[x]]
           v == [x \in S |-> pool * f[x]]
<1>1. t \in Nat \ {0}
  BY TotalType
<1>2. \A x \in S : t * h[x] <= pool * f[x] /\ t * h[x] \in Nat /\ pool * f[x] \in Nat
  <2> TAKE x \in S
  <2> HIDE DEF t
  <2> DEFINE m == pool * f[x]
  <2>1. m \in Nat /\ h[x] = m \div t
    BY DEF t
  <2> HIDE DEF m
  <2>2. t * (m \div t) <= m /\ t * (m \div t) \in Nat
    BY <1>1, <2>1
  <2> QED BY <2>1, <2>2 DEF m
<1>3. /\ u \in [S -> Nat] /\ v \in [S -> Nat]
      /\ \A x \in S : u[x] = t * h[x]
      /\ \A x \in S : v[x] = pool * f[x]
      /\ \A x \in S : u[x] <= v[x]
  <2> HIDE DEF t
  <2> QED BY <1>2
<1> HIDE DEF u, v
<1>4. Total(u) = t * Total(h)
  <2> HIDE DEF t
  <2> QED BY <1>1, <1>3, TotalScale
<1>5. Total(v) = pool * t
  BY <1>3, TotalScale
<1>6. Total(u) <= Total(v)
  BY <1>3, TotalMonotone
<1>7. Total(h) \in Nat
  BY TotalType
<1> HIDE DEF t
<1>8. t * Total(h) <= t * pool
  BY <1>1, <1>4, <1>5, <1>6
<1> QED BY <1>1, <1>7, <1>8, CancelFactor

-----------------------------------------------------------------------------
(* Columns whose rows are numbered.                                        *)

\* The sum of the rows before the i-th.
UpTo(f, i) == Total([j \in {j \in DOMAIN f : j < i} |-> f[j]])

LEMMA UpToNext ==
    ASSUME NEW S, IsFiniteSet(S), NEW f \in [S -> Nat], \A j \in S : j \in Nat
    PROVE  /\ \A i \in Nat : UpTo(f, i) \in Nat
           /\ \A i \in S : UpTo(f, i + 1) = UpTo(f, i) + f[i]
           /\ \A i \in Nat \ S : UpTo(f, i + 1) = UpTo(f, i)
           /\ \A i : (\A j \in S : ~(j < i)) => UpTo(f, i) = 0
           /\ \A i : (\A j \in S : j < i) => UpTo(f, i) = Total(f)
<1> DEFINE B(i) == {j \in S : j < i}
<1>1. DOMAIN f = S
  OBVIOUS
<1>2. \A i : UpTo(f, i) = Total(Rows(f, B(i)))
  BY <1>1 DEF UpTo, Rows
<1>3. ASSUME NEW i PROVE B(i) \in SUBSET S /\ IsFiniteSet(B(i)) /\ Rows(f, B(i)) \in [B(i) -> Nat]
  <2>1. B(i) \in SUBSET S
    OBVIOUS
  <2> HIDE DEF B
  <2>2. IsFiniteSet(B(i))
    BY <2>1, FS_Subset
  <2> QED BY <2>1, <2>2 DEF Rows
<1>4. ASSUME NEW i \in Nat PROVE UpTo(f, i) \in Nat
  <2> HIDE DEF B
  <2> QED BY <1>2, <1>3, TotalType
<1>5. ASSUME NEW i \in S PROVE UpTo(f, i + 1) = UpTo(f, i) + f[i]
  <2> DEFINE A == B(i)
  <2>1. B(i + 1) = A \cup {i} /\ i \in S \ A
    OBVIOUS
  <2>2. A \in SUBSET S /\ IsFiniteSet(A)
    BY <1>3
  <2> HIDE DEF A, B
  <2>3. Total(Rows(f, A \cup {i})) = Total(Rows(f, A)) + f[i]
    BY <2>1, <2>2, RowsExtend
  <2> QED BY <1>2, <2>1, <2>3 DEF A
<1>6. ASSUME NEW i \in Nat \ S PROVE UpTo(f, i + 1) = UpTo(f, i)
  <2>1. B(i + 1) = B(i)
    OBVIOUS
  <2> HIDE DEF B
  <2> QED BY <1>2, <2>1
<1>7. ASSUME NEW i, \A j \in S : ~(j < i) PROVE UpTo(f, i) = 0
  <2> DEFINE g == Rows(f, B(i))
  <2>1. B(i) = {}
    BY <1>7
  <2> HIDE DEF B
  <2>2. DOMAIN g = {}
    BY <2>1 DEF Rows
  <2> HIDE DEF g
  <2>3. Total(g) = 0
    BY <2>2, FS_EmptySet DEF Total, Units
  <2> QED BY <1>2, <2>3 DEF g
<1>8. ASSUME NEW i, \A j \in S : j < i PROVE UpTo(f, i) = Total(f)
  <2>1. B(i) = S
    BY <1>8
  <2> HIDE DEF B
  <2>2. Rows(f, S) = f
    BY DEF Rows
  <2> QED BY <1>2, <2>1, <2>2
<1> QED BY <1>4, <1>5, <1>6, <1>7, <1>8

-----------------------------------------------------------------------------
(* Sums in another order: row by row, or threshold by threshold.           *)

\* The sum of a column that holds the same amount in some rows, and nothing in the others.
LEMMA TotalCount ==
    ASSUME NEW S, IsFiniteSet(S), NEW A \in SUBSET S, NEW c \in Nat, NEW f \in [S -> Nat],
           \A x \in A : f[x] = c, \A x \in S \ A : f[x] = 0
    PROVE  Total(f) = Cardinality(A) * c /\ Cardinality(A) \in Nat
<1> DEFINE B == S \ A
           g == Rows(f, A)
           h == Rows(f, B)
<1>1. IsFiniteSet(A) /\ IsFiniteSet(B) /\ A \cap B = {} /\ S = A \cup B
  BY FS_Subset
<1>2. g \in [A -> Nat] /\ h \in [B -> Nat] /\ (\A x \in A : g[x] = c) /\ (\A x \in B : h[x] = 0)
      /\ (\A x \in A : f[x] = g[x]) /\ (\A x \in B : f[x] = h[x])
  BY DEF Rows
<1> HIDE DEF B, g, h
<1>3. f \in [A \cup B -> Nat] /\ IsFiniteSet(A) /\ IsFiniteSet(B) /\ A \cap B = {}
  BY <1>1
<1>4. Total(f) = Total(g) + Total(h)
  BY <1>2, <1>3, TotalUnion
<1>5. Total(g) = Cardinality(A) * c
  BY <1>1, <1>2, TotalConstant
<1>6. Total(h) = Cardinality(B) * 0
  BY <1>1, <1>2, TotalConstant
<1>7. Cardinality(A) \in Nat /\ Cardinality(B) \in Nat
  BY <1>1, FS_CardinalityType
<1>8. Cardinality(A) * c \in Nat /\ Cardinality(B) * 0 = 0
  BY <1>7
<1> QED BY <1>4, <1>5, <1>6, <1>7, <1>8

\* The sum of a column that holds 1 in some rows, and nothing in the others.
LEMMA TotalOnes ==
    ASSUME NEW S, IsFiniteSet(S), NEW A \in SUBSET S, NEW f \in [S -> Nat],
           \A x \in A : f[x] = 1, \A x \in S \ A : f[x] = 0
    PROVE  Total(f) = Cardinality(A)
<1> DEFINE c == 1
<1>1. c \in Nat /\ (\A x \in A : f[x] = c) /\ c = 1
  OBVIOUS
<1> HIDE DEF c
<1>2. Total(f) = Cardinality(A) * c /\ Cardinality(A) \in Nat
  BY <1>1, TotalCount
<1> QED BY <1>1, <1>2

\* The column t of the table F.
Column(F, S, t) == [x \in S |-> F[x][t]]

\* r holds the sums of the rows of the table F, c those of its columns.
SumsOfTable(F, S, T, r, c) ==
    /\ F \in [S -> [T -> Nat]]
    /\ r \in [S -> Nat] /\ \A x \in S : r[x] = Total(F[x])
    /\ c \in [T -> Nat] /\ \A t \in T : c[t] = Total(Column(F, S, t))

\* The sum of a table, by its rows and by its columns.
LEMMA TotalSwap ==
    ASSUME NEW S, IsFiniteSet(S), NEW T, IsFiniteSet(T), NEW F, NEW r, NEW c,
           SumsOfTable(F, S, T, r, c)
    PROVE  Total(r) = Total(c)
<1>0. /\ F \in [S -> [T -> Nat]]
      /\ r \in [S -> Nat] /\ \A x \in S : r[x] = Total(F[x])
      /\ c \in [T -> Nat] /\ \A t \in T : c[t] = Total(Column(F, S, t))
  BY DEF SumsOfTable
<1> DEFINE k(t)   == [x \in S |-> F[x][t]]
           Col(A) == [t \in T |-> Total(Rows(k(t), A))]
           W      == {A \in SUBSET S : Total(Rows(r, A)) = Total(Col(A))}
<1>1. \A t \in T : k(t) \in [S -> Nat] /\ \A x \in S : k(t)[x] = F[x][t]
  BY <1>0
<1> HIDE DEF k
<1>2. ASSUME NEW A \in SUBSET S
      PROVE  IsFiniteSet(A) /\ Col(A) \in [T -> Nat] /\ \A t \in T : Col(A)[t] = Total(Rows(k(t), A))
  <2>1. IsFiniteSet(A)
    BY FS_Subset
  <2>2. ASSUME NEW t \in T PROVE Total(Rows(k(t), A)) \in Nat
    <3>1. Rows(k(t), A) \in [A -> Nat]
      BY <1>1 DEF Rows
    <3> QED BY <2>1, <3>1, TotalType
  <2> QED BY <2>1, <2>2
<1> HIDE DEF Col
<1>3. {} \in W
  <2> DEFINE c0 == Col({})
             r0 == Rows(r, {})
  <2>1. \A t \in T : c0[t] = 0
    <3> SUFFICES ASSUME NEW t \in T PROVE Total(Rows(k(t), {})) = 0
      BY <1>2
    <3> DEFINE g == Rows(k(t), {})
    <3>1. DOMAIN g = {}
      BY DEF Rows
    <3> HIDE DEF g
    <3>2. Total(g) = 0
      BY <3>1, FS_EmptySet DEF Total, Units
    <3> QED BY <3>2 DEF g
  <2>2. c0 \in [T -> Nat] /\ DOMAIN r0 = {}
    BY <1>0, <1>2 DEF Rows
  <2> HIDE DEF c0, r0
  <2>3. Total(c0) = Cardinality(T) * 0
    BY <2>1, <2>2, TotalConstant
  <2>4. Total(r0) = 0
    BY <2>2, FS_EmptySet DEF Total, Units
  <2>5. Total(c0) = 0 /\ Total(r0) = 0
    BY <2>3, <2>4, FS_CardinalityType
  <2> QED BY <2>5 DEF c0, r0
<1>4. ASSUME NEW A \in SUBSET S, NEW x \in S \ A, A \in W
      PROVE  A \cup {x} \in W
  <2> DEFINE B  == A \cup {x}
             ca == Col(A)
             cb == Col(B)
             fx == F[x]
  <2>1. B \in SUBSET S
    OBVIOUS
  <2>2. IsFiniteSet(A) /\ ca \in [T -> Nat] /\ cb \in [T -> Nat] /\ fx \in [T -> Nat]
    BY <1>0, <1>2, <2>1
  <2>3. \A t \in T : cb[t] = ca[t] + fx[t]
    <3> SUFFICES ASSUME NEW t \in T PROVE cb[t] = ca[t] + fx[t]
      OBVIOUS
    <3>1. k(t) \in [S -> Nat] /\ k(t)[x] = fx[t]
      BY <1>1
    <3>2. Total(Rows(k(t), A \cup {x})) = Total(Rows(k(t), A)) + k(t)[x]
      <4> DEFINE kt == k(t)
      <4>1. kt \in [S -> Nat] /\ x \in S \ A
        BY <3>1
      <4> HIDE DEF kt
      <4>2. Total(Rows(kt, A \cup {x})) = Total(Rows(kt, A)) + kt[x]
        BY <2>2, <4>1, RowsExtend
      <4> QED BY <4>2 DEF kt
    <3>3. cb[t] = Total(Rows(k(t), A \cup {x})) /\ ca[t] = Total(Rows(k(t), A))
      BY <1>2, <2>1
    <3> QED BY <3>1, <3>2, <3>3
  <2>4. Total(Rows(r, A \cup {x})) = Total(Rows(r, A)) + r[x]
    BY <1>0, <2>2, RowsExtend
  <2>5. Total(Rows(r, A)) = Total(ca) /\ r[x] = Total(fx)
    BY <1>0, <1>4
  <2> HIDE DEF ca, cb, fx
  <2>6. Total(cb) = Total(ca) + Total(fx)
    BY <2>2, <2>3, TotalAdd
  <2>7. Total(Rows(r, B)) = Total(cb)
    BY <2>4, <2>5, <2>6
  <2> QED BY <2>1, <2>7 DEF cb
<1>5. S \in W
  <2> HIDE DEF W
  <2> QED BY <1>3, <1>4, SubsetInduction
<1>6. Rows(r, S) = r
  BY <1>0 DEF Rows
<1>7. Col(S) = c
  <2>1. \A t \in T : Col(S)[t] = c[t]
    <3> SUFFICES ASSUME NEW t \in T PROVE Col(S)[t] = c[t]
      OBVIOUS
    <3>1. Col(S)[t] = Total(Rows(k(t), S))
      BY <1>2
    <3>2. Rows(k(t), S) = Column(F, S, t)
      BY <1>1 DEF Rows, Column
    <3> QED BY <1>0, <3>1, <3>2
  <2>2. Col(S) \in [T -> Nat]
    BY <1>2
  <2> HIDE DEF Col
  <2> QED BY <1>0, <2>1, <2>2
<1> QED BY <1>5, <1>6, <1>7

\* What the rows of S count of the member t: row x counts w[x] for each member of the set K[x].
Holders(S, K, w, t) == [x \in S |-> IF t \in K[x] THEN w[x] ELSE 0]

\* h holds what each row counts of all members, c what all rows count of each member.
CountsMembers(S, T, K, w, h, c) ==
    /\ K \in [S -> SUBSET T]
    /\ w \in [S -> Nat]
    /\ h \in [S -> Nat] /\ \A x \in S : h[x] = Cardinality(K[x]) * w[x]
    /\ c \in [T -> Nat] /\ \A t \in T : c[t] = Total(Holders(S, K, w, t))

\* The sum, counted by rows or by members.
LEMMA TotalByMembers ==
    ASSUME NEW S, IsFiniteSet(S), NEW T, IsFiniteSet(T), NEW K, NEW w, NEW h, NEW c,
           CountsMembers(S, T, K, w, h, c)
    PROVE  Total(h) = Total(c)
<1>0. /\ K \in [S -> SUBSET T]
      /\ w \in [S -> Nat]
      /\ h \in [S -> Nat] /\ \A x \in S : h[x] = Cardinality(K[x]) * w[x]
      /\ c \in [T -> Nat] /\ \A t \in T : c[t] = Total(Holders(S, K, w, t))
  BY DEF CountsMembers
<1> DEFINE F == [x \in S |-> [t \in T |-> IF t \in K[x] THEN w[x] ELSE 0]]
<1>1. F \in [S -> [T -> Nat]]
  BY <1>0
<1>2. \A x \in S : h[x] = Total(F[x])
  <2> SUFFICES ASSUME NEW x \in S PROVE h[x] = Total(F[x])
    OBVIOUS
  <2> DEFINE g == F[x]
             A == K[x]
  <2>1. /\ g \in [T -> Nat] /\ A \in SUBSET T /\ w[x] \in Nat
        /\ (\A t \in A : g[t] = w[x]) /\ (\A t \in T \ A : g[t] = 0)
    BY <1>0
  <2>2. h[x] = Cardinality(A) * w[x]
    BY <1>0
  <2> HIDE DEF g, A, F
  <2>3. Total(g) = Cardinality(A) * w[x]
    BY <2>1, TotalCount
  <2> QED BY <2>2, <2>3 DEF g
<1>3. \A t \in T : c[t] = Total(Column(F, S, t))
  <2> SUFFICES ASSUME NEW t \in T PROVE c[t] = Total(Column(F, S, t))
    OBVIOUS
  <2>1. Column(F, S, t) = Holders(S, K, w, t)
    BY DEF Column, Holders
  <2> QED BY <1>0, <2>1
<1> HIDE DEF F
<1>4. /\ IsFiniteSet(S) /\ IsFiniteSet(T) /\ h \in [S -> Nat] /\ c \in [T -> Nat]
  BY <1>0
<1>5. SumsOfTable(F, S, T, h, c)
  BY <1>1, <1>2, <1>3, <1>4 DEF SumsOfTable
<1> QED BY <1>4, <1>5, TotalSwap

\* The sum of the numbers above m, up to n.
LEMMA RankSum ==
    ASSUME NEW n \in Nat, NEW m \in 0..n, NEW f \in [1..n -> Nat],
           \A i \in 1..n : f[i] = IF i > m THEN i ELSE 0
    PROVE  2 * Total(f) = n * (n + 1) - m * (m + 1)
<1> DEFINE D == 1..n
           T == {i \in 0..n : 2 * UpTo(f, i + 1) = IF i > m THEN i * (i + 1) - m * (m + 1) ELSE 0}
<1>1. IsFiniteSet(D) /\ f \in [D -> Nat] /\ (\A j \in D : j \in Nat)
  <2>1. 1 \in Int /\ n \in Int
    OBVIOUS
  <2>2. IsFiniteSet(1..n)
    BY <2>1, FS_Interval
  <2> QED BY <2>2
<1>2. /\ \A i \in Nat : UpTo(f, i) \in Nat
      /\ \A i \in D : UpTo(f, i + 1) = UpTo(f, i) + f[i]
      /\ \A i : (\A j \in D : ~(j < i)) => UpTo(f, i) = 0
      /\ \A i : (\A j \in D : j < i) => UpTo(f, i) = Total(f)
  <2> HIDE DEF D
  <2> QED BY <1>1, UpToNext
<1>3. 0 \in T
  <2>1. UpTo(f, 0 + 1) = 0
    <3>1. \A j \in D : ~(j < 0 + 1)
      OBVIOUS
    <3> HIDE DEF D
    <3> QED BY <1>2, <3>1
  <2> QED BY <2>1
<1>4. ASSUME NEW i \in 0..(n - 1), i \in T PROVE i + 1 \in T
  <2>1. i + 1 \in D /\ i + 1 \in 0..n /\ i \in Nat
    OBVIOUS
  <2>2. UpTo(f, (i + 1) + 1) = UpTo(f, i + 1) + f[i + 1] /\ UpTo(f, i + 1) \in Nat
    BY <1>2, <2>1
  <2>3. f[i + 1] = IF i + 1 > m THEN i + 1 ELSE 0
    BY <2>1
  <2>4. 2 * UpTo(f, i + 1) = IF i > m THEN i * (i + 1) - m * (m + 1) ELSE 0
    BY <1>4
  <2> DEFINE u == UpTo(f, i + 1)
             v == UpTo(f, (i + 1) + 1)
             j == i + 1
  <2>5. (i + 1) * ((i + 1) + 1) = i * (i + 1) + 2 * (i + 1)
    BY <2>1
  <2>6. 2 * v = IF i + 1 > m THEN (i + 1) * ((i + 1) + 1) - m * (m + 1) ELSE 0
    <3> DEFINE x == i * (i + 1)
               y == m * (m + 1)
               z == (i + 1) * ((i + 1) + 1)
    <3>1. /\ v = u + f[i + 1] /\ u \in Nat /\ f[i + 1] = IF i + 1 > m THEN i + 1 ELSE 0
          /\ 2 * u = IF i > m THEN x - y ELSE 0
          /\ z = x + 2 * (i + 1) /\ x \in Nat /\ y \in Nat
          /\ i = m => x = y
      <4>1. x \in Nat /\ y \in Nat /\ (i = m => x = y)
        BY <2>1
      <4>2. v = u + f[i + 1] /\ u \in Nat
        BY <2>2
      <4>3. z = x + 2 * (i + 1)
        BY <2>5
      <4>4. 2 * u = IF i > m THEN x - y ELSE 0
        BY <2>4
      <4> HIDE DEF x, y, z, u, v
      <4> QED BY <2>3, <4>1, <4>2, <4>3, <4>4
    <3> HIDE DEF x, y, z, u, v
    <3>2. 2 * v = IF i + 1 > m THEN z - y ELSE 0
      BY <2>1, <3>1
    <3> QED BY <3>2 DEF z, y
  <2> QED BY <2>1, <2>6
<1>5. n \in T
  <2> HIDE DEF T
  <2>1. 0..n \subseteq T
    BY <1>3, <1>4, IntervalInduction
  <2> QED BY <2>1
<1>6. UpTo(f, n + 1) = Total(f)
  <2>1. \A j \in D : j < n + 1
    OBVIOUS
  <2> HIDE DEF D
  <2> QED BY <1>2, <2>1
<1>7. 2 * Total(f) = IF n > m THEN n * (n + 1) - m * (m + 1) ELSE 0
  BY <1>5, <1>6
<1> QED BY <1>7

-----------------------------------------------------------------------------
(* Order statistics of a column.                                           *)

Below(f, t)  == {i \in DOMAIN f : f[i] < t}
UpToAmount(f, t) == {i \in DOMAIN f : f[i] <= t}

\* b is the k-th amount of the column in ascending order.
IsKth(f, b, k) ==
    /\ \E i \in DOMAIN f : f[i] = b
    /\ Cardinality(Below(f, b)) < k
    /\ Cardinality(UpToAmount(f, b)) >= k

\* The rows below a threshold: some of them, more for a larger threshold.
LEMMA BelowFacts ==
    ASSUME NEW S, IsFiniteSet(S), NEW f \in [S -> Nat]
    PROVE  /\ \A t : /\ Below(f, t) \in SUBSET S /\ UpToAmount(f, t) \in SUBSET S
                     /\ IsFiniteSet(Below(f, t)) /\ IsFiniteSet(UpToAmount(f, t))
                     /\ Cardinality(Below(f, t)) \in Nat /\ Cardinality(UpToAmount(f, t)) \in Nat
           /\ \A t, u \in Nat : t <= u => Cardinality(Below(f, t)) <= Cardinality(Below(f, u))
           /\ \A t, u \in Nat : u < t => Cardinality(UpToAmount(f, u)) <= Cardinality(Below(f, t))
<1>1. \A t : Below(f, t) \in SUBSET S /\ UpToAmount(f, t) \in SUBSET S
  BY DEF Below, UpToAmount
<1>2. \A t : /\ IsFiniteSet(Below(f, t)) /\ IsFiniteSet(UpToAmount(f, t))
             /\ Cardinality(Below(f, t)) \in Nat /\ Cardinality(UpToAmount(f, t)) \in Nat
  <2>1. \A A \in SUBSET S : IsFiniteSet(A) /\ Cardinality(A) \in Nat
    BY FS_Subset, FS_CardinalityType
  <2> QED BY <1>1, <2>1
<1>3. ASSUME NEW t \in Nat, NEW u \in Nat, t <= u
      PROVE  Cardinality(Below(f, t)) <= Cardinality(Below(f, u))
  <2>1. Below(f, t) \in SUBSET Below(f, u)
    BY <1>3 DEF Below
  <2> QED BY <1>2, <2>1, FS_Subset
<1>4. ASSUME NEW t \in Nat, NEW u \in Nat, u < t
      PROVE  Cardinality(UpToAmount(f, u)) <= Cardinality(Below(f, t))
  <2>1. UpToAmount(f, u) \in SUBSET Below(f, t)
    BY <1>4 DEF Below, UpToAmount
  <2> QED BY <1>2, <2>1, FS_Subset
<1> QED BY <1>1, <1>2, <1>3, <1>4

\* A column of n rows has a k-th amount, for each k up to n.
LEMMA KthExists ==
    ASSUME NEW S, IsFiniteSet(S), NEW f \in [S -> Nat], NEW k \in Nat, k <= Cardinality(S)
    PROVE  k > 0 => \E b \in Nat : IsKth(f, b, k)
<1> SUFFICES ASSUME k > 0 PROVE \E b \in Nat : IsKth(f, b, k)
  OBVIOUS
<1> DEFINE V == {v \in Nat : Cardinality(UpToAmount(f, v)) >= k}
           m == Total(f)
<1>1. m \in Nat /\ UpToAmount(f, m) = S
  <2>1. m \in Nat
    BY TotalType
  <2>2. \A i \in S : f[i] <= m
    BY TotalBound
  <2> QED BY <2>1, <2>2 DEF UpToAmount
<1>2. m \in V
  BY <1>1
<1>3. PICK b \in V : \A v \in V : b <= v
  <2>1. V \in SUBSET Nat /\ V # {}
    BY <1>2
  <2> HIDE DEF V
  <2> QED BY <2>1, LeastNatural
<1>4. b \in Nat /\ Cardinality(UpToAmount(f, b)) >= k
  BY <1>3
<1>5. Cardinality(Below(f, b)) < k
  <2>1. CASE b = 0
    <3>1. Below(f, b) = {}
      BY <2>1 DEF Below
    <3> QED BY <3>1, FS_EmptySet
  <2>2. CASE b # 0
    <3>1. b - 1 \in Nat /\ ~(b <= b - 1)
      BY <1>4, <2>2
    <3>2. b - 1 \notin V
      BY <1>3, <3>1
    <3>3. Below(f, b) = UpToAmount(f, b - 1)
      BY <1>4, <2>2 DEF Below, UpToAmount
    <3>4. Cardinality(UpToAmount(f, b - 1)) \in Nat
      BY BelowFacts
    <3> QED BY <3>1, <3>2, <3>3, <3>4
  <2> QED BY <2>1, <2>2
<1>6. \E i \in DOMAIN f : f[i] = b
  <2> SUFFICES ASSUME \A i \in DOMAIN f : f[i] # b PROVE FALSE
    OBVIOUS
  <2>1. Below(f, b) = UpToAmount(f, b)
    BY <1>4 DEF Below, UpToAmount
  <2>2. Cardinality(Below(f, b)) \in Nat
    BY BelowFacts
  <2> QED BY <1>4, <1>5, <2>1, <2>2
<1> QED BY <1>4, <1>5, <1>6 DEF IsKth

\* The k-th amount reaches a threshold when fewer than k rows are below it.
LEMMA KthReaches ==
    ASSUME NEW S, IsFiniteSet(S), NEW f \in [S -> Nat], NEW k \in Nat, NEW b, IsKth(f, b, k)
    PROVE  b \in Nat /\ \A t \in Nat : b >= t <=> Cardinality(Below(f, t)) < k
<1>1. b \in Nat
  BY DEF IsKth
<1>2. ASSUME NEW t \in Nat, b >= t PROVE Cardinality(Below(f, t)) < k
  <2>1. Cardinality(Below(f, t)) <= Cardinality(Below(f, b))
    BY <1>1, <1>2, BelowFacts
  <2>2. Cardinality(Below(f, b)) < k /\ Cardinality(Below(f, b)) \in Nat
        /\ Cardinality(Below(f, t)) \in Nat
    BY BelowFacts DEF IsKth
  <2> QED BY <2>1, <2>2
<1>3. ASSUME NEW t \in Nat, b < t PROVE ~(Cardinality(Below(f, t)) < k)
  <2>1. Cardinality(UpToAmount(f, b)) <= Cardinality(Below(f, t))
    BY <1>1, <1>3, BelowFacts
  <2>2. Cardinality(UpToAmount(f, b)) >= k /\ Cardinality(UpToAmount(f, b)) \in Nat
        /\ Cardinality(Below(f, t)) \in Nat
    BY BelowFacts DEF IsKth
  <2> QED BY <2>1, <2>2
<1> QED BY <1>1, <1>2, <1>3

\* How many pairs a threshold separates.
Separated(D, A) == (A \X (D \ A)) \cup ((D \ A) \X A)

LEMMA SeparatedPairs ==
    ASSUME NEW D, IsFiniteSet(D), NEW A \in SUBSET D
    PROVE  /\ Separated(D, A) \in SUBSET (D \X D)
           /\ \A x, y \in D : <<x, y>> \in Separated(D, A) <=> ~(x \in A <=> y \in A)
           /\ Cardinality(Separated(D, A))
                 = 2 * (Cardinality(A) * (Cardinality(D) - Cardinality(A)))
<1> DEFINE B == D \ A
           X == A \X B
           Y == B \X A
           a == Cardinality(A)
           b == Cardinality(B)
<1>1. Separated(D, A) = X \cup Y /\ X \cap Y = {}
  BY DEF Separated
<1>2. Separated(D, A) \in SUBSET (D \X D)
  BY DEF Separated
<1>3. \A x, y \in D : <<x, y>> \in Separated(D, A) <=> ~(x \in A <=> y \in A)
  BY DEF Separated
<1>4. IsFiniteSet(A) /\ IsFiniteSet(B)
  BY FS_Subset
<1>5. a \in Nat /\ b \in Nat /\ Cardinality(D) \in Nat
  BY <1>4, FS_CardinalityType
<1>6. b = Cardinality(D) - a
  <2>1. Cardinality(D \ A) = Cardinality(D) - Cardinality(D \cap A)
    BY FS_Difference
  <2>2. D \cap A = A
    OBVIOUS
  <2> QED BY <2>1, <2>2
<1> HIDE DEF B
<1>7. IsFiniteSet(X) /\ Cardinality(X) = a * b /\ IsFiniteSet(Y) /\ Cardinality(Y) = b * a
  BY <1>4, FS_Product
<1> HIDE DEF X, Y
<1>8. Cardinality(X \cup Y) = Cardinality(X) + Cardinality(Y) - Cardinality(X \cap Y)
  BY <1>7, FS_Union
<1>9. Cardinality(X \cap Y) = 0
  BY <1>1, FS_EmptySet
<1> HIDE DEF a, b
<1>10. a * b \in Nat /\ b * a = a * b
  BY <1>5
<1>11. Cardinality(X \cup Y) = 2 * (a * b)
  <2> DEFINE p == a * b
  <2>1. p \in Nat /\ b * a = p /\ Cardinality(X) = p /\ Cardinality(Y) = p
    BY <1>7, <1>10
  <2> HIDE DEF p
  <2>2. Cardinality(X \cup Y) = 2 * p
    BY <1>8, <1>9, <2>1
  <2> QED BY <2>2 DEF p
<1>12. Cardinality(Separated(D, A)) = 2 * (a * (Cardinality(D) - a))
  BY <1>1, <1>6, <1>11
<1> QED BY <1>2, <1>3, <1>12 DEF a

\* An equation between rows is one between sums.
Combines(S, f, g, h, e) ==
    /\ f \in [S -> Nat] /\ g \in [S -> Nat] /\ h \in [S -> Nat] /\ e \in Nat
    /\ \A x \in S : 4 * h[x] = e * f[x] + g[x]

LEMMA TotalCombine ==
    ASSUME NEW S, IsFiniteSet(S), NEW f, NEW g, NEW h, NEW e, Combines(S, f, g, h, e)
    PROVE  4 * Total(h) = e * Total(f) + Total(g)
<1>0. /\ f \in [S -> Nat] /\ g \in [S -> Nat] /\ h \in [S -> Nat] /\ e \in Nat
      /\ \A x \in S : 4 * h[x] = e * f[x] + g[x]
  BY DEF Combines
<1> DEFINE four == 4
           x == [t \in S |-> e * f[t]]
           y == [t \in S |-> four * h[t]]
<1>1. four \in Nat /\ four = 4
  OBVIOUS
<1> HIDE DEF four
<1>2. x \in [S -> Nat] /\ \A t \in S : x[t] = e * f[t]
  BY <1>0
<1>3. y \in [S -> Nat] /\ \A t \in S : y[t] = four * h[t]
  BY <1>0, <1>1
<1>4. \A t \in S : y[t] = x[t] + g[t]
  BY <1>0, <1>1, <1>2, <1>3
<1> HIDE DEF x, y
<1>5. x \in [S -> Nat] /\ y \in [S -> Nat]
  BY <1>2, <1>3
<1>6. f \in [S -> Nat] /\ g \in [S -> Nat] /\ h \in [S -> Nat] /\ e \in Nat
  BY <1>0
<1>7. Total(y) = Total(x) + Total(g)
  BY <1>4, <1>5, <1>6, TotalAdd
<1>8. Total(x) = e * Total(f)
  BY <1>2, <1>6, TotalScale
<1>9. Total(y) = four * Total(h)
  BY <1>1, <1>3, <1>6, TotalScale
<1> QED BY <1>1, <1>7, <1>8, <1>9

\* The amounts b, in ascending order s, times their ranks, and the differences of all pairs.
RanksAndPairs(n, b, s, ranks, pairs) ==
    /\ b \in [1..n -> Nat]
    /\ s \in [1..n -> Nat] /\ \A k \in 1..n : IsKth(b, s[k], k)
    /\ ranks \in [1..n -> Nat] /\ \A k \in 1..n : ranks[k] = k * s[k]
    /\ pairs \in [(1..n) \X (1..n) -> Nat]
    /\ \A x, y \in 1..n :
          pairs[<<x, y>>] = IF b[x] > b[y] THEN b[x] - b[y] ELSE b[y] - b[x]

\* The differences of all pairs, by ranks.
LEMMA DifferencesByRank ==
    ASSUME NEW n \in Nat, NEW b, NEW s, NEW ranks, NEW pairs,
           RanksAndPairs(n, b, s, ranks, pairs)
    PROVE  /\ Total(s) = Total(b)
           /\ 4 * Total(ranks) = (2 * (n + 1)) * Total(s) + Total(pairs)
<1> DEFINE D == 1..n
           m == Total(b)
           T == 1..m
           L(t) == Cardinality(Below(b, t))
<1>1. IsFiniteSet(D) /\ Cardinality(D) = n /\ \A x \in D : x \in Nat /\ x >= 1 /\ x <= n
  <2>1. 1 \in Int /\ n \in Int
    OBVIOUS
  <2>2. IsFiniteSet(1..n) /\ Cardinality(1..n) = IF 1 > n THEN 0 ELSE n - 1 + 1
    BY <2>1, FS_Interval
  <2> QED BY <2>2
<1>2. b \in [D -> Nat] /\ s \in [D -> Nat] /\ ranks \in [D -> Nat] /\ pairs \in [D \X D -> Nat]
  BY DEF RanksAndPairs
<1>3. \A k \in D : IsKth(b, s[k], k)
  BY DEF RanksAndPairs
<1>4. \A k \in D : ranks[k] = k * s[k]
  BY DEF RanksAndPairs
<1>5. \A x, y \in D : pairs[<<x, y>>] = IF b[x] > b[y] THEN b[x] - b[y] ELSE b[y] - b[x]
  BY DEF RanksAndPairs
<1> HIDE DEF D
<1>6. m \in Nat /\ IsFiniteSet(T) /\ \A t \in T : t \in Nat /\ t >= 1 /\ t <= m
  <2>1. m \in Nat
    BY <1>1, <1>2, TotalType
  <2>2. 1 \in Int /\ m \in Int
    BY <2>1
  <2> HIDE DEF m
  <2>3. IsFiniteSet(1..m)
    BY <2>2, FS_Interval
  <2> QED BY <2>1, <2>3
<1>7. \A x \in D : b[x] <= m
  BY <1>1, <1>2, TotalBound
<1>8. \A k \in D : s[k] <= m /\ \A t \in Nat : s[k] >= t <=> L(t) < k
  <2> SUFFICES ASSUME NEW k \in D PROVE s[k] <= m /\ \A t \in Nat : s[k] >= t <=> L(t) < k
    OBVIOUS
  <2>1. IsKth(b, s[k], k) /\ k \in Nat
    BY <1>1, <1>3
  <2>2. \A t \in Nat : s[k] >= t <=> L(t) < k
    BY <1>1, <1>2, <2>1, KthReaches
  <2>3. s[k] <= m
    BY <1>2, <1>7, <2>1 DEF IsKth
  <2> QED BY <2>2, <2>3
<1>9. \A t : Below(b, t) \in SUBSET D /\ L(t) \in Nat /\ L(t) <= n
  <2>1. \A t : Below(b, t) \in SUBSET D /\ L(t) \in Nat
    BY <1>1, <1>2, BelowFacts
  <2>2. \A t : L(t) <= n
    BY <1>1, <2>1, FS_Subset
  <2> QED BY <2>1, <2>2
<1> HIDE DEF m, L
\* An amount of a column counts the thresholds it reaches.
<1>10. \A a \in Nat : a <= m => 1..a \in SUBSET T /\ Cardinality(1..a) = a
  <2> SUFFICES ASSUME NEW a \in Nat, a <= m PROVE 1..a \in SUBSET T /\ Cardinality(1..a) = a
    OBVIOUS
  <2>1. 1..a \in SUBSET T
    BY <1>6
  <2>2. Cardinality(1..a) = IF 1 > a THEN 0 ELSE a - 1 + 1
    <3>1. 1 \in Int /\ a \in Int
      OBVIOUS
    <3> QED BY <3>1, FS_Interval
  <2> QED BY <2>1, <2>2
<1> DEFINE ones == [x \in D |-> 1]
           Kb   == [x \in D |-> 1..b[x]]
           Ks   == [x \in D |-> 1..s[x]]
           Kp   == [p \in D \X D |-> {t \in T : ~(t <= b[p[1]] <=> t <= b[p[2]])}]
           onep == [p \in D \X D |-> 1]
           w    == [x \in D |-> x]
           cb   == [t \in T |-> n - L(t)]
           cr   == [t \in T |-> Total(Holders(D, Ks, w, t))]
           cp   == [t \in T |-> 2 * (L(t) * (n - L(t)))]
<1> HIDE DEF T
<1>11. cb \in [T -> Nat] /\ cp \in [T -> Nat] /\ \A t \in T : cb[t] = n - L(t)
       /\ cp[t] = 2 * (L(t) * (n - L(t)))
  <2>1. \A t \in T : n - L(t) \in Nat
    BY <1>9
  <2>2. \A t \in T : L(t) * (n - L(t)) \in Nat
    BY <1>9, <2>1
  <2>3. \A t \in T : 2 * (L(t) * (n - L(t))) \in Nat
    BY <2>2
  <2> QED BY <2>1, <2>3
<1>12. Total(b) = Total(cb)
  <2>1. ASSUME NEW t \in T PROVE cb[t] = Total(Holders(D, Kb, ones, t))
    <3> DEFINE A == D \ Below(b, t)
               f == Holders(D, Kb, ones, t)
    <3>1. t \in Nat /\ t >= 1
      BY <1>6
    <3>2. \A x \in D : x \in A <=> t \in 1..b[x]
      BY <1>2, <3>1 DEF Below
    <3>3. /\ f \in [D -> Nat] /\ A \in SUBSET D
          /\ (\A x \in A : f[x] = 1) /\ (\A x \in D \ A : f[x] = 0)
      BY <3>2 DEF Holders
    <3>4. Cardinality(A) = n - L(t)
      <4>1. Cardinality(D \ Below(b, t)) = Cardinality(D) - Cardinality(D \cap Below(b, t))
        BY <1>1, FS_Difference
      <4>2. D \cap Below(b, t) = Below(b, t)
        BY <1>9
      <4> QED BY <1>1, <4>1, <4>2 DEF L
    <3> HIDE DEF A, f
    <3>5. Total(f) = Cardinality(A)
      BY <1>1, <3>3, TotalOnes
    <3>6. Total(f) = n - L(t)
      BY <3>4, <3>5
    <3> QED BY <1>11, <3>6 DEF f
  <2>2. CountsMembers(D, T, Kb, ones, b, cb)
    <3>1. Kb \in [D -> SUBSET T] /\ ones \in [D -> Nat]
      BY <1>2, <1>7, <1>10
    <3>2. \A x \in D : b[x] = Cardinality(Kb[x]) * ones[x]
      BY <1>2, <1>7, <1>10
    <3> HIDE DEF Kb, ones, cb
    <3> QED BY <1>2, <1>11, <2>1, <3>1, <3>2 DEF CountsMembers
  <2> HIDE DEF Kb, ones, cb
  <2> QED BY <1>1, <1>6, <2>2, TotalByMembers
\* In ascending order a threshold is reached from some rank on.
<1>13. \A t \in T : \A k \in D : t \in Ks[k] <=> k > L(t)
  <2> SUFFICES ASSUME NEW t \in T, NEW k \in D PROVE t \in Ks[k] <=> k > L(t)
    OBVIOUS
  <2>1. t \in Nat /\ t >= 1
    BY <1>6
  <2> DEFINE a == s[k]
             l == L(t)
  <2>2. a \in Nat /\ k \in Nat /\ l \in Nat /\ (a >= t <=> l < k)
    BY <1>1, <1>2, <1>8, <1>9, <2>1
  <2>3. Ks[k] = 1..a
    OBVIOUS
  <2> HIDE DEF Ks, a, l
  <2>4. t \in Ks[k] <=> k > l
    BY <2>1, <2>2, <2>3
  <2> QED BY <2>4 DEF l
<1>14. Total(s) = Total(cb)
  <2>1. ASSUME NEW t \in T PROVE cb[t] = Total(Holders(D, Ks, ones, t))
    <3> DEFINE A == (L(t) + 1)..n
               f == Holders(D, Ks, ones, t)
    <3>1. \A x \in D : x \in A <=> t \in Ks[x]
      BY <1>1, <1>9, <1>13
    <3>2. A \in SUBSET D
      BY <1>9 DEF D
    <3>3. /\ f \in [D -> Nat]
          /\ (\A x \in A : f[x] = 1) /\ (\A x \in D \ A : f[x] = 0)
      <4> HIDE DEF A, Ks
      <4> QED BY <3>1, <3>2 DEF Holders
    <3>4. Cardinality(A) = n - L(t)
      <4> DEFINE l == L(t)
                 lo == l + 1
                 c == Cardinality(A)
      <4>1. lo \in Int /\ n \in Int /\ l \in Nat /\ l <= n /\ A = lo..n
        BY <1>9
      <4> HIDE DEF A, lo
      <4>2. c = IF lo > n THEN 0 ELSE n - lo + 1
        BY <4>1, FS_Interval
      <4> HIDE DEF l, c
      <4>3. c = n - l
        BY <4>1, <4>2 DEF lo
      <4> QED BY <4>3 DEF l, c
    <3> HIDE DEF A, f
    <3>5. Total(f) = Cardinality(A)
      BY <1>1, <3>2, <3>3, TotalOnes
    <3>6. Total(f) = n - L(t)
      BY <3>4, <3>5
    <3> QED BY <1>11, <3>6 DEF f
  <2>2. CountsMembers(D, T, Ks, ones, s, cb)
    <3>1. Ks \in [D -> SUBSET T] /\ ones \in [D -> Nat]
      BY <1>2, <1>8, <1>10
    <3>2. \A x \in D : s[x] = Cardinality(Ks[x]) * ones[x]
      BY <1>2, <1>8, <1>10
    <3> HIDE DEF Ks, ones, cb
    <3> QED BY <1>2, <1>11, <2>1, <3>1, <3>2 DEF CountsMembers
  <2> HIDE DEF Ks, ones, cb
  <2> QED BY <1>1, <1>6, <2>2, TotalByMembers
<1>15. /\ cr \in [T -> Nat]
       /\ \A t \in T : 2 * cr[t] = n * (n + 1) - L(t) * (L(t) + 1)
  <2>1. ASSUME NEW t \in T
        PROVE  /\ Total(Holders(D, Ks, w, t)) \in Nat
               /\ 2 * Total(Holders(D, Ks, w, t)) = n * (n + 1) - L(t) * (L(t) + 1)
    <3> DEFINE f == Holders(D, Ks, w, t)
               l == L(t)
    <3>1. \A k \in D : f[k] = IF k > l THEN k ELSE 0
      <4> HIDE DEF Ks, l
      <4> QED BY <1>13 DEF Holders, l
    <3>2. f \in [1..n -> Nat] /\ \A k \in 1..n : f[k] = IF k > l THEN k ELSE 0
      <4>1. f = [k \in D |-> f[k]]
        BY DEF Holders
      <4> HIDE DEF f, l
      <4> QED BY <1>1, <3>1, <4>1 DEF D
    <3>3. l \in 0..n
      BY <1>9
    <3> HIDE DEF f, l
    <3>4. 2 * Total(f) = n * (n + 1) - l * (l + 1)
      BY <3>2, <3>3, RankSum
    <3>5. Total(f) \in Nat
      BY <1>1, <3>2, TotalType DEF D
    <3> QED BY <3>4, <3>5 DEF f, l
  <2> HIDE DEF Ks, w
  <2> QED BY <2>1
<1>16. Total(ranks) = Total(cr)
  <2>1. CountsMembers(D, T, Ks, w, ranks, cr)
    <3>1. Ks \in [D -> SUBSET T] /\ w \in [D -> Nat]
      BY <1>1, <1>2, <1>8, <1>10
    <3>2. \A x \in D : ranks[x] = Cardinality(Ks[x]) * w[x]
      <4> SUFFICES ASSUME NEW x \in D PROVE ranks[x] = Cardinality(Ks[x]) * w[x]
        OBVIOUS
      <4>1. Cardinality(Ks[x]) = s[x] /\ w[x] = x /\ s[x] \in Nat /\ x \in Nat
        BY <1>1, <1>2, <1>8, <1>10
      <4>2. ranks[x] = x * s[x]
        BY <1>4
      <4>3. x * s[x] = s[x] * x
        BY <4>1
      <4> QED BY <4>1, <4>2, <4>3
    <3>3. \A t \in T : cr[t] = Total(Holders(D, Ks, w, t))
      OBVIOUS
    <3> HIDE DEF Ks, w, cr
    <3> QED BY <1>2, <1>15, <3>1, <3>2, <3>3 DEF CountsMembers
  <2> HIDE DEF Ks, w, cr
  <2> QED BY <1>1, <1>6, <1>15, <2>1, TotalByMembers
\* A difference counts the thresholds between its two amounts.
<1>17. Total(pairs) = Total(cp)
  <2>1. IsFiniteSet(D \X D)
    BY <1>1, FS_Product
  <2>2. ASSUME NEW t \in T PROVE cp[t] = Total(Holders(D \X D, Kp, onep, t))
    <3> DEFINE A == Below(b, t)
               Q == Separated(D, A)
               P == D \X D
               f == Holders(P, Kp, onep, t)
    <3>1. A \in SUBSET D /\ \A x \in D : x \in A <=> ~(t <= b[x])
      BY <1>2, <1>6, <1>9 DEF Below
    <3> HIDE DEF A
    <3>2. /\ Q \in SUBSET P
          /\ \A x, y \in D : <<x, y>> \in Q <=> ~(x \in A <=> y \in A)
          /\ Cardinality(Q) = 2 * (Cardinality(A) * (n - Cardinality(A)))
      BY <1>1, <3>1, SeparatedPairs
    <3> HIDE DEF Q
    <3>3. \A x, y \in D : <<x, y>> \in Q <=> t \in Kp[<<x, y>>]
      BY <3>1, <3>2
    <3>4. \A p \in P : p \in Q <=> t \in Kp[p]
      <4> HIDE DEF Kp
      <4> QED BY <3>3
    <3> HIDE DEF P
    <3>5. f \in [P -> Nat] /\ (\A p \in Q : f[p] = 1) /\ (\A p \in P \ Q : f[p] = 0)
      <4>1. \A p \in P : onep[p] = 1
        BY DEF P
      <4> HIDE DEF Kp, onep
      <4> QED BY <3>2, <3>4, <4>1 DEF Holders
    <3> HIDE DEF f
    <3>6. Total(f) = Cardinality(Q)
      BY <2>1, <3>2, <3>5, TotalOnes DEF P
    <3>7. cp[t] = Cardinality(Q)
      BY <1>11, <3>2 DEF L, A
    <3>8. cp[t] = Total(f)
      <4> HIDE DEF cp
      <4> QED BY <3>6, <3>7
    <3> QED BY <3>8 DEF f, P
  <2>3. CountsMembers(D \X D, T, Kp, onep, pairs, cp)
    <3>1. Kp \in [D \X D -> SUBSET T] /\ onep \in [D \X D -> Nat]
      OBVIOUS
    <3>2. \A p \in D \X D : pairs[p] = Cardinality(Kp[p]) * onep[p]
      <4>1. \A p, q \in Nat : p <= q /\ q <= m =>
               Cardinality({t \in T : ~(t <= p <=> t <= q)}) = q - p
        <5> SUFFICES ASSUME NEW p \in Nat, NEW q \in Nat, p <= q, q <= m
                     PROVE  Cardinality({t \in T : ~(t <= p <=> t <= q)}) = q - p
          OBVIOUS
        <5> DEFINE E == {t \in T : ~(t <= p <=> t <= q)}
                   lo == p + 1
                   c == Cardinality(E)
        <5>1. \A t : t \in T <=> t \in Nat /\ t >= 1 /\ t <= m
          BY <1>6 DEF T
        <5>2. E = (p + 1)..q
          <6>1. \A t \in E : t \in (p + 1)..q
            BY <5>1
          <6>2. \A t \in (p + 1)..q : t \in Nat /\ t >= 1 /\ t <= m /\ t <= q /\ ~(t <= p)
            BY <1>6
          <6>3. \A t \in (p + 1)..q : t \in E
            BY <5>1, <6>2
          <6> HIDE DEF E
          <6> QED BY <6>1, <6>3
        <5>3. lo \in Int /\ q \in Int /\ E = lo..q
          BY <5>2
        <5> HIDE DEF E, lo
        <5>4. c = IF lo > q THEN 0 ELSE q - lo + 1
          BY <5>3, FS_Interval
        <5> HIDE DEF c
        <5>5. c = q - p
          BY <5>4 DEF lo
        <5> QED BY <5>5 DEF c, E
      <4>2. \A x, y \in D : Cardinality(Kp[<<x, y>>])
                               = IF b[x] > b[y] THEN b[x] - b[y] ELSE b[y] - b[x]
        <5> SUFFICES ASSUME NEW x \in D, NEW y \in D
                     PROVE  Cardinality(Kp[<<x, y>>])
                               = IF b[x] > b[y] THEN b[x] - b[y] ELSE b[y] - b[x]
          OBVIOUS
        <5>1. b[x] \in Nat /\ b[y] \in Nat
          BY <1>2
        <5>2. Kp[<<x, y>>] = {t \in T : ~(t <= b[x] <=> t <= b[y])}
          OBVIOUS
        <5>3. {t \in T : ~(t <= b[x] <=> t <= b[y])} = {t \in T : ~(t <= b[y] <=> t <= b[x])}
          OBVIOUS
        <5> DEFINE p == b[x]
                   q == b[y]
        <5>6. /\ Kp[<<x, y>>] = {t \in T : ~(t <= p <=> t <= q)}
              /\ Kp[<<x, y>>] = {t \in T : ~(t <= q <=> t <= p)}
              /\ p \in Nat /\ q \in Nat /\ p <= m /\ q <= m
          BY <1>7, <5>1, <5>2, <5>3
        <5> HIDE DEF Kp, p, q
        <5>7. p <= q => Cardinality(Kp[<<x, y>>]) = q - p
          BY <4>1, <5>6
        <5>8. q <= p => Cardinality(Kp[<<x, y>>]) = p - q
          BY <4>1, <5>6
        <5>9. Cardinality(Kp[<<x, y>>]) = IF p > q THEN p - q ELSE q - p
          BY <5>6, <5>7, <5>8
        <5> QED BY <5>9 DEF p, q
      <4>3. \A x, y \in D : pairs[<<x, y>>] = Cardinality(Kp[<<x, y>>]) * 1
        <5> SUFFICES ASSUME NEW x \in D, NEW y \in D
                     PROVE  pairs[<<x, y>>] = Cardinality(Kp[<<x, y>>]) * 1
          OBVIOUS
        <5>1. pairs[<<x, y>>] = Cardinality(Kp[<<x, y>>]) /\ pairs[<<x, y>>] \in Nat
          BY <1>2, <1>5, <4>2
        <5> QED BY <5>1
      <4>4. \A p \in D \X D : onep[p] = 1
        OBVIOUS
      <4> HIDE DEF Kp, onep
      <4> QED BY <4>3, <4>4
    <3> HIDE DEF Kp, onep, cp
    <3> QED BY <1>2, <1>11, <2>2, <3>1, <3>2 DEF CountsMembers
  <2> HIDE DEF Kp, onep, cp
  <2> QED BY <1>6, <2>1, <2>3, TotalByMembers
\* Threshold by threshold, with l rows below it.
<1>18. \A l \in Nat : 2 * (n * (n + 1) - l * (l + 1)) = (2 * (n + 1)) * (n - l) + 2 * (l * (n - l))
  <2> SUFFICES ASSUME NEW l \in Nat
               PROVE  2 * (n * (n + 1) - l * (l + 1)) = (2 * (n + 1)) * (n - l) + 2 * (l * (n - l))
    OBVIOUS
  <2>1. n * (n + 1) = n * n + n /\ l * (l + 1) = l * l + l
    OBVIOUS
  <2>2. (2 * (n + 1)) * (n - l) = 2 * (n * n) + 2 * n - 2 * (l * n) - 2 * l
    OBVIOUS
  <2>3. l * (n - l) = l * n - l * l
    OBVIOUS
  <2> QED BY <2>1, <2>2, <2>3
<1> DEFINE e == 2 * (n + 1)
<1>19. e \in Nat
  OBVIOUS
<1> HIDE DEF e
<1>20. \A t \in T : 4 * cr[t] = e * cb[t] + cp[t]
  <2> SUFFICES ASSUME NEW t \in T PROVE 4 * cr[t] = e * cb[t] + cp[t]
    OBVIOUS
  <2> DEFINE l  == L(t)
             r  == cr[t]
             z1 == n * (n + 1) - l * (l + 1)
             z2 == e * (n - l)
             z3 == 2 * (l * (n - l))
  <2>1. l \in Nat /\ cb[t] = n - l /\ cp[t] = z3 /\ r \in Nat /\ 2 * r = z1
    BY <1>9, <1>11, <1>15
  <2>2. 2 * z1 = z2 + z3
    BY <1>18, <2>1 DEF e
  <2>3. e * cb[t] = z2
    BY <2>1
  <2> DEFINE z4 == e * cb[t]
  <2> HIDE DEF cp, r, z1, z2, z3, z4
  <2>4. 4 * r = z4 + cp[t]
    BY <2>1, <2>2, <2>3 DEF z4
  <2> QED BY <2>4 DEF r, z4
<1>21. cb \in [T -> Nat] /\ cr \in [T -> Nat] /\ cp \in [T -> Nat] /\ IsFiniteSet(T)
  BY <1>6, <1>11, <1>15
<1> HIDE DEF cb, cr, cp
<1>22. 4 * Total(cr) = e * Total(cb) + Total(cp)
  <2>1. Combines(T, cb, cp, cr, e)
    BY <1>19, <1>20, <1>21 DEF Combines
  <2> QED BY <1>21, <2>1, TotalCombine
<1>23. 4 * Total(ranks) = e * Total(s) + Total(pairs)
  BY <1>14, <1>16, <1>17, <1>22
<1> QED BY <1>12, <1>14, <1>23 DEF e

-----------------------------------------------------------------------------
(* The operators of Economy.                                               *)

USE MaxU64Assumption, ScaleAssumption, LogStepsAssumption

\* The saturating operations stay in the range of a u64.
LEMMA SatAddType ==
    ASSUME NEW a \in Nat, NEW b \in Nat
    PROVE  SatAdd(a, b) \in 0..MaxU64
BY DEF SatAdd

\* saturating_sub never leaves the range its first argument is in.
LEMMA SatSubType ==
    ASSUME NEW a \in Nat, NEW b \in Nat
    PROVE  SatSub(a, b) \in Nat /\ SatSub(a, b) <= a
BY DEF SatSub

\* The smaller of two natural numbers is one of them.
LEMMA SmallerOfType ==
    ASSUME NEW a \in Nat, NEW b \in Nat
    PROVE  SmallerOf(a, b) \in Nat /\ SmallerOf(a, b) <= a /\ SmallerOf(a, b) <= b
BY DEF SmallerOf

\* A product divided by a positive number is a natural number.
LEMMA QuotientType ==
    ASSUME NEW a \in Nat, NEW b \in Nat, NEW d \in Nat \ {0}
    PROVE  (a * b) \div d \in Nat
<1>1. a * b \in Nat
  OBVIOUS
<1> DEFINE n == a * b
<1> HIDE DEF n
<1>2. n \in Nat
  BY <1>1 DEF n
<1>3. n \div d \in Nat
  BY <1>2
<1> QED BY <1>3 DEF n

\* A portion of an amount is an amount.
LEMMA PortionType ==
    ASSUME NEW r \in Nat, NEW n \in Nat
    PROVE  Portion(r, n) \in Nat
BY QuotientType, SmallerOfType DEF Portion

\* The wrapping sum is in the range of a u64.
LEMMA SumU64Type ==
    ASSUME NEW S, IsFiniteSet(S), NEW f \in [S -> Nat]
    PROVE  SumU64(f) \in 0..MaxU64
<1>1. Total(f) \in Nat
  BY TotalType
<1> QED BY <1>1 DEF SumU64

\* A logarithm is a natural number, whatever its arguments.
LEMMA LogScoreType ==
    ASSUME NEW b, NEW s
    PROVE  LogScore(b, s) \in Nat
<1> DEFINE I == 0..(LogSteps - 1)
           T == {k \in I : 2^k * s^2 < (s + b)^2}
<1>1. IsFiniteSet(I)
  <2>1. 0 \in Int /\ LogSteps - 1 \in Int
    OBVIOUS
  <2> QED BY <2>1, FS_Interval
<1>2. T \in SUBSET I
  OBVIOUS
<1>3. LogScore(b, s) = Cardinality(T)
  BY Zenon DEF LogScore
<1> HIDE DEF I, T
<1>4. IsFiniteSet(T)
  BY <1>1, <1>2, FS_Subset
<1> QED BY <1>3, <1>4, FS_CardinalityType

\* The balances of wallets are natural numbers.
LEMMA BalancesType ==
    ASSUME NEW S, NEW ids, NEW ws \in [S -> WalletRecord(ids)]
    PROVE  Balances(ws) \in [S -> Nat] /\ \A w \in S : Balances(ws)[w] = ws[w].balance
BY DEF Balances, WalletRecord

\* A penalty is a natural number that the wallet can pay.
LEMMA BasePenaltyType ==
    ASSUME NEW S, NEW ids, NEW ws \in [S -> WalletRecord(ids)], NEW p \in Parameters, NEW w \in S
    PROVE  BasePenalty(ws, p, w) \in Nat /\ BasePenalty(ws, p, w) <= ws[w].balance
<1> DEFINE d == IF p.seed > 0 THEN LogScore(MaxBalance(Balances(ws)), p.seed) ELSE 0
           b == ws[w].balance
           l == LogScore(b, p.seed)
<1>1. d \in Nat /\ l \in Nat
  BY LogScoreType
<1>2. b \in Nat /\ p.penalty_rate \in Nat
  BY DEF WalletRecord, Parameters
<1>3. BasePenalty(ws, p, w) = IF b = 0 \/ d = 0 THEN 0
                              ELSE SmallerOf((p.penalty_rate * b * l) \div (Scale * d), b)
  BY Zenon DEF BasePenalty
<1> HIDE DEF d, b, l
<1>4. CASE b = 0 \/ d = 0
  BY <1>2, <1>3, <1>4 DEF b
<1>5. CASE ~(b = 0 \/ d = 0)
  <2>1. Scale * d \in Nat \ {0}
    BY <1>1, <1>5
  <2>2. p.penalty_rate * b \in Nat
    BY <1>2
  <2>3. (p.penalty_rate * b * l) \div (Scale * d) \in Nat
    BY <1>1, <2>1, <2>2, QuotientType
  <2>4. BasePenalty(ws, p, w) = SmallerOf((p.penalty_rate * b * l) \div (Scale * d), b)
    BY <1>3, <1>5, Zenon
  <2> QED BY <1>2, <2>3, <2>4, SmallerOfType DEF b
<1> QED BY <1>4, <1>5

\* The calibrated penalties are natural numbers that the wallets can pay.
LEMMA PenaltiesType ==
    ASSUME NEW S, IsFiniteSet(S), NEW ids, NEW ws \in [S -> WalletRecord(ids)],
           NEW p \in Parameters
    PROVE  /\ Penalties(ws, p) \in [S -> Nat]
           /\ \A w \in S : Penalties(ws, p)[w] <= ws[w].balance
<1> DEFINE base   == [w \in S |-> BasePenalty(ws, p, w)]
           total  == SumU64(base)
           target == Portion(p.target_penalty_share_of_supply, SumU64(Balances(ws)))
           pen(w) == IF Deviates(total, target)
                     THEN SmallerOf((base[w] * target) \div total, ws[w].balance)
                     ELSE base[w]
<1>1. base \in [S -> Nat] /\ \A w \in S : base[w] <= ws[w].balance
  BY BasePenaltyType
<1>2. total \in Nat
  <2> HIDE DEF base
  <2> QED BY <1>1, SumU64Type
<1>3. target \in Nat
  <2>1. p.target_penalty_share_of_supply \in Nat
    BY DEF Parameters
  <2>2. SumU64(Balances(ws)) \in Nat
    BY BalancesType, SumU64Type
  <2> QED BY <2>1, <2>2, PortionType
<1>4. Penalties(ws, p) = [w \in S |-> pen(w)]
  <2>1. DOMAIN ws = S
    OBVIOUS
  <2> QED BY <2>1, Zenon DEF Penalties
<1>5. \A w \in S : pen(w) \in Nat /\ pen(w) <= ws[w].balance
  <2> TAKE w \in S
  <2>1. ws[w].balance \in Nat
    BY DEF WalletRecord
  <2>2. base[w] \in Nat /\ base[w] <= ws[w].balance
    BY <1>1
  <2> HIDE DEF base, total, target
  <2>3. CASE Deviates(total, target)
    <3>1. total \in Nat \ {0}
      BY <1>2, <2>3 DEF Deviates
    <3>2. (base[w] * target) \div total \in Nat
      BY <1>3, <2>2, <3>1, QuotientType
    <3> QED BY <2>1, <2>3, <3>2, SmallerOfType
  <2>4. CASE ~Deviates(total, target)
    BY <2>2, <2>4
  <2> QED BY <2>3, <2>4
<1> HIDE DEF pen
<1> QED BY <1>4, <1>5

-----------------------------------------------------------------------------

\* The burn rate is a natural number: it is clamped between two of them.
LEMMA BurnRateType ==
    ASSUME NEW p \in Parameters, NEW sys,
           sys.previous_iteration_supply \in Nat, sys.previous_iteration_start_supply \in Nat
    PROVE  Inflation(sys) \in Int /\ BurnRate(p, sys) \in Nat
<1> DEFINE a == sys.previous_iteration_supply
           z == sys.previous_iteration_start_supply
<1>1. Inflation(sys) \in Int
  <2>1. Scale * (a - z) \in Int
    OBVIOUS
  <2> DEFINE n == Scale * (a - z)
  <2> HIDE DEF n
  <2>2. n \in Int
    BY <2>1 DEF n
  <2>3. CASE z > 0
    <3>1. n \div z \in Int
      BY <2>2, <2>3
    <3> QED BY <2>3, <3>1 DEF n, Inflation
  <2>4. CASE ~(z > 0)
    BY <2>4 DEF Inflation
  <2> QED BY <2>3, <2>4
<1> DEFINE k == p.burn_sensitivity * (Inflation(sys) - p.target_inflation_per_iter)
           x == p.burn_base + k \div Scale
<1>2. /\ p.burn_base \in Int /\ p.burn_sensitivity \in Int /\ p.target_inflation_per_iter \in Int
      /\ p.burn_min \in Nat /\ p.burn_max \in Nat
  BY DEF Parameters
<1>3. k \in Int
  BY <1>1, <1>2
<1>4. x \in Int
  <2> HIDE DEF k
  <2> QED BY <1>2, <1>3
<1>5. BurnRate(p, sys) = Clamp(x, p.burn_min, p.burn_max)
  BY Zenon DEF BurnRate
<1> HIDE DEF x
<1>6. Clamp(x, p.burn_min, p.burn_max) \in Nat
  BY <1>2, <1>4 DEF Clamp, SmallerOf, LargerOf
<1> QED BY <1>1, <1>5, <1>6

\* The number of new wallets is a natural number.
LEMMA PlannedType ==
    ASSUME NEW p \in Parameters, NEW n \in Nat
    PROVE  PlannedNewWallets(p, n) \in Nat
<1>1. p.growth_factor_per_iteration \in Nat /\ p.max_new_wallets_per_iter \in Nat
  BY DEF Parameters
<1> QED BY <1>1, PortionType, SmallerOfType DEF PlannedNewWallets

\* The penalty pool is allocated without a remainder: faucet, burn and redistribution are
\* natural numbers that add up to what was collected, for all shares of the parameters, even
\* when the faucet share and the burn rate add up to more than the pool.
THEOREM PoolIsPartitioned ==
    ASSUME NEW p \in Parameters, NEW n \in Nat, NEW total \in Nat, NEW beta \in Nat
    PROVE  /\ FaucetFromPenalty(p, n, total) \in Nat
           /\ BurnedBase(p, n, total, beta) \in Nat
           /\ RedistributionPool(p, n, total, beta) \in Nat
           /\ FaucetFromPenalty(p, n, total) + BurnedBase(p, n, total, beta)
                + RedistributionPool(p, n, total, beta) = total
<1> DEFINE f == FaucetFromPenalty(p, n, total)
           b == BurnedBase(p, n, total, beta)
<1>1. p.seed \in Nat /\ p.faucet_share_of_penalty \in Nat
  BY DEF Parameters
<1>2. PlannedNewWallets(p, n) * p.seed \in Nat
  BY <1>1, PlannedType
<1>3. FaucetNeeded(p, n) \in Nat
  BY <1>2, SmallerOfType DEF FaucetNeeded
<1>4. SmallerOf(FaucetNeeded(p, n), Portion(p.faucet_share_of_penalty, total)) \in Nat
  BY <1>1, <1>3, PortionType, SmallerOfType
<1>5. f \in Nat /\ f <= total
  BY <1>4, SmallerOfType DEF FaucetFromPenalty
<1> HIDE DEF f
<1>6. total - f \in Nat
  BY <1>5
<1>7. b \in Nat /\ b <= total - f
  BY <1>6, PortionType, SmallerOfType DEF BurnedBase, f
<1> HIDE DEF b
<1>8. RedistributionPool(p, n, total, beta) = total - f - b
  BY Zenon DEF RedistributionPool, f, b
<1>9. f \in Nat /\ b \in Nat /\ total - f - b \in Nat /\ f + b + (total - f - b) = total
  BY <1>5, <1>7
<1> QED BY <1>8, <1>9 DEF f, b

\* A wallet that has paid its penalty is a wallet.
LEMMA CollectType ==
    ASSUME NEW S, NEW ids, NEW ws \in [S -> WalletRecord(ids)], NEW p \in Parameters,
           NEW pen \in [S -> Nat]
    PROVE  /\ Collect(ws, p, pen) \in [S -> WalletRecord(ids)]
           /\ \A w \in S : /\ Collect(ws, p, pen)[w].balance = SatSub(ws[w].balance, pen[w])
                           /\ Collect(ws, p, pen)[w].nonce = ws[w].nonce
                           /\ Collect(ws, p, pen)[w].last_active_iteration
                                = ws[w].last_active_iteration
<1>1. ASSUME NEW w \in S
      PROVE  /\ Penalised(ws[w], p, pen[w]) \in WalletRecord(ids)
             /\ Penalised(ws[w], p, pen[w]).balance = SatSub(ws[w].balance, pen[w])
             /\ Penalised(ws[w], p, pen[w]).nonce = ws[w].nonce
             /\ Penalised(ws[w], p, pen[w]).last_active_iteration = ws[w].last_active_iteration
  <2> DEFINE lambda == Clamp(p.activity_ema_lambda, 0, Scale)
             x == lambda * RawActivity(ws[w], p)
             y == (Scale - lambda) * ws[w].activity_score
             score == (x + y) \div Scale
             bal == SatSub(ws[w].balance, pen[w])
  <2>1. ws[w] \in WalletRecord(ids)
    OBVIOUS
  <2>2. ws[w].activity_score \in Int /\ ws[w].balance \in 0..MaxU64
    BY <2>1 DEF WalletRecord
  <2>3. lambda \in Int
    BY DEF Clamp, SmallerOf, LargerOf, Parameters
  <2>4. RawActivity(ws[w], p) \in Int
    BY DEF RawActivity
  <2>5. x \in Int /\ y \in Int
    <3> HIDE DEF lambda
    <3> QED BY <2>2, <2>3, <2>4
  <2>6. score \in Int
    <3> HIDE DEF x, y
    <3> QED BY <2>5
  <2>7. bal \in 0..MaxU64
    <3>1. ws[w].balance \in Nat /\ pen[w] \in Nat
      BY <2>2
    <3>2. bal \in Nat /\ bal <= ws[w].balance
      BY <3>1, SatSubType
    <3> QED BY <2>2, <3>2
  <2>8. Penalised(ws[w], p, pen[w]) = [ws[w] EXCEPT !.activity_score = score, !.balance = bal]
    BY Zenon DEF Penalised
  <2> HIDE DEF score, bal
  <2>9. [ws[w] EXCEPT !.activity_score = score, !.balance = bal] \in WalletRecord(ids)
    BY <2>1, <2>6, <2>7 DEF WalletRecord
  <2>10. /\ [ws[w] EXCEPT !.activity_score = score, !.balance = bal].balance = bal
         /\ [ws[w] EXCEPT !.activity_score = score, !.balance = bal].nonce = ws[w].nonce
         /\ [ws[w] EXCEPT !.activity_score = score, !.balance = bal].last_active_iteration
              = ws[w].last_active_iteration
    BY <2>1 DEF WalletRecord
  <2> QED BY <2>8, <2>9, <2>10 DEF bal
<1>2. Collect(ws, p, pen) = [w \in S |-> Penalised(ws[w], p, pen[w])]
  <2>1. DOMAIN ws = S
    OBVIOUS
  <2> QED BY <2>1, Zenon DEF Collect
<1> QED BY <1>1, <1>2

\* A weight is a natural number: a negative activity share counts as none.
LEMMA WeightType ==
    ASSUME NEW ids, NEW w \in WalletRecord(ids), NEW p \in Parameters
    PROVE  Weight(w, p) \in Nat
<1> DEFINE lo == p.redistribution_active_min
           k  == (p.redistribution_active_max - lo) * Clamp(w.activity_score, 0, Scale)
           alpha == lo + k \div Scale
           inverse == IF p.inverse_balance_weight THEN Scale \div (1 + w.balance) ELSE Scale
<1>1. /\ w.activity_score \in Int /\ w.balance \in Nat
      /\ lo \in Int /\ p.redistribution_active_max \in Int
  BY DEF WalletRecord, Parameters
<1>2. Clamp(w.activity_score, 0, Scale) \in Int
  BY <1>1 DEF Clamp, SmallerOf, LargerOf
<1>3. k \in Int
  BY <1>1, <1>2
<1>4. alpha \in Int
  <2> HIDE DEF k
  <2> QED BY <1>1, <1>3
<1>5. inverse \in Nat
  BY <1>1
<1>6. Weight(w, p) = LargerOf(alpha, 0) * inverse
  BY Zenon DEF Weight
<1> HIDE DEF alpha, inverse
<1>7. LargerOf(alpha, 0) \in Nat
  BY <1>4 DEF LargerOf
<1> QED BY <1>5, <1>6, <1>7

\* The shares of the pool are natural numbers, and never more than the pool: floor() loses
\* coins to the residual and creates none.
LEMMA SharesType ==
    ASSUME NEW S, IsFiniteSet(S), NEW ids, NEW ws \in [S -> WalletRecord(ids)],
           NEW p \in Parameters, NEW pool \in Nat
    PROVE  /\ Shares(ws, p, pool) \in [S -> Nat]
           /\ Total(Shares(ws, p, pool)) <= pool
<1> DEFINE weights == [w \in S |-> Weight(ws[w], p)]
           tw      == Total(weights)
           sh(w)   == IF pool > 0 /\ tw > 0 THEN (pool * weights[w]) \div tw ELSE 0
           h       == [w \in S |-> sh(w)]
<1>1. weights \in [S -> Nat]
  <2>1. \A w \in S : Weight(ws[w], p) \in Nat
    BY WeightType
  <2> QED BY <2>1
<1>2. tw \in Nat
  <2> HIDE DEF weights
  <2> QED BY <1>1, TotalType
<1>3. Shares(ws, p, pool) = h
  <2>1. DOMAIN ws = S
    OBVIOUS
  <2> QED BY <2>1, Zenon DEF Shares
<1>4. \A w \in S : sh(w) \in Nat
  <2> TAKE w \in S
  <2>1. weights[w] \in Nat
    BY <1>1
  <2> HIDE DEF weights, tw
  <2>2. CASE pool > 0 /\ tw > 0
    BY <1>2, <2>1, <2>2, QuotientType
  <2>3. CASE ~(pool > 0 /\ tw > 0)
    BY <2>3
  <2> QED BY <2>2, <2>3
<1>5. h \in [S -> Nat]
  <2> HIDE DEF sh
  <2> QED BY <1>4
<1>6. Total(h) <= pool
  <2>1. CASE pool > 0 /\ tw > 0
    <3>1. \A w \in S : h[w] = (pool * weights[w]) \div Total(weights)
      BY <2>1
    <3> HIDE DEF weights, h
    <3> QED BY <1>1, <1>5, <2>1, <3>1, TotalShares
  <2>2. CASE ~(pool > 0 /\ tw > 0)
    <3>1. \A w \in S : h[w] = 0
      BY <2>2
    <3> HIDE DEF h
    <3>2. Total(h) = Cardinality(S) * 0
      BY <1>5, <3>1, TotalConstant
    <3>3. Cardinality(S) \in Nat
      BY FS_CardinalityType
    <3> QED BY <3>2, <3>3
  <2> QED BY <2>1, <2>2
<1> HIDE DEF h
<1> QED BY <1>3, <1>5, <1>6

\* The rewards are natural numbers.
LEMMA RewardsType ==
    ASSUME NEW S, NEW p, NEW first, NEW sh \in [S -> Nat], NEW r \in Nat
    PROVE  Rewards(p, first, sh, r) \in [S -> Nat]
<1>1. \A w \in S : sh[w] \in Nat /\ SatAdd(sh[w], r) \in Nat
  <2> TAKE w \in S
  <2>1. sh[w] \in Nat
    OBVIOUS
  <2>2. SatAdd(sh[w], r) \in 0..MaxU64
    BY <2>1, SatAddType
  <2> QED BY <2>1, <2>2
<1> QED BY <1>1 DEF Rewards

\* A wallet that has been paid its reward is a wallet.
LEMMA PayType ==
    ASSUME NEW S, NEW ids, NEW ws \in [S -> WalletRecord(ids)], NEW r \in [S -> Nat]
    PROVE  /\ Pay(ws, r) \in [S -> WalletRecord(ids)]
           /\ \A w \in S : /\ Pay(ws, r)[w].balance = SatAdd(ws[w].balance, r[w])
                           /\ Pay(ws, r)[w].nonce = ws[w].nonce
                           /\ Pay(ws, r)[w].last_active_iteration = ws[w].last_active_iteration
<1>1. ASSUME NEW w \in S
      PROVE  /\ Rewarded(ws[w], r[w]) \in WalletRecord(ids)
             /\ Rewarded(ws[w], r[w]).balance = SatAdd(ws[w].balance, r[w])
             /\ Rewarded(ws[w], r[w]).nonce = ws[w].nonce
             /\ Rewarded(ws[w], r[w]).last_active_iteration = ws[w].last_active_iteration
  <2>1. ws[w] \in WalletRecord(ids) /\ r[w] \in Nat /\ ws[w].balance \in Nat
    BY DEF WalletRecord
  <2>2. SatAdd(ws[w].balance, r[w]) \in 0..MaxU64
    BY <2>1, SatAddType
  <2> QED BY <2>1, <2>2 DEF Rewarded, WalletRecord
<1>2. Pay(ws, r) = [w \in S |-> Rewarded(ws[w], r[w])]
  BY DEF Pay
<1> QED BY <1>1, <1>2

-----------------------------------------------------------------------------

\* The faucet of one iteration gives out as many ids as it plans wallets.
LEMMA FreshIdsCardinality ==
    ASSUME NEW it \in Nat, NEW n \in Nat
    PROVE  /\ IsFiniteSet(FreshIds(it, n))
           /\ Cardinality(FreshIds(it, n)) = n
           /\ FreshIds(it, n) \subseteq FaucetIds
<1> DEFINE I == 0..(n - 1)
           F == FreshIds(it, n)
           id == [k \in I |-> FaucetId(it, k)]
<1>1. IsFiniteSet(I) /\ Cardinality(I) = n
  <2>1. 0 \in Int /\ n - 1 \in Int
    OBVIOUS
  <2>2. IsFiniteSet(I) /\ Cardinality(I) = IF 0 > n - 1 THEN 0 ELSE (n - 1) - 0 + 1
    BY <2>1, FS_Interval
  <2> QED BY <2>2
<1>2. id \in Bijection(I, F)
  <2>1. id \in [I -> F]
    BY DEF FreshIds
  <2>2. \A a, b \in I : id[a] = id[b] => a = b
    BY DEF FaucetId
  <2>3. \A t \in F : \E k \in I : id[k] = t
    BY DEF FreshIds
  <2> QED BY <2>1, <2>2, <2>3, Zenon DEF Bijection, Injection, Surjection, IsInjective
<1>3. F \subseteq FaucetIds
  BY DEF FreshIds, FaucetId, FaucetIds
<1> HIDE DEF I, F, id
<1>4. ExistsBijection(I, F)
  BY <1>2, Zenon DEF ExistsBijection
<1>5. IsFiniteSet(F) /\ Cardinality(F) = Cardinality(I)
  BY <1>1, <1>4, FS_Bijection
<1> QED BY <1>1, <1>3, <1>5 DEF F

\* With the fresh wallets added, all are wallets.
LEMMA AddFreshType ==
    ASSUME NEW S, NEW ids, NEW ws \in [S -> WalletRecord(ids)],
           NEW F, NEW seed \in 0..MaxU64, NEW it \in Nat
    PROVE  AddFresh(ws, F, seed, it) \in [S \cup F -> WalletRecord(ids)]
<1>1. NewWallet(seed, it) \in WalletRecord(ids)
  BY DEF NewWallet, WalletRecord
<1>2. AddFresh(ws, F, seed, it)
        = [w \in S \cup F |-> IF w \in F THEN NewWallet(seed, it) ELSE ws[w]]
  BY DEF AddFresh
<1> QED BY <1>1, <1>2

\* Adding fresh wallets to the others: the columns are disjoint, so the coins are those of
\* the others and one seed for each fresh wallet.
LEMMA AddFreshTotal ==
    ASSUME NEW S, IsFiniteSet(S), NEW ws, DOMAIN ws = S, Balances(ws) \in [S -> Nat],
           NEW F, IsFiniteSet(F), S \cap F = {}, NEW seed \in Nat, NEW it
    PROVE  Total(Balances(AddFresh(ws, F, seed, it)))
                = Total(Balances(ws)) + Cardinality(F) * seed
<1> DEFINE new == AddFresh(ws, F, seed, it)
           col == [w \in F |-> seed]
           f   == Balances(ws)
           h   == Balances(new)
<1>1. new = [w \in S \cup F |-> IF w \in F THEN NewWallet(seed, it) ELSE ws[w]]
  BY DEF AddFresh
<1>2. NewWallet(seed, it).balance = seed
  BY DEF NewWallet
<1>3. DOMAIN new = S \cup F /\ \A w \in S \cup F : new[w] = IF w \in F THEN NewWallet(seed, it) ELSE ws[w]
  BY <1>1
<1> HIDE DEF new
<1>4. h = [w \in S \cup F |-> new[w].balance] /\ f = [w \in S |-> ws[w].balance]
  BY <1>3 DEF Balances
<1>5. /\ \A w \in S : h[w] = f[w]
      /\ \A w \in F : h[w] = seed
  BY <1>2, <1>3, <1>4
<1>6. f \in [S -> Nat]
  OBVIOUS
<1> HIDE DEF f, h
<1>7. h \in [S \cup F -> Nat]
  BY <1>4, <1>5, <1>6
<1>8. col \in [F -> Nat] /\ \A w \in F : col[w] = seed /\ h[w] = col[w]
  BY <1>5
<1> HIDE DEF col
<1>9. Total(h) = Total(f) + Total(col)
  <2>1. /\ f \in [S -> Nat] /\ h \in [S \cup F -> Nat] /\ col \in [F -> Nat]
        /\ \A x \in S : h[x] = f[x]
        /\ \A x \in F : h[x] = col[x]
    BY <1>5, <1>6, <1>7, <1>8
  <2> QED BY <2>1, TotalUnion
<1>10. Total(col) = Cardinality(F) * seed
  BY <1>8, TotalConstant
<1> QED BY <1>9, <1>10 DEF f, h, new

\* What an iteration returns, for all wallets and parameters: paid, the old wallets with their
\* nonces and their activity kept, and the fresh ones, which replace any of the same id.
IterationReturns(r, S, ids, ws, p, sys, paid) ==
    LET planned == PlannedNewWallets(p, Cardinality(S))
        it      == sys.current_iteration + 1
        F       == FreshIds(it, planned)
    IN  /\ planned \in Nat
        /\ IsFiniteSet(F) /\ Cardinality(F) = planned /\ F \subseteq FaucetIds
        /\ paid \in [S -> WalletRecord(ids)]
        /\ \A w \in S : /\ paid[w].nonce = ws[w].nonce
                        /\ paid[w].last_active_iteration = ws[w].last_active_iteration
        /\ r.wallets = AddFresh(paid, F, p.seed, it)
        /\ r.wallets \in [S \cup F -> WalletRecord(ids)]
        /\ r.n_wallets = Cardinality(S) + planned
        /\ r.commit.kind = "iteration_commit"
        /\ r.commit.new_wallets = F
        /\ r.commit.iteration_id = it
        /\ DOMAIN r.commit.penalties = S
        /\ r.commit.inflation \in Int
        /\ r.commit.snapshot_supply \in 0..MaxU64
        /\ r.commit.post_supply = (Total(Balances(paid)) + planned * p.seed) % (MaxU64 + 1)
        /\ Total(Balances(paid)) \in Nat

LEMMA IterationShape ==
    ASSUME NEW S, IsFiniteSet(S), NEW ids, NEW ws \in [S -> WalletRecord(ids)],
           NEW p \in Parameters, NEW first, NEW sys,
           sys.current_iteration \in Nat,
           sys.previous_iteration_supply \in Nat,
           sys.previous_iteration_start_supply \in Nat
    PROVE  \E paid : IterationReturns(ExecuteIteration(ws, p, sys, first), S, ids, ws, p, sys, paid)
<1> DEFINE it        == sys.current_iteration + 1
           n         == Cardinality(S)
           beta      == BurnRate(p, sys)
           penalties == Penalties(ws, p)
           collected == SumU64(penalties)
           planned   == PlannedNewWallets(p, n)
           pool      == RedistributionPool(p, n, collected, beta)
           penalised == Collect(ws, p, penalties)
           shares    == Shares(penalised, p, pool)
           residual  == Residual(pool, shares)
           rewards   == Rewards(p, first, shares, residual)
           paid      == Pay(penalised, rewards)
           F         == FreshIds(it, planned)
           new       == AddFresh(paid, F, p.seed, it)
           r         == ExecuteIteration(ws, p, sys, first)
<1>1. n \in Nat /\ it \in Nat
  BY FS_CardinalityType
<1>2. penalties \in [S -> Nat]
  BY PenaltiesType
<1>3. collected \in Nat /\ beta \in Nat /\ planned \in Nat
  <2> HIDE DEF n, penalties
  <2> QED BY <1>1, <1>2, SumU64Type, BurnRateType, PlannedType
<1>4. pool \in Nat
  <2> HIDE DEF n, collected, beta
  <2> QED BY <1>1, <1>3, PoolIsPartitioned
<1>5. /\ penalised \in [S -> WalletRecord(ids)]
      /\ \A w \in S : /\ penalised[w].nonce = ws[w].nonce
                      /\ penalised[w].last_active_iteration = ws[w].last_active_iteration
  <2> HIDE DEF penalties
  <2> QED BY <1>2, CollectType
<1>6. shares \in [S -> Nat]
  <2> HIDE DEF penalised, pool
  <2> QED BY <1>4, <1>5, SharesType
<1>7. residual \in Nat
  <2> HIDE DEF shares, pool
  <2>1. Total(shares) \in Nat
    BY <1>6, TotalType
  <2>2. SmallerOf(Total(shares), MaxU64) \in Nat
    BY <2>1, SmallerOfType
  <2> QED BY <1>4, <2>2, SatSubType DEF Residual
<1>8. rewards \in [S -> Nat]
  <2> HIDE DEF shares, residual
  <2> QED BY <1>6, <1>7, RewardsType
<1>9. /\ paid \in [S -> WalletRecord(ids)]
      /\ \A w \in S : /\ paid[w].nonce = penalised[w].nonce
                      /\ paid[w].last_active_iteration = penalised[w].last_active_iteration
  <2> HIDE DEF penalised, rewards
  <2> QED BY <1>5, <1>8, PayType
<1>10. IsFiniteSet(F) /\ Cardinality(F) = planned /\ F \subseteq FaucetIds
  <2> HIDE DEF it, planned
  <2> QED BY <1>1, <1>3, FreshIdsCardinality
<1>11. new \in [S \cup F -> WalletRecord(ids)]
  <2> DEFINE seed == p.seed
  <2>1. it \in Nat /\ seed \in 0..MaxU64 /\ paid \in [S -> WalletRecord(ids)]
    BY <1>1, <1>9 DEF Parameters
  <2> HIDE DEF it, F, paid, seed
  <2>2. AddFresh(paid, F, seed, it) \in [S \cup F -> WalletRecord(ids)]
    BY <2>1, AddFreshType
  <2> QED BY <2>2 DEF seed
<1>12. /\ r.wallets = new
       /\ r.n_wallets = n + planned
       /\ r.commit.kind = "iteration_commit"
       /\ r.commit.new_wallets = F
       /\ r.commit.iteration_id = it
       /\ r.commit.penalties = penalties
       /\ r.commit.inflation = Inflation(sys)
       /\ r.commit.snapshot_supply = SumU64(Balances(ws))
       /\ r.commit.post_supply = (Total(Balances(paid)) + planned * p.seed) % (MaxU64 + 1)
  <2>1. DOMAIN ws = S
    OBVIOUS
  <2> QED BY <2>1 DEF ExecuteIteration
<1> HIDE DEF r
<1>13. r.commit.inflation \in Int /\ r.commit.snapshot_supply \in 0..MaxU64
  BY <1>12, BurnRateType, BalancesType, SumU64Type
<1>14. Total(Balances(paid)) \in Nat
  <2> HIDE DEF paid
  <2> QED BY <1>9, BalancesType, TotalType
<1>15. \A w \in S : /\ paid[w].nonce = ws[w].nonce
                    /\ paid[w].last_active_iteration = ws[w].last_active_iteration
  <2> HIDE DEF paid, penalised
  <2> QED BY <1>5, <1>9
<1>16. DOMAIN r.commit.penalties = S
  <2> HIDE DEF penalties
  <2> QED BY <1>2, <1>12
<1> HIDE DEF paid, penalties
<1>17. /\ paid \in [S -> WalletRecord(ids)]
       /\ r.wallets = new /\ r.wallets \in [S \cup F -> WalletRecord(ids)]
  BY <1>9, <1>11, <1>12
<1> HIDE DEF new
<1>18. IterationReturns(r, S, ids, ws, p, sys, paid)
  BY <1>3, <1>10, <1>12, <1>13, <1>14, <1>15, <1>16, <1>17, Zenon
     DEF IterationReturns, F, it, n, planned, new
<1> QED BY <1>18 DEF r

\* As long as the ids of its faucet wallets are new, an iteration keeps every old wallet, and it
\* returns the number of wallets and the sum of their balances.
LEMMA IterationFacts ==
    ASSUME NEW S, IsFiniteSet(S), NEW ids, NEW ws \in [S -> WalletRecord(ids)],
           NEW p \in Parameters, NEW first, NEW sys,
           sys.current_iteration \in Nat,
           sys.previous_iteration_supply \in Nat,
           sys.previous_iteration_start_supply \in Nat,
           \A idx \in Nat : FaucetId(sys.current_iteration + 1, idx) \notin S
    PROVE  LET r == ExecuteIteration(ws, p, sys, first)
               F == r.commit.new_wallets
           IN  /\ IsFiniteSet(F) /\ F \subseteq FaucetIds /\ S \cap F = {}
               /\ F = FreshIds(sys.current_iteration + 1, PlannedNewWallets(p, Cardinality(S)))
               /\ r.wallets \in [S \cup F -> WalletRecord(ids)]
               /\ \A w \in S : /\ r.wallets[w].nonce = ws[w].nonce
                               /\ r.wallets[w].last_active_iteration = ws[w].last_active_iteration
               /\ \A w \in F : r.wallets[w] = NewWallet(p.seed, sys.current_iteration + 1)
               /\ r.n_wallets = Cardinality(S \cup F)
               /\ r.commit.iteration_id = sys.current_iteration + 1
               /\ r.commit.inflation \in Int
               /\ r.commit.snapshot_supply \in 0..MaxU64
               /\ r.commit.post_supply = Total(Balances(r.wallets)) % (MaxU64 + 1)
               /\ Total(Balances(r.wallets)) \in Nat
<1> DEFINE r       == ExecuteIteration(ws, p, sys, first)
           it      == sys.current_iteration + 1
           planned == PlannedNewWallets(p, Cardinality(S))
           F       == FreshIds(it, planned)
           new     == r.wallets
<1> HIDE DEF r
<1>1. PICK paid : IterationReturns(r, S, ids, ws, p, sys, paid)
  BY IterationShape DEF r
<1>2. /\ planned \in Nat
      /\ IsFiniteSet(F) /\ Cardinality(F) = planned /\ F \subseteq FaucetIds
      /\ paid \in [S -> WalletRecord(ids)]
      /\ \A w \in S : /\ paid[w].nonce = ws[w].nonce
                      /\ paid[w].last_active_iteration = ws[w].last_active_iteration
      /\ new = AddFresh(paid, F, p.seed, it)
      /\ new \in [S \cup F -> WalletRecord(ids)]
      /\ r.n_wallets = Cardinality(S) + planned
      /\ r.commit.new_wallets = F
      /\ r.commit.iteration_id = it
      /\ r.commit.inflation \in Int
      /\ r.commit.snapshot_supply \in 0..MaxU64
      /\ r.commit.post_supply = (Total(Balances(paid)) + planned * p.seed) % (MaxU64 + 1)
  BY <1>1, Zenon DEF IterationReturns
<1>3. S \cap F = {}
  <2>1. \A x \in F : \E idx \in Nat : x = FaucetId(it, idx)
    <3> HIDE DEF it, planned
    <3> QED BY <1>2 DEF FreshIds
  <2> QED BY <2>1
<1> HIDE DEF F, planned, new, it
<1>4. /\ \A w \in S : new[w] = paid[w]
      /\ \A w \in F : new[w] = NewWallet(p.seed, it)
      /\ Total(Balances(new)) = Total(Balances(paid)) + planned * p.seed
  <2> DEFINE seed == p.seed
  <2>1. Balances(paid) \in [S -> Nat] /\ DOMAIN paid = S /\ seed \in Nat
    BY <1>2, BalancesType DEF Parameters
  <2>2. new = AddFresh(paid, F, seed, it)
    BY <1>2
  <2> HIDE DEF seed
  <2>3. Total(Balances(AddFresh(paid, F, seed, it)))
          = Total(Balances(paid)) + Cardinality(F) * seed
    BY <1>2, <1>3, <2>1, AddFreshTotal
  <2>4. /\ \A w \in S : new[w] = paid[w]
        /\ \A w \in F : new[w] = NewWallet(seed, it)
    BY <1>3, <2>1, <2>2 DEF AddFresh
  <2> QED BY <1>2, <2>2, <2>3, <2>4 DEF seed
<1>5. r.n_wallets = Cardinality(S \cup F)
  <2>1. Cardinality(S \cup F) = Cardinality(S) + Cardinality(F) - Cardinality(S \cap F)
    BY <1>2, FS_Union
  <2>2. Cardinality(S \cap F) = 0
    <3>1. Cardinality(S \cap F) = Cardinality({})
      BY <1>3, Zenon
    <3> QED BY <3>1, FS_EmptySet
  <2> QED BY <1>2, <2>1, <2>2, FS_CardinalityType
<1>6. Total(Balances(new)) \in Nat
  <2>1. IsFiniteSet(S \cup F)
    BY <1>2, FS_Union
  <2> QED BY <1>2, <2>1, BalancesType, TotalType
<1>7. r.commit.post_supply = Total(Balances(new)) % (MaxU64 + 1)
  BY <1>2, <1>4
<1>8. \A w \in S : /\ new[w].nonce = ws[w].nonce
                   /\ new[w].last_active_iteration = ws[w].last_active_iteration
  BY <1>2, <1>4
<1> QED BY <1>2, <1>3, <1>4, <1>5, <1>6, <1>7, <1>8, Zenon DEF r, F, it, planned, new

-----------------------------------------------------------------------------
(* Conservation of coins (D.11): the iteration moves the penalties into    *)
(* the faucet, the burn and the rewards, and loses none on the way.        *)

\* PoolIsPartitioned, as a fact about one pool.
PoolIsSplit(p, n, total, beta) ==
    LET faucet == FaucetFromPenalty(p, n, total)
        base   == BurnedBase(p, n, total, beta)
        pool   == RedistributionPool(p, n, total, beta)
    IN  pool \in Nat /\ base \in Nat /\ faucet \in Nat /\ faucet + base + pool = total

LEMMA PoolSplits ==
    ASSUME NEW p \in Parameters, NEW n \in Nat, NEW total \in Nat, NEW beta \in Nat
    PROVE  PoolIsSplit(p, n, total, beta)
BY PoolIsPartitioned DEF PoolIsSplit

\* The column f adds up to n at most.
AtMost(f, n) == Total(f) <= n

\* The residual is paid to the first wallet or burned: rewards and burn use up the pool.
PoolIsUsed(p, first, sh, pool, base) ==
    LET r == Residual(pool, sh)
        R == Rewards(p, first, sh, r)
    IN  /\ R \in [DOMAIN sh -> Nat]
        /\ \A w \in DOMAIN sh : R[w] <= pool
        /\ Total(R) \in Nat
        /\ Burned(p, sh, base, r) \in Nat
        /\ Burned(p, sh, base, r) + Total(R) = base + pool

LEMMA RewardsUseThePool ==
    ASSUME NEW S, IsFiniteSet(S), NEW p, NEW first, S # {} => first \in S,
           NEW sh \in [S -> Nat], NEW pool \in Nat, AtMost(sh, pool),
           NEW base \in Nat, base + pool <= MaxU64
    PROVE  PoolIsUsed(p, first, sh, pool, base)
<1> DEFINE r == Residual(pool, sh)
           R == Rewards(p, first, sh, r)
<1>1. Total(sh) \in Nat /\ Total(sh) <= pool
  BY TotalType DEF AtMost
<1>2. r = pool - Total(sh) /\ r \in Nat
  BY <1>1 DEF Residual, SatSub, SmallerOf
<1>3. R \in [S -> Nat]
  <2> HIDE DEF r
  <2> QED BY <1>2, RewardsType
<1>4. \A w \in S : sh[w] \in Nat /\ sh[w] <= Total(sh)
  BY TotalBound
<1> HIDE DEF r
<1>5. CASE PaysResidual(p, sh)
  <2>1. first \in S
    <3>1. DOMAIN sh = S
      OBVIOUS
    <3> QED BY <1>5, <3>1 DEF PaysResidual
  <2>2. /\ R[first] = sh[first] + r
        /\ \A w \in S \ {first} : R[w] = sh[w]
    <3>1. SatAdd(sh[first], r) = sh[first] + r
      BY <1>1, <1>2, <1>4, <2>1 DEF SatAdd
    <3>2. R = [w \in S |-> IF w = first THEN SatAdd(sh[w], r) ELSE sh[w]]
      BY <1>5 DEF Rewards
    <3> QED BY <2>1, <3>1, <3>2
  <2> HIDE DEF R
  <2>3. Total(R) = Total(sh) - sh[first] + R[first]
    BY <1>3, <2>1, <2>2, TotalUpdate
  <2>4. Burned(p, sh, base, r) = base
    BY <1>5 DEF Burned
  <2>5. \A w \in S : R[w] <= pool
    BY <1>1, <1>2, <1>4, <2>1, <2>2
  <2>6. Total(R) = pool
    BY <1>1, <1>2, <1>4, <2>1, <2>2, <2>3
  <2> QED BY <1>3, <2>4, <2>5, <2>6 DEF R, r, PoolIsUsed
<1>6. CASE ~PaysResidual(p, sh)
  <2>1. R = sh
    BY <1>6 DEF Rewards
  <2>2. Burned(p, sh, base, r) = base + r
    BY <1>1, <1>2, <1>6 DEF Burned, SatAdd
  <2>3. \A w \in S : sh[w] <= pool
    BY <1>1, <1>4
  <2> HIDE DEF R
  <2> QED BY <1>1, <1>2, <1>3, <2>1, <2>2, <2>3 DEF R, r, PoolIsUsed
<1> QED BY <1>5, <1>6

\* A product divided by one of its factors is the other.
LEMMA ExactQuotient ==
    ASSUME NEW n \in Nat \ {0}, NEW s \in Nat
    PROVE  (n * s) \div n = s
<1> DEFINE m == n * s
           q == m \div n
<1>1. m \in Nat
  OBVIOUS
<1>2. q \in Nat /\ n * q <= m /\ m < n * q + n
  <2> HIDE DEF m
  <2> QED BY <1>1
<1> HIDE DEF q
<1>3. q <= s
  BY <1>2, CancelFactor
<1>4. s <= q
  <2> SUFFICES ASSUME q + 1 <= s PROVE FALSE
    BY <1>2
  <2>1. PICK d \in Nat : s = q + 1 + d
    <3>1. s - q - 1 \in Nat /\ s = q + 1 + (s - q - 1)
      BY <1>2
    <3> QED BY <3>1
  <2>2. m = n * q + n + n * d /\ n * d \in Nat /\ n * q \in Nat
    BY <1>2, <2>1
  <2> QED BY <1>2, <2>2
<1> QED BY <1>2, <1>3, <1>4 DEF q

\* The faucet's two sources add up to a seed for every new wallet, when that fits in a u64.
LEMMA FaucetCovers ==
    ASSUME NEW p \in Parameters, NEW n \in Nat, NEW total \in Nat,
           PlannedNewWallets(p, n) * p.seed <= MaxU64
    PROVE  /\ FaucetFromPenalty(p, n, total) \in Nat
           /\ FaucetFromMint(p, n, total) \in Nat
           /\ FaucetFromPenalty(p, n, total) + FaucetFromMint(p, n, total)
                = PlannedNewWallets(p, n) * p.seed
<1> DEFINE m == PlannedNewWallets(p, n) * p.seed
           portion == Portion(p.faucet_share_of_penalty, total)
<1>1. p.seed \in Nat /\ p.faucet_share_of_penalty \in Nat
  BY DEF Parameters
<1>2. PlannedNewWallets(p, n) \in Nat
  BY PlannedType
<1>3. m \in Nat /\ m <= MaxU64
  BY <1>1, <1>2
<1>4. portion \in Nat
  BY <1>1, PortionType
<1>5. FaucetNeeded(p, n) = SmallerOf(m, MaxU64)
  BY DEF FaucetNeeded
<1> HIDE DEF m, portion
<1>6. FaucetNeeded(p, n) = m
  BY <1>3, <1>5 DEF SmallerOf
<1>7. FaucetFromPenalty(p, n, total) = SmallerOf(SmallerOf(m, portion), total)
  BY <1>6 DEF FaucetFromPenalty, portion
<1>8. FaucetFromPenalty(p, n, total) \in Nat /\ FaucetFromPenalty(p, n, total) <= m
  BY <1>3, <1>4, <1>7 DEF SmallerOf
<1>9. FaucetFromMint(p, n, total) = m - FaucetFromPenalty(p, n, total)
  BY <1>3, <1>6, <1>8 DEF FaucetFromMint, SatSub
<1> QED BY <1>3, <1>8, <1>9 DEF m

\* Old wallets after an iteration whose sums fit in a u64: each pays its penalty and receives
\* its reward in full, and in total they lose what went to the faucet and what was burned.
OldWalletsSettle(ws, S, ids, p, first, n, beta) ==
    LET penalties == Penalties(ws, p)
        collected == SumU64(penalties)
        pool      == RedistributionPool(p, n, collected, beta)
        base      == BurnedBase(p, n, collected, beta)
        penalised == Collect(ws, p, penalties)
        shares    == Shares(penalised, p, pool)
        residual  == Residual(pool, shares)
        rewards   == Rewards(p, first, shares, residual)
        paid      == Pay(penalised, rewards)
        burned    == Burned(p, shares, base, residual)
    IN  /\ penalties \in [S -> Nat] /\ rewards \in [S -> Nat]
        /\ collected \in Nat /\ burned \in Nat
        /\ paid \in [S -> WalletRecord(ids)]
        /\ \A w \in S : paid[w].balance = ws[w].balance + rewards[w] - penalties[w]
        /\ Total(Balances(paid))
             = Total(Balances(ws)) - FaucetFromPenalty(p, n, collected) - burned

LEMMA OldWalletsConserve ==
    ASSUME NEW S, IsFiniteSet(S), NEW ids, NEW ws \in [S -> WalletRecord(ids)],
           NEW p \in Parameters, NEW first, S # {} => first \in S,
           NEW n \in Nat, NEW beta \in Nat,
           AtMost(Balances(ws), MaxU64)
    PROVE  OldWalletsSettle(ws, S, ids, p, first, n, beta)
<1> DEFINE penalties == Penalties(ws, p)
           collected == SumU64(penalties)
           pool      == RedistributionPool(p, n, collected, beta)
           base      == BurnedBase(p, n, collected, beta)
           faucet    == FaucetFromPenalty(p, n, collected)
           penalised == Collect(ws, p, penalties)
           shares    == Shares(penalised, p, pool)
           residual  == Residual(pool, shares)
           rewards   == Rewards(p, first, shares, residual)
           paid      == Pay(penalised, rewards)
           burned    == Burned(p, shares, base, residual)
           old       == Balances(ws)
           left      == [w \in S |-> old[w] - penalties[w]]
           final     == Balances(paid)
<1>1. old \in [S -> Nat] /\ \A w \in S : old[w] = ws[w].balance
  BY BalancesType
<1>2. penalties \in [S -> Nat] /\ \A w \in S : penalties[w] <= old[w]
  BY <1>1, PenaltiesType
<1> HIDE DEF penalties
<1>3. left \in [S -> Nat] /\ \A w \in S : old[w] = penalties[w] + left[w]
  BY <1>1, <1>2
<1> HIDE DEF old, left
<1>4. /\ Total(old) = Total(penalties) + Total(left)
      /\ Total(penalties) \in Nat /\ Total(left) \in Nat
  <2>1. Total(old) = Total(penalties) + Total(left)
    BY <1>1, <1>2, <1>3, TotalAdd
  <2> QED BY <1>2, <1>3, <2>1, TotalType
<1>5. Total(old) <= MaxU64
  BY DEF old, AtMost
<1>6. collected = Total(penalties) /\ collected \in 0..MaxU64
  BY <1>4, <1>5 DEF SumU64
<1> HIDE DEF collected
<1>7. /\ pool \in Nat /\ base \in Nat /\ faucet \in Nat
      /\ faucet + base + pool = collected
  <2>1. collected \in Nat
    BY <1>6
  <2>2. PoolIsSplit(p, n, collected, beta)
    BY <2>1, PoolSplits
  <2> QED BY <2>2, Zenon DEF PoolIsSplit
<1> HIDE DEF pool, base, faucet
<1>8. /\ penalised \in [S -> WalletRecord(ids)]
      /\ \A w \in S : penalised[w].balance = SatSub(ws[w].balance, penalties[w])
  BY <1>2, CollectType
<1>9. \A w \in S : penalised[w].balance = left[w]
  BY <1>1, <1>2, <1>8 DEF SatSub, left
<1> HIDE DEF penalised
<1>10. shares \in [S -> Nat] /\ Total(shares) <= pool
  BY <1>7, <1>8, SharesType
<1> HIDE DEF shares
<1>11. /\ rewards \in [S -> Nat]
       /\ \A w \in S : rewards[w] <= pool
       /\ Total(rewards) \in Nat
       /\ burned \in Nat
       /\ burned + Total(rewards) = base + pool
  <2>1. base + pool <= MaxU64
    BY <1>6, <1>7
  <2>2. pool \in Nat /\ base \in Nat
    BY <1>7
  <2>3. shares \in [S -> Nat] /\ AtMost(shares, pool)
    BY <1>10 DEF AtMost
  <2>4. PoolIsUsed(p, first, shares, pool, base)
    BY <2>1, <2>2, <2>3, RewardsUseThePool
  <2>5. DOMAIN shares = S
    BY <2>3
  <2> QED BY <2>4, <2>5, Zenon DEF PoolIsUsed
<1> HIDE DEF residual, rewards, burned
<1>12. \A w \in S : left[w] + rewards[w] <= MaxU64
  <2> TAKE w \in S
  <2>1. left[w] <= Total(left)
    BY <1>3, TotalBound
  <2>2. left[w] \in Nat /\ rewards[w] \in Nat
    BY <1>3, <1>11
  <2> QED BY <1>4, <1>5, <1>6, <1>7, <1>11, <2>1, <2>2
<1>13. /\ paid \in [S -> WalletRecord(ids)]
       /\ \A w \in S : paid[w].balance = SatAdd(penalised[w].balance, rewards[w])
  BY <1>8, <1>11, PayType
<1>14. \A w \in S : paid[w].balance = left[w] + rewards[w]
  <2> TAKE w \in S
  <2>1. paid[w].balance = SatAdd(left[w], rewards[w])
    BY <1>9, <1>13
  <2>2. left[w] + rewards[w] <= MaxU64 /\ left[w] \in Nat /\ rewards[w] \in Nat
    BY <1>3, <1>11, <1>12
  <2> QED BY <2>1, <2>2 DEF SatAdd
<1> HIDE DEF paid
<1>15. final \in [S -> Nat] /\ \A w \in S : final[w] = left[w] + rewards[w]
  BY <1>13, <1>14, BalancesType
<1> HIDE DEF final
<1>16. Total(final) = Total(left) + Total(rewards)
  BY <1>3, <1>11, <1>15, TotalAdd
<1>17. Total(final) = Total(old) - faucet - burned
  BY <1>4, <1>6, <1>7, <1>11, <1>16
<1>18. \A w \in S : paid[w].balance = ws[w].balance + rewards[w] - penalties[w]
  BY <1>1, <1>2, <1>3, <1>11, <1>14
<1>19. collected \in Nat
  BY <1>6
<1> QED BY <1>2, <1>11, <1>13, <1>17, <1>18, <1>19
        DEF penalties, collected, pool, base, faucet, penalised, shares, residual, rewards,
            paid, burned, old, final, OldWalletsSettle

\* What the commit of an iteration says of the coins, when no sum leaves the range of a u64:
\* the penalties and rewards it records are what each old wallet paid and received, the faucet's
\* two amounts give every new wallet its seed, and the supply changed by what was minted and
\* burned.
CommitExplains(ws, S, commit, after) ==
    /\ commit.rewards \in [S -> Nat]
    /\ commit.penalties \in [S -> Nat]
    /\ \A w \in S :
          after[w].balance = ws[w].balance + commit.rewards[w] - commit.penalties[w]
    /\ \A w \in commit.new_wallets :
          after[w].balance = (commit.faucet_from_penalty + commit.faucet_from_mint)
                                \div Cardinality(commit.new_wallets)
    /\ commit.faucet_from_mint \in Nat
    /\ commit.burned \in Nat
    /\ Total(Balances(after)) = Total(Balances(ws)) + commit.faucet_from_mint - commit.burned

\* An iteration creates coins only for the faucet and destroys only what it burns (D.11): the
\* commit of execute_iteration explains every balance it leaves.
THEOREM IterationConserves ==
    ASSUME NEW S, IsFiniteSet(S), NEW ids, NEW ws \in [S -> WalletRecord(ids)],
           NEW p \in Parameters, NEW first, S # {} => first \in S, NEW sys,
           sys.current_iteration \in Nat,
           sys.previous_iteration_supply \in Nat,
           sys.previous_iteration_start_supply \in Nat,
           \A idx \in Nat : FaucetId(sys.current_iteration + 1, idx) \notin S,
           AtMost(Balances(ws), MaxU64),
           AtMost(Balances(ExecuteIteration(ws, p, sys, first).wallets), MaxU64)
    PROVE  CommitExplains(ws, S, ExecuteIteration(ws, p, sys, first).commit,
                          ExecuteIteration(ws, p, sys, first).wallets)
<1> DEFINE it        == sys.current_iteration + 1
           n         == Cardinality(S)
           beta      == BurnRate(p, sys)
           penalties == Penalties(ws, p)
           collected == SumU64(penalties)
           planned   == PlannedNewWallets(p, n)
           pool      == RedistributionPool(p, n, collected, beta)
           base      == BurnedBase(p, n, collected, beta)
           penalised == Collect(ws, p, penalties)
           shares    == Shares(penalised, p, pool)
           residual  == Residual(pool, shares)
           rewards   == Rewards(p, first, shares, residual)
           paid      == Pay(penalised, rewards)
           burned    == Burned(p, shares, base, residual)
           faucet    == FaucetFromPenalty(p, n, collected)
           minted    == FaucetFromMint(p, n, collected)
           F         == FreshIds(it, planned)
           seed      == p.seed
           new       == AddFresh(paid, F, seed, it)
           r         == ExecuteIteration(ws, p, sys, first)
<1>1. n \in Nat /\ it \in Nat /\ seed \in 0..MaxU64
  <2>1. n \in Nat
    BY FS_CardinalityType, Zenon
  <2>2. sys.current_iteration + 1 \in Nat
    OBVIOUS
  <2>3. p.seed \in 0..MaxU64
    BY DEF Parameters
  <2> QED BY <2>1, <2>2, <2>3
<1>2. beta \in Nat /\ planned \in Nat
  <2> HIDE DEF n
  <2> QED BY <1>1, BurnRateType, PlannedType
<1>3. /\ r.wallets = new
      /\ r.commit.new_wallets = F
      /\ r.commit.penalties = penalties
      /\ r.commit.rewards = rewards
      /\ r.commit.burned = burned
      /\ r.commit.faucet_from_penalty = faucet
      /\ r.commit.faucet_from_mint = minted
  <2>1. DOMAIN ws = S
    OBVIOUS
  <2> QED BY <2>1 DEF ExecuteIteration
<1> HIDE DEF r
<1>4. /\ penalties \in [S -> Nat] /\ rewards \in [S -> Nat]
      /\ collected \in Nat /\ burned \in Nat
      /\ paid \in [S -> WalletRecord(ids)]
      /\ \A w \in S : paid[w].balance = ws[w].balance + rewards[w] - penalties[w]
      /\ Total(Balances(paid)) = Total(Balances(ws)) - faucet - burned
  <2> HIDE DEF n, beta
  <2>1. OldWalletsSettle(ws, S, ids, p, first, n, beta)
    BY <1>1, <1>2, OldWalletsConserve, Zenon
  <2> QED BY <2>1, Zenon DEF OldWalletsSettle
<1>5. IsFiniteSet(F) /\ Cardinality(F) = planned
  <2> HIDE DEF it, planned
  <2> QED BY <1>1, <1>2, FreshIdsCardinality
<1>6. S \cap F = {}
  <2>1. \A x \in F : \E idx \in Nat : x = FaucetId(it, idx)
    <3> HIDE DEF it, planned
    <3> QED BY <1>2 DEF FreshIds
  <2> QED BY <2>1
<1> HIDE DEF it, n, beta, penalties, collected, planned, rewards, paid, burned, F, seed
<1>7. /\ Balances(paid) \in [S -> Nat]
      /\ DOMAIN paid = S
      /\ Total(Balances(paid)) \in Nat
      /\ Total(Balances(ws)) \in Nat
  <2>1. Balances(paid) \in [S -> Nat] /\ DOMAIN paid = S /\ Balances(ws) \in [S -> Nat]
    BY <1>4, BalancesType
  <2> QED BY <2>1, TotalType
<1>8. Total(Balances(new)) = Total(Balances(paid)) + planned * seed
  BY <1>1, <1>5, <1>6, <1>7, AddFreshTotal
<1>9. /\ DOMAIN new = S \cup F
      /\ \A w \in S : new[w] = paid[w]
      /\ \A w \in F : new[w].balance = seed
  BY <1>6, <1>7 DEF AddFresh, NewWallet
<1> HIDE DEF new
<1>10. planned * seed \in Nat /\ planned * seed <= MaxU64
  <2>1. planned * seed \in Nat
    BY <1>1, <1>2
  <2>2. Total(Balances(new)) <= MaxU64
    BY <1>3 DEF AtMost, r
  <2> QED BY <1>7, <1>8, <2>1, <2>2
<1>11. faucet \in Nat /\ minted \in Nat /\ faucet + minted = planned * seed
  BY <1>1, <1>4, <1>10, FaucetCovers DEF planned, seed
<1> HIDE DEF faucet, minted
<1>12. \A w \in F : new[w].balance = (faucet + minted) \div Cardinality(F)
  <2> TAKE w \in F
  <2>1. planned # 0
    <3> SUFFICES ASSUME planned = 0 PROVE FALSE
      OBVIOUS
    <3> QED BY <1>5, FS_EmptySet
  <2>2. planned \in Nat \ {0} /\ seed \in Nat
    BY <1>1, <1>2, <2>1
  <2>3. (planned * seed) \div planned = seed
    BY <2>2, ExactQuotient
  <2> QED BY <1>5, <1>9, <1>11, <2>3
<1>13. Total(Balances(new)) = Total(Balances(ws)) + minted - burned
  BY <1>4, <1>7, <1>8, <1>10, <1>11
<1>14. \A w \in S : new[w].balance = ws[w].balance + rewards[w] - penalties[w]
  BY <1>4, <1>9
<1>15. CommitExplains(ws, S, r.commit, r.wallets)
  BY <1>3, <1>4, <1>11, <1>12, <1>13, <1>14 DEF CommitExplains
<1> QED BY <1>15 DEF r

-----------------------------------------------------------------------------
\* What execute_iteration returns for wallets of any kind, in the terms of its stages.
Outcome(r, n, supply, pen, taken, shares, p, first, sys) ==
    LET it        == sys.current_iteration + 1
        collected == SumU64(pen)
        planned   == PlannedNewWallets(p, n)
        residual  == Residual(RedistributionPool(p, n, collected, BurnRate(p, sys)), shares)
        paid      == Pay(taken, Rewards(p, first, shares, residual))
    IN  /\ r.wallets = AddFresh(paid, FreshIds(it, planned), p.seed, it)
        /\ r.n_wallets = n + planned
        /\ r.commit.new_wallets = FreshIds(it, planned)
        /\ r.commit.iteration_id = it
        /\ r.commit.inflation = Inflation(sys)
        /\ r.commit.snapshot_supply = supply
        /\ r.commit.burned
              = Burned(p, shares, BurnedBase(p, n, collected, BurnRate(p, sys)), residual)
        /\ r.commit.faucet_from_mint = FaucetFromMint(p, n, collected)
        /\ r.commit.post_supply = (Total(Balances(paid)) + planned * p.seed) % (MaxU64 + 1)

LEMMA IterationOutcome ==
    ASSUME NEW S, NEW V, NEW us \in [S -> V], NEW p \in Parameters, NEW first, NEW sys,
           sys.current_iteration \in Nat
    PROVE  Outcome(ExecuteIteration(us, p, sys, first), Cardinality(S),
                   SumU64(Balances(us)), Penalties(us, p), Collect(us, p, Penalties(us, p)),
                   Shares(Collect(us, p, Penalties(us, p)), p,
                          RedistributionPool(p, Cardinality(S), SumU64(Penalties(us, p)),
                                             BurnRate(p, sys))),
                   p, first, sys)
<1> DEFINE it        == sys.current_iteration + 1
           n         == Cardinality(S)
           beta      == BurnRate(p, sys)
           pen       == Penalties(us, p)
           collected == SumU64(pen)
           planned   == PlannedNewWallets(p, n)
           pool      == RedistributionPool(p, n, collected, beta)
           taken     == Collect(us, p, pen)
           shares    == Shares(taken, p, pool)
           residual  == Residual(pool, shares)
           rewards   == Rewards(p, first, shares, residual)
           paid      == Pay(taken, rewards)
           F         == FreshIds(it, planned)
           seed      == p.seed
           new       == AddFresh(paid, F, seed, it)
           r         == ExecuteIteration(us, p, sys, first)
           supply    == SumU64(Balances(us))
           burned    == Burned(p, shares, BurnedBase(p, n, collected, beta), residual)
           minted    == FaucetFromMint(p, n, collected)
           after     == (Total(Balances(paid)) + planned * seed) % (MaxU64 + 1)
           length    == n + planned
           inflation == Inflation(sys)
<1>1. /\ r.wallets = new
      /\ r.commit.new_wallets = F
      /\ r.commit.burned = burned
      /\ r.commit.faucet_from_mint = minted
  <2>1. DOMAIN us = S
    OBVIOUS
  <2> QED BY <2>1 DEF ExecuteIteration
<1>2. /\ r.n_wallets = length
      /\ r.commit.iteration_id = it
      /\ r.commit.inflation = inflation
      /\ r.commit.snapshot_supply = supply
      /\ r.commit.post_supply = after
  <2>1. DOMAIN us = S
    OBVIOUS
  <2> QED BY <2>1 DEF ExecuteIteration
<1>3. Outcome(r, n, supply, pen, taken, shares, p, first, sys)
        <=> /\ r.wallets = new
            /\ r.n_wallets = length
            /\ r.commit.new_wallets = F
            /\ r.commit.iteration_id = it
            /\ r.commit.inflation = inflation
            /\ r.commit.snapshot_supply = supply
            /\ r.commit.burned = burned
            /\ r.commit.faucet_from_mint = minted
            /\ r.commit.post_supply = after
  <2> HIDE DEF r
  <2> QED BY Zenon DEF Outcome
<1> HIDE DEF new, length, F, it, inflation, supply, burned, minted, after, beta, pen, rewards,
             r, n, taken, shares
<1>4. Outcome(r, n, supply, pen, taken, shares, p, first, sys)
  BY <1>1, <1>2, <1>3
<1> QED BY <1>4 DEF r, supply, pen, taken, shares, n, beta

=============================================================================
