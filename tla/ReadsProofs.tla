----------------------------- MODULE ReadsProofs ----------------------------
(***************************************************************************)
(* Proofs about Reads, for any users, seed files, parameters, bounds and   *)
(* limit of a list: what the read endpoints show of the history of a       *)
(* wallet, while nothing fails.                                            *)
(*                                                                         *)
(* A reader may come between two writes of a handler.  What it finds then  *)
(* rests on the order in which every plan writes the index entries and the *)
(* PoH entries of its transactions (Lists), proved from the code of the    *)
(* handlers alone, and on what of that order is left in the store between  *)
(* two writes (IndexInv).                                                  *)
(***************************************************************************)
EXTENDS Reads, CoinNodeProofs

USE MaxU64Assumption, ScaleAssumption, LogStepsAssumption
USE UsersAssumption, ParametersAssumption, AmountsAssumption, MaxTickAssumption
USE BadKeyAssumption, NodeBoundAssumption

-----------------------------------------------------------------------------
(* What a handler writes about a transaction: its entries of the index and *)
(* then the PoH entry, under ticks that go up.                             *)

\* The wallet u finds the transaction tx in the index X.
Known(X, u, tx) == \E e \in X : e[1] = u /\ e[3] = tx

\* A commit rewards wallets that it charges a penalty, none, perhaps.
Recorded(tx) ==
    /\ IsFiniteSet(WalletIds(tx))
    /\ tx.kind \notin {"mint", "transfer", "burn"} => DOMAIN tx.rewards \subseteq DOMAIN tx.penalties

Anchors(w) == w.tree = "poh"

Indexes(w) == w.tree = "tx_by_wallet"

\* The i-th write of p is anchored by a later one, if it is an index entry.
AnchoredLater(p, i) ==
    Indexes(p[i]) => \E j \in i..Len(p) : Anchors(p[j]) /\ p[j].value.tx = p[i].value

\* The wallets of the i-th write find its transaction in X or among the writes before, if it is
\* a PoH entry.
IndexedBefore(p, X, i) ==
    Anchors(p[i]) =>
        \A u \in WalletIds(p[i].value.tx) :
            \/ Known(X, u, p[i].value.tx)
            \/ \E j \in 1..i : Indexes(p[j]) /\ p[j].key = u /\ p[j].value = p[i].value.tx

\* The i-th write of p goes under a tick between lo and hi, and after those before it.
TickGoesUp(p, lo, hi, i) ==
    Anchors(p[i]) => /\ p[i].key \in (lo + 1)..hi
                     /\ Recorded(p[i].value.tx)
                     /\ \A j \in 1..i : Anchors(p[j]) => j = i \/ p[j].key < p[i].key

Lists(p, X, lo, hi) ==
    /\ lo \in Nat /\ hi \in Nat /\ lo <= hi
    /\ \E W : p \in Seq(W)
    /\ \A i \in 1..Len(p) :
          AnchoredLater(p, i) /\ IndexedBefore(p, X, i) /\ TickGoesUp(p, lo, hi, i)

\* Writes that are about no transaction.
Quiet(p) == \E W : p \in Seq(W) /\ \A w \in W : ~Anchors(w) /\ ~Indexes(w)

LEMMA QuietLists ==
    ASSUME NEW p, Quiet(p), NEW X, NEW n \in Nat
    PROVE  Lists(p, X, n, n)
<1>1. PICK W : p \in Seq(W) /\ \A w \in W : ~Anchors(w) /\ ~Indexes(w)
  BY DEF Quiet
<1>2. \A i \in 1..Len(p) : ~Anchors(p[i]) /\ ~Indexes(p[i])
  BY <1>1
<1> QED BY <1>1, <1>2 DEF Lists, AnchoredLater, IndexedBefore, TickGoesUp

LEMMA QuietOne ==
    ASSUME NEW w, ~Anchors(w), ~Indexes(w)
    PROVE  Quiet(<<w>>)
<1>1. PICK W : W = {w}
  OBVIOUS
<1>2. <<w>> \in Seq(W) /\ \A x \in W : ~Anchors(x) /\ ~Indexes(x)
  BY <1>1
<1> QED BY <1>2, Zenon DEF Quiet

LEMMA QuietConcat ==
    ASSUME NEW p, NEW q, Quiet(p), Quiet(q)
    PROVE  Quiet(p \o q)
<1>1. PICK V : p \in Seq(V) /\ \A w \in V : ~Anchors(w) /\ ~Indexes(w)
  BY DEF Quiet
<1>2. PICK W : q \in Seq(W) /\ \A w \in W : ~Anchors(w) /\ ~Indexes(w)
  BY DEF Quiet
<1>3. p \in Seq(V \cup W) /\ q \in Seq(V \cup W)
  BY <1>1, <1>2
<1>4. p \o q \in Seq(V \cup W) /\ \A w \in V \cup W : ~Anchors(w) /\ ~Indexes(w)
  BY <1>1, <1>2, <1>3
<1> QED BY <1>4 DEF Quiet

\* The writes of one handler after those of another.
LEMMA ListsConcat ==
    ASSUME NEW p, NEW q, NEW X, NEW a, NEW b, NEW c, Lists(p, X, a, b), Lists(q, X, b, c)
    PROVE  Lists(p \o q, X, a, c)
<1> DEFINE r == p \o q
<1>1. PICK S, T : p \in Seq(S) /\ q \in Seq(T)
  BY DEF Lists
<1>2. PICK W : W = S \cup T
  OBVIOUS
<1>3. p \in Seq(W) /\ q \in Seq(W)
  BY <1>1, <1>2
<1>4. PICK m, n : m = Len(p) /\ n = Len(q)
  OBVIOUS
<1>5. m \in Nat /\ n \in Nat
  BY <1>3, <1>4
<1>6. /\ r \in Seq(W) /\ Len(r) = m + n
      /\ \A i \in 1..m : r[i] = p[i]
      /\ \A i \in (m + 1)..(m + n) : r[i] = q[i - m]
  BY <1>3, <1>4, ConcatElements
<1>7. \A i \in 1..n : i + m \in (m + 1)..(m + n) /\ r[i + m] = q[i]
  <2> HIDE DEF r
  <2> TAKE i \in 1..n
  <2>1. i + m \in (m + 1)..(m + n) /\ (i + m) - m = i
    BY <1>5
  <2> QED BY <1>6, <2>1
<1> HIDE DEF r
<1>8. a \in Nat /\ b \in Nat /\ c \in Nat /\ a <= b /\ b <= c
  BY DEF Lists
<1>9. ASSUME NEW i \in 1..m
      PROVE  AnchoredLater(r, i) /\ IndexedBefore(r, X, i) /\ TickGoesUp(r, a, c, i)
  <2>1. AnchoredLater(p, i) /\ IndexedBefore(p, X, i) /\ TickGoesUp(p, a, b, i)
    BY <1>4 DEF Lists
  <2>2. r[i] = p[i]
    BY <1>6
  <2>3. AnchoredLater(r, i)
    <3> SUFFICES ASSUME Indexes(r[i])
                 PROVE  \E j \in i..Len(r) : Anchors(r[j]) /\ r[j].value.tx = r[i].value
      BY DEF AnchoredLater
    <3>1. PICK j \in i..m : Anchors(p[j]) /\ p[j].value.tx = p[i].value
      BY <1>4, <2>1, <2>2 DEF AnchoredLater
    <3>2. j \in 1..m /\ j \in i..Len(r)
      BY <1>5, <1>6
    <3>3. r[j] = p[j]
      BY <1>6, <3>2
    <3> QED BY <2>2, <3>1, <3>2, <3>3
  <2>4. \A j \in 1..i : j \in 1..m /\ r[j] = p[j]
    <3>1. \A j \in 1..i : j \in 1..m
      BY <1>5
    <3> QED BY <1>6, <3>1
  <2>5. IndexedBefore(r, X, i)
    BY <2>1, <2>2, <2>4 DEF IndexedBefore
  <2>6. TickGoesUp(r, a, c, i)
    <3>1. \A k \in (a + 1)..b : k \in (a + 1)..c
      BY <1>8
    <3> QED BY <2>1, <2>2, <2>4, <3>1 DEF TickGoesUp
  <2> QED BY <2>3, <2>5, <2>6
<1>10. ASSUME NEW k \in 1..n, NEW i, i = k + m
       PROVE  AnchoredLater(r, i) /\ IndexedBefore(r, X, i) /\ TickGoesUp(r, a, c, i)
  <2>1. AnchoredLater(q, k) /\ IndexedBefore(q, X, k) /\ TickGoesUp(q, b, c, k)
    BY <1>4 DEF Lists
  <2>2. r[i] = q[k] /\ i \in (m + 1)..(m + n)
    BY <1>7, <1>10
  <2>3. AnchoredLater(r, i)
    <3> SUFFICES ASSUME Indexes(r[i])
                 PROVE  \E j \in i..Len(r) : Anchors(r[j]) /\ r[j].value.tx = r[i].value
      BY DEF AnchoredLater
    <3>1. PICK j \in k..n : Anchors(q[j]) /\ q[j].value.tx = q[k].value
      BY <1>4, <2>1, <2>2 DEF AnchoredLater
    <3>2. j \in 1..n /\ j + m \in i..Len(r)
      BY <1>5, <1>6, <1>10
    <3>3. r[j + m] = q[j]
      BY <1>7, <3>2
    <3> QED BY <2>2, <3>1, <3>2, <3>3
  <2>4. IndexedBefore(r, X, i)
    <3> SUFFICES ASSUME Anchors(r[i]), NEW u \in WalletIds(r[i].value.tx),
                        ~Known(X, u, r[i].value.tx)
                 PROVE  \E j \in 1..i : Indexes(r[j]) /\ r[j].key = u /\ r[j].value = r[i].value.tx
      BY DEF IndexedBefore
    <3>1. PICK j \in 1..k : Indexes(q[j]) /\ q[j].key = u /\ q[j].value = q[k].value.tx
      BY <2>1, <2>2 DEF IndexedBefore
    <3>2. j \in 1..n /\ j + m \in 1..i
      BY <1>5, <1>10
    <3>3. r[j + m] = q[j]
      BY <1>7, <3>2
    <3> QED BY <2>2, <3>1, <3>2, <3>3
  <2>5. TickGoesUp(r, a, c, i)
    <3> SUFFICES ASSUME Anchors(q[k])
                 PROVE  /\ q[k].key \in (a + 1)..c /\ Recorded(q[k].value.tx)
                        /\ \A j \in 1..i : Anchors(r[j]) => j = i \/ r[j].key < q[k].key
      BY <2>2 DEF TickGoesUp
    <3>1. q[k].key \in (b + 1)..c /\ Recorded(q[k].value.tx)
      BY <2>1 DEF TickGoesUp
    <3>2. ASSUME NEW j \in 1..i, Anchors(r[j]) PROVE j = i \/ r[j].key < q[k].key
      <4>1. CASE j <= m
        <5>1. j \in 1..m /\ r[j] = p[j]
          BY <1>5, <1>6, <4>1
        <5>2. p[j].key \in (a + 1)..b
          BY <1>4, <3>2, <5>1 DEF Lists, TickGoesUp
        <5> QED BY <1>8, <3>1, <5>1, <5>2
      <4>2. CASE j > m
        <5>1. PICK h : h = j - m
          OBVIOUS
        <5>2. h \in 1..k /\ h \in 1..n /\ h + m = j
          BY <1>5, <1>10, <4>2, <5>1
        <5>3. r[j] = q[h]
          BY <1>7, <5>2
        <5>4. h = k \/ q[h].key < q[k].key
          BY <2>1, <3>2, <5>2, <5>3 DEF TickGoesUp
        <5> QED BY <1>10, <5>2, <5>3, <5>4
      <4> QED BY <1>5, <1>10, <4>1, <4>2
    <3> QED BY <1>8, <3>1, <3>2
  <2> QED BY <2>3, <2>4, <2>5
<1>11. ASSUME NEW i \in 1..Len(r)
       PROVE  AnchoredLater(r, i) /\ IndexedBefore(r, X, i) /\ TickGoesUp(r, a, c, i)
  <2>1. i \in 1..m \/ (i - m \in 1..n /\ i = (i - m) + m)
    BY <1>5, <1>6
  <2> QED BY <1>9, <1>10, <2>1
<1>12. r \in Seq(W) /\ a \in Nat /\ c \in Nat /\ a <= c
  BY <1>6, <1>8
<1> QED BY <1>11, <1>12 DEF Lists, r

\* The next write of a list, and the rest.
LEMMA ListsTail ==
    ASSUME NEW p, p # << >>, NEW X, NEW lo, NEW hi, Lists(p, X, lo, hi), NEW w, w = Head(p)
    PROVE  /\ Indexes(w) => \A Y : /\ X \subseteq Y
                                   /\ Known(Y, w.key, w.value)
                                   => Lists(Tail(p), Y, lo, hi)
           /\ Indexes(w) => \E j \in 1..Len(Tail(p)) : /\ Anchors(Tail(p)[j])
                                                       /\ Tail(p)[j].value.tx = w.value
           /\ Anchors(w) => /\ w.key \in (lo + 1)..hi /\ Recorded(w.value.tx)
                            /\ \A u \in WalletIds(w.value.tx) : Known(X, u, w.value.tx)
                            /\ Lists(Tail(p), X, w.key, hi)
           /\ ~Indexes(w) /\ ~Anchors(w) => Lists(Tail(p), X, lo, hi)
<1> DEFINE q == Tail(p)
<1>1. PICK W : p \in Seq(W)
  BY DEF Lists
<1>2. PICK n : n = Len(p)
  OBVIOUS
<1>3. n \in Nat \ {0} /\ w = p[1]
  BY <1>1, <1>2
<1>4. q \in Seq(W) /\ Len(q) = n - 1 /\ \A i \in 1..(n - 1) : q[i] = p[i + 1]
  BY <1>1, <1>2, TailElements
<1> HIDE DEF q
<1>5. lo \in Nat /\ hi \in Nat /\ lo <= hi
  BY DEF Lists
<1>6. \A i \in 1..n : AnchoredLater(p, i) /\ IndexedBefore(p, X, i) /\ TickGoesUp(p, lo, hi, i)
  BY <1>2 DEF Lists
<1>7. \A i \in 1..(n - 1) : i + 1 \in 1..n
  BY <1>3
<1>8. ASSUME NEW i \in 1..(n - 1) PROVE AnchoredLater(q, i) /\ TickGoesUp(q, lo, hi, i)
  <2>1. AnchoredLater(p, i + 1) /\ TickGoesUp(p, lo, hi, i + 1) /\ q[i] = p[i + 1]
    BY <1>4, <1>6, <1>7
  <2>2. AnchoredLater(q, i)
    <3> SUFFICES ASSUME Indexes(q[i])
                 PROVE  \E j \in i..Len(q) : Anchors(q[j]) /\ q[j].value.tx = q[i].value
      BY DEF AnchoredLater
    <3>1. PICK j \in (i + 1)..n : Anchors(p[j]) /\ p[j].value.tx = p[i + 1].value
      BY <1>2, <2>1 DEF AnchoredLater
    <3>2. PICK k : k = j - 1
      OBVIOUS
    <3>3. k \in i..Len(q) /\ k \in 1..(n - 1) /\ k + 1 = j
      BY <1>3, <1>4, <3>2
    <3>4. q[k] = p[j]
      BY <1>4, <3>3
    <3> QED BY <2>1, <3>1, <3>3, <3>4
  <2>3. TickGoesUp(q, lo, hi, i)
    <3> SUFFICES ASSUME Anchors(q[i])
                 PROVE  /\ q[i].key \in (lo + 1)..hi /\ Recorded(q[i].value.tx)
                        /\ \A j \in 1..i : Anchors(q[j]) => j = i \/ q[j].key < q[i].key
      BY DEF TickGoesUp
    <3>1. ASSUME NEW j \in 1..i, Anchors(q[j]) PROVE j = i \/ q[j].key < q[i].key
      <4>1. j \in 1..(n - 1) /\ j + 1 \in 1..(i + 1)
        BY <1>3
      <4>2. q[j] = p[j + 1]
        BY <1>4, <4>1
      <4>3. j + 1 = i + 1 \/ q[j].key < q[i].key
        BY <2>1, <3>1, <4>1, <4>2 DEF TickGoesUp
      <4> QED BY <4>3
    <3> QED BY <2>1, <3>1 DEF TickGoesUp
  <2> QED BY <2>2, <2>3
<1>9. ASSUME NEW Y, X \subseteq Y, Indexes(w) => Known(Y, w.key, w.value),
             NEW i \in 1..(n - 1)
      PROVE  IndexedBefore(q, Y, i)
  <2> SUFFICES ASSUME Anchors(q[i]), NEW u \in WalletIds(q[i].value.tx),
                      ~Known(Y, u, q[i].value.tx)
               PROVE  \E j \in 1..i : Indexes(q[j]) /\ q[j].key = u /\ q[j].value = q[i].value.tx
    BY DEF IndexedBefore
  <2>1. q[i] = p[i + 1] /\ IndexedBefore(p, X, i + 1)
    BY <1>4, <1>6, <1>7
  <2>2. ~Known(X, u, q[i].value.tx)
    BY <1>9 DEF Known
  <2>3. PICK j \in 1..(i + 1) : Indexes(p[j]) /\ p[j].key = u /\ p[j].value = q[i].value.tx
    BY <2>1, <2>2 DEF IndexedBefore
  <2>4. j # 1
    BY <1>3, <1>9, <2>3
  <2>5. PICK k : k = j - 1
    OBVIOUS
  <2>6. k \in 1..i /\ k \in 1..(n - 1) /\ k + 1 = j
    BY <1>3, <2>4, <2>5
  <2>7. q[k] = p[j]
    BY <1>4, <2>6
  <2> QED BY <2>3, <2>6, <2>7
<1>10. Indexes(w) => \A Y : X \subseteq Y /\ Known(Y, w.key, w.value) => Lists(q, Y, lo, hi)
  BY <1>4, <1>5, <1>8, <1>9 DEF Lists
<1>11. ~Indexes(w) => Lists(q, X, lo, hi)
  BY <1>4, <1>5, <1>8, <1>9 DEF Lists
<1>12. ASSUME Indexes(w) PROVE \E j \in 1..Len(q) : Anchors(q[j]) /\ q[j].value.tx = w.value
  <2>1. AnchoredLater(p, 1)
    BY <1>3, <1>6
  <2>2. PICK j \in 1..n : Anchors(p[j]) /\ p[j].value.tx = w.value
    BY <1>2, <1>3, <1>12, <2>1 DEF AnchoredLater
  <2>3. j # 1
    BY <1>3, <1>12, <2>2 DEF Anchors, Indexes
  <2>4. PICK k : k = j - 1
    OBVIOUS
  <2>5. k \in 1..(n - 1) /\ k + 1 = j
    BY <1>3, <2>3, <2>4
  <2>6. q[k] = p[j]
    BY <1>4, <2>5
  <2> QED BY <1>4, <2>2, <2>5, <2>6
<1>13. ASSUME Anchors(w)
       PROVE  /\ w.key \in (lo + 1)..hi /\ Recorded(w.value.tx)
              /\ \A u \in WalletIds(w.value.tx) : Known(X, u, w.value.tx)
              /\ Lists(q, X, w.key, hi)
  <2>1. IndexedBefore(p, X, 1) /\ TickGoesUp(p, lo, hi, 1)
    BY <1>3, <1>6
  <2>2. w.key \in (lo + 1)..hi /\ Recorded(w.value.tx)
    BY <1>3, <1>13, <2>1 DEF TickGoesUp
  <2>3. ASSUME NEW u \in WalletIds(w.value.tx) PROVE Known(X, u, w.value.tx)
    <3>1. \A j \in 1..1 : j = 1
      OBVIOUS
    <3>2. ~Indexes(p[1])
      BY <1>3, <1>13 DEF Anchors, Indexes
    <3> QED BY <1>3, <1>13, <2>1, <2>3, <3>1, <3>2 DEF IndexedBefore
  <2>4. ASSUME NEW i \in 1..(n - 1) PROVE TickGoesUp(q, w.key, hi, i)
    <3> SUFFICES ASSUME Anchors(q[i]) PROVE q[i].key \in (w.key + 1)..hi
      BY <1>8 DEF TickGoesUp
    <3>1. TickGoesUp(p, lo, hi, i + 1) /\ q[i] = p[i + 1]
      BY <1>4, <1>6, <1>7
    <3>2. 1 \in 1..(i + 1) /\ 1 # i + 1
      OBVIOUS
    <3>3. q[i].key \in (lo + 1)..hi /\ w.key < q[i].key
      BY <1>3, <1>13, <3>1, <3>2 DEF TickGoesUp
    <3> QED BY <1>5, <2>2, <3>3
  <2>5. ~Indexes(w)
    BY <1>13 DEF Anchors, Indexes
  <2>6. Lists(q, X, lo, hi)
    BY <1>11, <2>5
  <2>7. w.key \in Nat /\ w.key <= hi
    BY <1>5, <2>2
  <2>8. Lists(q, X, w.key, hi)
    BY <1>4, <1>5, <2>4, <2>6, <2>7 DEF Lists
  <2> QED BY <2>2, <2>3, <2>8
<1> QED BY <1>10, <1>11, <1>12, <1>13 DEF q

\* The committing of the last write changes nothing of this.
LEMMA ListsCommits ==
    ASSUME NEW p, NEW X, NEW lo, NEW hi, Lists(p, X, lo, hi), Len(p) \in Nat \ {0},
           IsWrite(p[Len(p)]), NEW q, NEW o, CommitsLast(q, p, o)
    PROVE  Lists(q, X, lo, hi)
<1>1. PICK W : p \in Seq(W)
  BY DEF Lists
<1>2. PICK n : n = Len(p)
  OBVIOUS
<1> DEFINE last == p[n]
           c    == Commit(last, o)
<1>3. n \in Nat \ {0} /\ q = [p EXCEPT ![n] = c]
  BY <1>2 DEF CommitsLast
<1>4. c.tree = last.tree /\ c.key = last.key /\ c.value = last.value
  BY <1>2, CommitFields
<1> HIDE DEF c
<1>5. /\ q \in Seq(W \cup {c}) /\ Len(q) = n
      /\ \A i \in 1..n : q[i] = IF i = n THEN c ELSE p[i]
  BY <1>1, <1>2, <1>3
<1>6. \A i \in 1..n : q[i].tree = p[i].tree /\ q[i].key = p[i].key /\ q[i].value = p[i].value
  BY <1>4, <1>5
<1>7. ASSUME NEW i \in 1..n
      PROVE  AnchoredLater(q, i) /\ IndexedBefore(q, X, i) /\ TickGoesUp(q, lo, hi, i)
  <2>1. AnchoredLater(p, i) /\ IndexedBefore(p, X, i) /\ TickGoesUp(p, lo, hi, i)
    BY <1>2 DEF Lists
  <2>2. \A j \in 1..i : j \in 1..n
    BY <1>3
  <2>3. \A j \in i..n : j \in 1..n
    BY <1>3
  <2>4. \A j \in 1..n : /\ Anchors(q[j]) = Anchors(p[j]) /\ Indexes(q[j]) = Indexes(p[j])
                        /\ q[j].key = p[j].key /\ q[j].value = p[j].value
    BY <1>6 DEF Anchors, Indexes
  <2>5. AnchoredLater(q, i)
    BY <1>2, <1>5, <2>1, <2>3, <2>4 DEF AnchoredLater
  <2>6. IndexedBefore(q, X, i)
    BY <2>1, <2>2, <2>4 DEF IndexedBefore
  <2>7. TickGoesUp(q, lo, hi, i)
    BY <2>1, <2>2, <2>4 DEF TickGoesUp
  <2> QED BY <2>5, <2>6, <2>7
<1> QED BY <1>5, <1>7 DEF Lists

\* append_tx_locked indexes the transaction under every wallet of it and anchors it then.
LEMMA AppendLists ==
    ASSUME NEW sys, SystemOK(sys), NEW tx, Recorded(tx), NEW X
    PROVE  Lists(AppendTx(sys, tx), X, sys.current_tick, sys.current_tick + 1)
<1> DEFINE mem  == Ticked(sys, tx)
           ids  == InSomeOrder(WalletIds(tx))
           put  == Write("transactions", tx, mem.current_tick, mem)
           last == Write("poh", mem.current_tick, NextEntry(sys, tx), mem)
           t    == sys.current_tick
<1>1. PICK n : n = Cardinality(WalletIds(tx))
  OBVIOUS
<1> DEFINE idx  == [i \in 1..n |-> Write("tx_by_wallet", ids[i], tx, mem)]
           p    == AppendTx(sys, tx)
<1>2. p = <<put>> \o idx \o <<last>>
  BY <1>1 DEF AppendTx
<1>3. n \in Nat /\ \A u \in WalletIds(tx) : \E i \in 1..n : ids[i] = u
  <2>1. IsFiniteSet(WalletIds(tx))
    BY DEF Recorded
  <2>2. n \in Nat
    BY <1>1, <2>1, FS_CardinalityType
  <2>3. \A u \in WalletIds(tx) : \E i \in 1..Len(ids) : ids[i] = u
    BY <2>1, ListsAll
  <2>4. DOMAIN ids = 1..n
    <3>1. \E g \in [1..n -> WalletIds(tx)] : IsInjective(g)
      <4>1. PICK f \in Bijection(1..n, WalletIds(tx)) : TRUE
        BY <1>1, <2>1, FS_CardinalityType DEF ExistsBijection
      <4>2. f \in [1..n -> WalletIds(tx)] /\ IsInjective(f)
        BY <4>1 DEF Bijection, Injection, IsInjective
      <4> QED BY <4>2
    <3>2. ids \in [1..n -> WalletIds(tx)]
      BY <1>1, <3>1, Zenon DEF InSomeOrder
    <3> QED BY <3>2
  <2>5. Len(ids) = n
    <3>1. ids \in Seq(WalletIds(tx))
      BY <2>1, Listing
    <3> HIDE DEF ids
    <3> QED BY <2>2, <2>4, <3>1
  <2> QED BY <2>2, <2>3, <2>5
<1>4. mem.current_tick = t + 1 /\ t \in Nat
  BY TickedSystem, SystemFields
<1>5. /\ put.tree = "transactions" /\ last.tree = "poh" /\ last.key = t + 1
      /\ last.value = NextEntry(sys, tx)
  BY <1>4, WriteFields
<1>6. last.value.tx = tx
  BY <1>5 DEF NextEntry, BuildEntry
<1>7. \A i \in 1..n : idx[i].tree = "tx_by_wallet" /\ idx[i].key = ids[i] /\ idx[i].value = tx
  BY WriteFields
<1>8. idx \in Seq({idx[i] : i \in 1..n}) /\ Len(idx) = n
  BY <1>3
<1> HIDE DEF mem, ids, put, last, idx, p, t
<1>9. PICK W : W = {put, last} \cup {idx[i] : i \in 1..n}
  OBVIOUS
<1>10. <<put>> \in Seq(W) /\ Len(<<put>>) = 1 /\ <<put>>[1] = put
  BY <1>9
<1>11. <<last>> \in Seq(W) /\ Len(<<last>>) = 1 /\ <<last>>[1] = last
  BY <1>9
<1>12. idx \in Seq(W)
  BY <1>3, <1>8, <1>9
<1> DEFINE r == <<put>> \o idx
<1>13. /\ r \in Seq(W) /\ Len(r) = 1 + n /\ r[1] = put
       /\ \A i \in 2..(1 + n) : r[i] = idx[i - 1]
  <2>1. /\ r \in Seq(W) /\ Len(r) = Len(<<put>>) + n
        /\ \A i \in 1..Len(<<put>>) : r[i] = <<put>>[i]
        /\ \A i \in (Len(<<put>>) + 1)..(Len(<<put>>) + n) : r[i] = idx[i - Len(<<put>>)]
    BY <1>8, <1>10, <1>12, ConcatElements
  <2> HIDE DEF r
  <2> QED BY <1>3, <1>10, <2>1
<1> HIDE DEF r
<1>14. /\ p \in Seq(W) /\ Len(p) = n + 2 /\ p[n + 2] = last
       /\ \A i \in 1..(n + 1) : p[i] = r[i]
  <2>1. /\ r \o <<last>> \in Seq(W) /\ Len(r \o <<last>>) = Len(r) + Len(<<last>>)
        /\ \A i \in 1..Len(r) : (r \o <<last>>)[i] = r[i]
        /\ \A i \in (Len(r) + 1)..(Len(r) + Len(<<last>>)) :
              (r \o <<last>>)[i] = <<last>>[i - Len(r)]
    BY <1>11, <1>13, ConcatElements
  <2>2. p = r \o <<last>>
    BY <1>2 DEF r
  <2>3. Len(r) = n + 1
    BY <1>3, <1>13
  <2>4. Len(p) = n + 2 /\ \A i \in (n + 2)..(n + 2) : p[i] = <<last>>[i - (n + 1)]
    BY <1>3, <1>11, <2>1, <2>2, <2>3
  <2>5. n + 2 \in (n + 2)..(n + 2) /\ (n + 2) - (n + 1) = 1
    BY <1>3
  <2>6. p[n + 2] = last
    BY <1>11, <2>4, <2>5
  <2> QED BY <2>1, <2>2, <2>3, <2>4, <2>6
<1>15. \A i \in 1..n : p[i + 1] = idx[i]
  <2> TAKE i \in 1..n
  <2>1. i + 1 \in 2..(1 + n) /\ i + 1 \in 1..(n + 1) /\ (i + 1) - 1 = i
    BY <1>3
  <2> QED BY <1>13, <1>14, <2>1
<1>16. p[1] = put
  BY <1>3, <1>13, <1>14
<1>17. ASSUME NEW i \in 1..(n + 2)
       PROVE  /\ Anchors(p[i]) => i = n + 2
              /\ Indexes(p[i]) => p[i].value = tx
  <2>1. CASE i = 1
    BY <1>5, <1>16, <2>1 DEF Anchors, Indexes
  <2>2. CASE i = n + 2
    BY <1>5, <1>14, <2>2 DEF Anchors, Indexes
  <2>3. CASE i # 1 /\ i # n + 2
    <3>1. i - 1 \in 1..n /\ (i - 1) + 1 = i
      BY <1>3, <2>3
    <3>2. p[i] = idx[i - 1]
      BY <1>15, <3>1
    <3> QED BY <1>7, <3>1, <3>2 DEF Anchors
  <2> QED BY <2>1, <2>2, <2>3
<1>18. ASSUME NEW i \in 1..(n + 2)
       PROVE  AnchoredLater(p, i) /\ IndexedBefore(p, X, i) /\ TickGoesUp(p, t, t + 1, i)
  <2>1. AnchoredLater(p, i)
    <3>1. n + 2 \in i..Len(p)
      BY <1>3, <1>14
    <3>2. Anchors(p[n + 2]) /\ p[n + 2].value.tx = tx
      BY <1>5, <1>6, <1>14 DEF Anchors
    <3> QED BY <1>17, <3>1, <3>2 DEF AnchoredLater
  <2>2. IndexedBefore(p, X, i)
    <3> SUFFICES ASSUME Anchors(p[i]), NEW u \in WalletIds(p[i].value.tx)
                 PROVE  \E j \in 1..i : Indexes(p[j]) /\ p[j].key = u /\ p[j].value = p[i].value.tx
      BY DEF IndexedBefore
    <3>1. i = n + 2 /\ p[i].value.tx = tx
      BY <1>6, <1>14, <1>17
    <3>2. PICK k \in 1..n : ids[k] = u
      BY <1>3, <3>1
    <3>3. k + 1 \in 1..i
      BY <1>3, <3>1
    <3>4. p[k + 1] = idx[k]
      BY <1>15
    <3>5. idx[k].tree = "tx_by_wallet" /\ idx[k].key = u /\ idx[k].value = tx
      BY <1>7, <3>2
    <3> QED BY <3>1, <3>3, <3>4, <3>5 DEF Indexes
  <2>3. TickGoesUp(p, t, t + 1, i)
    <3> SUFFICES ASSUME Anchors(p[i])
                 PROVE  /\ p[i].key \in (t + 1)..(t + 1) /\ Recorded(p[i].value.tx)
                        /\ \A j \in 1..i : Anchors(p[j]) => j = i \/ p[j].key < p[i].key
      BY DEF TickGoesUp
    <3>1. i = n + 2 /\ p[i].value.tx = tx /\ p[i].key = t + 1
      BY <1>5, <1>6, <1>14, <1>17
    <3>2. t + 1 \in (t + 1)..(t + 1)
      BY <1>4
    <3>3. \A j \in 1..i : j \in 1..(n + 2)
      BY <1>3
    <3> QED BY <1>17, <3>1, <3>2, <3>3
  <2> QED BY <2>1, <2>2, <2>3
<1> QED BY <1>4, <1>14, <1>18 DEF Lists, p, t

-----------------------------------------------------------------------------
(* The plans of the handlers, as lists.                                    *)

ListsFrom(p, t) == \E m : Lists(p, tx_by_wallet, t, m)

LEMMA OtherQuiet ==
    ASSUME NEW id, NEW wallet, NEW m, NEW o, NEW k, NEW value
    PROVE  /\ Quiet(<<PutWallet(id, wallet, m)>>)
           /\ Quiet(<<StoreState(m)>>)
           /\ Quiet(<<Commit(StoreState(m), o)>>)
           /\ Quiet(<<Flush(m)>>)
           /\ Quiet(<<Write("iterations", k, value, m)>>)
<1>1. /\ PutWallet(id, wallet, m).tree = "wallets" /\ StoreState(m).tree = "state"
      /\ IsWrite(StoreState(m))
      /\ Flush(m).tree = "flush" /\ Write("iterations", k, value, m).tree = "iterations"
  BY WriteFields DEF PutWallet, StoreState, Flush
<1>2. Commit(StoreState(m), o).tree = "state"
  BY <1>1, CommitFields
<1> QED BY <1>1, <1>2, QuietOne DEF Anchors, Indexes

LEMMA QuietFrom ==
    ASSUME NEW p, Quiet(p), NEW t \in Nat
    PROVE  ListsFrom(p, t)
BY QuietLists DEF ListsFrom

\* A handler that appends one transaction.
LEMMA TickLists ==
    ASSUME NEW p, Quiet(p), NEW mem, SystemOK(mem), mem.current_tick = system.current_tick,
           NEW tx, Recorded(tx), NEW q, Quiet(q)
    PROVE  ListsFrom(p \o AppendTx(mem, tx) \o q, system.current_tick)
<1> DEFINE t == system.current_tick
<1>1. mem.current_tick = t /\ t \in Nat
  BY SystemFields
<1>2. Lists(p, tx_by_wallet, t, t)
  BY <1>1, QuietLists
<1> DEFINE app == AppendTx(mem, tx)
<1>3. Lists(app, tx_by_wallet, t, t + 1)
  BY <1>1, AppendLists
<1>4. Lists(q, tx_by_wallet, t + 1, t + 1)
  BY <1>1, QuietLists
<1> HIDE DEF app, t
<1>5. Lists(p \o app, tx_by_wallet, t, t + 1)
  BY <1>2, <1>3, ListsConcat
<1>6. Lists(p \o app \o q, tx_by_wallet, t, t + 1)
  BY <1>4, <1>5, ListsConcat
<1> QED BY <1>6 DEF ListsFrom, app, t

LEMMA UserLists ==
    ASSUME NEW p, Quiet(p), NEW mem, SystemOK(mem), SameClock(mem, system), NEW tx, Recorded(tx),
           NEW q, Quiet(q)
    PROVE  ListsFrom(p \o AppendTx(mem, tx) \o q, system.current_tick)
<1>1. mem.current_tick = system.current_tick
  BY DEF SameClock
<1> QED BY <1>1, TickLists

LEMMA UserRecorded ==
    ASSUME NEW a, NEW b, NEW amount, NEW n, NEW c
    PROVE  /\ Recorded(MintTx(a, amount, n, c))
           /\ Recorded(TransferTx(a, b, amount, n))
           /\ Recorded(BurnTx(a, amount, n))
<1>1. /\ IsFiniteSet(WalletIds(MintTx(a, amount, n, c)))
      /\ IsFiniteSet(WalletIds(TransferTx(a, b, amount, n)))
      /\ IsFiniteSet(WalletIds(BurnTx(a, amount, n)))
  BY UserTxWallets
<1>2. /\ MintTx(a, amount, n, c).kind = "mint"
      /\ TransferTx(a, b, amount, n).kind = "transfer"
      /\ BurnTx(a, amount, n).kind = "burn"
  BY DEF MintTx, TransferTx, BurnTx
<1> QED BY <1>1, <1>2 DEF Recorded

LEMMA MintLists ==
    ASSUME SystemOK(system), NEW id \in Users, NEW amount \in 0..MaxU64, NEW category
    PROVE  ListsFrom(MintPlan(id, amount, category), system.current_tick)
<1> DEFINE tx   == MintTx(id, amount, system.current_tick + 1, category)
           mem  == AfterCreate(system, amount)
           put  == <<PutWallet(id, NewWallet(amount, system.current_iteration), system)>>
           last == <<Commit(StoreState(Ticked(mem, tx)), CreateOverflows(system, amount))>>
<1>1. Quiet(put) /\ Quiet(last)
  BY OtherQuiet
<1>2. Recorded(tx)
  BY UserRecorded
<1>3. SystemOK(mem) /\ SameClock(mem, system)
  BY CreatedSystem
<1> HIDE DEF tx, mem, put, last
<1>4. ListsFrom(put \o AppendTx(mem, tx) \o last, system.current_tick)
  BY <1>1, <1>2, <1>3, UserLists
<1> QED BY <1>4, Zenon DEF MintPlan, tx, mem, put, last

LEMMA ChargeLists ==
    ASSUME SystemOK(system), NEW id, NEW amount \in Amounts
    PROVE  ListsFrom(ChargePlan(id, amount), system.current_tick)
<1> DEFINE tx   == MintTx(id, amount, system.current_tick + 1, "charge")
           mem  == [system EXCEPT !.total_supply = SatAdd(@, amount)]
           put  == <<PutWallet(id, [wallets[id] EXCEPT !.balance = SatAdd(@, amount)], system)>>
           last == <<Commit(StoreState(Ticked(mem, tx)), system.total_supply + amount > MaxU64)>>
           supply == SatAdd(system.total_supply, amount)
<1>1. Quiet(put) /\ Quiet(last)
  BY OtherQuiet
<1>2. Recorded(tx)
  BY UserRecorded
<1>3. SystemOK(mem) /\ SameClock(mem, system)
  <2>1. system.total_supply \in Nat /\ amount \in Nat
    BY SystemFields
  <2>2. supply \in 0..MaxU64
    BY <2>1, SatAddType
  <2>3. mem = [system EXCEPT !.total_supply = supply]
    BY DEF SystemOK, SystemRecord
  <2> HIDE DEF supply
  <2> QED BY <2>2, <2>3, SuppliedSystem
<1> HIDE DEF tx, mem, put, last
<1>4. ListsFrom(put \o AppendTx(mem, tx) \o last, system.current_tick)
  BY <1>1, <1>2, <1>3, UserLists
<1> QED BY <1>4, Zenon DEF ChargePlan, tx, mem, put, last

LEMMA TransferLists ==
    ASSUME SystemOK(system), NEW from, NEW to, NEW amount, NEW nonce
    PROVE  ListsFrom(TransferPlan(from, to, amount, nonce), system.current_tick)
<1> DEFINE tx   == TransferTx(from, to, amount, nonce)
           it   == system.current_iteration
           put  == PutWallet(from, Spent(wallets[from], amount, {to}, it), system)
           next == PutWallet(to, Received(wallets[to], amount, from, it), system)
           last == <<Commit(StoreState(Activated(Ticked(system, tx), {from, to})),
                            wallets[to].balance + amount > MaxU64)>>
<1>1. Quiet(<<put>>) /\ Quiet(<<next>>) /\ Quiet(last)
  BY OtherQuiet
<1>2. Recorded(tx)
  BY UserRecorded
<1>3. SameClock(system, system)
  BY DEF SameClock
<1>4. MoveCoins(from, to, amount) = <<put, next>>
  BY Zenon DEF MoveCoins, put, next, it
<1> HIDE DEF tx, put, next, last
<1>5. Quiet(<<put, next>>)
  <2>1. Quiet(<<put>> \o <<next>>)
    BY <1>1, QuietConcat
  <2> QED BY <2>1, PairOfWrites
<1>6. ListsFrom(<<put, next>> \o AppendTx(system, tx) \o last, system.current_tick)
  BY <1>1, <1>2, <1>3, <1>5, UserLists
<1> QED BY <1>4, <1>6, Zenon DEF TransferPlan, tx, last

LEMMA BurnLists ==
    ASSUME SystemOK(system), NEW from, NEW amount \in Amounts, NEW nonce
    PROVE  ListsFrom(BurnPlan(from, amount, nonce), system.current_tick)
<1> DEFINE tx   == BurnTx(from, amount, nonce)
           mem  == [system EXCEPT !.total_supply = SatSub(@, amount)]
           put  == <<PutWallet(from, Spent(wallets[from], amount, {}, system.current_iteration),
                               system)>>
           last == <<Commit(StoreState(Activated(Ticked(mem, tx), {from})), FALSE)>>
           supply == SatSub(system.total_supply, amount)
<1>1. Quiet(put) /\ Quiet(last)
  BY OtherQuiet
<1>2. Recorded(tx)
  BY UserRecorded
<1>3. SystemOK(mem) /\ SameClock(mem, system)
  <2>1. supply \in 0..MaxU64
    BY DEF SystemOK, SystemRecord, SatSub
  <2>2. mem = [system EXCEPT !.total_supply = supply]
    BY DEF SystemOK, SystemRecord
  <2> HIDE DEF supply
  <2> QED BY <2>1, <2>2, SuppliedSystem
<1> HIDE DEF tx, mem, put, last
<1>4. ListsFrom(put \o AppendTx(mem, tx) \o last, system.current_tick)
  BY <1>1, <1>2, <1>3, UserLists
<1> QED BY <1>4, Zenon DEF BurnPlan, tx, mem, put, last

LEMMA PutsQuiet ==
    ASSUME NEW S, NEW ids \in Seq(S), NEW ws, NEW m
    PROVE  Quiet([i \in 1..Len(ids) |-> PutWallet(ids[i], ws[ids[i]], m)])
<1> DEFINE n == Len(ids)
           p == [i \in 1..n |-> PutWallet(ids[i], ws[ids[i]], m)]
<1>1. n \in Nat
  OBVIOUS
<1> HIDE DEF n
<1>2. PICK W : W = {p[i] : i \in 1..n}
  OBVIOUS
<1>3. \A i \in 1..n : ~Anchors(p[i]) /\ ~Indexes(p[i])
  <2> TAKE i \in 1..n
  <2>1. p[i] = PutWallet(ids[i], ws[ids[i]], m)
    OBVIOUS
  <2> HIDE DEF p
  <2> QED BY <2>1, WriteFields DEF Anchors, Indexes, PutWallet
<1>4. p \in Seq(W)
  BY <1>1, <1>2
<1> HIDE DEF p
<1>5. \A w \in W : ~Anchors(w) /\ ~Indexes(w)
  BY <1>2, <1>3
<1> QED BY <1>4, <1>5 DEF Quiet, p, n

\* The wallets a commit rewards are the ones it charges a penalty.
LEMMA CommitRecorded ==
    ASSUME NEW S, IsFiniteSet(S), NEW ids, NEW ws \in [S -> WalletRecord(ids)],
           NEW p \in Parameters, NEW first, NEW sys,
           sys.current_iteration \in Nat,
           sys.previous_iteration_supply \in Nat,
           sys.previous_iteration_start_supply \in Nat,
           NEW r, r = ExecuteIteration(ws, p, sys, first)
    PROVE  /\ Recorded(r.commit)
           /\ IsFiniteSet(r.commit.new_wallets)
<1>1. PICK paid : IterationReturns(r, S, ids, ws, p, sys, paid)
  BY IterationShape
<1>2. /\ IsFiniteSet(r.commit.new_wallets) /\ r.commit.kind = "iteration_commit"
      /\ DOMAIN r.commit.penalties = S
  BY <1>1, Zenon DEF IterationReturns
<1>3. DOMAIN r.commit.rewards = S
  <2> DEFINE n         == Cardinality(S)
             beta      == BurnRate(p, sys)
             penalties == Penalties(ws, p)
             collected == SumU64(penalties)
             pool      == RedistributionPool(p, n, collected, beta)
             penalised == Collect(ws, p, penalties)
             shares    == Shares(penalised, p, pool)
             residual  == Residual(pool, shares)
  <2>1. r.commit.rewards = Rewards(p, first, shares, residual)
    BY Zenon DEF ExecuteIteration
  <2>2. DOMAIN penalised = S
    BY DEF Collect
  <2> HIDE DEF penalised, pool, residual
  <2>3. DOMAIN shares = S
    BY <2>2 DEF Shares
  <2> HIDE DEF shares
  <2>4. DOMAIN Rewards(p, first, shares, residual) = DOMAIN shares
    BY DEF Rewards
  <2> QED BY <2>1, <2>3, <2>4
<1>4. IsFiniteSet(WalletIds(r.commit))
  <2>1. PICK F : F = r.commit.new_wallets
    OBVIOUS
  <2>2. WalletIds(r.commit) = S \cup F
    BY <1>2, <2>1 DEF WalletIds
  <2>3. IsFiniteSet(F)
    BY <1>2, <2>1
  <2>4. IsFiniteSet(S \cup F)
    BY <2>3, FS_Union
  <2> QED BY <2>2, <2>4
<1> QED BY <1>2, <1>3, <1>4 DEF Recorded

LEMMA IterationLists ==
    ASSUME SystemOK(system), WalletsOK(wallets), NEW p \in ParameterSets, NEW first \in Firsts
    PROVE  ListsFrom(IterationPlan(p, first), system.current_tick)
<1> DEFINE r      == ExecuteIteration(wallets, p, system, first)
           D      == DOMAIN wallets
           F      == r.commit.new_wallets
           locked == Locked(system)
           mem    == Committed(locked, r)
           ids    == InSomeOrder(D) \o InSomeOrder(F)
           puts   == [i \in 1..Len(ids) |-> PutWallet(ids[i], r.wallets[ids[i]], locked)]
           end    == Ticked(mem, r.commit)
           o      == IterationOverflows(r)
<1>1. Quiet(TakeLock(locked))
  BY OtherQuiet DEF TakeLock
<1>2. CASE Panics(p)
  <2>1. system.current_tick \in Nat
    BY SystemFields
  <2> QED BY <1>1, <1>2, <2>1, QuietFrom DEF IterationPlan
<1>3. CASE ~Panics(p)
  <2>1. IsFiniteSet(D) /\ wallets \in [D -> WalletRecord(WalletId)] /\ p \in Parameters
    BY DEF WalletsOK
  <2>2. /\ system.current_iteration \in Nat
        /\ system.previous_iteration_supply \in Nat
        /\ system.previous_iteration_start_supply \in Nat
    BY SystemFields
  <2> HIDE DEF D
  <2>3. Recorded(r.commit) /\ IsFiniteSet(F)
    BY <2>1, <2>2, CommitRecorded
  <2>4. SystemOK(mem) /\ mem.current_tick = system.current_tick
    <3>1. PICK paid : IterationReturns(r, D, WalletId, wallets, p, system, paid)
      BY <2>1, <2>2, IterationShape
    <3> HIDE DEF r
    <3> QED BY <2>1, <3>1, CommittedSystem
  <2> HIDE DEF r, mem, locked, end, o
  <2>5. Quiet(puts)
    <3>1. InSomeOrder(D) \in Seq(D) /\ InSomeOrder(F) \in Seq(F)
      BY <2>1, <2>3, Listing
    <3>2. ids \in Seq(D \cup F)
      <4> DEFINE s == InSomeOrder(D)
                 t == InSomeOrder(F)
      <4> HIDE DEF s, t, F
      <4>1. s \in Seq(D \cup F) /\ t \in Seq(D \cup F)
        BY <3>1 DEF s, t
      <4>2. s \o t \in Seq(D \cup F)
        BY <4>1
      <4> QED BY <4>2 DEF s, t
    <3> HIDE DEF ids
    <3> QED BY <3>2, PutsQuiet
  <2> DEFINE commit == r.commit
             lock   == TakeLock(locked)
             finish == FinishIteration(end, commit, o)
  <2>6. Quiet(finish)
    <3> DEFINE a == Write("iterations", commit.iteration_id, commit, end)
               b == Commit(StoreState(end), o)
               c == Flush(end)
    <3>1. Quiet(<<a>>) /\ Quiet(<<b>>) /\ Quiet(<<c>>)
      BY OtherQuiet
    <3>2. finish = <<a, b, c>>
      BY Zenon DEF FinishIteration
    <3> HIDE DEF a, b, c
    <3>3. Quiet(<<a>> \o <<b>> \o <<c>>)
      BY <3>1, QuietConcat
    <3>4. <<a>> \o <<b>> \o <<c>> = <<a, b, c>>
      BY ThreeWrites
    <3> QED BY <3>2, <3>3, <3>4
  <2>7. Quiet(lock \o puts)
    BY <1>1, <2>5, QuietConcat
  <2> HIDE DEF puts, commit, lock, finish
  <2>8. Recorded(commit)
    BY <2>3 DEF commit
  <2>9. ListsFrom(lock \o puts \o AppendTx(mem, commit) \o finish, system.current_tick)
    BY <2>4, <2>6, <2>7, <2>8, TickLists
  <2>10. IterationWrites(p, first) = lock \o puts \o AppendTx(mem, commit) \o finish
    BY Zenon DEF IterationWrites, r, D, F, locked, mem, ids, puts, end, o, commit, lock, finish
  <2> QED BY <1>3, <2>9, <2>10 DEF IterationPlan
<1> QED BY <1>2, <1>3

\* One entry of a seed file after those before it.
LEMMA EntryLists ==
    ASSUME NEW a, Begins(a), NEW done, LoopInv(a, done),
           Lists(done.writes, tx_by_wallet, system.current_tick, done.mem.current_tick),
           NEW e \in [id : Users \cup {BadKey}, amount : Amounts],
           NEW next, next = InstallEntry(done, e)
    PROVE  Lists(next.writes, tx_by_wallet, system.current_tick, next.mem.current_tick)
<1> DEFINE tx     == MintTx(e.id, e.amount, done.mem.current_tick + 1, "seed_bootstrap")
           mem    == AfterCreate(done.mem, e.amount)
           app    == AppendTx(mem, tx)
           end    == Ticked(mem, tx)
           wallet == NewWallet(e.amount, system.current_iteration)
           put    == PutWallet(e.id, wallet, done.mem)
           over   == CreateOverflows(done.mem, e.amount)
           com    == [app EXCEPT ![Len(app)] = Commit(@, over)]
           ws     == done.writes \o <<put>> \o com
           new    == [mem |-> end, ids |-> done.ids \cup {e.id}, writes |-> ws, failed |-> FALSE]
           t      == done.mem.current_tick
<1>1. \/ next = done
      \/ next = [done EXCEPT !.failed = TRUE]
      \/ e.id # BadKey /\ next = new
  BY Zenon DEF InstallEntry
<1>2. next = [done EXCEPT !.failed = TRUE] => next.writes = done.writes /\ next.mem = done.mem
  <2>1. PICK m, ids, v, f : done = [mem |-> m, ids |-> ids, writes |-> v, failed |-> f]
    BY DEF LoopInv
  <2> QED BY <2>1
<1>3. ASSUME e.id # BadKey
      PROVE  Lists(ws, tx_by_wallet, system.current_tick, end.current_tick)
  <2>1. e.id \in Users /\ e.amount \in 0..MaxU64
    BY <1>3
  <2>2. SystemOK(done.mem)
    BY DEF LoopInv, Ready
  <2>3. SystemOK(mem) /\ mem.current_tick = t /\ t \in Nat
    <3>1. SystemOK(mem) /\ SameClock(mem, done.mem)
      BY <2>1, <2>2, CreatedSystem
    <3> QED BY <2>2, <3>1, SystemFields DEF SameClock
  <2>4. Recorded(tx) /\ IsFiniteSet(WalletIds(tx))
    BY UserRecorded, UserTxWallets
  <2>5. Lists(<<put>>, tx_by_wallet, t, t)
    <3>1. Quiet(<<put>>)
      BY OtherQuiet
    <3> HIDE DEF put, t
    <3> QED BY <2>3, <3>1, QuietLists
  <2> HIDE DEF tx, mem, put
  <2>6. Len(app) \in Nat \ {0} /\ IsWrite(app[Len(app)])
    BY <2>4, AppendCarries
  <2>7. Lists(app, tx_by_wallet, t, t + 1)
    BY <2>3, <2>4, AppendLists
  <2>8. end.current_tick = t + 1
    BY <2>3, TickedSystem
  <2> HIDE DEF app, end, over, t
  <2>9. CommitsLast(com, app, over)
    BY Zenon DEF CommitsLast
  <2> HIDE DEF com
  <2>10. Lists(com, tx_by_wallet, t, t + 1)
    BY <2>6, <2>7, <2>9, ListsCommits
  <2>11. Lists(done.writes, tx_by_wallet, system.current_tick, t)
    BY DEF t
  <2>12. Lists(done.writes \o <<put>>, tx_by_wallet, system.current_tick, t)
    BY <2>5, <2>11, ListsConcat
  <2> QED BY <2>8, <2>10, <2>12, ListsConcat
<1>4. new.writes = ws /\ new.mem = end
  OBVIOUS
<1> HIDE DEF new, ws, end, t
<1> QED BY <1>1, <1>2, <1>3, <1>4

LEMMA LoopLists ==
    ASSUME NEW a, Begins(a), NEW entries \in SeedFiles
    PROVE  Lists(SeedLoop(entries).writes, tx_by_wallet, system.current_tick,
                 SeedLoop(entries).mem.current_tick)
<1> DEFINE k == Len(entries)
           t == system.current_tick
           f == CHOOSE f : Loops(f, entries, k)
<1>1. k \in Nat /\ \A n \in 1..k : entries[n] \in [id : Users \cup {BadKey}, amount : Amounts]
  <2>1. PICK R : R = [id : Users \cup {BadKey}, amount : Amounts]
    OBVIOUS
  <2>2. entries \in Seq(R)
    BY <2>1, SeedFilesAssumption
  <2>3. Len(entries) \in Nat /\ \A n \in 1..Len(entries) : entries[n] \in R
    BY <2>2
  <2> QED BY <2>1, <2>3, Zenon
<1> HIDE DEF k
<1>2. Loops(f, entries, k)
  BY <1>1, LoopExists, Zenon
<1>3. SeedLoop(entries) = f[k]
  BY Zenon DEF SeedLoop, Loops, LoopStart, k
<1> HIDE DEF f
<1> DEFINE Done(n) == /\ LoopInv(a, f[n])
                      /\ Lists(f[n].writes, tx_by_wallet, t, f[n].mem.current_tick)
           T == {n \in 0..k : Done(n)}
<1>4. 0 \in T
  <2>1. f[0] = LoopStart
    BY <1>1, <1>2, LoopUnfolds
  <2>2. /\ f[0].mem = system /\ f[0].writes = << >>
        /\ f[0] = [mem |-> f[0].mem, ids |-> f[0].ids, writes |-> f[0].writes,
                   failed |-> f[0].failed]
    BY <2>1 DEF LoopStart
  <2>3. Path(a, << >>, a) /\ Ready(a, system) /\ Agrees(a, system) /\ ~system.iteration_lock
    BY PathEmpty DEF Begins
  <2>4. LoopInv(a, f[0])
    BY <2>2, <2>3 DEF LoopInv
  <2>5. Lists(<< >>, tx_by_wallet, t, t)
    <3>1. t \in Nat
      BY <2>3, SystemFields DEF Ready
    <3>2. PICK W : W = {}
      OBVIOUS
    <3>3. << >> \in Seq(W) /\ \A w \in W : ~Anchors(w) /\ ~Indexes(w)
      BY <3>2
    <3>4. Quiet(<< >>)
      BY <3>3, Zenon DEF Quiet
    <3> HIDE DEF t
    <3> QED BY <3>1, <3>4, QuietLists
  <2> QED BY <1>1, <2>2, <2>4, <2>5
<1>5. \A n \in 0..(k - 1) : n \in T => n + 1 \in T
  <2> SUFFICES ASSUME NEW n \in 0..(k - 1), Done(n) PROVE n + 1 \in T
    OBVIOUS
  <2>1. n + 1 \in 1..k /\ n + 1 \in 0..k /\ (n + 1) - 1 = n
    BY <1>1
  <2>2. f[n + 1] = InstallEntry(f[n], entries[n + 1])
    BY <1>1, <1>2, <2>1, LoopUnfolds
  <2>3. LoopInv(a, f[n + 1])
    BY <1>1, <2>1, <2>2, EntryKeepsLoop
  <2>4. Lists(f[n + 1].writes, tx_by_wallet, t, f[n + 1].mem.current_tick)
    <3>1. PICK done, e, next : done = f[n] /\ e = entries[n + 1] /\ next = f[n + 1]
      OBVIOUS
    <3>2. e \in [id : Users \cup {BadKey}, amount : Amounts]
      BY <1>1, <2>1, <3>1
    <3>3. LoopInv(a, done) /\ Lists(done.writes, tx_by_wallet, t, done.mem.current_tick)
      BY <3>1
    <3>4. next = InstallEntry(done, e)
      BY <2>2, <3>1
    <3>5. Lists(next.writes, tx_by_wallet, t, next.mem.current_tick)
      BY <3>2, <3>3, <3>4, EntryLists
    <3> QED BY <3>1, <3>5
  <2> QED BY <2>1, <2>3, <2>4
<1>6. 0..k \subseteq T
  <2> HIDE DEF T
  <2> QED BY <1>1, <1>4, <1>5, IntervalInduction
<1> QED BY <1>1, <1>3, <1>6

LEMMA SeedLists ==
    ASSUME NEW a, Begins(a), NEW entries \in SeedFiles
    PROVE  ListsFrom(SeedPlan(entries), system.current_tick)
<1> DEFINE done == SeedLoop(entries)
           ws   == done.writes
           m    == done.mem
           t    == system.current_tick
           n    == m.current_tick
           put  == StoreState(m)
           last == Flush(m)
<1>1. Lists(ws, tx_by_wallet, t, n)
  BY LoopLists
<1>2. n \in Nat
  BY <1>1 DEF Lists
<1>3. Quiet(<<put, last>>)
  <2>1. Quiet(<<put>>) /\ Quiet(<<last>>)
    BY OtherQuiet
  <2> HIDE DEF put, last
  <2>2. Quiet(<<put>> \o <<last>>)
    BY <2>1, QuietConcat
  <2> QED BY <2>2, PairOfWrites
<1> HIDE DEF ws, put, last, n, t
<1>4. Lists(<<put, last>>, tx_by_wallet, n, n)
  BY <1>2, <1>3, QuietLists
<1>5. Lists(ws \o <<put, last>>, tx_by_wallet, t, n)
  BY <1>1, <1>4, ListsConcat
<1>6. SeedPlan(entries) = ws \/ SeedPlan(entries) = ws \o <<put, last>>
  BY Zenon DEF SeedPlan, ws, put, last
<1> QED BY <1>1, <1>5, <1>6 DEF ListsFrom, t

-----------------------------------------------------------------------------
(* The index and the chain, as a reader finds them between two writes.     *)

\* The transaction x is anchored, or a write to come anchors it.
Coming(x) ==
    \/ \E t \in DOMAIN poh : poh[t].tx = x
    \/ \E j \in 1..Len(plan) : Anchors(plan[j]) /\ plan[j].value.tx = x

\* The running handler goes on behind the end of the chain.
Behind(p) == \E n, m : DOMAIN poh \subseteq 1..n /\ Lists(p, tx_by_wallet, n, m)

IndexInv ==
    /\ SystemOK(view.system)
    /\ DOMAIN view.poh = 1..view.system.current_tick
    /\ DOMAIN view.poh \subseteq DOMAIN poh
    /\ IsFiniteSet(tx_by_wallet)
    /\ Behind(plan)
    /\ \A e \in tx_by_wallet : Coming(e[3])
    /\ \A t \in DOMAIN poh :
          /\ Recorded(poh[t].tx)
          /\ \A u \in WalletIds(poh[t].tx) : Known(tx_by_wallet, u, poh[t].tx)

\* A step only adds to the chain, and what it still owes the chain it does not forget.
Adds ==
    /\ \A t \in DOMAIN poh : t \in DOMAIN poh' /\ poh'[t] = poh[t]
    /\ \A x : Coming(x) => Coming(x)'

\* m counts the ticks that n counts.
Counts(m, n) == "current_tick" \in DOMAIN m /\ m.current_tick = n.current_tick

LEMMA TickedCounts ==
    ASSUME NEW m, NEW n, Counts(m, n), NEW tx
    PROVE  /\ "current_tick" \in DOMAIN Ticked(m, tx)
           /\ Ticked(m, tx).current_tick = n.current_tick + 1
BY DEF Counts, Ticked

LEMMA OperationCounts ==
    ASSUME NEW sys, SystemOK(sys), NEW amount, NEW n, NEW r
    PROVE  /\ Counts(sys, sys)
           /\ Counts(AfterCreate(sys, amount), sys)
           /\ Counts([sys EXCEPT !.total_supply = n], sys)
           /\ Counts(Committed(sys, r), sys)
<1>1. "current_tick" \in DOMAIN sys
  BY DEF SystemOK, SystemRecord
<1>2. Counts(Committed(sys, r), sys)
  BY <1>1 DEF Committed, Counts
<1>3. Counts(AfterCreate(sys, amount), sys)
  BY <1>1 DEF AfterCreate, Counts
<1> QED BY <1>1, <1>2, <1>3 DEF Counts

\* Each operation of the ledger appends one entry and counts it.
LEMMA OperationAppends ==
    ASSUME NEW v, SystemOK(v.system), NEW l, NEW o, LedgerStep(v, l, o)
    PROVE  /\ \E tx : l.poh = Anchored(v, tx)
           /\ l.system.current_tick = v.system.current_tick + 1
<1> DEFINE OneMore == /\ \E tx : l.poh = Anchored(v, tx)
                      /\ l.system.current_tick = v.system.current_tick + 1
<1>1. ASSUME NEW m, NEW tx, Counts(m, v.system), l.system = Ticked(m, tx), l.poh = Anchored(v, tx)
      PROVE  OneMore
  BY <1>1, TickedCounts
<1>2. ASSUME NEW m, NEW tx, Counts(m, v.system), NEW n,
             l.system = [Ticked(m, tx) EXCEPT !.n_active_wallets = n], l.poh = Anchored(v, tx)
      PROVE  OneMore
  <2>1. PICK k : k = Ticked(m, tx)
    OBVIOUS
  <2>2. "current_tick" \in DOMAIN k /\ k.current_tick = v.system.current_tick + 1
    BY <1>2, <2>1, TickedCounts
  <2>3. l.system = [k EXCEPT !.n_active_wallets = n]
    BY <1>2, <2>1
  <2>4. l.system.current_tick = k.current_tick
    BY <2>2, <2>3
  <2> QED BY <1>2, <2>2, <2>4
<1> HIDE DEF OneMore
<1>3. ASSUME NEW id, NEW amount, NEW category, IsMint(v, l, o, id, amount, category)
      PROVE  OneMore
  <2> DEFINE tx == MintTx(id, amount, v.system.current_tick + 1, category)
  <2>1. l.system = Ticked(AfterCreate(v.system, amount), tx) /\ l.poh = Anchored(v, tx)
    BY <1>3 DEF IsMint, Books
  <2> HIDE DEF tx
  <2> QED BY <1>1, <2>1, OperationCounts
<1>4. ASSUME NEW id, NEW amount, IsCharge(v, l, o, id, amount) PROVE OneMore
  <2> DEFINE tx == MintTx(id, amount, v.system.current_tick + 1, "charge")
             n  == SatAdd(v.system.total_supply, amount)
  <2>1. /\ l.system = Ticked([v.system EXCEPT !.total_supply = SatAdd(@, amount)], tx)
        /\ l.poh = Anchored(v, tx)
    BY <1>4, Zenon DEF IsCharge, Books
  <2>2. l.system = Ticked([v.system EXCEPT !.total_supply = n], tx)
    BY <2>1
  <2> HIDE DEF tx, n
  <2>3. Counts([v.system EXCEPT !.total_supply = n], v.system)
    BY OperationCounts
  <2> QED BY <1>1, <2>1, <2>2, <2>3
<1>5. ASSUME NEW from, NEW to, NEW amount, NEW nonce, IsTransfer(v, l, o, from, to, amount, nonce)
      PROVE  OneMore
  <2> DEFINE tx == TransferTx(from, to, amount, nonce)
             n  == SatAdd(Ticked(v.system, tx).n_active_wallets, NewlyActiveIn(v, {from, to}))
  <2>1. l.system = [Ticked(v.system, tx) EXCEPT !.n_active_wallets = n] /\ l.poh = Anchored(v, tx)
    BY <1>5 DEF IsTransfer, Books
  <2> HIDE DEF tx, n
  <2>2. Counts(v.system, v.system)
    BY OperationCounts
  <2> QED BY <1>2, <2>1, <2>2
<1>6. ASSUME NEW from, NEW amount, NEW nonce, IsBurn(v, l, o, from, amount, nonce) PROVE OneMore
  <2> DEFINE tx == BurnTx(from, amount, nonce)
             s  == SatSub(v.system.total_supply, amount)
             m  == [v.system EXCEPT !.total_supply = SatSub(@, amount)]
             n  == SatAdd(Ticked(m, tx).n_active_wallets, NewlyActiveIn(v, {from}))
  <2>1. l.system = [Ticked(m, tx) EXCEPT !.n_active_wallets = n] /\ l.poh = Anchored(v, tx)
    BY <1>6 DEF IsBurn, Books
  <2>2. m = [v.system EXCEPT !.total_supply = s]
    OBVIOUS
  <2> HIDE DEF tx, n, m, s
  <2>3. Counts(m, v.system)
    BY <2>2, OperationCounts
  <2> QED BY <1>2, <2>1, <2>3
<1>7. ASSUME NEW p, NEW first, IsIteration(v, l, o, p, first) PROVE OneMore
  <2> DEFINE r == ExecuteIteration(v.wallets, p, v.system, first)
  <2>1. l.system = Ticked(Committed(v.system, r), r.commit) /\ l.poh = Anchored(v, r.commit)
    BY <1>7, Zenon DEF IsIteration, Books
  <2> HIDE DEF r
  <2> QED BY <1>1, <2>1, OperationCounts
<1>8. OneMore
  BY <1>3, <1>4, <1>5, <1>6, <1>7 DEF LedgerStep, Operation
<1> QED BY <1>8 DEF OneMore

\* A transaction that changes a balance is listed for its wallet.
LEMMA EffectListed ==
    ASSUME NEW tx, Recorded(tx), NEW w, EffectOn(tx, w) # 0
    PROVE  w \in WalletIds(tx)
<1>1. CASE tx.kind \in {"mint", "transfer", "burn"}
  BY <1>1 DEF EffectOn, WalletIds
<1>2. CASE tx.kind \notin {"mint", "transfer", "burn"}
  BY <1>2 DEF EffectOn, WalletIds, Recorded
<1> QED BY <1>1, <1>2

LEMMA InitIndex == NodeInit => IndexInv
<1> SUFFICES ASSUME NodeInit PROVE IndexInv
  OBVIOUS
<1>1. /\ plan = << >> /\ tx_by_wallet = {} /\ DOMAIN poh = {} /\ view.poh = poh
      /\ view.system = GenesisState
  BY DEF NodeInit, Init, EmptyTree
<1>2. SystemOK(view.system) /\ view.system.current_tick = 0
  BY <1>1 DEF SystemOK, SystemRecord, GenesisState
<1>3. IsFiniteSet(tx_by_wallet)
  BY <1>1, FS_EmptySet
<1>4. Behind(plan)
  <2>1. PICK W : W = {}
    OBVIOUS
  <2>2. << >> \in Seq(W) /\ \A w \in W : ~Anchors(w) /\ ~Indexes(w)
    BY <2>1
  <2>3. Quiet(<< >>)
    BY <2>2, Zenon DEF Quiet
  <2>4. Lists(<< >>, tx_by_wallet, 0, 0)
    BY <2>3, QuietLists
  <2> QED BY <1>1, <2>4 DEF Behind
<1>5. DOMAIN view.poh = 1..view.system.current_tick
  BY <1>1, <1>2
<1> QED BY <1>1, <1>2, <1>3, <1>4, <1>5 DEF IndexInv

\* A handler passes its checks.
LEMMA StartIndex ==
    ASSUME NodeInv, RefInv, IndexInv, failures = 0, Idle, Unlocked,
           NEW p, ListsFrom(p, system.current_tick), Start(p)
    PROVE  IndexInv' /\ Adds
<1>1. /\ plan' = p /\ view' = view /\ poh' = poh /\ tx_by_wallet' = tx_by_wallet
  BY DEF Start, storeVars
<1>2. Opens
  BY BeginsClosed
<1>3. DOMAIN poh = 1..system.current_tick
  BY <1>2, LiveFields DEF Opens, IndexInv
<1>4. Behind(p)
  BY <1>3 DEF Behind, ListsFrom
<1>5. Behind(plan)'
  BY <1>1, <1>4 DEF Behind
<1>6. \A x : Coming(x) => \E t \in DOMAIN poh : poh[t].tx = x
  <2>1. 1..Len(plan) = {}
    BY DEF Idle
  <2> QED BY <2>1 DEF Coming
<1>7. \A x : Coming(x) => Coming(x)'
  BY <1>1, <1>6 DEF Coming
<1>8. Adds
  BY <1>1, <1>7 DEF Adds
<1>9. \A e \in tx_by_wallet' : Coming(e[3])'
  BY <1>1, <1>7 DEF IndexInv
<1> QED BY <1>1, <1>5, <1>8, <1>9 DEF IndexInv

LEMMA BeginIndex ==
    ASSUME NodeInv, RefInv, IndexInv, failures = 0, Begin
    PROVE  IndexInv' /\ Adds
<1>1. SystemOK(system)
  BY DEF NodeInv
<1>2. ASSUME NEW id \in Users, NEW p \in ParameterSets, BeginCreate(id, p) PROVE IndexInv' /\ Adds
  <2>1. p.seed \in 0..MaxU64
    BY DEF Parameters
  <2>2. ListsFrom(MintPlan(id, p.seed, "wallet_seed"), system.current_tick)
    BY <1>1, <2>1, MintLists
  <2> QED BY <1>2, <2>2, StartIndex DEF BeginCreate
<1>3. ASSUME NEW id, NEW amount \in Amounts, BeginCharge(id, amount) PROVE IndexInv' /\ Adds
  <2>1. ListsFrom(ChargePlan(id, amount), system.current_tick)
    BY <1>1, ChargeLists
  <2> QED BY <1>3, <2>1, StartIndex DEF BeginCharge
<1>4. ASSUME NEW from, NEW to, NEW amount, NEW nonce, BeginTransfer(from, to, amount, nonce)
      PROVE  IndexInv' /\ Adds
  <2>1. ListsFrom(TransferPlan(from, to, amount, nonce), system.current_tick)
    BY <1>1, TransferLists
  <2> QED BY <1>4, <2>1, StartIndex DEF BeginTransfer
<1>5. ASSUME NEW from, NEW amount \in Amounts, NEW nonce, BeginBurn(from, amount, nonce)
      PROVE  IndexInv' /\ Adds
  <2>1. ListsFrom(BurnPlan(from, amount, nonce), system.current_tick)
    BY <1>1, BurnLists
  <2> QED BY <1>5, <2>1, StartIndex DEF BeginBurn
<1>6. ASSUME NEW p \in ParameterSets, NEW first \in Firsts, BeginIteration(p, first)
      PROVE  IndexInv' /\ Adds
  <2>1. Opens
    BY <1>6, BeginsClosed DEF BeginIteration
  <2>2. ListsFrom(IterationPlan(p, first), system.current_tick)
    BY <2>1, IterationLists DEF Opens
  <2> QED BY <1>6, <2>2, StartIndex DEF BeginIteration
<1>7. ASSUME NEW entries \in SeedFiles, BeginInstallSeed(entries) PROVE IndexInv' /\ Adds
  <2>1. PICK a : Begins(a)
    BY <1>7, BeginsSummary DEF BeginInstallSeed, Unlocked
  <2>2. ListsFrom(SeedPlan(entries), system.current_tick)
    BY <2>1, SeedLists
  <2> QED BY <1>7, <2>2, StartIndex DEF BeginInstallSeed
<1> QED BY <1>2, <1>3, <1>4, <1>5, <1>6, <1>7 DEF Begin

\* The next write of the running handler.
LEMMA WriteIndex ==
    ASSUME NodeInv, SystemOK(system'), RefInv, IndexInv, failures = 0, DoWrite
    PROVE  IndexInv' /\ Adds
<1>1. PICK w : w = Head(plan)
  OBVIOUS
<1>2. /\ plan # << >> /\ plan' = Tail(plan) /\ system' = w.mem
      /\ poh' = IF Anchors(w) THEN Put(poh, w.key, w.value) ELSE poh
      /\ tx_by_wallet' = IF Indexes(w)
                         THEN tx_by_wallet \cup {<<w.key, w.mem.current_tick, w.value>>}
                         ELSE tx_by_wallet
      /\ view' = view \/ (view'.system = system' /\ view'.poh = poh')
  BY <1>1 DEF DoWrite, Idle, Anchors, Indexes
<1>3. PICK n, m : DOMAIN poh \subseteq 1..n /\ Lists(plan, tx_by_wallet, n, m)
  BY DEF IndexInv, Behind
<1>4. n \in Nat /\ m \in Nat /\ \E W : plan \in Seq(W)
  BY <1>3 DEF Lists
<1> DEFINE rest == Tail(plan)
<1>5. PICK k \in Nat : /\ k = Len(plan) - 1 /\ Len(rest) = k /\ Len(plan) = k + 1 /\ w = plan[1]
                       /\ \A i \in 1..k : rest[i] = plan[i + 1]
  <2>1. PICK W : plan \in Seq(W)
    BY <1>4
  <2>2. /\ Len(plan) \in Nat \ {0} /\ Len(Tail(plan)) = Len(plan) - 1
        /\ \A i \in 1..(Len(plan) - 1) : Tail(plan)[i] = plan[i + 1]
    BY <1>2, <2>1, TailElements
  <2>3. w = plan[1]
    BY <1>1, <1>2, <2>1
  <2> QED BY <2>2, <2>3
<1>6. PICK X : X = tx_by_wallet'
  OBVIOUS
<1>7. /\ tx_by_wallet \subseteq X
      /\ Indexes(w) => Known(X, w.key, w.value)
      /\ \A e \in X : e \in tx_by_wallet \/ (Indexes(w) /\ e[3] = w.value)
      /\ IsFiniteSet(X)
  <2>1. CASE Indexes(w)
    <3>1. PICK e : e = <<w.key, w.mem.current_tick, w.value>>
      OBVIOUS
    <3>2. e[1] = w.key /\ e[3] = w.value
      BY <3>1
    <3>3. X = tx_by_wallet \cup {e}
      BY <1>2, <1>6, <2>1, <3>1
    <3>4. IsFiniteSet(X)
      BY <3>3, FS_AddElement DEF IndexInv
    <3> QED BY <2>1, <3>2, <3>3, <3>4 DEF Known
  <2>2. CASE ~Indexes(w)
    BY <1>2, <1>6, <2>2 DEF IndexInv
  <2> QED BY <2>1, <2>2
<1>8. /\ Indexes(w) => Lists(rest, X, n, m)
      /\ Indexes(w) => \E j \in 1..Len(rest) : Anchors(rest[j]) /\ rest[j].value.tx = w.value
      /\ Anchors(w) => /\ w.key \in (n + 1)..m /\ Recorded(w.value.tx)
                       /\ \A u \in WalletIds(w.value.tx) : Known(tx_by_wallet, u, w.value.tx)
                       /\ Lists(rest, tx_by_wallet, w.key, m)
      /\ ~Indexes(w) /\ ~Anchors(w) => Lists(rest, tx_by_wallet, n, m)
  <2> HIDE DEF rest
  <2>1. /\ Indexes(w) => \A Y : /\ tx_by_wallet \subseteq Y
                                /\ Known(Y, w.key, w.value)
                                => Lists(Tail(plan), Y, n, m)
        /\ Indexes(w) => \E j \in 1..Len(Tail(plan)) : /\ Anchors(Tail(plan)[j])
                                                       /\ Tail(plan)[j].value.tx = w.value
        /\ Anchors(w) => /\ w.key \in (n + 1)..m /\ Recorded(w.value.tx)
                         /\ \A u \in WalletIds(w.value.tx) : Known(tx_by_wallet, u, w.value.tx)
                         /\ Lists(Tail(plan), tx_by_wallet, w.key, m)
        /\ ~Indexes(w) /\ ~Anchors(w) => Lists(Tail(plan), tx_by_wallet, n, m)
    BY <1>1, <1>2, <1>3, ListsTail
  <2> QED BY <1>7, <2>1 DEF rest
<1> HIDE DEF rest
<1>9. Anchors(w) => ~Indexes(w)
  BY DEF Anchors, Indexes
<1>10. Anchors(w) => w.key \notin DOMAIN poh
  BY <1>3, <1>4, <1>8
<1>11. /\ \A t \in DOMAIN poh : t \in DOMAIN poh' /\ poh'[t] = poh[t]
       /\ \A t \in DOMAIN poh' : t \in DOMAIN poh \/ (Anchors(w) /\ t = w.key)
       /\ Anchors(w) => w.key \in DOMAIN poh' /\ poh'[w.key] = w.value
  <2>1. CASE Anchors(w)
    <3>1. PICK log, key1, value : log = poh /\ key1 = w.key /\ value = w.value
      OBVIOUS
    <3>2. poh' = Put(log, key1, value)
      BY <1>2, <2>1, <3>1
    <3>3. /\ DOMAIN poh' = DOMAIN log \cup {key1} /\ poh'[key1] = value
          /\ \A t \in DOMAIN log : t # key1 => poh'[t] = log[t]
      BY <3>2 DEF Put
    <3> QED BY <1>10, <2>1, <3>1, <3>3
  <2>2. CASE ~Anchors(w)
    BY <1>2, <2>2
  <2> QED BY <2>1, <2>2
<1>12. Behind(plan)'
  <2>1. CASE Anchors(w)
    <3>1. X = tx_by_wallet
      BY <1>2, <1>6, <1>9, <2>1
    <3>2. Lists(rest, X, w.key, m)
      BY <1>8, <2>1, <3>1
    <3>3. DOMAIN poh' \subseteq 1..w.key
      <4>1. w.key \in Nat /\ w.key > n
        BY <1>4, <1>8, <2>1
      <4> QED BY <1>3, <1>4, <1>11, <4>1
    <3>4. PICK k1 : k1 = w.key
      OBVIOUS
    <3> QED BY <1>2, <1>6, <3>2, <3>3, <3>4 DEF Behind, rest
  <2>2. CASE ~Anchors(w)
    <3>1. Lists(rest, X, n, m)
      BY <1>2, <1>6, <1>8, <2>2
    <3> QED BY <1>2, <1>3, <1>6, <2>2, <3>1 DEF Behind, rest
  <2> QED BY <2>1, <2>2
<1>13. \A x : Coming(x) => Coming(x)'
  <2> SUFFICES ASSUME NEW x, Coming(x) PROVE Coming(x)'
    OBVIOUS
  <2>1. CASE \E t \in DOMAIN poh : poh[t].tx = x
    BY <1>11, <2>1 DEF Coming
  <2>2. ASSUME NEW j \in 1..Len(plan), Anchors(plan[j]), plan[j].value.tx = x
        PROVE  Coming(x)'
    <3>1. CASE j = 1
      <4>1. Anchors(w) /\ w.value.tx = x
        BY <1>5, <2>2, <3>1
      <4>2. w.key \in DOMAIN poh' /\ poh'[w.key].tx = x
        BY <1>11, <4>1
      <4> QED BY <4>2 DEF Coming
    <3>2. CASE j # 1
      <4>1. PICK i : i = j - 1
        OBVIOUS
      <4>2. i \in 1..k /\ i + 1 = j
        BY <1>5, <3>2, <4>1
      <4>3. i \in 1..Len(rest) /\ Anchors(rest[i]) /\ rest[i].value.tx = x
        BY <1>5, <2>2, <4>2
      <4>4. plan' = rest
        BY <1>2 DEF rest
      <4> QED BY <4>3, <4>4 DEF Coming
    <3> QED BY <3>1, <3>2
  <2> QED BY <2>1, <2>2 DEF Coming
<1>14. \A e \in tx_by_wallet' : Coming(e[3])'
  <2> SUFFICES ASSUME NEW e \in X PROVE Coming(e[3])'
    BY <1>6
  <2>1. CASE e \in tx_by_wallet
    BY <1>13, <2>1 DEF IndexInv
  <2>2. CASE Indexes(w) /\ e[3] = w.value
    <3>1. PICK j \in 1..Len(rest) : Anchors(rest[j]) /\ rest[j].value.tx = w.value
      BY <1>8, <2>2
    <3>2. plan' = rest
      BY <1>2 DEF rest
    <3> QED BY <2>2, <3>1, <3>2 DEF Coming
  <2> QED BY <1>7, <2>1, <2>2
<1>15. ASSUME NEW t \in DOMAIN poh'
       PROVE  /\ Recorded(poh'[t].tx)
              /\ \A u \in WalletIds(poh'[t].tx) : Known(X, u, poh'[t].tx)
  <2>1. \A u, x : Known(tx_by_wallet, u, x) => Known(X, u, x)
    BY <1>7 DEF Known
  <2>2. CASE t \in DOMAIN poh
    BY <1>11, <2>1, <2>2 DEF IndexInv
  <2>3. CASE Anchors(w) /\ t = w.key
    BY <1>8, <1>11, <2>1, <2>3
  <2> QED BY <1>11, <2>2, <2>3
<1>16. /\ SystemOK(view'.system)
       /\ DOMAIN view'.poh = 1..view'.system.current_tick
       /\ DOMAIN view'.poh \subseteq DOMAIN poh'
  <2>1. CASE view' = view
    BY <1>11, <2>1 DEF IndexInv
  <2>2. CASE view' # view
    <3>1. view'.system = system' /\ view'.poh = poh'
      BY <1>2, <2>2
    <3>2. PICK o : LedgerStep(view, view', o)
      BY <2>2, WriteFollows
    <3>3. SystemOK(view.system) /\ DOMAIN view.poh = 1..view.system.current_tick
      BY DEF IndexInv
    <3>4. PICK v, l : v = view /\ l = view'
      OBVIOUS
    <3>5. SystemOK(v.system) /\ LedgerStep(v, l, o)
      BY <3>2, <3>3, <3>4
    <3>6. /\ \E tx : l.poh = Anchored(v, tx)
          /\ l.system.current_tick = v.system.current_tick + 1
      BY <3>5, OperationAppends
    <3>7. DOMAIN l.poh = DOMAIN v.poh \cup {v.system.current_tick + 1}
      <4>1. PICK tx : l.poh = Anchored(v, tx)
        BY <3>6
      <4>2. PICK log, next, value : /\ log = v.poh /\ next = v.system.current_tick + 1
                                    /\ value = NextEntry(v.system, tx)
        OBVIOUS
      <4>3. l.poh = Put(log, next, value)
        BY <4>1, <4>2 DEF Anchored
      <4>4. DOMAIN l.poh = DOMAIN log \cup {next}
        BY <4>3 DEF Put
      <4> QED BY <4>2, <4>4
    <3>8. v.system.current_tick \in Nat
      BY <3>5, SystemFields
    <3>9. DOMAIN l.poh = 1..l.system.current_tick
      BY <3>3, <3>4, <3>6, <3>7, <3>8
    <3> QED BY <3>1, <3>4, <3>9
  <2> QED BY <2>1, <2>2
<1>17. IndexInv'
  <2>1. SystemOK(view.system)'
    BY <1>16 DEF SystemOK, SystemRecord
  <2>2. \A t \in DOMAIN poh' : /\ Recorded(poh'[t].tx)
                               /\ \A u \in WalletIds(poh'[t].tx) : Known(tx_by_wallet', u, poh'[t].tx)
    BY <1>6, <1>15
  <2>3. IsFiniteSet(tx_by_wallet')
    BY <1>6, <1>7
  <2> QED BY <1>12, <1>14, <1>16, <2>1, <2>2, <2>3 DEF IndexInv
<1> QED BY <1>11, <1>13, <1>17 DEF Adds

LEMMA NextIndex ==
    ASSUME MaxCrashes = 0, MaxFailures = 0, NodeInv, NodeInv', RefInv, IndexInv,
           [NodeNext]_nodeVars
    PROVE  IndexInv' /\ Adds
<1>1. failures = 0 /\ crashes = 0
  BY DEF RefInv
<1>2. SystemOK(system')
  BY DEF NodeInv
<1>3. CASE Begin
  BY <1>1, <1>3, BeginIndex
<1>4. CASE DoWrite
  BY <1>1, <1>2, <1>4, WriteIndex
<1>5. ~FailWrite /\ ~CrashAndOpen /\ ~BackgroundFlush
  BY <1>1 DEF FailWrite, CrashAndOpen, BackgroundFlush
<1>6. CASE UNCHANGED nodeVars
  <2>1. /\ plan' = plan /\ poh' = poh /\ tx_by_wallet' = tx_by_wallet /\ view' = view
    BY <1>6 DEF nodeVars, storeVars
  <2>2. \A x : Coming(x)' = Coming(x)
    BY <2>1 DEF Coming
  <2>3. Behind(plan)'
    BY <2>1 DEF Behind, IndexInv
  <2> QED BY <2>1, <2>2, <2>3 DEF IndexInv, Adds
<1> QED BY <1>3, <1>4, <1>5, <1>6 DEF NodeNext

-----------------------------------------------------------------------------
(* What the reader holds.                                                  *)

\* An answer that is a list of transactions of the wallet: each is anchored or about to be, and
\* none that counts was left out of a list that is not full.
AnswerInv ==
    /\ endpoint = "transaction" => data # NotFound
    /\ endpoint = "transactions" =>
          /\ 1..since \subseteq DOMAIN poh
          /\ \A x \in data[1] : Coming(x)
          /\ \/ \A t \in 1..since : EffectOn(poh[t].tx, key) # 0 => poh[t].tx \in data[1]
             \/ Cardinality(data[1]) = HistoryLimit

LEMMA InitAnswer == ReadsInit => AnswerInv
BY DEF ReadsInit, NoRead, AnswerInv

\* The writers do not touch the answer, and take nothing from what it rests on.
LEMMA WriterKeepsAnswer ==
    ASSUME AnswerInv, Adds, UNCHANGED read
    PROVE  AnswerInv'
<1>1. endpoint' = endpoint /\ key' = key /\ data' = data /\ since' = since
  BY DEF read
<1>2. ASSUME endpoint = "transactions"
      PROVE  /\ 1..since \subseteq DOMAIN poh'
             /\ \A x \in data[1] : Coming(x)'
             /\ \A t \in 1..since : poh'[t] = poh[t]
  BY <1>2 DEF AnswerInv, Adds
<1> QED BY <1>1, <1>2 DEF AnswerInv

\* The list as it is taken.
LEMMA ListingIsComplete ==
    ASSUME NodeInv, IndexInv, NEW id, NEW txs \in Listings(id)
    PROVE  /\ 1..view.system.current_tick \subseteq DOMAIN poh
           /\ \A x \in txs : Coming(x)
           /\ \/ \A t \in 1..view.system.current_tick :
                    EffectOn(poh[t].tx, id) # 0 => poh[t].tx \in txs
              \/ Cardinality(txs) = HistoryLimit
<1>1. PICK I : I = Indexed(id)
  OBVIOUS
<1>2. \A x \in I : \E e \in tx_by_wallet : e[1] = id /\ e[3] = x
  BY <1>1 DEF Indexed
<1>3. \A e \in tx_by_wallet : e[1] = id => e[3] \in I
  BY <1>1 DEF Indexed
<1>4. I \subseteq DOMAIN transactions
  <2>1. \A e \in tx_by_wallet : e[3] \in DOMAIN transactions
    BY DEF NodeInv, StoreInv, Store
  <2> QED BY <1>2, <2>1
<1>5. IsFiniteSet(I)
  <2>1. PICK F : F = {f \in tx_by_wallet : f[1] = id}
    OBVIOUS
  <2>2. IsFiniteSet(F)
    BY <2>1, FS_Subset DEF IndexInv
  <2>3. I = {e[3] : e \in F}
    BY <1>1, <2>1 DEF Indexed
  <2>4. PICK third : third = [f \in F |-> f[3]]
    OBVIOUS
  <2>5. third \in Surjection(F, I)
    BY <2>3, <2>4 DEF Surjection
  <2> QED BY <2>2, <2>5, FS_Surjection
<1>6. PICK cut : cut = SmallerOf(Cardinality(I), HistoryLimit)
  OBVIOUS
<1>7. PICK s : s \subseteq I /\ Cardinality(s) = cut /\ txs = s \cap DOMAIN transactions
  BY <1>1, <1>6 DEF Listings, kSubset
<1>8. txs = s
  BY <1>4, <1>7
<1>9. \A x \in txs : Coming(x)
  BY <1>2, <1>7, <1>8 DEF IndexInv
<1>10. 1..view.system.current_tick \subseteq DOMAIN poh
  BY DEF IndexInv
<1>11. Cardinality(I) \in Nat
  BY <1>5, FS_CardinalityType
<1>12. CASE cut = HistoryLimit
  BY <1>7, <1>8, <1>9, <1>10, <1>12
<1>13. CASE cut = Cardinality(I)
  <2>1. s = I
    BY <1>5, <1>7, <1>13, FS_Subset
  <2>2. ASSUME NEW t \in DOMAIN poh, EffectOn(poh[t].tx, id) # 0 PROVE poh[t].tx \in txs
    <3>1. Recorded(poh[t].tx) /\ \A u \in WalletIds(poh[t].tx) : Known(tx_by_wallet, u, poh[t].tx)
      BY DEF IndexInv
    <3>2. id \in WalletIds(poh[t].tx)
      BY <2>2, <3>1, EffectListed
    <3>3. PICK e \in tx_by_wallet : e[1] = id /\ e[3] = poh[t].tx
      BY <3>1, <3>2 DEF Known
    <3> QED BY <1>3, <1>8, <2>1, <3>3
  <2> QED BY <1>9, <1>10, <2>2
<1> QED BY <1>6, <1>12, <1>13 DEF SmallerOf

LEMMA ReaderKeepsAnswer ==
    ASSUME NodeInv, IndexInv, AnswerInv, Serve
    PROVE  AnswerInv'
<1>1. ASSUME NEW id, WalletTransactions(id) PROVE AnswerInv'
  <2>1. PICK txs \in Listings(id) : Arrive("transactions", id, Found(txs))
    BY <1>1 DEF WalletTransactions
  <2>2. /\ endpoint' = "transactions" /\ key' = id /\ data' = <<txs>>
        /\ since' = view.system.current_tick /\ poh' = poh /\ plan' = plan
    BY <2>1 DEF Arrive, Found, nodeVars, storeVars
  <2>3. data'[1] = txs
    BY <2>2
  <2>4. \A x : Coming(x)' = Coming(x)
    BY <2>2 DEF Coming
  <2>5. /\ 1..view.system.current_tick \subseteq DOMAIN poh
        /\ \A x \in txs : Coming(x)
        /\ \/ \A t \in 1..view.system.current_tick :
                 EffectOn(poh[t].tx, id) # 0 => poh[t].tx \in txs
           \/ Cardinality(txs) = HistoryLimit
    BY ListingIsComplete
  <2> QED BY <2>2, <2>3, <2>4, <2>5 DEF AnswerInv
<1>2. ASSUME NEW t \in DOMAIN poh, GetTransaction(poh[t].tx) PROVE AnswerInv'
  <2>1. poh[t].tx \in DOMAIN transactions
    BY DEF NodeInv, StoreInv, Store
  <2>2. endpoint' = "transaction" /\ data' = <<poh[t].tx>>
    BY <1>2, <2>1 DEF GetTransaction, Arrive, Found
  <2>3. data' # << >>
    BY <2>2
  <2> QED BY <2>2, <2>3 DEF AnswerInv, NotFound
<1>3. endpoint' \notin {"transaction", "transactions"} => AnswerInv'
  BY DEF AnswerInv
<1>4. ASSUME NEW id, GetWallet(id) PROVE AnswerInv'
  BY <1>3, <1>4 DEF GetWallet, Arrive
<1>5. ASSUME NEW id, GetIteration(id) PROVE AnswerInv'
  BY <1>3, <1>5 DEF GetIteration, Arrive
<1>6. CASE ReadCurrent \/ GetCurrentIteration \/ IterationHistory \/ Stats \/ Respond
  BY <1>3, <1>6 DEF ReadCurrent, GetCurrentIteration, IterationHistory, Stats, Respond, Arrive
<1> QED BY <1>1, <1>2, <1>4, <1>5, <1>6 DEF Serve

\* When the response goes out everything is anchored, under the ticks that the envelope covers.
LEMMA ResponseShowsAccepted ==
    ASSUME RefInv, IndexInv, AnswerInv, failures = 0, Respond
    PROVE  /\ Sent("transaction") => data # NotFound
           /\ Sent("transactions") =>
                 /\ \/ \A t \in 1..since : EffectOn(poh[t].tx, key) # 0 => poh[t].tx \in data[1]
                    \/ Cardinality(data[1]) = HistoryLimit
                 /\ data[1] \subseteq {poh[t].tx : t \in 1..system.current_tick}
<1>1. plan = << >>
  BY DEF Respond, Readable, Idle
<1>2. DOMAIN poh = 1..system.current_tick
  <2>1. PICK b : Trace(Pair(Live, view), << >>, b) /\ Rests(b)
    BY <1>1 DEF RefInv, Implements
  <2>2. b = Pair(Live, view)
    BY <2>1, EmptyTrace
  <2>3. b.live = Live /\ b.view = view
    BY <2>2, PairFields
  <2>4. view.poh = poh /\ view.system.current_tick = system.current_tick
    <3>1. CASE view = Live
      BY <3>1, LiveFields
    <3>2. CASE OnlyLocked(Live, view)
      <4>1. view = Books(wallets, [system EXCEPT !.iteration_lock = FALSE], poh, iterations)
        BY <3>2, LiveFields DEF OnlyLocked
      <4>2. view.poh = poh /\ view.system = [system EXCEPT !.iteration_lock = FALSE]
        BY <4>1 DEF Books
      <4>3. "current_tick" \in DOMAIN view.system
        BY DEF IndexInv, SystemOK, SystemRecord
      <4> QED BY <4>2, <4>3
    <3> QED BY <2>1, <2>3, <3>1, <3>2 DEF Rests
  <2> QED BY <2>4 DEF IndexInv
<1>3. \A x : Coming(x) => \E t \in DOMAIN poh : poh[t].tx = x
  <2>1. 1..Len(plan) = {}
    BY <1>1
  <2> QED BY <2>1 DEF Coming
<1> QED BY <1>2, <1>3 DEF AnswerInv, Sent

\* What a reader is shown of the history of a wallet is what was accepted: the inductive
\* invariant relates the index, the chain and the writes to come.
THEOREM HistoryIsComplete ==
    ASSUME MaxCrashes = 0, MaxFailures = 0
    PROVE  ReadsSpec => HistoryShowsAccepted
<1> DEFINE I == NodeInv /\ RefInv /\ IndexInv /\ AnswerInv
<1>1. ReadsInit => I
  BY InitNodeInv, InitRefInv, InitIndex, InitAnswer DEF ReadsInit
<1>2. ASSUME I, [ReadsNext]_readVars PROVE I'
  <2>1. CASE NodeNext /\ UNCHANGED read
    <3>1. NodeInv' /\ RefInv'
      BY <1>2, <2>1, NextNodeInv, NextRefInv
    <3>2. IndexInv' /\ Adds
      BY <1>2, <2>1, <3>1, NextIndex
    <3> QED BY <1>2, <2>1, <3>1, <3>2, WriterKeepsAnswer
  <2>2. CASE Serve \/ UNCHANGED readVars
    <3>1. UNCHANGED nodeVars
      BY <2>2 DEF readVars, Serve, GetWallet, WalletTransactions, GetTransaction, GetIteration,
                  ReadCurrent, GetCurrentIteration, IterationHistory, Stats, Respond, Arrive
    <3>2. NodeInv' /\ RefInv'
      BY <1>2, <3>1, NextNodeInv, NextRefInv
    <3>3. IndexInv' /\ Adds
      BY <1>2, <3>1, <3>2, NextIndex
    <3>4. CASE Serve
      BY <1>2, <3>2, <3>3, <3>4, ReaderKeepsAnswer
    <3>5. CASE UNCHANGED readVars
      BY <1>2, <3>2, <3>3, <3>5, WriterKeepsAnswer DEF readVars
    <3> QED BY <2>2, <3>4, <3>5
  <2> QED BY <1>2, <2>1, <2>2 DEF ReadsNext
<1>3. ASSUME I, [ReadsNext]_readVars
      PROVE  [/\ Sent("transaction") => data # NotFound
              /\ Sent("transactions") =>
                    LET listed == data[1]
                    IN  /\ \/ \A t \in 1..since :
                                 EffectOn(poh[t].tx, key) # 0 => poh[t].tx \in listed
                           \/ Cardinality(listed) = HistoryLimit
                        /\ listed \subseteq {poh[t].tx : t \in 1..system.current_tick}]_readVars
  <2>1. CASE Respond
    <3>1. failures = 0
      BY <1>3 DEF RefInv
    <3> QED BY <1>3, <2>1, <3>1, ResponseShowsAccepted
  <2>2. CASE ~Respond
    <3>1. UNCHANGED readVars \/ ~(Sent("transaction") \/ Sent("transactions"))
      BY <1>3, <2>2 DEF ReadsNext, read, Sent, Serve, GetWallet, WalletTransactions,
                        GetTransaction, GetIteration, ReadCurrent, GetCurrentIteration,
                        IterationHistory, Stats, Arrive
    <3> QED BY <3>1
  <2> QED BY <2>1, <2>2
<1> HIDE DEF I
<1> QED BY <1>1, <1>2, <1>3, PTL DEF ReadsSpec, HistoryShowsAccepted

=============================================================================
