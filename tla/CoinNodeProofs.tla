--------------------------- MODULE CoinNodeProofs ---------------------------
(***************************************************************************)
(* Proofs about CoinNode, for any users, seed files, parameters and        *)
(* bounds: what is true of the store at every moment, whatever crashes,    *)
(* storage errors and panics cut short, and what an error alone can break. *)
(*                                                                         *)
(* A handler is a sequence of writes.  Each write is taken as a step from  *)
(* one summary of the store to the next (Links), under a condition that    *)
(* makes it safe to stop before it and after it; the plan of a handler is  *)
(* a path of such steps (Path).  That the plans are paths is proved from   *)
(* the code of the handlers alone, that the steps of a path keep the store *)
(* in order from the meaning of a write alone.                             *)
(*                                                                         *)
(* The refinement of Ledger goes the same way: a write takes the live      *)
(* books and the committed ones one step further (Follows), and a plan is  *)
(* a trace of such steps with one step of the ledger in it, or, for a seed *)
(* file, one for every entry (Trace, Implements).                          *)
(*                                                                         *)
(* What an iteration does to the books is read off what is left of its     *)
(* plan: the writes that replace every wallet, and then those that count   *)
(* the wallets replaced (Rewrites, Closes).                                *)
(***************************************************************************)
EXTENDS CoinNode, LedgerProofs, SequenceTheorems

USE MaxU64Assumption, ScaleAssumption, LogStepsAssumption
USE UsersAssumption, ParametersAssumption, AmountsAssumption, MaxTickAssumption
USE BadKeyAssumption, NodeBoundAssumption

(***************************************************************************)
(* The strengthening.                                                      *)
(***************************************************************************)
WalletsOK(ws) ==
    /\ DOMAIN ws \subseteq WalletId
    /\ IsFiniteSet(DOMAIN ws)
    /\ ws \in [DOMAIN ws -> WalletRecord(WalletId)]

SystemOK(sys) == sys \in SystemRecord({sys.last_poh_hash})

\* The hash that the entry of tick t of a log has to link to.
Before(log, t) == IF t = 1 THEN ZERO_HASH ELSE log[t - 1].hash

\* A log is complete and verifies up to a tick, and the hash is its head there.
ChainTo(log, tick, hash) ==
    /\ \A t \in 1..tick : /\ t \in DOMAIN log
                          /\ log[t].tick = t
                          /\ VerifyChain(Before(log, t), log[t])
    /\ hash = Before(log, tick + 1)

\* What is true of a store: its references resolve, half an iteration is fenced off, and as long
\* as no write has failed (ok), its state counts a chain and iterations that are there.
StoreInv(s, ok) ==
    /\ WalletsOK(s.wallets)
    /\ SystemOK(s.stored)
    /\ \A t \in DOMAIN s.poh : s.poh[t].tx \in DOMAIN s.transactions
    /\ \A e \in s.tx_by_wallet : e[3] \in DOMAIN s.transactions
    /\ \/ s.stored.iteration_lock
       \/ \A w \in DOMAIN s.wallets :
             s.wallets[w].last_active_iteration <= s.stored.current_iteration
    /\ ok => /\ ChainTo(s.poh, s.stored.current_tick, s.stored.last_poh_hash)
             /\ 1..s.stored.current_iteration \subseteq DOMAIN s.iterations

(***************************************************************************)
(* A summary of the store: the head of the chain that the running handler  *)
(* builds on, the iterations that are filed, the transactions it has       *)
(* written, the iterations that wallets were last active in, and the       *)
(* iteration lock and counter of the stored state.                         *)
(***************************************************************************)
IsSummary(a) ==
    a \in [tick : Nat, hash : {a.hash}, filed : Nat, txs : {a.txs}, active : SUBSET Nat,
           lock : BOOLEAN, counted : Nat]

\* Half an iteration is fenced off by the stored lock ...
Fenced(a) == a.lock \/ \A n \in a.active : n <= a.counted

\* ... and a node that goes on with the memory m takes it for no more than it is.
Resumable(a, m) ==
    ~m.iteration_lock => /\ \A n \in a.active : n <= m.current_iteration
                         /\ a.lock \/ m.current_iteration <= a.counted

\* The memory m counts the chain and the iterations of the store.
Agrees(a, m) ==
    a.tick = m.current_tick /\ a.hash = m.last_poh_hash /\ a.filed = m.current_iteration

Describes(a, s, ok) ==
    /\ IsSummary(a)
    /\ Fenced(a)
    /\ a.txs \subseteq DOMAIN s.transactions
    /\ \A w \in DOMAIN s.wallets : s.wallets[w].last_active_iteration \in a.active
    /\ a.lock = s.stored.iteration_lock /\ a.counted = s.stored.current_iteration
    /\ ok => /\ ChainTo(s.poh, a.tick, a.hash)
             /\ s.stored.current_tick <= a.tick
             /\ 1..a.filed \subseteq DOMAIN s.iterations

(***************************************************************************)
(* A write in order.                                                       *)
(***************************************************************************)
Trees == {"wallets", "transactions", "tx_by_wallet", "poh", "iterations", "state", "flush"}

WriteOK(w) ==
    /\ w = [tree |-> w.tree, key |-> w.key, value |-> w.value, mem |-> w.mem,
            commits |-> w.commits, overflows |-> w.overflows]
    /\ w.tree \in Trees
    /\ SystemOK(w.mem)
    /\ w.tree = "wallets" => w.key \in WalletId /\ w.value \in WalletRecord(WalletId)
    /\ w.tree = "state" => w.value = w.mem

Links(a, w, b) ==
    /\ WriteOK(w)
    /\ Fenced(b) /\ Resumable(a, w.mem) /\ Resumable(b, w.mem)
    /\ CASE w.tree = "wallets" ->
              /\ w.value.last_active_iteration \in b.active
              /\ a.active \subseteq b.active /\ b.active \subseteq Nat
              /\ b = [a EXCEPT !.active = b.active]
         [] w.tree = "transactions" -> b = [a EXCEPT !.txs = @ \cup {w.key}]
         [] w.tree = "tx_by_wallet" -> w.value \in a.txs /\ b = a
         [] w.tree = "poh" ->
              /\ w.key = a.tick + 1
              /\ w.value = BuildEntry(a.tick + 1, a.hash, w.value.tx)
              /\ w.value.tx \in a.txs
              /\ b = [a EXCEPT !.tick = @ + 1, !.hash = w.value.hash]
         [] w.tree = "iterations" -> w.key = a.filed + 1 /\ b = [a EXCEPT !.filed = @ + 1]
         [] w.tree = "state" ->
              /\ Agrees(a, w.mem)
              /\ b = [a EXCEPT !.lock = w.mem.iteration_lock, !.counted = w.mem.current_iteration]
         [] w.tree = "flush" -> b = a

\* The writes p lead from one summary to another.
Path(a, p, b) ==
    /\ \E S : p \in Seq(S)
    /\ \E f : /\ f[0] = a /\ f[Len(p)] = b
              /\ \A i \in 1..Len(p) : Links(f[i - 1], p[i], f[i])

NoFailure == failures = 0

\* What a store may be abandoned with: some summary describes it, and a node that goes on with
\* the memory m takes it for no more than it is.
Settled(s, m, ok) ==
    \E a : /\ Describes(a, s, ok)
           /\ Resumable(a, m)
           /\ ok => Agrees(a, m)

\* What is left of a plan: a path from what the store is to what the memory will agree with.
Underway(s, p, ok) ==
    \E a, b : /\ Describes(a, s, ok)
              /\ Path(a, p, b)
              /\ Agrees(b, p[Len(p)].mem)

NodeInv ==
    /\ failures \in Nat
    /\ SystemOK(system)
    /\ StoreInv(Store, NoFailure)
    /\ StoreInv(durable, NoFailure)
    /\ IF Idle THEN Settled(Store, system, NoFailure) ELSE Underway(Store, plan, NoFailure)

-----------------------------------------------------------------------------
(* Paths.                                                                  *)

\* A sequence of writes that does not change the summary.
LEMMA PathSame ==
    ASSUME NEW a, NEW S, NEW p \in Seq(S), \A i \in 1..Len(p) : Links(a, p[i], a)
    PROVE  Path(a, p, a)
<1> DEFINE f == [i \in 0..Len(p) |-> a]
<1>1. /\ f[0] = a /\ f[Len(p)] = a
      /\ \A i \in 1..Len(p) : f[i - 1] = a /\ f[i] = a
  OBVIOUS
<1> HIDE DEF f
<1> QED BY <1>1 DEF Path

LEMMA PathEmpty == ASSUME NEW a PROVE Path(a, << >>, a)
<1>1. << >> \in Seq({}) /\ \A i \in 1..Len(<< >>) : Links(a, << >>[i], a)
  OBVIOUS
<1> QED BY <1>1, PathSame

LEMMA PathOne ==
    ASSUME NEW a, NEW b, NEW w, Links(a, w, b)
    PROVE  Path(a, <<w>>, b)
<1> DEFINE f == [i \in 0..1 |-> IF i = 0 THEN a ELSE b]
<1>1. /\ <<w>> \in Seq({w}) /\ Len(<<w>>) = 1 /\ <<w>>[1] = w
      /\ f[0] = a /\ f[1] = b
  OBVIOUS
<1> HIDE DEF f
<1>2. \A i \in 1..1 : i = 1
  OBVIOUS
<1>3. Links(f[1 - 1], <<w>>[1], f[1])
  BY <1>1
<1> QED BY <1>1, <1>2, <1>3 DEF Path

LEMMA PathConcat ==
    ASSUME NEW a, NEW b, NEW c, NEW p, NEW q, Path(a, p, b), Path(b, q, c)
    PROVE  Path(a, p \o q, c)
<1>1. PICK S, T : p \in Seq(S) /\ q \in Seq(T)
  BY DEF Path
<1>2. PICK f : /\ f[0] = a /\ f[Len(p)] = b
               /\ \A i \in 1..Len(p) : Links(f[i - 1], p[i], f[i])
  BY DEF Path
<1>3. PICK g : /\ g[0] = b /\ g[Len(q)] = c
               /\ \A i \in 1..Len(q) : Links(g[i - 1], q[i], g[i])
  BY DEF Path
<1> DEFINE m == Len(p)
           n == Len(q)
           r == p \o q
           h == [i \in 0..(m + n) |-> IF i <= m THEN f[i] ELSE g[i - m]]
<1>4. m \in Nat /\ n \in Nat
  BY <1>1
<1>5. /\ r \in Seq(S \cup T) /\ Len(r) = m + n
      /\ \A i \in 1..m : r[i] = p[i]
      /\ \A i \in (m + 1)..(m + n) : r[i] = q[i - m]
  <2>1. p \in Seq(S \cup T) /\ q \in Seq(S \cup T)
    BY <1>1
  <2> QED BY <2>1
<1> HIDE DEF r
<1>6. /\ \A i \in 0..m : h[i] = f[i]
      /\ \A i \in m..(m + n) : h[i] = g[i - m]
  <2>1. \A i \in 0..m : h[i] = f[i]
    BY <1>4
  <2> SUFFICES ASSUME NEW i \in m..(m + n) PROVE h[i] = g[i - m]
    BY <2>1
  <2>2. CASE i = m
    BY <1>2, <1>3, <1>4, <2>1, <2>2
  <2>3. CASE i # m
    BY <1>4, <2>3
  <2> QED BY <2>2, <2>3
<1> HIDE DEF h, m, n
<1>7. h[0] = a /\ h[m + n] = c
  <2>1. 0 \in 0..m /\ m + n \in m..(m + n) /\ (m + n) - m = n
    BY <1>4
  <2> QED BY <1>2, <1>3, <1>6, <2>1 DEF n
<1>8. ASSUME NEW i \in 1..(m + n) PROVE Links(h[i - 1], r[i], h[i])
  <2>1. CASE i <= m
    <3>1. i \in 1..m /\ i \in 0..m /\ i - 1 \in 0..m
      BY <1>4, <2>1
    <3> QED BY <1>2, <1>5, <1>6, <3>1 DEF m
  <2>2. CASE i > m
    <3>1. /\ i \in (m + 1)..(m + n) /\ i \in m..(m + n) /\ i - 1 \in m..(m + n)
          /\ i - m \in 1..n /\ (i - 1) - m = (i - m) - 1
      BY <1>4, <2>2
    <3>2. Links(g[(i - m) - 1], q[i - m], g[i - m])
      BY <1>3, <3>1 DEF n
    <3> QED BY <1>5, <1>6, <3>1, <3>2
  <2> QED BY <1>4, <2>1, <2>2
<1> QED BY <1>5, <1>7, <1>8 DEF Path, r

\* The first write of a path, and the rest.
LEMMA PathHead ==
    ASSUME NEW a, NEW b, NEW p, p # << >>, Path(a, p, b)
    PROVE  \E c : Links(a, Head(p), c) /\ Path(c, Tail(p), b)
<1>1. PICK S : p \in Seq(S)
  BY DEF Path
<1>2. PICK f : /\ f[0] = a /\ f[Len(p)] = b
               /\ \A i \in 1..Len(p) : Links(f[i - 1], p[i], f[i])
  BY DEF Path
<1> DEFINE n == Len(p)
           q == Tail(p)
           g == [i \in 0..(n - 1) |-> f[i + 1]]
<1>3. n \in Nat \ {0} /\ Head(p) = p[1]
  BY <1>1
<1>4. q \in Seq(S) /\ Len(q) = n - 1 /\ \A i \in 1..(n - 1) : q[i] = p[i + 1]
  BY <1>1
<1>5. Links(a, Head(p), f[1])
  <2>1. 1 \in 1..Len(p) /\ 1 - 1 = 0
    BY <1>3
  <2>2. Links(f[1 - 1], p[1], f[1])
    BY <1>2, <2>1
  <2> QED BY <1>2, <1>3, <2>1, <2>2
<1>6. g[0] = f[1] /\ g[n - 1] = b /\ \A i \in 0..(n - 1) : g[i] = f[i + 1]
  BY <1>2, <1>3
<1> HIDE DEF g
<1>7. ASSUME NEW i \in 1..(n - 1) PROVE Links(g[i - 1], q[i], g[i])
  <2>1. /\ i + 1 \in 1..Len(p) /\ (i + 1) - 1 = (i - 1) + 1
        /\ i \in 0..(n - 1) /\ i - 1 \in 0..(n - 1)
    BY <1>3
  <2>2. Links(f[(i + 1) - 1], p[i + 1], f[i + 1])
    BY <1>2, <2>1
  <2> QED BY <1>4, <1>6, <2>1, <2>2
<1> HIDE DEF q, n
<1>8. Path(f[1], q, b)
  BY <1>4, <1>6, <1>7 DEF Path
<1> QED BY <1>5, <1>8 DEF q

-----------------------------------------------------------------------------
(* A write keeps the store in order.                                       *)

\* DoWrite, for the trees and the stored state.
Writes(s, w, t) ==
    /\ t.wallets = IF w.tree = "wallets" THEN Put(s.wallets, w.key, w.value) ELSE s.wallets
    /\ t.poh = IF w.tree = "poh" THEN Put(s.poh, w.key, w.value) ELSE s.poh
    /\ t.iterations = IF w.tree = "iterations" THEN Put(s.iterations, w.key, w.value)
                      ELSE s.iterations
    /\ t.stored = IF w.tree = "state" THEN w.value ELSE s.stored
    /\ t.transactions = IF w.tree = "transactions" THEN Put(s.transactions, w.key, w.value)
                        ELSE s.transactions
    /\ t.tx_by_wallet = IF w.tree = "tx_by_wallet"
                        THEN s.tx_by_wallet \cup {<<w.key, w.mem.current_tick, w.value>>}
                        ELSE s.tx_by_wallet

LEMMA PutFacts ==
    ASSUME NEW tree, NEW key, NEW value
    PROVE  /\ DOMAIN Put(tree, key, value) = DOMAIN tree \cup {key}
           /\ Put(tree, key, value)[key] = value
           /\ \A k \in DOMAIN tree : k # key => Put(tree, key, value)[k] = tree[k]
BY DEF Put

\* The entry that follows the head extends the chain; what it replaces was not in the chain.
LEMMA EntryExtendsChain ==
    ASSUME NEW log, NEW tick \in Nat, NEW hash, NEW tx, ChainTo(log, tick, hash),
           NEW new, new = Put(log, tick + 1, BuildEntry(tick + 1, hash, tx))
    PROVE  /\ ChainTo(new, tick + 1, PohHash(hash, tick + 1, tx))
           /\ \A k \in 0..tick : \A h : ChainTo(log, k, h) => ChainTo(new, k, h)
<1> DEFINE e == BuildEntry(tick + 1, hash, tx)
<1>1. /\ DOMAIN new = DOMAIN log \cup {tick + 1} /\ new[tick + 1] = e
      /\ \A k \in DOMAIN log : k # tick + 1 => new[k] = log[k]
  <2> HIDE DEF e
  <2>1. new = Put(log, tick + 1, e)
    BY DEF e
  <2> QED BY <2>1 DEF Put
<1>2. /\ e.tick = tick + 1 /\ e.prev_hash = hash /\ e.tx = tx
      /\ e.hash = PohHash(hash, tick + 1, tx)
  BY DEF BuildEntry
<1> HIDE DEF e
<1>3. \A t \in 1..tick : t \in DOMAIN log /\ new[t] = log[t] /\ t \in DOMAIN new
  BY <1>1 DEF ChainTo
<1>4. \A t \in 1..(tick + 1) : Before(new, t) = Before(log, t)
  <2> TAKE t \in 1..(tick + 1)
  <2>1. CASE t = 1
    BY <2>1 DEF Before
  <2>2. CASE t # 1
    <3>1. t - 1 \in 1..tick
      BY <2>2
    <3> QED BY <1>3, <2>2, <3>1 DEF Before
  <2> QED BY <2>1, <2>2
<1>5. \A k \in 0..tick : \A h : ChainTo(log, k, h) => ChainTo(new, k, h)
  <2> SUFFICES ASSUME NEW k \in 0..tick, NEW h, ChainTo(log, k, h) PROVE ChainTo(new, k, h)
    OBVIOUS
  <2>1. \A t \in 1..k : t \in 1..tick /\ t \in 1..(tick + 1)
    OBVIOUS
  <2>2. k + 1 \in 1..(tick + 1)
    OBVIOUS
  <2> QED BY <1>3, <1>4, <2>1, <2>2 DEF ChainTo
<1>6. ChainTo(new, tick, hash)
  BY <1>5
<1>7. Before(new, tick + 1) = hash /\ Before(new, (tick + 1) + 1) = e.hash
  <2>1. Before(new, tick + 1) = hash
    BY <1>6 DEF ChainTo
  <2>2. (tick + 1) + 1 # 1 /\ ((tick + 1) + 1) - 1 = tick + 1
    OBVIOUS
  <2> QED BY <1>1, <2>1, <2>2 DEF Before
<1>8. ASSUME NEW t \in 1..(tick + 1)
      PROVE  t \in DOMAIN new /\ new[t].tick = t /\ VerifyChain(Before(new, t), new[t])
  <2>1. CASE t \in 1..tick
    BY <1>6, <2>1 DEF ChainTo
  <2>2. CASE t = tick + 1
    BY <1>1, <1>2, <1>7, <2>2 DEF VerifyChain
  <2> QED BY <2>1, <2>2
<1>9. ChainTo(new, tick + 1, PohHash(hash, tick + 1, tx))
  BY <1>2, <1>7, <1>8 DEF ChainTo
<1> QED BY <1>5, <1>9

LEMMA PutWallet1 ==
    ASSUME NEW ws, WalletsOK(ws), NEW id \in WalletId, NEW wallet \in WalletRecord(WalletId)
    PROVE  WalletsOK(Put(ws, id, wallet))
<1>1. DOMAIN Put(ws, id, wallet) = DOMAIN ws \cup {id}
  BY PutFacts
<1>2. IsFiniteSet(DOMAIN ws \cup {id})
  BY FS_AddElement DEF WalletsOK
<1> QED BY <1>1, <1>2 DEF WalletsOK, Put

LEMMA WriteKeepsStore ==
    ASSUME NEW s, NEW t, NEW ok \in BOOLEAN, NEW a, NEW b, NEW w,
           StoreInv(s, ok), Describes(a, s, ok), Links(a, w, b), Writes(s, w, t)
    PROVE  StoreInv(t, ok) /\ Describes(b, t, ok)
<1>1. WriteOK(w) /\ Fenced(b) /\ w.tree \in Trees
  BY DEF Links, WriteOK
<1>2. CASE w.tree = "wallets"
  <2>1. /\ t.wallets = Put(s.wallets, w.key, w.value)
        /\ t.poh = s.poh /\ t.iterations = s.iterations /\ t.stored = s.stored
        /\ t.transactions = s.transactions /\ t.tx_by_wallet = s.tx_by_wallet
    BY <1>2 DEF Writes
  <2>2. /\ w.value.last_active_iteration \in b.active
        /\ a.active \subseteq b.active /\ b.active \in SUBSET Nat
        /\ b = [a EXCEPT !.active = b.active]
    BY <1>2 DEF Links
  <2>3. /\ IsSummary(b) /\ b.tick = a.tick /\ b.hash = a.hash /\ b.filed = a.filed
        /\ b.txs = a.txs /\ b.lock = a.lock /\ b.counted = a.counted
    BY <2>2 DEF Describes, IsSummary
  <2>4. WalletsOK(t.wallets)
    BY <1>1, <1>2, <2>1, PutWallet1 DEF StoreInv, WriteOK
  <2>5. \A x \in DOMAIN t.wallets : t.wallets[x].last_active_iteration \in b.active
    BY <2>1, <2>2, PutFacts DEF Describes, Put
  <2>6. \/ t.stored.iteration_lock
        \/ \A x \in DOMAIN t.wallets :
              t.wallets[x].last_active_iteration <= t.stored.current_iteration
    BY <1>1, <2>1, <2>3, <2>5 DEF Fenced, Describes
  <2>7. StoreInv(t, ok)
    BY <2>1, <2>4, <2>6 DEF StoreInv
  <2>8. Describes(b, t, ok)
    BY <1>1, <2>1, <2>3, <2>5 DEF Describes
  <2> QED BY <2>7, <2>8
<1>3. CASE w.tree = "transactions"
  <2>1. /\ t.wallets = s.wallets /\ t.poh = s.poh /\ t.iterations = s.iterations
        /\ t.stored = s.stored /\ t.transactions = Put(s.transactions, w.key, w.value)
        /\ t.tx_by_wallet = s.tx_by_wallet
    BY <1>3 DEF Writes
  <2>2. b = [a EXCEPT !.txs = @ \cup {w.key}]
    BY <1>3 DEF Links
  <2>3. /\ IsSummary(b) /\ b.tick = a.tick /\ b.hash = a.hash /\ b.filed = a.filed
        /\ b.txs = a.txs \cup {w.key} /\ b.active = a.active
        /\ b.lock = a.lock /\ b.counted = a.counted
    BY <2>2 DEF Describes, IsSummary
  <2>4. DOMAIN t.transactions = DOMAIN s.transactions \cup {w.key}
    BY <2>1 DEF Put
  <2>5. StoreInv(t, ok)
    BY <2>1, <2>4 DEF StoreInv
  <2>6. Describes(b, t, ok)
    BY <1>1, <2>1, <2>3, <2>4 DEF Describes
  <2> QED BY <2>5, <2>6
<1>4. CASE w.tree = "tx_by_wallet"
  <2>1. /\ t.wallets = s.wallets /\ t.poh = s.poh /\ t.iterations = s.iterations
        /\ t.stored = s.stored /\ t.transactions = s.transactions
        /\ t.tx_by_wallet = s.tx_by_wallet \cup {<<w.key, w.mem.current_tick, w.value>>}
    BY <1>4 DEF Writes
  <2>2. w.value \in a.txs /\ b = a
    BY <1>4 DEF Links
  <2>3. w.value \in DOMAIN s.transactions
    BY <2>2 DEF Describes
  <2>4. StoreInv(t, ok)
    BY <2>1, <2>3 DEF StoreInv
  <2>5. Describes(b, t, ok)
    BY <2>1, <2>2 DEF Describes
  <2> QED BY <2>4, <2>5
<1>5. CASE w.tree = "poh"
  <2>1. /\ t.wallets = s.wallets /\ t.poh = Put(s.poh, w.key, w.value)
        /\ t.iterations = s.iterations /\ t.stored = s.stored
        /\ t.transactions = s.transactions /\ t.tx_by_wallet = s.tx_by_wallet
    BY <1>5 DEF Writes
  <2>2. /\ w.key = a.tick + 1
        /\ w.value = BuildEntry(a.tick + 1, a.hash, w.value.tx)
        /\ w.value.tx \in a.txs
        /\ b = [a EXCEPT !.tick = @ + 1, !.hash = w.value.hash]
    BY <1>5 DEF Links
  <2> DEFINE tx == w.value.tx
  <2>3. /\ w.value.hash = PohHash(a.hash, a.tick + 1, tx) /\ a.tick \in Nat
        /\ t.poh = Put(s.poh, a.tick + 1, BuildEntry(a.tick + 1, a.hash, tx))
    BY <2>1, <2>2 DEF BuildEntry, Describes, IsSummary
  <2>4. /\ IsSummary(b) /\ b.tick = a.tick + 1 /\ b.hash = PohHash(a.hash, a.tick + 1, tx)
        /\ b.filed = a.filed /\ b.txs = a.txs /\ b.active = a.active
        /\ b.lock = a.lock /\ b.counted = a.counted
    <3>1. IsSummary(a)
      BY DEF Describes
    <3>2. PICK h : h = w.value.hash
      OBVIOUS
    <3>3. b = [a EXCEPT !.tick = @ + 1, !.hash = h]
      BY <2>2, <3>2
    <3>4. b = [tick |-> a.tick + 1, hash |-> h, filed |-> a.filed, txs |-> a.txs,
               active |-> a.active, lock |-> a.lock, counted |-> a.counted]
      BY <3>1, <3>3 DEF IsSummary
    <3>5. /\ b.tick = a.tick + 1 /\ b.hash = h
          /\ b.filed = a.filed /\ b.txs = a.txs /\ b.active = a.active
          /\ b.lock = a.lock /\ b.counted = a.counted
      BY <3>4
    <3>6. IsSummary(b)
      BY <3>1, <3>4, <3>5 DEF IsSummary
    <3> QED BY <2>3, <3>2, <3>5, <3>6
  <2>5. \A k \in DOMAIN t.poh : t.poh[k].tx \in DOMAIN t.transactions
    BY <2>1, <2>2 DEF Put, StoreInv, Describes
  <2> HIDE DEF tx
  <2>6. ASSUME ok
        PROVE  /\ ChainTo(t.poh, b.tick, b.hash)
               /\ ChainTo(t.poh, t.stored.current_tick, t.stored.last_poh_hash)
               /\ t.stored.current_tick <= b.tick
    <3>1. ChainTo(s.poh, a.tick, a.hash) /\ s.stored.current_tick <= a.tick
      BY <2>6 DEF Describes
    <3>2. /\ ChainTo(s.poh, s.stored.current_tick, s.stored.last_poh_hash)
          /\ s.stored.current_tick \in 0..a.tick
      BY <2>3, <2>6, <3>1 DEF StoreInv, SystemOK, SystemRecord
    <3>3. /\ ChainTo(t.poh, a.tick + 1, PohHash(a.hash, a.tick + 1, tx))
          /\ ChainTo(t.poh, s.stored.current_tick, s.stored.last_poh_hash)
      BY <2>3, <3>1, <3>2, EntryExtendsChain
    <3> QED BY <2>1, <2>3, <2>4, <3>2, <3>3
  <2>7. StoreInv(t, ok)
    BY <2>1, <2>5, <2>6 DEF StoreInv
  <2>8. Describes(b, t, ok)
    BY <1>1, <2>1, <2>4, <2>6 DEF Describes
  <2> QED BY <2>7, <2>8
<1>6. CASE w.tree = "iterations"
  <2>1. /\ t.wallets = s.wallets /\ t.poh = s.poh
        /\ t.iterations = Put(s.iterations, w.key, w.value) /\ t.stored = s.stored
        /\ t.transactions = s.transactions /\ t.tx_by_wallet = s.tx_by_wallet
    BY <1>6 DEF Writes
  <2>2. w.key = a.filed + 1 /\ b = [a EXCEPT !.filed = @ + 1]
    BY <1>6 DEF Links
  <2>3. /\ IsSummary(b) /\ b.tick = a.tick /\ b.hash = a.hash /\ b.filed = a.filed + 1
        /\ b.txs = a.txs /\ b.active = a.active /\ b.lock = a.lock /\ b.counted = a.counted
        /\ a.filed \in Nat
    BY <2>2 DEF Describes, IsSummary
  <2>4. DOMAIN t.iterations = DOMAIN s.iterations \cup {a.filed + 1}
    BY <2>1, <2>2 DEF Put
  <2>5. StoreInv(t, ok)
    BY <2>1, <2>4 DEF StoreInv
  <2>6. 1..a.filed \subseteq DOMAIN s.iterations => 1..b.filed \subseteq DOMAIN t.iterations
    BY <2>3, <2>4
  <2>7. Describes(b, t, ok)
    BY <1>1, <2>1, <2>3, <2>6 DEF Describes
  <2> QED BY <2>5, <2>7
<1>7. CASE w.tree = "state"
  <2>1. /\ t.wallets = s.wallets /\ t.poh = s.poh /\ t.iterations = s.iterations
        /\ t.stored = w.mem
        /\ t.transactions = s.transactions /\ t.tx_by_wallet = s.tx_by_wallet
        /\ SystemOK(w.mem)
    BY <1>1, <1>7 DEF Writes, WriteOK
  <2>2. /\ Agrees(a, w.mem)
        /\ b = [a EXCEPT !.lock = w.mem.iteration_lock, !.counted = w.mem.current_iteration]
    BY <1>7 DEF Links
  <2>3. w.mem.iteration_lock \in BOOLEAN /\ w.mem.current_iteration \in Nat
        /\ w.mem.current_tick \in Nat
    BY <2>1 DEF SystemOK, SystemRecord
  <2>4. /\ IsSummary(b) /\ b.tick = a.tick /\ b.hash = a.hash /\ b.filed = a.filed
        /\ b.txs = a.txs /\ b.active = a.active
        /\ b.lock = w.mem.iteration_lock /\ b.counted = w.mem.current_iteration
    BY <2>2, <2>3 DEF Describes, IsSummary
  <2>5. \/ t.stored.iteration_lock
        \/ \A x \in DOMAIN t.wallets :
              t.wallets[x].last_active_iteration <= t.stored.current_iteration
    BY <1>1, <2>1, <2>4 DEF Fenced, Describes
  <2>6. ok => /\ ChainTo(t.poh, t.stored.current_tick, t.stored.last_poh_hash)
              /\ t.stored.current_tick <= b.tick
              /\ 1..t.stored.current_iteration \subseteq DOMAIN t.iterations
    BY <2>1, <2>2, <2>3, <2>4 DEF Agrees, Describes
  <2>7. StoreInv(t, ok)
    BY <2>1, <2>5, <2>6 DEF StoreInv
  <2>8. Describes(b, t, ok)
    BY <1>1, <2>1, <2>4, <2>6 DEF Describes
  <2> QED BY <2>7, <2>8
<1>8. CASE w.tree = "flush"
  <2>1. /\ t.wallets = s.wallets /\ t.poh = s.poh /\ t.iterations = s.iterations
        /\ t.stored = s.stored
        /\ t.transactions = s.transactions /\ t.tx_by_wallet = s.tx_by_wallet
        /\ b = a
    BY <1>8 DEF Writes, Links
  <2>2. StoreInv(t, ok)
    BY <2>1 DEF StoreInv
  <2> QED BY <2>1, <2>2 DEF Describes
<1> QED BY <1>1, <1>2, <1>3, <1>4, <1>5, <1>6, <1>7, <1>8 DEF Trees

-----------------------------------------------------------------------------
(* The memory under which the writes are issued.                           *)

\* m differs from n in the counters that no reader of the chain looks at.
SameClock(m, n) ==
    /\ m.current_tick = n.current_tick /\ m.last_poh_hash = n.last_poh_hash
    /\ m.current_iteration = n.current_iteration /\ m.iteration_lock = n.iteration_lock

LEMMA SystemFields ==
    ASSUME NEW sys, SystemOK(sys)
    PROVE  /\ sys.current_tick \in Nat /\ sys.current_iteration \in Nat
           /\ sys.total_supply \in Nat /\ sys.n_wallets \in Nat /\ sys.n_active_wallets \in Nat
           /\ sys.previous_iteration_supply \in Nat /\ sys.previous_iteration_start_supply \in Nat
           /\ sys.iteration_lock \in BOOLEAN
BY DEF SystemOK, SystemRecord

SetsClock(m, sys, k, h) == m = [sys EXCEPT !.current_tick = k, !.last_poh_hash = h]

LEMMA ClockSet ==
    ASSUME NEW sys, SystemOK(sys), NEW k \in Nat, NEW h,
           NEW m, SetsClock(m, sys, k, h)
    PROVE  /\ m \in SystemRecord({h})
           /\ m.current_tick = k /\ m.last_poh_hash = h
           /\ m.current_iteration = sys.current_iteration
           /\ m.iteration_lock = sys.iteration_lock
<1>1. PICK H : sys \in SystemRecord(H)
  BY DEF SystemOK
<1> QED BY <1>1 DEF SystemRecord, SetsClock

\* append_tx_locked moves the clock on.
LEMMA TickedSystem ==
    ASSUME NEW sys, NEW tx, SystemOK(sys)
    PROVE  /\ SystemOK(Ticked(sys, tx))
           /\ Ticked(sys, tx).current_tick = sys.current_tick + 1
           /\ Ticked(sys, tx).last_poh_hash = PohHash(sys.last_poh_hash, sys.current_tick + 1, tx)
           /\ Ticked(sys, tx).current_iteration = sys.current_iteration
           /\ Ticked(sys, tx).iteration_lock = sys.iteration_lock
<1> DEFINE k == sys.current_tick + 1
           h == PohHash(sys.last_poh_hash, k, tx)
           m == Ticked(sys, tx)
<1>1. SetsClock(m, sys, k, h)
  BY DEF SetsClock, Ticked, NextEntry, BuildEntry, SystemOK, SystemRecord
<1>2. k \in Nat
  BY SystemFields
<1> HIDE DEF h, k, m
<1>3. /\ m \in SystemRecord({h})
      /\ m.current_tick = k /\ m.last_poh_hash = h
      /\ m.current_iteration = sys.current_iteration
      /\ m.iteration_lock = sys.iteration_lock
  BY <1>1, <1>2, ClockSet
<1> QED BY <1>3 DEF SystemOK, h, k, m

\* The counters that the handlers change leave the clock alone.
LEMMA CountedSystem ==
    ASSUME NEW sys, SystemOK(sys), NEW supply \in 0..MaxU64, NEW n \in Nat, NEW active \in Nat,
           NEW m, m = [sys EXCEPT !.total_supply = supply, !.n_wallets = n,
                                  !.n_active_wallets = active]
    PROVE  SystemOK(m) /\ SameClock(m, sys)
<1>1. SameClock(m, sys)
  BY DEF SystemOK, SystemRecord, SameClock
<1>2. m \in SystemRecord({sys.last_poh_hash})
  BY DEF SystemOK, SystemRecord
<1> QED BY <1>1, <1>2 DEF SystemOK, SameClock

LEMMA CreatedSystem ==
    ASSUME NEW sys, SystemOK(sys), NEW amount \in 0..MaxU64
    PROVE  SystemOK(AfterCreate(sys, amount)) /\ SameClock(AfterCreate(sys, amount), sys)
<1> DEFINE supply == SatAdd(sys.total_supply, amount)
           n      == SatAdd(sys.n_wallets, 1)
           active == SatAdd(sys.n_active_wallets, 1)
<1>1. supply \in 0..MaxU64 /\ n \in Nat /\ active \in Nat
  <2>1. sys.total_supply \in Nat /\ sys.n_wallets \in Nat /\ sys.n_active_wallets \in Nat
    BY SystemFields
  <2>2. amount \in Nat /\ 1 \in Nat
    OBVIOUS
  <2>3. SatAdd(sys.total_supply, amount) \in 0..MaxU64
    BY <2>1, <2>2, SatAddType
  <2>4. SatAdd(sys.n_wallets, 1) \in 0..MaxU64 /\ SatAdd(sys.n_active_wallets, 1) \in 0..MaxU64
    BY <2>1, <2>2, SatAddType
  <2> QED BY <2>3, <2>4
<1>2. AfterCreate(sys, amount)
        = [sys EXCEPT !.total_supply = supply, !.n_wallets = n, !.n_active_wallets = active]
  BY DEF AfterCreate
<1> HIDE DEF supply, n, active
<1> QED BY <1>1, <1>2, CountedSystem

LEMMA SuppliedSystem ==
    ASSUME NEW sys, SystemOK(sys), NEW supply \in 0..MaxU64
    PROVE  /\ SystemOK([sys EXCEPT !.total_supply = supply])
           /\ SameClock([sys EXCEPT !.total_supply = supply], sys)
<1> DEFINE m == [sys EXCEPT !.total_supply = supply]
<1>1. m = [sys EXCEPT !.total_supply = supply, !.n_wallets = sys.n_wallets,
                      !.n_active_wallets = sys.n_active_wallets]
  BY DEF SystemOK, SystemRecord
<1> HIDE DEF m
<1>2. SystemOK(m) /\ SameClock(m, sys)
  BY <1>1, SystemFields, CountedSystem
<1> QED BY <1>2 DEF m

LEMMA ActivatedSystem ==
    ASSUME WalletsOK(wallets), NEW sys, SystemOK(sys), NEW ids, IsFiniteSet(ids)
    PROVE  SystemOK(Activated(sys, ids)) /\ SameClock(Activated(sys, ids), sys)
<1> DEFINE active == SatAdd(sys.n_active_wallets, NewlyActive(ids))
           m      == Activated(sys, ids)
<1>1. active \in Nat
  <2> DEFINE B == {w \in ids : wallets[w].last_active_iteration # system.current_iteration}
  <2>1. IsFiniteSet(B)
    BY FS_Subset
  <2>2. Cardinality(B) \in Nat
    BY <2>1, FS_CardinalityType
  <2>3. sys.n_active_wallets \in Nat
    BY SystemFields
  <2>4. active = SatAdd(sys.n_active_wallets, Cardinality(B))
    BY DEF NewlyActive
  <2> HIDE DEF B, active
  <2>5. SatAdd(sys.n_active_wallets, Cardinality(B)) \in 0..MaxU64
    BY <2>2, <2>3, SatAddType
  <2> QED BY <2>4, <2>5
<1> HIDE DEF active
<1>2. m = [sys EXCEPT !.total_supply = sys.total_supply, !.n_wallets = sys.n_wallets,
                      !.n_active_wallets = active]
  BY DEF SystemOK, SystemRecord, Activated, active
<1>3. sys.total_supply \in 0..MaxU64
  BY DEF SystemOK, SystemRecord
<1> HIDE DEF m
<1>4. SystemOK(m) /\ SameClock(m, sys)
  BY <1>1, <1>2, <1>3, SystemFields, CountedSystem
<1> QED BY <1>4 DEF m

LEMMA LockedSystem ==
    ASSUME NEW sys, SystemOK(sys)
    PROVE  /\ SystemOK(Locked(sys)) /\ Locked(sys).iteration_lock
           /\ Locked(sys).current_tick = sys.current_tick
           /\ Locked(sys).last_poh_hash = sys.last_poh_hash
           /\ Locked(sys).current_iteration = sys.current_iteration
<1>1. /\ Locked(sys).iteration_lock
      /\ Locked(sys).current_tick = sys.current_tick
      /\ Locked(sys).last_poh_hash = sys.last_poh_hash
      /\ Locked(sys).current_iteration = sys.current_iteration
      /\ Locked(sys) \in SystemRecord({sys.last_poh_hash})
  BY DEF SystemOK, SystemRecord, Locked
<1> QED BY <1>1 DEF SystemOK

-----------------------------------------------------------------------------
(* The writes of the handlers, one by one.                                 *)

\* The store is described by a, and a handler may be stopped with the memory m.
Ready(a, m) == IsSummary(a) /\ Fenced(a) /\ Resumable(a, m) /\ SystemOK(m)

Active(a, T) == [a EXCEPT !.active = @ \cup T]

Appended(a, tx) ==
    [a EXCEPT !.txs = @ \cup {tx}, !.tick = @ + 1, !.hash = PohHash(a.hash, a.tick + 1, tx)]

Counted(a, m) == [a EXCEPT !.lock = m.iteration_lock, !.counted = m.current_iteration]

LEMMA ActiveSummary ==
    ASSUME NEW a, IsSummary(a), NEW T \in SUBSET Nat
    PROVE  /\ IsSummary(Active(a, T)) /\ Active(a, T).active = a.active \cup T
           /\ Active(a, T).tick = a.tick /\ Active(a, T).hash = a.hash
           /\ Active(a, T).filed = a.filed /\ Active(a, T).txs = a.txs
           /\ Active(a, T).lock = a.lock /\ Active(a, T).counted = a.counted
           /\ Active(a, T) = [a EXCEPT !.active = Active(a, T).active]
BY DEF IsSummary, Active

LEMMA CountedSummary ==
    ASSUME NEW a, IsSummary(a), NEW m, SystemOK(m)
    PROVE  /\ IsSummary(Counted(a, m)) /\ Counted(a, m).active = a.active
           /\ Counted(a, m).tick = a.tick /\ Counted(a, m).hash = a.hash
           /\ Counted(a, m).filed = a.filed /\ Counted(a, m).txs = a.txs
           /\ Counted(a, m).lock = m.iteration_lock
           /\ Counted(a, m).counted = m.current_iteration
<1>1. m.iteration_lock \in BOOLEAN /\ m.current_iteration \in Nat
  BY SystemFields
<1> QED BY <1>1 DEF IsSummary, Counted

LEMMA AppendedSummary ==
    ASSUME NEW a, IsSummary(a), NEW tx
    PROVE  /\ IsSummary(Appended(a, tx)) /\ Appended(a, tx).active = a.active
           /\ Appended(a, tx).tick = a.tick + 1
           /\ Appended(a, tx).hash = PohHash(a.hash, a.tick + 1, tx)
           /\ Appended(a, tx).filed = a.filed /\ Appended(a, tx).txs = a.txs \cup {tx}
           /\ Appended(a, tx).lock = a.lock /\ Appended(a, tx).counted = a.counted
<1> DEFINE h == PohHash(a.hash, a.tick + 1, tx)
           b == Appended(a, tx)
<1>1. b = [tick |-> a.tick + 1, hash |-> h, filed |-> a.filed, txs |-> a.txs \cup {tx},
           active |-> a.active, lock |-> a.lock, counted |-> a.counted]
  <2>1. b = [a EXCEPT !.txs = @ \cup {tx}, !.tick = @ + 1, !.hash = h]
    BY DEF Appended
  <2> HIDE DEF h, b
  <2> QED BY <2>1 DEF IsSummary
<1> HIDE DEF h, b
<1>2. /\ b.active = a.active /\ b.tick = a.tick + 1 /\ b.hash = h
      /\ b.filed = a.filed /\ b.txs = a.txs \cup {tx}
      /\ b.lock = a.lock /\ b.counted = a.counted
  BY <1>1
<1>3. IsSummary(b)
  BY <1>1, <1>2 DEF IsSummary
<1> QED BY <1>2, <1>3 DEF h, b

LEMMA WriteIsOK ==
    ASSUME NEW tree \in Trees, NEW key, NEW value, NEW mem, SystemOK(mem),
           tree = "wallets" => key \in WalletId /\ value \in WalletRecord(WalletId),
           tree = "state" => value = mem
    PROVE  /\ WriteOK(Write(tree, key, value, mem))
           /\ Write(tree, key, value, mem).tree = tree
           /\ Write(tree, key, value, mem).key = key
           /\ Write(tree, key, value, mem).value = value
           /\ Write(tree, key, value, mem).mem = mem
<1> DEFINE w == Write(tree, key, value, mem)
<1>1. w = [tree |-> tree, key |-> key, value |-> value, mem |-> mem,
           commits |-> FALSE, overflows |-> FALSE]
  BY Zenon DEF Write
<1> HIDE DEF w
<1>2. /\ w.tree = tree /\ w.key = key /\ w.value = value /\ w.mem = mem
      /\ w.commits = FALSE /\ w.overflows = FALSE
  BY <1>1
<1>3. w = [tree |-> w.tree, key |-> w.key, value |-> w.value, mem |-> w.mem,
           commits |-> w.commits, overflows |-> w.overflows]
  BY <1>1, <1>2
<1>4. WriteOK(w)
  BY <1>2, <1>3 DEF WriteOK
<1> QED BY <1>2, <1>4 DEF w

\* Whether a write commits the operation makes no difference to the store.
LEMMA CommitLinks ==
    ASSUME NEW a, NEW b, NEW w, NEW o, Links(a, w, b)
    PROVE  Links(a, Commit(w, o), b) /\ Commit(w, o).mem = w.mem
<1>1. WriteOK(w)
  BY DEF Links
<1>2. Commit(w, o) = [tree |-> w.tree, key |-> w.key, value |-> w.value, mem |-> w.mem,
                   commits |-> TRUE, overflows |-> o]
  <2>1. PICK tree, key, value, mem, c, v :
          w = [tree |-> tree, key |-> key, value |-> value, mem |-> mem, commits |-> c,
               overflows |-> v]
    BY <1>1 DEF WriteOK
  <2>2. Commit(w, o) = [tree |-> tree, key |-> key, value |-> value, mem |-> mem, commits |-> TRUE, overflows |-> o]
    <3>1. Commit(w, o) = [w EXCEPT !.commits = TRUE, !.overflows = o]
      BY Zenon DEF Commit
    <3> QED BY <2>1, <3>1
  <2> QED BY <2>1, <2>2
<1>3. /\ Commit(w, o).tree = w.tree /\ Commit(w, o).key = w.key /\ Commit(w, o).value = w.value
      /\ Commit(w, o).mem = w.mem /\ Commit(w, o).commits = TRUE /\ Commit(w, o).overflows = o
  BY <1>2
<1>4. WriteOK(Commit(w, o))
  BY <1>1, <1>2, <1>3 DEF WriteOK
<1> QED BY <1>3, <1>4 DEF Links

LEMMA WalletLink ==
    ASSUME NEW a, NEW m, Ready(a, m), NEW id \in WalletId, NEW wallet \in WalletRecord(WalletId),
           NEW T \in SUBSET Nat, wallet.last_active_iteration \in T,
           Fenced(Active(a, T)), Resumable(Active(a, T), m)
    PROVE  Links(a, PutWallet(id, wallet, m), Active(a, T)) /\ Ready(Active(a, T), m)
<1> DEFINE w == PutWallet(id, wallet, m)
<1>1. /\ WriteOK(w) /\ w.tree = "wallets" /\ w.value = wallet /\ w.mem = m
  BY WriteIsOK DEF PutWallet, Trees, Ready
<1> HIDE DEF w
<1>2. /\ IsSummary(Active(a, T)) /\ Active(a, T).active = a.active \cup T
      /\ Active(a, T) = [a EXCEPT !.active = Active(a, T).active]
  BY ActiveSummary DEF Ready
<1>3. a.active \subseteq Nat
  BY DEF Ready, IsSummary
<1>4. Links(a, w, Active(a, T))
  BY <1>1, <1>2, <1>3 DEF Links, Ready
<1> QED BY <1>2, <1>4 DEF w, Ready

\* A handler of users writes a wallet that was active no later than now.
LEMMA UserWalletLink ==
    ASSUME NEW a, NEW m, Ready(a, m), ~m.iteration_lock,
           NEW id \in WalletId, NEW wallet \in WalletRecord(WalletId),
           wallet.last_active_iteration <= m.current_iteration
    PROVE  /\ Links(a, PutWallet(id, wallet, m), Active(a, {wallet.last_active_iteration}))
           /\ Ready(Active(a, {wallet.last_active_iteration}), m)
<1> DEFINE n == wallet.last_active_iteration
           b == Active(a, {n})
<1>1. n \in Nat /\ {n} \in SUBSET Nat
  BY DEF WalletRecord
<1>2. m.current_iteration \in Nat
  BY SystemFields DEF Ready
<1>3. b.active = a.active \cup {n} /\ b.lock = a.lock /\ b.counted = a.counted /\ b.counted \in Nat
      /\ a.active \subseteq Nat
  BY <1>1, ActiveSummary DEF Ready, IsSummary
<1> HIDE DEF b
<1>4. Resumable(b, m)
  BY <1>3 DEF Ready, Resumable
<1>5. Fenced(b)
  BY <1>1, <1>2, <1>3, <1>4 DEF Resumable, Fenced
<1> HIDE DEF n
<1>6. Links(a, PutWallet(id, wallet, m), b) /\ Ready(b, m)
  BY <1>1, <1>4, <1>5, WalletLink DEF b, n
<1> QED BY <1>6 DEF b, n

\* The state is stored when the memory agrees with what has been written.
LEMMA StateLink ==
    ASSUME NEW a, NEW m, Ready(a, m), Agrees(a, m), Fenced(Counted(a, m)),
           Resumable(Counted(a, m), m)
    PROVE  /\ Links(a, StoreState(m), Counted(a, m))
           /\ \A o : Links(a, Commit(StoreState(m), o), Counted(a, m))
           /\ Ready(Counted(a, m), m) /\ Agrees(Counted(a, m), m)
<1> DEFINE w == StoreState(m)
           b == Counted(a, m)
<1>1. /\ WriteOK(w) /\ w.tree = "state" /\ w.mem = m
  BY WriteIsOK DEF StoreState, Trees, Ready
<1>2. b = [a EXCEPT !.lock = m.iteration_lock, !.counted = m.current_iteration]
  BY Zenon DEF Counted
<1>3. IsSummary(b) /\ b.tick = a.tick /\ b.hash = a.hash /\ b.filed = a.filed
  BY CountedSummary DEF Ready
<1> HIDE DEF w, b
<1>4. Links(a, w, b)
  BY <1>1, <1>2 DEF Links, Ready, b
<1>5. Ready(b, m) /\ Agrees(b, m)
  BY <1>3 DEF Ready, Agrees, b
<1> QED BY <1>4, <1>5, CommitLinks DEF w, b

\* A handler of users stores the state when it is done: nothing is ahead of it.
LEMMA UserStateLink ==
    ASSUME NEW a, NEW m, Ready(a, m), Agrees(a, m), ~m.iteration_lock
    PROVE  /\ Links(a, StoreState(m), Counted(a, m))
           /\ \A o : Links(a, Commit(StoreState(m), o), Counted(a, m))
           /\ Ready(Counted(a, m), m) /\ Agrees(Counted(a, m), m)
<1> DEFINE b == Counted(a, m)
<1>1. b.active = a.active /\ b.lock = m.iteration_lock /\ b.counted = m.current_iteration
  BY CountedSummary DEF Ready
<1>2. m.current_iteration \in Nat
  BY SystemFields DEF Ready
<1> HIDE DEF b
<1>3. Fenced(b) /\ Resumable(b, m)
  BY <1>1, <1>2 DEF Ready, Resumable, Fenced
<1> QED BY <1>3, StateLink DEF b

LEMMA FlushLink ==
    ASSUME NEW a, NEW m, Ready(a, m)
    PROVE  Links(a, Flush(m), a)
<1>1. WriteOK(Flush(m)) /\ Flush(m).tree = "flush" /\ Flush(m).mem = m
  BY WriteIsOK DEF Flush, Trees, Ready
<1> QED BY <1>1 DEF Links, Ready

\* append_tx_locked: the transaction comes before its index entries and its PoH entry, and the
\* entry links to the head.  No reader of the memory takes part of it for more.
LEMMA AppendPath ==
    ASSUME NEW a, NEW sys, NEW tx, Ready(a, sys), IsFiniteSet(WalletIds(tx)),
           a.tick = sys.current_tick, a.hash = sys.last_poh_hash
    PROVE  /\ Path(a, AppendTx(sys, tx), Appended(a, tx))
           /\ Ready(Appended(a, tx), Ticked(sys, tx))
           /\ Agrees(a, sys) => Agrees(Appended(a, tx), Ticked(sys, tx))
           /\ Len(AppendTx(sys, tx)) \in Nat \ {0}
           /\ WriteOK(AppendTx(sys, tx)[Len(AppendTx(sys, tx))])
           /\ AppendTx(sys, tx)[Len(AppendTx(sys, tx))].mem = Ticked(sys, tx)
<1> DEFINE mem  == Ticked(sys, tx)
           ids  == InSomeOrder(WalletIds(tx))
           n    == Cardinality(WalletIds(tx))
           put  == Write("transactions", tx, mem.current_tick, mem)
           idx  == [i \in 1..n |-> Write("tx_by_wallet", ids[i], tx, mem)]
           last == Write("poh", mem.current_tick, NextEntry(sys, tx), mem)
           b    == [a EXCEPT !.txs = @ \cup {tx}]
           c    == Appended(a, tx)
<1>1. AppendTx(sys, tx) = <<put>> \o idx \o <<last>>
  BY DEF AppendTx
<1>2. /\ SystemOK(mem) /\ mem.current_tick = sys.current_tick + 1
      /\ mem.last_poh_hash = PohHash(sys.last_poh_hash, sys.current_tick + 1, tx)
      /\ mem.current_iteration = sys.current_iteration
      /\ mem.iteration_lock = sys.iteration_lock
  BY TickedSystem DEF Ready
<1>3. n \in Nat
  BY FS_CardinalityType
<1> HIDE DEF mem, ids, n
<1>4. /\ WriteOK(put) /\ put.tree = "transactions" /\ put.key = tx /\ put.mem = mem
      /\ WriteOK(last) /\ last.tree = "poh" /\ last.key = mem.current_tick
      /\ last.value = NextEntry(sys, tx) /\ last.mem = mem
  BY <1>2, WriteIsOK DEF Trees
<1>5. \A i \in 1..n : /\ WriteOK(idx[i]) /\ idx[i].tree = "tx_by_wallet"
                      /\ idx[i].value = tx /\ idx[i].mem = mem
  <2> TAKE i \in 1..n
  <2>1. idx[i] = Write("tx_by_wallet", ids[i], tx, mem)
    OBVIOUS
  <2> HIDE DEF idx
  <2> QED BY <1>2, <2>1, WriteIsOK DEF Trees
<1>6. /\ IsSummary(b) /\ b.txs = a.txs \cup {tx} /\ b.active = a.active
      /\ b.tick = a.tick /\ b.hash = a.hash /\ b.filed = a.filed
      /\ b.lock = a.lock /\ b.counted = a.counted
  BY DEF Ready, IsSummary
<1>7. /\ IsSummary(c) /\ c.active = a.active /\ c.tick = a.tick + 1
      /\ c.hash = PohHash(a.hash, a.tick + 1, tx)
      /\ c.filed = a.filed /\ c.lock = a.lock /\ c.counted = a.counted
  BY AppendedSummary DEF Ready
<1>8. c = [b EXCEPT !.tick = @ + 1, !.hash = PohHash(a.hash, a.tick + 1, tx)]
  <2>1. PICK h : h = PohHash(a.hash, a.tick + 1, tx)
    OBVIOUS
  <2>2. c = [a EXCEPT !.txs = @ \cup {tx}, !.tick = @ + 1, !.hash = h]
    BY <2>1, Zenon DEF Appended
  <2> HIDE DEF c
  <2>3. c = [b EXCEPT !.tick = @ + 1, !.hash = h]
    BY <2>2 DEF Ready, IsSummary
  <2> QED BY <2>1, <2>3
<1>9. /\ Resumable(a, mem) /\ Resumable(b, mem) /\ Fenced(b)
      /\ Resumable(c, mem) /\ Fenced(c)
  <2> HIDE DEF b, c
  <2> QED BY <1>2, <1>6, <1>7 DEF Ready, Resumable, Fenced
<1>10. b = [a EXCEPT !.txs = @ \cup {put.key}]
  BY <1>4
<1> HIDE DEF put, idx, last, b, c
<1>11. Path(a, <<put>>, b)
  <2>1. Links(a, put, b)
    BY <1>4, <1>9, <1>10 DEF Links
  <2> QED BY <2>1, PathOne
<1>12. Path(b, idx, b)
  <2>1. \A i \in 1..n : Links(b, idx[i], b)
    BY <1>5, <1>6, <1>9 DEF Links
  <2>2. idx \in Seq({idx[i] : i \in 1..n}) /\ Len(idx) = n
    BY <1>3 DEF idx
  <2> QED BY <2>1, <2>2, PathSame
<1>13. Path(b, <<last>>, c)
  <2>1. /\ last.key = b.tick + 1
        /\ last.value = BuildEntry(b.tick + 1, b.hash, tx)
        /\ last.value.tx = tx /\ last.value.hash = PohHash(a.hash, a.tick + 1, tx)
        /\ tx \in b.txs
    BY <1>2, <1>4, <1>6 DEF NextEntry, BuildEntry
  <2>2. c = [b EXCEPT !.tick = @ + 1, !.hash = last.value.hash]
    BY <1>8, <2>1
  <2>3. last.value = BuildEntry(b.tick + 1, b.hash, last.value.tx)
    BY <2>1
  <2>4. Links(b, last, c)
    BY <1>4, <1>9, <2>1, <2>2, <2>3 DEF Links
  <2> QED BY <2>4, PathOne
<1>14. Path(a, <<put>> \o idx \o <<last>>, c)
  BY <1>11, <1>12, <1>13, PathConcat
<1>15. /\ Len(<<put>> \o idx \o <<last>>) = n + 2
       /\ (<<put>> \o idx \o <<last>>)[n + 2] = last
  <2>1. PICK S : <<put>> \o idx \in Seq(S)
    <3>1. Path(a, <<put>> \o idx, b)
      BY <1>11, <1>12, PathConcat
    <3> QED BY <3>1 DEF Path
  <2>2. Len(<<put>> \o idx) = n + 1
    <3>1. idx \in Seq({idx[i] : i \in 1..n}) /\ Len(idx) = n
      BY <1>3 DEF idx
    <3> QED BY <1>3, <3>1
  <2> DEFINE q == <<put>> \o idx
  <2> HIDE DEF q
  <2>3. q \in Seq(S \cup {last}) /\ <<last>> \in Seq(S \cup {last}) /\ Len(q) = n + 1
    BY <2>1, <2>2 DEF q
  <2>4. Len(q \o <<last>>) = n + 2 /\ (q \o <<last>>)[n + 2] = last
    BY <1>3, <2>3
  <2> QED BY <2>4 DEF q
<1>16. Ready(c, mem) /\ (Agrees(a, sys) => Agrees(c, mem))
  BY <1>2, <1>7, <1>9 DEF Ready, Agrees
<1>17. Len(AppendTx(sys, tx)) = n + 2 /\ AppendTx(sys, tx)[n + 2] = last
  BY <1>1, <1>15
<1> QED BY <1>1, <1>3, <1>4, <1>14, <1>16, <1>17 DEF c, mem

\* One more write at the end of a path.
LEMMA PathThen ==
    ASSUME NEW a, NEW b, NEW c, NEW p, NEW w, Path(a, p, b), Links(b, w, c)
    PROVE  /\ Path(a, p \o <<w>>, c)
           /\ p \o <<w>> # << >>
           /\ (p \o <<w>>)[Len(p \o <<w>>)] = w
<1>1. Path(a, p \o <<w>>, c)
  BY PathOne, PathConcat
<1>2. PICK S : p \in Seq(S)
  BY DEF Path
<1>3. p \in Seq(S \cup {w}) /\ <<w>> \in Seq(S \cup {w})
  BY <1>2
<1>4. Len(p \o <<w>>) = Len(p) + 1 /\ (p \o <<w>>)[Len(p) + 1] = w /\ Len(p) \in Nat
  BY <1>3
<1> QED BY <1>1, <1>4

-----------------------------------------------------------------------------
(* The plans of the handlers are paths.                                    *)

\* A plan that may be abandoned anywhere, and that the memory agrees with at its end.
Complete(a, p) ==
    \E b : Path(a, p, b) /\ (p # << >> => Agrees(b, p[Len(p)].mem))

\* A handler starts: the lock on the system state is free, and the memory agrees with the store.
Begins(a) ==
    /\ Ready(a, system) /\ Agrees(a, system)
    /\ ~system.iteration_lock
    /\ WalletsOK(wallets)
    /\ \A w \in DOMAIN wallets : wallets[w].last_active_iteration \in a.active

LEMMA SameClockReady ==
    ASSUME NEW a, NEW m, NEW n, Ready(a, m), SameClock(n, m), SystemOK(n)
    PROVE  Ready(a, n) /\ (Agrees(a, m) => Agrees(a, n))
BY DEF Ready, SameClock, Resumable, Agrees

\* The handlers of users end alike: the transaction is appended and the state is stored.
LEMMA UserPlan ==
    ASSUME NEW a, NEW b, NEW p, Path(a, p, b), Ready(b, system), Agrees(b, system),
           ~system.iteration_lock,
           NEW mem, SystemOK(mem), SameClock(mem, system),
           NEW tx, IsFiniteSet(WalletIds(tx)),
           NEW end, SystemOK(end), SameClock(end, Ticked(mem, tx)), NEW o
    PROVE  Complete(a, p \o AppendTx(mem, tx) \o <<Commit(StoreState(end), o)>>)
<1> DEFINE c == Appended(b, tx)
           app == AppendTx(mem, tx)
           w == Commit(StoreState(end), o)
<1>1. Ready(b, mem) /\ Agrees(b, mem)
  BY SameClockReady
<1>2. b.tick = mem.current_tick /\ b.hash = mem.last_poh_hash
  BY <1>1 DEF Agrees
<1>3. Path(b, app, c) /\ Ready(c, Ticked(mem, tx)) /\ Agrees(c, Ticked(mem, tx))
  BY <1>1, <1>2, AppendPath
<1>4. ~end.iteration_lock
  BY TickedSystem DEF SameClock
<1> HIDE DEF c, app
<1>5. Ready(c, end) /\ Agrees(c, end)
  BY <1>3, SameClockReady
<1>6. Links(c, w, Counted(c, end)) /\ Agrees(Counted(c, end), end)
  BY <1>4, <1>5, UserStateLink
<1>7. w.mem = end
  <2>1. StoreState(end).mem = end
    BY WriteIsOK DEF StoreState, Trees
  <2>2. Links(c, StoreState(end), Counted(c, end))
    BY <1>4, <1>5, UserStateLink
  <2> QED BY <2>1, <2>2, CommitLinks
<1> HIDE DEF w
<1>8. Path(a, p \o app, c)
  BY <1>3, PathConcat
<1>9. /\ Path(a, (p \o app) \o <<w>>, Counted(c, end))
      /\ ((p \o app) \o <<w>>)[Len((p \o app) \o <<w>>)] = w
  BY <1>6, <1>8, PathThen
<1>10. Complete(a, (p \o app) \o <<w>>)
  BY <1>6, <1>7, <1>9 DEF Complete
<1> QED BY <1>10 DEF app, w

\* The wallets a handler of users finds are not ahead of it.
LEMMA WalletsFound ==
    ASSUME NEW a, Begins(a), NEW id \in DOMAIN wallets
    PROVE  /\ wallets[id] \in WalletRecord(WalletId) /\ id \in WalletId
           /\ wallets[id].last_active_iteration <= system.current_iteration
BY DEF Begins, Ready, Resumable, WalletsOK

\* The first write of a handler of users, to a wallet that is not ahead.
LEMMA UserPut ==
    ASSUME NEW a, NEW m, Ready(a, m), Agrees(a, m), ~m.iteration_lock,
           NEW id \in WalletId, NEW wallet \in WalletRecord(WalletId),
           wallet.last_active_iteration <= m.current_iteration
    PROVE  \E b : /\ Path(a, <<PutWallet(id, wallet, m)>>, b)
                  /\ Ready(b, m) /\ Agrees(b, m)
<1> DEFINE b == Active(a, {wallet.last_active_iteration})
<1>1. Links(a, PutWallet(id, wallet, m), b) /\ Ready(b, m)
  BY UserWalletLink
<1>2. Agrees(b, m)
  <2>1. IsSummary(a) /\ {wallet.last_active_iteration} \in SUBSET Nat
    BY DEF Ready, WalletRecord
  <2> QED BY <2>1, ActiveSummary DEF Agrees
<1> HIDE DEF b
<1> QED BY <1>1, <1>2, PathOne

\* A transaction of a user names one wallet or two.
LEMMA UserTxWallets ==
    ASSUME NEW id, NEW to, NEW amount, NEW nonce, NEW category
    PROVE  /\ IsFiniteSet(WalletIds(MintTx(id, amount, nonce, category)))
           /\ IsFiniteSet(WalletIds(TransferTx(id, to, amount, nonce)))
           /\ IsFiniteSet(WalletIds(BurnTx(id, amount, nonce)))
<1>1. IsFiniteSet({id}) /\ IsFiniteSet({id} \cup {to})
  <2>1. IsFiniteSet({id})
    BY FS_Singleton
  <2> QED BY <2>1, FS_AddElement
<1>2. {id} \cup {to} = {id, to}
  OBVIOUS
<1>3. WalletIds(MintTx(id, amount, nonce, category)) = {id}
  BY DEF WalletIds, MintTx
<1>4. WalletIds(TransferTx(id, to, amount, nonce)) = {id, to}
  BY DEF WalletIds, TransferTx
<1>5. WalletIds(BurnTx(id, amount, nonce)) = {id}
  BY DEF WalletIds, BurnTx
<1> QED BY <1>1, <1>2, <1>3, <1>4, <1>5

LEMMA MintPlanComplete ==
    ASSUME NEW a, Begins(a), NEW id \in Users, NEW amount \in 0..MaxU64, NEW category
    PROVE  Complete(a, MintPlan(id, amount, category))
<1> DEFINE tx     == MintTx(id, amount, system.current_tick + 1, category)
           mem    == AfterCreate(system, amount)
           wallet == NewWallet(amount, system.current_iteration)
<1>1. SystemOK(system) /\ system.current_iteration \in Nat
  BY SystemFields DEF Begins, Ready
<1>2. /\ wallet \in WalletRecord(WalletId) /\ id \in WalletId
      /\ wallet.last_active_iteration <= system.current_iteration
  BY <1>1 DEF NewWallet, WalletRecord, WalletId
<1>3. SystemOK(mem) /\ SameClock(mem, system)
  BY <1>1, CreatedSystem
<1>4. IsFiniteSet(WalletIds(tx))
  BY UserTxWallets
<1> HIDE DEF tx, mem, wallet
<1>5. SystemOK(Ticked(mem, tx)) /\ SameClock(Ticked(mem, tx), Ticked(mem, tx))
  BY <1>3, TickedSystem DEF SameClock
<1>6. PICK b : /\ Path(a, <<PutWallet(id, wallet, system)>>, b)
               /\ Ready(b, system) /\ Agrees(b, system)
  BY <1>2, UserPut DEF Begins
<1>7. Complete(a, <<PutWallet(id, wallet, system)>> \o AppendTx(mem, tx)
                    \o <<Commit(StoreState(Ticked(mem, tx)), CreateOverflows(system, amount))>>)
  BY <1>3, <1>4, <1>5, <1>6, UserPlan DEF Begins
<1> QED BY <1>7, Zenon DEF MintPlan, tx, mem, wallet

LEMMA ChargePlanComplete ==
    ASSUME NEW a, Begins(a), NEW id \in DOMAIN wallets, NEW amount \in Amounts
    PROVE  Complete(a, ChargePlan(id, amount))
<1> DEFINE tx     == MintTx(id, amount, system.current_tick + 1, "charge")
           supply == SatAdd(system.total_supply, amount)
           mem    == [system EXCEPT !.total_supply = SatAdd(@, amount)]
           wallet == [wallets[id] EXCEPT !.balance = SatAdd(@, amount)]
<1>1. /\ SystemOK(system) /\ amount \in Nat
      /\ wallets[id] \in WalletRecord(WalletId) /\ id \in WalletId
      /\ wallets[id].last_active_iteration <= system.current_iteration
  <2>1. SystemOK(system) /\ amount \in Nat
    BY DEF Begins, Ready
  <2> QED BY <2>1, WalletsFound
<1>2. /\ wallet \in WalletRecord(WalletId)
      /\ wallet.last_active_iteration <= system.current_iteration
  <2>1. wallets[id].balance \in Nat
    BY <1>1 DEF WalletRecord
  <2>2. SatAdd(wallets[id].balance, amount) \in 0..MaxU64
    BY <1>1, <2>1, SatAddType
  <2> QED BY <1>1, <2>2 DEF WalletRecord
<1>3. SystemOK(mem) /\ SameClock(mem, system)
  <2>1. system.total_supply \in Nat
    BY <1>1, SystemFields
  <2>2. supply \in 0..MaxU64
    BY <1>1, <2>1, SatAddType
  <2>3. mem = [system EXCEPT !.total_supply = supply]
    BY <1>1 DEF SystemOK, SystemRecord
  <2> HIDE DEF supply
  <2> QED BY <1>1, <2>2, <2>3, SuppliedSystem
<1>4. IsFiniteSet(WalletIds(tx))
  BY UserTxWallets
<1> HIDE DEF tx, mem, wallet
<1>5. SystemOK(Ticked(mem, tx)) /\ SameClock(Ticked(mem, tx), Ticked(mem, tx))
  BY <1>3, TickedSystem DEF SameClock
<1>6. PICK b : /\ Path(a, <<PutWallet(id, wallet, system)>>, b)
               /\ Ready(b, system) /\ Agrees(b, system)
  BY <1>1, <1>2, UserPut DEF Begins
<1>7. Complete(a, <<PutWallet(id, wallet, system)>> \o AppendTx(mem, tx)
                    \o <<Commit(StoreState(Ticked(mem, tx)),
                                system.total_supply + amount > MaxU64)>>)
  BY <1>3, <1>4, <1>5, <1>6, UserPlan DEF Begins
<1> QED BY <1>7, Zenon DEF ChargePlan, tx, mem, wallet

\* Two writes one after the other.
LEMMA PairOfWrites ==
    ASSUME NEW v, NEW w
    PROVE  <<v>> \o <<w>> = <<v, w>>
<1> DEFINE s == <<v>> \o <<w>>
           t == <<v, w>>
<1>1. PICK T : T = {v, w}
  OBVIOUS
<1>2. <<v>> \in Seq(T) /\ <<w>> \in Seq(T)
  BY <1>1
<1>3. /\ s \in Seq(T) /\ Len(s) = 2 /\ s[1] = v /\ s[2] = w
      /\ t \in Seq(T) /\ Len(t) = 2 /\ t[1] = v /\ t[2] = w
  BY <1>1, <1>2
<1> HIDE DEF s, t
<1>4. \A i \in 1..2 : s[i] = t[i]
  <2>1. \A i \in 1..2 : i = 1 \/ i = 2
    OBVIOUS
  <2> QED BY <1>3, <2>1
<1>5. s = t
  BY <1>3, <1>4, SeqEqual
<1> QED BY <1>5 DEF s, t

LEMMA ThreeWrites ==
    ASSUME NEW u, NEW v, NEW w
    PROVE  (<<u>> \o <<v>>) \o <<w>> = <<u, v, w>>
<1> DEFINE s == <<u, v>> \o <<w>>
           t == <<u, v, w>>
<1>1. PICK T : T = {u, v, w}
  OBVIOUS
<1>2. <<u, v>> \in Seq(T) /\ <<w>> \in Seq(T)
  BY <1>1
<1>3. /\ s \in Seq(T) /\ Len(s) = 3 /\ s[1] = u /\ s[2] = v /\ s[3] = w
      /\ t \in Seq(T) /\ Len(t) = 3 /\ t[1] = u /\ t[2] = v /\ t[3] = w
  BY <1>1, <1>2
<1> HIDE DEF s, t
<1>4. \A i \in 1..3 : s[i] = t[i]
  <2>1. \A i \in 1..3 : i = 1 \/ i = 2 \/ i = 3
    OBVIOUS
  <2> QED BY <1>3, <2>1
<1>5. s = t
  BY <1>3, <1>4, SeqEqual
<1> QED BY <1>5, PairOfWrites DEF s, t

LEMMA TransferPlanComplete ==
    ASSUME NEW a, Begins(a), NEW from \in DOMAIN wallets, NEW to \in DOMAIN wallets, from # to,
           NEW amount \in Amounts, NEW nonce, wallets[from].balance >= amount
    PROVE  Complete(a, TransferPlan(from, to, amount, nonce))
<1> DEFINE tx   == TransferTx(from, to, amount, nonce)
           it   == system.current_iteration
           paid == Spent(wallets[from], amount, {to}, it)
           got  == Received(wallets[to], amount, from, it)
           end  == Activated(Ticked(system, tx), {from, to})
<1>1. /\ SystemOK(system) /\ amount \in Nat /\ it \in Nat
      /\ wallets[from] \in WalletRecord(WalletId) /\ from \in WalletId
      /\ wallets[to] \in WalletRecord(WalletId) /\ to \in WalletId
  <2>1. SystemOK(system) /\ amount \in Nat
    BY DEF Begins, Ready
  <2>2. it \in Nat
    BY <2>1, SystemFields
  <2> QED BY <2>1, <2>2, WalletsFound
<1>2. paid \in WalletRecord(WalletId) /\ paid.last_active_iteration = it
  <2>1. {to} \in SUBSET WalletId /\ amount \in 0..MaxU64
    BY <1>1
  <2> QED BY <1>1, <2>1, SpentType
<1>3. got \in WalletRecord(WalletId) /\ got.last_active_iteration = it
  <2>1. amount \in 0..MaxU64
    OBVIOUS
  <2> HIDE DEF it
  <2>2. /\ Received(wallets[to], amount, from, it) \in WalletRecord(WalletId)
        /\ Received(wallets[to], amount, from, it).last_active_iteration = it
    BY <1>1, <2>1, ReceivedType
  <2> QED BY <2>2
<1>4. IsFiniteSet(WalletIds(tx)) /\ IsFiniteSet({from, to})
  <2>1. WalletIds(tx) = {from, to}
    BY DEF WalletIds, TransferTx
  <2>2. IsFiniteSet(WalletIds(tx))
    BY UserTxWallets
  <2> QED BY <2>1, <2>2
<1> HIDE DEF tx, paid, got
<1>5. SystemOK(end) /\ SameClock(end, Ticked(system, tx))
  <2>1. SystemOK(Ticked(system, tx))
    BY <1>1, TickedSystem
  <2> QED BY <1>4, <2>1, ActivatedSystem DEF Begins
<1> HIDE DEF end
<1>6. PICK b : /\ Path(a, <<PutWallet(from, paid, system)>>, b)
               /\ Ready(b, system) /\ Agrees(b, system)
  BY <1>1, <1>2, UserPut DEF Begins
<1>7. PICK c : /\ Path(b, <<PutWallet(to, got, system)>>, c)
               /\ Ready(c, system) /\ Agrees(c, system)
  BY <1>1, <1>3, <1>6, UserPut DEF Begins
<1> DEFINE put == PutWallet(from, paid, system)
           puts == PutWallet(to, got, system)
<1> HIDE DEF put, puts
<1>8. Path(a, <<put, puts>>, c)
  <2>1. Path(a, <<put>> \o <<puts>>, c)
    BY <1>6, <1>7, PathConcat DEF put, puts
  <2>2. <<put>> \o <<puts>> = <<put, puts>>
    BY PairOfWrites
  <2> QED BY <2>1, <2>2
<1>9. SameClock(system, system)
  BY DEF SameClock
<1>10. Complete(a, <<put, puts>> \o AppendTx(system, tx)
                     \o <<Commit(StoreState(end), wallets[to].balance + amount > MaxU64)>>)
  BY <1>1, <1>4, <1>5, <1>7, <1>8, <1>9, UserPlan DEF Begins
<1>11. MoveCoins(from, to, amount) = <<put, puts>>
  BY Zenon DEF MoveCoins, put, puts, paid, got
<1> QED BY <1>10, <1>11, Zenon DEF TransferPlan, tx, end

LEMMA BurnPlanComplete ==
    ASSUME NEW a, Begins(a), NEW from \in DOMAIN wallets,
           NEW amount \in Amounts, NEW nonce, wallets[from].balance >= amount
    PROVE  Complete(a, BurnPlan(from, amount, nonce))
<1> DEFINE tx     == BurnTx(from, amount, nonce)
           supply == SatSub(system.total_supply, amount)
           mem    == [system EXCEPT !.total_supply = SatSub(@, amount)]
           paid   == Spent(wallets[from], amount, {}, system.current_iteration)
           end    == Activated(Ticked(mem, tx), {from})
<1>1. /\ SystemOK(system) /\ amount \in Nat /\ system.current_iteration \in Nat
      /\ wallets[from] \in WalletRecord(WalletId) /\ from \in WalletId
  <2>1. SystemOK(system)
    BY DEF Begins, Ready
  <2>2. amount \in Nat
    <3>1. amount \in 0..MaxU64
      BY Zenon
    <3> QED BY <3>1
  <2>3. system.current_iteration \in Nat
    BY <2>1, SystemFields
  <2> QED BY <2>1, <2>2, <2>3, WalletsFound
<1>2. paid \in WalletRecord(WalletId) /\ paid.last_active_iteration = system.current_iteration
  <2>1. {} \in SUBSET WalletId /\ amount \in 0..MaxU64
    OBVIOUS
  <2> QED BY <1>1, <2>1, SpentType
<1>3. SystemOK(mem) /\ SameClock(mem, system)
  <2>1. system.total_supply \in 0..MaxU64
    BY <1>1 DEF SystemOK, SystemRecord
  <2>2. supply \in 0..MaxU64
    BY <1>1, <2>1 DEF SatSub
  <2>3. mem = [system EXCEPT !.total_supply = supply]
    BY <1>1 DEF SystemOK, SystemRecord
  <2> HIDE DEF supply
  <2> QED BY <1>1, <2>2, <2>3, SuppliedSystem
<1>4. IsFiniteSet(WalletIds(tx)) /\ IsFiniteSet({from})
  <2>1. IsFiniteSet(WalletIds(tx))
    BY UserTxWallets
  <2> QED BY <2>1, FS_Singleton
<1> HIDE DEF tx, mem, paid
<1>5. SystemOK(end) /\ SameClock(end, Ticked(mem, tx))
  <2>1. SystemOK(Ticked(mem, tx))
    BY <1>3, TickedSystem
  <2> QED BY <1>4, <2>1, ActivatedSystem DEF Begins
<1> HIDE DEF end
<1>6. PICK b : /\ Path(a, <<PutWallet(from, paid, system)>>, b)
               /\ Ready(b, system) /\ Agrees(b, system)
  BY <1>1, <1>2, UserPut DEF Begins
<1>7. Complete(a, <<PutWallet(from, paid, system)>> \o AppendTx(mem, tx)
                    \o <<Commit(StoreState(end), FALSE)>>)
  BY <1>3, <1>4, <1>5, <1>6, UserPlan DEF Begins
<1> QED BY <1>7, Zenon DEF BurnPlan, tx, mem, paid, end

\* InSomeOrder lists a finite set.
LEMMA Listing ==
    ASSUME NEW S, IsFiniteSet(S)
    PROVE  InSomeOrder(S) \in Seq(S)
<1> DEFINE n == Cardinality(S)
<1>1. n \in Nat
  BY FS_CardinalityType
<1>2. PICK f \in Bijection(1..n, S) : TRUE
  BY FS_CardinalityType DEF ExistsBijection
<1>3. f \in [1..n -> S] /\ IsInjective(f)
  BY <1>2 DEF Bijection, Injection, IsInjective
<1>4. InSomeOrder(S) \in [1..n -> S]
  <2>1. \E g \in [1..n -> S] : IsInjective(g)
    BY <1>3
  <2> QED BY <2>1, Zenon DEF InSomeOrder
<1> HIDE DEF n
<1> QED BY <1>1, <1>4

\* An iteration's memory, with the books it found.
LEMMA CommittedSystem ==
    ASSUME NEW sys, SystemOK(sys), NEW r, NEW p \in Parameters,
           NEW S, IsFiniteSet(S), NEW ids, NEW ws, NEW paid, IterationReturns(r, S, ids, ws, p, sys, paid)
    PROVE  /\ SystemOK(Committed(Locked(sys), r))
           /\ Committed(Locked(sys), r).current_tick = sys.current_tick
           /\ Committed(Locked(sys), r).last_poh_hash = sys.last_poh_hash
           /\ Committed(Locked(sys), r).current_iteration = sys.current_iteration + 1
           /\ ~Committed(Locked(sys), r).iteration_lock
<1> DEFINE post    == r.commit.post_supply
           n       == r.n_wallets
           fresh   == Cardinality(r.commit.new_wallets)
           it      == r.commit.iteration_id
           tick    == sys.current_tick
           snap    == r.commit.snapshot_supply
           infl    == r.commit.inflation
           m       == Committed(Locked(sys), r)
<1>1. /\ PlannedNewWallets(p, Cardinality(S)) \in Nat
      /\ fresh = PlannedNewWallets(p, Cardinality(S))
      /\ n = Cardinality(S) + PlannedNewWallets(p, Cardinality(S))
      /\ it = sys.current_iteration + 1
      /\ infl \in Int
      /\ snap \in 0..MaxU64
      /\ post = (Total(Balances(paid)) + PlannedNewWallets(p, Cardinality(S)) * p.seed)
                   % (MaxU64 + 1)
      /\ Total(Balances(paid)) \in Nat
  BY Zenon DEF IterationReturns
<1>2. Cardinality(S) \in Nat /\ sys.current_iteration \in Nat /\ tick \in Nat
  BY FS_CardinalityType, SystemFields
<1>3. post \in 0..MaxU64
  <2>1. PICK k \in Nat : k = PlannedNewWallets(p, Cardinality(S)) * p.seed
    <3>1. p.seed \in Nat
      BY DEF Parameters
    <3> QED BY <1>1, <3>1
  <2>2. (Total(Balances(paid)) + k) % (MaxU64 + 1) \in 0..MaxU64
    BY <1>1, <2>1
  <2> QED BY <1>1, <2>1, <2>2
<1>4. n \in Nat /\ fresh \in Nat /\ it \in Nat
  BY <1>1, <1>2
<1>5. m = [Locked(sys) EXCEPT !.total_supply = post, !.n_wallets = n, !.n_active_wallets = fresh,
                              !.current_iteration = it, !.iteration_started_at = tick,
                              !.previous_iteration_start_supply = snap,
                              !.previous_iteration_supply = post, !.last_inflation = infl,
                              !.iteration_lock = FALSE]
  BY LockedSystem DEF Committed
<1> HIDE DEF post, n, fresh, it, snap, infl, m
<1>6. /\ m \in SystemRecord({sys.last_poh_hash})
      /\ m.current_tick = sys.current_tick /\ m.last_poh_hash = sys.last_poh_hash
      /\ m.current_iteration = it /\ m.iteration_lock = FALSE
  <2>1. Locked(sys) \in SystemRecord({sys.last_poh_hash})
    BY LockedSystem DEF SystemOK
  <2>2. /\ Locked(sys).current_tick = sys.current_tick
        /\ Locked(sys).last_poh_hash = sys.last_poh_hash
    BY LockedSystem
  <2>3. post \in 0..MaxU64 /\ n \in Nat /\ fresh \in Nat /\ it \in Nat /\ tick \in Nat
    BY <1>2, <1>3, <1>4
  <2>4. snap \in 0..MaxU64 /\ infl \in Int
    BY <1>1
  <2> DEFINE l == Locked(sys)
             h == sys.last_poh_hash
  <2> HIDE DEF l, h, tick
  <2>5. /\ m \in SystemRecord({h})
        /\ m.current_tick = l.current_tick /\ m.last_poh_hash = l.last_poh_hash
        /\ m.current_iteration = it /\ m.iteration_lock = FALSE
    <3>1. l \in SystemRecord({h})
      BY <2>1 DEF l, h
    <3> QED BY <1>5, <2>3, <2>4, <3>1 DEF SystemRecord, l
  <2> QED BY <2>2, <2>5 DEF l, h
<1> QED BY <1>1, <1>6 DEF SystemOK, m, it

\* q puts the wallets of ids, which were last active in T.
WalletPuts(q, ids, new, m) ==
    q = [i \in 1..Len(ids) |-> PutWallet(ids[i], new[ids[i]], m)]

WalletsWithin(ids, new, T) ==
    \A i \in 1..Len(ids) : /\ new[ids[i]] \in WalletRecord(WalletId)
                           /\ new[ids[i]].last_active_iteration \in T

\* The wallets an iteration writes while the stored lock fences it off.
LEMMA WalletsPath ==
    ASSUME NEW a, NEW m, Ready(a, m), m.iteration_lock, a.lock,
           NEW ids \in Seq(WalletId), NEW new, NEW T \in SUBSET Nat, WalletsWithin(ids, new, T),
           NEW q, WalletPuts(q, ids, new, m)
    PROVE  \E b : /\ Path(a, q, b) /\ Ready(b, m) /\ b.lock
                  /\ b.tick = a.tick /\ b.hash = a.hash /\ b.filed = a.filed
                  /\ b.active \subseteq a.active \cup T
<1> DEFINE b == Active(a, T)
<1>1. /\ IsSummary(b) /\ b.lock /\ b.active = a.active \cup T
      /\ b.tick = a.tick /\ b.hash = a.hash /\ b.filed = a.filed
  BY ActiveSummary DEF Ready
<1>2. Ready(b, m)
  <2> HIDE DEF b
  <2> QED BY <1>1 DEF Ready, Fenced, Resumable
<1>3. Active(b, T) = b
  <2> HIDE DEF b
  <2>1. [b EXCEPT !.active = b.active] = b
    BY <1>1 DEF IsSummary
  <2>2. b.active \cup T = b.active
    BY <1>1
  <2> QED BY <2>1, <2>2 DEF Active
<1>4. ASSUME NEW i \in 1..Len(ids), NEW c \in {a, b} PROVE Links(c, q[i], b)
  <2>1. ids[i] \in WalletId /\ Active(c, T) = b /\ Ready(c, m)
    BY <1>2, <1>3
  <2>2. Fenced(Active(c, T)) /\ Resumable(Active(c, T), m)
    BY <1>2, <2>1 DEF Ready
  <2> HIDE DEF b
  <2>3. Links(c, PutWallet(ids[i], new[ids[i]], m), Active(c, T))
    BY <2>1, <2>2, WalletLink DEF WalletsWithin
  <2> QED BY <2>1, <2>3 DEF WalletPuts
<1>5. q \in Seq({q[i] : i \in 1..Len(ids)}) /\ Len(q) = Len(ids) /\ Len(ids) \in Nat
  BY DEF WalletPuts
<1> HIDE DEF b
<1>6. CASE Len(ids) = 0
  <2>1. q \in Seq({}) /\ \A i \in 1..Len(q) : Links(a, q[i], a)
    BY <1>5, <1>6
  <2>2. Path(a, q, a)
    BY <2>1, PathSame
  <2> QED BY <2>2
<1>7. CASE Len(ids) # 0
  <2> DEFINE f == [i \in 0..Len(ids) |-> IF i = 0 THEN a ELSE b]
  <2>1. f[0] = a /\ f[Len(ids)] = b /\ \A i \in 0..Len(ids) : f[i] \in {a, b}
    BY <1>5, <1>7
  <2>2. \A i \in 1..Len(ids) : f[i] = b /\ i - 1 \in 0..Len(ids)
    BY <1>5
  <2> HIDE DEF f
  <2>3. \A i \in 1..Len(ids) : Links(f[i - 1], q[i], f[i])
    BY <1>4, <2>1, <2>2
  <2>4. Path(a, q, b)
    BY <1>5, <2>1, <2>3 DEF Path
  <2> QED BY <1>1, <1>2, <2>4
<1> QED BY <1>6, <1>7

\* The commit is appended, filed and counted, in this order; the stored lock is the last to go.
LEMMA FinishPath ==
    ASSUME NEW x, NEW p, NEW a, Path(x, p, a),
           NEW m, NEW commit, Ready(a, m), ~m.iteration_lock, IsFiniteSet(WalletIds(commit)),
           a.lock, a.tick = m.current_tick, a.hash = m.last_poh_hash,
           commit.iteration_id = m.current_iteration, m.current_iteration = a.filed + 1,
           NEW o
    PROVE  Complete(x, p \o AppendTx(m, commit) \o FinishIteration(Ticked(m, commit), commit, o))
<1> DEFINE end  == Ticked(m, commit)
           app  == AppendTx(m, commit)
           c    == Appended(a, commit)
           d    == [c EXCEPT !.filed = @ + 1]
           b    == Counted(d, end)
           file == Write("iterations", commit.iteration_id, commit, end)
           put  == Commit(StoreState(end), o)
           last == Flush(end)
<1>1. Path(a, app, c) /\ Ready(c, end)
  BY AppendPath
<1>2. /\ c.tick = a.tick + 1 /\ c.hash = PohHash(a.hash, a.tick + 1, commit)
      /\ c.filed = a.filed /\ c.lock /\ IsSummary(c)
  BY AppendedSummary DEF Ready
<1>3. /\ SystemOK(end) /\ end.current_tick = m.current_tick + 1
      /\ end.last_poh_hash = PohHash(m.last_poh_hash, m.current_tick + 1, commit)
      /\ end.current_iteration = m.current_iteration
      /\ ~end.iteration_lock
  BY TickedSystem DEF Ready
<1> HIDE DEF end, app, c
<1>4. /\ IsSummary(d) /\ d.tick = c.tick /\ d.hash = c.hash /\ d.filed = c.filed + 1
      /\ d.active = c.active /\ d.lock = c.lock /\ d.counted = c.counted
  <2>1. PICK n : n = c.filed + 1
    OBVIOUS
  <2>2. d = [c EXCEPT !.filed = n]
    BY <2>1
  <2> HIDE DEF d
  <2>3. d = [tick |-> c.tick, hash |-> c.hash, filed |-> n, txs |-> c.txs,
             active |-> c.active, lock |-> c.lock, counted |-> c.counted]
    BY <1>2, <2>2 DEF IsSummary
  <2>4. /\ d.tick = c.tick /\ d.hash = c.hash /\ d.filed = n /\ d.txs = c.txs
        /\ d.active = c.active /\ d.lock = c.lock /\ d.counted = c.counted
    BY <2>3
  <2>5. n \in Nat
    BY <1>2, <2>1 DEF IsSummary
  <2>6. IsSummary(d)
    BY <1>2, <2>3, <2>4, <2>5 DEF IsSummary
  <2> QED BY <2>1, <2>4, <2>6
<1>5. d = [c EXCEPT !.filed = @ + 1]
  OBVIOUS
<1> HIDE DEF d
<1>6. Ready(d, end) /\ Agrees(d, end)
  BY <1>1, <1>2, <1>3, <1>4 DEF Ready, Fenced, Resumable, Agrees
<1>7. Links(c, file, d)
  <2>1. /\ WriteOK(file) /\ file.tree = "iterations" /\ file.key = commit.iteration_id
        /\ file.mem = end
    BY <1>3, WriteIsOK DEF Trees
  <2> HIDE DEF file
  <2> QED BY <1>1, <1>2, <1>5, <1>6, <2>1 DEF Links, Ready
<1>8. Links(d, put, b) /\ Ready(b, end) /\ Agrees(b, end)
  BY <1>3, <1>6, UserStateLink
<1> HIDE DEF b
<1>9. Links(b, last, b)
  BY <1>8, FlushLink
<1> HIDE DEF file, put, last
<1>10. Path(c, <<file>>, d) /\ Path(d, <<put>>, b) /\ Path(b, <<last>>, b)
  BY <1>7, <1>8, <1>9, PathOne
<1>11. Path(c, <<file, put, last>>, b)
  <2>1. Path(c, <<file>> \o <<put>>, b)
    BY <1>10, PathConcat
  <2>2. Path(c, (<<file>> \o <<put>>) \o <<last>>, b)
    BY <1>10, <2>1, PathConcat
  <2>3. (<<file>> \o <<put>>) \o <<last>> = <<file, put, last>>
    BY ThreeWrites
  <2> QED BY <2>2, <2>3
<1>12. FinishIteration(end, commit, o) = <<file, put, last>>
  BY Zenon DEF FinishIteration, file, put, last
<1> DEFINE q == p \o app
<1>13. Path(x, q, c)
  BY <1>1, PathConcat
<1> HIDE DEF q
<1>14. Path(x, q \o <<file, put, last>>, b)
  BY <1>11, <1>13, PathConcat
<1>15. q \o <<file, put, last>> # << >>
       /\ (q \o <<file, put, last>>)[Len(q \o <<file, put, last>>)] = last
  <2>1. PICK S : q \in Seq(S)
    BY <1>13 DEF Path
  <2>2. PICK T : T = S \cup {file, put, last}
    OBVIOUS
  <2>3. q \in Seq(T) /\ <<file, put, last>> \in Seq(T) /\ Len(<<file, put, last>>) = 3
    BY <2>1, <2>2
  <2>4. Len(q \o <<file, put, last>>) = Len(q) + 3 /\ Len(q) \in Nat
    BY <2>3
  <2>5. (q \o <<file, put, last>>)[Len(q) + 3] = last
    BY <2>3, <2>4
  <2> QED BY <2>4, <2>5
<1>16. last.mem = end
  BY <1>3, WriteIsOK DEF Trees, Flush, last
<1>17. Complete(x, q \o <<file, put, last>>)
  BY <1>8, <1>14, <1>15, <1>16 DEF Complete
<1> QED BY <1>12, <1>17 DEF q, app, end

LEMMA IterationWritesComplete ==
    ASSUME NEW a, Begins(a), NEW p \in Parameters, NEW first
    PROVE  Complete(a, IterationWrites(p, first))
<1> DEFINE r      == ExecuteIteration(wallets, p, system, first)
           D      == DOMAIN wallets
           locked == Locked(system)
           mem    == Committed(locked, r)
           F      == r.commit.new_wallets
           it     == system.current_iteration + 1
           ids    == InSomeOrder(D) \o InSomeOrder(F)
           puts   == [i \in 1..Len(ids) |-> PutWallet(ids[i], r.wallets[ids[i]], locked)]
           fin    == FinishIteration(Ticked(mem, r.commit), r.commit, IterationOverflows(r))
           T      == {n \in Nat : n <= it}
<1>1. /\ SystemOK(system) /\ IsFiniteSet(D) /\ D \subseteq WalletId
      /\ wallets \in [D -> WalletRecord(WalletId)]
      /\ system.current_iteration \in Nat
      /\ system.previous_iteration_supply \in Nat
      /\ system.previous_iteration_start_supply \in Nat
  <2>1. SystemOK(system)
    BY DEF Begins, Ready
  <2> QED BY <2>1, SystemFields DEF Begins, WalletsOK
<1> HIDE DEF r, D
<1>2. PICK paid : IterationReturns(r, D, WalletId, wallets, p, system, paid)
  BY <1>1, IterationShape DEF r
<1>3. /\ IsFiniteSet(F) /\ F \subseteq FaucetIds
      /\ \A w \in D : paid[w].last_active_iteration = wallets[w].last_active_iteration
      /\ r.wallets = AddFresh(paid, F, p.seed, it)
      /\ r.wallets \in [D \cup F -> WalletRecord(WalletId)]
      /\ r.commit.kind = "iteration_commit"
      /\ r.commit.iteration_id = it
      /\ DOMAIN r.commit.penalties = D
  BY <1>2, Zenon DEF IterationReturns
<1>4. /\ SystemOK(mem) /\ mem.current_tick = system.current_tick
      /\ mem.last_poh_hash = system.last_poh_hash
      /\ mem.current_iteration = it /\ ~mem.iteration_lock
  BY <1>1, <1>2, CommittedSystem
<1>5. /\ SystemOK(locked) /\ locked.iteration_lock
      /\ locked.current_tick = system.current_tick /\ locked.last_poh_hash = system.last_poh_hash
      /\ locked.current_iteration = system.current_iteration
  BY <1>1, LockedSystem
<1> HIDE DEF locked, mem, F
<1>6. ids \in Seq(D \cup F) /\ ids \in Seq(WalletId) /\ \A i \in 1..Len(ids) : ids[i] \in D \cup F
  <2>1. InSomeOrder(D) \in Seq(D) /\ InSomeOrder(F) \in Seq(F)
    BY <1>1, <1>3, Listing
  <2>2. InSomeOrder(D) \in Seq(D \cup F) /\ InSomeOrder(F) \in Seq(D \cup F)
    BY <2>1
  <2>3. ids \in Seq(D \cup F)
    BY <2>2
  <2>4. D \cup F \subseteq WalletId
    BY <1>1, <1>3 DEF WalletId
  <2> HIDE DEF ids
  <2> QED BY <2>3, <2>4
<1> HIDE DEF ids
<1>7. \A w \in D \cup F : /\ r.wallets[w] \in WalletRecord(WalletId)
                          /\ r.wallets[w].last_active_iteration \in T
  <2> TAKE w \in D \cup F
  <2>1. r.wallets[w] \in WalletRecord(WalletId)
    BY <1>3
  <2>2. CASE w \in F
    <3>1. r.wallets[w] = NewWallet(p.seed, it)
      <4>1. w \in DOMAIN paid \cup F
        BY <2>2
      <4> QED BY <1>3, <2>2, <4>1 DEF AddFresh
    <3> QED BY <1>1, <2>1, <3>1 DEF NewWallet
  <2>3. CASE w \notin F
    <3>1. DOMAIN paid = D
      BY <1>2, Zenon DEF IterationReturns
    <3>2. r.wallets[w] = paid[w]
      BY <1>3, <2>3, <3>1 DEF AddFresh
    <3>3. w \in DOMAIN wallets
      BY <2>3 DEF D
    <3>4. /\ wallets[w].last_active_iteration <= system.current_iteration
          /\ wallets[w] \in WalletRecord(WalletId)
      BY <3>3, WalletsFound
    <3> QED BY <1>1, <1>3, <2>1, <2>3, <3>2, <3>4 DEF WalletRecord
  <2> QED BY <2>2, <2>3
<1>8. IsFiniteSet(WalletIds(r.commit))
  <2>1. WalletIds(r.commit) = D \cup F
    BY <1>3 DEF WalletIds, F
  <2>2. IsFiniteSet(D \cup F)
    BY <1>1, <1>3, FS_Union
  <2> QED BY <2>1, <2>2
<1> DEFINE b == Counted(a, locked)
<1>9. /\ Links(a, StoreState(locked), b) /\ Ready(b, locked)
      /\ b.tick = a.tick /\ b.hash = a.hash /\ b.filed = a.filed
      /\ b.active = a.active /\ b.lock
  <2>1. Ready(a, locked) /\ Agrees(a, locked)
    BY <1>5 DEF Begins, Ready, Resumable, Agrees
  <2>2. /\ b.tick = a.tick /\ b.hash = a.hash /\ b.filed = a.filed
        /\ b.active = a.active /\ b.lock
    BY <1>5, CountedSummary DEF Begins, Ready
  <2>3. Fenced(b) /\ Resumable(b, locked)
    BY <1>5, <2>2 DEF Fenced, Resumable
  <2> QED BY <2>1, <2>2, <2>3, StateLink
<1> HIDE DEF b
<1>10. PICK c : /\ Path(b, puts, c) /\ Ready(c, locked) /\ c.lock
                /\ c.tick = b.tick /\ c.hash = b.hash /\ c.filed = b.filed
                /\ c.active \subseteq b.active \cup T
  <2> DEFINE new == r.wallets
  <2>1. WalletsWithin(ids, new, T)
    BY <1>6, <1>7 DEF WalletsWithin
  <2>2. WalletPuts(puts, ids, new, locked)
    BY Zenon DEF WalletPuts
  <2>3. T \in SUBSET Nat
    OBVIOUS
  <2> HIDE DEF puts, T, new, fin, it
  <2>4. ids \in Seq(WalletId) /\ Ready(b, locked) /\ locked.iteration_lock /\ b.lock
    BY <1>5, <1>6, <1>9
  <2> QED BY <2>1, <2>2, <2>3, <2>4, WalletsPath
<1> HIDE DEF puts
<1>11. /\ Ready(c, mem) /\ c.tick = mem.current_tick /\ c.hash = mem.last_poh_hash
       /\ mem.current_iteration = c.filed + 1
  <2>1. /\ a.tick = system.current_tick /\ a.hash = system.last_poh_hash
        /\ a.filed = system.current_iteration
        /\ \A n \in a.active : n \in Nat /\ n <= system.current_iteration
    BY DEF Begins, Ready, Agrees, Resumable, IsSummary
  <2>2. \A n \in c.active : n <= it
    BY <1>1, <1>9, <1>10, <2>1
  <2>3. Resumable(c, mem)
    BY <1>4, <1>10, <2>2 DEF Resumable
  <2> QED BY <1>4, <1>9, <1>10, <2>1, <2>3 DEF Ready
<1>12. Path(a, <<StoreState(locked)>> \o puts, c)
  <2>1. Path(a, <<StoreState(locked)>>, b)
    BY <1>9, PathOne
  <2> QED BY <1>10, <2>1, PathConcat
<1>13. Complete(a, <<StoreState(locked)>> \o puts \o AppendTx(mem, r.commit) \o fin)
  BY <1>3, <1>4, <1>8, <1>10, <1>11, <1>12, FinishPath
<1> QED BY <1>13, Zenon DEF IterationWrites, TakeLock, r, D, locked, mem, F, ids, puts

\* The plan of an iteration that panics ends with the lock.
LEMMA IterationPlanComplete ==
    ASSUME NEW a, Begins(a), NEW p \in Parameters, NEW first
    PROVE  Complete(a, IterationPlan(p, first))
<1> DEFINE locked == Locked(system)
           b      == Counted(a, locked)
<1>1. CASE ~Panics(p)
  BY <1>1, IterationWritesComplete DEF IterationPlan
<1>2. CASE Panics(p)
  <2>1. Ready(a, locked) /\ Agrees(a, locked) /\ locked.iteration_lock
    BY LockedSystem DEF Begins, Ready, Resumable, Agrees
  <2>2. b.lock = locked.iteration_lock
    BY <2>1, CountedSummary DEF Ready
  <2> HIDE DEF locked, b
  <2>3. Fenced(b) /\ Resumable(b, locked)
    BY <2>1, <2>2 DEF Fenced, Resumable
  <2>4. Links(a, StoreState(locked), b) /\ Agrees(b, locked)
    BY <2>1, <2>3, StateLink DEF b
  <2>5. Path(a, <<StoreState(locked)>>, b)
    BY <2>4, PathOne
  <2>6. StoreState(locked).mem = locked
    BY <2>1, WriteIsOK DEF StoreState, Trees, Ready
  <2>7. Complete(a, <<StoreState(locked)>>)
    BY <2>4, <2>5, <2>6 DEF Complete
  <2> QED BY <1>2, <2>7 DEF IterationPlan, TakeLock, locked
<1> QED BY <1>1, <1>2

\* q is p with its last write committing.
CommitsLast(q, p, o) == q = [p EXCEPT ![Len(p)] = Commit(@, o)]

\* An entry of a seed file commits with its PoH entry.
LEMMA CommittedPath ==
    ASSUME NEW a, NEW b, NEW p, Path(a, p, b), p # << >>,
           NEW q, NEW o, CommitsLast(q, p, o)
    PROVE  Path(a, q, b) /\ Len(q) = Len(p) /\ q # << >> /\ q[Len(q)].mem = p[Len(p)].mem
<1>1. PICK S : p \in Seq(S)
  BY DEF Path
<1>2. PICK f : /\ f[0] = a /\ f[Len(p)] = b
               /\ \A i \in 1..Len(p) : Links(f[i - 1], p[i], f[i])
  BY DEF Path
<1> DEFINE n == Len(p)
           w == Commit(p[n], o)
<1>3. n \in Nat \ {0} /\ n \in 1..n
  BY <1>1
<1>4. Links(f[n - 1], p[n], f[n])
  BY <1>2, <1>3
<1>5. Links(f[n - 1], w, f[n]) /\ w.mem = p[n].mem
  BY <1>4, CommitLinks
<1>6. q = [p EXCEPT ![n] = w]
  BY Zenon DEF CommitsLast
<1> HIDE DEF w
<1>7. /\ q \in Seq(S \cup {w}) /\ Len(q) = n /\ q[n] = w
      /\ \A i \in 1..n : i # n => q[i] = p[i]
  <2>1. p \in [1..n -> S]
    BY <1>1
  <2>2. q = [i \in 1..n |-> IF i = n THEN w ELSE p[i]]
    BY <1>6, <2>1
  <2> HIDE DEF n
  <2> QED BY <1>3, <2>1, <2>2
<1>8. \A i \in 1..n : Links(f[i - 1], q[i], f[i])
  BY <1>2, <1>5, <1>7
<1>9. Path(a, q, b)
  BY <1>2, <1>7, <1>8 DEF Path
<1> QED BY <1>3, <1>5, <1>7, <1>9

\* After some entries: what has been written is a path to a summary that the memory agrees with.
LoopInv(a, done) ==
    /\ \E b : Path(a, done.writes, b) /\ Ready(b, done.mem) /\ Agrees(b, done.mem)
    /\ ~done.mem.iteration_lock
    /\ done.mem.current_iteration = system.current_iteration
    /\ done.writes # << >> => done.writes[Len(done.writes)].mem = done.mem
    /\ done = [mem |-> done.mem, ids |-> done.ids, writes |-> done.writes,
               failed |-> done.failed]

LEMMA EntryKeepsLoop ==
    ASSUME NEW a, Begins(a), NEW done, LoopInv(a, done),
           NEW e \in [id : Users \cup {BadKey}, amount : Amounts]
    PROVE  LoopInv(a, InstallEntry(done, e))
<1> DEFINE tx     == MintTx(e.id, e.amount, done.mem.current_tick + 1, "seed_bootstrap")
           mem    == AfterCreate(done.mem, e.amount)
           app    == AppendTx(mem, tx)
           end    == Ticked(mem, tx)
           wallet == NewWallet(e.amount, system.current_iteration)
           put    == PutWallet(e.id, wallet, done.mem)
           over   == CreateOverflows(done.mem, e.amount)
           com    == [app EXCEPT ![Len(app)] = Commit(@, over)]
           new    == [mem |-> end, ids |-> done.ids \cup {e.id},
                      writes |-> done.writes \o <<put>> \o com, failed |-> FALSE]
<1>1. \/ InstallEntry(done, e) = done
      \/ InstallEntry(done, e) = [done EXCEPT !.failed = TRUE]
      \/ e.id # BadKey /\ InstallEntry(done, e) = new
  BY Zenon DEF InstallEntry
<1>2. LoopInv(a, [done EXCEPT !.failed = TRUE])
  <2>1. PICK m, ids, ws, f : done = [mem |-> m, ids |-> ids, writes |-> ws, failed |-> f]
    BY DEF LoopInv
  <2> DEFINE d == [done EXCEPT !.failed = TRUE]
  <2>2. d = [mem |-> m, ids |-> ids, writes |-> ws, failed |-> TRUE]
    <3>1. d = [done EXCEPT !.failed = TRUE]
      OBVIOUS
    <3> HIDE DEF d
    <3> QED BY <2>1, <3>1
  <2>3. /\ d.mem = done.mem /\ d.writes = done.writes
        /\ d = [mem |-> d.mem, ids |-> d.ids, writes |-> d.writes, failed |-> d.failed]
    BY <2>1, <2>2
  <2> HIDE DEF d
  <2>4. LoopInv(a, d)
    BY <2>3 DEF LoopInv
  <2> QED BY <2>4 DEF d
<1>3. ASSUME e.id # BadKey PROVE LoopInv(a, new)
  <2>1. PICK b : Path(a, done.writes, b) /\ Ready(b, done.mem) /\ Agrees(b, done.mem)
    BY DEF LoopInv
  <2>2. SystemOK(done.mem) /\ system.current_iteration \in Nat
    <3>1. SystemOK(done.mem) /\ SystemOK(system)
      BY <2>1 DEF Ready, Begins
    <3> QED BY <3>1, SystemFields
  <2>3. SystemOK(mem) /\ SameClock(mem, done.mem)
    BY <2>2, CreatedSystem
  <2>4. /\ e.id \in WalletId /\ wallet \in WalletRecord(WalletId)
        /\ wallet.last_active_iteration <= done.mem.current_iteration
    BY <1>3, <2>2 DEF WalletId, NewWallet, WalletRecord, LoopInv
  <2>5. IsFiniteSet(WalletIds(tx))
    BY UserTxWallets
  <2>6. /\ ~mem.iteration_lock /\ mem.current_iteration = system.current_iteration
    BY <2>3 DEF SameClock, LoopInv
  <2> HIDE DEF tx, mem, wallet
  <2>7. PICK c : Path(b, <<put>>, c) /\ Ready(c, done.mem) /\ Agrees(c, done.mem)
    BY <2>1, <2>4, UserPut DEF LoopInv
  <2>8. Ready(c, mem) /\ Agrees(c, mem)
    BY <2>3, <2>7, SameClockReady
  <2>9. c.tick = mem.current_tick /\ c.hash = mem.last_poh_hash
    BY <2>8 DEF Agrees
  <2> DEFINE d == Appended(c, tx)
  <2>10. /\ Path(c, app, d) /\ Ready(d, end) /\ Agrees(d, end)
         /\ Len(app) \in Nat \ {0} /\ app[Len(app)].mem = end
    BY <2>5, <2>8, <2>9, AppendPath
  <2>11. ~end.iteration_lock /\ end.current_iteration = system.current_iteration
    BY <2>3, <2>6, TickedSystem
  <2> HIDE DEF app, end, d, put
  <2>12. app # << >>
    BY <2>10
  <2>13. CommitsLast(com, app, over)
    BY Zenon DEF CommitsLast
  <2> HIDE DEF com
  <2>14. Path(c, com, d) /\ com # << >> /\ com[Len(com)].mem = end
    BY <2>10, <2>12, <2>13, CommittedPath
  <2> DEFINE q == done.writes \o <<put>>
  <2>15. Path(a, q, c)
    BY <2>1, <2>7, PathConcat
  <2> HIDE DEF q
  <2>16. Path(a, q \o com, d)
    BY <2>14, <2>15, PathConcat
  <2>17. (q \o com)[Len(q \o com)] = com[Len(com)]
    <3>1. PICK S : q \in Seq(S)
      BY <2>15 DEF Path
    <3>2. PICK T : com \in Seq(T)
      BY <2>14 DEF Path
    <3>3. q \in Seq(S \cup T) /\ com \in Seq(S \cup T)
      BY <3>1, <3>2
    <3>4. Len(q \o com) = Len(q) + Len(com) /\ Len(q) \in Nat /\ Len(com) \in Nat \ {0}
      BY <2>14, <3>3
    <3> QED BY <3>3, <3>4
  <2> DEFINE ws == q \o com
  <2> HIDE DEF ws
  <2>18. new = [mem |-> end, ids |-> done.ids \cup {e.id}, writes |-> ws, failed |-> FALSE]
    BY DEF ws, q
  <2> HIDE DEF new
  <2>19. /\ new.mem = end /\ new.writes = ws
         /\ new = [mem |-> new.mem, ids |-> new.ids, writes |-> new.writes,
                   failed |-> new.failed]
    BY <2>18
  <2>20. Path(a, ws, d) /\ ws[Len(ws)].mem = end
    BY <2>14, <2>16, <2>17 DEF ws
  <2> QED BY <2>10, <2>11, <2>19, <2>20 DEF LoopInv
<1> HIDE DEF new
<1> QED BY <1>1, <1>2, <1>3

\* The loop of SeedLoop, entry by entry.
LoopStart ==
    [mem |-> system, ids |-> DOMAIN wallets, writes |-> << >>, failed |-> FALSE]

Loops(f, entries, k) ==
    f = [n \in 0..k |-> IF n = 0 THEN LoopStart ELSE InstallEntry(f[n - 1], entries[n])]

LEMMA LoopUnfolds ==
    ASSUME NEW f, NEW entries, NEW k \in Nat, Loops(f, entries, k)
    PROVE  /\ f[0] = LoopStart
           /\ \A n \in 1..k : f[n] = InstallEntry(f[n - 1], entries[n])
<1>1. \A n \in 0..k : f[n] = IF n = 0 THEN LoopStart ELSE InstallEntry(f[n - 1], entries[n])
  BY Zenon DEF Loops
<1>2. 0 \in 0..k /\ \A n \in 1..k : n \in 0..k /\ n # 0
  OBVIOUS
<1> QED BY <1>1, <1>2, Zenon

LEMMA LoopExists ==
    ASSUME NEW entries, NEW k \in Nat
    PROVE  \E f : Loops(f, entries, k)
<1> DEFINE T == {n \in 0..k : \E f : Loops(f, entries, n)}
<1>1. 0 \in T
  <2> DEFINE f == [n \in 0..0 |-> LoopStart]
  <2>1. f = [n \in 0..0 |-> IF n = 0 THEN LoopStart ELSE InstallEntry(f[n - 1], entries[n])]
    OBVIOUS
  <2> HIDE DEF f
  <2>2. Loops(f, entries, 0)
    BY <2>1, Zenon DEF Loops
  <2> QED BY <2>2
<1>2. \A j \in 0..(k - 1) : j \in T => j + 1 \in T
  <2> SUFFICES ASSUME NEW j \in 0..(k - 1), j \in T PROVE j + 1 \in T
    OBVIOUS
  <2>1. PICK f : Loops(f, entries, j)
    OBVIOUS
  <2>2. j \in Nat /\ j + 1 \in 0..k
    OBVIOUS
  <2> DEFINE g == [n \in 0..(j + 1) |-> IF n = j + 1 THEN InstallEntry(f[j], entries[j + 1])
                                       ELSE f[n]]
  <2>3. f[0] = LoopStart /\ \A n \in 1..j : f[n] = InstallEntry(f[n - 1], entries[n])
    BY <2>1, <2>2, LoopUnfolds
  <2>4. /\ g[j + 1] = InstallEntry(f[j], entries[j + 1])
        /\ \A n \in 0..j : g[n] = f[n]
    BY <2>2
  <2>5. g = [n \in 0..(j + 1) |-> g[n]]
    OBVIOUS
  <2> HIDE DEF g
  <2>6. \A n \in 0..(j + 1) : g[n] = IF n = 0 THEN LoopStart ELSE InstallEntry(g[n - 1], entries[n])
    <3> TAKE n \in 0..(j + 1)
    <3>1. CASE n = 0
      BY <2>2, <2>3, <2>4, <3>1
    <3>2. CASE n = j + 1
      <4>1. n # 0 /\ n - 1 = j /\ j \in 0..j
        BY <2>2, <3>2
      <4> QED BY <2>4, <3>2, <4>1
    <3>3. CASE n \in 1..j
      <4>1. n # 0 /\ n - 1 \in 0..j /\ n \in 0..j
        BY <3>3
      <4> QED BY <2>3, <2>4, <3>3, <4>1
    <3> QED BY <2>2, <3>1, <3>2, <3>3
  <2>7. g = [n \in 0..(j + 1) |-> IF n = 0 THEN LoopStart ELSE InstallEntry(g[n - 1], entries[n])]
    BY <2>5, <2>6
  <2>8. Loops(g, entries, j + 1)
    BY <2>7, Zenon DEF Loops
  <2> QED BY <2>2, <2>8
<1>3. 0..k \subseteq T
  <2> HIDE DEF T
  <2> QED BY <1>1, <1>2, IntervalInduction
<1> QED BY <1>3

LEMMA LoopKept ==
    ASSUME NEW a, Begins(a), NEW entries \in SeedFiles
    PROVE  LoopInv(a, SeedLoop(entries))
<1> DEFINE k == Len(entries)
           f == CHOOSE f : Loops(f, entries, k)
<1>1. k \in Nat /\ \A n \in 1..k : entries[n] \in [id : Users \cup {BadKey}, amount : Amounts]
  <2>1. PICK R : R = [id : Users \cup {BadKey}, amount : Amounts]
    OBVIOUS
  <2>2. entries \in Seq(R)
    BY <2>1, SeedFilesAssumption
  <2>3. Len(entries) \in Nat /\ \A n \in 1..Len(entries) : entries[n] \in R
    BY <2>2
  <2> QED BY <2>1, <2>3, Zenon
<1> HIDE DEF k
<1>2. Loops(f, entries, k)
  BY <1>1, LoopExists, Zenon
<1>3. SeedLoop(entries) = f[k]
  BY Zenon DEF SeedLoop, Loops, LoopStart, k
<1> HIDE DEF f
<1> DEFINE T == {n \in 0..k : LoopInv(a, f[n])}
<1>4. 0 \in T
  <2>1. f[0] = LoopStart
    BY <1>1, <1>2, LoopUnfolds
  <2>2. /\ f[0].mem = system /\ f[0].writes = << >>
        /\ f[0] = [mem |-> f[0].mem, ids |-> f[0].ids, writes |-> f[0].writes,
                   failed |-> f[0].failed]
    BY <2>1 DEF LoopStart
  <2>3. Path(a, << >>, a) /\ Ready(a, system) /\ Agrees(a, system) /\ ~system.iteration_lock
    BY PathEmpty DEF Begins
  <2>4. LoopInv(a, f[0])
    BY <2>2, <2>3 DEF LoopInv
  <2> QED BY <1>1, <2>4
<1>5. \A n \in 0..(k - 1) : n \in T => n + 1 \in T
  <2> SUFFICES ASSUME NEW n \in 0..(k - 1), n \in T PROVE n + 1 \in T
    OBVIOUS
  <2>1. n + 1 \in 1..k /\ n + 1 \in 0..k /\ (n + 1) - 1 = n
    BY <1>1
  <2>2. f[n + 1] = InstallEntry(f[n], entries[n + 1])
    BY <1>1, <1>2, <2>1, LoopUnfolds
  <2>3. LoopInv(a, f[n + 1])
    BY <1>1, <2>1, <2>2, EntryKeepsLoop
  <2> QED BY <2>1, <2>3
<1>6. 0..k \subseteq T
  <2> HIDE DEF T
  <2> QED BY <1>1, <1>4, <1>5, IntervalInduction
<1> QED BY <1>1, <1>3, <1>6

LEMMA SeedPlanComplete ==
    ASSUME NEW a, Begins(a), NEW entries \in SeedFiles
    PROVE  Complete(a, SeedPlan(entries))
<1> DEFINE done == SeedLoop(entries)
           m    == done.mem
           put  == StoreState(m)
           last == Flush(m)
<1>1. LoopInv(a, done)
  BY LoopKept
<1> HIDE DEF done
<1>2. PICK b : Path(a, done.writes, b) /\ Ready(b, m) /\ Agrees(b, m)
  BY <1>1 DEF LoopInv
<1>3. CASE done.failed
  <2>1. Complete(a, done.writes)
    BY <1>1, <1>2 DEF Complete, LoopInv
  <2> QED BY <1>3, <2>1 DEF SeedPlan, done
<1>4. CASE ~done.failed
  <2> DEFINE c == Counted(b, m)
  <2>1. Links(b, put, c) /\ Ready(c, m) /\ Agrees(c, m)
    BY <1>1, <1>2, UserStateLink DEF LoopInv
  <2>2. Links(c, last, c)
    BY <2>1, FlushLink
  <2>3. last.mem = m
    BY <1>2, WriteIsOK DEF Trees, Flush, Ready
  <2> HIDE DEF c, put, last
  <2> DEFINE ws == done.writes
  <2>4. Path(a, ws \o <<put>>, c)
    BY <1>2, <2>1, PathThen
  <2>5. /\ Path(a, (ws \o <<put>>) \o <<last>>, c)
        /\ ((ws \o <<put>>) \o <<last>>)[Len((ws \o <<put>>) \o <<last>>)] = last
    BY <2>2, <2>4, PathThen
  <2>6. (ws \o <<put>>) \o <<last>> = ws \o <<put, last>>
    <3>1. PICK S : ws \in Seq(S)
      BY <1>2 DEF Path
    <3>2. PICK T : T = S \cup {put, last}
      OBVIOUS
    <3> HIDE DEF ws
    <3>3. ws \in Seq(T) /\ <<put>> \in Seq(T) /\ <<last>> \in Seq(T)
      BY <3>1, <3>2
    <3>4. (ws \o <<put>>) \o <<last>> = ws \o (<<put>> \o <<last>>)
      BY <3>3, ConcatAssociative
    <3> QED BY <3>4, PairOfWrites
  <2>7. Complete(a, ws \o <<put, last>>)
    BY <2>1, <2>3, <2>5, <2>6 DEF Complete
  <2> QED BY <1>4, <2>7, Zenon DEF SeedPlan, done, put, last
<1> QED BY <1>3, <1>4

-----------------------------------------------------------------------------
(* The steps of the node.                                                  *)

\* The trees are what the invariant reads of a store.
SameStore(s, t) ==
    /\ t.wallets = s.wallets /\ t.poh = s.poh /\ t.iterations = s.iterations
    /\ t.stored = s.stored /\ t.transactions = s.transactions /\ t.tx_by_wallet = s.tx_by_wallet

LEMMA SameStoreInv ==
    ASSUME NEW s, NEW t, SameStore(s, t), NEW ok \in BOOLEAN, StoreInv(s, ok),
           NEW fine \in BOOLEAN, fine => ok
    PROVE  StoreInv(t, fine)
BY DEF SameStore, StoreInv

\* A handler that starts finds the store in order; after a storage error the node goes on with
\* the clock of its memory.
LEMMA BeginsSummary ==
    ASSUME NodeInv, Idle, ~system.iteration_lock
    PROVE  \E a : Begins(a) /\ Describes(a, Store, NoFailure)
<1>1. SystemOK(system) /\ StoreInv(Store, NoFailure) /\ Settled(Store, system, NoFailure)
  BY DEF NodeInv
<1>2. PICK a : /\ Describes(a, Store, NoFailure) /\ Resumable(a, system)
               /\ NoFailure => Agrees(a, system)
  BY <1>1 DEF Settled
<1>3. WalletsOK(wallets) /\ \A w \in DOMAIN wallets : wallets[w].last_active_iteration \in a.active
  BY <1>1, <1>2 DEF StoreInv, Describes, Store
<1>4. CASE NoFailure
  <2>1. Begins(a)
    BY <1>1, <1>2, <1>3, <1>4 DEF Begins, Ready, Describes
  <2> QED BY <1>2, <2>1
<1>5. CASE ~NoFailure
  <2> DEFINE c == [tick |-> system.current_tick, hash |-> system.last_poh_hash,
                   filed |-> system.current_iteration, txs |-> a.txs, active |-> a.active,
                   lock |-> a.lock, counted |-> a.counted]
  <2>1. IsSummary(a) /\ Fenced(a)
    BY <1>2 DEF Describes
  <2>2. system.current_tick \in Nat /\ system.current_iteration \in Nat
    BY <1>1, SystemFields
  <2>3. /\ c.tick = system.current_tick /\ c.hash = system.last_poh_hash
        /\ c.filed = system.current_iteration /\ c.txs = a.txs /\ c.active = a.active
        /\ c.lock = a.lock /\ c.counted = a.counted
    OBVIOUS
  <2>4. IsSummary(c)
    BY <2>1, <2>2 DEF IsSummary
  <2> HIDE DEF c
  <2>5. Fenced(c) /\ Resumable(c, system) /\ Agrees(c, system)
    BY <1>2, <2>1, <2>3 DEF Fenced, Resumable, Agrees
  <2>6. Describes(c, Store, NoFailure)
    BY <1>2, <1>5, <2>3, <2>4, <2>5 DEF Describes
  <2>7. Begins(c)
    BY <1>1, <1>3, <2>3, <2>4, <2>5 DEF Begins, Ready
  <2> QED BY <2>6, <2>7
<1> QED BY <1>4, <1>5

\* A handler passes its checks: its plan may be abandoned anywhere.
LEMMA StartStep ==
    ASSUME NodeInv, Idle, NEW a, Begins(a), Describes(a, Store, NoFailure),
           NEW p, Complete(a, p), Start(p)
    PROVE  NodeInv'
<1>1. /\ failures \in Nat /\ SystemOK(system) /\ StoreInv(Store, NoFailure)
      /\ StoreInv(durable, NoFailure)
  BY DEF NodeInv
<1>2. /\ plan' = p /\ Store' = Store /\ system' = system /\ durable' = durable
      /\ failures' = failures /\ NoFailure' = NoFailure
  BY DEF Start, storeVars, Store, NoFailure
<1>3. Describes(a, Store', NoFailure')
  BY <1>2
<1>4. CASE p = << >>
  <2>1. Resumable(a, system') /\ Agrees(a, system')
    BY <1>2 DEF Begins, Ready
  <2>2. Settled(Store', system', NoFailure')
    BY <1>3, <2>1 DEF Settled
  <2>3. Idle'
    BY <1>2, <1>4 DEF Idle
  <2> QED BY <1>1, <1>2, <2>2, <2>3 DEF NodeInv
<1>5. CASE p # << >>
  <2>1. Underway(Store', plan', NoFailure')
    BY <1>2, <1>3, <1>5 DEF Complete, Underway
  <2>2. ~Idle'
    BY <1>2, <1>5 DEF Idle
  <2> QED BY <1>1, <1>2, <2>1, <2>2 DEF NodeInv
<1> QED BY <1>4, <1>5

LEMMA BeginStep == ASSUME NodeInv, Begin PROVE NodeInv'
<1>1. ASSUME NEW id \in Users, NEW p \in ParameterSets, BeginCreate(id, p) PROVE NodeInv'
  <2>1. PICK a : Begins(a) /\ Describes(a, Store, NoFailure)
    BY <1>1, BeginsSummary DEF BeginCreate, Unlocked
  <2>2. p.seed \in 0..MaxU64
    BY DEF Parameters
  <2>3. Complete(a, MintPlan(id, p.seed, "wallet_seed"))
    BY <2>1, <2>2, MintPlanComplete
  <2> QED BY <1>1, <2>1, <2>3, StartStep DEF BeginCreate
<1>2. ASSUME NEW id \in DOMAIN wallets, NEW amount \in Amounts, BeginCharge(id, amount)
      PROVE  NodeInv'
  <2>1. PICK a : Begins(a) /\ Describes(a, Store, NoFailure)
    BY <1>2, BeginsSummary DEF BeginCharge, Unlocked
  <2>2. Complete(a, ChargePlan(id, amount))
    BY <2>1, ChargePlanComplete
  <2> QED BY <1>2, <2>1, <2>2, StartStep DEF BeginCharge
<1>3. ASSUME NEW from \in Users, NEW to \in DOMAIN wallets, NEW amount \in Amounts,
             NEW nonce \in 0..MaxTick, BeginTransfer(from, to, amount, nonce)
      PROVE  NodeInv'
  <2>1. PICK a : Begins(a) /\ Describes(a, Store, NoFailure)
    BY <1>3, BeginsSummary DEF BeginTransfer, Unlocked
  <2>2. from \in DOMAIN wallets /\ from # to /\ wallets[from].balance >= amount
    BY <1>3 DEF BeginTransfer, Exists, MaySpend
  <2>3. Complete(a, TransferPlan(from, to, amount, nonce))
    BY <2>1, <2>2, TransferPlanComplete
  <2> QED BY <1>3, <2>1, <2>3, StartStep DEF BeginTransfer
<1>4. ASSUME NEW from \in Users, NEW amount \in Amounts,
             NEW nonce \in 0..MaxTick, BeginBurn(from, amount, nonce)
      PROVE  NodeInv'
  <2>1. PICK a : Begins(a) /\ Describes(a, Store, NoFailure)
    BY <1>4, BeginsSummary DEF BeginBurn, Unlocked
  <2>2. from \in DOMAIN wallets /\ wallets[from].balance >= amount
    BY <1>4 DEF BeginBurn, Exists, MaySpend
  <2>3. Complete(a, BurnPlan(from, amount, nonce))
    BY <2>1, <2>2, BurnPlanComplete
  <2> QED BY <1>4, <2>1, <2>3, StartStep DEF BeginBurn
<1>5. ASSUME NEW p \in ParameterSets, NEW first \in Firsts, BeginIteration(p, first)
      PROVE  NodeInv'
  <2>1. PICK a : Begins(a) /\ Describes(a, Store, NoFailure)
    BY <1>5, BeginsSummary DEF BeginIteration, Unlocked
  <2>2. Complete(a, IterationPlan(p, first))
    BY <2>1, IterationPlanComplete
  <2> QED BY <1>5, <2>1, <2>2, StartStep DEF BeginIteration
<1>6. ASSUME NEW entries \in SeedFiles, BeginInstallSeed(entries) PROVE NodeInv'
  <2>1. PICK a : Begins(a) /\ Describes(a, Store, NoFailure)
    BY <1>6, BeginsSummary DEF BeginInstallSeed, Unlocked
  <2>2. Complete(a, SeedPlan(entries))
    BY <2>1, SeedPlanComplete
  <2> QED BY <1>6, <2>1, <2>2, StartStep DEF BeginInstallSeed
<1> QED BY <1>1, <1>2, <1>3, <1>4, <1>5, <1>6 DEF Begin

\* The next write: one step along the path, with a flush of the store in order.
LEMMA DoWriteStep == ASSUME NodeInv, DoWrite PROVE NodeInv'
<1> DEFINE w == Head(plan)
<1>1. /\ failures \in Nat /\ StoreInv(Store, NoFailure) /\ StoreInv(durable, NoFailure)
      /\ ~Idle /\ Underway(Store, plan, NoFailure)
  BY DEF NodeInv, DoWrite
<1>2. PICK a, b : /\ Describes(a, Store, NoFailure) /\ Path(a, plan, b)
                  /\ Agrees(b, plan[Len(plan)].mem)
  BY <1>1 DEF Underway
<1>3. PICK c : Links(a, w, c) /\ Path(c, Tail(plan), b)
  BY <1>1, <1>2, PathHead DEF Idle
<1>4. /\ system' = w.mem /\ plan' = Tail(plan) /\ failures' = failures
      /\ durable' \in {durable, Store}
  BY DEF DoWrite
<1>5. NoFailure' = NoFailure
  BY <1>4 DEF NoFailure
<1>6. Writes(Store, w, Store')
  BY DEF DoWrite, Writes, Store
<1> HIDE DEF w
<1>7. StoreInv(Store', NoFailure) /\ Describes(c, Store', NoFailure)
  <2>1. NoFailure \in BOOLEAN
    BY DEF NoFailure
  <2> QED BY <1>1, <1>2, <1>3, <1>6, <2>1, WriteKeepsStore
<1>8. StoreInv(durable', NoFailure)
  BY <1>1, <1>4
<1>9. SystemOK(system') /\ Resumable(c, system')
  BY <1>3, <1>4 DEF Links, WriteOK
<1>10. PICK S : plan \in Seq(S)
  BY <1>2 DEF Path
<1>11. CASE Tail(plan) = << >>
  <2>1. Agrees(c, system')
    <3>1. c = b
      <4>1. PICK f : f[0] = c /\ f[Len(Tail(plan))] = b
        BY <1>3 DEF Path
      <4>2. Len(<< >>) = 0
        OBVIOUS
      <4> QED BY <1>11, <4>1, <4>2, Zenon
    <3>2. plan[Len(plan)] = w
      <4>1. plan # << >> /\ Len(Tail(plan)) = 0
        BY <1>1, <1>11 DEF Idle
      <4>2. Len(plan) = 1
        BY <1>10, <4>1
      <4> QED BY <1>10, <4>2 DEF w
    <3> QED BY <1>2, <1>4, <3>1, <3>2
  <2>2. Settled(Store', system', NoFailure)
    BY <1>7, <1>9, <2>1 DEF Settled
  <2>3. Idle'
    BY <1>4, <1>11 DEF Idle
  <2> QED BY <1>1, <1>4, <1>5, <1>7, <1>8, <1>9, <2>2, <2>3 DEF NodeInv
<1>12. CASE Tail(plan) # << >>
  <2>1. Tail(plan)[Len(Tail(plan))] = plan[Len(plan)]
    <3>1. plan # << >>
      BY <1>1 DEF Idle
    <3>2. Tail(plan) \in Seq(S) /\ Len(Tail(plan)) = Len(plan) - 1 /\ Len(plan) \in Nat
      BY <1>10, <3>1
    <3>3. Len(Tail(plan)) # 0
      BY <1>12, <3>2
    <3> QED BY <1>10, <3>1, <3>2, <3>3
  <2>2. Underway(Store', plan', NoFailure)
    BY <1>2, <1>3, <1>4, <1>7, <2>1 DEF Underway
  <2>3. ~Idle'
    BY <1>4, <1>12 DEF Idle
  <2> QED BY <1>1, <1>4, <1>5, <1>7, <1>8, <1>9, <2>2, <2>3 DEF NodeInv
<1> QED BY <1>11, <1>12

\* The handler is abandoned with the memory of the write that failed.
LEMMA FailWriteStep == ASSUME NodeInv, FailWrite PROVE NodeInv'
<1> DEFINE w == Head(plan)
<1>1. /\ failures \in Nat /\ StoreInv(Store, NoFailure) /\ StoreInv(durable, NoFailure)
      /\ ~Idle /\ Underway(Store, plan, NoFailure)
  BY DEF NodeInv, FailWrite
<1>2. PICK a, b : Describes(a, Store, NoFailure) /\ Path(a, plan, b)
  BY <1>1 DEF Underway
<1>3. PICK c : Links(a, w, c)
  BY <1>1, <1>2, PathHead DEF Idle
<1>4. /\ system' = w.mem /\ plan' = << >> /\ failures' = failures + 1
      /\ durable' = durable /\ Store' = Store
  BY DEF FailWrite, storeVars, Store
<1> HIDE DEF w
<1>5. failures' \in Nat /\ NoFailure' = FALSE /\ Idle'
  BY <1>1, <1>4 DEF NoFailure, Idle
<1>6. SystemOK(system') /\ Resumable(a, system')
  BY <1>3, <1>4 DEF Links, WriteOK
<1>7. StoreInv(Store, FALSE) /\ StoreInv(durable, FALSE) /\ Describes(a, Store, FALSE)
  BY <1>1, <1>2 DEF StoreInv, Describes
<1>8. Settled(Store, system', FALSE)
  BY <1>6, <1>7 DEF Settled
<1> QED BY <1>4, <1>5, <1>6, <1>7, <1>8 DEF NodeInv

LEMMA FlushStep == ASSUME NodeInv, BackgroundFlush PROVE NodeInv'
<1>1. /\ durable' = Store /\ Store' = Store /\ system' = system /\ plan' = plan
      /\ failures' = failures /\ NoFailure' = NoFailure /\ Idle' = Idle
  BY DEF BackgroundFlush, storeVars, Store, NoFailure, Idle
<1> QED BY <1>1 DEF NodeInv

\* The restarted node goes on from the stored state: what the store shows is its own summary.
LEMMA CrashStep == ASSUME NodeInv, CrashAndOpen PROVE NodeInv'
<1> DEFINE m == durable.stored
           c == [tick |-> m.current_tick, hash |-> m.last_poh_hash, filed |-> m.current_iteration,
                 txs |-> {},
                 active |-> {durable.wallets[w].last_active_iteration : w \in DOMAIN durable.wallets},
                 lock |-> m.iteration_lock, counted |-> m.current_iteration]
           ok == NoFailure
<1>1. failures \in Nat /\ StoreInv(durable, ok)
  BY DEF NodeInv
<1>2. /\ system' = m /\ plan' = << >> /\ failures' = failures /\ durable' = durable
      /\ NoFailure' = ok /\ SameStore(durable, Store')
  BY DEF CrashAndOpen, Store, NoFailure, SameStore
<1>3. ok \in BOOLEAN
  BY DEF NoFailure
<1> HIDE DEF ok
<1>4. StoreInv(Store', ok)
  BY <1>1, <1>2, <1>3, SameStoreInv
<1>5. SystemOK(m) /\ WalletsOK(durable.wallets)
  BY <1>1 DEF StoreInv
<1>6. /\ m.current_tick \in Nat /\ m.current_iteration \in Nat /\ m.iteration_lock \in BOOLEAN
  BY <1>5, SystemFields
<1>7. /\ c.tick = m.current_tick /\ c.hash = m.last_poh_hash /\ c.filed = m.current_iteration
      /\ c.txs = {} /\ c.lock = m.iteration_lock /\ c.counted = m.current_iteration
      /\ \A w \in DOMAIN durable.wallets : durable.wallets[w].last_active_iteration \in c.active
      /\ \A n \in c.active : \E w \in DOMAIN durable.wallets :
                                n = durable.wallets[w].last_active_iteration
  OBVIOUS
<1>8. c.active \in SUBSET Nat
  BY <1>5, <1>7 DEF WalletsOK, WalletRecord
<1>9. IsSummary(c)
  <2> DEFINE active == c.active
  <2>1. c = [tick |-> m.current_tick, hash |-> m.last_poh_hash, filed |-> m.current_iteration,
             txs |-> {}, active |-> active, lock |-> m.iteration_lock,
             counted |-> m.current_iteration]
    OBVIOUS
  <2>2. active \in SUBSET Nat
    BY <1>8
  <2> HIDE DEF c, active
  <2> QED BY <1>6, <1>7, <2>1, <2>2 DEF IsSummary
<1> HIDE DEF c, m
<1>10. Resumable(c, m) /\ Fenced(c) /\ Agrees(c, m)
  <2>1. m.iteration_lock \/ \A n \in c.active : n <= m.current_iteration
    BY <1>1, <1>7 DEF StoreInv, m
  <2> QED BY <1>6, <1>7, <2>1 DEF Resumable, Fenced, Agrees
<1>11. Describes(c, Store', ok)
  <2>1. /\ Store'.stored = m /\ Store'.wallets = durable.wallets
    BY <1>2 DEF SameStore, m
  <2>2. ok => /\ ChainTo(Store'.poh, m.current_tick, m.last_poh_hash)
              /\ 1..m.current_iteration \subseteq DOMAIN Store'.iterations
    BY <1>4, <2>1 DEF StoreInv
  <2> QED BY <1>6, <1>7, <1>9, <1>10, <2>1, <2>2 DEF Describes
<1>12. Settled(Store', system', ok)
  BY <1>2, <1>10, <1>11 DEF Settled
<1>13. Idle'
  BY <1>2 DEF Idle
<1> QED BY <1>1, <1>2, <1>4, <1>5, <1>12, <1>13 DEF NodeInv

\* An empty store.
LEMMA InitNodeInv == NodeInit => NodeInv
<1> SUFFICES ASSUME NodeInit PROVE NodeInv
  OBVIOUS
<1> DEFINE m == GenesisState
           c == [tick |-> 0, hash |-> ZERO_HASH, filed |-> 0, txs |-> {}, active |-> {},
                 lock |-> FALSE, counted |-> 0]
<1>1. /\ DOMAIN wallets = {} /\ DOMAIN poh = {} /\ DOMAIN iterations = {}
      /\ DOMAIN transactions = {} /\ tx_by_wallet = {}
      /\ system = m /\ stored = m /\ plan = << >> /\ durable = Store /\ failures = 0
  BY DEF NodeInit, Init, EmptyTree
<1>2. /\ Store.wallets = wallets /\ Store.poh = poh /\ Store.iterations = iterations
      /\ Store.stored = stored /\ Store.transactions = transactions
      /\ Store.tx_by_wallet = tx_by_wallet
  BY DEF Store
<1>3. /\ m.current_tick = 0 /\ m.last_poh_hash = ZERO_HASH /\ m.current_iteration = 0
      /\ m.iteration_lock = FALSE
  BY DEF GenesisState
<1>4. SystemOK(m)
  <2>1. m \in SystemRecord({ZERO_HASH})
    BY DEF GenesisState, SystemRecord
  <2> QED BY <1>3, <2>1 DEF SystemOK
<1>5. WalletsOK(wallets)
  <2>1. wallets = EmptyTree
    BY DEF NodeInit, Init
  <2>2. wallets \in [{} -> WalletRecord(WalletId)]
    BY <2>1 DEF EmptyTree
  <2> QED BY <1>1, <2>2, FS_EmptySet DEF WalletsOK
<1> HIDE DEF m
<1>6. ChainTo(poh, 0, ZERO_HASH)
  BY DEF ChainTo, Before
<1>7. StoreInv(Store, TRUE)
  BY <1>1, <1>2, <1>3, <1>4, <1>5, <1>6 DEF StoreInv
<1>8. Describes(c, Store, TRUE) /\ Resumable(c, m) /\ Agrees(c, m)
  <2>1. IsSummary(c)
    BY DEF IsSummary
  <2>2. /\ c.tick = 0 /\ c.hash = ZERO_HASH /\ c.filed = 0 /\ c.txs = {} /\ c.active = {}
        /\ c.lock = FALSE /\ c.counted = 0
    OBVIOUS
  <2> HIDE DEF c
  <2>3. Fenced(c) /\ Resumable(c, m) /\ Agrees(c, m)
    BY <1>3, <2>2 DEF Resumable, Agrees, Fenced
  <2>4. /\ Store.stored = m /\ DOMAIN Store.wallets = {} /\ 1..c.filed = {}
        /\ ChainTo(Store.poh, c.tick, c.hash)
    BY <1>1, <1>2, <1>6, <2>2
  <2>5. m.current_tick <= c.tick
    BY <1>3, <2>2
  <2>6. Describes(c, Store, TRUE)
    BY <1>3, <2>1, <2>2, <2>3, <2>4, <2>5 DEF Describes
  <2> QED BY <2>3, <2>6
<1> HIDE DEF c
<1>9. Settled(Store, system, TRUE)
  BY <1>1, <1>8 DEF Settled
<1>10. NoFailure = TRUE /\ Idle
  BY <1>1 DEF NoFailure, Idle
<1> QED BY <1>1, <1>4, <1>7, <1>9, <1>10 DEF NodeInv

LEMMA NextNodeInv == NodeInv /\ [NodeNext]_nodeVars => NodeInv'
<1> SUFFICES ASSUME NodeInv, [NodeNext]_nodeVars PROVE NodeInv'
  OBVIOUS
<1>1. CASE UNCHANGED nodeVars
  <2>1. /\ Store' = Store /\ system' = system /\ plan' = plan /\ durable' = durable
        /\ failures' = failures /\ NoFailure' = NoFailure /\ Idle' = Idle
    BY <1>1 DEF nodeVars, storeVars, Store, NoFailure, Idle
  <2> QED BY <2>1 DEF NodeInv
<1>2. CASE NodeNext
  BY <1>2, BeginStep, DoWriteStep, FailWriteStep, FlushStep, CrashStep DEF NodeNext
<1> QED BY <1>1, <1>2

-----------------------------------------------------------------------------
(* The theorems.                                                           *)

\* The store is in order at every moment, and so is what a crash would leave of it.
THEOREM NodeInvariant == NodeSpec => []NodeInv
<1> QED BY InitNodeInv, NextNodeInv, PTL DEF NodeSpec

\* The chain up to the tick of the stored state is complete and verifies, whatever crashes cut
\* short: append_tx_locked writes the entry before store_state counts it, and an entry that a
\* crash orphaned is replaced by the next one, never linked to.
THEOREM ChainSurvivesCrashes == NodeSpec => []CrashKeepsChain
<1>1. NodeInv => CrashKeepsChain
  <2> SUFFICES ASSUME NodeInv, failures = 0 PROVE StoredChainValid
    BY DEF CrashKeepsChain
  <2>1. /\ ChainTo(poh, stored.current_tick, stored.last_poh_hash)
        /\ stored.current_tick \in Nat
    <3>1. StoreInv(Store, NoFailure) /\ NoFailure
      BY DEF NodeInv, NoFailure
    <3>2. Store.poh = poh /\ Store.stored = stored
      BY DEF Store
    <3>3. SystemOK(stored) /\ ChainTo(poh, stored.current_tick, stored.last_poh_hash)
      BY <3>1, <3>2 DEF StoreInv
    <3> QED BY <3>3, SystemFields
  <2>2. \A t : Before(poh, t) = HashBefore(t)
    BY DEF Before, HashBefore
  <2> QED BY <2>1, <2>2 DEF StoredChainValid, ChainTo
<1> QED BY <1>1, NodeInvariant, PTL

\* As long as no write fails, every iteration the stored state counts is filed, across crashes:
\* execute_iteration_now files the commit before it stores the state that counts it.
THEOREM CountedIterationsAreFiled == NodeSpec => []StoredIterationsComplete
<1>1. NodeInv => StoredIterationsComplete
  <2> SUFFICES ASSUME NodeInv, failures = 0
               PROVE  1..stored.current_iteration \subseteq DOMAIN iterations
    BY DEF StoredIterationsComplete
  <2>1. StoreInv(Store, NoFailure) /\ NoFailure
    BY DEF NodeInv, NoFailure
  <2>2. Store.iterations = iterations /\ Store.stored = stored
    BY DEF Store
  <2> QED BY <2>1, <2>2 DEF StoreInv
<1> QED BY <1>1, NodeInvariant, PTL

\* Whatever crashes and errors cut short, PoH entries and index entries name transactions that
\* are there: append_tx_locked writes the transaction first.
THEOREM ReferencesAlwaysResolve == NodeSpec => []ReferencesResolve
<1>1. NodeInv => ReferencesResolve
  <2> SUFFICES ASSUME NodeInv PROVE ReferencesResolve
    OBVIOUS
  <2>1. StoreInv(Store, NoFailure)
    BY DEF NodeInv
  <2>2. /\ Store.poh = poh /\ Store.transactions = transactions
        /\ Store.tx_by_wallet = tx_by_wallet
    BY DEF Store
  <2> QED BY <2>1, <2>2 DEF StoreInv, ReferencesResolve
<1> QED BY <1>1, NodeInvariant, PTL

\* Wallets of an iteration that the stored state does not count are only there while the stored
\* lock keeps every handler out, after crashes and after errors: the lock is stored before the
\* first wallet is written and released by the write that counts the iteration.
THEOREM HalfAnIterationIsFenced == NodeSpec => []TornIterationFenced
<1>1. NodeInv => TornIterationFenced
  <2> SUFFICES ASSUME NodeInv, ~stored.iteration_lock,
                      NEW w \in DOMAIN wallets,
                      wallets[w].last_active_iteration > stored.current_iteration
               PROVE  FALSE
    BY DEF TornIterationFenced
  <2>1. StoreInv(Store, NoFailure)
    BY DEF NodeInv
  <2>2. Store.wallets = wallets /\ Store.stored = stored
    BY DEF Store
  <2>3. /\ wallets[w].last_active_iteration <= stored.current_iteration
        /\ WalletsOK(wallets) /\ SystemOK(stored)
    BY <2>1, <2>2 DEF StoreInv
  <2>4. wallets[w].last_active_iteration \in Nat /\ stored.current_iteration \in Nat
    <3>1. wallets[w] \in WalletRecord(WalletId)
      BY <2>3 DEF WalletsOK
    <3> QED BY <2>3, <3>1, SystemFields DEF WalletRecord
  <2> QED BY <2>3, <2>4
<1> QED BY <1>1, NodeInvariant, PTL

-----------------------------------------------------------------------------
(* The operators of the instance Ledger are those of this module.          *)

LEMMA SameSums ==
    /\ \A S : Ledger!Cardinality(S) = Cardinality(S)
    /\ \A f : Ledger!Total(f) = Total(f)
    /\ \A f : Ledger!SumU64(f) = SumU64(f)
BY Zenon DEF Ledger!Cardinality, Cardinality, Ledger!Units, Units, Ledger!Total, Total,
             Ledger!SumU64, SumU64

LEMMA SameArithmetic ==
    ASSUME NEW a, NEW b, NEW c
    PROVE  /\ Ledger!SatAdd(a, b) = SatAdd(a, b)
           /\ Ledger!SatSub(a, b) = SatSub(a, b)
           /\ Ledger!SmallerOf(a, b) = SmallerOf(a, b)
           /\ Ledger!Clamp(a, b, c) = Clamp(a, b, c)
           /\ Ledger!Portion(a, b) = Portion(a, b)
BY Zenon DEF Ledger!SatAdd, SatAdd, Ledger!SatSub, SatSub, Ledger!SmallerOf, SmallerOf,
             Ledger!LargerOf, LargerOf, Ledger!Clamp, Clamp, Ledger!Portion, Portion

LEMMA SameBurnRate ==
    ASSUME NEW p, NEW sys
    PROVE  Ledger!Inflation(sys) = Inflation(sys) /\ Ledger!BurnRate(p, sys) = BurnRate(p, sys)
           /\ Ledger!Panics(p) = Panics(p)
BY Zenon DEF Ledger!Inflation, Inflation, Ledger!BurnRate, BurnRate, Ledger!Clamp, Clamp,
             Ledger!SmallerOf, SmallerOf, Ledger!LargerOf, LargerOf, Ledger!Panics, Panics

LEMMA SamePenalties ==
    ASSUME NEW ws, NEW p
    PROVE  Ledger!Penalties(ws, p) = Penalties(ws, p)
<1> DEFINE f == [w \in DOMAIN ws |-> Ledger!BasePenalty(ws, p, w)]
           g == [w \in DOMAIN ws |-> BasePenalty(ws, p, w)]
<1>1. \A w : Ledger!BasePenalty(ws, p, w) = BasePenalty(ws, p, w)
  BY Zenon DEF Ledger!BasePenalty, BasePenalty, Ledger!MaxBalance, MaxBalance,
               Ledger!Balances, Balances, Ledger!LogScore, LogScore,
               Ledger!Cardinality, Cardinality, Ledger!SmallerOf, SmallerOf
<1>2. f = g
  BY <1>1
<1>3. Ledger!Balances(ws) = Balances(ws)
  BY Zenon DEF Ledger!Balances, Balances
<1> HIDE DEF f, g
<1>4. Ledger!SumU64(f) = SumU64(g) /\ Ledger!SumU64(Ledger!Balances(ws)) = SumU64(Balances(ws))
  BY <1>2, <1>3, SameSums
<1> DEFINE total  == SumU64(g)
           target == Portion(p.target_penalty_share_of_supply, SumU64(Balances(ws)))
<1>5. Ledger!Penalties(ws, p)
        = [w \in DOMAIN ws |-> IF Ledger!Deviates(total, target)
                               THEN Ledger!SmallerOf((g[w] * target) \div total, ws[w].balance)
                               ELSE g[w]]
  BY <1>2, <1>4, SameArithmetic DEF Ledger!Penalties, f
<1> HIDE DEF total, target
<1>6. Ledger!Penalties(ws, p)
        = [w \in DOMAIN ws |-> IF Deviates(total, target)
                               THEN SmallerOf((g[w] * target) \div total, ws[w].balance)
                               ELSE g[w]]
  BY <1>5, Zenon DEF Ledger!Deviates, Deviates, Ledger!LargerOf, LargerOf,
                     Ledger!SmallerOf, SmallerOf
<1> QED BY <1>6, Zenon DEF Penalties, total, target, g

LEMMA SamePool ==
    ASSUME NEW p, NEW n, NEW total, NEW beta
    PROVE  /\ Ledger!PlannedNewWallets(p, n) = PlannedNewWallets(p, n)
           /\ Ledger!RedistributionPool(p, n, total, beta) = RedistributionPool(p, n, total, beta)
           /\ Ledger!BurnedBase(p, n, total, beta) = BurnedBase(p, n, total, beta)
           /\ Ledger!FaucetFromPenalty(p, n, total) = FaucetFromPenalty(p, n, total)
           /\ Ledger!FaucetFromMint(p, n, total) = FaucetFromMint(p, n, total)
BY Zenon DEF Ledger!PlannedNewWallets, PlannedNewWallets, Ledger!FaucetNeeded, FaucetNeeded,
             Ledger!FaucetFromPenalty, FaucetFromPenalty, Ledger!BurnedBase, BurnedBase,
             Ledger!RedistributionPool, RedistributionPool, Ledger!FaucetFromMint, FaucetFromMint,
             Ledger!Portion, Portion, Ledger!SmallerOf, SmallerOf, Ledger!SatSub, SatSub

LEMMA SameCollect ==
    ASSUME NEW ws, NEW p, NEW penalties
    PROVE  Ledger!Collect(ws, p, penalties) = Collect(ws, p, penalties)
BY Zenon DEF Ledger!Collect, Collect, Ledger!Penalised, Penalised, Ledger!Clamp, Clamp,
             Ledger!SmallerOf, SmallerOf, Ledger!LargerOf, LargerOf,
             Ledger!RawActivity, RawActivity, Ledger!Cardinality, Cardinality,
             Ledger!SatSub, SatSub

LEMMA SameShares ==
    ASSUME NEW ws, NEW p, NEW pool
    PROVE  Ledger!Shares(ws, p, pool) = Shares(ws, p, pool)
BY Zenon DEF Ledger!Shares, Shares, Ledger!Weight, Weight, Ledger!Clamp, Clamp,
             Ledger!SmallerOf, SmallerOf, Ledger!LargerOf, LargerOf,
             Ledger!Total, Total, Ledger!Units, Units, Ledger!Cardinality, Cardinality

LEMMA SameRewards ==
    ASSUME NEW p, NEW first, NEW shares, NEW residual, NEW pool, NEW base, NEW ws, NEW rewards,
           NEW it, NEW n, NEW fresh, NEW seed
    PROVE  /\ Ledger!Residual(pool, shares) = Residual(pool, shares)
           /\ Ledger!Rewards(p, first, shares, residual) = Rewards(p, first, shares, residual)
           /\ Ledger!Burned(p, shares, base, residual) = Burned(p, shares, base, residual)
           /\ Ledger!Pay(ws, rewards) = Pay(ws, rewards)
           /\ Ledger!FreshIds(it, n) = FreshIds(it, n)
           /\ Ledger!NewWallet(n, it) = NewWallet(n, it)
           /\ Ledger!AddFresh(ws, fresh, seed, it) = AddFresh(ws, fresh, seed, it)
           /\ Ledger!Balances(ws) = Balances(ws)
BY Zenon DEF Ledger!Residual, Residual, Ledger!Rewards, Rewards, Ledger!Burned, Burned,
             Ledger!PaysResidual, PaysResidual, Ledger!Pay, Pay, Ledger!Rewarded, Rewarded,
             Ledger!FreshIds, FreshIds, Ledger!FaucetId, FaucetId, Ledger!AddFresh, AddFresh,
             Ledger!NewWallet, NewWallet, Ledger!SatSub, SatSub, Ledger!SatAdd, SatAdd,
             Ledger!SmallerOf, SmallerOf, Ledger!Total, Total, Ledger!Units, Units,
             Ledger!Cardinality, Cardinality, Ledger!Balances, Balances

LEMMA SameExecuteIteration ==
    ASSUME NEW ws, NEW p, NEW sys, NEW first
    PROVE  Ledger!ExecuteIteration(ws, p, sys, first) = ExecuteIteration(ws, p, sys, first)
BY SameSums, SameBurnRate, SamePenalties, SamePool, SameCollect, SameShares, SameRewards
   DEF Ledger!ExecuteIteration, ExecuteIteration

-----------------------------------------------------------------------------
(* The refinement.                                                         *)

\* The abstract ledger as a value.
Books(ws, sys, log, its) == [wallets |-> ws, system |-> sys, poh |-> log, iterations |-> its]

Live == Books(wallets, system, poh, iterations)

\* DoWrite, for the part of the store that the ledger is read from.
Effect(l, w) ==
    Books(IF w.tree = "wallets" THEN Put(l.wallets, w.key, w.value) ELSE l.wallets,
          w.mem,
          IF w.tree = "poh" THEN Put(l.poh, w.key, w.value) ELSE l.poh,
          IF w.tree = "iterations" THEN Put(l.iterations, w.key, w.value) ELSE l.iterations)

\* The transitions of Ledger, from the books v to the books l; o says that a sum loses value.
Anchored(v, tx) == Put(v.poh, v.system.current_tick + 1, NextEntry(v.system, tx))

NewlyActiveIn(v, ids) ==
    Cardinality({w \in ids : v.wallets[w].last_active_iteration # v.system.current_iteration})

IsMint(v, l, o, id, amount, category) ==
    LET tx == MintTx(id, amount, v.system.current_tick + 1, category)
    IN  /\ id \notin DOMAIN v.wallets
        /\ l = Books(Put(v.wallets, id, NewWallet(amount, v.system.current_iteration)),
                     Ticked(AfterCreate(v.system, amount), tx),
                     Anchored(v, tx), v.iterations)
        /\ o = CreateOverflows(v.system, amount)

IsCharge(v, l, o, id, amount) ==
    LET tx == MintTx(id, amount, v.system.current_tick + 1, "charge")
    IN  /\ amount # 0
        /\ id \in DOMAIN v.wallets
        /\ l = Books([v.wallets EXCEPT ![id].balance = SatAdd(@, amount)],
                     Ticked([v.system EXCEPT !.total_supply = SatAdd(@, amount)], tx),
                     Anchored(v, tx), v.iterations)
        /\ o = (v.system.total_supply + amount > MaxU64)

IsTransfer(v, l, o, from, to, amount, nonce) ==
    LET tx == TransferTx(from, to, amount, nonce)
        it == v.system.current_iteration
    IN  /\ from # to
        /\ amount # 0
        /\ from \in DOMAIN v.wallets /\ to \in DOMAIN v.wallets
        /\ v.wallets[from].nonce = nonce /\ v.wallets[from].balance >= amount
        /\ l = Books([v.wallets EXCEPT ![from] = Spent(@, amount, {to}, it),
                                       ![to]   = Received(@, amount, from, it)],
                     [Ticked(v.system, tx) EXCEPT
                        !.n_active_wallets = SatAdd(@, NewlyActiveIn(v, {from, to}))],
                     Anchored(v, tx), v.iterations)
        /\ o = (v.wallets[to].balance + amount > MaxU64)

IsBurn(v, l, o, from, amount, nonce) ==
    LET tx == BurnTx(from, amount, nonce)
    IN  /\ amount # 0
        /\ from \in DOMAIN v.wallets
        /\ v.wallets[from].nonce = nonce /\ v.wallets[from].balance >= amount
        /\ l = Books([v.wallets EXCEPT
                        ![from] = Spent(@, amount, {}, v.system.current_iteration)],
                     [Ticked([v.system EXCEPT !.total_supply = SatSub(@, amount)], tx) EXCEPT
                        !.n_active_wallets = SatAdd(@, NewlyActiveIn(v, {from}))],
                     Anchored(v, tx), v.iterations)
        /\ o = FALSE

IsIteration(v, l, o, p, first) ==
    LET r == ExecuteIteration(v.wallets, p, v.system, first)
    IN  /\ ~Panics(p)
        /\ l = Books(r.wallets, Ticked(Committed(v.system, r), r.commit),
                     Anchored(v, r.commit),
                     Put(v.iterations, r.commit.iteration_id, r.commit))
        /\ o = \/ Total(Balances(v.wallets)) > MaxU64
               \/ Total(Balances(r.wallets)) > MaxU64
               \/ r.n_wallets > MaxU64

Operation(v, l, o) ==
    \/ \E id \in Users, p \in ParameterSets : IsMint(v, l, o, id, p.seed, "wallet_seed")
    \/ \E id \in Users, amount \in Amounts : IsMint(v, l, o, id, amount, "seed_bootstrap")
    \/ \E id \in DOMAIN v.wallets, amount \in Amounts : IsCharge(v, l, o, id, amount)
    \/ \E from \in Users, to \in DOMAIN v.wallets, amount \in Amounts, nonce \in 0..MaxTick :
          IsTransfer(v, l, o, from, to, amount, nonce)
    \/ \E from \in Users, amount \in Amounts, nonce \in 0..MaxTick :
          IsBurn(v, l, o, from, amount, nonce)
    \/ \E p \in ParameterSets :
          \E first \in (IF DOMAIN v.wallets = {} THEN {ZERO_HASH} ELSE DOMAIN v.wallets) :
             IsIteration(v, l, o, p, first)

LedgerStep(v, l, o) ==
    /\ ~v.system.iteration_lock
    /\ v.system.current_tick < MaxTick
    /\ Operation(v, l, o)
    /\ ~l.system.iteration_lock

\* A write as a step of the live books and of the books as of the last commit.
Follows(a, w, b) ==
    /\ b.live = Effect(a.live, w)
    /\ IF w.commits THEN LedgerStep(a.view, b.live, w.overflows) /\ b.view = b.live
       ELSE b.view = a.view /\ ~w.overflows

Trace(a, p, b) ==
    /\ \E S : p \in Seq(S)
    /\ \E f : /\ f[0] = a /\ f[Len(p)] = b
              /\ \A i \in 1..Len(p) : Follows(f[i - 1], p[i], f[i])

\* A sequence of writes that does not change the summary.
LEMMA TraceSame ==
    ASSUME NEW a, NEW S, NEW p \in Seq(S), \A i \in 1..Len(p) : Follows(a, p[i], a)
    PROVE  Trace(a, p, a)
<1> DEFINE f == [i \in 0..Len(p) |-> a]
<1>1. /\ f[0] = a /\ f[Len(p)] = a
      /\ \A i \in 1..Len(p) : f[i - 1] = a /\ f[i] = a
  OBVIOUS
<1> HIDE DEF f
<1> QED BY <1>1 DEF Trace

LEMMA TraceEmpty == ASSUME NEW a PROVE Trace(a, << >>, a)
<1>1. << >> \in Seq({}) /\ \A i \in 1..Len(<< >>) : Follows(a, << >>[i], a)
  OBVIOUS
<1> QED BY <1>1, TraceSame

LEMMA TraceOne ==
    ASSUME NEW a, NEW b, NEW w, Follows(a, w, b)
    PROVE  Trace(a, <<w>>, b)
<1> DEFINE f == [i \in 0..1 |-> IF i = 0 THEN a ELSE b]
<1>1. /\ <<w>> \in Seq({w}) /\ Len(<<w>>) = 1 /\ <<w>>[1] = w
      /\ f[0] = a /\ f[1] = b
  OBVIOUS
<1> HIDE DEF f
<1>2. \A i \in 1..1 : i = 1
  OBVIOUS
<1>3. Follows(f[1 - 1], <<w>>[1], f[1])
  BY <1>1
<1> QED BY <1>1, <1>2, <1>3 DEF Trace

LEMMA TraceConcat ==
    ASSUME NEW a, NEW b, NEW c, NEW p, NEW q, Trace(a, p, b), Trace(b, q, c)
    PROVE  Trace(a, p \o q, c)
<1>1. PICK S, T : p \in Seq(S) /\ q \in Seq(T)
  BY DEF Trace
<1>2. PICK f : /\ f[0] = a /\ f[Len(p)] = b
               /\ \A i \in 1..Len(p) : Follows(f[i - 1], p[i], f[i])
  BY DEF Trace
<1>3. PICK g : /\ g[0] = b /\ g[Len(q)] = c
               /\ \A i \in 1..Len(q) : Follows(g[i - 1], q[i], g[i])
  BY DEF Trace
<1> DEFINE m == Len(p)
           n == Len(q)
           r == p \o q
           h == [i \in 0..(m + n) |-> IF i <= m THEN f[i] ELSE g[i - m]]
<1>4. m \in Nat /\ n \in Nat
  BY <1>1
<1>5. /\ r \in Seq(S \cup T) /\ Len(r) = m + n
      /\ \A i \in 1..m : r[i] = p[i]
      /\ \A i \in (m + 1)..(m + n) : r[i] = q[i - m]
  <2>1. p \in Seq(S \cup T) /\ q \in Seq(S \cup T)
    BY <1>1
  <2> QED BY <2>1
<1> HIDE DEF r
<1>6. /\ \A i \in 0..m : h[i] = f[i]
      /\ \A i \in m..(m + n) : h[i] = g[i - m]
  <2>1. \A i \in 0..m : h[i] = f[i]
    BY <1>4
  <2> SUFFICES ASSUME NEW i \in m..(m + n) PROVE h[i] = g[i - m]
    BY <2>1
  <2>2. CASE i = m
    BY <1>2, <1>3, <1>4, <2>1, <2>2
  <2>3. CASE i # m
    BY <1>4, <2>3
  <2> QED BY <2>2, <2>3
<1> HIDE DEF h, m, n
<1>7. h[0] = a /\ h[m + n] = c
  <2>1. 0 \in 0..m /\ m + n \in m..(m + n) /\ (m + n) - m = n
    BY <1>4
  <2> QED BY <1>2, <1>3, <1>6, <2>1 DEF n
<1>8. ASSUME NEW i \in 1..(m + n) PROVE Follows(h[i - 1], r[i], h[i])
  <2>1. CASE i <= m
    <3>1. i \in 1..m /\ i \in 0..m /\ i - 1 \in 0..m
      BY <1>4, <2>1
    <3> QED BY <1>2, <1>5, <1>6, <3>1 DEF m
  <2>2. CASE i > m
    <3>1. /\ i \in (m + 1)..(m + n) /\ i \in m..(m + n) /\ i - 1 \in m..(m + n)
          /\ i - m \in 1..n /\ (i - 1) - m = (i - m) - 1
      BY <1>4, <2>2
    <3>2. Follows(g[(i - m) - 1], q[i - m], g[i - m])
      BY <1>3, <3>1 DEF n
    <3> QED BY <1>5, <1>6, <3>1, <3>2
  <2> QED BY <1>4, <2>1, <2>2
<1> QED BY <1>5, <1>7, <1>8 DEF Trace, r

\* The first write of a path, and the rest.
LEMMA TraceHead ==
    ASSUME NEW a, NEW b, NEW p, p # << >>, Trace(a, p, b)
    PROVE  \E c : Follows(a, Head(p), c) /\ Trace(c, Tail(p), b)
<1>1. PICK S : p \in Seq(S)
  BY DEF Trace
<1>2. PICK f : /\ f[0] = a /\ f[Len(p)] = b
               /\ \A i \in 1..Len(p) : Follows(f[i - 1], p[i], f[i])
  BY DEF Trace
<1> DEFINE n == Len(p)
           q == Tail(p)
           g == [i \in 0..(n - 1) |-> f[i + 1]]
<1>3. n \in Nat \ {0} /\ Head(p) = p[1]
  BY <1>1
<1>4. q \in Seq(S) /\ Len(q) = n - 1 /\ \A i \in 1..(n - 1) : q[i] = p[i + 1]
  BY <1>1
<1>5. Follows(a, Head(p), f[1])
  <2>1. 1 \in 1..Len(p) /\ 1 - 1 = 0
    BY <1>3
  <2>2. Follows(f[1 - 1], p[1], f[1])
    BY <1>2, <2>1
  <2> QED BY <1>2, <1>3, <2>1, <2>2
<1>6. g[0] = f[1] /\ g[n - 1] = b /\ \A i \in 0..(n - 1) : g[i] = f[i + 1]
  BY <1>2, <1>3
<1> HIDE DEF g
<1>7. ASSUME NEW i \in 1..(n - 1) PROVE Follows(g[i - 1], q[i], g[i])
  <2>1. /\ i + 1 \in 1..Len(p) /\ (i + 1) - 1 = (i - 1) + 1
        /\ i \in 0..(n - 1) /\ i - 1 \in 0..(n - 1)
    BY <1>3
  <2>2. Follows(f[(i + 1) - 1], p[i + 1], f[i + 1])
    BY <1>2, <2>1
  <2> QED BY <1>4, <1>6, <2>1, <2>2
<1> HIDE DEF q, n
<1>8. Trace(f[1], q, b)
  BY <1>4, <1>6, <1>7 DEF Trace
<1> QED BY <1>5, <1>8 DEF q

LEMMA SameTrees ==
    ASSUME NEW tree, NEW key, NEW value, NEW sys, NEW tx, NEW a, NEW b, NEW c, NEW d
    PROVE  /\ Ledger!Put(tree, key, value) = Put(tree, key, value)
           /\ Ledger!Ticked(sys, tx) = Ticked(sys, tx)
           /\ Ledger!NextEntry(sys, tx) = NextEntry(sys, tx)
           /\ Ledger!AfterCreate(sys, a) = AfterCreate(sys, a)
           /\ Ledger!Committed(sys, a) = Committed(sys, a)
           /\ Ledger!MintTx(a, b, c, d) = MintTx(a, b, c, d)
           /\ Ledger!TransferTx(a, b, c, d) = TransferTx(a, b, c, d)
           /\ Ledger!BurnTx(a, b, c) = BurnTx(a, b, c)
           /\ Ledger!Spent(a, b, c, d) = Spent(a, b, c, d)
           /\ Ledger!Received(a, b, c, d) = Received(a, b, c, d)
           /\ Ledger!NewWallet(a, b) = NewWallet(a, b)
BY Zenon DEF Ledger!Put, Put, Ledger!Ticked, Ticked, Ledger!NextEntry, NextEntry,
             Ledger!BuildEntry, BuildEntry, Ledger!PohHash, PohHash,
             Ledger!AfterCreate, AfterCreate, Ledger!SatAdd, SatAdd,
             Ledger!Committed, Committed, Ledger!Cardinality, Cardinality,
             Ledger!MintTx, MintTx, Ledger!TransferTx, TransferTx, Ledger!BurnTx, BurnTx,
             Ledger!Spent, Spent, Ledger!Received, Received, Ledger!NewWallet, NewWallet

\* The instance's actions, with the operators of this module.
LEMMA MintIsAction ==
    ASSUME NEW id, NEW amount, NEW category, NEW o,
           IsMint(view, view', o, id, amount, category), saturated' = (saturated \/ o),
           ~view.system.iteration_lock, view.system.current_tick < MaxTick
    PROVE  Ledger!Unlocked /\ ~Ledger!Exists(id) /\ Ledger!Mint(id, amount, category)
<1> DEFINE tx == MintTx(id, amount, view.system.current_tick + 1, category)
<1>1. /\ view'.wallets = Put(view.wallets, id, NewWallet(amount, view.system.current_iteration))
      /\ view'.system = Ticked(AfterCreate(view.system, amount), tx)
      /\ view'.poh = Put(view.poh, view.system.current_tick + 1, NextEntry(view.system, tx))
      /\ view'.iterations = view.iterations
      /\ id \notin DOMAIN view.wallets
      /\ o = (view.system.total_supply + amount > MaxU64 \/ view.system.n_wallets + 1 > MaxU64)
  BY DEF IsMint, Books, Anchored, CreateOverflows
<1> HIDE DEF tx
<1>2. Ledger!Mint(id, amount, category)
        <=> /\ view'.wallets = Put(view.wallets, id, NewWallet(amount, view.system.current_iteration))
            /\ view'.system = Ticked(AfterCreate(view.system, amount), tx)
            /\ view'.poh = Put(view.poh, view.system.current_tick + 1, NextEntry(view.system, tx))
            /\ saturated' = (saturated \/ view.system.total_supply + amount > MaxU64
                                       \/ view.system.n_wallets + 1 > MaxU64)
            /\ view'.iterations = view.iterations
  BY SameTrees DEF Ledger!Mint, Ledger!Anchor, tx
<1> QED BY <1>1, <1>2 DEF Ledger!Unlocked, Ledger!Exists

LEMMA SameNewlyActive ==
    ASSUME NEW ids
    PROVE  Ledger!NewlyActive(ids) = NewlyActiveIn(view, ids)
BY Zenon DEF Ledger!NewlyActive, NewlyActiveIn, Ledger!Cardinality, Cardinality

LEMMA ChargeIsAction ==
    ASSUME NEW id, NEW amount, NEW o,
           IsCharge(view, view', o, id, amount), saturated' = (saturated \/ o),
           ~view.system.iteration_lock, view.system.current_tick < MaxTick
    PROVE  Ledger!Charge(id, amount)
<1> DEFINE tx  == MintTx(id, amount, view.system.current_tick + 1, "charge")
           ws  == [view.wallets EXCEPT ![id].balance = SatAdd(@, amount)]
           sys == [view.system EXCEPT !.total_supply = SatAdd(@, amount)]
<1>1. /\ view'.wallets = ws
      /\ view'.system = Ticked(sys, tx)
      /\ view'.poh = Put(view.poh, view.system.current_tick + 1, NextEntry(view.system, tx))
      /\ view'.iterations = view.iterations
      /\ amount # 0 /\ id \in DOMAIN view.wallets
      /\ o = (view.system.total_supply + amount > MaxU64)
  BY Zenon DEF IsCharge, Books, Anchored
<1>2. /\ ws = [view.wallets EXCEPT ![id].balance = Ledger!SatAdd(@, amount)]
      /\ sys = [view.system EXCEPT !.total_supply = Ledger!SatAdd(@, amount)]
  BY Zenon DEF Ledger!SatAdd, SatAdd
<1> HIDE DEF tx, ws, sys
<1>3. tx = Ledger!MintTx(id, amount, view.system.current_tick + 1, "charge")
  BY SameTrees DEF tx
<1>4. /\ Ledger!Ticked(sys, tx) = Ticked(sys, tx)
      /\ Ledger!NextEntry(view.system, tx) = NextEntry(view.system, tx)
      /\ \A e : Ledger!Put(view.poh, view.system.current_tick + 1, e)
                  = Put(view.poh, view.system.current_tick + 1, e)
  BY SameTrees
<1>5. Ledger!Unlocked /\ Ledger!Exists(id) /\ Ledger!Anchor(view.system, tx)
  BY <1>1, <1>4 DEF Ledger!Anchor, Ledger!Unlocked, Ledger!Exists
<1>6. saturated' = (saturated \/ view.system.total_supply + amount > MaxU64)
  BY <1>1
<1> QED BY <1>1, <1>2, <1>3, <1>4, <1>5, <1>6, Zenon DEF Ledger!Charge

LEMMA TransferIsAction ==
    ASSUME NEW from, NEW to, NEW amount, NEW nonce, NEW o,
           IsTransfer(view, view', o, from, to, amount, nonce), saturated' = (saturated \/ o),
           ~view.system.iteration_lock, view.system.current_tick < MaxTick
    PROVE  Ledger!Transfer(from, to, amount, nonce)
<1> DEFINE tx  == TransferTx(from, to, amount, nonce)
           it  == view.system.current_iteration
           ws  == [view.wallets EXCEPT ![from] = Spent(@, amount, {to}, it),
                                       ![to]   = Received(@, amount, from, it)]
           sys == [Ticked(view.system, tx) EXCEPT
                     !.n_active_wallets = SatAdd(@, NewlyActiveIn(view, {from, to}))]
<1>1. /\ view'.wallets = ws
      /\ view'.system = sys
      /\ view'.poh = Put(view.poh, view.system.current_tick + 1, NextEntry(view.system, tx))
      /\ view'.iterations = view.iterations
      /\ amount # 0 /\ from # to /\ from \in DOMAIN view.wallets /\ to \in DOMAIN view.wallets
      /\ view.wallets[from].nonce = nonce /\ view.wallets[from].balance >= amount
      /\ o = (view.wallets[to].balance + amount > MaxU64)
  BY Zenon DEF IsTransfer, Books, Anchored
<1>2. ws = [view.wallets EXCEPT ![from] = Ledger!Spent(@, amount, {to}, it),
                                ![to]   = Ledger!Received(@, amount, from, it)]
  BY Zenon DEF Ledger!Spent, Spent, Ledger!Received, Received, Ledger!SatAdd, SatAdd
<1>3. Ledger!Ticked(view.system, tx) = Ticked(view.system, tx)
  BY SameTrees
<1>4. sys = [Ledger!Ticked(view.system, tx) EXCEPT
               !.n_active_wallets = Ledger!SatAdd(@, Ledger!NewlyActive({from, to}))]
  <2>1. \A a, b : Ledger!SatAdd(a, b) = SatAdd(a, b)
    BY SameArithmetic
  <2> QED BY <1>3, <2>1, SameNewlyActive
<1> HIDE DEF tx, ws, sys
<1>5. tx = Ledger!TransferTx(from, to, amount, nonce)
  BY SameTrees DEF tx
<1>6. /\ Ledger!NextEntry(view.system, tx) = NextEntry(view.system, tx)
      /\ \A e : Ledger!Put(view.poh, view.system.current_tick + 1, e)
                  = Put(view.poh, view.system.current_tick + 1, e)
  BY SameTrees
<1>7. /\ Ledger!Unlocked /\ Ledger!Exists(from) /\ Ledger!Exists(to)
      /\ Ledger!Anchor(view.system, tx) /\ Ledger!MaySpend(from, amount, nonce)
  BY <1>1, <1>6 DEF Ledger!Anchor, Ledger!Unlocked, Ledger!Exists, Ledger!MaySpend
<1>8. saturated' = (saturated \/ view.wallets[to].balance + amount > MaxU64)
  BY <1>1
<1> QED BY <1>1, <1>2, <1>4, <1>5, <1>7, <1>8, Zenon DEF Ledger!Transfer

LEMMA BurnIsAction ==
    ASSUME NEW from, NEW amount, NEW nonce, NEW o, saturated \in BOOLEAN,
           IsBurn(view, view', o, from, amount, nonce), saturated' = (saturated \/ o),
           ~view.system.iteration_lock, view.system.current_tick < MaxTick
    PROVE  Ledger!Burn(from, amount, nonce)
<1> DEFINE tx  == BurnTx(from, amount, nonce)
           mem == [view.system EXCEPT !.total_supply = SatSub(@, amount)]
           it  == view.system.current_iteration
           ws  == [view.wallets EXCEPT ![from] = Spent(@, amount, {}, it)]
           sys == [Ticked(mem, tx) EXCEPT
                     !.n_active_wallets = SatAdd(@, NewlyActiveIn(view, {from}))]
<1>1. /\ view'.wallets = ws
      /\ view'.system = sys
      /\ view'.poh = Put(view.poh, view.system.current_tick + 1, NextEntry(view.system, tx))
      /\ view'.iterations = view.iterations
      /\ amount # 0 /\ from \in DOMAIN view.wallets
      /\ view.wallets[from].nonce = nonce /\ view.wallets[from].balance >= amount
      /\ ~o
  BY Zenon DEF IsBurn, Books, Anchored
<1>2. ws = [view.wallets EXCEPT ![from] = Ledger!Spent(@, amount, {}, it)]
  BY Zenon DEF Ledger!Spent, Spent
<1>3. /\ mem = [view.system EXCEPT !.total_supply = Ledger!SatSub(@, amount)]
      /\ Ledger!Ticked(mem, tx) = Ticked(mem, tx)
  <2>1. mem = [view.system EXCEPT !.total_supply = Ledger!SatSub(@, amount)]
    BY Zenon DEF Ledger!SatSub, SatSub
  <2> HIDE DEF mem
  <2> QED BY <2>1, SameTrees
<1> HIDE DEF mem
<1>4. sys = [Ledger!Ticked(mem, tx) EXCEPT
               !.n_active_wallets = Ledger!SatAdd(@, Ledger!NewlyActive({from}))]
  <2>1. \A a, b : Ledger!SatAdd(a, b) = SatAdd(a, b)
    BY SameArithmetic
  <2> QED BY <1>3, <2>1, SameNewlyActive
<1> HIDE DEF tx, ws, sys
<1>5. tx = Ledger!BurnTx(from, amount, nonce)
  BY SameTrees DEF tx
<1>6. /\ Ledger!NextEntry(view.system, tx) = NextEntry(view.system, tx)
      /\ \A e : Ledger!Put(view.poh, view.system.current_tick + 1, e)
                  = Put(view.poh, view.system.current_tick + 1, e)
  BY SameTrees
<1>7. /\ Ledger!Unlocked /\ Ledger!Exists(from)
      /\ Ledger!Anchor(view.system, tx) /\ Ledger!MaySpend(from, amount, nonce)
  BY <1>1, <1>6 DEF Ledger!Anchor, Ledger!Unlocked, Ledger!Exists, Ledger!MaySpend
<1>8. saturated' = saturated
  BY <1>1
<1> QED BY <1>1, <1>2, <1>3, <1>4, <1>5, <1>7, <1>8, Zenon DEF Ledger!Burn

LEMMA IterationIsAction ==
    ASSUME NEW p, NEW first, NEW o,
           IsIteration(view, view', o, p, first), saturated' = (saturated \/ o),
           ~view.system.iteration_lock, view.system.current_tick < MaxTick
    PROVE  Ledger!ExecuteIterationNow(p, first)
<1> DEFINE r == ExecuteIteration(view.wallets, p, view.system, first)
<1>1. /\ view'.wallets = r.wallets
      /\ view'.system = Ticked(Committed(view.system, r), r.commit)
      /\ view'.poh = Put(view.poh, view.system.current_tick + 1, NextEntry(view.system, r.commit))
      /\ view'.iterations = Put(view.iterations, r.commit.iteration_id, r.commit)
      /\ ~Panics(p)
      /\ o = \/ Total(Balances(view.wallets)) > MaxU64
             \/ Total(Balances(r.wallets)) > MaxU64
             \/ r.n_wallets > MaxU64
  BY DEF IsIteration, Books, Anchored
<1>2. Ledger!ExecuteIteration(view.wallets, p, view.system, first) = r
  BY SameExecuteIteration
<1> HIDE DEF r
<1>3. /\ Ledger!Balances(view.wallets) = Balances(view.wallets)
      /\ Ledger!Balances(r.wallets) = Balances(r.wallets)
  BY Zenon DEF Ledger!Balances, Balances
<1>4. Ledger!IterationOverflows(r) = o
  BY <1>1, <1>3, SameSums DEF Ledger!IterationOverflows
<1>5. ~Ledger!Panics(p)
  BY <1>1, SameBurnRate
<1> QED BY <1>1, <1>2, <1>4, <1>5, SameTrees
        DEF Ledger!ExecuteIterationNow, Ledger!Anchor, Ledger!Unlocked

\* A step of the books is an action of Ledger.
LEMMA StepIsAction ==
    ASSUME NEW o, saturated \in BOOLEAN, saturated' = (saturated \/ o),
           LedgerStep(view, view', o)
    PROVE  Ledger!Next
<1>1. ~view.system.iteration_lock /\ view.system.current_tick < MaxTick
  BY DEF LedgerStep
<1>2. ASSUME NEW id \in Users, NEW p \in ParameterSets,
             IsMint(view, view', o, id, p.seed, "wallet_seed")
      PROVE  Ledger!Next
  BY <1>1, <1>2, MintIsAction DEF Ledger!Next, Ledger!Create, Ledger!CreateWallet
<1>3. ASSUME NEW id \in Users, NEW amount \in Amounts,
             IsMint(view, view', o, id, amount, "seed_bootstrap")
      PROVE  Ledger!Next
  BY <1>1, <1>3, MintIsAction DEF Ledger!Next, Ledger!Seed, Ledger!InstallSeedEntry
<1>4. ASSUME NEW id \in DOMAIN view.wallets, NEW amount \in Amounts,
             IsCharge(view, view', o, id, amount)
      PROVE  Ledger!Next
  BY <1>1, <1>4, ChargeIsAction DEF Ledger!Next, Ledger!Mints
<1>5. ASSUME NEW from \in Users, NEW to \in DOMAIN view.wallets, NEW amount \in Amounts,
             NEW nonce \in 0..MaxTick, IsTransfer(view, view', o, from, to, amount, nonce)
      PROVE  Ledger!Next
  BY <1>1, <1>5, TransferIsAction DEF Ledger!Next, Ledger!Spends
<1>6. ASSUME NEW from \in Users, NEW amount \in Amounts,
             NEW nonce \in 0..MaxTick, IsBurn(view, view', o, from, amount, nonce)
      PROVE  Ledger!Next
  <2>1. Ledger!Burn(from, amount, nonce)
    BY <1>1, <1>6, BurnIsAction
  <2> QED BY <2>1 DEF Ledger!Next, Ledger!Spends
<1>7. ASSUME NEW p \in ParameterSets,
             NEW first \in (IF DOMAIN view.wallets = {} THEN {ZERO_HASH} ELSE DOMAIN view.wallets),
             IsIteration(view, view', o, p, first)
      PROVE  Ledger!Next
  <2>1. first \in Ledger!Firsts
    BY DEF Ledger!Firsts, Ledger!ZERO_HASH, ZERO_HASH
  <2> QED BY <1>1, <1>7, <2>1, IterationIsAction DEF Ledger!Next, Ledger!Iterate
<1> QED BY <1>2, <1>3, <1>4, <1>5, <1>6, <1>7 DEF LedgerStep, Operation

-----------------------------------------------------------------------------
(* The writes of the handlers, as steps of the books.                      *)

Pair(l, v) == [live |-> l, view |-> v]

IsWrite(w) ==
    w = [tree |-> w.tree, key |-> w.key, value |-> w.value, mem |-> w.mem,
         commits |-> w.commits, overflows |-> w.overflows]

LEMMA WriteFields ==
    ASSUME NEW tree, NEW key, NEW value, NEW mem
    PROVE  /\ IsWrite(Write(tree, key, value, mem))
           /\ Write(tree, key, value, mem).tree = tree
           /\ Write(tree, key, value, mem).key = key
           /\ Write(tree, key, value, mem).value = value
           /\ Write(tree, key, value, mem).mem = mem
           /\ ~Write(tree, key, value, mem).commits
           /\ ~Write(tree, key, value, mem).overflows
BY DEF Write, IsWrite

LEMMA CommitFields ==
    ASSUME NEW w, IsWrite(w), NEW o
    PROVE  /\ Commit(w, o).tree = w.tree /\ Commit(w, o).key = w.key
           /\ Commit(w, o).value = w.value /\ Commit(w, o).mem = w.mem
           /\ Commit(w, o).commits /\ Commit(w, o).overflows = o
<1> DEFINE c == Commit(w, o)
<1>1. c = [w EXCEPT !.commits = TRUE, !.overflows = o]
  BY Zenon DEF Commit
<1>2. PICK tree, key, value, mem, d, v :
        w = [tree |-> tree, key |-> key, value |-> value, mem |-> mem, commits |-> d,
             overflows |-> v]
  BY DEF IsWrite
<1>3. c = [tree |-> tree, key |-> key, value |-> value, mem |-> mem, commits |-> TRUE,
           overflows |-> o]
  BY <1>1, <1>2
<1> HIDE DEF c
<1>4. /\ c.tree = w.tree /\ c.key = w.key /\ c.value = w.value /\ c.mem = w.mem
      /\ c.commits /\ c.overflows = o
  BY <1>2, <1>3
<1> QED BY <1>4 DEF c

\* A write that commits nothing.
LEMMA SilentWrite ==
    ASSUME NEW l, NEW v, NEW tree, NEW key, NEW value, NEW mem
    PROVE  Follows(Pair(l, v), Write(tree, key, value, mem),
                   Pair(Books(IF tree = "wallets" THEN Put(l.wallets, key, value) ELSE l.wallets,
                              mem,
                              IF tree = "poh" THEN Put(l.poh, key, value) ELSE l.poh,
                              IF tree = "iterations" THEN Put(l.iterations, key, value)
                              ELSE l.iterations), v))
<1> DEFINE w == Write(tree, key, value, mem)
           n == Effect(l, w)
<1>1. /\ w.tree = tree /\ w.key = key /\ w.value = value /\ w.mem = mem
      /\ ~w.commits /\ ~w.overflows
  BY WriteFields
<1> HIDE DEF w
<1>2. n = Books(IF tree = "wallets" THEN Put(l.wallets, key, value) ELSE l.wallets,
                mem,
                IF tree = "poh" THEN Put(l.poh, key, value) ELSE l.poh,
                IF tree = "iterations" THEN Put(l.iterations, key, value)
                ELSE l.iterations)
  BY <1>1 DEF Effect
<1>3. /\ Pair(l, v).live = l /\ Pair(l, v).view = v
      /\ Pair(n, v).live = n /\ Pair(n, v).view = v
  BY DEF Pair
<1>4. Follows(Pair(l, v), w, Pair(n, v))
  BY <1>1, <1>3 DEF Follows
<1> QED BY <1>2, <1>4 DEF w

LEMMA PutFollows ==
    ASSUME NEW l, NEW v, NEW id, NEW wallet, NEW m
    PROVE  Follows(Pair(l, v), PutWallet(id, wallet, m),
                   Pair(Books(Put(l.wallets, id, wallet), m, l.poh, l.iterations), v))
BY SilentWrite DEF PutWallet

LEMMA StateFollows ==
    ASSUME NEW l, NEW v, NEW m
    PROVE  /\ Follows(Pair(l, v), StoreState(m), Pair(Books(l.wallets, m, l.poh, l.iterations), v))
           /\ Follows(Pair(l, v), Flush(m), Pair(Books(l.wallets, m, l.poh, l.iterations), v))
<1>1. Follows(Pair(l, v), StoreState(m), Pair(Books(l.wallets, m, l.poh, l.iterations), v))
  BY SilentWrite DEF StoreState
<1>2. Follows(Pair(l, v), Flush(m), Pair(Books(l.wallets, m, l.poh, l.iterations), v))
  BY SilentWrite DEF Flush
<1> QED BY <1>1, <1>2

LEMMA FileFollows ==
    ASSUME NEW l, NEW v, NEW key, NEW value, NEW m
    PROVE  Follows(Pair(l, v), Write("iterations", key, value, m),
                   Pair(Books(l.wallets, m, l.poh, Put(l.iterations, key, value)), v))
BY SilentWrite

\* A write that commits takes the view to the live books.
LEMMA CommitFollows ==
    ASSUME NEW a, NEW w, IsWrite(w), ~w.commits, NEW l, NEW v, Follows(a, w, Pair(l, v)),
           NEW o, LedgerStep(v, l, o)
    PROVE  Follows(a, Commit(w, o), Pair(l, l))
<1> DEFINE c == Commit(w, o)
<1>1. /\ c.tree = w.tree /\ c.key = w.key /\ c.value = w.value /\ c.mem = w.mem
      /\ c.commits /\ c.overflows = o
  BY CommitFields
<1> HIDE DEF c
<1>2. /\ Pair(l, v).live = l /\ Pair(l, v).view = v
      /\ Pair(l, l).live = l /\ Pair(l, l).view = l
  BY DEF Pair
<1>3. l = Effect(a.live, w) /\ v = a.view
  BY <1>2 DEF Follows
<1>4. Effect(a.live, c) = Effect(a.live, w)
  BY <1>1 DEF Effect
<1> QED BY <1>1, <1>2, <1>3, <1>4 DEF Follows, c

LEMMA CommitStateFollows ==
    ASSUME NEW l, NEW v, NEW m, NEW o,
           LedgerStep(v, Books(l.wallets, m, l.poh, l.iterations), o)
    PROVE  Follows(Pair(l, v), Commit(StoreState(m), o),
                   Pair(Books(l.wallets, m, l.poh, l.iterations),
                        Books(l.wallets, m, l.poh, l.iterations)))
<1>1. IsWrite(StoreState(m)) /\ ~StoreState(m).commits
  BY WriteFields DEF StoreState
<1> QED BY <1>1, StateFollows, CommitFollows

\* What append_tx_locked leaves.
Chained(l, sys, tx) ==
    Books(l.wallets, Ticked(sys, tx), Put(l.poh, sys.current_tick + 1, NextEntry(sys, tx)),
          l.iterations)

LEMMA BooksFields ==
    ASSUME NEW ws, NEW sys, NEW log, NEW its
    PROVE  /\ Books(ws, sys, log, its).wallets = ws /\ Books(ws, sys, log, its).system = sys
           /\ Books(ws, sys, log, its).poh = log /\ Books(ws, sys, log, its).iterations = its
BY DEF Books

LEMMA AppendTrace ==
    ASSUME NEW l, NEW v, NEW sys, SystemOK(sys), NEW tx, IsFiniteSet(WalletIds(tx))
    PROVE  /\ Trace(Pair(l, v), AppendTx(sys, tx), Pair(Chained(l, sys, tx), v))
           /\ Len(AppendTx(sys, tx)) \in Nat \ {0}
           /\ IsWrite(AppendTx(sys, tx)[Len(AppendTx(sys, tx))])
           /\ ~AppendTx(sys, tx)[Len(AppendTx(sys, tx))].commits
<1> DEFINE mem  == Ticked(sys, tx)
           ids  == InSomeOrder(WalletIds(tx))
           n    == Cardinality(WalletIds(tx))
           put  == Write("transactions", tx, mem.current_tick, mem)
           idx  == [i \in 1..n |-> Write("tx_by_wallet", ids[i], tx, mem)]
           last == Write("poh", mem.current_tick, NextEntry(sys, tx), mem)
           b    == Books(l.wallets, mem, l.poh, l.iterations)
           c    == Chained(l, sys, tx)
<1>1. AppendTx(sys, tx) = <<put>> \o idx \o <<last>>
  BY DEF AppendTx
<1>2. mem.current_tick = sys.current_tick + 1
  BY TickedSystem
<1>3. n \in Nat
  BY FS_CardinalityType
<1>4. c = Books(l.wallets, mem, Put(l.poh, mem.current_tick, NextEntry(sys, tx)), l.iterations)
  BY <1>2 DEF Chained
<1> HIDE DEF mem, ids, n, c
<1>5. b.wallets = l.wallets /\ b.system = mem /\ b.poh = l.poh /\ b.iterations = l.iterations
  BY BooksFields
<1>6. b = Books(b.wallets, mem, b.poh, b.iterations)
      /\ c = Books(b.wallets, mem, Put(b.poh, mem.current_tick, NextEntry(sys, tx)), b.iterations)
  BY <1>4, <1>5
<1>7. Follows(Pair(l, v), put, Pair(b, v))
  BY SilentWrite
<1> HIDE DEF b
<1>8. \A i \in 1..n : Follows(Pair(b, v), idx[i], Pair(b, v))
  <2> TAKE i \in 1..n
  <2>1. idx[i] = Write("tx_by_wallet", ids[i], tx, mem)
    OBVIOUS
  <2> HIDE DEF idx
  <2> QED BY <1>6, <2>1, SilentWrite
<1>9. Follows(Pair(b, v), last, Pair(c, v))
  BY <1>6, SilentWrite
<1>10. IsWrite(last) /\ ~last.commits
  BY WriteFields
<1> HIDE DEF put, last
<1>11. idx \in Seq({idx[i] : i \in 1..n}) /\ Len(idx) = n
  BY <1>3
<1> HIDE DEF idx
<1>12. Trace(Pair(l, v), <<put>>, Pair(b, v)) /\ Trace(Pair(b, v), <<last>>, Pair(c, v))
  BY <1>7, <1>9, TraceOne
<1>13. Trace(Pair(b, v), idx, Pair(b, v))
  BY <1>8, <1>11, TraceSame
<1>14. Trace(Pair(l, v), <<put>> \o idx, Pair(b, v))
  BY <1>12, <1>13, TraceConcat
<1>15. Trace(Pair(l, v), <<put>> \o idx \o <<last>>, Pair(c, v))
  BY <1>12, <1>14, TraceConcat
<1>16. /\ Len(<<put>> \o idx \o <<last>>) = n + 2
       /\ (<<put>> \o idx \o <<last>>)[n + 2] = last
  <2>1. PICK S : <<put>> \o idx \in Seq(S)
    BY <1>14 DEF Trace
  <2>2. Len(<<put>> \o idx) = n + 1
    BY <1>3, <1>11
  <2> DEFINE q == <<put>> \o idx
  <2> HIDE DEF q
  <2>3. q \in Seq(S \cup {last}) /\ <<last>> \in Seq(S \cup {last}) /\ Len(q) = n + 1
    BY <2>1, <2>2 DEF q
  <2>4. Len(q \o <<last>>) = n + 2 /\ (q \o <<last>>)[n + 2] = last
    BY <1>3, <2>3
  <2> QED BY <2>4 DEF q
<1>17. Len(AppendTx(sys, tx)) = n + 2 /\ AppendTx(sys, tx)[n + 2] = last
  BY <1>1, <1>16
<1> QED BY <1>1, <1>3, <1>10, <1>15, <1>17 DEF c

-----------------------------------------------------------------------------
(* The plans of the handlers, as steps of the books.                       *)

\* A handler that passes its checks finds the books closed.
Opens ==
    /\ view = Live
    /\ SystemOK(system) /\ WalletsOK(wallets)
    /\ ~system.iteration_lock /\ system.current_tick < MaxTick

\* What an iteration that panicked leaves: the books, and the lock.
OnlyLocked(l, v) ==
    /\ l.system.iteration_lock
    /\ v = Books(l.wallets, [l.system EXCEPT !.iteration_lock = FALSE], l.poh, l.iterations)

\* At the end of a plan everything is committed, but for the lock of a panic.
MayPanic == \E p \in ParameterSets : Panics(p)

Rests(b) == \/ b.view = b.live
            \/ MayPanic /\ OnlyLocked(b.live, b.view)

Implements(p) == \E b : Trace(Pair(Live, view), p, b) /\ Rests(b)

LEMMA PairFields ==
    ASSUME NEW l, NEW v
    PROVE  Pair(l, v).live = l /\ Pair(l, v).view = v
BY DEF Pair

LEMMA ClosedRests ==
    ASSUME NEW l
    PROVE  Rests(Pair(l, l))
<1> DEFINE b == Pair(l, l)
<1>1. b.view = b.live
  BY PairFields
<1> HIDE DEF b
<1>2. Rests(b)
  BY <1>1, Zenon DEF Rests
<1> QED BY <1>2 DEF b

LEMMA LiveFields ==
    /\ Live.wallets = wallets /\ Live.system = system
    /\ Live.poh = poh /\ Live.iterations = iterations
BY DEF Live, Books

LEMMA SameEntry ==
    ASSUME NEW m, NEW n, SameClock(m, n), NEW tx
    PROVE  NextEntry(m, tx) = NextEntry(n, tx)
BY DEF NextEntry, SameClock

LEMMA TraceThen ==
    ASSUME NEW a, NEW b, NEW c, NEW p, NEW w, Trace(a, p, b), Follows(b, w, c)
    PROVE  Trace(a, p \o <<w>>, c)
BY TraceOne, TraceConcat

\* The handlers of users end alike.
LEMMA UserImplements ==
    ASSUME Opens, NEW ws, NEW p,
           Trace(Pair(Live, view), p, Pair(Books(ws, system, poh, iterations), view)),
           NEW mem, SystemOK(mem), SameClock(mem, system),
           NEW tx, IsFiniteSet(WalletIds(tx)),
           NEW end, SystemOK(end), SameClock(end, Ticked(mem, tx)),
           NEW o, Operation(view, Books(ws, end, Anchored(view, tx), iterations), o)
    PROVE  Implements(p \o AppendTx(mem, tx) \o <<Commit(StoreState(end), o)>>)
<1> DEFINE l    == Books(ws, system, poh, iterations)
           c    == Chained(l, mem, tx)
           last == Books(ws, end, Anchored(view, tx), iterations)
           w    == Commit(StoreState(end), o)
           app  == AppendTx(mem, tx)
<1>1. Trace(Pair(l, view), app, Pair(c, view))
  BY AppendTrace
<1>2. Trace(Pair(Live, view), p \o app, Pair(c, view))
  BY <1>1, TraceConcat
<1>3. last = Books(c.wallets, end, c.poh, c.iterations)
  <2>1. l.wallets = ws /\ l.poh = poh /\ l.iterations = iterations
    BY BooksFields
  <2>2. NextEntry(mem, tx) = NextEntry(system, tx) /\ mem.current_tick = system.current_tick
    BY SameEntry DEF SameClock
  <2>3. view.poh = poh /\ view.system = system
    BY LiveFields DEF Opens
  <2> HIDE DEF l
  <2>4. c.wallets = ws /\ c.iterations = iterations
        /\ c.poh = Put(poh, mem.current_tick + 1, NextEntry(mem, tx))
    BY <2>1, BooksFields DEF Chained
  <2>5. c.poh = Anchored(view, tx)
    BY <2>2, <2>3, <2>4 DEF Anchored
  <2> QED BY <2>4, <2>5
<1>4. LedgerStep(view, last, o)
  <2>1. last.system = end /\ view.system = system
    BY BooksFields, LiveFields DEF Opens
  <2>2. ~end.iteration_lock
    BY TickedSystem DEF SameClock, Opens
  <2> HIDE DEF last
  <2>3. Operation(view, last, o)
    BY DEF last
  <2> QED BY <2>1, <2>2, <2>3 DEF LedgerStep, Opens
<1> HIDE DEF l, c, last, app
<1>5. Follows(Pair(c, view), w, Pair(last, last))
  BY <1>3, <1>4, CommitStateFollows
<1> HIDE DEF w
<1>6. Trace(Pair(Live, view), (p \o app) \o <<w>>, Pair(last, last))
  BY <1>2, <1>5, TraceThen
<1>7. Rests(Pair(last, last))
  BY ClosedRests
<1> QED BY <1>6, <1>7 DEF Implements, app, w

\* The first write of a handler.
LEMMA FirstPut ==
    ASSUME Opens, NEW id, NEW wallet
    PROVE  Trace(Pair(Live, view), <<PutWallet(id, wallet, system)>>,
                 Pair(Books(Put(wallets, id, wallet), system, poh, iterations), view))
<1>1. Follows(Pair(Live, view), PutWallet(id, wallet, system),
              Pair(Books(Put(Live.wallets, id, wallet), system, Live.poh, Live.iterations), view))
  BY PutFollows
<1> QED BY <1>1, LiveFields, TraceOne

\* create_wallet; an entry of a seed file is another matter.
LEMMA MintImplements ==
    ASSUME Opens, NEW id \in Users, ~Exists(id), NEW p \in ParameterSets
    PROVE  Implements(MintPlan(id, p.seed, "wallet_seed"))
<1> DEFINE amount == p.seed
           tx     == MintTx(id, amount, system.current_tick + 1, "wallet_seed")
           mem    == AfterCreate(system, amount)
           wallet == NewWallet(amount, system.current_iteration)
           end    == Ticked(mem, tx)
           o      == CreateOverflows(system, amount)
<1>1. SystemOK(system) /\ amount \in 0..MaxU64
  <2>1. p \in Parameters
    BY ParametersAssumption
  <2>2. p.seed \in 0..MaxU64
    BY <2>1 DEF Parameters
  <2>3. SystemOK(system)
    BY DEF Opens
  <2> HIDE DEF amount
  <2>4. amount \in 0..MaxU64
    BY <2>2 DEF amount
  <2> QED BY <2>3, <2>4
<1>2. IsFiniteSet(WalletIds(tx))
  BY UserTxWallets
<1>3. Operation(view, Books(Put(wallets, id, wallet), end, Anchored(view, tx), iterations), o)
  <2>1. view.wallets = wallets /\ view.system = system /\ view.iterations = iterations
    BY LiveFields DEF Opens
  <2>2. IsMint(view, Books(Put(wallets, id, wallet), end, Anchored(view, tx), iterations), o,
               id, p.seed, "wallet_seed")
    BY <2>1 DEF IsMint, Exists
  <2> QED BY <2>2, Zenon DEF Operation
<1> HIDE DEF tx, wallet, o, amount
<1>4. SystemOK(mem) /\ SameClock(mem, system)
  BY <1>1, CreatedSystem
<1> HIDE DEF mem
<1>5. SystemOK(end) /\ SameClock(end, Ticked(mem, tx))
  BY <1>4, TickedSystem DEF SameClock
<1> HIDE DEF end
<1>6. Implements(<<PutWallet(id, wallet, system)>> \o AppendTx(mem, tx)
                   \o <<Commit(StoreState(end), o)>>)
  <2>1. Trace(Pair(Live, view), <<PutWallet(id, wallet, system)>>,
              Pair(Books(Put(wallets, id, wallet), system, poh, iterations), view))
    BY FirstPut
  <2> QED BY <1>2, <1>3, <1>4, <1>5, <2>1, UserImplements
<1> QED BY <1>6, Zenon DEF MintPlan, amount, tx, mem, wallet, end, o

\* Writes to wallets that exist, as updates of the tree.
LEMMA ChargePut ==
    ASSUME NEW S, NEW ws, DOMAIN ws = S, ws = [w \in S |-> ws[w]], NEW id \in S, NEW amount
    PROVE  [ws EXCEPT ![id].balance = SatAdd(@, amount)]
             = Put(ws, id, [ws[id] EXCEPT !.balance = SatAdd(@, amount)])
<1>1. PICK x : x = [ws[id] EXCEPT !.balance = SatAdd(@, amount)]
  OBVIOUS
<1>2. [ws EXCEPT ![id].balance = SatAdd(@, amount)] = [ws EXCEPT ![id] = x]
  BY <1>1, Zenon
<1>3. [ws EXCEPT ![id] = x] = [w \in S |-> IF w = id THEN x ELSE ws[w]]
  OBVIOUS
<1>4. Put(ws, id, x) = [w \in S |-> IF w = id THEN x ELSE ws[w]]
  <2>1. S \cup {id} = S
    OBVIOUS
  <2> QED BY <2>1 DEF Put
<1> QED BY <1>1, <1>2, <1>3, <1>4

LEMMA OnePut ==
    ASSUME NEW S, NEW ws, DOMAIN ws = S, ws = [w \in S |-> ws[w]], NEW id \in S, NEW x
    PROVE  [ws EXCEPT ![id] = x] = Put(ws, id, x)
<1>1. [ws EXCEPT ![id] = x] = [w \in S |-> IF w = id THEN x ELSE ws[w]]
  OBVIOUS
<1>2. S \cup {id} = S
  OBVIOUS
<1> QED BY <1>1, <1>2 DEF Put

LEMMA TwoPuts ==
    ASSUME NEW S, NEW ws, DOMAIN ws = S, ws = [w \in S |-> ws[w]],
           NEW u \in S, NEW v \in S, u # v, NEW x, NEW y
    PROVE  [ws EXCEPT ![u] = x, ![v] = y] = Put(Put(ws, u, x), v, y)
<1>1. [ws EXCEPT ![u] = x, ![v] = y]
        = [w \in S |-> IF w = v THEN y ELSE IF w = u THEN x ELSE ws[w]]
  OBVIOUS
<1> DEFINE p == Put(ws, u, x)
<1>2. p = [w \in S |-> IF w = u THEN x ELSE ws[w]]
  <2>1. S \cup {u} = S
    OBVIOUS
  <2> QED BY <2>1 DEF Put
<1>3. DOMAIN p = S /\ \A w \in S : p[w] = IF w = u THEN x ELSE ws[w]
  BY <1>2
<1> HIDE DEF p
<1>4. Put(p, v, y) = [w \in S |-> IF w = v THEN y ELSE p[w]]
  <2>1. S \cup {v} = S
    OBVIOUS
  <2> QED BY <1>3, <2>1 DEF Put
<1> QED BY <1>1, <1>3, <1>4 DEF p

LEMMA AmountFits == ASSUME NEW amount \in Amounts PROVE amount \in 0..MaxU64
OBVIOUS

LEMMA ChargeImplements ==
    ASSUME Opens, NEW id \in DOMAIN wallets, NEW amount \in Amounts, amount # 0
    PROVE  Implements(ChargePlan(id, amount))
<1> DEFINE tx     == MintTx(id, amount, system.current_tick + 1, "charge")
           supply == SatAdd(system.total_supply, amount)
           mem    == [system EXCEPT !.total_supply = SatAdd(@, amount)]
           wallet == [wallets[id] EXCEPT !.balance = SatAdd(@, amount)]
           o      == system.total_supply + amount > MaxU64
<1>1. SystemOK(system) /\ WalletsOK(wallets)
  BY DEF Opens
<1>2. SystemOK(mem) /\ SameClock(mem, system)
  <2>1. system.total_supply \in Nat
    BY <1>1, SystemFields
  <2>2. amount \in 0..MaxU64
    BY Zenon, AmountFits
  <2>3. amount \in Nat
    BY <2>2
  <2>4. supply \in 0..MaxU64
    BY <2>1, <2>3, SatAddType
  <2>5. mem = [system EXCEPT !.total_supply = supply]
    BY <1>1 DEF SystemOK, SystemRecord
  <2> HIDE DEF supply
  <2> QED BY <1>1, <2>4, <2>5, SuppliedSystem
<1>3. IsFiniteSet(WalletIds(tx))
  BY UserTxWallets
<1>4. Operation(view, Books(Put(wallets, id, wallet), Ticked(mem, tx), Anchored(view, tx),
                            iterations), o)
  <2>1. view.wallets = wallets /\ view.system = system /\ view.iterations = iterations
    BY LiveFields DEF Opens
  <2>2. [wallets EXCEPT ![id].balance = SatAdd(@, amount)] = Put(wallets, id, wallet)
    BY <1>1, ChargePut DEF WalletsOK
  <2>3. IsCharge(view, Books(Put(wallets, id, wallet), Ticked(mem, tx), Anchored(view, tx),
                             iterations), o, id, amount)
    BY <2>1, <2>2 DEF IsCharge
  <2> QED BY <2>1, <2>3, Zenon DEF Operation
<1> HIDE DEF tx, mem, wallet, o
<1>5. SystemOK(Ticked(mem, tx)) /\ SameClock(Ticked(mem, tx), Ticked(mem, tx))
  BY <1>2, TickedSystem DEF SameClock
<1>6. Implements(<<PutWallet(id, wallet, system)>> \o AppendTx(mem, tx)
                   \o <<Commit(StoreState(Ticked(mem, tx)), o)>>)
  <2>1. Trace(Pair(Live, view), <<PutWallet(id, wallet, system)>>,
              Pair(Books(Put(wallets, id, wallet), system, poh, iterations), view))
    BY FirstPut
  <2> QED BY <1>2, <1>3, <1>4, <1>5, <2>1, UserImplements
<1> QED BY <1>6, Zenon DEF ChargePlan, tx, mem, wallet, o

\* The wallets that were not active in the iteration of the books are those of the memory.
LEMMA ActivatedBooks ==
    ASSUME Opens, NEW m, NEW ids
    PROVE  Activated(m, ids) = [m EXCEPT !.n_active_wallets = SatAdd(@, NewlyActiveIn(view, ids))]
<1>1. view.wallets = wallets /\ view.system = system
  BY LiveFields DEF Opens
<1>2. NewlyActiveIn(view, ids) = NewlyActive(ids)
  BY <1>1 DEF NewlyActiveIn, NewlyActive
<1> QED BY <1>2 DEF Activated

LEMMA TransferImplements ==
    ASSUME Opens, NEW from \in Users, from \in DOMAIN wallets, NEW to \in DOMAIN wallets,
           from # to, NEW amount \in Amounts, amount # 0, NEW nonce \in 0..MaxTick,
           wallets[from].nonce = nonce, wallets[from].balance >= amount
    PROVE  Implements(TransferPlan(from, to, amount, nonce))
<1> DEFINE tx   == TransferTx(from, to, amount, nonce)
           it   == system.current_iteration
           paid == Spent(wallets[from], amount, {to}, it)
           got  == Received(wallets[to], amount, from, it)
           end  == Activated(Ticked(system, tx), {from, to})
           o    == wallets[to].balance + amount > MaxU64
           ws   == Put(Put(wallets, from, paid), to, got)
<1>1. SystemOK(system) /\ WalletsOK(wallets)
  BY DEF Opens
<1>2. IsFiniteSet(WalletIds(tx)) /\ IsFiniteSet({from, to})
  <2>1. WalletIds(tx) = {from, to}
    BY DEF WalletIds, TransferTx
  <2>2. IsFiniteSet(WalletIds(tx))
    BY UserTxWallets
  <2> QED BY <2>1, <2>2
<1>3. Operation(view, Books(ws, end, Anchored(view, tx), iterations), o)
  <2>1. view.wallets = wallets /\ view.system = system /\ view.iterations = iterations
    BY LiveFields DEF Opens
  <2>2. ws = [wallets EXCEPT ![from] = paid, ![to] = got]
    <3> HIDE DEF paid, got
    <3>1. PICK S : S = DOMAIN wallets
      OBVIOUS
    <3>2. wallets = [w \in S |-> wallets[w]]
      BY <1>1, <3>1 DEF WalletsOK
    <3> QED BY <3>1, <3>2, TwoPuts
  <2>3. ws = [wallets EXCEPT ![from] = Spent(@, amount, {to}, it),
                             ![to]   = Received(@, amount, from, it)]
    <3>1. [wallets EXCEPT ![from] = paid][to] = wallets[to]
      BY <1>1
    <3> DEFINE ws1 == [wallets EXCEPT ![from] = paid]
    <3>2. [wallets EXCEPT ![from] = Spent(@, amount, {to}, it),
                          ![to]   = Received(@, amount, from, it)]
            = [ws1 EXCEPT ![to] = Received(ws1[to], amount, from, it)]
      BY Zenon
    <3>3. [wallets EXCEPT ![from] = paid, ![to] = got] = [ws1 EXCEPT ![to] = got]
      BY Zenon
    <3> QED BY <2>2, <3>1, <3>2, <3>3, Zenon
  <2> HIDE DEF ws, o
  <2>4. end = [Ticked(system, tx) EXCEPT
                 !.n_active_wallets = SatAdd(@, NewlyActiveIn(view, {from, to}))]
    BY ActivatedBooks
  <2> HIDE DEF end, tx
  <2>5. IsTransfer(view, Books(ws, end, Anchored(view, tx), iterations), o, from, to, amount, nonce)
    BY <2>1, <2>3, <2>4 DEF IsTransfer, o, tx
  <2>6. to \in DOMAIN view.wallets
    BY <2>1
  <2> QED BY <2>5, <2>6, Zenon DEF Operation
<1>4. SystemOK(end) /\ SameClock(end, Ticked(system, tx))
  <2> HIDE DEF tx
  <2>1. SystemOK(Ticked(system, tx))
    BY <1>1, TickedSystem
  <2> QED BY <1>1, <1>2, <2>1, ActivatedSystem
<1> HIDE DEF tx, paid, got, end, o, ws
<1>5. SameClock(system, system)
  BY DEF SameClock
<1> DEFINE put  == PutWallet(from, paid, system)
           puts == PutWallet(to, got, system)
           l    == Books(Put(wallets, from, paid), system, poh, iterations)
<1>6. Trace(Pair(Live, view), <<put>>, Pair(l, view))
  BY FirstPut
<1>7. Trace(Pair(l, view), <<puts>>, Pair(Books(ws, system, poh, iterations), view))
  <2>1. Follows(Pair(l, view), puts,
                Pair(Books(Put(l.wallets, to, got), system, l.poh, l.iterations), view))
    BY PutFollows
  <2>2. Put(l.wallets, to, got) = ws /\ l.poh = poh /\ l.iterations = iterations
    BY BooksFields DEF ws
  <2> HIDE DEF l, puts
  <2> QED BY <2>1, <2>2, TraceOne
<1> HIDE DEF put, puts, l
<1>8. Trace(Pair(Live, view), <<put, puts>>, Pair(Books(ws, system, poh, iterations), view))
  <2>1. Trace(Pair(Live, view), <<put>> \o <<puts>>, Pair(Books(ws, system, poh, iterations), view))
    BY <1>6, <1>7, TraceConcat
  <2> QED BY <2>1, PairOfWrites
<1>9. Implements(<<put, puts>> \o AppendTx(system, tx) \o <<Commit(StoreState(end), o)>>)
  BY <1>1, <1>2, <1>3, <1>4, <1>5, <1>8, UserImplements
<1>10. MoveCoins(from, to, amount) = <<put, puts>>
  BY Zenon DEF MoveCoins, put, puts, paid, got
<1> QED BY <1>9, <1>10, Zenon DEF TransferPlan, tx, end, o

LEMMA BurnImplements ==
    ASSUME Opens, NEW from \in Users, from \in DOMAIN wallets,
           NEW amount \in Amounts, amount # 0, NEW nonce \in 0..MaxTick,
           wallets[from].nonce = nonce, wallets[from].balance >= amount
    PROVE  Implements(BurnPlan(from, amount, nonce))
<1> DEFINE tx     == BurnTx(from, amount, nonce)
           supply == SatSub(system.total_supply, amount)
           mem    == [system EXCEPT !.total_supply = SatSub(@, amount)]
           paid   == Spent(wallets[from], amount, {}, system.current_iteration)
           end    == Activated(Ticked(mem, tx), {from})
           ws     == Put(wallets, from, paid)
<1>1. SystemOK(system) /\ WalletsOK(wallets)
  BY DEF Opens
<1>2. SystemOK(mem) /\ SameClock(mem, system)
  <2>1. system.total_supply \in 0..MaxU64
    BY <1>1 DEF SystemOK, SystemRecord
  <2>2. amount \in 0..MaxU64
    BY Zenon, AmountFits
  <2>3. supply \in 0..MaxU64
    <3> DEFINE s == system.total_supply
    <3> HIDE DEF s
    <3>1. s \in 0..MaxU64 => SatSub(s, amount) \in 0..MaxU64
      BY <2>2 DEF SatSub
    <3> QED BY <2>1, <3>1 DEF s
  <2>4. mem = [system EXCEPT !.total_supply = supply]
    BY <1>1 DEF SystemOK, SystemRecord
  <2> HIDE DEF supply
  <2> QED BY <1>1, <2>3, <2>4, SuppliedSystem
<1>3. IsFiniteSet(WalletIds(tx)) /\ IsFiniteSet({from})
  <2>1. IsFiniteSet(WalletIds(tx))
    BY UserTxWallets
  <2> QED BY <2>1, FS_Singleton
<1>4. Operation(view, Books(ws, end, Anchored(view, tx), iterations), FALSE)
  <2>1. view.wallets = wallets /\ view.system = system /\ view.iterations = iterations
    BY LiveFields DEF Opens
  <2>2. ws = [wallets EXCEPT ![from] = Spent(@, amount, {}, system.current_iteration)]
    <3> HIDE DEF paid
    <3>1. PICK S : S = DOMAIN wallets
      OBVIOUS
    <3>2. wallets = [w \in S |-> wallets[w]]
      BY <1>1, <3>1 DEF WalletsOK
    <3>3. ws = [wallets EXCEPT ![from] = paid]
      BY <3>1, <3>2, OnePut
    <3> QED BY <3>3, Zenon DEF paid
  <2> HIDE DEF ws
  <2>3. end = [Ticked(mem, tx) EXCEPT
                 !.n_active_wallets = SatAdd(@, NewlyActiveIn(view, {from}))]
    BY ActivatedBooks
  <2> HIDE DEF end, tx
  <2>4. IsBurn(view, Books(ws, end, Anchored(view, tx), iterations), FALSE, from, amount, nonce)
    BY <2>1, <2>2, <2>3 DEF IsBurn, tx
  <2> QED BY <2>4, Zenon DEF Operation
<1> HIDE DEF tx, mem, paid
<1>5. SystemOK(end) /\ SameClock(end, Ticked(mem, tx))
  <2>1. SystemOK(Ticked(mem, tx))
    BY <1>2, TickedSystem
  <2> QED BY <1>1, <1>3, <2>1, ActivatedSystem
<1>6. Trace(Pair(Live, view), <<PutWallet(from, paid, system)>>,
            Pair(Books(ws, system, poh, iterations), view))
  BY FirstPut
<1> HIDE DEF end, ws
<1>7. Implements(<<PutWallet(from, paid, system)>> \o AppendTx(mem, tx)
                   \o <<Commit(StoreState(end), FALSE)>>)
  BY <1>2, <1>3, <1>4, <1>5, <1>6, UserImplements
<1> QED BY <1>7, Zenon DEF BurnPlan, tx, mem, paid, end

\* InSomeOrder leaves nothing out.
LEMMA ListsAll ==
    ASSUME NEW S, IsFiniteSet(S)
    PROVE  \A x \in S : \E i \in 1..Len(InSomeOrder(S)) : InSomeOrder(S)[i] = x
<1> DEFINE n == Cardinality(S)
           s == InSomeOrder(S)
<1>1. n \in Nat
  BY FS_CardinalityType
<1>2. PICK f \in Bijection(1..n, S) : TRUE
  BY FS_CardinalityType DEF ExistsBijection
<1>3. f \in [1..n -> S] /\ IsInjective(f)
  BY <1>2 DEF Bijection, Injection, IsInjective
<1>4. s \in [1..n -> S] /\ IsInjective(s)
  <2>1. \E g \in [1..n -> S] : IsInjective(g)
    BY <1>3
  <2> QED BY <2>1, Zenon DEF InSomeOrder
<1> HIDE DEF s
<1>5. s \in Injection(1..n, S)
  BY <1>4 DEF Injection, IsInjective
<1>6. Cardinality(1..n) = n
  BY <1>1, FS_Interval
<1>7. s \in Surjection(1..n, S)
  BY <1>5, <1>6, FS_Injection
<1> HIDE DEF n
<1>8. Len(s) = n
  BY <1>1, <1>4
<1> QED BY <1>7, <1>8 DEF Surjection, s

\* The wallets after the first i writes of an iteration.
Overlaid(ws, ids, new, i) ==
    [w \in DOMAIN ws \cup {ids[j] : j \in 1..i} |->
        IF \E j \in 1..i : ids[j] = w THEN new[w] ELSE ws[w]]

LEMMA OverlaidStep ==
    ASSUME NEW ws, NEW ids, NEW new, NEW i \in Nat \ {0}
    PROVE  Overlaid(ws, ids, new, i) = Put(Overlaid(ws, ids, new, i - 1), ids[i], new[ids[i]])
<1> DEFINE A == {ids[j] : j \in 1..(i - 1)}
           B == {ids[j] : j \in 1..i}
           o == Overlaid(ws, ids, new, i - 1)
<1>1. /\ \A w : (\E j \in 1..(i - 1) : ids[j] = w) <=> w \in A
      /\ \A w : (\E j \in 1..i : ids[j] = w) <=> w \in B
      /\ B = A \cup {ids[i]}
  <2>1. 1..i = (1..(i - 1)) \cup {i}
    OBVIOUS
  <2>2. B = A \cup {ids[i]}
    BY <2>1
  <2> QED BY <2>2
<1>2. o = [w \in DOMAIN ws \cup A |-> IF w \in A THEN new[w] ELSE ws[w]]
  BY <1>1 DEF Overlaid
<1>3. Overlaid(ws, ids, new, i) = [w \in DOMAIN ws \cup B |-> IF w \in B THEN new[w] ELSE ws[w]]
  BY <1>1 DEF Overlaid
<1>4. DOMAIN o = DOMAIN ws \cup A
      /\ \A w \in DOMAIN ws \cup A : o[w] = IF w \in A THEN new[w] ELSE ws[w]
  BY <1>2
<1>5. Put(o, ids[i], new[ids[i]])
        = [w \in DOMAIN o \cup {ids[i]} |-> IF w = ids[i] THEN new[ids[i]] ELSE o[w]]
  BY DEF Put
<1>6. DOMAIN o \cup {ids[i]} = DOMAIN ws \cup B
  BY <1>1, <1>4
<1>7. \A w \in DOMAIN ws \cup B : (IF w = ids[i] THEN new[ids[i]] ELSE o[w])
                                    = IF w \in B THEN new[w] ELSE ws[w]
  BY <1>1, <1>4
<1> HIDE DEF o, A, B
<1> QED BY <1>3, <1>5, <1>6, <1>7 DEF o

\* The wallets that an iteration writes under the lock.
LEMMA WalletsTrace ==
    ASSUME NEW l, l.wallets = wallets, NEW v, NEW S, NEW ids \in Seq(S), NEW new, NEW m,
           l = Books(l.wallets, m, l.poh, l.iterations), WalletsOK(wallets),
           DOMAIN wallets \subseteq DOMAIN new, new = [w \in DOMAIN new |-> new[w]],
           \A i \in 1..Len(ids) : ids[i] \in DOMAIN new,
           \A w \in DOMAIN new : \E i \in 1..Len(ids) : ids[i] = w,
           NEW q, WalletPuts(q, ids, new, m)
    PROVE  Trace(Pair(l, v), q, Pair(Books(new, m, l.poh, l.iterations), v))
<1> DEFINE n == Len(ids)
           b(i) == Books(Overlaid(wallets, ids, new, i), m, l.poh, l.iterations)
           f == [i \in 0..n |-> Pair(b(i), v)]
<1>1. n \in Nat /\ \A i \in 1..n : i \in Nat \ {0} /\ i - 1 \in 0..n /\ i \in 0..n
  OBVIOUS
<1>2. Overlaid(wallets, ids, new, 0) = wallets
  <2>0. 1..0 = {}
    OBVIOUS
  <2>1. \A w : ~\E j \in 1..0 : ids[j] = w
    BY <2>0
  <2>2. DOMAIN wallets \cup {ids[j] : j \in 1..0} = DOMAIN wallets
    BY <2>0
  <2>3. wallets = [w \in DOMAIN wallets |-> wallets[w]]
    BY DEF WalletsOK
  <2> QED BY <2>1, <2>2, <2>3 DEF Overlaid
<1>3. Overlaid(wallets, ids, new, n) = new
  <2>1. \A w \in DOMAIN new : \E j \in 1..n : ids[j] = w
    OBVIOUS
  <2>2. DOMAIN wallets \cup {ids[j] : j \in 1..n} = DOMAIN new
    <3>1. \A j \in 1..n : ids[j] \in DOMAIN new
      OBVIOUS
    <3> HIDE DEF n
    <3> QED BY <2>1, <3>1
  <2> QED BY <2>1, <2>2 DEF Overlaid
<1>4. f[0] = Pair(l, v) /\ f[n] = Pair(Books(new, m, l.poh, l.iterations), v)
  <2>1. b(0) = l /\ b(n) = Books(new, m, l.poh, l.iterations)
    BY <1>2, <1>3
  <2> HIDE DEF b
  <2>2. f[0] = Pair(b(0), v) /\ f[n] = Pair(b(n), v)
    BY <1>1
  <2> QED BY <2>1, <2>2
<1>5. \A i \in 1..n : Follows(f[i - 1], q[i], f[i])
  <2> TAKE i \in 1..n
  <2> DEFINE c == b(i - 1)
  <2>1. f[i - 1] = Pair(c, v) /\ f[i] = Pair(b(i), v)
    <3> HIDE DEF b
    <3> QED BY <1>1
  <2>2. q[i] = PutWallet(ids[i], new[ids[i]], m)
    BY DEF WalletPuts
  <2>3. /\ c.wallets = Overlaid(wallets, ids, new, i - 1) /\ c.poh = l.poh
        /\ c.iterations = l.iterations
    BY BooksFields
  <2>4. b(i) = Books(Put(c.wallets, ids[i], new[ids[i]]), m, c.poh, c.iterations)
    <3>1. Overlaid(wallets, ids, new, i) = Put(c.wallets, ids[i], new[ids[i]])
      BY <1>1, <2>3, OverlaidStep
    <3> HIDE DEF c
    <3> QED BY <2>3, <3>1
  <2> HIDE DEF c, b, f
  <2>5. Follows(Pair(c, v), PutWallet(ids[i], new[ids[i]], m),
                Pair(Books(Put(c.wallets, ids[i], new[ids[i]]), m, c.poh, c.iterations), v))
    BY PutFollows
  <2> QED BY <2>1, <2>2, <2>4, <2>5
<1>6. Len(q) = n /\ q \in Seq({q[i] : i \in 1..n})
  BY <1>1 DEF WalletPuts
<1> HIDE DEF f, b, n
<1> QED BY <1>4, <1>5, <1>6 DEF Trace

\* The lock is released in memory by the same assignment whether it was set or not.
Overwrites(m, s, a, b, c, d, e, g, h, i, no) ==
    m = [s EXCEPT !.total_supply = a, !.n_wallets = b, !.n_active_wallets = c,
                  !.current_iteration = d, !.iteration_started_at = e,
                  !.previous_iteration_start_supply = g, !.previous_iteration_supply = h,
                  !.last_inflation = i, !.iteration_lock = no]

SetsLock(m, s, yes) == m = [s EXCEPT !.iteration_lock = yes]

LEMMA LockOverwritten ==
    ASSUME NEW D, NEW sys, DOMAIN sys = D, sys = [f \in D |-> sys[f]],
           NEW yes, NEW no, NEW a, NEW b, NEW c, NEW d, NEW e, NEW g, NEW h, NEW i,
           NEW l, SetsLock(l, sys, yes),
           NEW m, Overwrites(m, l, a, b, c, d, e, g, h, i, no),
           NEW n, Overwrites(n, sys, a, b, c, d, e, g, h, i, no)
    PROVE  m = n
BY DEF Overwrites, SetsLock

LEMMA CommittedLocked ==
    ASSUME NEW sys, SystemOK(sys), NEW r
    PROVE  Committed(Locked(sys), r) = Committed(sys, r)
<1>1. sys.current_tick = Locked(sys).current_tick
  BY LockedSystem
<1>2. PICK D : DOMAIN sys = D /\ sys = [f \in D |-> sys[f]]
  BY DEF SystemOK, SystemRecord
<1>3. PICK yes, no, a, b, c, d, e, g, h, i :
         /\ yes = TRUE /\ no = FALSE
         /\ a = r.commit.post_supply /\ b = r.n_wallets /\ c = Cardinality(r.commit.new_wallets)
         /\ d = r.commit.iteration_id /\ e = sys.current_tick /\ g = r.commit.snapshot_supply
         /\ h = r.commit.post_supply /\ i = r.commit.inflation
  OBVIOUS
<1>4. Overwrites(Committed(sys, r), sys, a, b, c, d, e, g, h, i, no)
  BY <1>3, Zenon DEF Committed, Overwrites
<1>5. Overwrites(Committed(Locked(sys), r), Locked(sys), a, b, c, d, e, g, h, i, no)
  BY <1>1, <1>3, Zenon DEF Committed, Overwrites
<1>6. SetsLock(Locked(sys), sys, yes)
  BY <1>3, Zenon DEF Locked, SetsLock
<1> QED BY <1>2, <1>4, <1>5, <1>6, LockOverwritten

\* The end of an iteration: the commit is appended, filed and counted, and the trees are flushed.
LEMMA FinishTrace ==
    ASSUME NEW l, NEW v, NEW p, Trace(Pair(Live, view), p, Pair(l, v)),
           NEW m, SystemOK(m), NEW commit, IsFiniteSet(WalletIds(commit)),
           NEW last, last = Books(l.wallets, Ticked(m, commit),
                                  Put(l.poh, m.current_tick + 1, NextEntry(m, commit)),
                                  Put(l.iterations, commit.iteration_id, commit)),
           NEW o, LedgerStep(v, last, o)
    PROVE  Trace(Pair(Live, view),
                 p \o AppendTx(m, commit) \o FinishIteration(Ticked(m, commit), commit, o),
                 Pair(last, last))
<1> DEFINE end  == Ticked(m, commit)
           app  == AppendTx(m, commit)
           c    == Chained(l, m, commit)
           d    == Books(c.wallets, end, c.poh, Put(c.iterations, commit.iteration_id, commit))
           file == Write("iterations", commit.iteration_id, commit, end)
           put  == Commit(StoreState(end), o)
           fl   == Flush(end)
<1>1. Trace(Pair(l, v), app, Pair(c, v))
  BY AppendTrace
<1>2. /\ c.wallets = l.wallets /\ c.iterations = l.iterations
      /\ c.poh = Put(l.poh, m.current_tick + 1, NextEntry(m, commit))
  BY BooksFields DEF Chained
<1>3. Follows(Pair(c, v), file, Pair(d, v))
  BY FileFollows
<1>4. /\ d.wallets = c.wallets /\ d.poh = c.poh
      /\ d.iterations = Put(c.iterations, commit.iteration_id, commit) /\ d.system = end
  BY BooksFields
<1> HIDE DEF c, d, app, file
<1>5. last = Books(d.wallets, end, d.poh, d.iterations)
  BY <1>2, <1>4
<1> HIDE DEF end
<1>6. Follows(Pair(d, v), put, Pair(last, last))
  BY <1>5, CommitStateFollows
<1>7. Follows(Pair(last, last), fl, Pair(last, last))
  <2>1. last.wallets = d.wallets /\ last.poh = d.poh /\ last.iterations = d.iterations
    BY <1>5, BooksFields
  <2>2. last = Books(last.wallets, end, last.poh, last.iterations)
    BY <1>5, <2>1
  <2>3. Follows(Pair(last, last), fl, Pair(Books(last.wallets, end, last.poh, last.iterations), last))
    BY StateFollows
  <2> QED BY <2>2, <2>3
<1> HIDE DEF put, fl
<1>8. Trace(Pair(c, v), <<file, put, fl>>, Pair(last, last))
  <2>1. /\ Trace(Pair(c, v), <<file>>, Pair(d, v))
        /\ Trace(Pair(d, v), <<put>>, Pair(last, last))
        /\ Trace(Pair(last, last), <<fl>>, Pair(last, last))
    BY <1>3, <1>6, <1>7, TraceOne
  <2>2. Trace(Pair(c, v), <<file>> \o <<put>>, Pair(last, last))
    BY <2>1, TraceConcat
  <2>3. Trace(Pair(c, v), (<<file>> \o <<put>>) \o <<fl>>, Pair(last, last))
    BY <2>1, <2>2, TraceConcat
  <2> QED BY <2>3, ThreeWrites
<1>9. FinishIteration(end, commit, o) = <<file, put, fl>>
  BY Zenon DEF FinishIteration, file, put, fl
<1> DEFINE q == p \o app
<1>10. Trace(Pair(Live, view), q, Pair(c, v))
  BY <1>1, TraceConcat
<1> HIDE DEF q
<1>11. Trace(Pair(Live, view), q \o <<file, put, fl>>, Pair(last, last))
  BY <1>8, <1>10, TraceConcat
<1> QED BY <1>9, <1>11 DEF q, app, end

LEMMA IterationWritesImplement ==
    ASSUME Opens, NEW p \in ParameterSets, ~Panics(p), NEW first \in Firsts
    PROVE  Implements(IterationWrites(p, first))
<1> DEFINE r      == ExecuteIteration(wallets, p, system, first)
           D      == DOMAIN wallets
           locked == Locked(system)
           mem    == Committed(locked, r)
           F      == r.commit.new_wallets
           ids    == InSomeOrder(D) \o InSomeOrder(F)
           puts   == [i \in 1..Len(ids) |-> PutWallet(ids[i], r.wallets[ids[i]], locked)]
           o      == IterationOverflows(r)
           fin    == FinishIteration(Ticked(mem, r.commit), r.commit, o)
           last   == Books(r.wallets, Ticked(mem, r.commit), Anchored(view, r.commit),
                           Put(iterations, r.commit.iteration_id, r.commit))
<1>1. /\ SystemOK(system) /\ IsFiniteSet(D) /\ D \subseteq WalletId
      /\ wallets \in [D -> WalletRecord(WalletId)]
      /\ system.current_iteration \in Nat
      /\ system.previous_iteration_supply \in Nat
      /\ system.previous_iteration_start_supply \in Nat
      /\ p \in Parameters
  <2>1. SystemOK(system)
    BY DEF Opens
  <2> QED BY <2>1, SystemFields DEF Opens, WalletsOK
<1>2. /\ view.wallets = wallets /\ view.system = system /\ view.poh = poh
      /\ view.iterations = iterations
  BY LiveFields DEF Opens
<1>3. mem = Committed(system, r)
  BY <1>1, CommittedLocked
<1>4. Operation(view, last, o)
  <2>1. o = \/ Total(Balances(view.wallets)) > MaxU64
            \/ Total(Balances(r.wallets)) > MaxU64
            \/ r.n_wallets > MaxU64
    BY <1>2 DEF IterationOverflows
  <2>2. IsIteration(view, last, o, p, first)
    <3> HIDE DEF o, mem
    <3> QED BY <1>2, <1>3, <2>1, Zenon DEF IsIteration
  <2>3. first \in (IF DOMAIN view.wallets = {} THEN {ZERO_HASH} ELSE DOMAIN view.wallets)
    BY <1>2, Zenon DEF Firsts
  <2> QED BY <2>2, <2>3, Zenon DEF Operation
<1> HIDE DEF r, D
<1>5. PICK paid : IterationReturns(r, D, WalletId, wallets, p, system, paid)
  BY <1>1, IterationShape DEF r
<1>6. /\ IsFiniteSet(F) /\ F \subseteq FaucetIds
      /\ r.wallets \in [D \cup F -> WalletRecord(WalletId)]
      /\ r.commit.kind = "iteration_commit"
      /\ DOMAIN r.commit.penalties = D
  BY <1>5, Zenon DEF IterationReturns
<1>7. /\ SystemOK(mem) /\ mem.current_tick = system.current_tick
      /\ mem.last_poh_hash = system.last_poh_hash /\ ~mem.iteration_lock
  BY <1>1, <1>5, CommittedSystem
<1>8. IsFiniteSet(WalletIds(r.commit))
  <2>1. WalletIds(r.commit) = D \cup F
    BY <1>6 DEF WalletIds, F
  <2>2. IsFiniteSet(D \cup F)
    BY <1>1, <1>6, FS_Union
  <2> QED BY <2>1, <2>2
<1>9. Anchored(view, r.commit) = Put(poh, mem.current_tick + 1, NextEntry(mem, r.commit))
  <2>1. NextEntry(mem, r.commit) = NextEntry(system, r.commit)
    BY <1>7 DEF NextEntry
  <2> QED BY <1>2, <1>7, <2>1 DEF Anchored
<1> HIDE DEF mem, locked, o, F
<1>10. LedgerStep(view, last, o)
  <2>1. last.system = Ticked(mem, r.commit)
    BY BooksFields
  <2>2. ~Ticked(mem, r.commit).iteration_lock
    BY <1>7, TickedSystem
  <2> HIDE DEF last
  <2> QED BY <1>2, <1>4, <2>1, <2>2 DEF LedgerStep, Opens
<1>11. /\ ids \in Seq(D \cup F)
       /\ \A w \in D \cup F : \E i \in 1..Len(ids) : ids[i] = w
  <2> DEFINE s == InSomeOrder(D)
             t == InSomeOrder(F)
  <2>1. s \in Seq(D) /\ t \in Seq(F)
    BY <1>1, <1>6, Listing
  <2>2. /\ \A x \in D : \E i \in 1..Len(s) : s[i] = x
        /\ \A x \in F : \E i \in 1..Len(t) : t[i] = x
    BY <1>1, <1>6, ListsAll
  <2> HIDE DEF s, t
  <2>3. s \in Seq(D \cup F) /\ t \in Seq(D \cup F)
    BY <2>1
  <2> DEFINE q == s \o t
             m == Len(s)
             n == Len(t)
  <2>4. /\ q \in Seq(D \cup F) /\ Len(q) = m + n /\ m \in Nat /\ n \in Nat
        /\ \A i \in 1..m : q[i] = s[i]
        /\ \A i \in 1..n : q[m + i] = t[i]
    BY <2>3
  <2>5. q = ids
    BY DEF s, t
  <2> HIDE DEF q, m, n
  <2>6. ASSUME NEW w \in D \cup F PROVE \E i \in 1..(m + n) : q[i] = w
    <3>1. CASE w \in D
      <4>1. PICK i \in 1..m : s[i] = w
        BY <2>2, <3>1 DEF m
      <4> QED BY <2>4, <4>1
    <3>2. CASE w \in F
      <4>1. PICK i \in 1..n : t[i] = w
        BY <2>2, <3>2 DEF n
      <4>2. m + i \in 1..(m + n)
        BY <2>4
      <4> QED BY <2>4, <4>1, <4>2
    <3> QED BY <3>1, <3>2
  <2> HIDE DEF ids
  <2> QED BY <2>4, <2>5, <2>6
<1> HIDE DEF ids
<1> DEFINE l == Books(wallets, locked, poh, iterations)
           k == Books(r.wallets, locked, poh, iterations)
<1>12. Trace(Pair(Live, view), <<StoreState(locked)>>, Pair(l, view))
  <2>1. Follows(Pair(Live, view), StoreState(locked),
                Pair(Books(Live.wallets, locked, Live.poh, Live.iterations), view))
    BY StateFollows
  <2> QED BY <2>1, LiveFields, TraceOne
<1>13. Trace(Pair(l, view), puts, Pair(k, view))
  <2> DEFINE new == r.wallets
  <2>1. WalletPuts(puts, ids, new, locked)
    BY Zenon DEF WalletPuts
  <2>2. /\ l.wallets = wallets /\ l.poh = poh /\ l.iterations = iterations
        /\ l = Books(l.wallets, locked, l.poh, l.iterations)
    BY BooksFields
  <2>3. DOMAIN new = D \cup F /\ new = [w \in DOMAIN new |-> new[w]] /\ D = DOMAIN wallets
    BY <1>6 DEF D
  <2>4. WalletsOK(wallets)
    BY DEF Opens
  <2> HIDE DEF puts, new, l
  <2>5. \A i \in 1..Len(ids) : ids[i] \in DOMAIN new
    BY <1>11, <2>3
  <2>6. \A w \in DOMAIN new : \E i \in 1..Len(ids) : ids[i] = w
    BY <1>11, <2>3
  <2>7. Trace(Pair(l, view), puts, Pair(Books(new, locked, l.poh, l.iterations), view))
    BY <1>11, <2>1, <2>2, <2>3, <2>4, <2>5, <2>6, WalletsTrace
  <2> QED BY <2>2, <2>7 DEF new
<1>14. Trace(Pair(Live, view), <<StoreState(locked)>> \o puts, Pair(k, view))
  <2> HIDE DEF puts
  <2> QED BY <1>12, <1>13, TraceConcat
<1>15. last = Books(k.wallets, Ticked(mem, r.commit),
                    Put(k.poh, mem.current_tick + 1, NextEntry(mem, r.commit)),
                    Put(k.iterations, r.commit.iteration_id, r.commit))
  <2>1. k.wallets = r.wallets /\ k.poh = poh /\ k.iterations = iterations
    BY BooksFields
  <2> HIDE DEF k
  <2> QED BY <1>9, <2>1
<1> DEFINE q == <<StoreState(locked)>> \o puts
           commit == r.commit
<1> HIDE DEF puts, last, k, l, q
<1>16. Trace(Pair(Live, view), q \o AppendTx(mem, commit)
                                 \o FinishIteration(Ticked(mem, commit), commit, o),
             Pair(last, last))
  <2>1. Trace(Pair(Live, view), q, Pair(k, view))
    BY <1>14 DEF q
  <2> HIDE DEF commit
  <2> QED BY <1>7, <1>8, <1>10, <1>15, <2>1, FinishTrace DEF commit
<1>17. Rests(Pair(last, last))
  BY ClosedRests
<1>18. Implements(q \o AppendTx(mem, commit) \o FinishIteration(Ticked(mem, commit), commit, o))
  BY <1>16, <1>17 DEF Implements
<1> QED BY <1>18, Zenon DEF IterationWrites, TakeLock, r, D, locked, mem, F, ids, puts, o, q

\* A handler that panics takes the lock and changes nothing else.
LEMMA IterationImplements ==
    ASSUME Opens, NEW p \in ParameterSets, NEW first \in Firsts
    PROVE  Implements(IterationPlan(p, first))
<1>1. CASE ~Panics(p)
  BY <1>1, IterationWritesImplement DEF IterationPlan
<1>2. CASE Panics(p)
  <2> DEFINE locked == Locked(system)
             l      == Books(wallets, locked, poh, iterations)
  <2>1. Trace(Pair(Live, view), <<StoreState(locked)>>, Pair(l, view))
    <3>1. Follows(Pair(Live, view), StoreState(locked),
                  Pair(Books(Live.wallets, locked, Live.poh, Live.iterations), view))
      BY StateFollows
    <3> QED BY <3>1, LiveFields, TraceOne
  <2>2. SystemOK(system) /\ ~system.iteration_lock /\ view = Live
    BY DEF Opens
  <2>3. locked.iteration_lock /\ [locked EXCEPT !.iteration_lock = FALSE] = system
    <3>1. locked.iteration_lock
      BY <2>2, LockedSystem
    <3>2. system.iteration_lock = FALSE
      BY <2>2 DEF SystemOK, SystemRecord
    <3>3. [locked EXCEPT !.iteration_lock = FALSE] = system
      BY <2>2, <3>2 DEF Locked, SystemOK, SystemRecord
    <3> QED BY <3>1, <3>3
  <2>4. OnlyLocked(l, view)
    <3>1. l.wallets = wallets /\ l.system = locked /\ l.poh = poh /\ l.iterations = iterations
      BY BooksFields
    <3> HIDE DEF l, locked
    <3> QED BY <2>2, <2>3, <3>1 DEF OnlyLocked, Live
  <2> HIDE DEF l
  <2>5. Rests(Pair(l, view))
    BY <1>2, <2>4, PairFields DEF Rests, MayPanic
  <2> QED BY <1>2, <2>1, <2>5 DEF Implements, IterationPlan, TakeLock
<1> QED BY <1>1, <1>2

-----------------------------------------------------------------------------
(* Plans that write no transfer.                                           *)

WritesTransfer(w) == w.tree = "transactions" /\ w.key.kind = "transfer"

NoTransfer(p) ==
    /\ \E S : p \in Seq(S)
    /\ \A i \in 1..Len(p) : ~WritesTransfer(p[i])

LEMMA NoTransferOne ==
    ASSUME NEW w, ~WritesTransfer(w)
    PROVE  NoTransfer(<<w>>)
<1>1. <<w>> \in Seq({w}) /\ Len(<<w>>) = 1 /\ <<w>>[1] = w /\ \A i \in 1..1 : i = 1
  OBVIOUS
<1> QED BY <1>1 DEF NoTransfer

LEMMA NothingWritten == NoTransfer(<< >>)
<1>1. << >> \in Seq({}) /\ Len(<< >>) = 0
  OBVIOUS
<1> QED BY <1>1 DEF NoTransfer

LEMMA NoTransferConcat ==
    ASSUME NEW p, NEW q, NoTransfer(p), NoTransfer(q)
    PROVE  NoTransfer(p \o q)
<1>1. PICK S, T : p \in Seq(S) /\ q \in Seq(T)
  BY DEF NoTransfer
<1> DEFINE m == Len(p)
           n == Len(q)
           r == p \o q
<1>2. /\ m \in Nat /\ n \in Nat
      /\ r \in Seq(S \cup T) /\ Len(r) = m + n
      /\ \A i \in 1..m : r[i] = p[i]
      /\ \A i \in (m + 1)..(m + n) : r[i] = q[i - m]
  <2>1. p \in Seq(S \cup T) /\ q \in Seq(S \cup T)
    BY <1>1
  <2> QED BY <2>1
<1> HIDE DEF r
<1>3. ASSUME NEW i \in 1..(m + n) PROVE ~WritesTransfer(r[i])
  <2>1. CASE i <= m
    BY <1>2, <2>1 DEF NoTransfer
  <2>2. CASE i > m
    <3>1. i \in (m + 1)..(m + n) /\ i - m \in 1..n
      BY <1>2, <2>2
    <3> QED BY <1>2, <3>1 DEF NoTransfer
  <2> QED BY <1>2, <2>1, <2>2
<1> QED BY <1>2, <1>3 DEF NoTransfer, r

LEMMA NoTransferTail ==
    ASSUME NEW p, p # << >>, NoTransfer(p)
    PROVE  NoTransfer(Tail(p))
<1>1. PICK S : p \in Seq(S)
  BY DEF NoTransfer
<1> DEFINE n == Len(p)
           q == Tail(p)
<1>2. /\ n \in Nat /\ q \in Seq(S) /\ Len(q) = n - 1
      /\ \A i \in 1..(n - 1) : q[i] = p[i + 1] /\ i + 1 \in 1..n
  BY <1>1
<1> HIDE DEF q
<1> QED BY <1>2 DEF NoTransfer, q

\* Writes to the other trees.
LEMMA OtherWrites ==
    ASSUME NEW id, NEW wallet, NEW m, NEW o, NEW key, NEW value
    PROVE  /\ NoTransfer(<<PutWallet(id, wallet, m)>>)
           /\ NoTransfer(<<StoreState(m)>>)
           /\ NoTransfer(<<Commit(StoreState(m), o)>>)
           /\ NoTransfer(<<Flush(m)>>)
           /\ NoTransfer(<<Write("iterations", key, value, m)>>)
<1>1. /\ PutWallet(id, wallet, m).tree = "wallets" /\ StoreState(m).tree = "state"
      /\ IsWrite(StoreState(m))
      /\ Flush(m).tree = "flush" /\ Write("iterations", key, value, m).tree = "iterations"
  BY WriteFields DEF PutWallet, StoreState, Flush
<1>2. Commit(StoreState(m), o).tree = "state"
  BY <1>1, CommitFields
<1>3. /\ ~WritesTransfer(PutWallet(id, wallet, m)) /\ ~WritesTransfer(StoreState(m))
      /\ ~WritesTransfer(Commit(StoreState(m), o)) /\ ~WritesTransfer(Flush(m))
      /\ ~WritesTransfer(Write("iterations", key, value, m))
  BY <1>1, <1>2 DEF WritesTransfer
<1> QED BY <1>3, NoTransferOne

\* append_tx_locked writes its transaction first, and no other.
LEMMA AppendShape ==
    ASSUME NEW sys, NEW tx, IsFiniteSet(WalletIds(tx))
    PROVE  \E rest : /\ AppendTx(sys, tx)
                          = <<Write("transactions", tx, Ticked(sys, tx).current_tick, Ticked(sys, tx))>>
                              \o rest
                     /\ NoTransfer(rest)
<1> DEFINE mem  == Ticked(sys, tx)
           ids  == InSomeOrder(WalletIds(tx))
           n    == Cardinality(WalletIds(tx))
           put  == Write("transactions", tx, mem.current_tick, mem)
           idx  == [i \in 1..n |-> Write("tx_by_wallet", ids[i], tx, mem)]
           last == Write("poh", mem.current_tick, NextEntry(sys, tx), mem)
<1>1. AppendTx(sys, tx) = <<put>> \o idx \o <<last>>
  BY DEF AppendTx
<1>2. n \in Nat
  BY FS_CardinalityType
<1> HIDE DEF mem, ids, n
<1>3. ~WritesTransfer(last)
  BY WriteFields DEF WritesTransfer
<1>4. NoTransfer(idx)
  <2>1. \A i \in 1..n : ~WritesTransfer(idx[i])
    <3> TAKE i \in 1..n
    <3>1. idx[i] = Write("tx_by_wallet", ids[i], tx, mem)
      OBVIOUS
    <3> HIDE DEF idx
    <3> QED BY <3>1, WriteFields DEF WritesTransfer
  <2>2. idx \in Seq({idx[i] : i \in 1..n}) /\ Len(idx) = n
    BY <1>2
  <2> HIDE DEF idx
  <2> QED BY <2>1, <2>2 DEF NoTransfer
<1> HIDE DEF put, idx, last
<1>5. NoTransfer(idx \o <<last>>)
  BY <1>3, <1>4, NoTransferOne, NoTransferConcat
<1>6. <<put>> \o idx \o <<last>> = <<put>> \o (idx \o <<last>>)
  <2>1. PICK S : idx \in Seq(S)
    BY <1>4 DEF NoTransfer
  <2>2. PICK T : T = S \cup {put, last}
    OBVIOUS
  <2>3. idx \in Seq(T) /\ <<put>> \in Seq(T) /\ <<last>> \in Seq(T)
    BY <2>1, <2>2
  <2> QED BY <2>3, ConcatAssociative
<1> QED BY <1>1, <1>5, <1>6 DEF put, mem

LEMMA AppendsOther ==
    ASSUME NEW sys, NEW tx, IsFiniteSet(WalletIds(tx)), tx.kind # "transfer"
    PROVE  NoTransfer(AppendTx(sys, tx))
<1> DEFINE put == Write("transactions", tx, Ticked(sys, tx).current_tick, Ticked(sys, tx))
<1>1. PICK rest : AppendTx(sys, tx) = <<put>> \o rest /\ NoTransfer(rest)
  BY AppendShape
<1>2. ~WritesTransfer(put)
  BY WriteFields DEF WritesTransfer
<1> HIDE DEF put
<1> QED BY <1>1, <1>2, NoTransferOne, NoTransferConcat

\* What an entry of a seed file appends.
LEMMA CommitsOther ==
    ASSUME NEW p, NoTransfer(p), Len(p) \in Nat \ {0}, IsWrite(p[Len(p)]),
           NEW q, NEW o, CommitsLast(q, p, o)
    PROVE  NoTransfer(q)
<1>1. PICK S : p \in Seq(S)
  BY DEF NoTransfer
<1> DEFINE n == Len(p)
           w == Commit(p[n], o)
<1>2. n \in Nat \ {0} /\ n \in 1..n
  OBVIOUS
<1>3. w.tree = p[n].tree /\ w.key = p[n].key
  BY CommitFields
<1>4. q = [p EXCEPT ![n] = w]
  BY Zenon DEF CommitsLast
<1> HIDE DEF w
<1>5. /\ q \in Seq(S \cup {w}) /\ Len(q) = n /\ q[n] = w
      /\ \A i \in 1..n : i # n => q[i] = p[i]
  <2>1. p \in [1..n -> S]
    BY <1>1
  <2>2. q = [i \in 1..n |-> IF i = n THEN w ELSE p[i]]
    BY <1>4, <2>1
  <2> HIDE DEF n
  <2> QED BY <1>2, <2>1, <2>2
<1>6. \A i \in 1..n : ~WritesTransfer(q[i])
  BY <1>2, <1>3, <1>5 DEF NoTransfer, WritesTransfer
<1> QED BY <1>5, <1>6 DEF NoTransfer

\* The last write of an entry of a seed file takes the view to the live books.
LEMMA CommittedTrace ==
    ASSUME NEW a, NEW p, NEW l, NEW v, Trace(a, p, Pair(l, v)), Len(p) \in Nat \ {0},
           IsWrite(p[Len(p)]), ~p[Len(p)].commits,
           NEW q, NEW o, CommitsLast(q, p, o), LedgerStep(v, l, o)
    PROVE  Trace(a, q, Pair(l, l))
<1>1. PICK S : p \in Seq(S)
  BY DEF Trace
<1>2. PICK f : /\ f[0] = a /\ f[Len(p)] = Pair(l, v)
               /\ \A i \in 1..Len(p) : Follows(f[i - 1], p[i], f[i])
  BY DEF Trace
<1> DEFINE n == Len(p)
           w == Commit(p[n], o)
           g == [i \in 0..n |-> IF i = n THEN Pair(l, l) ELSE f[i]]
<1>3. n \in Nat \ {0} /\ n \in 1..n
  OBVIOUS
<1>4. Follows(f[n - 1], p[n], Pair(l, v))
  BY <1>2, <1>3
<1>5. Follows(f[n - 1], w, Pair(l, l))
  BY <1>4, CommitFollows
<1>6. q = [p EXCEPT ![n] = w]
  BY Zenon DEF CommitsLast
<1> HIDE DEF w
<1>7. /\ q \in Seq(S \cup {w}) /\ Len(q) = n /\ q[n] = w
      /\ \A i \in 1..n : i # n => q[i] = p[i]
  <2>1. p \in [1..n -> S]
    BY <1>1
  <2>2. q = [i \in 1..n |-> IF i = n THEN w ELSE p[i]]
    BY <1>6, <2>1
  <2> HIDE DEF n
  <2> QED BY <1>3, <2>1, <2>2
<1>8. /\ g[0] = a /\ g[n] = Pair(l, l)
      /\ \A i \in 1..n : i # n => g[i] = f[i]
      /\ \A i \in 1..n : g[i - 1] = f[i - 1]
  <2> HIDE DEF n
  <2> QED BY <1>2, <1>3
<1> HIDE DEF g
<1>9. \A i \in 1..n : Follows(g[i - 1], q[i], g[i])
  <2> TAKE i \in 1..n
  <2>1. CASE i = n
    BY <1>3, <1>5, <1>7, <1>8, <2>1
  <2>2. CASE i # n
    BY <1>2, <1>7, <1>8, <2>2
  <2> QED BY <2>1, <2>2
<1> QED BY <1>7, <1>8, <1>9 DEF Trace

\* After k entries of a seed file the books are those of the entries that were installed.
Installs(done, k) ==
    /\ done = [mem |-> done.mem, ids |-> done.ids, writes |-> done.writes,
               failed |-> done.failed]
    /\ NoTransfer(done.writes)
    /\ \E l : /\ Trace(Pair(Live, view), done.writes, Pair(l, l))
              /\ l = Books(l.wallets, l.system, l.poh, l.iterations)
              /\ l.system = done.mem /\ DOMAIN l.wallets = done.ids
              /\ SystemOK(done.mem) /\ ~done.mem.iteration_lock
              /\ done.mem.current_iteration = system.current_iteration
              /\ done.mem.current_tick <= system.current_tick + k

LEMMA EntryImplements ==
    ASSUME Opens, NEW k \in Nat, system.current_tick + k < MaxTick,
           NEW done, Installs(done, k),
           NEW e \in [id : Users \cup {BadKey}, amount : Amounts]
    PROVE  Installs(InstallEntry(done, e), k + 1)
<1> DEFINE tx     == MintTx(e.id, e.amount, done.mem.current_tick + 1, "seed_bootstrap")
           mem    == AfterCreate(done.mem, e.amount)
           app    == AppendTx(mem, tx)
           end    == Ticked(mem, tx)
           wallet == NewWallet(e.amount, system.current_iteration)
           put    == PutWallet(e.id, wallet, done.mem)
           over   == CreateOverflows(done.mem, e.amount)
           com    == [app EXCEPT ![Len(app)] = Commit(@, over)]
           new    == [mem |-> end, ids |-> done.ids \cup {e.id},
                      writes |-> done.writes \o <<put>> \o com, failed |-> FALSE]
<1>1. \/ InstallEntry(done, e) = done
      \/ InstallEntry(done, e) = [done EXCEPT !.failed = TRUE]
      \/ e.id # BadKey /\ e.id \notin done.ids /\ InstallEntry(done, e) = new
  BY Zenon DEF InstallEntry
<1>2. PICK l : /\ Trace(Pair(Live, view), done.writes, Pair(l, l))
               /\ l = Books(l.wallets, l.system, l.poh, l.iterations)
               /\ l.system = done.mem /\ DOMAIN l.wallets = done.ids
               /\ SystemOK(done.mem) /\ ~done.mem.iteration_lock
               /\ done.mem.current_iteration = system.current_iteration
               /\ done.mem.current_tick <= system.current_tick + k
  BY DEF Installs
<1>3. done.mem.current_tick \in Nat /\ system.current_tick \in Nat
  <2>1. SystemOK(done.mem) /\ SystemOK(system)
    BY <1>2 DEF Opens
  <2> QED BY <2>1, SystemFields
<1>4. Installs(done, k + 1)
  <2>1. done.mem.current_tick <= system.current_tick + (k + 1)
    BY <1>2, <1>3
  <2> QED BY <1>2, <2>1 DEF Installs
<1>5. Installs([done EXCEPT !.failed = TRUE], k + 1)
  <2>1. PICK m, ids, ws, f : done = [mem |-> m, ids |-> ids, writes |-> ws, failed |-> f]
    BY DEF Installs
  <2> DEFINE d == [done EXCEPT !.failed = TRUE]
  <2>2. d = [mem |-> m, ids |-> ids, writes |-> ws, failed |-> TRUE]
    <3>1. d = [done EXCEPT !.failed = TRUE]
      OBVIOUS
    <3> HIDE DEF d
    <3> QED BY <2>1, <3>1
  <2>3. /\ d.mem = done.mem /\ d.writes = done.writes /\ d.ids = done.ids
        /\ d = [mem |-> d.mem, ids |-> d.ids, writes |-> d.writes, failed |-> d.failed]
    BY <2>1, <2>2
  <2> HIDE DEF d
  <2>4. Installs(d, k + 1)
    BY <1>4, <2>3 DEF Installs
  <2> QED BY <2>4 DEF d
<1>6. ASSUME e.id # BadKey, e.id \notin done.ids PROVE Installs(new, k + 1)
  <2>1. e.id \in Users /\ e.amount \in Amounts /\ e.amount \in 0..MaxU64
    BY <1>6
  <2>2. SystemOK(mem) /\ SameClock(mem, done.mem)
    BY <1>2, <2>1, CreatedSystem
  <2>3. IsFiniteSet(WalletIds(tx))
    BY UserTxWallets
  <2> DEFINE l1 == Books(Put(l.wallets, e.id, wallet), done.mem, l.poh, l.iterations)
             c  == Chained(l1, mem, tx)
  <2>4. Follows(Pair(l, l), put, Pair(l1, l))
    BY PutFollows
  <2>5. /\ Trace(Pair(l1, l), app, Pair(c, l))
        /\ Len(app) \in Nat \ {0} /\ IsWrite(app[Len(app)]) /\ ~app[Len(app)].commits
    BY <2>2, <2>3, AppendTrace
  <2>6. c = Books(Put(l.wallets, e.id, wallet), end, Anchored(l, tx), l.iterations)
    <3>1. l1.wallets = Put(l.wallets, e.id, wallet) /\ l1.poh = l.poh /\ l1.iterations = l.iterations
      BY BooksFields
    <3>2. NextEntry(mem, tx) = NextEntry(l.system, tx) /\ mem.current_tick = l.system.current_tick
      BY <1>2, <2>2, SameEntry DEF SameClock
    <3> HIDE DEF l1, tx, mem, wallet
    <3> QED BY <3>1, <3>2 DEF Chained, Anchored
  <2>7. /\ c.wallets = Put(l.wallets, e.id, wallet) /\ c.system = end
        /\ c = Books(c.wallets, c.system, c.poh, c.iterations)
    <3> HIDE DEF c, wallet, end, tx
    <3> QED BY <2>6, BooksFields
  <2>8. /\ SystemOK(end) /\ ~end.iteration_lock
        /\ end.current_iteration = system.current_iteration
        /\ end.current_tick = done.mem.current_tick + 1
    <3>1. /\ SystemOK(end) /\ end.current_tick = mem.current_tick + 1
          /\ end.current_iteration = mem.current_iteration
          /\ end.iteration_lock = mem.iteration_lock
      BY <2>2, TickedSystem
    <3> HIDE DEF end, mem
    <3> QED BY <1>2, <2>2, <3>1 DEF SameClock
  <2>9. LedgerStep(l, c, over)
    <3>1. IsMint(l, c, over, e.id, e.amount, "seed_bootstrap")
      <4> HIDE DEF c
      <4> QED BY <1>2, <1>6, <2>6 DEF IsMint
    <3>2. Operation(l, c, over)
      BY <2>1, <3>1, Zenon DEF Operation
    <3>3. l.system.current_tick < MaxTick
      BY <1>2, <1>3
    <3> HIDE DEF c, over, end
    <3> QED BY <1>2, <2>7, <2>8, <3>2, <3>3 DEF LedgerStep
  <2>10. CommitsLast(com, app, over)
    BY Zenon DEF CommitsLast
  <2> HIDE DEF l1, c, app, com, over, put, end, mem, tx
  <2>11. Trace(Pair(l1, l), com, Pair(c, c))
    BY <2>5, <2>9, <2>10, CommittedTrace
  <2>19. NoTransfer(com)
    <3>1. tx.kind # "transfer"
      BY DEF tx, MintTx
    <3>2. NoTransfer(app)
      BY <2>3, <3>1, AppendsOther DEF app
    <3> QED BY <2>5, <2>10, <3>2, CommitsOther
  <2>20. NoTransfer(<<put>>)
    BY OtherWrites DEF put
  <2> DEFINE q == done.writes \o <<put>>
  <2>21. NoTransfer(q)
    BY <1>2, <2>20, NoTransferConcat DEF Installs
  <2>12. Trace(Pair(Live, view), q, Pair(l1, l))
    BY <1>2, <2>4, TraceThen
  <2> HIDE DEF q
  <2>13. Trace(Pair(Live, view), q \o com, Pair(c, c))
    BY <2>11, <2>12, TraceConcat
  <2> DEFINE ws == q \o com
             is == done.ids \cup {e.id}
  <2> HIDE DEF ws
  <2>14. new = [mem |-> end, ids |-> is, writes |-> ws, failed |-> FALSE]
    BY DEF ws, q
  <2> HIDE DEF new, is
  <2>15. /\ new.mem = end /\ new.writes = ws /\ new.ids = is
         /\ new = [mem |-> new.mem, ids |-> new.ids, writes |-> new.writes,
                   failed |-> new.failed]
    BY <2>14
  <2>16. DOMAIN c.wallets = is
    <3> HIDE DEF wallet
    <3>1. DOMAIN Put(l.wallets, e.id, wallet) = DOMAIN l.wallets \cup {e.id}
      BY PutFacts
    <3> QED BY <1>2, <2>7, <3>1 DEF is
  <2>17. end.current_tick <= system.current_tick + (k + 1)
    BY <1>2, <1>3, <2>8
  <2>18. Trace(Pair(Live, view), ws, Pair(c, c))
    BY <2>13 DEF ws
  <2>22. NoTransfer(ws)
    BY <2>19, <2>21, NoTransferConcat DEF ws
  <2> QED BY <2>7, <2>8, <2>15, <2>16, <2>17, <2>18, <2>22 DEF Installs
<1> HIDE DEF new
<1> QED BY <1>1, <1>4, <1>5, <1>6

LEMMA LoopImplements ==
    ASSUME Opens, NEW entries \in SeedFiles, system.current_tick + Len(entries) <= MaxTick
    PROVE  Installs(SeedLoop(entries), Len(entries))
<1> DEFINE k == Len(entries)
           f == CHOOSE f : Loops(f, entries, k)
<1>1. k \in Nat /\ \A n \in 1..k : entries[n] \in [id : Users \cup {BadKey}, amount : Amounts]
  <2>1. PICK R : R = [id : Users \cup {BadKey}, amount : Amounts]
    OBVIOUS
  <2>2. entries \in Seq(R)
    BY <2>1, SeedFilesAssumption
  <2>3. Len(entries) \in Nat /\ \A n \in 1..Len(entries) : entries[n] \in R
    BY <2>2
  <2> QED BY <2>1, <2>3, Zenon
<1>2. system.current_tick + k <= MaxTick /\ system.current_tick \in Nat
  <2>1. SystemOK(system)
    BY DEF Opens
  <2> QED BY <2>1, SystemFields
<1> HIDE DEF k
<1>3. Loops(f, entries, k)
  BY <1>1, LoopExists, Zenon
<1>4. SeedLoop(entries) = f[k]
  BY Zenon DEF SeedLoop, Loops, LoopStart, k
<1> HIDE DEF f
<1> DEFINE T == {n \in 0..k : Installs(f[n], n)}
<1>5. 0 \in T
  <2>1. f[0] = LoopStart
    BY <1>1, <1>3, LoopUnfolds
  <2>2. /\ f[0].mem = system /\ f[0].writes = << >> /\ f[0].ids = DOMAIN wallets
        /\ f[0] = [mem |-> f[0].mem, ids |-> f[0].ids, writes |-> f[0].writes,
                   failed |-> f[0].failed]
    BY <2>1 DEF LoopStart
  <2>3. Trace(Pair(Live, view), << >>, Pair(Live, Live))
    BY TraceEmpty DEF Opens
  <2>4. /\ Live = Books(Live.wallets, Live.system, Live.poh, Live.iterations)
        /\ Live.system = system /\ DOMAIN Live.wallets = DOMAIN wallets
    BY LiveFields DEF Live
  <2>5. SystemOK(system) /\ ~system.iteration_lock
    BY DEF Opens
  <2>6. system.current_tick <= system.current_tick + 0
    BY <1>2
  <2>8. NoTransfer(<< >>)
    BY NothingWritten
  <2>7. Installs(f[0], 0)
    BY <2>2, <2>8, <2>3, <2>4, <2>5, <2>6 DEF Installs
  <2> QED BY <1>1, <2>7
<1>6. \A n \in 0..(k - 1) : n \in T => n + 1 \in T
  <2> SUFFICES ASSUME NEW n \in 0..(k - 1), n \in T PROVE n + 1 \in T
    OBVIOUS
  <2>1. n \in Nat /\ n + 1 \in 1..k /\ n + 1 \in 0..k /\ (n + 1) - 1 = n
        /\ system.current_tick + n < MaxTick
    BY <1>1, <1>2
  <2>2. f[n + 1] = InstallEntry(f[n], entries[n + 1])
    BY <1>1, <1>3, <2>1, LoopUnfolds
  <2>3. Installs(f[n + 1], n + 1)
    BY <1>1, <2>1, <2>2, EntryImplements
  <2> QED BY <2>1, <2>3
<1>7. 0..k \subseteq T
  <2> HIDE DEF T
  <2> QED BY <1>1, <1>5, <1>6, IntervalInduction
<1> QED BY <1>1, <1>4, <1>7 DEF k

LEMMA SeedImplements ==
    ASSUME Opens, NEW entries \in SeedFiles, system.current_tick + Len(entries) <= MaxTick
    PROVE  Implements(SeedPlan(entries))
<1> DEFINE done == SeedLoop(entries)
           ws   == done.writes
           m    == done.mem
           put  == StoreState(m)
           last == Flush(m)
<1>1. Installs(done, Len(entries))
  BY LoopImplements
<1> HIDE DEF done
<1>2. PICK l : /\ Trace(Pair(Live, view), ws, Pair(l, l))
               /\ l = Books(l.wallets, m, l.poh, l.iterations)
  BY <1>1 DEF Installs
<1>3. Rests(Pair(l, l))
  BY ClosedRests
<1>4. CASE done.failed
  <2>1. Implements(ws)
    BY <1>2, <1>3 DEF Implements
  <2> QED BY <1>4, <2>1 DEF SeedPlan, done
<1>5. CASE ~done.failed
  <2>1. Follows(Pair(l, l), put, Pair(l, l)) /\ Follows(Pair(l, l), last, Pair(l, l))
    <3>1. /\ Follows(Pair(l, l), put, Pair(Books(l.wallets, m, l.poh, l.iterations), l))
          /\ Follows(Pair(l, l), last, Pair(Books(l.wallets, m, l.poh, l.iterations), l))
      BY StateFollows
    <3> HIDE DEF put, last
    <3> QED BY <1>2, <3>1
  <2> HIDE DEF put, last, ws
  <2>2. Trace(Pair(l, l), <<put>>, Pair(l, l)) /\ Trace(Pair(l, l), <<last>>, Pair(l, l))
    BY <2>1, TraceOne
  <2>3. Trace(Pair(l, l), <<put>> \o <<last>>, Pair(l, l))
    BY <2>2, TraceConcat
  <2>4. Trace(Pair(l, l), <<put, last>>, Pair(l, l))
    BY <2>3, PairOfWrites
  <2>5. Trace(Pair(Live, view), ws \o <<put, last>>, Pair(l, l))
    BY <1>2, <2>4, TraceConcat
  <2>6. Implements(ws \o <<put, last>>)
    BY <1>3, <2>5 DEF Implements
  <2> QED BY <1>5, <2>6, Zenon DEF SeedPlan, done, ws, put, last
<1> QED BY <1>4, <1>5

-----------------------------------------------------------------------------
(* The node against the ledger.                                            *)

(***************************************************************************)
(* As long as no write has failed, what is left of a plan leads from the   *)
(* books and the view of the moment to books that are all committed, but   *)
(* for the lock of a handler that panicked; and only a restart shows the   *)
(* view a lock.                                                            *)
(***************************************************************************)
RefInv ==
    /\ saturated \in BOOLEAN
    /\ crashes \in 0..MaxCrashes /\ failures \in 0..MaxFailures
    /\ failures = 0 => Implements(plan)
    /\ failures = 0 /\ crashes = 0 => ~view.system.iteration_lock

\* A trace depends on the books it starts from and nothing else.
LEMMA TraceFrom ==
    ASSUME NEW a, NEW c, c.live = a.live, c.view = a.view, NEW p, NEW b, Trace(a, p, b)
    PROVE  \E d : Trace(c, p, d) /\ d.live = b.live /\ d.view = b.view
<1>1. PICK S : p \in Seq(S)
  BY DEF Trace
<1>2. PICK f : /\ f[0] = a /\ f[Len(p)] = b
               /\ \A i \in 1..Len(p) : Follows(f[i - 1], p[i], f[i])
  BY DEF Trace
<1> DEFINE n == Len(p)
           g == [i \in 0..n |-> IF i = 0 THEN c ELSE f[i]]
<1>3. n \in Nat
  BY <1>1
<1>4. /\ g[0] = c
      /\ \A i \in 1..n : g[i] = f[i]
      /\ \A i \in 0..n : g[i].live = f[i].live /\ g[i].view = f[i].view
  <2> HIDE DEF n
  <2> QED BY <1>2, <1>3
<1> HIDE DEF g
<1>5. \A i \in 1..n : Follows(g[i - 1], p[i], g[i])
  <2> TAKE i \in 1..n
  <2>1. i - 1 \in 0..n
    BY <1>3
  <2>2. Follows(f[i - 1], p[i], f[i]) /\ g[i] = f[i]
    BY <1>2, <1>4
  <2>3. g[i - 1].live = f[i - 1].live /\ g[i - 1].view = f[i - 1].view
    BY <1>4, <2>1
  <2> QED BY <2>2, <2>3 DEF Follows
<1>6. Trace(c, p, g[n])
  BY <1>1, <1>4, <1>5 DEF Trace
<1>7. g[n].live = b.live /\ g[n].view = b.view
  BY <1>2, <1>3, <1>4
<1> QED BY <1>6, <1>7

LEMMA EmptyTrace ==
    ASSUME NEW a, NEW b, Trace(a, << >>, b)
    PROVE  b = a
<1>1. PICK f : f[0] = a /\ f[Len(<< >>)] = b
  BY DEF Trace
<1>2. Len(<< >>) = 0
  OBVIOUS
<1> QED BY <1>1, <1>2, Zenon

\* A handler that starts finds the books closed.
LEMMA BeginsClosed ==
    ASSUME NodeInv, RefInv, Idle, Unlocked, failures = 0
    PROVE  Opens
<1>1. PICK b : Trace(Pair(Live, view), << >>, b) /\ Rests(b)
  BY DEF RefInv, Implements, Idle
<1>2. b = Pair(Live, view)
  BY <1>1, EmptyTrace
<1>3. b.live = Live /\ b.view = view
  BY <1>2, PairFields
<1>4. view = Live
  BY <1>1, <1>3, LiveFields DEF Rests, OnlyLocked, Unlocked
<1>5. StoreInv(Store, NoFailure) /\ SystemOK(system)
  BY DEF NodeInv
<1>6. WalletsOK(wallets)
  BY <1>5 DEF StoreInv, Store
<1> QED BY <1>4, <1>5, <1>6 DEF Opens, Unlocked

LEMMA StartImplements ==
    ASSUME RefInv, NEW p, failures = 0 => Implements(p), Start(p)
    PROVE  RefInv'
<1>1. /\ plan' = p /\ view' = view /\ saturated' = saturated /\ crashes' = crashes
      /\ failures' = failures /\ Live' = Live
  BY DEF Start, storeVars, Live
<1> QED BY <1>1 DEF RefInv, Implements

LEMMA BeginRefines == ASSUME NodeInv, RefInv, Begin PROVE RefInv'
<1>1. ASSUME NEW id \in Users, NEW p \in ParameterSets, BeginCreate(id, p) PROVE RefInv'
  <2>1. failures = 0 => Implements(MintPlan(id, p.seed, "wallet_seed"))
    <3> SUFFICES ASSUME failures = 0 PROVE Implements(MintPlan(id, p.seed, "wallet_seed"))
      OBVIOUS
    <3>1. Opens
      BY <1>1, BeginsClosed DEF BeginCreate
    <3> QED BY <1>1, <3>1, MintImplements DEF BeginCreate
  <2> QED BY <1>1, <2>1, StartImplements DEF BeginCreate
<1>2. ASSUME NEW id \in DOMAIN wallets, NEW amount \in Amounts, BeginCharge(id, amount)
      PROVE  RefInv'
  <2>1. failures = 0 => Implements(ChargePlan(id, amount))
    <3> SUFFICES ASSUME failures = 0 PROVE Implements(ChargePlan(id, amount))
      OBVIOUS
    <3>1. Opens
      BY <1>2, BeginsClosed DEF BeginCharge
    <3> QED BY <1>2, <3>1, ChargeImplements DEF BeginCharge
  <2> QED BY <1>2, <2>1, StartImplements DEF BeginCharge
<1>3. ASSUME NEW from \in Users, NEW to \in DOMAIN wallets, NEW amount \in Amounts,
             NEW nonce \in 0..MaxTick, BeginTransfer(from, to, amount, nonce)
      PROVE  RefInv'
  <2>1. failures = 0 => Implements(TransferPlan(from, to, amount, nonce))
    <3> SUFFICES ASSUME failures = 0 PROVE Implements(TransferPlan(from, to, amount, nonce))
      OBVIOUS
    <3>1. Opens
      BY <1>3, BeginsClosed DEF BeginTransfer
    <3>2. /\ from \in DOMAIN wallets /\ from # to /\ amount # 0
          /\ wallets[from].nonce = nonce /\ wallets[from].balance >= amount
      BY <1>3 DEF BeginTransfer, Exists, MaySpend
    <3> QED BY <3>1, <3>2, TransferImplements
  <2> QED BY <1>3, <2>1, StartImplements DEF BeginTransfer
<1>4. ASSUME NEW from \in Users, NEW amount \in Amounts,
             NEW nonce \in 0..MaxTick, BeginBurn(from, amount, nonce)
      PROVE  RefInv'
  <2>1. failures = 0 => Implements(BurnPlan(from, amount, nonce))
    <3> SUFFICES ASSUME failures = 0 PROVE Implements(BurnPlan(from, amount, nonce))
      OBVIOUS
    <3>1. Opens
      BY <1>4, BeginsClosed DEF BeginBurn
    <3>2. /\ from \in DOMAIN wallets /\ amount # 0
          /\ wallets[from].nonce = nonce /\ wallets[from].balance >= amount
      BY <1>4 DEF BeginBurn, Exists, MaySpend
    <3> QED BY <3>1, <3>2, BurnImplements
  <2> QED BY <1>4, <2>1, StartImplements DEF BeginBurn
<1>5. ASSUME NEW p \in ParameterSets, NEW first \in Firsts, BeginIteration(p, first)
      PROVE  RefInv'
  <2>1. failures = 0 => Implements(IterationPlan(p, first))
    <3> SUFFICES ASSUME failures = 0 PROVE Implements(IterationPlan(p, first))
      OBVIOUS
    <3>1. Opens
      BY <1>5, BeginsClosed DEF BeginIteration
    <3> QED BY <3>1, IterationImplements
  <2> QED BY <1>5, <2>1, StartImplements DEF BeginIteration
<1>6. ASSUME NEW entries \in SeedFiles, BeginInstallSeed(entries) PROVE RefInv'
  <2>1. failures = 0 => Implements(SeedPlan(entries))
    <3> SUFFICES ASSUME failures = 0 PROVE Implements(SeedPlan(entries))
      OBVIOUS
    <3>1. Opens
      BY <1>6, BeginsClosed DEF BeginInstallSeed
    <3> QED BY <1>6, <3>1, SeedImplements DEF BeginInstallSeed
  <2> QED BY <1>6, <2>1, StartImplements DEF BeginInstallSeed
<1> QED BY <1>1, <1>2, <1>3, <1>4, <1>5, <1>6 DEF Begin

\* A write is one step of the trace: the ledger's, if it commits.
LEMMA WriteFollows ==
    ASSUME RefInv, DoWrite, failures = 0
    PROVE  /\ Implements(plan)'
           /\ \/ LedgerStep(view, view', Head(plan).overflows)
              \/ view' = view /\ ~Head(plan).overflows
           /\ view' = view \/ ~view'.system.iteration_lock
<1> DEFINE w == Head(plan)
<1>1. PICK b : Trace(Pair(Live, view), plan, b) /\ Rests(b)
  BY DEF RefInv, Implements
<1>2. PICK c : Follows(Pair(Live, view), w, c) /\ Trace(c, Tail(plan), b)
  BY <1>1, TraceHead DEF DoWrite, Idle
<1>3. Pair(Live, view).live = Live /\ Pair(Live, view).view = view
  BY PairFields
<1>4. /\ plan' = Tail(plan)
      /\ Live' = Effect(Live, w)
      /\ view' = IF w.commits THEN Live' ELSE view
  BY LiveFields DEF DoWrite, Live, Effect, Books
<1> HIDE DEF w
<1>5. c.live = Live' /\ c.view = view'
  BY <1>2, <1>3, <1>4 DEF Follows
<1>6. Pair(Live', view').live = c.live /\ Pair(Live', view').view = c.view
  BY <1>5, PairFields
<1>7. PICK d : Trace(Pair(Live', view'), Tail(plan), d) /\ d.live = b.live /\ d.view = b.view
  BY <1>2, <1>6, TraceFrom
<1>8. Rests(d)
  BY <1>1, <1>7 DEF Rests
<1>9. Implements(plan)'
  <2>1. PICK l, v : l = Live' /\ v = view'
    OBVIOUS
  <2>2. Pair(Live, view)' = Pair(Live', view')
    BY DEF Pair
  <2> QED BY <1>4, <1>7, <1>8, <2>2 DEF Implements
<1>10. \/ LedgerStep(view, view', w.overflows)
       \/ view' = view /\ ~w.overflows
  <2>1. CASE w.commits
    <3>1. LedgerStep(view, c.live, w.overflows)
      BY <1>2, <1>3, <2>1 DEF Follows
    <3>2. view' = c.live
      BY <1>4, <1>5, <2>1
    <3> QED BY <3>1, <3>2, Zenon
  <2>2. CASE ~w.commits
    <3>1. ~w.overflows
      BY <1>2, <2>2 DEF Follows
    <3> QED BY <1>4, <2>2, <3>1
  <2> QED BY <2>1, <2>2
<1> QED BY <1>9, <1>10 DEF LedgerStep, w

LEMMA NextRefInv == NodeInv /\ RefInv /\ [NodeNext]_nodeVars => RefInv'
<1> SUFFICES ASSUME NodeInv, RefInv, [NodeNext]_nodeVars PROVE RefInv'
  OBVIOUS
<1>1. CASE Begin
  BY <1>1, BeginRefines
<1>2. CASE DoWrite
  <2>1. crashes' = crashes /\ failures' = failures /\ saturated' \in BOOLEAN
    BY <1>2 DEF DoWrite
  <2> QED BY <1>2, <2>1, WriteFollows DEF RefInv
<1>3. CASE FailWrite
  <2>1. /\ failures' = failures + 1 /\ failures < MaxFailures
        /\ crashes' = crashes /\ saturated' = saturated
    BY <1>3 DEF FailWrite
  <2> QED BY <2>1 DEF RefInv
<1>4. CASE BackgroundFlush \/ UNCHANGED nodeVars
  <2>1. /\ plan' = plan /\ view' = view /\ Live' = Live /\ saturated' = saturated
        /\ crashes' = crashes /\ failures' = failures
    BY <1>4 DEF BackgroundFlush, nodeVars, storeVars, Live
  <2> QED BY <2>1 DEF RefInv, Implements
<1>5. CASE CrashAndOpen
  <2>1. /\ crashes' = crashes + 1 /\ crashes < MaxCrashes
        /\ failures' = failures /\ saturated' = saturated /\ plan' = << >> /\ view' = Live'
    BY <1>5 DEF CrashAndOpen, Live, Books
  <2>2. Implements(plan)'
    <3>1. Pair(Live, view)' = Pair(Live', Live')
      BY <2>1 DEF Pair
    <3>2. Trace(Pair(Live', Live'), << >>, Pair(Live', Live'))
      BY TraceEmpty
    <3>3. Rests(Pair(Live', Live'))
      BY ClosedRests
    <3> QED BY <2>1, <3>1, <3>2, <3>3 DEF Implements
  <2> QED BY <2>1, <2>2 DEF RefInv
<1> QED BY <1>1, <1>2, <1>3, <1>4, <1>5 DEF NodeNext

LEMMA InitRefInv == NodeInit => RefInv
<1> SUFFICES ASSUME NodeInit PROVE RefInv
  OBVIOUS
<1>1. /\ saturated \in BOOLEAN /\ crashes = 0 /\ failures = 0 /\ plan = << >> /\ view = Live
      /\ ~view.system.iteration_lock
  BY DEF NodeInit, Init, Live, Books, GenesisState
<1>2. Implements(plan)
  <2>1. Trace(Pair(Live, Live), << >>, Pair(Live, Live))
    BY TraceEmpty
  <2>2. Rests(Pair(Live, Live))
    BY ClosedRests
  <2> QED BY <1>1, <2>1, <2>2 DEF Implements
<1> QED BY <1>1, <1>2 DEF RefInv

\* The strengthening for the refinement.
THEOREM RefInvariant == NodeSpec => []RefInv
<1> QED BY InitRefInv, NextRefInv, NodeInvariant, PTL DEF NodeSpec

\* As long as no write fails, every step of the node between two restarts is a step of the
\* ledger or shows it nothing: whatever interleaving of writes a handler goes through, its
\* operation takes effect at once, and a handler that panics takes none.
THEOREM HandlersAreAtomic ==
    NodeSpec => [][failures' = 0 /\ crashes' = crashes => [Ledger!Next]_(Ledger!vars)]_nodeVars
<1>1. NodeInv /\ RefInv /\ [NodeNext]_nodeVars
        => [failures' = 0 /\ crashes' = crashes => [Ledger!Next]_(Ledger!vars)]_nodeVars
  <2> SUFFICES ASSUME NodeInv, RefInv, NodeNext, failures' = 0, crashes' = crashes
               PROVE  [Ledger!Next]_(Ledger!vars)
    OBVIOUS
  <2>1. CASE DoWrite
    <3>1. failures = 0 /\ saturated' = (saturated \/ Head(plan).overflows)
      BY <2>1 DEF DoWrite
    <3>2. saturated \in BOOLEAN
      BY DEF RefInv
    <3>3. CASE LedgerStep(view, view', Head(plan).overflows)
      BY <3>1, <3>2, <3>3, StepIsAction
    <3>4. CASE view' = view /\ ~Head(plan).overflows
      <4>1. saturated' = saturated
        BY <3>1, <3>2, <3>4
      <4> QED BY <3>4, <4>1 DEF Ledger!vars
    <3> QED BY <2>1, <3>1, <3>3, <3>4, WriteFollows
  <2>2. CASE Begin \/ BackgroundFlush
    <3>1. view' = view /\ saturated' = saturated
      BY <2>2 DEF Begin, BeginCreate, BeginCharge, BeginTransfer, BeginBurn, BeginIteration,
                  BeginInstallSeed, Start, BackgroundFlush
    <3> QED BY <3>1 DEF Ledger!vars
  <2>3. CASE FailWrite \/ CrashAndOpen
    BY <2>3 DEF FailWrite, CrashAndOpen, RefInv
  <2> QED BY <2>1, <2>2, <2>3 DEF NodeNext
<1> QED BY <1>1, NodeInvariant, RefInvariant, PTL DEF NodeSpec

\* Without crashes and errors the node implements the ledger.
THEOREM NodeImplementsLedger ==
    ASSUME MaxCrashes = 0, MaxFailures = 0
    PROVE  NodeSpec => ImplementsLedger
<1>1. NodeInit => Ledger!Init
  BY DEF NodeInit, Init, EmptyTree, GenesisState, ZERO_HASH,
         Ledger!Init, Ledger!EmptyTree, Ledger!GenesisState, Ledger!ZERO_HASH
<1>2. RefInv /\ RefInv' => failures' = 0 /\ crashes' = crashes
  BY DEF RefInv
<1>3. RefInv /\ RefInv'
        /\ [failures' = 0 /\ crashes' = crashes => [Ledger!Next]_(Ledger!vars)]_nodeVars
        => [Ledger!Next]_(Ledger!vars)
  <2> SUFFICES ASSUME UNCHANGED nodeVars PROVE UNCHANGED Ledger!vars
    BY <1>2
  <2> QED BY DEF nodeVars, Ledger!vars
<1> QED BY <1>1, <1>3, RefInvariant, HandlersAreAtomic, PTL
        DEF NodeSpec, ImplementsLedger, Ledger!Spec

\* Between handlers everything is committed, restarts included, as long as no write fails and
\* no parameters make an iteration panic.
THEOREM NothingHalfDone ==
    ASSUME \A p \in ParameterSets : ~Panics(p)
    PROVE  NodeSpec => [](failures = 0 => IdleNodeIsCommitted)
<1>1. RefInv => (failures = 0 => IdleNodeIsCommitted)
  <2> SUFFICES ASSUME RefInv, failures = 0, Idle PROVE view = Live
    BY DEF IdleNodeIsCommitted, Live, Books
  <2>1. PICK b : Trace(Pair(Live, view), << >>, b) /\ Rests(b)
    BY DEF RefInv, Implements, Idle
  <2>2. b.live = Live /\ b.view = view
    BY <2>1, EmptyTrace, PairFields
  <2> QED BY <2>1, <2>2 DEF Rests, MayPanic
<1> QED BY <1>1, RefInvariant, PTL

\* A node that a panic left locked has lost nothing else: releasing the lock would do.
THEOREM PanicsTearNothing == NodeSpec => []PanicTearsNothing
<1>1. RefInv => PanicTearsNothing
  <2> SUFFICES ASSUME RefInv, Idle, system.iteration_lock, crashes = 0, failures = 0
               PROVE  view = Books(wallets, [system EXCEPT !.iteration_lock = FALSE], poh,
                                   iterations)
    BY DEF PanicTearsNothing, Books
  <2>1. PICK b : Trace(Pair(Live, view), << >>, b) /\ Rests(b)
    BY DEF RefInv, Implements, Idle
  <2>2. b.live = Live /\ b.view = view
    BY <2>1, EmptyTrace, PairFields
  <2>3. view # Live
    BY LiveFields DEF RefInv
  <2> QED BY <2>1, <2>2, <2>3, LiveFields DEF Rests, OnlyLocked
<1> QED BY <1>1, RefInvariant, PTL

-----------------------------------------------------------------------------
(* A transfer that is cut in half.                                         *)

\* What a plan starts with and what is left after it.
Starts(p, w, rest) == p # << >> /\ Head(p) = w /\ Tail(p) = rest

\* The wallets hold no more coins than the operations that took effect left them.
Covered(ws) == Total(Balances(ws)) <= Total(Balances(view.wallets))

\* The three stages of a transfer that has its transaction still to write: both wallets are to
\* be written, only the recipient's is, none is.
Appends(p, ws) ==
    \E w, rest : /\ Starts(p, w, rest) /\ w.tree = "transactions" /\ ~w.commits
                 /\ NoTransfer(rest) /\ Covered(ws)

Credits(p, ws) ==
    \E w, rest : /\ Starts(p, w, rest) /\ w.tree = "wallets" /\ ~w.commits
                 /\ Appends(rest, Put(ws, w.key, w.value)) /\ Covered(ws)

Debits(p, ws) ==
    \E w, rest : /\ Starts(p, w, rest) /\ w.tree = "wallets" /\ ~w.commits
                 /\ Credits(rest, Put(ws, w.key, w.value)) /\ Covered(ws)

TornInv ==
    failures = 0 => \/ NoTransfer(plan)
                    \/ Appends(plan, wallets)
                    \/ Credits(plan, wallets)
                    \/ Debits(plan, wallets)

LEMMA StartsCons ==
    ASSUME NEW w, NEW rest, NEW S, rest \in Seq(S)
    PROVE  Starts(<<w>> \o rest, w, rest)
<1>1. PICK T : T = S \cup {w}
  OBVIOUS
<1>2. <<w>> \in Seq(T) /\ rest \in Seq(T)
  BY <1>1
<1> DEFINE p == <<w>> \o rest
           n == Len(rest)
<1>3. /\ n \in Nat /\ p \in Seq(T) /\ Len(p) = n + 1 /\ p[1] = w
      /\ \A i \in 1..n : p[i + 1] = rest[i]
  BY <1>2
<1> HIDE DEF p
<1>4. p # << >> /\ Head(p) = w
  BY <1>3
<1>5. Tail(p) = rest
  <2>1. Tail(p) \in Seq(T) /\ Len(Tail(p)) = n /\ \A i \in 1..n : Tail(p)[i] = p[i + 1]
    BY <1>3
  <2> QED BY <1>2, <1>3, <2>1, SeqEqual
<1> QED BY <1>4, <1>5 DEF Starts, p

\* The amount leaves the sender before the recipient gets it.
LEMMA TransferTotals ==
    ASSUME NEW ws, WalletsOK(ws), NEW from \in DOMAIN ws, NEW to \in DOMAIN ws, from # to,
           NEW amount \in 0..MaxU64, ws[from].balance >= amount,
           NEW paid \in WalletRecord(WalletId), paid.balance = ws[from].balance - amount,
           NEW got \in WalletRecord(WalletId), got.balance = SatAdd(ws[to].balance, amount)
    PROVE  /\ Total(Balances(ws)) \in Nat
           /\ Total(Balances(Put(ws, from, paid))) <= Total(Balances(ws))
           /\ Total(Balances(Put(Put(ws, from, paid), to, got))) <= Total(Balances(ws))
<1> DEFINE S == DOMAIN ws
           u == Put(ws, from, paid)
           v == Put(u, to, got)
<1>1. IsFiniteSet(S) /\ ws \in [S -> WalletRecord(WalletId)] /\ S \subseteq WalletId
  BY DEF WalletsOK
<1>2. S \cup {from} = S /\ S \cup {to} = S
  OBVIOUS
<1>3. u \in [S -> WalletRecord(WalletId)] /\ u[from] = paid
      /\ \A w \in S \ {from} : u[w] = ws[w]
  BY <1>1, <1>2 DEF Put
<1> HIDE DEF u
<1>4. v \in [S -> WalletRecord(WalletId)] /\ v[to] = got
      /\ \A w \in S \ {to} : v[w] = u[w]
  BY <1>2, <1>3 DEF Put
<1> HIDE DEF v, S
<1> DEFINE f == Balances(ws)
           g == Balances(u)
           h == Balances(v)
<1>5. /\ f \in [S -> Nat] /\ \A w \in S : f[w] = ws[w].balance
      /\ g \in [S -> Nat] /\ \A w \in S : g[w] = u[w].balance
      /\ h \in [S -> Nat] /\ \A w \in S : h[w] = v[w].balance
  BY <1>1, <1>3, <1>4, BalancesType
<1> HIDE DEF f, g, h
<1>6. from \in S /\ to \in S
  BY DEF S
<1>7. /\ \A w \in S \ {from} : g[w] = f[w]
      /\ \A w \in S \ {to} : h[w] = g[w]
  BY <1>3, <1>4, <1>5
<1>8. Total(g) = Total(f) - f[from] + g[from]
  BY <1>1, <1>5, <1>6, <1>7, TotalUpdate
<1>9. Total(h) = Total(g) - g[to] + h[to]
  BY <1>1, <1>5, <1>6, <1>7, TotalUpdate
<1>10. Total(f) \in Nat /\ Total(g) \in Nat /\ Total(h) \in Nat
  BY <1>1, <1>5, TotalType
<1>11. /\ f[from] \in Nat /\ g[from] = f[from] - amount /\ g[to] \in Nat
       /\ h[to] = SatAdd(g[to], amount)
  BY <1>3, <1>4, <1>5, <1>6
<1>12. h[to] <= g[to] + amount /\ h[to] \in Nat
  BY <1>5, <1>6, <1>11 DEF SatAdd
<1>13. Total(g) <= Total(f) /\ Total(h) <= Total(f)
  BY <1>8, <1>9, <1>10, <1>11, <1>12
<1> QED BY <1>10, <1>13 DEF f, g, h, v, u

LEMMA TransferDebits ==
    ASSUME Opens, NEW from \in Users, from \in DOMAIN wallets, NEW to \in DOMAIN wallets,
           from # to, NEW amount \in Amounts, NEW nonce \in 0..MaxTick,
           wallets[from].balance >= amount
    PROVE  Debits(TransferPlan(from, to, amount, nonce), wallets)
<1> DEFINE tx   == TransferTx(from, to, amount, nonce)
           it   == system.current_iteration
           paid == Spent(wallets[from], amount, {to}, it)
           got  == Received(wallets[to], amount, from, it)
           end  == Activated(Ticked(system, tx), {from, to})
           o    == wallets[to].balance + amount > MaxU64
           a    == PutWallet(from, paid, system)
           b    == PutWallet(to, got, system)
           c    == Write("transactions", tx, Ticked(system, tx).current_tick, Ticked(system, tx))
           last == <<Commit(StoreState(end), o)>>
           u    == Put(wallets, from, paid)
           v    == Put(u, to, got)
<1>1. /\ WalletsOK(wallets) /\ SystemOK(system) /\ view = Live
  BY DEF Opens
<1>2. view.wallets = wallets
  BY <1>1, LiveFields
<1>3. amount \in 0..MaxU64
  BY Zenon, AmountFits
<1>4. it \in Nat
  BY <1>1, SystemFields
<1>5. /\ wallets[from] \in WalletRecord(WalletId) /\ wallets[to] \in WalletRecord(WalletId)
      /\ from \in WalletId /\ to \in WalletId
  BY <1>1 DEF WalletsOK
<1>6. paid \in WalletRecord(WalletId) /\ paid.balance = wallets[from].balance - amount
  <2>1. {to} \in SUBSET WalletId
    BY <1>5
  <2> HIDE DEF it
  <2> QED BY <1>3, <1>4, <1>5, <2>1, SpentType
<1>7. got \in WalletRecord(WalletId) /\ got.balance = SatAdd(wallets[to].balance, amount)
  <2> HIDE DEF it
  <2> QED BY <1>3, <1>4, <1>5, ReceivedType
<1> HIDE DEF paid, got
<1>8. /\ Total(Balances(wallets)) \in Nat
      /\ Total(Balances(u)) <= Total(Balances(wallets))
      /\ Total(Balances(v)) <= Total(Balances(wallets))
  BY <1>1, <1>3, <1>6, <1>7, TransferTotals
<1>9. Covered(wallets) /\ Covered(u) /\ Covered(v)
  <2> HIDE DEF u, v
  <2> QED BY <1>2, <1>8 DEF Covered
<1>10. IsFiniteSet(WalletIds(tx))
  BY UserTxWallets
<1>11. PICK rest : AppendTx(system, tx) = <<c>> \o rest /\ NoTransfer(rest)
  BY <1>10, AppendShape
<1>12. NoTransfer(last)
  BY OtherWrites
<1>13. c.tree = "transactions" /\ ~c.commits
  BY WriteFields
<1>14. /\ a.tree = "wallets" /\ ~a.commits /\ a.key = from /\ a.value = paid
       /\ b.tree = "wallets" /\ ~b.commits /\ b.key = to /\ b.value = got
  BY WriteFields DEF PutWallet
<1>15. TransferPlan(from, to, amount, nonce) = <<a, b>> \o AppendTx(system, tx) \o last
  BY Zenon DEF TransferPlan, MoveCoins, paid, got
<1> HIDE DEF tx, a, b, c, last, u, v
<1> DEFINE z == rest \o last
           y == <<c>> \o z
           x == <<b>> \o y
<1>16. NoTransfer(z)
  BY <1>11, <1>12, NoTransferConcat
<1>17. PICK Z : z \in Seq(Z)
  BY <1>16 DEF NoTransfer
<1>18. Starts(y, c, z) /\ y \in Seq(Z \cup {c})
  <2>1. z \in Seq(Z \cup {c}) /\ <<c>> \in Seq(Z \cup {c})
    BY <1>17
  <2> HIDE DEF z
  <2>2. Starts(<<c>> \o z, c, z)
    BY <1>17, StartsCons
  <2> QED BY <2>1, <2>2
<1>19. Starts(x, b, y) /\ x \in Seq(Z \cup {c, b})
  <2>1. y \in Seq(Z \cup {c, b}) /\ <<b>> \in Seq(Z \cup {c, b})
    BY <1>18
  <2> HIDE DEF y
  <2>2. Starts(<<b>> \o y, b, y)
    BY <1>18, StartsCons
  <2> QED BY <2>1, <2>2
<1>20. Starts(<<a>> \o x, a, x)
  BY <1>19, StartsCons
<1>21. TransferPlan(from, to, amount, nonce) = <<a>> \o x
  <2>1. PICK R, L : rest \in Seq(R) /\ last \in Seq(L)
    BY <1>11, <1>12 DEF NoTransfer
  <2>2. PICK T : T = R \cup L \cup {a, b, c}
    OBVIOUS
  <2>3. /\ rest \in Seq(T) /\ last \in Seq(T) /\ <<a>> \in Seq(T) /\ <<b>> \in Seq(T)
        /\ <<c>> \in Seq(T) /\ <<a, b>> \in Seq(T)
    BY <2>1, <2>2
  <2>4. <<c>> \o rest \in Seq(T) /\ z \in Seq(T) /\ y \in Seq(T)
    BY <2>3
  <2>5. (<<c>> \o rest) \o last = y
    BY <2>3, ConcatAssociative
  <2>6. <<a, b>> = <<a>> \o <<b>>
    BY <2>3, PairOfWrites
  <2>7. (<<a>> \o <<b>>) \o y = <<a>> \o x
    <3> HIDE DEF y
    <3> QED BY <2>3, <2>4, ConcatAssociative
  <2>8. (<<a, b>> \o (<<c>> \o rest)) \o last = <<a, b>> \o ((<<c>> \o rest) \o last)
    <3> DEFINE q == <<c>> \o rest
               r == <<a, b>>
    <3> HIDE DEF q, r
    <3>1. q \in Seq(T) /\ r \in Seq(T)
      BY <2>3, <2>4 DEF q, r
    <3>2. (r \o q) \o last = r \o (q \o last)
      BY <2>3, <3>1, ConcatAssociative
    <3> QED BY <3>2 DEF q, r
  <2> HIDE DEF x, y
  <2> QED BY <1>11, <1>15, <2>5, <2>6, <2>7, <2>8
<1> HIDE DEF x, y, z
<1>22. Appends(y, v)
  BY <1>9, <1>13, <1>16, <1>18 DEF Appends
<1>23. Credits(x, u)
  <2>1. Appends(y, Put(u, b.key, b.value))
    BY <1>14, <1>22 DEF v
  <2> QED BY <1>9, <1>14, <1>19, <2>1 DEF Credits
<1>24. Debits(<<a>> \o x, wallets)
  <2>1. Credits(x, Put(wallets, a.key, a.value))
    BY <1>14, <1>23 DEF u
  <2> QED BY <1>9, <1>14, <1>20, <2>1 DEF Debits
<1> QED BY <1>21, <1>24

\* No other handler writes a transfer.
LEMMA MintWritesNone ==
    ASSUME NEW id, NEW amount, NEW category
    PROVE  NoTransfer(MintPlan(id, amount, category))
<1> DEFINE tx   == MintTx(id, amount, system.current_tick + 1, category)
           mem  == AfterCreate(system, amount)
           put  == <<PutWallet(id, NewWallet(amount, system.current_iteration), system)>>
           last == <<Commit(StoreState(Ticked(mem, tx)), CreateOverflows(system, amount))>>
<1>1. IsFiniteSet(WalletIds(tx)) /\ tx.kind # "transfer"
  BY UserTxWallets DEF MintTx
<1>2. NoTransfer(put) /\ NoTransfer(last)
  BY OtherWrites
<1> HIDE DEF tx, mem, put, last
<1>3. NoTransfer(AppendTx(mem, tx))
  BY <1>1, AppendsOther
<1>4. NoTransfer(put \o AppendTx(mem, tx) \o last)
  BY <1>2, <1>3, NoTransferConcat
<1> QED BY <1>4, Zenon DEF MintPlan, tx, mem, put, last

LEMMA ChargeWritesNone ==
    ASSUME NEW id, NEW amount
    PROVE  NoTransfer(ChargePlan(id, amount))
<1> DEFINE tx   == MintTx(id, amount, system.current_tick + 1, "charge")
           mem  == [system EXCEPT !.total_supply = SatAdd(@, amount)]
           put  == <<PutWallet(id, [wallets[id] EXCEPT !.balance = SatAdd(@, amount)], system)>>
           last == <<Commit(StoreState(Ticked(mem, tx)), system.total_supply + amount > MaxU64)>>
<1>1. IsFiniteSet(WalletIds(tx)) /\ tx.kind # "transfer"
  BY UserTxWallets DEF MintTx
<1>2. NoTransfer(put) /\ NoTransfer(last)
  BY OtherWrites
<1> HIDE DEF tx, mem, put, last
<1>3. NoTransfer(AppendTx(mem, tx))
  BY <1>1, AppendsOther
<1>4. NoTransfer(put \o AppendTx(mem, tx) \o last)
  BY <1>2, <1>3, NoTransferConcat
<1> QED BY <1>4, Zenon DEF ChargePlan, tx, mem, put, last

LEMMA BurnWritesNone ==
    ASSUME NEW from, NEW amount, NEW nonce
    PROVE  NoTransfer(BurnPlan(from, amount, nonce))
<1> DEFINE tx   == BurnTx(from, amount, nonce)
           mem  == [system EXCEPT !.total_supply = SatSub(@, amount)]
           put  == <<PutWallet(from, Spent(wallets[from], amount, {}, system.current_iteration),
                               system)>>
           last == <<Commit(StoreState(Activated(Ticked(mem, tx), {from})), FALSE)>>
<1>1. IsFiniteSet(WalletIds(tx)) /\ tx.kind # "transfer"
  BY UserTxWallets DEF BurnTx
<1>2. NoTransfer(put) /\ NoTransfer(last)
  BY OtherWrites
<1> HIDE DEF tx, mem, put, last
<1>3. NoTransfer(AppendTx(mem, tx))
  BY <1>1, AppendsOther
<1>4. NoTransfer(put \o AppendTx(mem, tx) \o last)
  BY <1>2, <1>3, NoTransferConcat
<1> QED BY <1>4, Zenon DEF BurnPlan, tx, mem, put, last

\* The wallets an iteration writes.
LEMMA WalletPutsWriteNone ==
    ASSUME NEW S, NEW ids \in Seq(S), NEW ws, NEW m
    PROVE  NoTransfer([i \in 1..Len(ids) |-> PutWallet(ids[i], ws[ids[i]], m)])
<1> DEFINE n == Len(ids)
           p == [i \in 1..n |-> PutWallet(ids[i], ws[ids[i]], m)]
<1>1. n \in Nat
  OBVIOUS
<1> HIDE DEF n
<1>2. \A i \in 1..n : ~WritesTransfer(p[i])
  <2> TAKE i \in 1..n
  <2>1. p[i] = PutWallet(ids[i], ws[ids[i]], m)
    OBVIOUS
  <2> HIDE DEF p
  <2> QED BY <2>1, WriteFields DEF WritesTransfer, PutWallet
<1>3. p \in Seq({p[i] : i \in 1..n}) /\ Len(p) = n
  BY <1>1
<1> HIDE DEF p
<1>4. NoTransfer(p)
  BY <1>2, <1>3 DEF NoTransfer
<1> QED BY <1>4 DEF p, n

LEMMA IterationWritesNone ==
    ASSUME Opens, NEW p \in ParameterSets, NEW first \in Firsts
    PROVE  NoTransfer(IterationPlan(p, first))
<1> DEFINE r      == ExecuteIteration(wallets, p, system, first)
           D      == DOMAIN wallets
           F      == r.commit.new_wallets
           locked == Locked(system)
           mem    == Committed(locked, r)
           ids    == InSomeOrder(D) \o InSomeOrder(F)
           puts   == [i \in 1..Len(ids) |-> PutWallet(ids[i], r.wallets[ids[i]], locked)]
           end    == Ticked(mem, r.commit)
           o      == IterationOverflows(r)
<1>1. NoTransfer(TakeLock(locked))
  BY OtherWrites DEF TakeLock
<1>2. CASE Panics(p)
  BY <1>1, <1>2 DEF IterationPlan
<1>3. CASE ~Panics(p)
  <2>1. /\ SystemOK(system) /\ IsFiniteSet(D) /\ wallets \in [D -> WalletRecord(WalletId)]
        /\ p \in Parameters
    BY DEF Opens, WalletsOK
  <2>2. /\ system.current_iteration \in Nat
        /\ system.previous_iteration_supply \in Nat
        /\ system.previous_iteration_start_supply \in Nat
    BY <2>1, SystemFields
  <2> HIDE DEF D
  <2>3. PICK paid : IterationReturns(r, D, WalletId, wallets, p, system, paid)
    BY <2>1, <2>2, IterationShape
  <2> HIDE DEF r, mem, locked, end, o
  <2>4. IsFiniteSet(F) /\ r.commit.kind = "iteration_commit" /\ DOMAIN r.commit.penalties = D
    BY <2>3, Zenon DEF IterationReturns
  <2>5. IsFiniteSet(WalletIds(r.commit)) /\ r.commit.kind # "transfer"
    <3>1. WalletIds(r.commit) = D \cup F
      BY <2>4 DEF WalletIds
    <3>2. IsFiniteSet(D \cup F)
      BY <2>1, <2>4, FS_Union
    <3> QED BY <2>4, <3>1, <3>2
  <2>6. NoTransfer(puts)
    <3>1. InSomeOrder(D) \in Seq(D) /\ InSomeOrder(F) \in Seq(F)
      BY <2>1, <2>4, Listing
    <3>2. ids \in Seq(D \cup F)
      <4> DEFINE s == InSomeOrder(D)
                 t == InSomeOrder(F)
      <4> HIDE DEF s, t, F
      <4>1. s \in Seq(D \cup F) /\ t \in Seq(D \cup F)
        BY <3>1 DEF s, t
      <4>2. s \o t \in Seq(D \cup F)
        BY <4>1
      <4> QED BY <4>2 DEF s, t
    <3> HIDE DEF ids
    <3> QED BY <3>2, WalletPutsWriteNone
  <2> DEFINE commit == r.commit
  <2>7. NoTransfer(AppendTx(mem, commit))
    BY <2>5, AppendsOther
  <2>8. NoTransfer(FinishIteration(end, commit, o))
    <3> DEFINE a == Write("iterations", commit.iteration_id, commit, end)
               b == Commit(StoreState(end), o)
               c == Flush(end)
    <3>1. NoTransfer(<<a>>) /\ NoTransfer(<<b>>) /\ NoTransfer(<<c>>)
      BY OtherWrites
    <3>2. FinishIteration(end, commit, o) = <<a, b, c>>
      BY Zenon DEF FinishIteration
    <3> HIDE DEF a, b, c
    <3>3. NoTransfer(<<a>> \o <<b>> \o <<c>>)
      BY <3>1, NoTransferConcat
    <3>4. <<a>> \o <<b>> \o <<c>> = <<a, b, c>>
      BY ThreeWrites
    <3> QED BY <3>2, <3>3, <3>4
  <2> HIDE DEF puts, commit
  <2>9. NoTransfer(TakeLock(locked) \o puts \o AppendTx(mem, commit)
                     \o FinishIteration(end, commit, o))
    BY <1>1, <2>6, <2>7, <2>8, NoTransferConcat
  <2>10. NoTransfer(IterationWrites(p, first))
    BY <2>9, Zenon DEF IterationWrites, r, D, F, locked, mem, ids, puts, end, o, commit
  <2> QED BY <1>3, <2>10 DEF IterationPlan
<1> QED BY <1>2, <1>3

LEMMA SeedWritesNone ==
    ASSUME Opens, NEW entries \in SeedFiles, system.current_tick + Len(entries) <= MaxTick
    PROVE  NoTransfer(SeedPlan(entries))
<1> DEFINE done == SeedLoop(entries)
           ws   == done.writes
           a    == StoreState(done.mem)
           b    == Flush(done.mem)
<1>1. NoTransfer(ws)
  BY LoopImplements DEF Installs
<1>2. NoTransfer(<<a, b>>)
  <2>1. NoTransfer(<<a>>) /\ NoTransfer(<<b>>)
    BY OtherWrites
  <2> HIDE DEF a, b
  <2>2. NoTransfer(<<a>> \o <<b>>)
    BY <2>1, NoTransferConcat
  <2> QED BY <2>2, PairOfWrites
<1> HIDE DEF a, b, ws
<1>3. NoTransfer(ws \o <<a, b>>)
  BY <1>1, <1>2, NoTransferConcat
<1>4. SeedPlan(entries) = ws \/ SeedPlan(entries) = ws \o <<a, b>>
  BY Zenon DEF SeedPlan, ws, a, b
<1> QED BY <1>1, <1>3, <1>4

\* A handler that starts writes no transfer, or debits first.
LEMMA StartTorn ==
    ASSUME NEW p, Start(p), failures = 0 => NoTransfer(p) \/ Debits(p, wallets)
    PROVE  TornInv'
<1>1. /\ plan' = p /\ view' = view /\ failures' = failures /\ wallets' = wallets
  BY DEF Start, storeVars
<1> QED BY <1>1 DEF TornInv, Debits, Credits, Appends, Covered

LEMMA BeginTorn == ASSUME NodeInv, RefInv, Begin PROVE TornInv'
<1>1. ASSUME NEW id \in Users, NEW p \in ParameterSets, BeginCreate(id, p) PROVE TornInv'
  BY <1>1, StartTorn, MintWritesNone DEF BeginCreate
<1>2. ASSUME NEW id \in DOMAIN wallets, NEW amount \in Amounts, BeginCharge(id, amount)
      PROVE  TornInv'
  BY <1>2, StartTorn, ChargeWritesNone DEF BeginCharge
<1>3. ASSUME NEW from \in Users, NEW to \in DOMAIN wallets, NEW amount \in Amounts,
             NEW nonce \in 0..MaxTick, BeginTransfer(from, to, amount, nonce)
      PROVE  TornInv'
  <2>1. failures = 0 => Debits(TransferPlan(from, to, amount, nonce), wallets)
    <3> SUFFICES ASSUME failures = 0 PROVE Debits(TransferPlan(from, to, amount, nonce), wallets)
      OBVIOUS
    <3>1. Opens
      BY <1>3, BeginsClosed DEF BeginTransfer
    <3>2. from \in DOMAIN wallets /\ from # to /\ wallets[from].balance >= amount
      BY <1>3 DEF BeginTransfer, Exists, MaySpend
    <3> QED BY <3>1, <3>2, TransferDebits
  <2> QED BY <1>3, <2>1, StartTorn DEF BeginTransfer
<1>4. ASSUME NEW from \in Users, NEW amount \in Amounts,
             NEW nonce \in 0..MaxTick, BeginBurn(from, amount, nonce)
      PROVE  TornInv'
  BY <1>4, StartTorn, BurnWritesNone DEF BeginBurn
<1>5. ASSUME NEW p \in ParameterSets, NEW first \in Firsts, BeginIteration(p, first)
      PROVE  TornInv'
  <2>1. failures = 0 => NoTransfer(IterationPlan(p, first))
    BY <1>5, BeginsClosed, IterationWritesNone DEF BeginIteration
  <2> QED BY <1>5, <2>1, StartTorn DEF BeginIteration
<1>6. ASSUME NEW entries \in SeedFiles, BeginInstallSeed(entries) PROVE TornInv'
  <2>1. failures = 0 => NoTransfer(SeedPlan(entries))
    BY <1>6, BeginsClosed, SeedWritesNone DEF BeginInstallSeed
  <2> QED BY <1>6, <2>1, StartTorn DEF BeginInstallSeed
<1> QED BY <1>1, <1>2, <1>3, <1>4, <1>5, <1>6 DEF Begin

\* A write takes a transfer from one stage to the next.
LEMMA WriteTorn == ASSUME TornInv, DoWrite, failures = 0 PROVE TornInv'
<1> DEFINE w == Head(plan)
<1>1. /\ plan # << >> /\ plan' = Tail(plan) /\ failures' = failures
      /\ wallets' = IF w.tree = "wallets" THEN Put(wallets, w.key, w.value) ELSE wallets
      /\ ~w.commits => view' = view
  BY DEF DoWrite, Idle
<1>2. CASE NoTransfer(plan)
  <2>1. NoTransfer(plan')
    BY <1>1, <1>2, NoTransferTail
  <2>2. NoTransfer(plan)'
    BY <2>1 DEF NoTransfer, WritesTransfer
  <2> QED BY <2>2 DEF TornInv
<1>3. CASE Appends(plan, wallets)
  <2>1. NoTransfer(plan')
    BY <1>1, <1>3 DEF Appends, Starts
  <2>2. NoTransfer(plan)'
    BY <2>1 DEF NoTransfer, WritesTransfer
  <2> QED BY <2>2 DEF TornInv
<1>4. CASE Credits(plan, wallets)
  <2>1. view' = view /\ Appends(plan', wallets')
    BY <1>1, <1>4 DEF Credits, Starts
  <2>2. Appends(plan, wallets)'
    BY <2>1 DEF Appends, Covered
  <2> QED BY <2>2 DEF TornInv
<1>5. CASE Debits(plan, wallets)
  <2>1. view' = view /\ Credits(plan', wallets')
    BY <1>1, <1>5 DEF Debits, Starts
  <2>2. Credits(plan, wallets)'
    BY <2>1 DEF Credits, Appends, Covered
  <2> QED BY <2>2 DEF TornInv
<1> QED BY <1>2, <1>3, <1>4, <1>5 DEF TornInv

LEMMA NextTornInv == NodeInv /\ RefInv /\ TornInv /\ [NodeNext]_nodeVars => TornInv'
<1> SUFFICES ASSUME NodeInv, RefInv, TornInv, [NodeNext]_nodeVars PROVE TornInv'
  OBVIOUS
<1>1. CASE Begin
  BY <1>1, BeginTorn
<1>2. CASE DoWrite
  <2>1. failures' = failures
    BY <1>2 DEF DoWrite
  <2> QED BY <1>2, <2>1, WriteTorn DEF TornInv
<1>3. CASE FailWrite
  <2>1. failures' # 0
    BY <1>3 DEF FailWrite, RefInv
  <2> QED BY <2>1 DEF TornInv
<1>4. CASE BackgroundFlush \/ UNCHANGED nodeVars
  <2>1. plan' = plan /\ view' = view /\ wallets' = wallets /\ failures' = failures
    BY <1>4 DEF BackgroundFlush, nodeVars, storeVars
  <2> QED BY <2>1 DEF TornInv, Debits, Credits, Appends, Covered, NoTransfer
<1>5. CASE CrashAndOpen
  <2>1. plan' = << >>
    BY <1>5 DEF CrashAndOpen
  <2>2. NoTransfer(plan)'
    BY <2>1, NothingWritten DEF NoTransfer
  <2> QED BY <2>2 DEF TornInv
<1> QED BY <1>1, <1>2, <1>3, <1>4, <1>5 DEF NodeNext

LEMMA NoTransferAhead == ASSUME NoTransfer(plan) PROVE ~TransferAhead
BY DEF NoTransfer, WritesTransfer, TransferAhead

\* A transfer that a crash cuts in half loses coins or nothing: the debit is written before the
\* credit, and until the transaction is written the wallets hold no more than before.
THEOREM TornTransfersMintNothing == NodeSpec => []TornTransferMintsNothing
<1>1. NodeInit => TornInv
  <2> SUFFICES ASSUME NodeInit PROVE TornInv
    OBVIOUS
  <2>1. plan = << >>
    BY DEF NodeInit
  <2> QED BY <2>1, NothingWritten DEF TornInv
<1>2. TornInv => TornTransferMintsNothing
  <2>1. ASSUME Appends(plan, wallets) \/ Credits(plan, wallets) \/ Debits(plan, wallets)
        PROVE  Covered(wallets)
    BY <2>1 DEF Appends, Credits, Debits
  <2> QED BY <2>1, NoTransferAhead DEF TornInv, TornTransferMintsNothing, Covered
<1> QED BY <1>1, <1>2, NextTornInv, NodeInvariant, RefInvariant, PTL DEF NodeSpec

-----------------------------------------------------------------------------
(* What an iteration restores.  A handler of users writes under the        *)
(* iteration it found; an iteration first replaces every wallet, and then  *)
(* goes on under the next one, with the counters of those wallets.         *)

\* The supply and the number of wallets are those of the wallets ws.
Sound(m, ws) ==
    /\ m.total_supply = Total(Balances(ws)) % (MaxU64 + 1)
    /\ m.n_wallets = Cardinality(DOMAIN ws)

\* A wallet of the faucet has been active in the iteration that created it, or later.
BornAt(id, wallet) == id \in FaucetIds => id[2] <= wallet.last_active_iteration

AllBorn(ws) == \A w \in DOMAIN ws : BornAt(w, ws[w])

\* A write under iteration n.
Steady(w, n) ==
    /\ w.mem.current_iteration = n
    /\ w.tree = "wallets" => BornAt(w.key, w.value)

SteadyPlan(p, n) == \E W : p \in Seq(W) /\ \A w \in W : Steady(w, n)

\* Writes with the memory m that change no wallet.
Carries(p, m) == \E W : p \in Seq(W) /\ \A w \in W : w.mem = m /\ w.tree # "wallets"

\* The writes p make the wallets ws those of new, under iteration n.
Rewrites(p, n, ws, new) ==
    /\ \E W : /\ p \in Seq(W)
              /\ \A w \in W : /\ Steady(w, n)
                              /\ w.tree = "wallets" => w.key \in DOMAIN new /\ w.value = new[w.key]
    /\ DOMAIN ws \subseteq DOMAIN new
    /\ new = [id \in DOMAIN new |-> new[id]]
    /\ \A id \in DOMAIN new : \/ id \in DOMAIN ws /\ ws[id] = new[id]
                              \/ \E i \in 1..Len(p) : p[i].tree = "wallets" /\ p[i].key = id

Closes(p, n, new) ==
    /\ p # << >>
    /\ \E m : Carries(p, m) /\ m.current_iteration = n /\ Sound(m, new)

Restores(p, ws, n) ==
    \/ SteadyPlan(p, n)
    \/ \E q, r, new : p = q \o r /\ Rewrites(q, n, ws, new) /\ Closes(r, n + 1, new)

RestoreInv ==
    /\ Restores(plan, wallets, system.current_iteration)
    /\ durable.stored.current_iteration <= stored.current_iteration
    /\ stored.current_iteration <= system.current_iteration
    /\ AllBorn(wallets)
    /\ AllBorn(durable.wallets)

-----------------------------------------------------------------------------
(* Plans that write under one iteration.                                   *)

LEMMA SteadyEmpty == ASSUME NEW n PROVE SteadyPlan(<< >>, n)
<1>1. PICK W : W = {}
  OBVIOUS
<1>2. << >> \in Seq(W) /\ \A w \in W : Steady(w, n)
  BY <1>1
<1> QED BY <1>2, Zenon DEF SteadyPlan

LEMMA SteadyOne ==
    ASSUME NEW w, NEW n, Steady(w, n)
    PROVE  SteadyPlan(<<w>>, n)
<1>1. PICK W : W = {w}
  OBVIOUS
<1>2. <<w>> \in Seq(W) /\ \A v \in W : Steady(v, n)
  BY <1>1
<1> QED BY <1>2, Zenon DEF SteadyPlan

LEMMA SteadyConcat ==
    ASSUME NEW p, NEW q, NEW n, SteadyPlan(p, n), SteadyPlan(q, n)
    PROVE  SteadyPlan(p \o q, n)
<1>1. PICK V : p \in Seq(V) /\ \A w \in V : Steady(w, n)
  BY DEF SteadyPlan
<1>2. PICK W : q \in Seq(W) /\ \A w \in W : Steady(w, n)
  BY DEF SteadyPlan
<1>3. p \o q \in Seq(V \cup W)
  BY <1>1, <1>2
<1> QED BY <1>1, <1>2, <1>3 DEF SteadyPlan

LEMMA CarriesOne ==
    ASSUME NEW w, NEW m, w.mem = m, w.tree # "wallets"
    PROVE  Carries(<<w>>, m)
<1>1. PICK W : W = {w}
  OBVIOUS
<1>2. <<w>> \in Seq(W) /\ \A v \in W : v.mem = m /\ v.tree # "wallets"
  BY <1>1
<1> QED BY <1>2, Zenon DEF Carries

LEMMA CarriesConcat ==
    ASSUME NEW p, NEW q, NEW m, Carries(p, m), Carries(q, m)
    PROVE  Carries(p \o q, m)
<1>1. PICK V : p \in Seq(V) /\ \A w \in V : w.mem = m /\ w.tree # "wallets"
  BY DEF Carries
<1>2. PICK W : q \in Seq(W) /\ \A w \in W : w.mem = m /\ w.tree # "wallets"
  BY DEF Carries
<1>3. p \o q \in Seq(V \cup W)
  BY <1>1, <1>2
<1> QED BY <1>1, <1>2, <1>3 DEF Carries

LEMMA CarriesSteady ==
    ASSUME NEW p, NEW m, Carries(p, m), NEW n, m.current_iteration = n
    PROVE  SteadyPlan(p, n)
BY DEF Carries, SteadyPlan, Steady

\* append_tx_locked, and the writes of the state.
LEMMA AppendCarries ==
    ASSUME NEW sys, NEW tx, IsFiniteSet(WalletIds(tx))
    PROVE  /\ Carries(AppendTx(sys, tx), Ticked(sys, tx))
           /\ Len(AppendTx(sys, tx)) \in Nat \ {0}
           /\ IsWrite(AppendTx(sys, tx)[Len(AppendTx(sys, tx))])
<1> DEFINE mem  == Ticked(sys, tx)
           ids  == InSomeOrder(WalletIds(tx))
           n    == Cardinality(WalletIds(tx))
           put  == Write("transactions", tx, mem.current_tick, mem)
           idx  == [i \in 1..n |-> Write("tx_by_wallet", ids[i], tx, mem)]
           last == Write("poh", mem.current_tick, NextEntry(sys, tx), mem)
<1>1. AppendTx(sys, tx) = <<put>> \o idx \o <<last>>
  BY DEF AppendTx
<1>2. n \in Nat
  BY FS_CardinalityType
<1>3. last.mem = mem /\ last.tree # "wallets" /\ put.mem = mem /\ put.tree # "wallets"
      /\ IsWrite(last)
  <2> HIDE DEF mem
  <2> QED BY WriteFields
<1> HIDE DEF mem, ids, n
<1>4. Carries(idx, mem)
  <2>1. \A i \in 1..n : idx[i].mem = mem /\ idx[i].tree # "wallets"
    <3> TAKE i \in 1..n
    <3>1. idx[i] = Write("tx_by_wallet", ids[i], tx, mem)
      OBVIOUS
    <3> HIDE DEF idx
    <3> QED BY <3>1, WriteFields
  <2>2. idx \in Seq({idx[i] : i \in 1..n})
    BY <1>2
  <2> HIDE DEF idx
  <2> QED BY <2>1, <2>2 DEF Carries
<1> HIDE DEF put, idx, last
<1>5. Carries(<<put>> \o idx \o <<last>>, mem)
  BY <1>3, <1>4, CarriesOne, CarriesConcat
<1>6. PICK W : <<put>> \o idx \in Seq(W)
  <2>1. Carries(<<put>> \o idx, mem)
    BY <1>3, <1>4, CarriesOne, CarriesConcat
  <2> QED BY <2>1 DEF Carries
<1> DEFINE p == <<put>> \o idx
<1> HIDE DEF p
<1>7. Len(p \o <<last>>) \in Nat \ {0} /\ (p \o <<last>>)[Len(p \o <<last>>)] = last
  <2>1. p \in Seq(W \cup {last}) /\ <<last>> \in Seq(W \cup {last})
    BY <1>6 DEF p
  <2> QED BY <2>1
<1> QED BY <1>1, <1>3, <1>5, <1>7 DEF p, mem

LEMMA StateCarries ==
    ASSUME NEW m, NEW o, NEW key, NEW value
    PROVE  /\ Carries(<<StoreState(m)>>, m)
           /\ Carries(<<Commit(StoreState(m), o)>>, m)
           /\ Carries(<<Flush(m)>>, m)
           /\ Carries(<<Write("iterations", key, value, m)>>, m)
<1>1. /\ StoreState(m).tree = "state" /\ StoreState(m).mem = m /\ IsWrite(StoreState(m))
      /\ Flush(m).tree = "flush" /\ Flush(m).mem = m
      /\ Write("iterations", key, value, m).tree = "iterations"
      /\ Write("iterations", key, value, m).mem = m
  BY WriteFields DEF StoreState, Flush
<1>2. Commit(StoreState(m), o).tree = "state" /\ Commit(StoreState(m), o).mem = m
  BY <1>1, CommitFields
<1> QED BY <1>1, <1>2, CarriesOne

\* What an entry of a seed file appends.
LEMMA CommitsCarries ==
    ASSUME NEW p, NEW m, Carries(p, m), Len(p) \in Nat \ {0}, IsWrite(p[Len(p)]),
           NEW q, NEW o, CommitsLast(q, p, o)
    PROVE  Carries(q, m)
<1>1. PICK W : p \in Seq(W) /\ \A w \in W : w.mem = m /\ w.tree # "wallets"
  BY DEF Carries
<1> DEFINE n == Len(p)
           w == Commit(p[n], o)
<1>2. n \in Nat \ {0} /\ n \in 1..n /\ p[n] \in W
  BY <1>1
<1>3. w.mem = m /\ w.tree # "wallets"
  BY <1>1, <1>2, CommitFields
<1>4. q = [p EXCEPT ![n] = w]
  BY Zenon DEF CommitsLast
<1> HIDE DEF w
<1>5. q \in Seq(W \cup {w})
  <2>1. p \in [1..n -> W]
    BY <1>1
  <2>2. q = [i \in 1..n |-> IF i = n THEN w ELSE p[i]]
    BY <1>4, <2>1
  <2> HIDE DEF n
  <2> QED BY <1>2, <2>1, <2>2
<1> QED BY <1>1, <1>3, <1>5 DEF Carries

\* The first write of a handler of users.
LEMMA PutSteady ==
    ASSUME NEW id, NEW wallet, BornAt(id, wallet), NEW m, NEW n, m.current_iteration = n
    PROVE  SteadyPlan(<<PutWallet(id, wallet, m)>>, n)
<1>1. /\ PutWallet(id, wallet, m).mem = m /\ PutWallet(id, wallet, m).key = id
      /\ PutWallet(id, wallet, m).value = wallet
  BY WriteFields DEF PutWallet
<1>2. Steady(PutWallet(id, wallet, m), n)
  BY <1>1 DEF Steady
<1> QED BY <1>2, SteadyOne

\* The handlers of users end alike.
LEMMA UserSteady ==
    ASSUME NEW p, NEW n, SteadyPlan(p, n),
           NEW mem, SystemOK(mem), mem.current_iteration = n,
           NEW tx, IsFiniteSet(WalletIds(tx)),
           NEW end, end.current_iteration = n, NEW o
    PROVE  SteadyPlan(p \o AppendTx(mem, tx) \o <<Commit(StoreState(end), o)>>, n)
<1> DEFINE app  == AppendTx(mem, tx)
           last == <<Commit(StoreState(end), o)>>
<1>1. SteadyPlan(app, n)
  <2>1. Carries(app, Ticked(mem, tx))
    BY AppendCarries
  <2>2. Ticked(mem, tx).current_iteration = n
    BY TickedSystem
  <2> QED BY <2>1, <2>2, CarriesSteady
<1>2. SteadyPlan(last, n)
  <2>1. Carries(last, end)
    BY StateCarries
  <2> QED BY <2>1, CarriesSteady
<1> HIDE DEF app, last
<1>3. SteadyPlan(p \o app \o last, n)
  BY <1>1, <1>2, SteadyConcat
<1> QED BY <1>3 DEF app, last

\* A user's wallet is none of the faucet's.
LEMMA UserBorn ==
    ASSUME NEW id \in Users, NEW wallet
    PROVE  BornAt(id, wallet)
BY DEF BornAt

\* A wallet that has been active since it was found.
LEMMA BornLater ==
    ASSUME AllBorn(wallets), WalletsOK(wallets), NEW id \in DOMAIN wallets,
           NEW wallet, wallet.last_active_iteration \in Nat,
           wallets[id].last_active_iteration <= wallet.last_active_iteration
    PROVE  BornAt(id, wallet)
<1>1. BornAt(id, wallets[id]) /\ wallets[id].last_active_iteration \in Nat
  BY DEF AllBorn, WalletsOK, WalletRecord
<1>2. id \in FaucetIds => id[2] \in Nat
  BY DEF FaucetIds
<1> QED BY <1>1, <1>2 DEF BornAt

LEMMA MintSteady ==
    ASSUME SystemOK(system), NEW id \in Users, NEW amount \in 0..MaxU64, NEW category
    PROVE  SteadyPlan(MintPlan(id, amount, category), system.current_iteration)
<1> DEFINE tx   == MintTx(id, amount, system.current_tick + 1, category)
           mem  == AfterCreate(system, amount)
           n    == system.current_iteration
           new  == NewWallet(amount, n)
           end  == Ticked(mem, tx)
           o    == CreateOverflows(system, amount)
<1>1. SystemOK(mem) /\ mem.current_iteration = n
  BY CreatedSystem DEF SameClock
<1>2. IsFiniteSet(WalletIds(tx))
  BY UserTxWallets
<1> HIDE DEF tx, mem, new
<1>3. end.current_iteration = n
  BY <1>1, TickedSystem
<1>4. SteadyPlan(<<PutWallet(id, new, system)>>, n)
  <2>1. BornAt(id, new)
    BY UserBorn
  <2> QED BY <2>1, PutSteady
<1> HIDE DEF end, o, n
<1>5. SteadyPlan(<<PutWallet(id, new, system)>> \o AppendTx(mem, tx)
                   \o <<Commit(StoreState(end), o)>>, n)
  BY <1>1, <1>2, <1>3, <1>4, UserSteady
<1> QED BY <1>5, Zenon DEF MintPlan, tx, mem, new, end, o, n

LEMMA ChargeSteady ==
    ASSUME NEW a, Begins(a), AllBorn(wallets), NEW id \in DOMAIN wallets, NEW amount \in Amounts
    PROVE  SteadyPlan(ChargePlan(id, amount), system.current_iteration)
<1> DEFINE tx     == MintTx(id, amount, system.current_tick + 1, "charge")
           supply == SatAdd(system.total_supply, amount)
           mem    == [system EXCEPT !.total_supply = SatAdd(@, amount)]
           wallet == [wallets[id] EXCEPT !.balance = SatAdd(@, amount)]
           n      == system.current_iteration
           end    == Ticked(mem, tx)
           o      == system.total_supply + amount > MaxU64
<1>1. /\ SystemOK(system) /\ amount \in Nat /\ WalletsOK(wallets)
      /\ wallets[id] \in WalletRecord(WalletId)
  <2>1. SystemOK(system) /\ amount \in Nat /\ WalletsOK(wallets)
    BY DEF Begins, Ready
  <2> QED BY <2>1, WalletsFound
<1>2. BornAt(id, wallet)
  <2>1. /\ wallet.last_active_iteration = wallets[id].last_active_iteration
        /\ wallets[id].last_active_iteration \in Nat
    BY <1>1 DEF WalletRecord
  <2> HIDE DEF wallet
  <2> QED BY <1>1, <2>1, BornLater
<1>3. SystemOK(mem) /\ mem.current_iteration = n
  <2>1. system.total_supply \in Nat
    BY <1>1, SystemFields
  <2>2. supply \in 0..MaxU64
    BY <1>1, <2>1, SatAddType
  <2>3. mem = [system EXCEPT !.total_supply = supply]
    BY <1>1 DEF SystemOK, SystemRecord
  <2> HIDE DEF supply
  <2> QED BY <1>1, <2>2, <2>3, SuppliedSystem DEF SameClock
<1>4. IsFiniteSet(WalletIds(tx))
  BY UserTxWallets
<1> HIDE DEF tx, mem, wallet
<1>5. end.current_iteration = n
  BY <1>3, TickedSystem
<1>6. SteadyPlan(<<PutWallet(id, wallet, system)>>, n)
  BY <1>2, PutSteady
<1> HIDE DEF end, o, n
<1>7. SteadyPlan(<<PutWallet(id, wallet, system)>> \o AppendTx(mem, tx)
                   \o <<Commit(StoreState(end), o)>>, n)
  BY <1>3, <1>4, <1>5, <1>6, UserSteady
<1> QED BY <1>7, Zenon DEF ChargePlan, tx, mem, wallet, end, o, n

\* The wallets a handler of users writes are active in the iteration it found.
LEMMA ActiveBorn ==
    ASSUME NEW a, Begins(a), AllBorn(wallets), NEW id \in DOMAIN wallets,
           NEW wallet, wallet.last_active_iteration = system.current_iteration
    PROVE  BornAt(id, wallet)
<1>1. SystemOK(system) /\ WalletsOK(wallets)
  BY DEF Begins, Ready
<1>2. system.current_iteration \in Nat
  BY <1>1, SystemFields
<1>3. wallets[id].last_active_iteration <= system.current_iteration
  BY WalletsFound
<1> QED BY <1>1, <1>2, <1>3, BornLater

LEMMA TransferSteady ==
    ASSUME NEW a, Begins(a), AllBorn(wallets), NEW from \in DOMAIN wallets,
           NEW to \in DOMAIN wallets, NEW amount \in Amounts, NEW nonce,
           wallets[from].balance >= amount
    PROVE  SteadyPlan(TransferPlan(from, to, amount, nonce), system.current_iteration)
<1> DEFINE tx   == TransferTx(from, to, amount, nonce)
           it   == system.current_iteration
           paid == Spent(wallets[from], amount, {to}, it)
           got  == Received(wallets[to], amount, from, it)
           end  == Activated(Ticked(system, tx), {from, to})
           o    == wallets[to].balance + amount > MaxU64
<1>1. /\ SystemOK(system) /\ amount \in 0..MaxU64 /\ it \in Nat
      /\ wallets[from] \in WalletRecord(WalletId) /\ from \in WalletId
      /\ wallets[to] \in WalletRecord(WalletId) /\ to \in WalletId
  <2>1. SystemOK(system) /\ amount \in 0..MaxU64
    BY DEF Begins, Ready
  <2>2. it \in Nat
    BY <2>1, SystemFields
  <2> QED BY <2>1, <2>2, WalletsFound
<1>2. BornAt(from, paid)
  <2>1. {to} \in SUBSET WalletId
    BY <1>1
  <2>2. paid.last_active_iteration = it
    BY <1>1, <2>1, SpentType
  <2> HIDE DEF paid
  <2> QED BY <2>2, ActiveBorn
<1>3. BornAt(to, got)
  <2>1. got.last_active_iteration = it
    <3> HIDE DEF it
    <3>1. Received(wallets[to], amount, from, it).last_active_iteration = it
      BY <1>1, ReceivedType
    <3> QED BY <3>1
  <2> HIDE DEF got
  <2> QED BY <2>1, ActiveBorn
<1>4. IsFiniteSet(WalletIds(tx)) /\ IsFiniteSet({from, to})
  <2>1. WalletIds(tx) = {from, to}
    BY DEF WalletIds, TransferTx
  <2>2. IsFiniteSet(WalletIds(tx))
    BY UserTxWallets
  <2> QED BY <2>1, <2>2
<1> HIDE DEF tx, paid, got
<1>5. end.current_iteration = it
  <2>1. SystemOK(Ticked(system, tx)) /\ Ticked(system, tx).current_iteration = it
    BY <1>1, TickedSystem
  <2>2. SameClock(end, Ticked(system, tx))
    BY <1>4, <2>1, ActivatedSystem DEF Begins
  <2> QED BY <2>1, <2>2 DEF SameClock
<1> DEFINE put  == PutWallet(from, paid, system)
           puts == PutWallet(to, got, system)
<1>6. SteadyPlan(<<put>>, it) /\ SteadyPlan(<<puts>>, it)
  BY <1>2, <1>3, PutSteady
<1> HIDE DEF put, puts, end, o
<1>7. SteadyPlan(<<put, puts>>, it)
  <2>1. SteadyPlan(<<put>> \o <<puts>>, it)
    BY <1>6, SteadyConcat
  <2> QED BY <2>1, PairOfWrites
<1>8. SteadyPlan(<<put, puts>> \o AppendTx(system, tx) \o <<Commit(StoreState(end), o)>>, it)
  BY <1>1, <1>4, <1>5, <1>7, UserSteady
<1>9. MoveCoins(from, to, amount) = <<put, puts>>
  BY Zenon DEF MoveCoins, put, puts, paid, got
<1> QED BY <1>8, <1>9, Zenon DEF TransferPlan, tx, end, o

LEMMA BurnSteady ==
    ASSUME NEW a, Begins(a), AllBorn(wallets), NEW from \in DOMAIN wallets,
           NEW amount \in Amounts, NEW nonce, wallets[from].balance >= amount
    PROVE  SteadyPlan(BurnPlan(from, amount, nonce), system.current_iteration)
<1> DEFINE tx     == BurnTx(from, amount, nonce)
           it     == system.current_iteration
           supply == SatSub(system.total_supply, amount)
           mem    == [system EXCEPT !.total_supply = SatSub(@, amount)]
           paid   == Spent(wallets[from], amount, {}, it)
           end    == Activated(Ticked(mem, tx), {from})
<1>1. /\ SystemOK(system) /\ amount \in 0..MaxU64 /\ it \in Nat
      /\ wallets[from] \in WalletRecord(WalletId) /\ from \in WalletId
  <2>1. SystemOK(system) /\ amount \in 0..MaxU64
    BY DEF Begins, Ready
  <2>2. it \in Nat
    BY <2>1, SystemFields
  <2> QED BY <2>1, <2>2, WalletsFound
<1>2. BornAt(from, paid)
  <2>1. {} \in SUBSET WalletId
    OBVIOUS
  <2>2. paid.last_active_iteration = it
    BY <1>1, <2>1, SpentType
  <2> HIDE DEF paid
  <2> QED BY <2>2, ActiveBorn
<1>3. SystemOK(mem) /\ mem.current_iteration = it
  <2>1. supply \in 0..MaxU64
    BY <1>1 DEF SystemOK, SystemRecord, SatSub
  <2>2. mem = [system EXCEPT !.total_supply = supply]
    BY <1>1 DEF SystemOK, SystemRecord
  <2> HIDE DEF supply
  <2> QED BY <1>1, <2>1, <2>2, SuppliedSystem DEF SameClock
<1>4. IsFiniteSet(WalletIds(tx)) /\ IsFiniteSet({from})
  BY UserTxWallets, FS_Singleton
<1> HIDE DEF tx, mem, paid
<1>5. end.current_iteration = it
  <2>1. SystemOK(Ticked(mem, tx)) /\ Ticked(mem, tx).current_iteration = it
    BY <1>3, TickedSystem
  <2>2. SameClock(end, Ticked(mem, tx))
    BY <1>4, <2>1, ActivatedSystem DEF Begins
  <2> QED BY <2>1, <2>2 DEF SameClock
<1>6. SteadyPlan(<<PutWallet(from, paid, system)>>, it)
  BY <1>2, PutSteady
<1> HIDE DEF end
<1>7. SteadyPlan(<<PutWallet(from, paid, system)>> \o AppendTx(mem, tx)
                   \o <<Commit(StoreState(end), FALSE)>>, it)
  BY <1>3, <1>4, <1>5, <1>6, UserSteady
<1> QED BY <1>7, Zenon DEF BurnPlan, tx, mem, paid, end

\* An entry of a seed file.
LEMMA EntrySteady ==
    ASSUME NEW a, Begins(a), NEW done, LoopInv(a, done), NEW n, n = system.current_iteration,
           SteadyPlan(done.writes, n),
           NEW e \in [id : Users \cup {BadKey}, amount : Amounts]
    PROVE  SteadyPlan(InstallEntry(done, e).writes, n)
<1> DEFINE tx     == MintTx(e.id, e.amount, done.mem.current_tick + 1, "seed_bootstrap")
           mem    == AfterCreate(done.mem, e.amount)
           app    == AppendTx(mem, tx)
           end    == Ticked(mem, tx)
           wallet == NewWallet(e.amount, system.current_iteration)
           put    == PutWallet(e.id, wallet, done.mem)
           over   == CreateOverflows(done.mem, e.amount)
           com    == [app EXCEPT ![Len(app)] = Commit(@, over)]
           ws     == done.writes \o <<put>> \o com
           new    == [mem |-> end, ids |-> done.ids \cup {e.id}, writes |-> ws, failed |-> FALSE]
<1>1. \/ InstallEntry(done, e) = done
      \/ InstallEntry(done, e) = [done EXCEPT !.failed = TRUE]
      \/ e.id # BadKey /\ InstallEntry(done, e) = new
  BY Zenon DEF InstallEntry
<1>2. [done EXCEPT !.failed = TRUE].writes = done.writes
  <2>1. PICK m, ids, v, f : done = [mem |-> m, ids |-> ids, writes |-> v, failed |-> f]
    BY DEF LoopInv
  <2> QED BY <2>1
<1>3. ASSUME e.id # BadKey PROVE SteadyPlan(ws, n)
  <2>1. e.id \in Users /\ e.amount \in 0..MaxU64
    BY <1>3
  <2>2. SystemOK(done.mem) /\ done.mem.current_iteration = n
    BY DEF LoopInv, Ready
  <2>3. SystemOK(mem) /\ mem.current_iteration = n
    BY <2>1, <2>2, CreatedSystem DEF SameClock
  <2>4. IsFiniteSet(WalletIds(tx))
    BY UserTxWallets
  <2>5. SteadyPlan(<<put>>, n)
    <3> HIDE DEF wallet
    <3>1. BornAt(e.id, wallet)
      BY <2>1, UserBorn
    <3> QED BY <2>2, <3>1, PutSteady
  <2> HIDE DEF tx, mem, put
  <2>6. Carries(app, end) /\ Len(app) \in Nat \ {0} /\ IsWrite(app[Len(app)])
    BY <2>4, AppendCarries
  <2>7. end.current_iteration = n
    BY <2>3, TickedSystem
  <2> HIDE DEF app, end, over
  <2>8. CommitsLast(com, app, over)
    BY Zenon DEF CommitsLast
  <2> HIDE DEF com
  <2>9. Carries(com, end)
    BY <2>6, <2>8, CommitsCarries
  <2>10. SteadyPlan(com, n)
    BY <2>7, <2>9, CarriesSteady
  <2> QED BY <2>5, <2>10, SteadyConcat
<1>4. new.writes = ws
  OBVIOUS
<1> HIDE DEF new, ws
<1> QED BY <1>1, <1>2, <1>3, <1>4

LEMMA LoopSteady ==
    ASSUME NEW a, Begins(a), NEW entries \in SeedFiles
    PROVE  /\ LoopInv(a, SeedLoop(entries))
           /\ SteadyPlan(SeedLoop(entries).writes, system.current_iteration)
<1> DEFINE k == Len(entries)
           it == system.current_iteration
           f == CHOOSE f : Loops(f, entries, k)
<1>1. k \in Nat /\ \A n \in 1..k : entries[n] \in [id : Users \cup {BadKey}, amount : Amounts]
  <2>1. PICK R : R = [id : Users \cup {BadKey}, amount : Amounts]
    OBVIOUS
  <2>2. entries \in Seq(R)
    BY <2>1, SeedFilesAssumption
  <2>3. Len(entries) \in Nat /\ \A n \in 1..Len(entries) : entries[n] \in R
    BY <2>2
  <2> QED BY <2>1, <2>3, Zenon
<1> HIDE DEF k
<1>2. Loops(f, entries, k)
  BY <1>1, LoopExists, Zenon
<1>3. SeedLoop(entries) = f[k]
  BY Zenon DEF SeedLoop, Loops, LoopStart, k
<1> HIDE DEF f
<1> DEFINE T == {n \in 0..k : LoopInv(a, f[n]) /\ SteadyPlan(f[n].writes, it)}
<1>4. 0 \in T
  <2>1. f[0] = LoopStart
    BY <1>1, <1>2, LoopUnfolds
  <2>2. /\ f[0].mem = system /\ f[0].writes = << >>
        /\ f[0] = [mem |-> f[0].mem, ids |-> f[0].ids, writes |-> f[0].writes,
                   failed |-> f[0].failed]
    BY <2>1 DEF LoopStart
  <2>3. Path(a, << >>, a) /\ Ready(a, system) /\ Agrees(a, system) /\ ~system.iteration_lock
    BY PathEmpty DEF Begins
  <2>4. LoopInv(a, f[0])
    BY <2>2, <2>3 DEF LoopInv
  <2>5. SteadyPlan(f[0].writes, it)
    BY <2>2, SteadyEmpty
  <2> QED BY <1>1, <2>4, <2>5
<1>5. \A n \in 0..(k - 1) : n \in T => n + 1 \in T
  <2> SUFFICES ASSUME NEW n \in 0..(k - 1), n \in T PROVE n + 1 \in T
    OBVIOUS
  <2>1. n + 1 \in 1..k /\ n + 1 \in 0..k /\ (n + 1) - 1 = n
    BY <1>1
  <2>2. f[n + 1] = InstallEntry(f[n], entries[n + 1])
    BY <1>1, <1>2, <2>1, LoopUnfolds
  <2>3. LoopInv(a, f[n + 1])
    BY <1>1, <2>1, <2>2, EntryKeepsLoop
  <2>4. SteadyPlan(f[n + 1].writes, it)
    <3> DEFINE e == entries[n + 1]
               done == f[n]
    <3>1. e \in [id : Users \cup {BadKey}, amount : Amounts]
      BY <1>1, <2>1
    <3>2. LoopInv(a, done) /\ SteadyPlan(done.writes, it) /\ it = system.current_iteration
      OBVIOUS
    <3> HIDE DEF e, done, it, T
    <3>3. SteadyPlan(InstallEntry(done, e).writes, it)
      BY <3>1, <3>2, EntrySteady
    <3> QED BY <2>2, <3>3 DEF e, done
  <2> QED BY <2>1, <2>3, <2>4
<1>6. 0..k \subseteq T
  <2> HIDE DEF T
  <2> QED BY <1>1, <1>4, <1>5, IntervalInduction
<1> QED BY <1>1, <1>3, <1>6

LEMMA SeedSteady ==
    ASSUME NEW a, Begins(a), NEW entries \in SeedFiles
    PROVE  SteadyPlan(SeedPlan(entries), system.current_iteration)
<1> DEFINE done == SeedLoop(entries)
           ws   == done.writes
           m    == done.mem
           it   == system.current_iteration
           put  == StoreState(m)
           last == Flush(m)
<1>1. SteadyPlan(ws, it) /\ m.current_iteration = it
  BY LoopSteady DEF LoopInv
<1>2. SteadyPlan(<<put, last>>, it)
  <2>1. Carries(<<put>>, m) /\ Carries(<<last>>, m)
    BY StateCarries
  <2>2. SteadyPlan(<<put>>, it) /\ SteadyPlan(<<last>>, it)
    BY <1>1, <2>1, CarriesSteady
  <2> HIDE DEF put, last
  <2>3. SteadyPlan(<<put>> \o <<last>>, it)
    BY <2>2, SteadyConcat
  <2> QED BY <2>3, PairOfWrites
<1> HIDE DEF ws, put, last
<1>3. SteadyPlan(ws \o <<put, last>>, it)
  BY <1>1, <1>2, SteadyConcat
<1>4. SeedPlan(entries) = ws \/ SeedPlan(entries) = ws \o <<put, last>>
  BY Zenon DEF SeedPlan, ws, put, last
<1> QED BY <1>1, <1>3, <1>4

-----------------------------------------------------------------------------
(* The plan of an iteration.                                               *)

\* The counters that an iteration commits.
LEMMA CommittedCounts ==
    ASSUME NEW sys, SystemOK(sys), NEW r, NEW tx
    PROVE  /\ Ticked(Committed(Locked(sys), r), tx).total_supply = r.commit.post_supply
           /\ Ticked(Committed(Locked(sys), r), tx).n_wallets = r.n_wallets
           /\ Ticked(Committed(Locked(sys), r), tx).current_iteration = r.commit.iteration_id
<1> DEFINE l == Locked(sys)
           c == Committed(l, r)
           m == Ticked(c, tx)
<1>1. l \in SystemRecord({l.last_poh_hash})
  BY LockedSystem DEF SystemOK
<1> HIDE DEF l
<1>2. PICK D : /\ DOMAIN l = D /\ l = [f \in D |-> l[f]]
               /\ {"total_supply", "n_wallets", "current_iteration"} \subseteq D
  BY <1>1 DEF SystemRecord
<1>3. PICK yes, no, b1, b2, b3, b4, b5, b6, b7, b8 :
         /\ yes = TRUE /\ no = FALSE
         /\ b1 = r.commit.post_supply /\ b2 = r.n_wallets /\ b3 = Cardinality(r.commit.new_wallets)
         /\ b4 = r.commit.iteration_id /\ b5 = l.current_tick /\ b6 = r.commit.snapshot_supply
         /\ b7 = r.commit.post_supply /\ b8 = r.commit.inflation
  OBVIOUS
<1>4. Overwrites(c, l, b1, b2, b3, b4, b5, b6, b7, b8, no)
  BY <1>3, Zenon DEF Committed, Overwrites
<1> HIDE DEF c
<1>5. /\ DOMAIN c = D /\ c = [f \in D |-> c[f]]
      /\ c.total_supply = b1 /\ c.n_wallets = b2 /\ c.current_iteration = b4
  BY <1>2, <1>4 DEF Overwrites
<1>6. PICK t, h : SetsClock(m, c, t, h)
  <2>1. m = [c EXCEPT !.current_tick = @ + 1, !.last_poh_hash = NextEntry(c, tx).hash]
    BY Zenon DEF Ticked
  <2>2. m = [c EXCEPT !.current_tick = c.current_tick + 1,
                      !.last_poh_hash = NextEntry(c, tx).hash]
    BY <1>5, <2>1
  <2> QED BY <2>2 DEF SetsClock
<1> HIDE DEF m
<1>7. /\ m.total_supply = c.total_supply /\ m.n_wallets = c.n_wallets
      /\ m.current_iteration = c.current_iteration
  BY <1>2, <1>5, <1>6 DEF SetsClock
<1> QED BY <1>3, <1>5, <1>7 DEF m, c, l

\* The wallets an iteration writes, after the lock.
LEMMA PutsRewrite ==
    ASSUME NEW S, NEW ids \in Seq(S), NEW new, new = [id \in DOMAIN new |-> new[id]],
           NEW ws, DOMAIN ws \subseteq DOMAIN new, AllBorn(new),
           NEW locked, NEW n, locked.current_iteration = n,
           \A i \in 1..Len(ids) : ids[i] \in DOMAIN new,
           \A id \in DOMAIN new : \E i \in 1..Len(ids) : ids[i] = id,
           NEW puts, WalletPuts(puts, ids, new, locked)
    PROVE  Rewrites(<<StoreState(locked)>> \o puts, n, ws, new)
<1> DEFINE lock == StoreState(locked)
           k    == Len(ids)
           V    == {puts[i] : i \in 1..k}
           W    == V \cup {lock}
           p    == <<lock>> \o puts
<1>1. k \in Nat
  OBVIOUS
<1>2. /\ puts \in Seq(V) /\ Len(puts) = k
      /\ \A i \in 1..k : puts[i] = PutWallet(ids[i], new[ids[i]], locked)
  BY <1>1 DEF WalletPuts
<1>3. lock.tree = "state" /\ lock.mem = locked
  BY WriteFields DEF StoreState
<1>4. \A i \in 1..k : /\ puts[i].tree = "wallets" /\ puts[i].key = ids[i]
                      /\ puts[i].value = new[ids[i]] /\ puts[i].mem = locked
  <2> TAKE i \in 1..k
  <2> DEFINE id == ids[i]
             wallet == new[id]
  <2>1. puts[i] = Write("wallets", id, wallet, locked)
    BY <1>2 DEF PutWallet
  <2> HIDE DEF id, wallet, k, lock
  <2>2. /\ puts[i].tree = "wallets" /\ puts[i].key = id /\ puts[i].value = wallet
        /\ puts[i].mem = locked
    BY <2>1, WriteFields
  <2> QED BY <2>2 DEF id, wallet
<1> HIDE DEF lock, k
<1>5. p \in Seq(W) /\ Len(p) = k + 1 /\ \A i \in 1..k : p[i + 1] = puts[i] /\ i + 1 \in 1..(k + 1)
  <2>1. <<lock>> \in Seq(W) /\ puts \in Seq(W)
    BY <1>2
  <2> HIDE DEF W, V
  <2> QED BY <1>1, <1>2, <2>1
<1>6. \A w \in W : /\ Steady(w, n)
                   /\ w.tree = "wallets" => w.key \in DOMAIN new /\ w.value = new[w.key]
  <2> SUFFICES ASSUME NEW w \in W
               PROVE  /\ Steady(w, n)
                      /\ w.tree = "wallets" => w.key \in DOMAIN new /\ w.value = new[w.key]
    OBVIOUS
  <2>1. CASE w = lock
    BY <1>3, <2>1 DEF Steady
  <2>2. CASE w # lock
    <3>1. PICK i \in 1..k : w = puts[i]
      BY <2>2
    <3>2. /\ w.tree = "wallets" /\ w.key = ids[i] /\ w.value = new[ids[i]] /\ w.mem = locked
          /\ ids[i] \in DOMAIN new
      BY <1>4, <3>1 DEF k
    <3>3. BornAt(ids[i], new[ids[i]])
      BY <3>2 DEF AllBorn
    <3> QED BY <3>2, <3>3 DEF Steady
  <2> QED BY <2>1, <2>2
<1>7. \A id \in DOMAIN new : \E i \in 1..Len(p) : p[i].tree = "wallets" /\ p[i].key = id
  <2> SUFFICES ASSUME NEW id \in DOMAIN new
               PROVE  \E i \in 1..Len(p) : p[i].tree = "wallets" /\ p[i].key = id
    OBVIOUS
  <2>1. PICK i \in 1..k : ids[i] = id
    BY DEF k
  <2>2. p[i + 1].tree = "wallets" /\ p[i + 1].key = id /\ i + 1 \in 1..Len(p)
    BY <1>4, <1>5, <2>1
  <2> QED BY <2>2
<1> HIDE DEF W, p
<1> QED BY <1>5, <1>6, <1>7 DEF Rewrites, p, lock

\* An iteration that does not panic: the lock and every wallet under the iteration it found, then
\* the commit, the state and the flush under the next one.
LEMMA IterationRewrites ==
    ASSUME NEW a, Begins(a), AllBorn(wallets), NEW p \in Parameters, NEW first
    PROVE  \E q, t, new : /\ IterationWrites(p, first) = q \o t
                          /\ Rewrites(q, system.current_iteration, wallets, new)
                          /\ Closes(t, system.current_iteration + 1, new)
<1> DEFINE r      == ExecuteIteration(wallets, p, system, first)
           D      == DOMAIN wallets
           it     == system.current_iteration
           next   == it + 1
           locked == Locked(system)
           mem    == Committed(locked, r)
           F      == r.commit.new_wallets
           new    == r.wallets
           commit == r.commit
           end    == Ticked(mem, commit)
           o      == IterationOverflows(r)
           ids    == InSomeOrder(D) \o InSomeOrder(F)
           puts   == [i \in 1..Len(ids) |-> PutWallet(ids[i], new[ids[i]], locked)]
           app    == AppendTx(mem, commit)
           fin    == FinishIteration(end, commit, o)
<1>1. /\ SystemOK(system) /\ WalletsOK(wallets) /\ IsFiniteSet(D) /\ D \subseteq WalletId
      /\ wallets \in [D -> WalletRecord(WalletId)]
      /\ system.current_iteration \in Nat
      /\ system.previous_iteration_supply \in Nat
      /\ system.previous_iteration_start_supply \in Nat
  <2>1. SystemOK(system)
    BY DEF Begins, Ready
  <2> QED BY <2>1, SystemFields DEF Begins, WalletsOK
<1>2. \A w \in D : /\ wallets[w].last_active_iteration \in Nat
                   /\ wallets[w].last_active_iteration <= it
                   /\ BornAt(w, wallets[w])
  BY <1>1, WalletsFound DEF AllBorn, WalletRecord
<1>3. \A idx \in Nat : FaucetId(system.current_iteration + 1, idx) \notin D
  <2> SUFFICES ASSUME NEW idx \in Nat, FaucetId(next, idx) \in D PROVE FALSE
    OBVIOUS
  <2> DEFINE w == FaucetId(next, idx)
  <2>1. next \in Nat
    BY <1>1
  <2>2. w \in FaucetIds /\ w[2] = next
    <3> HIDE DEF next
    <3> QED BY <2>1 DEF FaucetId, FaucetIds
  <2> HIDE DEF w
  <2>3. w \in D
    BY DEF w
  <2> QED BY <1>1, <1>2, <2>2, <2>3 DEF BornAt
<1> HIDE DEF D
<1>4. /\ IsFiniteSet(F) /\ F \subseteq FaucetIds /\ D \cap F = {}
      /\ F = FreshIds(next, PlannedNewWallets(p, Cardinality(D)))
      /\ new \in [D \cup F -> WalletRecord(WalletId)]
      /\ \A w \in D : new[w].last_active_iteration = wallets[w].last_active_iteration
      /\ \A w \in F : new[w] = NewWallet(p.seed, next)
      /\ r.n_wallets = Cardinality(D \cup F)
      /\ commit.iteration_id = next
      /\ commit.post_supply = Total(Balances(new)) % (MaxU64 + 1)
  <2>1. LET e == ExecuteIteration(wallets, p, system, first)
            K == e.commit.new_wallets
        IN  /\ IsFiniteSet(K) /\ K \subseteq FaucetIds /\ D \cap K = {}
            /\ K = FreshIds(system.current_iteration + 1, PlannedNewWallets(p, Cardinality(D)))
            /\ e.wallets \in [D \cup K -> WalletRecord(WalletId)]
            /\ \A w \in D : /\ e.wallets[w].nonce = wallets[w].nonce
                            /\ e.wallets[w].last_active_iteration = wallets[w].last_active_iteration
            /\ \A w \in K : e.wallets[w] = NewWallet(p.seed, system.current_iteration + 1)
            /\ e.n_wallets = Cardinality(D \cup K)
            /\ e.commit.iteration_id = system.current_iteration + 1
            /\ e.commit.inflation \in Int
            /\ e.commit.snapshot_supply \in 0..MaxU64
            /\ e.commit.post_supply = Total(Balances(e.wallets)) % (MaxU64 + 1)
            /\ Total(Balances(e.wallets)) \in Nat
    BY <1>1, <1>3, IterationFacts, Zenon
  <2> QED BY <2>1, Zenon
<1>5. /\ DOMAIN commit.penalties = D /\ commit.kind = "iteration_commit"
  <2>1. PICK paid : IterationReturns(r, D, WalletId, wallets, p, system, paid)
    BY <1>1, IterationShape
  <2> HIDE DEF r
  <2> QED BY <2>1, Zenon DEF IterationReturns
<1>6. /\ end.total_supply = commit.post_supply /\ end.n_wallets = r.n_wallets
      /\ end.current_iteration = commit.iteration_id
  BY <1>1, CommittedCounts
<1>7. locked.current_iteration = it
  BY <1>1, LockedSystem
<1>8. ids \in Seq(D \cup F) /\ \A x \in D \cup F : \E i \in 1..Len(ids) : ids[i] = x
  <2> DEFINE s == InSomeOrder(D)
             u == InSomeOrder(F)
  <2>1. s \in Seq(D) /\ u \in Seq(F)
    BY <1>1, <1>4, Listing DEF D
  <2>2. /\ \A x \in D : \E i \in 1..Len(s) : s[i] = x
        /\ \A x \in F : \E i \in 1..Len(u) : u[i] = x
    BY <1>1, <1>4, ListsAll DEF D
  <2> HIDE DEF s, u, F
  <2>3. s \in Seq(D \cup F) /\ u \in Seq(D \cup F)
    BY <2>1
  <2>4. /\ s \o u \in Seq(D \cup F) /\ Len(s \o u) = Len(s) + Len(u)
        /\ \A i \in 1..Len(s) : (s \o u)[i] = s[i] /\ i \in 1..(Len(s) + Len(u))
        /\ \A i \in 1..Len(u) : (s \o u)[Len(s) + i] = u[i] /\ Len(s) + i \in 1..(Len(s) + Len(u))
    BY <2>3
  <2>5. \A x \in D \cup F : \E i \in 1..Len(s \o u) : (s \o u)[i] = x
    BY <2>2, <2>4
  <2> QED BY <2>4, <2>5 DEF s, u
<1>9. AllBorn(new)
  <2> SUFFICES ASSUME NEW w \in D \cup F PROVE BornAt(w, new[w])
    BY <1>4 DEF AllBorn
  <2>1. CASE w \in D
    BY <1>2, <1>4, <2>1 DEF BornAt
  <2>2. CASE w \in F
    <3>1. w[2] = next
      <4> DEFINE planned == PlannedNewWallets(p, Cardinality(D))
      <4> HIDE DEF planned, F, next
      <4>1. PICK idx \in 0..(planned - 1) : w = FaucetId(next, idx)
        BY <1>4, <2>2 DEF FreshIds, planned
      <4> QED BY <4>1 DEF FaucetId
    <3>2. new[w].last_active_iteration = next
      BY <1>4, <2>2 DEF NewWallet
    <3> QED BY <1>1, <3>1, <3>2 DEF BornAt
  <2> QED BY <2>1, <2>2
<1>10. IsFiniteSet(WalletIds(commit))
  <2>1. WalletIds(commit) = D \cup F
    BY <1>5 DEF WalletIds
  <2>2. IsFiniteSet(D \cup F)
    BY <1>1, <1>4, FS_Union DEF D
  <2> QED BY <2>1, <2>2
<1>11. Sound(end, new) /\ end.current_iteration = next
  <2>1. DOMAIN new = D \cup F
    BY <1>4
  <2> QED BY <1>4, <1>6, <2>1 DEF Sound
<1>12. Carries(app \o fin, end) /\ app \o fin # << >>
  <2>1. Carries(app, end) /\ Len(app) \in Nat \ {0}
    BY <1>10, AppendCarries
  <2>2. Carries(fin, end)
    <3> DEFINE x == Write("iterations", commit.iteration_id, commit, end)
               y == Commit(StoreState(end), o)
               z == Flush(end)
    <3>1. Carries(<<x>>, end) /\ Carries(<<y>>, end) /\ Carries(<<z>>, end)
      BY StateCarries
    <3>2. fin = <<x, y, z>>
      BY Zenon DEF FinishIteration
    <3> HIDE DEF x, y, z, fin, end
    <3>3. Carries(<<x>> \o <<y>> \o <<z>>, end)
      BY <3>1, CarriesConcat
    <3> QED BY <3>2, <3>3, ThreeWrites
  <2> HIDE DEF app, fin, end
  <2>3. Carries(app \o fin, end)
    BY <2>1, <2>2, CarriesConcat
  <2>4. app \o fin # << >>
    <3>1. PICK V : app \in Seq(V)
      BY <2>1 DEF Carries
    <3>2. PICK W : fin \in Seq(W)
      BY <2>2 DEF Carries
    <3>3. app \in Seq(V \cup W) /\ fin \in Seq(V \cup W)
      BY <3>1, <3>2
    <3>4. Len(app \o fin) = Len(app) + Len(fin) /\ Len(fin) \in Nat
      BY <3>3
    <3> QED BY <2>1, <3>4
  <2> QED BY <2>3, <2>4
<1>13. Closes(app \o fin, next, new)
  <2> HIDE DEF app, fin, end, next, new
  <2> QED BY <1>11, <1>12 DEF Closes
<1> DEFINE q == <<StoreState(locked)>> \o puts
<1>14. Rewrites(q, it, wallets, new)
  <2>1. WalletPuts(puts, ids, new, locked)
    BY Zenon DEF WalletPuts
  <2>2. /\ new = [id \in DOMAIN new |-> new[id]] /\ DOMAIN new = D \cup F
        /\ DOMAIN wallets \subseteq DOMAIN new
    BY <1>4 DEF D
  <2>3. \A i \in 1..Len(ids) : ids[i] \in DOMAIN new
    <3> HIDE DEF ids, new, F
    <3> QED BY <1>8, <2>2
  <2>4. \A id \in DOMAIN new : \E i \in 1..Len(ids) : ids[i] = id
    <3> HIDE DEF ids, new, F
    <3> QED BY <1>8, <2>2
  <2> HIDE DEF ids, new, F, puts, locked, it
  <2> QED BY <1>7, <1>8, <1>9, <2>1, <2>2, <2>3, <2>4, PutsRewrite
<1>15. IterationWrites(p, first) = q \o (app \o fin)
  <2>1. IterationWrites(p, first) = (q \o app) \o fin
    BY Zenon DEF IterationWrites, TakeLock, D, r, locked, mem, ids
  <2> HIDE DEF app, fin, q, end
  <2>2. PICK V : q \in Seq(V)
    BY <1>14 DEF Rewrites
  <2>3. PICK W : app \in Seq(W)
    <3>1. Carries(app, end)
      BY <1>10, AppendCarries DEF app, end
    <3> QED BY <3>1 DEF Carries
  <2>4. PICK X : fin \in Seq(X)
    <3> DEFINE x == Write("iterations", commit.iteration_id, commit, end)
               y == Commit(StoreState(end), o)
               z == Flush(end)
    <3>1. fin = <<x, y, z>>
      BY Zenon DEF FinishIteration, fin
    <3> HIDE DEF x, y, z
    <3>2. fin \in Seq({x, y, z})
      BY <3>1
    <3> QED BY <3>2
  <2>5. PICK Y : Y = V \cup W \cup X
    OBVIOUS
  <2>6. q \in Seq(Y) /\ app \in Seq(Y) /\ fin \in Seq(Y)
    BY <2>2, <2>3, <2>4, <2>5
  <2> QED BY <2>1, <2>6, ConcatAssociative
<1> HIDE DEF q, app, fin, new
<1> QED BY <1>13, <1>14, <1>15 DEF it, next

LEMMA IterationRestores ==
    ASSUME NEW a, Begins(a), AllBorn(wallets), NEW p \in Parameters, NEW first
    PROVE  Restores(IterationPlan(p, first), wallets, system.current_iteration)
<1>1. CASE ~Panics(p)
  <2>1. IterationPlan(p, first) = IterationWrites(p, first)
    BY <1>1 DEF IterationPlan
  <2> QED BY <2>1, IterationRewrites DEF Restores
<1>2. CASE Panics(p)
  <2> DEFINE locked == Locked(system)
             it == system.current_iteration
  <2>1. locked.current_iteration = it
    BY LockedSystem DEF Begins, Ready
  <2>2. Carries(<<StoreState(locked)>>, locked)
    BY StateCarries
  <2> HIDE DEF locked, it
  <2>3. SteadyPlan(<<StoreState(locked)>>, it)
    BY <2>1, <2>2, CarriesSteady
  <2>4. IterationPlan(p, first) = <<StoreState(locked)>>
    BY <1>2 DEF IterationPlan, TakeLock, locked
  <2> QED BY <2>3, <2>4 DEF Restores, it
<1> QED BY <1>1, <1>2

-----------------------------------------------------------------------------
(* The steps of the node.                                                  *)

\* DoWrite, for the wallets.
Rewritten(ws, w) == IF w.tree = "wallets" THEN Put(ws, w.key, w.value) ELSE ws

\* The next write that replaces wallets leaves one less to replace.
LEMMA RewritesTail ==
    ASSUME NEW p, p # << >>, NEW n, NEW ws, NEW new, Rewrites(p, n, ws, new)
    PROVE  /\ Steady(Head(p), n)
           /\ Rewrites(Tail(p), n, Rewritten(ws, Head(p)), new)
<1> DEFINE w == Head(p)
           t == Tail(p)
           k == Len(p)
           v == Rewritten(ws, w)
<1>1. PICK W : /\ p \in Seq(W)
               /\ \A x \in W : /\ Steady(x, n)
                               /\ x.tree = "wallets" => x.key \in DOMAIN new /\ x.value = new[x.key]
  BY DEF Rewrites
<1>2. /\ DOMAIN ws \subseteq DOMAIN new
      /\ new = [id \in DOMAIN new |-> new[id]]
      /\ \A id \in DOMAIN new : \/ id \in DOMAIN ws /\ ws[id] = new[id]
                                \/ \E i \in 1..Len(p) : p[i].tree = "wallets" /\ p[i].key = id
  BY DEF Rewrites
<1>3. /\ k \in Nat \ {0} /\ w \in W /\ w = p[1]
      /\ t \in Seq(W) /\ Len(t) = k - 1 /\ \A i \in 1..(k - 1) : t[i] = p[i + 1]
  BY <1>1
<1>4. Steady(w, n) /\ (w.tree = "wallets" => w.key \in DOMAIN new /\ w.value = new[w.key])
  BY <1>1, <1>3
<1> HIDE DEF w, t
<1>5. /\ DOMAIN v \subseteq DOMAIN new
      /\ \A id \in DOMAIN ws : ws[id] = new[id] => id \in DOMAIN v /\ v[id] = new[id]
      /\ w.tree = "wallets" => w.key \in DOMAIN v /\ v[w.key] = new[w.key]
  <2>1. CASE w.tree = "wallets"
    <3>1. v = [id \in DOMAIN ws \cup {w.key} |-> IF id = w.key THEN w.value ELSE ws[id]]
      BY <2>1 DEF Rewritten, Put
    <3> HIDE DEF v
    <3> QED BY <1>2, <1>4, <2>1, <3>1
  <2>2. CASE w.tree # "wallets"
    BY <1>2, <2>2 DEF Rewritten
  <2> QED BY <2>1, <2>2
<1> HIDE DEF v
<1>6. ASSUME NEW id \in DOMAIN new
      PROVE  \/ id \in DOMAIN v /\ v[id] = new[id]
             \/ \E i \in 1..Len(t) : t[i].tree = "wallets" /\ t[i].key = id
  <2>1. CASE id \in DOMAIN ws /\ ws[id] = new[id]
    BY <1>5, <2>1
  <2>2. ASSUME NEW i \in 1..k, p[i].tree = "wallets", p[i].key = id
        PROVE  \/ id \in DOMAIN v /\ v[id] = new[id]
               \/ \E j \in 1..Len(t) : t[j].tree = "wallets" /\ t[j].key = id
    <3>1. CASE i = 1
      BY <1>3, <1>5, <2>2, <3>1
    <3>2. CASE i # 1
      <4>1. i - 1 \in 1..(k - 1) /\ (i - 1) + 1 = i
        BY <1>3, <3>2
      <4>2. t[i - 1] = p[i] /\ i - 1 \in 1..Len(t)
        BY <1>3, <4>1
      <4> QED BY <2>2, <4>2
    <3> QED BY <3>1, <3>2
  <2> QED BY <1>2, <2>1, <2>2
<1>7. Rewrites(t, n, v, new)
  BY <1>1, <1>2, <1>3, <1>5, <1>6 DEF Rewrites
<1> QED BY <1>4, <1>7 DEF w, t, v

\* The elements of a concatenation.
LEMMA ConcatElements ==
    ASSUME NEW S, NEW q \in Seq(S), NEW r \in Seq(S)
    PROVE  /\ q \o r \in Seq(S) /\ Len(q \o r) = Len(q) + Len(r)
           /\ \A i \in 1..Len(q) : (q \o r)[i] = q[i]
           /\ \A i \in (Len(q) + 1)..(Len(q) + Len(r)) : (q \o r)[i] = r[i - Len(q)]
OBVIOUS

\* The elements of a tail.
LEMMA TailElements ==
    ASSUME NEW S, NEW q \in Seq(S), q # << >>
    PROVE  /\ Len(q) \in Nat \ {0} /\ Tail(q) \in Seq(S) /\ Len(Tail(q)) = Len(q) - 1
           /\ \A i \in 1..(Len(q) - 1) : Tail(q)[i] = q[i + 1]
OBVIOUS

\* The first of two plans, if there is one, begins their concatenation.
LEMMA HeadOfConcat ==
    ASSUME NEW S, NEW q \in Seq(S), NEW r \in Seq(S), q # << >>
    PROVE  Head(q \o r) = Head(q) /\ Tail(q \o r) = Tail(q) \o r
<1> DEFINE u == q \o r
           v == Tail(q)
           s == Tail(u)
           t == v \o r
<1>1. PICK m, n : m = Len(q) /\ n = Len(r)
  OBVIOUS
<1>2. m \in Nat \ {0} /\ n \in Nat
  BY <1>1
<1>3. /\ u \in Seq(S) /\ Len(u) = m + n
      /\ \A i \in 1..m : u[i] = q[i]
      /\ \A i \in (m + 1)..(m + n) : u[i] = r[i - m]
  BY <1>1, ConcatElements
<1>4. v \in Seq(S) /\ Len(v) = m - 1 /\ \A i \in 1..(m - 1) : v[i] = q[i + 1]
  BY <1>1, TailElements
<1> HIDE DEF u, v
<1>5. /\ t \in Seq(S) /\ Len(t) = Len(v) + n
      /\ \A i \in 1..Len(v) : t[i] = v[i]
      /\ \A i \in (Len(v) + 1)..(Len(v) + n) : t[i] = r[i - Len(v)]
  <2>1. v \in Seq(S)
    BY <1>4
  <2>2. /\ t \in Seq(S) /\ Len(t) = Len(v) + Len(r)
        /\ \A i \in 1..Len(v) : t[i] = v[i]
        /\ \A i \in (Len(v) + 1)..(Len(v) + Len(r)) : t[i] = r[i - Len(v)]
    BY ONLY <2>1, r \in Seq(S), ConcatElements
  <2> HIDE DEF t
  <2> QED BY <1>1, <2>2
<1>6. u # << >>
  BY <1>2, <1>3
<1>7. s \in Seq(S) /\ Len(s) = Len(u) - 1 /\ \A i \in 1..(Len(u) - 1) : s[i] = u[i + 1]
  BY <1>3, <1>6, TailElements
<1>8. Head(u) = Head(q)
  BY <1>1, <1>2, <1>3, <1>6
<1> HIDE DEF s, t
<1>9. Len(s) = m + n - 1 /\ Len(t) = m + n - 1
  BY <1>2, <1>3, <1>4, <1>5, <1>7
<1>10. ASSUME NEW i \in 1..(m + n - 1) PROVE s[i] = t[i]
  <2>1. s[i] = u[i + 1]
    BY <1>2, <1>3, <1>7
  <2>2. CASE i <= m - 1
    <3>1. i \in 1..(m - 1) /\ i \in 1..Len(v) /\ i + 1 \in 1..m
      BY <1>2, <1>4, <2>2
    <3> QED BY <1>3, <1>4, <1>5, <2>1, <3>1
  <2>3. CASE i > m - 1
    <3>1. /\ i + 1 \in (m + 1)..(m + n) /\ i \in (Len(v) + 1)..(Len(v) + n)
          /\ (i + 1) - m = i - Len(v)
      BY <1>2, <1>4, <2>3
    <3> QED BY <1>3, <1>5, <2>1, <3>1
  <2> QED BY <1>2, <2>2, <2>3
<1>11. s = t
  BY <1>5, <1>7, <1>9, <1>10, SeqEqual
<1> QED BY <1>8, <1>11 DEF u, v, s, t

\* The next write: what follows restores the books as well, and the first write under the next
\* iteration finds the wallets it counts.
LEMMA RestoresHead ==
    ASSUME NEW p, p # << >>, NEW n \in Nat, NEW ws, ws = [id \in DOMAIN ws |-> ws[id]],
           Restores(p, ws, n), NEW w, w = Head(p), NEW m, m = w.mem.current_iteration
    PROVE  /\ Restores(Tail(p), Rewritten(ws, w), m)
           /\ m = n \/ m = n + 1
           /\ w.tree = "wallets" => BornAt(w.key, w.value)
           /\ m # n => w.tree # "wallets" /\ Sound(w.mem, ws)
<1>1. CASE SteadyPlan(p, n)
  <2>1. PICK W : p \in Seq(W) /\ \A x \in W : Steady(x, n)
    BY <1>1 DEF SteadyPlan
  <2>2. w \in W /\ Tail(p) \in Seq(W)
    BY <2>1
  <2>3. Steady(w, n) /\ SteadyPlan(Tail(p), n)
    BY <2>1, <2>2 DEF SteadyPlan
  <2> QED BY <2>3 DEF Restores, Steady
<1>2. ASSUME NEW q, NEW r, NEW new, p = q \o r, Rewrites(q, n, ws, new), Closes(r, n + 1, new)
      PROVE  /\ Restores(Tail(p), Rewritten(ws, w), m)
             /\ m = n \/ m = n + 1
             /\ w.tree = "wallets" => BornAt(w.key, w.value)
             /\ m # n => w.tree # "wallets" /\ Sound(w.mem, ws)
  <2>1. PICK V : q \in Seq(V)
    BY <1>2 DEF Rewrites
  <2>2. PICK mem : Carries(r, mem) /\ mem.current_iteration = n + 1 /\ Sound(mem, new) /\ r # << >>
    BY <1>2 DEF Closes
  <2>3. PICK W : r \in Seq(W) /\ \A x \in W : x.mem = mem /\ x.tree # "wallets"
    BY <2>2 DEF Carries
  <2>4. CASE q = << >>
    <3>1. p = r
      BY <1>2, <2>3, <2>4
    <3>2. \A id \in DOMAIN new : id \in DOMAIN ws /\ ws[id] = new[id]
      <4>1. Len(q) = 0
        BY <2>4
      <4>2. ~\E i \in 1..Len(q) : TRUE
        BY <4>1
      <4> QED BY <1>2, <4>2 DEF Rewrites
    <3>3. ws = new
      <4>1. DOMAIN ws \subseteq DOMAIN new /\ new = [id \in DOMAIN new |-> new[id]]
        BY <1>2 DEF Rewrites
      <4>2. DOMAIN ws = DOMAIN new
        BY <3>2, <4>1
      <4> QED BY <3>2, <4>1, <4>2
    <3>4. w \in W /\ Tail(r) \in Seq(W)
      BY <2>2, <2>3, <3>1
    <3>5. w.mem = mem /\ w.tree # "wallets" /\ m = n + 1
      BY <2>2, <2>3, <3>4
    <3>6. Carries(Tail(r), mem)
      BY <2>3, <3>4 DEF Carries
    <3>7. SteadyPlan(Tail(r), m)
      BY <2>2, <3>5, <3>6, CarriesSteady
    <3> QED BY <2>2, <3>1, <3>3, <3>5, <3>7 DEF Restores
  <2>5. CASE q # << >>
    <3>1. q \in Seq(V \cup W) /\ r \in Seq(V \cup W)
      BY <2>1, <2>3
    <3>2. w = Head(q) /\ Tail(p) = Tail(q) \o r
      BY <1>2, <2>5, <3>1, HeadOfConcat
    <3>3. Steady(w, n) /\ Rewrites(Tail(q), n, Rewritten(ws, w), new)
      BY <1>2, <2>5, <3>2, RewritesTail
    <3>4. m = n
      BY <3>3 DEF Steady
    <3>5. Restores(Tail(p), Rewritten(ws, w), m)
      BY <1>2, <3>2, <3>3, <3>4 DEF Restores
    <3> QED BY <3>3, <3>4, <3>5 DEF Steady
  <2> QED BY <2>4, <2>5
<1> QED BY <1>1, <1>2 DEF Restores

\* As long as the balances fit in a u64.
BalancesFit == Total(Balances(wallets)) <= MaxU64

\* A handler passes its checks.
LEMMA BeginRestores ==
    ASSUME NodeInv, RestoreInv, Begin
    PROVE  Restores(plan', wallets, system.current_iteration)
<1> DEFINE it == system.current_iteration
<1>1. SystemOK(system) /\ AllBorn(wallets)
  BY DEF NodeInv, RestoreInv
<1>2. ASSUME NEW p, Start(p), SteadyPlan(p, it) PROVE Restores(plan', wallets, it)
  BY <1>2 DEF Start, Restores
<1>3. ASSUME NEW id \in Users, NEW p \in ParameterSets, BeginCreate(id, p)
      PROVE  Restores(plan', wallets, it)
  <2>1. p.seed \in 0..MaxU64
    BY DEF Parameters
  <2>2. SteadyPlan(MintPlan(id, p.seed, "wallet_seed"), it)
    BY <1>1, <2>1, MintSteady
  <2> QED BY <1>2, <1>3, <2>2 DEF BeginCreate
<1>4. ASSUME NEW id \in DOMAIN wallets, NEW amount \in Amounts, BeginCharge(id, amount)
      PROVE  Restores(plan', wallets, it)
  <2>1. PICK a : Begins(a)
    BY <1>4, BeginsSummary DEF BeginCharge, Unlocked
  <2>2. SteadyPlan(ChargePlan(id, amount), it)
    BY <1>1, <2>1, ChargeSteady
  <2> QED BY <1>2, <1>4, <2>2 DEF BeginCharge
<1>5. ASSUME NEW from \in Users, NEW to \in DOMAIN wallets, NEW amount \in Amounts,
             NEW nonce \in 0..MaxTick, BeginTransfer(from, to, amount, nonce)
      PROVE  Restores(plan', wallets, it)
  <2>1. PICK a : Begins(a)
    BY <1>5, BeginsSummary DEF BeginTransfer, Unlocked
  <2>2. from \in DOMAIN wallets /\ wallets[from].balance >= amount
    BY <1>5 DEF BeginTransfer, Exists, MaySpend
  <2>3. SteadyPlan(TransferPlan(from, to, amount, nonce), it)
    BY <1>1, <2>1, <2>2, TransferSteady
  <2> QED BY <1>2, <1>5, <2>3 DEF BeginTransfer
<1>6. ASSUME NEW from \in Users, NEW amount \in Amounts,
             NEW nonce \in 0..MaxTick, BeginBurn(from, amount, nonce)
      PROVE  Restores(plan', wallets, it)
  <2>1. PICK a : Begins(a)
    BY <1>6, BeginsSummary DEF BeginBurn, Unlocked
  <2>2. from \in DOMAIN wallets /\ wallets[from].balance >= amount
    BY <1>6 DEF BeginBurn, Exists, MaySpend
  <2>3. SteadyPlan(BurnPlan(from, amount, nonce), it)
    BY <1>1, <2>1, <2>2, BurnSteady
  <2> QED BY <1>2, <1>6, <2>3 DEF BeginBurn
<1>7. ASSUME NEW p \in ParameterSets, NEW first \in Firsts, BeginIteration(p, first)
      PROVE  Restores(plan', wallets, it)
  <2>1. PICK a : Begins(a)
    BY <1>7, BeginsSummary DEF BeginIteration, Unlocked
  <2>2. Restores(IterationPlan(p, first), wallets, it)
    BY <1>1, <2>1, IterationRestores
  <2> QED BY <1>7, <2>2 DEF BeginIteration, Start
<1>8. ASSUME NEW entries \in SeedFiles, BeginInstallSeed(entries)
      PROVE  Restores(plan', wallets, it)
  <2>1. PICK a : Begins(a)
    BY <1>8, BeginsSummary DEF BeginInstallSeed, Unlocked
  <2>2. SteadyPlan(SeedPlan(entries), it)
    BY <2>1, SeedSteady
  <2> QED BY <1>2, <1>8, <2>2 DEF BeginInstallSeed
<1> QED BY <1>3, <1>4, <1>5, <1>6, <1>7, <1>8 DEF Begin

\* What the memory of the next write is.
LEMMA NextWrite ==
    ASSUME NodeInv, RestoreInv, ~Idle, NEW w, w = Head(plan),
           NEW m, m = w.mem.current_iteration
    PROVE  /\ Restores(Tail(plan), Rewritten(wallets, w), m)
           /\ m = system.current_iteration \/ m = system.current_iteration + 1
           /\ w.tree = "wallets" => BornAt(w.key, w.value)
           /\ m # system.current_iteration => w.tree # "wallets" /\ Sound(w.mem, wallets)
           /\ w.tree = "state" => w.value = w.mem
           /\ system.current_iteration \in Nat /\ stored.current_iteration \in Nat
           /\ durable.stored.current_iteration \in Nat
<1> DEFINE it == system.current_iteration
<1>1. /\ it \in Nat /\ stored.current_iteration \in Nat
      /\ durable.stored.current_iteration \in Nat
  BY SystemFields DEF NodeInv, StoreInv, Store
<1>2. wallets = [id \in DOMAIN wallets |-> wallets[id]] /\ plan # << >>
  BY DEF NodeInv, StoreInv, Store, WalletsOK, Idle
<1>3. Restores(plan, wallets, it)
  BY DEF RestoreInv
<1>4. w.tree = "state" => w.value = w.mem
  <2>1. PICK a, b : Path(a, plan, b)
    BY DEF NodeInv, Underway
  <2>2. PICK c : Links(a, w, c)
    BY <1>2, <2>1, PathHead
  <2> QED BY <2>2 DEF Links, WriteOK
<1> HIDE DEF it
<1>5. /\ Restores(Tail(plan), Rewritten(wallets, w), m)
      /\ m = it \/ m = it + 1
      /\ w.tree = "wallets" => BornAt(w.key, w.value)
      /\ m # it => w.tree # "wallets" /\ Sound(w.mem, wallets)
  BY <1>1, <1>2, <1>3, RestoresHead
<1> QED BY <1>1, <1>4, <1>5 DEF it

LEMMA WriteRestores == ASSUME NodeInv, RestoreInv, DoWrite PROVE RestoreInv'
<1> DEFINE w == Head(plan)
           m == w.mem.current_iteration
<1>1. /\ ~Idle /\ system' = w.mem /\ plan' = Tail(plan)
      /\ wallets' = Rewritten(wallets, w)
      /\ stored' = IF w.tree = "state" THEN w.value ELSE stored
      /\ durable' = durable \/ durable' = Store
  BY DEF DoWrite, Rewritten
<1>2. /\ Restores(Tail(plan), Rewritten(wallets, w), m)
      /\ m = system.current_iteration \/ m = system.current_iteration + 1
      /\ w.tree = "wallets" => BornAt(w.key, w.value)
      /\ w.tree = "state" => w.value = w.mem
      /\ system.current_iteration \in Nat /\ stored.current_iteration \in Nat
      /\ durable.stored.current_iteration \in Nat
  BY <1>1, NextWrite
<1> HIDE DEF w
<1>3. /\ durable.stored.current_iteration <= stored.current_iteration
      /\ stored.current_iteration <= system.current_iteration
      /\ AllBorn(wallets) /\ AllBorn(durable.wallets)
  BY DEF RestoreInv
<1>4. AllBorn(wallets')
  <2>1. CASE w.tree = "wallets"
    <3>1. wallets' = [id \in DOMAIN wallets \cup {w.key} |->
                         IF id = w.key THEN w.value ELSE wallets[id]]
      BY <1>1, <2>1 DEF Rewritten, Put
    <3> QED BY <1>2, <1>3, <2>1, <3>1 DEF AllBorn
  <2>2. CASE w.tree # "wallets"
    BY <1>1, <1>3, <2>2 DEF Rewritten
  <2> QED BY <2>1, <2>2
<1>5. AllBorn(durable'.wallets) /\ durable'.stored.current_iteration <= stored.current_iteration
  BY <1>1, <1>2, <1>3 DEF Store
<1>6. /\ stored.current_iteration <= stored'.current_iteration \/ w.tree = "state"
      /\ stored'.current_iteration <= system'.current_iteration
      /\ durable'.stored.current_iteration <= stored'.current_iteration
  <2>1. CASE w.tree = "state"
    <3>1. stored' = w.mem /\ system' = w.mem
      BY <1>1, <1>2, <2>1
    <3>2. /\ m \in Nat /\ stored.current_iteration <= m
          /\ durable'.stored.current_iteration <= m
      <4>1. durable'.stored.current_iteration \in Nat
        BY <1>1, <1>2 DEF Store
      <4> QED BY <1>2, <1>3, <1>5, <4>1
    <3> QED BY <2>1, <3>1, <3>2
  <2>2. CASE w.tree # "state"
    BY <1>1, <1>2, <1>3, <1>5, <2>2
  <2> QED BY <2>1, <2>2
<1>7. Restores(plan', wallets', system'.current_iteration)
  BY <1>1, <1>2
<1>8. Restores(plan, wallets, system.current_iteration)' /\ AllBorn(wallets)'
      /\ AllBorn(durable.wallets)'
  BY <1>4, <1>5, <1>7
<1> QED BY <1>6, <1>8 DEF RestoreInv

LEMMA NextRestoreInv == NodeInv /\ RestoreInv /\ [NodeNext]_nodeVars => RestoreInv'
<1> SUFFICES ASSUME NodeInv, RestoreInv, [NodeNext]_nodeVars PROVE RestoreInv'
  OBVIOUS
<1>1. /\ durable.stored.current_iteration <= stored.current_iteration
      /\ stored.current_iteration <= system.current_iteration
      /\ AllBorn(wallets) /\ AllBorn(durable.wallets)
      /\ system.current_iteration \in Nat /\ stored.current_iteration \in Nat
      /\ durable.stored.current_iteration \in Nat
  <2>1. SystemOK(system) /\ SystemOK(stored) /\ SystemOK(durable.stored)
    BY DEF NodeInv, StoreInv, Store
  <2> QED BY <2>1, SystemFields DEF RestoreInv
<1>2. CASE Begin
  <2>1. Restores(plan', wallets, system.current_iteration)
    BY <1>2, BeginRestores
  <2>2. /\ wallets' = wallets /\ system' = system /\ stored' = stored /\ durable' = durable
    BY <1>2 DEF Begin, BeginCreate, BeginCharge, BeginTransfer, BeginBurn, BeginIteration,
                BeginInstallSeed, Start, storeVars
  <2> QED BY <1>1, <2>1, <2>2 DEF RestoreInv
<1>3. CASE DoWrite
  BY <1>3, WriteRestores
<1>4. CASE FailWrite
  <2>1. /\ ~Idle /\ system' = Head(plan).mem /\ plan' = << >>
        /\ wallets' = wallets /\ stored' = stored /\ durable' = durable
    BY <1>4 DEF FailWrite, storeVars
  <2>2. stored.current_iteration <= system'.current_iteration
    <3> DEFINE w == Head(plan)
               m == w.mem.current_iteration
    <3>1. m = system.current_iteration \/ m = system.current_iteration + 1
      BY <2>1, NextWrite
    <3> HIDE DEF w
    <3>2. system' = w.mem
      BY <2>1 DEF w
    <3> QED BY <1>1, <3>1, <3>2
  <2>3. Restores(plan', wallets', system'.current_iteration)
    BY <2>1, SteadyEmpty DEF Restores
  <2> QED BY <1>1, <2>1, <2>2, <2>3 DEF RestoreInv
<1>5. CASE BackgroundFlush
  <2>1. /\ plan' = plan /\ system' = system /\ wallets' = wallets /\ stored' = stored
        /\ durable' = Store
    BY <1>5 DEF BackgroundFlush, storeVars
  <2>2. durable'.wallets = wallets /\ durable'.stored = stored
    BY <2>1 DEF Store
  <2> QED BY <1>1, <2>1, <2>2 DEF RestoreInv
<1>6. CASE CrashAndOpen
  <2>1. /\ plan' = << >> /\ system' = durable.stored /\ wallets' = durable.wallets
        /\ stored' = durable.stored /\ durable' = durable
    BY <1>6 DEF CrashAndOpen
  <2>2. Restores(plan', wallets', system'.current_iteration)
    BY <2>1, SteadyEmpty DEF Restores
  <2> QED BY <1>1, <2>1, <2>2 DEF RestoreInv
<1>7. CASE UNCHANGED nodeVars
  <2>1. /\ plan' = plan /\ system' = system /\ wallets' = wallets /\ stored' = stored
        /\ durable' = durable
    BY <1>7 DEF nodeVars, storeVars
  <2> QED BY <2>1 DEF RestoreInv
<1> QED BY <1>2, <1>3, <1>4, <1>5, <1>6, <1>7 DEF NodeNext

LEMMA InitRestoreInv == NodeInit => RestoreInv
<1> SUFFICES ASSUME NodeInit PROVE RestoreInv
  OBVIOUS
<1>1. /\ plan = << >> /\ wallets = EmptyTree /\ system = GenesisState /\ stored = GenesisState
      /\ durable = Store
  BY DEF NodeInit, Init
<1>2. durable.stored = GenesisState /\ durable.wallets = EmptyTree
  BY <1>1 DEF Store
<1>3. Restores(plan, wallets, system.current_iteration)
  BY <1>1, SteadyEmpty DEF Restores
<1>4. AllBorn(EmptyTree) /\ GenesisState.current_iteration = 0
  BY DEF AllBorn, EmptyTree, GenesisState
<1> QED BY <1>1, <1>2, <1>3, <1>4 DEF RestoreInv

\* The step that moves to the next iteration, or the error that does, finds every wallet written.
LEMMA StepRestores ==
    ASSUME NodeInv, RestoreInv, [NodeNext]_nodeVars, BalancesFit, BalancesFit',
           system'.current_iteration > system.current_iteration
    PROVE  /\ system'.total_supply = Total(Balances(wallets'))
           /\ system'.n_wallets = Cardinality(DOMAIN wallets')
<1>1. /\ durable.stored.current_iteration <= stored.current_iteration
      /\ stored.current_iteration <= system.current_iteration
      /\ system.current_iteration \in Nat /\ stored.current_iteration \in Nat
      /\ durable.stored.current_iteration \in Nat
      /\ WalletsOK(wallets)
  <2>1. SystemOK(system) /\ SystemOK(stored) /\ SystemOK(durable.stored) /\ WalletsOK(wallets)
    BY DEF NodeInv, StoreInv, Store
  <2> QED BY <2>1, SystemFields DEF RestoreInv
<1>2. ASSUME ~Idle, system' = Head(plan).mem,
             wallets' = wallets \/ wallets' = Rewritten(wallets, Head(plan))
      PROVE  /\ system'.total_supply = Total(Balances(wallets'))
             /\ system'.n_wallets = Cardinality(DOMAIN wallets')
  <2> DEFINE w == Head(plan)
             m == w.mem.current_iteration
             total == Total(Balances(wallets))
  <2>1. m # system.current_iteration
    BY <1>1, <1>2
  <2>2. w.tree # "wallets" /\ Sound(w.mem, wallets)
    BY <1>2, <2>1, NextWrite
  <2>3. wallets' = wallets
    BY <1>2, <2>2 DEF Rewritten
  <2>4. total \in Nat
    <3>1. IsFiniteSet(DOMAIN wallets) /\ wallets \in [DOMAIN wallets -> WalletRecord(WalletId)]
      BY <1>1 DEF WalletsOK
    <3> QED BY <3>1, BalancesType, TotalType
  <2>5. total <= MaxU64
    BY DEF BalancesFit
  <2> HIDE DEF total
  <2>6. total % (MaxU64 + 1) = total
    BY <2>4, <2>5
  <2>7. system'.total_supply = total % (MaxU64 + 1) /\ system'.n_wallets = Cardinality(DOMAIN wallets)
    BY <1>2, <2>2 DEF Sound, total
  <2> QED BY <2>3, <2>6, <2>7 DEF total
<1>3. CASE DoWrite
  BY <1>2, <1>3 DEF DoWrite, Rewritten
<1>4. CASE FailWrite
  BY <1>2, <1>4 DEF FailWrite, storeVars
<1>5. CASE Begin
  BY <1>1, <1>5 DEF Begin, BeginCreate, BeginCharge, BeginTransfer, BeginBurn, BeginIteration,
                    BeginInstallSeed, Start
<1>6. CASE BackgroundFlush \/ UNCHANGED nodeVars
  BY <1>1, <1>6 DEF BackgroundFlush, nodeVars
<1>7. CASE CrashAndOpen
  BY <1>1, <1>7 DEF CrashAndOpen
<1> QED BY <1>3, <1>4, <1>5, <1>6, <1>7 DEF NodeNext

\* An iteration restores the books: whatever crashes, storage errors and panics have done to the
\* counters, those of the next iteration are the sum and the number of the wallets in the store.
\* post_supply is a sum that wraps, so the balances must fit in a u64.
THEOREM IterationsRestoreBooks == NodeSpec /\ []BalancesFit => IterationRestoresBooks
<1>1. NodeSpec => []RestoreInv
  BY InitRestoreInv, NextRestoreInv, NodeInvariant, PTL DEF NodeSpec
<1> DEFINE Counts == /\ system'.total_supply = Total(Balances(wallets'))
                     /\ system'.n_wallets = Cardinality(DOMAIN wallets')
           Moves == system'.current_iteration > system.current_iteration
<1>2. /\ NodeInv /\ RestoreInv /\ [NodeNext]_nodeVars /\ BalancesFit /\ BalancesFit'
      => [Moves => Counts]_nodeVars
  BY StepRestores
<1>3. NodeSpec /\ []BalancesFit => [][Moves => Counts]_nodeVars
  BY <1>1, <1>2, NodeInvariant, PTL DEF NodeSpec
<1> QED BY <1>3 DEF IterationRestoresBooks

=============================================================================
