--------------------------- MODULE SimulatorProofs --------------------------
(***************************************************************************)
(* Proofs about Simulator, for any parameters, script, initial population  *)
(* and draws, and any number of iterations.                                *)
(***************************************************************************)
EXTENDS Simulator, EconomyProofs, SequenceTheorems

USE MaxU64Assumption, ScaleAssumption, LogStepsAssumption

SimWallets ==
    [id : Nat, created_at_iteration : Nat, balance : 0..MaxU64, iteration_tx_count : Nat,
     iteration_counterparties : SUBSET Nat, activity_score : Int]

\* The wallets of a Vec carry the names 0, 1, 2 ... in order, and none counts itself, or a
\* wallet that does not exist, as a counterparty.
Named(ws) ==
    /\ ws \in Seq(SimWallets)
    /\ \A i \in DOMAIN ws :
          /\ ws[i].id = i - 1
          /\ ws[i].created_at_iteration = 0
          /\ ws[i].iteration_counterparties \subseteq (0..(Len(ws) - 1)) \ {i - 1}

-----------------------------------------------------------------------------
(* Lemmas about one step of the Vec.                                       *)

\* A fraction of an amount is at most that amount.
LEMMA PortionAtMost ==
    ASSUME NEW r \in 0..Scale, NEW n \in Nat
    PROVE  Portion(r, n) \in Nat /\ Portion(r, n) <= n
<1> DEFINE m == r * n
           q == m \div Scale
<1>1. m \in Nat /\ Scale * n \in Nat
  OBVIOUS
<1>2. m <= Scale * n
  <2>1. Scale - r \in Nat /\ Scale * n = m + (Scale - r) * n
    OBVIOUS
  <2>2. (Scale - r) * n \in Nat
    BY <2>1
  <2> QED BY <1>1, <2>1, <2>2
<1>3. q \in Nat /\ Scale * q <= m
  <2> HIDE DEF m
  <2> QED BY <1>1
<1>4. q <= n
  <2> HIDE DEF m, q
  <2>1. Scale * q <= Scale * n
    BY <1>1, <1>2, <1>3
  <2> QED BY <1>3, <2>1, CancelFactor
<1> QED BY <1>3, <1>4 DEF Portion, SmallerOf

\* The recipient drawn exists and is not the sender.
LEMMA RecipientIsAnother ==
    ASSUME Len(wallets) \in Nat, Len(wallets) >= 2,
           NEW sender \in 1..Len(wallets), NEW draw \in 1..Len(wallets)
    PROVE  Recipient(sender, draw) \in (1..Len(wallets)) \ {sender}
<1> DEFINE n == Len(wallets)
<1> HIDE DEF n
<1>1. n \in Nat /\ n >= 2 /\ sender \in 1..n /\ draw \in 1..n
  BY DEF n
<1>2. draw % n = IF draw = n THEN 0 ELSE draw
  <2>1. CASE draw = n
    <3>1. n % n = 0
      BY <1>1
    <3> QED BY <2>1, <3>1
  <2>2. CASE draw # n
    <3>1. draw \in 0..(n - 1)
      BY <1>1, <2>2
    <3>2. draw % n = draw
      BY <1>1, <3>1
    <3> QED BY <2>2, <3>2
  <2> QED BY <2>1, <2>2
<1>3. Recipient(sender, draw) = IF draw = sender THEN (draw % n) + 1 ELSE draw
  BY DEF Recipient, n
<1>4. Recipient(sender, draw) \in (1..n) \ {sender}
  BY <1>1, <1>2, <1>3
<1> QED BY <1>4 DEF n

\* A wallet whose balance and activity are written.
Written(w, b, n, c) ==
    [w EXCEPT !.balance = b, !.iteration_tx_count = n, !.iteration_counterparties = c]

LEMMA WrittenEffect ==
    ASSUME NEW w \in SimWallets, NEW b \in 0..MaxU64, NEW n \in Nat, NEW c \in SUBSET Nat
    PROVE  /\ Written(w, b, n, c) \in SimWallets
           /\ Written(w, b, n, c).id = w.id
           /\ Written(w, b, n, c).created_at_iteration = w.created_at_iteration
           /\ Written(w, b, n, c).balance = b
           /\ Written(w, b, n, c).iteration_tx_count = n
           /\ Written(w, b, n, c).iteration_counterparties = c
<1>1. Written(w, b, n, c) \in SimWallets
  BY DEF Written, SimWallets
<1>2. /\ Written(w, b, n, c).id = w.id
      /\ Written(w, b, n, c).created_at_iteration = w.created_at_iteration
      /\ Written(w, b, n, c).balance = b
      /\ Written(w, b, n, c).iteration_tx_count = n
      /\ Written(w, b, n, c).iteration_counterparties = c
  BY DEF Written, SimWallets
<1> QED BY <1>1, <1>2

LEMMA WalletFields ==
    ASSUME NEW w \in SimWallets
    PROVE  /\ w.id \in Nat /\ w.balance \in 0..MaxU64 /\ w.iteration_tx_count \in Nat
           /\ w.iteration_counterparties \in SUBSET Nat /\ w.activity_score \in Int
           /\ w.created_at_iteration \in Nat
BY DEF SimWallets

\* What a transfer does to the two wallets.
LEMMA SentEffect ==
    ASSUME NEW w \in SimWallets, NEW a \in Nat, a <= w.balance, NEW to \in Nat
    PROVE  /\ Sent(w, a, to) \in SimWallets
           /\ Sent(w, a, to).id = w.id
           /\ Sent(w, a, to).created_at_iteration = w.created_at_iteration
           /\ Sent(w, a, to).balance = w.balance - a
           /\ Sent(w, a, to).iteration_tx_count = w.iteration_tx_count + 1
           /\ Sent(w, a, to).iteration_counterparties = w.iteration_counterparties \cup {to}
<1> DEFINE b == w.balance - a
           n == w.iteration_tx_count + 1
           c == w.iteration_counterparties \cup {to}
<1>1. b \in 0..MaxU64 /\ n \in Nat /\ c \in SUBSET Nat
  BY WalletFields
<1>2. Sent(w, a, to) = Written(w, b, n, c)
  BY Zenon DEF Sent, Written
<1> HIDE DEF b, n, c
<1>3. /\ Written(w, b, n, c) \in SimWallets
      /\ Written(w, b, n, c).id = w.id
      /\ Written(w, b, n, c).created_at_iteration = w.created_at_iteration
      /\ Written(w, b, n, c).balance = b
      /\ Written(w, b, n, c).iteration_tx_count = n
      /\ Written(w, b, n, c).iteration_counterparties = c
  BY <1>1, WrittenEffect
<1> QED BY <1>2, <1>3, Zenon DEF b, n, c

LEMMA GotEffect ==
    ASSUME NEW w \in SimWallets, NEW a \in Nat, NEW from \in Nat
    PROVE  /\ Got(w, a, from) \in SimWallets
           /\ Got(w, a, from).id = w.id
           /\ Got(w, a, from).created_at_iteration = w.created_at_iteration
           /\ Got(w, a, from).balance = SatAdd(w.balance, a)
           /\ Got(w, a, from).iteration_tx_count = w.iteration_tx_count + 1
           /\ Got(w, a, from).iteration_counterparties = w.iteration_counterparties \cup {from}
<1> DEFINE b == SatAdd(w.balance, a)
           n == w.iteration_tx_count + 1
           c == w.iteration_counterparties \cup {from}
<1>1. w.balance \in Nat /\ n \in Nat /\ c \in SUBSET Nat
  BY WalletFields
<1>2. b \in 0..MaxU64
  BY <1>1, SatAddType
<1>3. Got(w, a, from) = Written(w, b, n, c)
  BY Zenon DEF Got, Written
<1> HIDE DEF b, n, c
<1>4. /\ Written(w, b, n, c) \in SimWallets
      /\ Written(w, b, n, c).id = w.id
      /\ Written(w, b, n, c).created_at_iteration = w.created_at_iteration
      /\ Written(w, b, n, c).balance = b
      /\ Written(w, b, n, c).iteration_tx_count = n
      /\ Written(w, b, n, c).iteration_counterparties = c
  BY <1>1, <1>2, WrittenEffect
<1> QED BY <1>3, <1>4, Zenon DEF b, n, c

LEMMA MoveEffect ==
    ASSUME NEW ws \in Seq(SimWallets), NEW s \in DOMAIN ws, NEW r \in DOMAIN ws, s # r,
           NEW a \in Nat, a <= ws[s].balance
    PROVE  /\ Move(ws, s, r, a) \in Seq(SimWallets)
           /\ Len(Move(ws, s, r, a)) = Len(ws)
           /\ \A i \in DOMAIN ws :
                 Move(ws, s, r, a)[i] = IF i = s THEN Sent(ws[s], a, ws[r].id)
                                        ELSE IF i = r THEN Got(ws[r], a, ws[s].id)
                                        ELSE ws[i]
<1>1. ws[s] \in SimWallets /\ ws[r] \in SimWallets
  OBVIOUS
<1>2. ws[s].id \in Nat /\ ws[r].id \in Nat
  BY <1>1 DEF SimWallets
<1>3. Sent(ws[s], a, ws[r].id) \in SimWallets /\ Got(ws[r], a, ws[s].id) \in SimWallets
  BY <1>1, <1>2, SentEffect, GotEffect
<1> QED BY <1>3 DEF Move

-----------------------------------------------------------------------------
(* The iteration reads of a wallet its balance and its activity, and       *)
(* nothing else: what EconomyProofs says of the wallets of the coin holds  *)
(* of the simulator's, whose records have other fields besides.            *)

Alike(v, w) ==
    /\ v.balance = w.balance
    /\ v.iteration_tx_count = w.iteration_tx_count
    /\ v.iteration_counterparties = w.iteration_counterparties
    /\ v.activity_score = w.activity_score

AllAlike(vs, ws) == DOMAIN vs = DOMAIN ws /\ \A w \in DOMAIN ws : Alike(vs[w], ws[w])

\* Wallets of the coin with the balances and the activity of the simulator's.
Coins(vs) ==
    [s \in DOMAIN vs |->
        [balance                  |-> vs[s].balance,
         nonce                    |-> 0,
         iteration_tx_count       |-> vs[s].iteration_tx_count,
         iteration_counterparties |-> vs[s].iteration_counterparties,
         last_active_iteration    |-> 0,
         activity_score           |-> vs[s].activity_score]]

LEMMA CoinsAreAlike ==
    ASSUME NEW S, NEW vs \in [S -> SimWallets]
    PROVE  Coins(vs) \in [S -> WalletRecord(Nat)] /\ AllAlike(vs, Coins(vs))
<1>1. \A s \in S : vs[s] \in SimWallets
  OBVIOUS
<1>2. DOMAIN vs = S
  OBVIOUS
<1>3. Coins(vs) \in [S -> WalletRecord(Nat)]
  BY <1>1, <1>2, WalletFields DEF Coins, WalletRecord
<1>4. AllAlike(vs, Coins(vs))
  BY <1>2 DEF AllAlike, Alike, Coins
<1> QED BY <1>3, <1>4

LEMMA AlikePenalties ==
    ASSUME NEW vs, NEW ws, AllAlike(vs, ws), NEW p
    PROVE  Balances(vs) = Balances(ws) /\ Penalties(vs, p) = Penalties(ws, p)
<1>1. DOMAIN vs = DOMAIN ws /\ \A w \in DOMAIN ws : vs[w].balance = ws[w].balance
  BY DEF AllAlike, Alike
<1>2. Balances(vs) = Balances(ws)
  BY <1>1 DEF Balances
<1>3. \A w \in DOMAIN ws : BasePenalty(vs, p, w) = BasePenalty(ws, p, w)
  BY <1>1, <1>2, Zenon DEF BasePenalty
<1>4. [w \in DOMAIN vs |-> BasePenalty(vs, p, w)] = [w \in DOMAIN ws |-> BasePenalty(ws, p, w)]
  BY <1>1, <1>3
<1> DEFINE target == Portion(p.target_penalty_share_of_supply, SumU64(Balances(ws)))
           pen(us, base) ==
              [w \in DOMAIN us |->
                 IF Deviates(SumU64(base), target)
                 THEN SmallerOf((base[w] * target) \div SumU64(base), us[w].balance)
                 ELSE base[w]]
           base == [w \in DOMAIN ws |-> BasePenalty(ws, p, w)]
<1>5. Penalties(vs, p) = pen(vs, base) /\ Penalties(ws, p) = pen(ws, base)
  BY <1>2, <1>4, Zenon DEF Penalties
<1> HIDE DEF base, target
<1>6. pen(vs, base) = pen(ws, base)
  BY <1>1
<1> QED BY <1>2, <1>5, <1>6

\* The same person: the name, and the iteration that made the wallet.
SamePerson(v, w) == v.id = w.id /\ v.created_at_iteration = w.created_at_iteration

LEMMA AlikeCollect ==
    ASSUME NEW S, NEW vs \in [S -> SimWallets], NEW ids, NEW ws \in [S -> WalletRecord(ids)],
           AllAlike(vs, ws), NEW p \in Parameters, NEW pen \in [S -> Nat]
    PROVE  /\ Collect(vs, p, pen) \in [S -> SimWallets]
           /\ AllAlike(Collect(vs, p, pen), Collect(ws, p, pen))
           /\ \A s \in S : SamePerson(Collect(vs, p, pen)[s], vs[s])
<1> DEFINE pv(s) == Penalised(vs[s], p, pen[s])
           pw(s) == Penalised(ws[s], p, pen[s])
<1>1. /\ Collect(vs, p, pen) = [s \in S |-> pv(s)]
      /\ Collect(ws, p, pen) = [s \in S |-> pw(s)]
  <2>1. DOMAIN vs = S /\ DOMAIN ws = S
    OBVIOUS
  <2> QED BY <2>1, Zenon DEF Collect
<1>2. \A s \in S : pw(s) \in WalletRecord(ids)
  <2> HIDE DEF pw
  <2> QED BY <1>1, CollectType
<1>3. ASSUME NEW s \in S
      PROVE  Alike(pv(s), pw(s)) /\ pv(s) \in SimWallets /\ SamePerson(pv(s), vs[s])
  <2> DEFINE lambda == Clamp(p.activity_ema_lambda, 0, Scale)
             score == (lambda * RawActivity(ws[s], p) + (Scale - lambda) * ws[s].activity_score)
                         \div Scale
             bal == SatSub(ws[s].balance, pen[s])
  <2>1. vs[s] \in SimWallets /\ ws[s] \in WalletRecord(ids) /\ Alike(vs[s], ws[s])
    BY DEF AllAlike
  <2>2. RawActivity(vs[s], p) = RawActivity(ws[s], p)
    BY <2>1, Zenon DEF RawActivity, Alike
  <2>3. pv(s) = [vs[s] EXCEPT !.activity_score = score, !.balance = bal]
    BY <2>1, <2>2, Zenon DEF Penalised, Alike
  <2>4. pw(s) = [ws[s] EXCEPT !.activity_score = score, !.balance = bal]
    BY Zenon DEF Penalised
  <2> HIDE DEF score, bal
  <2>5. Alike([vs[s] EXCEPT !.activity_score = score, !.balance = bal],
              [ws[s] EXCEPT !.activity_score = score, !.balance = bal])
    BY <2>1 DEF Alike, SimWallets, WalletRecord
  <2>6. pw(s).balance = bal /\ pw(s).activity_score = score
    BY <2>1, <2>4 DEF WalletRecord
  <2>7. bal \in 0..MaxU64 /\ score \in Int
    <3> HIDE DEF pw
    <3> QED BY <1>2, <2>6 DEF WalletRecord
  <2>8. /\ [vs[s] EXCEPT !.activity_score = score, !.balance = bal] \in SimWallets
        /\ SamePerson([vs[s] EXCEPT !.activity_score = score, !.balance = bal], vs[s])
    BY <2>1, <2>7 DEF SimWallets, SamePerson
  <2> QED BY <2>3, <2>4, <2>5, <2>8, Zenon
<1> HIDE DEF pv, pw
<1> QED BY <1>1, <1>3 DEF AllAlike

LEMMA AlikeShares ==
    ASSUME NEW vs, NEW ws, AllAlike(vs, ws), NEW p, NEW pool
    PROVE  Shares(vs, p, pool) = Shares(ws, p, pool)
<1>1. DOMAIN vs = DOMAIN ws
  BY DEF AllAlike
<1>2. \A w \in DOMAIN ws : Weight(vs[w], p) = Weight(ws[w], p)
  BY Zenon DEF AllAlike, Alike, Weight
<1>3. [w \in DOMAIN vs |-> Weight(vs[w], p)] = [w \in DOMAIN ws |-> Weight(ws[w], p)]
  BY <1>1, <1>2
<1> QED BY <1>1, <1>3, Zenon DEF Shares

LEMMA AlikePay ==
    ASSUME NEW S, NEW vs \in [S -> SimWallets], NEW ids, NEW ws \in [S -> WalletRecord(ids)],
           AllAlike(vs, ws), NEW rewards \in [S -> Nat]
    PROVE  /\ Pay(vs, rewards) \in [S -> SimWallets]
           /\ AllAlike(Pay(vs, rewards), Pay(ws, rewards))
           /\ \A s \in S : /\ SamePerson(Pay(vs, rewards)[s], vs[s])
                           /\ Pay(vs, rewards)[s].iteration_tx_count = 0
                           /\ Pay(vs, rewards)[s].iteration_counterparties = {}
<1> DEFINE pv(s) == Rewarded(vs[s], rewards[s])
           pw(s) == Rewarded(ws[s], rewards[s])
<1>1. /\ Pay(vs, rewards) = [s \in S |-> pv(s)]
      /\ Pay(ws, rewards) = [s \in S |-> pw(s)]
  <2>1. DOMAIN vs = S /\ DOMAIN ws = S
    OBVIOUS
  <2> QED BY <2>1, Zenon DEF Pay
<1>2. ASSUME NEW s \in S
      PROVE  /\ Alike(pv(s), pw(s)) /\ pv(s) \in SimWallets /\ SamePerson(pv(s), vs[s])
             /\ pv(s).iteration_tx_count = 0 /\ pv(s).iteration_counterparties = {}
  <2> DEFINE bal == SatAdd(ws[s].balance, rewards[s])
  <2>1. vs[s] \in SimWallets /\ ws[s] \in WalletRecord(ids) /\ Alike(vs[s], ws[s])
    BY DEF AllAlike
  <2>2. pv(s) = Written(vs[s], bal, 0, {})
    BY <2>1, Zenon DEF Rewarded, Written, Alike
  <2>3. pw(s) = [ws[s] EXCEPT !.balance = bal, !.iteration_tx_count = 0,
                              !.iteration_counterparties = {}]
    BY Zenon DEF Rewarded
  <2>4. bal \in 0..MaxU64
    <3>1. ws[s].balance \in Nat /\ rewards[s] \in Nat
      BY <2>1 DEF WalletRecord
    <3> QED BY <3>1, SatAddType
  <2> HIDE DEF bal
  <2>5. /\ Written(vs[s], bal, 0, {}) \in SimWallets
        /\ SamePerson(Written(vs[s], bal, 0, {}), vs[s])
        /\ Written(vs[s], bal, 0, {}).balance = bal
        /\ Written(vs[s], bal, 0, {}).iteration_tx_count = 0
        /\ Written(vs[s], bal, 0, {}).iteration_counterparties = {}
    <3>1. 0 \in Nat /\ {} \in SUBSET Nat
      OBVIOUS
    <3>2. /\ Written(vs[s], bal, 0, {}) \in SimWallets
          /\ Written(vs[s], bal, 0, {}).id = vs[s].id
          /\ Written(vs[s], bal, 0, {}).created_at_iteration = vs[s].created_at_iteration
          /\ Written(vs[s], bal, 0, {}).balance = bal
          /\ Written(vs[s], bal, 0, {}).iteration_tx_count = 0
          /\ Written(vs[s], bal, 0, {}).iteration_counterparties = {}
      BY <2>1, <2>4, <3>1, WrittenEffect
    <3> QED BY <3>2 DEF SamePerson
  <2>6. Written(vs[s], bal, 0, {}).activity_score = vs[s].activity_score
    BY <2>1 DEF Written, SimWallets
  <2> DEFINE x == [ws[s] EXCEPT !.balance = bal, !.iteration_tx_count = 0,
                                !.iteration_counterparties = {}]
  <2>7. /\ x.balance = bal /\ x.iteration_tx_count = 0 /\ x.iteration_counterparties = {}
        /\ x.activity_score = ws[s].activity_score
    BY <2>1 DEF WalletRecord
  <2> HIDE DEF x, pv, pw
  <2>8. vs[s].activity_score = ws[s].activity_score
    BY <2>1 DEF Alike
  <2>9. pw(s) = x
    BY <2>3 DEF x
  <2> QED BY <2>2, <2>5, <2>6, <2>7, <2>8, <2>9 DEF Alike
<1> HIDE DEF pv, pw
<1> QED BY <1>1, <1>2 DEF AllAlike

\* An iteration of the simulator's wallets is the iteration of the coin's with the same balances
\* and activity: the same amounts, the same balances.  It keeps who an old wallet is and clears
\* its activity.
IteratesAlike(r, c, S, F, vs, p, it) ==
    /\ r.n_wallets = c.n_wallets
    /\ r.commit.new_wallets = F /\ c.commit.new_wallets = F
    /\ r.commit.iteration_id = c.commit.iteration_id
    /\ r.commit.inflation = c.commit.inflation
    /\ r.commit.snapshot_supply = c.commit.snapshot_supply
    /\ r.commit.burned = c.commit.burned
    /\ r.commit.faucet_from_mint = c.commit.faucet_from_mint
    /\ r.commit.post_supply = c.commit.post_supply
    /\ DOMAIN r.wallets = S \cup F
    /\ Balances(r.wallets) = Balances(c.wallets)
    /\ \A s \in S : /\ r.wallets[s] \in SimWallets
                    /\ SamePerson(r.wallets[s], vs[s])
                    /\ r.wallets[s].iteration_tx_count = 0
                    /\ r.wallets[s].iteration_counterparties = {}
    /\ \A w \in F : r.wallets[w] = NewWallet(p.seed, it)

LEMMA SimIteration ==
    ASSUME NEW S, IsFiniteSet(S), NEW vs \in [S -> SimWallets],
           NEW p \in Parameters, NEW first, NEW sys,
           sys.current_iteration \in Nat,
           sys.previous_iteration_supply \in Nat,
           sys.previous_iteration_start_supply \in Nat,
           \A idx \in Nat : FaucetId(sys.current_iteration + 1, idx) \notin S
    PROVE  IteratesAlike(ExecuteIteration(vs, p, sys, first),
                         ExecuteIteration(Coins(vs), p, sys, first),
                         S, FreshIds(sys.current_iteration + 1,
                                     PlannedNewWallets(p, Cardinality(S))),
                         vs, p, sys.current_iteration + 1)
<1> DEFINE it        == sys.current_iteration + 1
           n         == Cardinality(S)
           ws        == Coins(vs)
           beta      == BurnRate(p, sys)
           penalties == Penalties(ws, p)
           collected == SumU64(penalties)
           planned   == PlannedNewWallets(p, n)
           pool      == RedistributionPool(p, n, collected, beta)
           takenV    == Collect(vs, p, penalties)
           takenW    == Collect(ws, p, penalties)
           shares    == Shares(takenW, p, pool)
           residual  == Residual(pool, shares)
           rewards   == Rewards(p, first, shares, residual)
           paidV     == Pay(takenV, rewards)
           paidW     == Pay(takenW, rewards)
           F         == FreshIds(it, planned)
           seed      == p.seed
           r         == ExecuteIteration(vs, p, sys, first)
           c         == ExecuteIteration(ws, p, sys, first)
<1>1. ws \in [S -> WalletRecord(Nat)] /\ AllAlike(vs, ws)
  BY CoinsAreAlike
<1> HIDE DEF ws
<1>2. DOMAIN vs = S /\ DOMAIN ws = S
  BY <1>1
<1>3. Balances(vs) = Balances(ws) /\ Penalties(vs, p) = penalties /\ penalties \in [S -> Nat]
  BY <1>1, AlikePenalties, PenaltiesType
<1> HIDE DEF penalties
<1>4. /\ takenV \in [S -> SimWallets] /\ takenW \in [S -> WalletRecord(Nat)]
      /\ AllAlike(takenV, takenW)
      /\ \A s \in S : SamePerson(takenV[s], vs[s])
  BY <1>1, <1>3, AlikeCollect, CollectType
<1> HIDE DEF takenV, takenW
<1>5. Shares(takenV, p, pool) = shares
  BY <1>4, AlikeShares
<1>6. n \in Nat /\ it \in Nat
  BY FS_CardinalityType
<1>7. collected \in Nat /\ beta \in Nat
  <2> HIDE DEF n
  <2> QED BY <1>3, <1>6, SumU64Type, BurnRateType
<1>8. pool \in Nat
  <2> HIDE DEF n, collected, beta
  <2> QED BY <1>6, <1>7, PoolIsPartitioned
<1>9. shares \in [S -> Nat]
  <2> HIDE DEF pool
  <2> QED BY <1>4, <1>8, SharesType
<1>10. residual \in Nat
  <2> HIDE DEF shares, pool
  <2>1. Total(shares) \in Nat
    BY <1>9, TotalType
  <2>2. SmallerOf(Total(shares), MaxU64) \in Nat
    BY <2>1, SmallerOfType
  <2> QED BY <1>8, <2>2, SatSubType DEF Residual
<1>11. rewards \in [S -> Nat]
  <2> HIDE DEF shares, residual
  <2> QED BY <1>9, <1>10, RewardsType
<1> HIDE DEF rewards
<1>12. /\ paidV \in [S -> SimWallets]
       /\ AllAlike(paidV, paidW)
       /\ \A s \in S : /\ SamePerson(paidV[s], takenV[s])
                       /\ paidV[s].iteration_tx_count = 0
                       /\ paidV[s].iteration_counterparties = {}
  BY <1>4, <1>11, AlikePay
<1> HIDE DEF paidV, paidW
<1>13. Balances(paidV) = Balances(paidW)
  BY <1>12, AlikePenalties
<1> HIDE DEF r, c, F, seed
<1>14. /\ Outcome(r, n, SumU64(Balances(ws)), penalties, takenV, shares, p, first, sys)
       /\ Outcome(c, n, SumU64(Balances(ws)), penalties, takenW, shares, p, first, sys)
  <2>1. /\ Penalties(vs, p) = penalties /\ Penalties(ws, p) = penalties
        /\ Collect(vs, p, penalties) = takenV /\ Collect(ws, p, penalties) = takenW
        /\ Shares(takenV, p, pool) = shares
        /\ DOMAIN vs = S /\ DOMAIN ws = S /\ Balances(vs) = Balances(ws)
    BY <1>2, <1>3, <1>5 DEF takenV, takenW, penalties
  <2>2. /\ Outcome(ExecuteIteration(vs, p, sys, first), Cardinality(S),
                   SumU64(Balances(vs)), Penalties(vs, p), Collect(vs, p, Penalties(vs, p)),
                   Shares(Collect(vs, p, Penalties(vs, p)), p,
                          RedistributionPool(p, Cardinality(S), SumU64(Penalties(vs, p)),
                                             BurnRate(p, sys))),
                   p, first, sys)
        /\ Outcome(ExecuteIteration(ws, p, sys, first), Cardinality(S),
                   SumU64(Balances(ws)), Penalties(ws, p), Collect(ws, p, Penalties(ws, p)),
                   Shares(Collect(ws, p, Penalties(ws, p)), p,
                          RedistributionPool(p, Cardinality(S), SumU64(Penalties(ws, p)),
                                             BurnRate(p, sys))),
                   p, first, sys)
    BY <1>1, IterationOutcome
  <2> QED BY <2>1, <2>2 DEF r, c
<1>15. /\ r.wallets = AddFresh(paidV, F, seed, it) /\ c.wallets = AddFresh(paidW, F, seed, it)
       /\ r.n_wallets = c.n_wallets
       /\ r.commit.new_wallets = F /\ c.commit.new_wallets = F
       /\ r.commit.iteration_id = c.commit.iteration_id
       /\ r.commit.inflation = c.commit.inflation
       /\ r.commit.snapshot_supply = c.commit.snapshot_supply
       /\ r.commit.burned = c.commit.burned
       /\ r.commit.faucet_from_mint = c.commit.faucet_from_mint
       /\ r.commit.post_supply = c.commit.post_supply
  <2>1. /\ r.wallets = AddFresh(paidV, F, seed, it) /\ c.wallets = AddFresh(paidW, F, seed, it)
        /\ r.n_wallets = n + planned /\ c.n_wallets = n + planned
        /\ r.commit.new_wallets = F /\ c.commit.new_wallets = F
        /\ r.commit.iteration_id = c.commit.iteration_id
        /\ r.commit.inflation = c.commit.inflation
        /\ r.commit.snapshot_supply = c.commit.snapshot_supply
        /\ r.commit.burned = c.commit.burned
        /\ r.commit.faucet_from_mint = c.commit.faucet_from_mint
    BY <1>14 DEF Outcome, paidV, paidW, rewards, F, seed
  <2>2. /\ r.commit.post_supply = (Total(Balances(paidV)) + planned * seed) % (MaxU64 + 1)
        /\ c.commit.post_supply = (Total(Balances(paidW)) + planned * seed) % (MaxU64 + 1)
    BY <1>14 DEF Outcome, paidV, paidW, rewards, F, seed
  <2>3. r.commit.post_supply = c.commit.post_supply
    <3> HIDE DEF n, planned
    <3> QED BY <1>13, <2>2
  <2> QED BY <2>1, <2>3
<1>16. \A x \in F : x \notin S
  <2>1. planned \in Nat
    <3> HIDE DEF n
    <3> QED BY <1>6, PlannedType
  <2> HIDE DEF planned
  <2>2. \A x \in F : \E idx \in Nat : x = FaucetId(it, idx)
    BY <2>1 DEF F, FreshIds
  <2> QED BY <2>2
<1>17. /\ DOMAIN r.wallets = S \cup F
       /\ \A s \in S : r.wallets[s] = paidV[s]
       /\ \A w \in F : r.wallets[w] = NewWallet(seed, it)
  <2>1. DOMAIN paidV = S
    BY <1>12
  <2> QED BY <1>15, <1>16, <2>1 DEF AddFresh
<1>18. Balances(r.wallets) = Balances(c.wallets)
  <2>1. DOMAIN paidV = DOMAIN paidW /\ \A s \in DOMAIN paidW : paidV[s].balance = paidW[s].balance
    BY <1>12 DEF AllAlike, Alike
  <2>2. /\ DOMAIN r.wallets = DOMAIN c.wallets
        /\ \A w \in DOMAIN c.wallets : r.wallets[w].balance = c.wallets[w].balance
    BY <1>15, <2>1 DEF AddFresh
  <2> QED BY <2>2 DEF Balances
<1>19. \A s \in S : SamePerson(paidV[s], vs[s])
  BY <1>4, <1>12 DEF SamePerson
<1>20. IteratesAlike(r, c, S, F, vs, p, it)
  <2> HIDE DEF n, planned, it, beta, collected, residual, shares
  <2> QED BY <1>12, <1>15, <1>17, <1>18, <1>19 DEF IteratesAlike, seed
<1> QED BY <1>20 DEF r, c, F, ws

-----------------------------------------------------------------------------
(* What the steps do to the names, the activity and the balances of the    *)
(* Vec.                                                                    *)

Counts(ws) == [i \in DOMAIN ws |-> ws[i].iteration_tx_count]

LEMMA ColumnsType ==
    ASSUME NEW ws \in Seq(SimWallets)
    PROVE  /\ Len(ws) \in Nat /\ DOMAIN ws = 1..Len(ws)
           /\ IsFiniteSet(1..Len(ws)) /\ Cardinality(1..Len(ws)) = Len(ws)
           /\ Counts(ws) \in [1..Len(ws) -> Nat] /\ BalancesOf(ws) \in [1..Len(ws) -> Nat]
           /\ Total(Counts(ws)) \in Nat /\ Total(BalancesOf(ws)) \in Nat
<1>1. Len(ws) \in Nat /\ DOMAIN ws = 1..Len(ws) /\ 1 \in Int /\ Len(ws) \in Int
  OBVIOUS
<1>2. IsFiniteSet(1..Len(ws))
  BY <1>1, FS_Interval
<1>3. Cardinality(1..Len(ws)) = IF 1 > Len(ws) THEN 0 ELSE Len(ws) - 1 + 1
  BY <1>1, FS_Interval
<1>4. Cardinality(1..Len(ws)) = Len(ws)
  <2> DEFINE n == Len(ws)
             m == Cardinality(1..n)
  <2> HIDE DEF n, m
  <2>1. m = IF 1 > n THEN 0 ELSE n - 1 + 1
    BY <1>3 DEF m, n
  <2>2. n \in Nat
    BY <1>1 DEF n
  <2>3. m = n
    BY <2>1, <2>2
  <2> QED BY <2>3 DEF m, n
<1>5. \A i \in 1..Len(ws) : ws[i].iteration_tx_count \in Nat /\ ws[i].balance \in Nat
  BY <1>1, WalletFields
<1>6. Counts(ws) \in [1..Len(ws) -> Nat] /\ BalancesOf(ws) \in [1..Len(ws) -> Nat]
  BY <1>1, <1>5 DEF Counts, BalancesOf
<1> QED BY <1>1, <1>2, <1>4, <1>6, TotalType

\* Two wallets change; the activity grows by 2 and no coin is lost.
Transferred(ws, vs) ==
    /\ Named(vs)
    /\ Len(vs) = Len(ws)
    /\ Total(Counts(vs)) = Total(Counts(ws)) + 2
    /\ Total(BalancesOf(ws)) <= MaxU64 => Total(BalancesOf(vs)) = Total(BalancesOf(ws))

LEMMA MoveTransfers ==
    ASSUME NEW ws, Named(ws), NEW s \in DOMAIN ws, NEW r \in DOMAIN ws, s # r,
           NEW a \in Nat, a <= ws[s].balance
    PROVE  Transferred(ws, Move(ws, s, r, a))
<1> DEFINE vs == Move(ws, s, r, a)
           D  == 1..Len(ws)
<1>1. /\ ws \in Seq(SimWallets) /\ Len(ws) \in Nat /\ DOMAIN ws = D
      /\ ws[s] \in SimWallets /\ ws[r] \in SimWallets
      /\ \A i \in D : /\ ws[i].id = i - 1 /\ ws[i].created_at_iteration = 0
                      /\ ws[i].iteration_counterparties \subseteq (0..(Len(ws) - 1)) \ {i - 1}
  BY DEF Named
<1>2. ws[s].id = s - 1 /\ ws[r].id = r - 1 /\ s - 1 \in Nat /\ r - 1 \in Nat
  BY <1>1
<1>3. /\ vs \in Seq(SimWallets)
      /\ Len(vs) = Len(ws)
      /\ \A i \in D : vs[i] = IF i = s THEN Sent(ws[s], a, r - 1)
                              ELSE IF i = r THEN Got(ws[r], a, s - 1) ELSE ws[i]
  <2>1. /\ vs \in Seq(SimWallets)
        /\ Len(vs) = Len(ws)
        /\ \A i \in DOMAIN ws : vs[i] = IF i = s THEN Sent(ws[s], a, ws[r].id)
                                       ELSE IF i = r THEN Got(ws[r], a, ws[s].id)
                                       ELSE ws[i]
    BY <1>1, MoveEffect
  <2> HIDE DEF vs
  <2> QED BY <1>1, <1>2, <2>1
<1> HIDE DEF vs
<1>4. /\ vs[s].id = s - 1 /\ vs[s].created_at_iteration = 0
      /\ vs[s].balance = ws[s].balance - a
      /\ vs[s].iteration_tx_count = ws[s].iteration_tx_count + 1
      /\ vs[s].iteration_counterparties = ws[s].iteration_counterparties \cup {r - 1}
  BY <1>1, <1>2, <1>3, SentEffect
<1>5. /\ vs[r].id = r - 1 /\ vs[r].created_at_iteration = 0
      /\ vs[r].balance = SatAdd(ws[r].balance, a)
      /\ vs[r].iteration_tx_count = ws[r].iteration_tx_count + 1
      /\ vs[r].iteration_counterparties = ws[r].iteration_counterparties \cup {s - 1}
  <2> DEFINE from == s - 1
             w == Got(ws[r], a, from)
  <2>1. vs[r] = w
    BY <1>1, <1>3
  <2> HIDE DEF from
  <2>2. /\ w.id = ws[r].id
        /\ w.created_at_iteration = ws[r].created_at_iteration
        /\ w.balance = SatAdd(ws[r].balance, a)
        /\ w.iteration_tx_count = ws[r].iteration_tx_count + 1
        /\ w.iteration_counterparties = ws[r].iteration_counterparties \cup {from}
    <3>1. from \in Nat
      BY <1>2 DEF from
    <3>2. ws[r] \in SimWallets
      BY <1>1
    <3> QED BY <3>1, <3>2, GotEffect
  <2> HIDE DEF w
  <2> QED BY <1>1, <1>2, <2>1, <2>2 DEF from
<1>6. \A i \in D : i # s /\ i # r => vs[i] = ws[i]
  BY <1>3
<1>7. Named(vs)
  <2>1. \A i \in D : /\ vs[i].id = i - 1 /\ vs[i].created_at_iteration = 0
                     /\ vs[i].iteration_counterparties \subseteq (0..(Len(ws) - 1)) \ {i - 1}
    <3> TAKE i \in D
    <3>1. CASE i = s
      <4>1. r - 1 \in (0..(Len(ws) - 1)) \ {i - 1}
        BY <1>1, <3>1
      <4> QED BY <1>1, <1>4, <3>1, <4>1
    <3>2. CASE i = r
      <4>1. s - 1 \in (0..(Len(ws) - 1)) \ {i - 1}
        BY <1>1, <3>2
      <4> QED BY <1>1, <1>5, <3>2, <4>1
    <3>3. CASE i # s /\ i # r
      BY <1>1, <1>6, <3>3
    <3> QED BY <3>1, <3>2, <3>3
  <2> QED BY <1>3, <2>1 DEF Named
<1>8. /\ IsFiniteSet(D)
      /\ Counts(ws) \in [D -> Nat] /\ Counts(vs) \in [D -> Nat]
      /\ BalancesOf(ws) \in [D -> Nat] /\ BalancesOf(vs) \in [D -> Nat]
      /\ Total(Counts(ws)) \in Nat /\ Total(BalancesOf(ws)) \in Nat
  BY <1>1, <1>3, ColumnsType
<1>9. \A i \in D : /\ Counts(ws)[i] = ws[i].iteration_tx_count
                   /\ Counts(vs)[i] = vs[i].iteration_tx_count
                   /\ BalancesOf(ws)[i] = ws[i].balance
                   /\ BalancesOf(vs)[i] = vs[i].balance
  BY <1>1, <1>3 DEF Counts, BalancesOf
<1> HIDE DEF D
<1>10. s \in D /\ r \in D
  BY <1>1
<1>11. Total(Counts(vs)) = Total(Counts(ws)) + 2
  <2> DEFINE f == Counts(ws)
             g == Counts(vs)
  <2>1. \A i \in D \ {s, r} : g[i] = f[i]
    BY <1>6, <1>9
  <2>2. g[s] = f[s] + 1 /\ g[r] = f[r] + 1 /\ f[s] \in Nat /\ f[r] \in Nat
    BY <1>4, <1>5, <1>8, <1>9, <1>10
  <2>3. f \in [D -> Nat] /\ g \in [D -> Nat] /\ Total(f) \in Nat
    BY <1>8
  <2> HIDE DEF f, g
  <2>4. Total(g) = Total(f) - f[s] + g[s] - f[r] + g[r]
    BY <1>8, <1>10, <2>1, <2>3, TotalUpdateTwo
  <2>5. Total(g) = Total(f) + 2
    BY <2>2, <2>3, <2>4
  <2> QED BY <2>5 DEF f, g
<1>12. ASSUME Total(BalancesOf(ws)) <= MaxU64
       PROVE  Total(BalancesOf(vs)) = Total(BalancesOf(ws))
  <2> DEFINE f == BalancesOf(ws)
             g == BalancesOf(vs)
             h == [f EXCEPT ![s] = f[s] - a]
  <2>1. \A i \in D \ {s, r} : g[i] = f[i]
    BY <1>6, <1>9
  <2>2. f \in [D -> Nat] /\ g \in [D -> Nat] /\ Total(f) \in Nat /\ Total(f) <= MaxU64
    BY <1>8, <1>12
  <2>3. f[s] \in Nat /\ f[r] \in Nat /\ a <= f[s] /\ f[s] - a \in Nat
    BY <1>9, <1>10, <2>2
  <2>4. g[s] = f[s] - a /\ g[r] = SatAdd(f[r], a)
    BY <1>4, <1>5, <1>9, <1>10
  <2> HIDE DEF f, g
  <2>5. h \in [D -> Nat] /\ h[s] = f[s] - a /\ h[r] = f[r] /\ \A x \in D \ {s} : h[x] = f[x]
    BY <1>10, <2>2, <2>3
  <2> HIDE DEF h
  \* The two balances together fit.
  <2>6. f[s] + f[r] <= Total(f)
    <3>1. Total(h) = Total(f) - f[s] + h[s]
      BY <1>8, <1>10, <2>2, <2>5, TotalUpdate
    <3> DEFINE k == [h EXCEPT ![s] = 0]
    <3>2. k \in [D -> Nat] /\ k[s] = 0 /\ k[r] = f[r] /\ \A x \in D \ {s} : k[x] = f[x]
      BY <1>10, <2>5
    <3> HIDE DEF k
    <3>3. Total(k) = Total(f) - f[s] + k[s]
      BY <1>8, <1>10, <2>2, <3>2, TotalUpdate
    <3>4. k[r] <= Total(k)
      BY <1>8, <1>10, <3>2, TotalBound
    <3>5. Total(k) \in Nat
      BY <1>8, <3>2, TotalType
    <3> QED BY <2>2, <2>3, <3>2, <3>3, <3>4, <3>5
  <2>7. g[r] = f[r] + a
    BY <2>2, <2>3, <2>4, <2>6 DEF SatAdd
  <2>8. Total(g) = Total(f) - f[s] + g[s] - f[r] + g[r]
    BY <1>8, <1>10, <2>1, <2>2, TotalUpdateTwo
  <2>9. Total(g) = Total(f)
    BY <2>2, <2>3, <2>4, <2>7, <2>8
  <2> QED BY <2>9 DEF f, g
<1>13. Transferred(ws, vs)
  BY <1>3, <1>7, <1>11, <1>12 DEF Transferred
<1> QED BY <1>13 DEF vs

\* One wallet gets coins from nowhere; as long as there is room for them, all of them.
Charged(ws, vs, amount) ==
    /\ Named(vs)
    /\ Len(vs) = Len(ws)
    /\ Total(Counts(vs)) = Total(Counts(ws))
    /\ Total(BalancesOf(vs)) < MaxU64 => Total(BalancesOf(vs)) = Total(BalancesOf(ws)) + amount

LEMMA ChargeCreates ==
    ASSUME NEW ws, Named(ws), NEW t \in DOMAIN ws, NEW amount \in Nat
    PROVE  Charged(ws, [ws EXCEPT ![t].balance = SatAdd(@, amount)], amount)
<1> DEFINE b  == SatAdd(ws[t].balance, amount)
           w  == Written(ws[t], b, ws[t].iteration_tx_count, ws[t].iteration_counterparties)
           vs == [ws EXCEPT ![t] = w]
           us == [ws EXCEPT ![t].balance = SatAdd(@, amount)]
           D  == 1..Len(ws)
<1>1. /\ ws \in Seq(SimWallets) /\ Len(ws) \in Nat /\ DOMAIN ws = D
      /\ \A i \in D : /\ ws[i].id = i - 1 /\ ws[i].created_at_iteration = 0
                      /\ ws[i].iteration_counterparties \subseteq (0..(Len(ws) - 1)) \ {i - 1}
  BY DEF Named
<1>2. ws[t] \in SimWallets
  BY <1>1
<1>3. b \in 0..MaxU64
  <2>1. ws[t].balance \in Nat
    BY <1>2, WalletFields
  <2> QED BY <2>1, SatAddType
<1>4. us = vs
  <2>1. [ws[t] EXCEPT !.balance = b] = w
    BY <1>2 DEF Written, SimWallets
  <2>2. us = [ws EXCEPT ![t] = [ws[t] EXCEPT !.balance = b]]
    BY Zenon
  <2> QED BY <2>1, <2>2, Zenon
<1>5. /\ w \in SimWallets
      /\ w.id = ws[t].id
      /\ w.created_at_iteration = ws[t].created_at_iteration
      /\ w.balance = b
      /\ w.iteration_tx_count = ws[t].iteration_tx_count
      /\ w.iteration_counterparties = ws[t].iteration_counterparties
  <2> HIDE DEF b
  <2>1. ws[t].iteration_tx_count \in Nat /\ ws[t].iteration_counterparties \in SUBSET Nat
    BY <1>2, WalletFields
  <2> QED BY <1>2, <1>3, <2>1, WrittenEffect
<1> HIDE DEF w
<1>6. /\ vs \in Seq(SimWallets) /\ Len(vs) = Len(ws) /\ vs[t] = w
      /\ \A i \in D : i # t => vs[i] = ws[i]
  BY <1>1, <1>5
<1> HIDE DEF vs
<1>7. Named(vs)
  <2>1. \A i \in D : /\ vs[i].id = i - 1 /\ vs[i].created_at_iteration = 0
                     /\ vs[i].iteration_counterparties \subseteq (0..(Len(ws) - 1)) \ {i - 1}
    BY <1>1, <1>5, <1>6
  <2> QED BY <1>6, <2>1 DEF Named
<1>8. /\ IsFiniteSet(D)
      /\ Counts(ws) \in [D -> Nat] /\ Counts(vs) \in [D -> Nat]
      /\ BalancesOf(ws) \in [D -> Nat] /\ BalancesOf(vs) \in [D -> Nat]
      /\ Total(BalancesOf(ws)) \in Nat
  BY <1>1, <1>6, ColumnsType
<1>9. \A i \in D : /\ Counts(ws)[i] = ws[i].iteration_tx_count
                   /\ Counts(vs)[i] = vs[i].iteration_tx_count
                   /\ BalancesOf(ws)[i] = ws[i].balance
                   /\ BalancesOf(vs)[i] = vs[i].balance
  BY <1>1, <1>6 DEF Counts, BalancesOf
<1> HIDE DEF D
<1>10. t \in D
  BY <1>1
<1>11. Counts(vs) = Counts(ws)
  <2>1. \A i \in D : Counts(vs)[i] = Counts(ws)[i]
    BY <1>5, <1>6, <1>9
  <2> QED BY <1>8, <2>1
<1>12. ASSUME Total(BalancesOf(vs)) < MaxU64
       PROVE  Total(BalancesOf(vs)) = Total(BalancesOf(ws)) + amount
  <2> DEFINE f == BalancesOf(ws)
             g == BalancesOf(vs)
  <2>1. /\ f \in [D -> Nat] /\ g \in [D -> Nat] /\ Total(f) \in Nat
    BY <1>8
  <2>2. /\ \A i \in D \ {t} : g[i] = f[i]
        /\ g[t] = SatAdd(f[t], amount)
    <3>1. vs[t].balance = SatAdd(ws[t].balance, amount)
      BY <1>5, <1>6 DEF b
    <3>2. \A i \in D \ {t} : vs[i] = ws[i]
      BY <1>6
    <3> QED BY <1>9, <1>10, <3>1, <3>2
  <2>3. Total(g) < MaxU64
    BY <1>12
  <2> HIDE DEF f, g
  <2>4. Total(g) = Total(f) - f[t] + g[t]
    BY <1>8, <1>10, <2>1, <2>2, TotalUpdate
  <2>5. g[t] <= Total(g)
    BY <1>8, <1>10, <2>1, TotalBound
  <2>6. f[t] \in Nat /\ g[t] \in Nat
    BY <1>10, <2>1
  <2>7. Total(g) \in Nat
    BY <1>8, <2>1, TotalType
  <2>8. g[t] = f[t] + amount
    BY <2>2, <2>3, <2>5, <2>6, <2>7 DEF SatAdd
  <2>9. Total(g) = Total(f) + amount
    BY <2>1, <2>4, <2>6, <2>8
  <2> QED BY <2>9 DEF f, g
<1>13. Charged(ws, vs, amount)
  BY <1>6, <1>7, <1>11, <1>12 DEF Charged
<1> QED BY <1>4, <1>13

\* Wallets join at the end of the Vec.
Spawned(ws, vs, n, balance) ==
    /\ Named(vs)
    /\ Len(vs) = Len(ws) + n
    /\ Total(Counts(vs)) = Total(Counts(ws))
    /\ Total(BalancesOf(vs)) = Total(BalancesOf(ws)) + n * balance

LEMMA SimWalletFields ==
    ASSUME NEW idx \in Nat, NEW b \in 0..MaxU64
    PROVE  /\ SimWallet(idx, b) \in SimWallets
           /\ SimWallet(idx, b).id = idx
           /\ SimWallet(idx, b).created_at_iteration = 0
           /\ SimWallet(idx, b).balance = b
           /\ SimWallet(idx, b).iteration_tx_count = 0
           /\ SimWallet(idx, b).iteration_counterparties = {}
BY DEF SimWallet, SimWallets

LEMMA SpawnAdds ==
    ASSUME NEW ws, Named(ws), NEW n \in Nat, NEW b \in 0..MaxU64
    PROVE  Spawned(ws, ws \o [i \in 1..n |-> SimWallet(Len(ws) + i - 1, b)], n, b)
<1> DEFINE new == [i \in 1..n |-> SimWallet(Len(ws) + i - 1, b)]
           vs  == ws \o new
           m   == Len(ws)
           D   == 1..m
           T   == (m + 1)..(m + n)
<1>1. /\ ws \in Seq(SimWallets) /\ m \in Nat /\ DOMAIN ws = D
      /\ \A i \in D : /\ ws[i].id = i - 1 /\ ws[i].created_at_iteration = 0
                      /\ ws[i].iteration_counterparties \subseteq (0..(m - 1)) \ {i - 1}
  BY DEF Named
<1>2. \A i \in 1..n : m + i - 1 \in Nat
  BY <1>1
<1>3. \A i \in 1..n : new[i] = SimWallet(m + i - 1, b) /\ new[i] \in SimWallets
  <2> HIDE DEF m
  <2> TAKE i \in 1..n
  <2>1. SimWallet(m + i - 1, b) \in SimWallets
    BY <1>2, SimWalletFields
  <2> QED BY <2>1 DEF m
<1>4. new \in Seq(SimWallets) /\ Len(new) = n
  <2> DEFINE v(i) == SimWallet(Len(ws) + i - 1, b)
  <2>1. \A i \in 1..n : v(i) \in SimWallets
    BY <1>3
  <2>2. new = [i \in 1..n |-> v(i)]
    OBVIOUS
  <2> HIDE DEF new, v
  <2> QED BY <2>1, <2>2
<1> HIDE DEF new
<1>5. /\ vs \in Seq(SimWallets)
      /\ Len(vs) = m + n
      /\ \A i \in 1..(m + n) : vs[i] = IF i <= m THEN ws[i] ELSE new[i - m]
  <2>1. /\ ws \o new \in Seq(SimWallets)
        /\ Len(ws \o new) = Len(ws) + Len(new)
        /\ \A i \in 1..(Len(ws) + Len(new)) :
              (ws \o new)[i] = IF i <= Len(ws) THEN ws[i] ELSE new[i - Len(ws)]
    BY <1>1, <1>4, ConcatProperties
  <2> HIDE DEF vs
  <2> QED BY <1>4, <2>1, Zenon DEF vs
<1> HIDE DEF vs, m
<1>6. D \cap T = {} /\ D \cup T = 1..(m + n)
  BY <1>1
<1>7. /\ \A i \in T : i - m \in 1..n /\ m + (i - m) - 1 = i - 1 /\ i - 1 \in Nat /\ ~(i <= m)
      /\ \A i \in D : i <= m /\ i \in 1..(m + n)
  BY <1>1
<1>8. \A i \in T : vs[i] = SimWallet(i - 1, b)
  <2> TAKE i \in T
  <2> DEFINE j == i - m
  <2>1. j \in 1..n /\ m + j - 1 = i - 1 /\ ~(i <= m) /\ i \in 1..(m + n)
    BY <1>6, <1>7
  <2>2. vs[i] = new[j]
    BY <1>5, <2>1
  <2> HIDE DEF j
  <2>3. new[j] = SimWallet(m + j - 1, b)
    BY <1>3, <2>1
  <2> QED BY <2>1, <2>2, <2>3
<1>9. \A i \in T : /\ vs[i].id = i - 1 /\ vs[i].created_at_iteration = 0 /\ vs[i].balance = b
                   /\ vs[i].iteration_tx_count = 0 /\ vs[i].iteration_counterparties = {}
  BY <1>7, <1>8, SimWalletFields
<1>10. \A i \in D : vs[i] = ws[i]
  BY <1>5, <1>7
<1>11. Named(vs)
  <2>1. ASSUME NEW i \in 1..(m + n)
        PROVE  /\ vs[i].id = i - 1 /\ vs[i].created_at_iteration = 0
               /\ vs[i].iteration_counterparties \subseteq (0..((m + n) - 1)) \ {i - 1}
    <3>1. CASE i \in D
      <4>1. (0..(m - 1)) \ {i - 1} \subseteq (0..((m + n) - 1)) \ {i - 1}
        BY <1>1
      <4> QED BY <1>1, <1>10, <3>1, <4>1
    <3>2. CASE i \in T
      BY <1>9, <3>2
    <3> QED BY <1>6, <3>1, <3>2
  <2>2. DOMAIN vs = 1..(m + n)
    BY <1>1, <1>5
  <2> QED BY <1>5, <2>1, <2>2 DEF Named
<1>12. /\ IsFiniteSet(D)
       /\ Counts(ws) \in [D -> Nat] /\ Counts(vs) \in [1..(m + n) -> Nat]
       /\ BalancesOf(ws) \in [D -> Nat] /\ BalancesOf(vs) \in [1..(m + n) -> Nat]
       /\ Total(Counts(ws)) \in Nat /\ Total(BalancesOf(ws)) \in Nat
  BY <1>1, <1>5, ColumnsType DEF m
<1>13. /\ \A i \in D : /\ Counts(ws)[i] = ws[i].iteration_tx_count
                       /\ BalancesOf(ws)[i] = ws[i].balance
       /\ \A i \in 1..(m + n) : /\ Counts(vs)[i] = vs[i].iteration_tx_count
                                /\ BalancesOf(vs)[i] = vs[i].balance
  <2>1. DOMAIN vs = 1..(m + n)
    BY <1>1, <1>5
  <2> QED BY <1>1, <2>1 DEF Counts, BalancesOf
<1>14. IsFiniteSet(T) /\ Cardinality(T) = n
  <2>1. m + 1 \in Int /\ m + n \in Int
    BY <1>1
  <2>2. IsFiniteSet(T) /\ Cardinality(T) = IF m + 1 > m + n THEN 0 ELSE (m + n) - (m + 1) + 1
    BY <2>1, FS_Interval
  <2> DEFINE c == Cardinality(T)
  <2>3. c = IF m + 1 > m + n THEN 0 ELSE (m + n) - (m + 1) + 1
    BY <2>2
  <2> HIDE DEF c
  <2>4. c = n
    BY <1>1, <2>3
  <2> QED BY <2>2, <2>4 DEF c
<1> DEFINE zeros == [i \in T |-> 0]
           gifts == [i \in T |-> b]
<1>15. /\ zeros \in [T -> Nat] /\ gifts \in [T -> Nat]
       /\ \A i \in T : zeros[i] = 0 /\ gifts[i] = b /\ i \in 1..(m + n)
       /\ \A i \in T : Counts(vs)[i] = zeros[i]
       /\ \A i \in T : BalancesOf(vs)[i] = gifts[i]
       /\ \A i \in D : Counts(vs)[i] = Counts(ws)[i]
       /\ \A i \in D : BalancesOf(vs)[i] = BalancesOf(ws)[i]
       /\ Counts(vs) \in [D \cup T -> Nat] /\ BalancesOf(vs) \in [D \cup T -> Nat]
  <2>1. \A i \in T : i \in 1..(m + n)
    BY <1>7
  <2>2. zeros \in [T -> Nat] /\ gifts \in [T -> Nat] /\ \A i \in T : zeros[i] = 0 /\ gifts[i] = b
    OBVIOUS
  <2>3. Counts(vs) \in [D \cup T -> Nat] /\ BalancesOf(vs) \in [D \cup T -> Nat]
    BY <1>6, <1>12, Zenon
  <2> HIDE DEF D, T, zeros, gifts
  <2>4. \A i \in T : Counts(vs)[i] = zeros[i] /\ BalancesOf(vs)[i] = gifts[i]
    BY <1>9, <1>13, <2>1, <2>2
  <2>5. \A i \in D : Counts(vs)[i] = Counts(ws)[i] /\ BalancesOf(vs)[i] = BalancesOf(ws)[i]
    BY <1>7, <1>10, <1>13
  <2> QED BY <2>1, <2>2, <2>3, <2>4, <2>5
<1> HIDE DEF D, T, zeros, gifts
<1>16. b \in Nat /\ 0 \in Nat
  OBVIOUS
<1>17. Total(zeros) = Cardinality(T) * 0
  BY <1>14, <1>15, <1>16, TotalConstant
<1>18. Total(gifts) = Cardinality(T) * b
  BY <1>14, <1>15, <1>16, TotalConstant
<1>19. Total(Counts(vs)) = Total(Counts(ws)) + Total(zeros)
  <2> DEFINE f == Counts(ws)
             h == Counts(vs)
  <2>1. D \cap T = {} /\ IsFiniteSet(D) /\ IsFiniteSet(T) /\ f \in [D -> Nat]
    BY <1>6, <1>12, <1>14
  <2>2. /\ zeros \in [T -> Nat] /\ h \in [D \cup T -> Nat]
        /\ \A i \in D : h[i] = f[i]
        /\ \A i \in T : h[i] = zeros[i]
    BY <1>15
  <2> HIDE DEF f, h
  <2>3. Total(h) = Total(f) + Total(zeros)
    BY <2>1, <2>2, TotalUnion
  <2> QED BY <2>3 DEF f, h
<1>20. Total(BalancesOf(vs)) = Total(BalancesOf(ws)) + Total(gifts)
  <2> DEFINE f == BalancesOf(ws)
             h == BalancesOf(vs)
  <2>1. D \cap T = {} /\ IsFiniteSet(D) /\ IsFiniteSet(T) /\ f \in [D -> Nat]
    BY <1>6, <1>12, <1>14
  <2>2. /\ gifts \in [T -> Nat] /\ h \in [D \cup T -> Nat]
        /\ \A i \in D : h[i] = f[i]
        /\ \A i \in T : h[i] = gifts[i]
    BY <1>15
  <2> HIDE DEF f, h
  <2>3. Total(h) = Total(f) + Total(gifts)
    BY <2>1, <2>2, TotalUnion
  <2> QED BY <2>3 DEF f, h
<1>21. Total(zeros) = 0 /\ Total(gifts) = n * b
  BY <1>14, <1>17, <1>18
<1>22. Spawned(ws, vs, n, b)
  BY <1>5, <1>11, <1>12, <1>19, <1>20, <1>21 DEF Spawned, m
<1> QED BY <1>22 DEF vs, new

\* What a shock takes from everybody but the target, and the Vec it leaves.
TakenBy(ws, t, fraction) ==
    [i \in DOMAIN ws |-> IF i = t THEN 0
                         ELSE Portion(Clamp(fraction, 0, Scale), ws[i].balance)]

Gainer(w, amount, n) == [w EXCEPT !.balance = SatAdd(@, amount), !.iteration_tx_count = @ + n - 1]

Shaken(ws, t, taken) ==
    [i \in DOMAIN ws |-> IF i = t THEN Gainer(ws[i], SmallerOf(Total(taken), MaxU64), Len(ws))
                         ELSE Sent(ws[i], taken[i], ws[t].id)]

\* Everybody counts the transfer to the target, which counts them all; no coin is lost.
Shocked(ws, vs) ==
    /\ Named(vs)
    /\ Len(vs) = Len(ws)
    /\ Total(Counts(vs)) = Total(Counts(ws)) + 2 * (Len(ws) - 1)
    /\ Total(BalancesOf(ws)) <= MaxU64 => Total(BalancesOf(vs)) = Total(BalancesOf(ws))

LEMMA ShockConcentrates ==
    ASSUME NEW ws, Named(ws), NEW t \in DOMAIN ws, NEW fraction \in Int
    PROVE  Shocked(ws, Shaken(ws, t, TakenBy(ws, t, fraction)))
<1> DEFINE m     == Len(ws)
           D     == 1..m
           taken == TakenBy(ws, t, fraction)
           moved == SmallerOf(Total(taken), MaxU64)
           vs    == Shaken(ws, t, taken)
           f     == BalancesOf(ws)
<1>1. /\ ws \in Seq(SimWallets) /\ m \in Nat /\ DOMAIN ws = D /\ t \in D
      /\ \A i \in D : /\ ws[i].id = i - 1 /\ ws[i].created_at_iteration = 0
                      /\ ws[i].iteration_counterparties \subseteq (0..(m - 1)) \ {i - 1}
                      /\ ws[i] \in SimWallets
  BY DEF Named
<1>2. /\ IsFiniteSet(D) /\ Cardinality(D) = m
      /\ Counts(ws) \in [D -> Nat] /\ f \in [D -> Nat]
      /\ Total(Counts(ws)) \in Nat /\ Total(f) \in Nat
  BY <1>1, ColumnsType
<1>3. \A i \in D : f[i] = ws[i].balance /\ Counts(ws)[i] = ws[i].iteration_tx_count
  BY <1>1 DEF BalancesOf, Counts
<1> HIDE DEF f, m, D
<1>4. taken \in [D -> Nat] /\ taken[t] = 0 /\ \A i \in D : taken[i] <= f[i]
  <2> DEFINE r == Clamp(fraction, 0, Scale)
  <2>1. r \in 0..Scale
    BY DEF Clamp, SmallerOf, LargerOf
  <2>2. \A i \in D : taken[i] = IF i = t THEN 0 ELSE Portion(r, f[i])
    BY <1>1, <1>3 DEF TakenBy
  <2>3. DOMAIN taken = D /\ taken = [i \in D |-> taken[i]] /\ t \in D
    BY <1>1 DEF TakenBy
  <2> HIDE DEF r, taken
  <2>4. \A i \in D : f[i] \in Nat
    BY <1>2
  <2>5. \A i \in D : Portion(r, f[i]) \in Nat /\ Portion(r, f[i]) <= f[i]
    BY <2>1, <2>4, PortionAtMost
  <2>6. \A i \in D : taken[i] \in Nat /\ taken[i] <= f[i]
    BY <2>2, <2>4, <2>5
  <2> QED BY <2>2, <2>3, <2>6
<1> HIDE DEF taken
<1>5. Total(taken) \in Nat /\ moved \in Nat
  <2>1. Total(taken) \in Nat
    BY <1>2, <1>4, TotalType
  <2> QED BY <2>1, SmallerOfType
<1>6. /\ DOMAIN vs = D
      /\ \A i \in D : i # t => vs[i] = Sent(ws[i], taken[i], t - 1)
      /\ vs[t] = Gainer(ws[t], moved, m)
  BY <1>1 DEF Shaken, m
<1> HIDE DEF vs, moved
<1>7. ASSUME NEW i \in D, i # t
      PROVE  /\ vs[i] \in SimWallets /\ vs[i].id = i - 1 /\ vs[i].created_at_iteration = 0
             /\ vs[i].balance = f[i] - taken[i]
             /\ vs[i].iteration_tx_count = ws[i].iteration_tx_count + 1
             /\ vs[i].iteration_counterparties = ws[i].iteration_counterparties \cup {t - 1}
  <2>1. /\ ws[i] \in SimWallets /\ taken[i] \in Nat /\ taken[i] <= ws[i].balance /\ t - 1 \in Nat
        /\ ws[i].id = i - 1 /\ ws[i].created_at_iteration = 0 /\ f[i] = ws[i].balance
        /\ vs[i] = Sent(ws[i], taken[i], t - 1)
    BY <1>1, <1>3, <1>4, <1>6, <1>7 DEF D
  <2> QED BY <2>1, SentEffect
<1>8. /\ vs[t] \in SimWallets /\ vs[t].id = t - 1 /\ vs[t].created_at_iteration = 0
      /\ vs[t].balance = SatAdd(f[t], moved)
      /\ vs[t].iteration_tx_count = ws[t].iteration_tx_count + m - 1
      /\ vs[t].iteration_counterparties = ws[t].iteration_counterparties
  <2> DEFINE b == SatAdd(ws[t].balance, moved)
             k == ws[t].iteration_tx_count + m - 1
             c == ws[t].iteration_counterparties
             v == Written(ws[t], b, k, c)
  <2>1. ws[t] \in SimWallets
    BY <1>1
  <2>2. /\ ws[t].balance \in Nat /\ ws[t].iteration_tx_count \in Nat /\ c \in SUBSET Nat
    BY <2>1, WalletFields
  <2>3. b \in 0..MaxU64
    BY <1>5, <2>2, SatAddType
  <2>4. k \in Nat
    BY <1>1, <2>2 DEF D
  <2>5. Gainer(ws[t], moved, m) = v
    <3>1. Gainer(ws[t], moved, m) = [ws[t] EXCEPT !.balance = b, !.iteration_tx_count = k]
      BY Zenon DEF Gainer
    <3> HIDE DEF b, k
    <3> QED BY <2>1, <3>1 DEF Written, SimWallets
  <2> HIDE DEF b, k, c
  <2>6. /\ v \in SimWallets
        /\ v.id = ws[t].id
        /\ v.created_at_iteration = ws[t].created_at_iteration
        /\ v.balance = b
        /\ v.iteration_tx_count = k
        /\ v.iteration_counterparties = c
    BY <2>1, <2>2, <2>3, <2>4, WrittenEffect
  <2>7. ws[t].id = t - 1 /\ ws[t].created_at_iteration = 0 /\ f[t] = ws[t].balance
    BY <1>1, <1>3
  <2> HIDE DEF v
  <2> QED BY <1>6, <2>5, <2>6, <2>7 DEF b, k, c
<1>9. vs \in Seq(SimWallets) /\ Len(vs) = m
  <2>1. \A i \in D : vs[i] \in SimWallets
    BY <1>7, <1>8
  <2>2. \E n \in Nat : DOMAIN vs = 1..n
    BY <1>1, <1>6 DEF D
  <2>3. vs = [i \in D |-> vs[i]]
    BY <1>6 DEF vs, Shaken
  <2>4. vs \in [1..m -> SimWallets]
    BY <2>1, <2>3 DEF D
  <2>5. vs \in Seq(SimWallets)
    BY <1>1, <2>4
  <2> QED BY <1>1, <2>4, <2>5
<1>10. Named(vs)
  <2>1. ASSUME NEW i \in D
        PROVE  /\ vs[i].id = i - 1 /\ vs[i].created_at_iteration = 0
               /\ vs[i].iteration_counterparties \subseteq (0..(m - 1)) \ {i - 1}
    <3>1. CASE i = t
      BY <1>1, <1>8, <3>1
    <3>2. CASE i # t
      <4>1. t - 1 \in (0..(m - 1)) \ {i - 1}
        BY <1>1, <3>2 DEF D
      <4> QED BY <1>1, <1>7, <3>2, <4>1
    <3> QED BY <3>1, <3>2
  <2> QED BY <1>6, <1>9, <2>1 DEF Named
<1> DEFINE g == BalancesOf(vs)
<1>11. /\ Counts(vs) \in [D -> Nat] /\ g \in [D -> Nat]
       /\ \A i \in D : g[i] = vs[i].balance /\ Counts(vs)[i] = vs[i].iteration_tx_count
  <2>1. Counts(vs) \in [D -> Nat] /\ g \in [D -> Nat]
    BY <1>9, ColumnsType DEF D
  <2> QED BY <1>6, <2>1 DEF BalancesOf, Counts
<1> HIDE DEF g
<1>12. t \in D /\ IsFiniteSet(D)
  BY <1>1, <1>2
<1>13. Total(Counts(vs)) = Total(Counts(ws)) + 2 * (m - 1)
  <2> DEFINE ones == [i \in D |-> 1]
             d    == [i \in D |-> IF i = t THEN m - 1 ELSE 1]
  <2>1. /\ ones \in [D -> Nat] /\ d \in [D -> Nat] /\ ones[t] = 1 /\ d[t] = m - 1
        /\ \A i \in D : ones[i] = 1
        /\ \A i \in D \ {t} : d[i] = ones[i]
        /\ \A i \in D : Counts(vs)[i] = Counts(ws)[i] + d[i]
    <3>1. m - 1 \in Nat
      BY <1>1 DEF D
    <3>2. \A i \in D : Counts(vs)[i] = Counts(ws)[i] + d[i]
      <4> TAKE i \in D
      <4>1. Counts(ws)[i] \in Nat
        BY <1>2
      <4>2. CASE i = t
        BY <1>1, <1>3, <1>8, <1>11, <3>1, <4>1, <4>2
      <4>3. CASE i # t
        BY <1>3, <1>7, <1>11, <4>1, <4>3
      <4> QED BY <4>2, <4>3
    <3> QED BY <1>1, <3>1, <3>2
  <2> HIDE DEF ones, d
  <2>2. Total(Counts(vs)) = Total(Counts(ws)) + Total(d)
    BY <1>2, <1>11, <2>1, TotalAdd
  <2>3. Total(ones) = Cardinality(D) * 1
    BY <1>2, <2>1, TotalConstant
  <2>4. Total(d) = Total(ones) - ones[t] + d[t]
    BY <1>12, <2>1, TotalUpdate
  <2> QED BY <1>1, <1>2, <2>1, <2>2, <2>3, <2>4
<1>14. ASSUME Total(f) <= MaxU64
       PROVE  Total(g) = Total(f)
  <2> DEFINE h == [i \in D |-> f[i] - taken[i]]
  <2>1. /\ h \in [D -> Nat]
        /\ \A i \in D : h[i] = f[i] - taken[i]
        /\ \A i \in D : f[i] = h[i] + taken[i]
    <3>1. \A i \in D : f[i] \in Nat /\ taken[i] \in Nat /\ taken[i] <= f[i]
      BY <1>2, <1>4
    <3>2. \A i \in D : f[i] - taken[i] \in Nat /\ f[i] = (f[i] - taken[i]) + taken[i]
      BY <3>1
    <3> QED BY <3>2
  <2> HIDE DEF h
  <2>2. Total(f) = Total(h) + Total(taken) /\ Total(h) \in Nat
    BY <1>2, <1>4, <2>1, TotalAdd, TotalType
  <2>3. moved = Total(taken)
    BY <1>2, <1>5, <1>14, <2>2 DEF moved, SmallerOf
  <2>4. h[t] <= Total(h)
    BY <1>1, <1>2, <2>1, TotalBound
  <2>5. h[t] = f[t] /\ f[t] \in Nat
    BY <1>1, <1>2, <1>4, <2>1
  <2>6. g[t] = f[t] + moved
    <3>1. g[t] = SatAdd(f[t], moved)
      BY <1>1, <1>8, <1>11
    <3>2. f[t] + moved <= MaxU64
      BY <1>5, <1>14, <2>2, <2>3, <2>4, <2>5
    <3> QED BY <1>5, <2>5, <3>1, <3>2 DEF SatAdd
  <2>7. \A i \in D \ {t} : g[i] = h[i]
    BY <1>7, <1>11, <2>1
  <2>8. Total(g) = Total(h) - h[t] + g[t]
    <3>1. g \in [D -> Nat]
      BY <1>11
    <3> QED BY <1>12, <2>1, <2>7, <3>1, TotalUpdate
  <2> QED BY <1>5, <2>2, <2>3, <2>5, <2>6, <2>8
<1>15. Shocked(ws, vs)
  BY <1>9, <1>10, <1>13, <1>14 DEF Shocked, f, g, m
<1> QED BY <1>15 DEF vs, taken

-----------------------------------------------------------------------------
(* The iteration of the Vec.                                               *)

SlotsOf(ws) == {Slot(i) : i \in DOMAIN ws}

\* The Vec as a function of its slots: the same wallets, and none of them a faucet's.
LEMMA SlotsFacts ==
    ASSUME NEW ws \in Seq(SimWallets)
    PROVE  /\ IsFiniteSet(SlotsOf(ws)) /\ Cardinality(SlotsOf(ws)) = Len(ws)
           /\ Slots(ws) \in [SlotsOf(ws) -> SimWallets]
           /\ \A i \in DOMAIN ws : Slot(i) \in SlotsOf(ws) /\ Slots(ws)[Slot(i)] = ws[i]
           /\ \A i, j \in DOMAIN ws : Slot(i) = Slot(j) => i = j
           /\ \A it, idx : FaucetId(it, idx) \notin SlotsOf(ws)
           /\ SlotsOf(ws) # {} => Slot(1) \in SlotsOf(ws)
           /\ Total(Balances(Slots(ws))) = Total(BalancesOf(ws))
<1> DEFINE D == DOMAIN ws
           S == SlotsOf(ws)
           b == [i \in D |-> Slot(i)]
<1>1. D = 1..Len(ws) /\ Len(ws) \in Nat /\ \A i \in D : ws[i] \in SimWallets
  OBVIOUS
<1>2. /\ IsFiniteSet(D) /\ Cardinality(D) = Len(ws)
      /\ BalancesOf(ws) \in [D -> Nat]
  BY <1>1, ColumnsType
<1>3. \A i, j \in D : Slot(i) = Slot(j) => i = j
  BY DEF Slot
<1>4. \A i \in D : Slot(i) \in S /\ Slot(i)[2] = i
  BY DEF SlotsOf, Slot
<1>5. \A s \in S : \E i \in D : s = Slot(i)
  BY DEF SlotsOf
<1>6. S # {} => Slot(1) \in S
  <2> SUFFICES ASSUME S # {} PROVE 1 \in D
    BY <1>4
  <2>1. PICK i \in D : TRUE
    BY <1>5
  <2> QED BY <1>1, <2>1
<1>7. \A it, idx : FaucetId(it, idx) \notin S
  <2> SUFFICES ASSUME NEW it, NEW idx, FaucetId(it, idx) \in S PROVE FALSE
    OBVIOUS
  <2>1. PICK i \in D : FaucetId(it, idx) = Slot(i)
    BY <1>5
  <2> QED BY <2>1 DEF FaucetId, Slot
<1>8. Slots(ws) = [s \in S |-> ws[s[2]]]
  BY DEF Slots, SlotsOf
<1>9. Slots(ws) \in [S -> SimWallets] /\ \A i \in D : Slots(ws)[Slot(i)] = ws[i]
  <2> HIDE DEF S
  <2>1. \A i \in D : Slots(ws)[Slot(i)] = ws[i]
    BY <1>4, <1>8
  <2>2. \A s \in S : ws[s[2]] \in SimWallets
    BY <1>1, <1>4, <1>5
  <2> QED BY <1>8, <2>1, <2>2
<1> HIDE DEF D, S
<1>10. b \in Bijection(D, S)
  <2>1. b \in [D -> S]
    BY <1>4
  <2> QED BY <1>3, <1>5, <2>1 DEF Bijection, Injection, Surjection, IsInjective
<1>11. IsFiniteSet(S) /\ Cardinality(S) = Cardinality(D)
  <2>1. ExistsBijection(D, S)
    BY <1>10 DEF ExistsBijection
  <2>2. IsFiniteSet(D)
    BY <1>2
  <2> QED BY <2>1, <2>2, FS_Bijection
<1>12. Total(Balances(Slots(ws))) = Total(BalancesOf(ws))
  <2> DEFINE f == BalancesOf(ws)
             g == Balances(Slots(ws))
  <2>1. g \in [S -> Nat] /\ \A s \in S : g[s] = Slots(ws)[s].balance
    <3>1. \A s \in S : Slots(ws)[s].balance \in Nat
      BY <1>9, WalletFields
    <3>2. DOMAIN Slots(ws) = S
      BY <1>9
    <3> QED BY <3>1, <3>2 DEF Balances
  <2>2. \A i \in D : f[i] = ws[i].balance
    BY DEF BalancesOf, D
  <2>3. \A i \in D : g[b[i]] = f[i]
    BY <1>4, <1>9, <2>1, <2>2
  <2>4. IsFiniteSet(D) /\ f \in [D -> Nat]
    BY <1>2
  <2> HIDE DEF f, g, b
  <2>5. Total(g) = Total(f)
    BY <1>10, <2>1, <2>3, <2>4, TotalRename
  <2> QED BY <2>5 DEF f, g
<1> QED BY <1>2, <1>3, <1>4, <1>6, <1>7, <1>9, <1>11, <1>12 DEF D, S

\* The iteration clears the activity, and names the faucet's wallets after those that were there.
Iterated(ws, vs, after, planned) ==
    /\ Named(vs)
    /\ Len(vs) = Len(ws) + planned
    /\ Total(Counts(vs)) = 0
    /\ Total(BalancesOf(vs)) = Total(Balances(after))

\* What ReId makes of the Vec that execute_iteration returns.
LEMMA ReIdNames ==
    ASSUME NEW ws, Named(ws), next_wallet_idx = Len(ws),
           NEW it \in Nat \ {0}, NEW planned \in Nat, NEW seed \in 0..MaxU64,
           NEW r, r.commit.iteration_id = it, r.n_wallets = Len(ws) + planned,
           DOMAIN r.wallets = SlotsOf(ws) \cup FreshIds(it, planned),
           \A s \in SlotsOf(ws) : /\ r.wallets[s] \in SimWallets
                                  /\ SamePerson(r.wallets[s], Slots(ws)[s])
                                  /\ r.wallets[s].iteration_tx_count = 0
                                  /\ r.wallets[s].iteration_counterparties = {},
           \A w \in FreshIds(it, planned) : r.wallets[w].balance = seed
    PROVE  Iterated(ws, ReId(Returned(ws, r), it), r.wallets, planned)
<1> DEFINE m   == Len(ws)
           D   == 1..m
           T   == (m + 1)..(m + planned)
           N   == 1..(m + planned)
           F   == FreshIds(it, planned)
           S   == SlotsOf(ws)
           ret == Returned(ws, r)
           vs  == ReId(ret, it)
<1>1. /\ ws \in Seq(SimWallets) /\ m \in Nat /\ DOMAIN ws = D
      /\ \A i \in D : ws[i].id = i - 1 /\ ws[i].created_at_iteration = 0
  BY DEF Named
<1>2. /\ \A i \in D : Slot(i) \in S /\ Slots(ws)[Slot(i)] = ws[i]
      /\ \A i, j \in D : Slot(i) = Slot(j) => i = j
      /\ \A idx : FaucetId(it, idx) \notin S
  BY <1>1, SlotsFacts
<1> HIDE DEF m
<1>3. /\ N = D \cup T /\ D \cap T = {}
      /\ \A i \in D : i <= m
      /\ \A i \in T : ~(i <= m) /\ i - m - 1 \in 0..(planned - 1) /\ i - 1 \in Nat
  BY <1>1
<1>4. \A i \in T : FaucetId(it, i - m - 1) \in F
  BY <1>3 DEF FreshIds
<1>5. ret = [i \in N |-> IF i <= m THEN r.wallets[Slot(i)]
                         ELSE [SimWallet(FaucetId(it, i - m - 1),
                                         r.wallets[FaucetId(it, i - m - 1)].balance)
                                 EXCEPT !.created_at_iteration = it]]
  BY Zenon DEF Returned, m
<1> HIDE DEF ret
<1>6. \A i \in D : ret[i] = r.wallets[Slot(i)]
  BY <1>3, <1>5
<1>7. \A i \in T : ret[i].created_at_iteration = it /\ ret[i].balance = seed
  <2> TAKE i \in T
  <2> DEFINE id == FaucetId(it, i - m - 1)
  <2>1. id \in F /\ i \in N /\ ~(i <= m)
    BY <1>3, <1>4
  <2>2. r.wallets[id].balance = seed
    BY <2>1
  <2>3. ret[i] = [SimWallet(id, r.wallets[id].balance) EXCEPT !.created_at_iteration = it]
    BY <1>5, <2>1
  <2> HIDE DEF id
  <2>4. ret[i] = [SimWallet(id, seed) EXCEPT !.created_at_iteration = it]
    BY <2>2, <2>3
  <2> QED BY <2>4 DEF SimWallet
<1>8. \A i \in D : /\ ret[i] \in SimWallets /\ ret[i].id = i - 1
                   /\ ret[i].created_at_iteration = 0
                   /\ ret[i].iteration_tx_count = 0 /\ ret[i].iteration_counterparties = {}
  <2> TAKE i \in D
  <2>1. Slot(i) \in S /\ Slots(ws)[Slot(i)] = ws[i]
    BY <1>2
  <2>2. /\ r.wallets[Slot(i)] \in SimWallets
        /\ SamePerson(r.wallets[Slot(i)], ws[i])
        /\ r.wallets[Slot(i)].iteration_tx_count = 0
        /\ r.wallets[Slot(i)].iteration_counterparties = {}
    BY <2>1
  <2> QED BY <1>1, <1>6, <2>2 DEF SamePerson
<1>9. vs = [i \in N |->
              IF ret[i].created_at_iteration = it
              THEN SimWallet(m + Cardinality({j \in 1..(i - 1) :
                                                 ret[j].created_at_iteration = it}),
                             ret[i].balance)
              ELSE ret[i]]
  <2>1. DOMAIN ret = N
    BY <1>5
  <2> QED BY <2>1, Zenon DEF ReId, m
<1> HIDE DEF vs
<1>10. \A i \in D : vs[i] = ret[i]
  BY <1>3, <1>8, <1>9
<1>11. \A i \in T : vs[i] = SimWallet(i - 1, seed)
  <2> TAKE i \in T
  <2> DEFINE news == {j \in 1..(i - 1) : ret[j].created_at_iteration = it}
             c    == Cardinality(news)
  <2>1. news = (m + 1)..(i - 1)
    <3>1. \A j \in 1..(i - 1) : j \in D \/ j \in (m + 1)..(i - 1)
      BY <1>1, <1>3
    <3>2. \A j \in (m + 1)..(i - 1) : j \in T /\ j \in 1..(i - 1)
      BY <1>1, <1>3
    <3>3. \A j \in D : ret[j].created_at_iteration # it
      BY <1>8
    <3> QED BY <1>7, <3>1, <3>2, <3>3
  <2>2. m + 1 \in Int /\ i - 1 \in Int
    BY <1>1, <1>3
  <2>3. Cardinality((m + 1)..(i - 1)) = IF m + 1 > i - 1 THEN 0 ELSE (i - 1) - (m + 1) + 1
    BY <2>2, FS_Interval
  <2>4. c = Cardinality((m + 1)..(i - 1))
    BY <2>1, Zenon
  <2>5. i \in N /\ ret[i].created_at_iteration = it /\ ret[i].balance = seed
    BY <1>3, <1>7
  <2>6. vs[i] = SimWallet(m + c, seed)
    BY <1>9, <2>5
  <2> HIDE DEF c
  <2>7. m + c = i - 1
    <3> DEFINE e == Cardinality((m + 1)..(i - 1))
    <3>1. e = IF m + 1 > i - 1 THEN 0 ELSE (i - 1) - (m + 1) + 1
      BY <2>3
    <3>2. c = e
      BY <2>4
    <3> HIDE DEF e
    <3> QED BY <1>1, <1>3, <3>1, <3>2
  <2> QED BY <2>6, <2>7
<1>12. \A i \in T : /\ vs[i] \in SimWallets /\ vs[i].id = i - 1
                    /\ vs[i].created_at_iteration = 0 /\ vs[i].balance = seed
                    /\ vs[i].iteration_tx_count = 0 /\ vs[i].iteration_counterparties = {}
  BY <1>3, <1>11, SimWalletFields
<1>13. \A i \in N : /\ vs[i] \in SimWallets /\ vs[i].id = i - 1
                    /\ vs[i].created_at_iteration = 0
                    /\ vs[i].iteration_tx_count = 0 /\ vs[i].iteration_counterparties = {}
  BY <1>3, <1>8, <1>10, <1>12
<1>14. /\ DOMAIN vs = N /\ vs \in [N -> SimWallets]
  BY <1>9, <1>13
<1>15. vs \in Seq(SimWallets) /\ Len(vs) = m + planned
  BY <1>1, <1>14
<1>16. Named(vs)
  BY <1>13, <1>14, <1>15 DEF Named
<1>17. /\ IsFiniteSet(N) /\ Counts(vs) \in [N -> Nat] /\ BalancesOf(vs) \in [N -> Nat]
       /\ \A i \in N : Counts(vs)[i] = 0 /\ BalancesOf(vs)[i] = vs[i].balance
  <2>1. IsFiniteSet(N) /\ Counts(vs) \in [N -> Nat] /\ BalancesOf(vs) \in [N -> Nat]
    BY <1>15, ColumnsType
  <2> QED BY <1>13, <1>14, <2>1 DEF Counts, BalancesOf
<1> HIDE DEF N, D, T, F, S
<1>18. Total(Counts(vs)) = 0
  <2> DEFINE f == Counts(vs)
  <2>1. IsFiniteSet(N) /\ f \in [N -> Nat] /\ \A i \in N : f[i] = 0
    BY <1>17
  <2> HIDE DEF f
  <2>2. Total(f) = Cardinality(N) * 0 /\ Cardinality(N) \in Nat
    BY <2>1, TotalConstant, FS_CardinalityType
  <2>3. Total(f) = 0
    BY <2>2
  <2> QED BY <2>3 DEF f
<1>19. Total(BalancesOf(vs)) = Total(Balances(r.wallets))
  <2> DEFINE b == [i \in N |-> IF i \in D THEN Slot(i) ELSE FaucetId(it, i - m - 1)]
             f == BalancesOf(vs)
             g == Balances(r.wallets)
  <2>1. \A i \in D : b[i] = Slot(i)
    BY <1>3
  <2>2. \A i \in T : b[i] = FaucetId(it, i - m - 1) /\ i \in N
    BY <1>3
  <2>3. \A i \in N : b[i] \in S \cup F
    BY <1>2, <1>3, <1>4, <2>1, <2>2
  <2>4. \A i, j \in N : b[i] = b[j] => i = j
    <3> SUFFICES ASSUME NEW i \in N, NEW j \in N, b[i] = b[j] PROVE i = j
      BY Zenon
    <3>1. CASE i \in D /\ j \in D
      BY <1>2, <2>1, <3>1
    <3>2. CASE i \in D /\ j \in T
      BY <1>2, <2>1, <2>2, <3>2
    <3>3. CASE i \in T /\ j \in D
      BY <1>2, <2>1, <2>2, <3>3
    <3>4. CASE i \in T /\ j \in T
      <4>1. FaucetId(it, i - m - 1) = FaucetId(it, j - m - 1)
        BY <2>2, <3>4
      <4>2. i - m - 1 = j - m - 1
        BY <4>1 DEF FaucetId
      <4> QED BY <1>1, <3>4, <4>2 DEF T
    <3> QED BY <1>3, <3>1, <3>2, <3>3, <3>4
  <2>5. \A w \in S \cup F : \E i \in N : b[i] = w
    <3> TAKE w \in S \cup F
    <3>1. CASE w \in S
      <4>1. PICK i \in D : w = Slot(i)
        BY <1>1, <3>1 DEF S, SlotsOf
      <4> QED BY <1>3, <2>1, <4>1
    <3>2. CASE w \in F
      <4>1. PICK idx \in 0..(planned - 1) : w = FaucetId(it, idx)
        BY <3>2 DEF F, FreshIds
      <4>2. m + 1 + idx \in T /\ (m + 1 + idx) - m - 1 = idx
        BY <1>1, <4>1 DEF T
      <4> QED BY <2>2, <4>1, <4>2
    <3> QED BY <3>1, <3>2
  <2>6. b \in Bijection(N, S \cup F)
    <3>1. b \in [N -> S \cup F]
      BY <2>3
    <3> HIDE DEF b
    <3> QED BY <2>4, <2>5, <3>1 DEF Bijection, Injection, Surjection, IsInjective
  <2>7. g \in [S \cup F -> Nat] /\ \A w \in S \cup F : g[w] = r.wallets[w].balance
    <3>1. DOMAIN r.wallets = S \cup F
      BY DEF S, F
    <3>2. \A w \in S : r.wallets[w].balance \in Nat
      BY WalletFields DEF S
    <3>3. \A w \in F : r.wallets[w].balance \in Nat
      BY DEF F
    <3> QED BY <3>1, <3>2, <3>3 DEF Balances
  <2>8. \A i \in N : g[b[i]] = f[i]
    <3> TAKE i \in N
    <3>1. f[i] = vs[i].balance
      BY <1>17
    <3>2. g[b[i]] = r.wallets[b[i]].balance
      BY <2>3, <2>7
    <3>3. CASE i \in D
      BY <1>6, <1>10, <2>1, <3>1, <3>2, <3>3
    <3>4. CASE i \in T
      <4>1. b[i] \in F
        BY <1>4, <2>2, <3>4
      <4>2. r.wallets[b[i]].balance = seed
        BY <4>1 DEF F
      <4> QED BY <1>12, <3>1, <3>2, <3>4, <4>2
    <3> QED BY <1>3, <3>3, <3>4
  <2>9. IsFiniteSet(N) /\ f \in [N -> Nat]
    BY <1>17
  <2> DEFINE W == S \cup F
  <2>10. b \in Bijection(N, W) /\ g \in [W -> Nat]
    BY <2>6, <2>7
  <2> HIDE DEF b, f, g, W
  <2>11. Total(g) = Total(f)
    BY <2>8, <2>9, <2>10, TotalRename
  <2> QED BY <2>11 DEF f, g
<1>20. Iterated(ws, vs, r.wallets, planned)
  BY <1>15, <1>16, <1>18, <1>19 DEF Iterated, m
<1> QED BY <1>20 DEF vs, ret

\* What one call of execute_iteration does to the Vec and to the books: as long as the supply
\* fits its type before and after, the commit's figures are the supplies, and explain them.
IterationStep(ws, vs, commit, p, sys) ==
    /\ Named(vs)
    /\ Cardinality(commit.new_wallets) \in Nat
    /\ Len(vs) = Len(ws) + Cardinality(commit.new_wallets)
    /\ Total(Counts(vs)) = 0
    /\ commit.iteration_id = sys.current_iteration + 1
    /\ commit.inflation = Inflation(sys)
    /\ commit.snapshot_supply \in Nat
    /\ commit.post_supply \in Nat
    /\ (Total(BalancesOf(ws)) <= MaxU64 /\ Total(BalancesOf(vs)) <= MaxU64) =>
          /\ commit.snapshot_supply = Total(BalancesOf(ws))
          /\ commit.post_supply = Total(BalancesOf(vs))
          /\ commit.faucet_from_mint \in Nat
          /\ commit.burned \in Nat
          /\ Total(BalancesOf(vs)) = Total(BalancesOf(ws)) + commit.faucet_from_mint
                                        - commit.burned

\* Room in the type: a sum that fits does not wrap around.
LEMMA SumFits ==
    ASSUME NEW n \in Nat, n <= MaxU64
    PROVE  n % (MaxU64 + 1) = n
<1>1. MaxU64 + 1 \in Nat \ {0} /\ n \in 0..((MaxU64 + 1) - 1)
  OBVIOUS
<1> DEFINE m == MaxU64 + 1
<1> HIDE DEF m
<1>2. m \in Nat \ {0} /\ n \in 0..(m - 1)
  BY <1>1 DEF m
<1>3. n % m = n
  BY <1>2
<1> QED BY <1>3 DEF m

LEMMA IterationOfTheVec ==
    ASSUME NEW ws, Named(ws), next_wallet_idx = Len(ws), NEW p \in Parameters, NEW sys,
           sys.current_iteration \in Nat,
           sys.previous_iteration_supply \in Nat,
           sys.previous_iteration_start_supply \in Nat
    PROVE  IterationStep(ws,
                         ReId(Returned(ws, ExecuteIteration(Slots(ws), p, sys, Slot(1))),
                              ExecuteIteration(Slots(ws), p, sys, Slot(1)).commit.iteration_id),
                         ExecuteIteration(Slots(ws), p, sys, Slot(1)).commit, p, sys)
<1> DEFINE S       == SlotsOf(ws)
           sl      == Slots(ws)
           co      == Coins(sl)
           first   == Slot(1)
           it      == sys.current_iteration + 1
           planned == PlannedNewWallets(p, Cardinality(S))
           F       == FreshIds(it, planned)
           r       == ExecuteIteration(sl, p, sys, first)
           c       == ExecuteIteration(co, p, sys, first)
           seed    == p.seed
           id      == r.commit.iteration_id
           vs      == ReId(Returned(ws, r), id)
<1>1. ws \in Seq(SimWallets) /\ Len(ws) \in Nat
  BY DEF Named
<1>2. /\ IsFiniteSet(S) /\ Cardinality(S) = Len(ws)
      /\ sl \in [S -> SimWallets]
      /\ \A i, idx : FaucetId(i, idx) \notin S
      /\ S # {} => first \in S
      /\ Total(Balances(sl)) = Total(BalancesOf(ws))
  BY <1>1, SlotsFacts
<1> HIDE DEF S, sl
<1>3. co \in [S -> WalletRecord(Nat)] /\ AllAlike(sl, co)
  BY <1>2, CoinsAreAlike
<1>4. Balances(sl) = Balances(co)
  BY <1>3, AlikePenalties
<1>5. Cardinality(S) \in Nat /\ it \in Nat \ {0} /\ planned \in Nat
  <2>1. Cardinality(S) \in Nat
    BY <1>2, FS_CardinalityType
  <2>2. planned \in Nat
    <3> DEFINE n == Cardinality(S)
    <3>1. n \in Nat
      BY <2>1
    <3> HIDE DEF n
    <3>2. PlannedNewWallets(p, n) \in Nat
      BY <3>1, PlannedType
    <3> QED BY <3>2 DEF n
  <2>3. it \in Nat \ {0}
    OBVIOUS
  <2> QED BY <2>1, <2>2, <2>3
<1>6. IteratesAlike(r, c, S, F, sl, p, it)
  <2>1. \A idx \in Nat : FaucetId(sys.current_iteration + 1, idx) \notin S
    BY <1>2
  <2> QED BY <1>2, <2>1, SimIteration
<1> HIDE DEF co, first
<1>7. LET G == c.commit.new_wallets
      IN  /\ IsFiniteSet(G) /\ S \cap G = {}
          /\ c.n_wallets = Cardinality(S \cup G)
          /\ c.commit.iteration_id = it
          /\ c.commit.inflation \in Int
          /\ c.commit.snapshot_supply \in 0..MaxU64
          /\ c.commit.post_supply = Total(Balances(c.wallets)) % (MaxU64 + 1)
          /\ Total(Balances(c.wallets)) \in Nat
  <2>1. \A idx \in Nat : FaucetId(sys.current_iteration + 1, idx) \notin S
    BY <1>2
  <2>2. LET q == ExecuteIteration(co, p, sys, first)
            K == q.commit.new_wallets
        IN  /\ IsFiniteSet(K) /\ K \subseteq FaucetIds /\ S \cap K = {}
            /\ K = FreshIds(sys.current_iteration + 1, PlannedNewWallets(p, Cardinality(S)))
            /\ q.wallets \in [S \cup K -> WalletRecord(Nat)]
            /\ \A w \in S : /\ q.wallets[w].nonce = co[w].nonce
                            /\ q.wallets[w].last_active_iteration = co[w].last_active_iteration
            /\ \A w \in K : q.wallets[w] = NewWallet(p.seed, sys.current_iteration + 1)
            /\ q.n_wallets = Cardinality(S \cup K)
            /\ q.commit.iteration_id = sys.current_iteration + 1
            /\ q.commit.inflation \in Int
            /\ q.commit.snapshot_supply \in 0..MaxU64
            /\ q.commit.post_supply = Total(Balances(q.wallets)) % (MaxU64 + 1)
            /\ Total(Balances(q.wallets)) \in Nat
    BY <1>2, <1>3, <2>1, IterationFacts, Zenon
  <2> QED BY <2>2, Zenon DEF c, it
<1>8. c.commit.inflation = Inflation(sys) /\ c.commit.snapshot_supply = SumU64(Balances(co))
  <2> DEFINE supply == SumU64(Balances(co))
             pen    == Penalties(co, p)
             taken  == Collect(co, p, pen)
             pool   == RedistributionPool(p, Cardinality(S), SumU64(pen), BurnRate(p, sys))
             shares == Shares(taken, p, pool)
  <2>1. Outcome(c, Cardinality(S), supply, pen, taken, shares, p, first, sys)
    BY <1>3, IterationOutcome
  <2> HIDE DEF c, supply, pen, taken, shares
  <2>2. c.commit.inflation = Inflation(sys) /\ c.commit.snapshot_supply = supply
    BY <2>1 DEF Outcome
  <2> QED BY <2>2 DEF supply
<1>9. /\ r.n_wallets = c.n_wallets
      /\ r.commit.new_wallets = F /\ c.commit.new_wallets = F
      /\ r.commit.iteration_id = c.commit.iteration_id
      /\ r.commit.inflation = c.commit.inflation
      /\ r.commit.snapshot_supply = c.commit.snapshot_supply
      /\ r.commit.burned = c.commit.burned
      /\ r.commit.faucet_from_mint = c.commit.faucet_from_mint
      /\ r.commit.post_supply = c.commit.post_supply
      /\ DOMAIN r.wallets = S \cup F
      /\ Balances(r.wallets) = Balances(c.wallets)
      /\ \A s \in S : /\ r.wallets[s] \in SimWallets
                      /\ SamePerson(r.wallets[s], sl[s])
                      /\ r.wallets[s].iteration_tx_count = 0
                      /\ r.wallets[s].iteration_counterparties = {}
      /\ \A w \in F : r.wallets[w] = NewWallet(seed, it)
  <2> HIDE DEF r, c, F
  <2> QED BY <1>6 DEF IteratesAlike
<1>10. seed \in 0..MaxU64
  BY DEF Parameters
<1> HIDE DEF planned, it
<1>11. IsFiniteSet(F) /\ Cardinality(F) = planned
  BY <1>5, FreshIdsCardinality
<1> HIDE DEF r, c, seed, F
<1>12. r.n_wallets = Len(ws) + planned
  <2>1. /\ IsFiniteSet(S) /\ IsFiniteSet(F) /\ S \cap F = {}
        /\ r.n_wallets = Cardinality(S \cup F)
    BY <1>2, <1>7, <1>9
  <2>2. Cardinality(S \cup F) = Cardinality(S) + Cardinality(F) - Cardinality(S \cap F)
    BY <2>1, FS_Union
  <2>3. Cardinality(S \cap F) = 0
    BY <2>1, FS_EmptySet, Zenon
  <2>4. r.n_wallets = Cardinality(S) + planned - 0
    BY <1>11, <2>1, <2>2, <2>3
  <2> QED BY <1>2, <1>5, <2>4
<1>13. \A w \in F : r.wallets[w].balance = seed
  <2>1. NewWallet(seed, it).balance = seed
    BY DEF NewWallet
  <2> QED BY <1>9, <2>1
<1>14. r.commit.iteration_id = it
  BY <1>7, <1>9
<1>15. Iterated(ws, ReId(Returned(ws, r), it), r.wallets, planned)
  <2>1. /\ DOMAIN r.wallets = SlotsOf(ws) \cup FreshIds(it, planned)
        /\ \A s \in SlotsOf(ws) : /\ r.wallets[s] \in SimWallets
                                  /\ SamePerson(r.wallets[s], Slots(ws)[s])
                                  /\ r.wallets[s].iteration_tx_count = 0
                                  /\ r.wallets[s].iteration_counterparties = {}
        /\ \A w \in FreshIds(it, planned) : r.wallets[w].balance = seed
    BY <1>9, <1>13 DEF S, sl, F
  <2> QED BY <1>5, <1>10, <1>12, <1>14, <2>1, ReIdNames
<1>16. vs = ReId(Returned(ws, r), it)
  BY <1>14
<1> HIDE DEF vs, id
<1>17. /\ Named(vs) /\ Len(vs) = Len(ws) + planned /\ Total(Counts(vs)) = 0
       /\ Total(BalancesOf(vs)) = Total(Balances(r.wallets))
  BY <1>15, <1>16, Zenon DEF Iterated
<1>18. Total(Balances(r.wallets)) = Total(Balances(c.wallets))
  BY <1>9
<1>19. Total(Balances(co)) = Total(BalancesOf(ws)) /\ Total(BalancesOf(ws)) \in Nat
  BY <1>1, <1>2, <1>4, ColumnsType
<1>20. r.commit.snapshot_supply \in Nat /\ r.commit.post_supply \in Nat
  <2> DEFINE total == Total(Balances(c.wallets))
  <2>1. total \in Nat /\ r.commit.post_supply = total % (MaxU64 + 1)
    BY <1>7, <1>9
  <2>2. r.commit.snapshot_supply \in 0..MaxU64
    BY <1>7, <1>9
  <2> HIDE DEF total
  <2>3. total % (MaxU64 + 1) \in Nat
    BY <2>1
  <2> QED BY <2>1, <2>2, <2>3
<1>21. ASSUME Total(BalancesOf(ws)) <= MaxU64, Total(BalancesOf(vs)) <= MaxU64
       PROVE  /\ r.commit.snapshot_supply = Total(BalancesOf(ws))
              /\ r.commit.post_supply = Total(BalancesOf(vs))
              /\ r.commit.faucet_from_mint \in Nat
              /\ r.commit.burned \in Nat
              /\ Total(BalancesOf(vs)) = Total(BalancesOf(ws)) + r.commit.faucet_from_mint
                                            - r.commit.burned
  <2> DEFINE before == Total(Balances(co))
             after  == Total(Balances(c.wallets))
  <2>1. before = Total(BalancesOf(ws)) /\ before \in Nat /\ before <= MaxU64
    BY <1>19, <1>21
  <2>2. after = Total(BalancesOf(vs)) /\ after \in Nat /\ after <= MaxU64
    BY <1>7, <1>17, <1>18, <1>21
  <2>3. r.commit.snapshot_supply = before % (MaxU64 + 1)
    BY <1>8, <1>9 DEF SumU64
  <2>4. r.commit.post_supply = after % (MaxU64 + 1)
    BY <1>7, <1>9
  <2>5. CommitExplains(co, S, c.commit, c.wallets)
    <3>1. AtMost(Balances(co), MaxU64) /\ AtMost(Balances(c.wallets), MaxU64)
      BY <2>1, <2>2 DEF AtMost
    <3>2. \A idx \in Nat : FaucetId(sys.current_iteration + 1, idx) \notin S
      BY <1>2
    <3>3. S # {} => first \in S
      BY <1>2
    <3>4. AtMost(Balances(ExecuteIteration(co, p, sys, first).wallets), MaxU64)
      BY <3>1 DEF c
    <3>5. CommitExplains(co, S, ExecuteIteration(co, p, sys, first).commit,
                         ExecuteIteration(co, p, sys, first).wallets)
      BY <1>2, <1>3, <3>1, <3>2, <3>3, <3>4, IterationConserves
    <3> QED BY <3>5 DEF c
  <2>6. /\ c.commit.faucet_from_mint \in Nat /\ c.commit.burned \in Nat
        /\ after = before + c.commit.faucet_from_mint - c.commit.burned
    BY <2>5, Zenon DEF CommitExplains
  <2> HIDE DEF before, after
  <2>7. before % (MaxU64 + 1) = before /\ after % (MaxU64 + 1) = after
    BY <2>1, <2>2, SumFits
  <2> QED BY <1>9, <2>1, <2>2, <2>3, <2>4, <2>6, <2>7
<1>22. Cardinality(r.commit.new_wallets) = planned
  BY <1>9, <1>11, Zenon
<1>23. r.commit.iteration_id = sys.current_iteration + 1 /\ r.commit.inflation = Inflation(sys)
  BY <1>8, <1>9, <1>14 DEF it
<1>24. IterationStep(ws, vs, r.commit, p, sys)
  BY <1>5, <1>17, <1>20, <1>21, <1>22, <1>23 DEF IterationStep
<1> QED BY <1>24 DEF vs, id, r, sl, first

-----------------------------------------------------------------------------
(* The state, and what every step does to it.                              *)

\* The rows are a sequence; what is in them does not matter here.
IsRows(rows) == \E T : rows \in Seq(T)

Shape ==
    /\ parameters \in SimParameters
    /\ script \in Scripts
    /\ Named(wallets)
    /\ next_wallet_idx = Len(wallets)
    /\ state.current_iteration = Len(metrics)
    /\ state.previous_iteration_supply \in Nat
    /\ state.previous_iteration_start_supply \in Nat
    /\ IsRows(metrics)
    /\ cursor \in Nat \ {0}
    /\ repeats \in Nat
    /\ n_txs \in Nat

LEMMA EventFields ==
    ASSUME NEW s \in Scripts, NEW i \in DOMAIN s
    PROVE  /\ s[i] \in Events
           /\ s[i].action # "unknown" => s[i].at_iteration \in Nat
           /\ s[i].action = "spawn_wallets" =>
                 /\ s[i].count \in Nat
                 /\ s[i].balance # << >> => s[i].balance[1] \in 0..MaxU64
           /\ s[i].action = "charge_burst" => s[i].amount \in Nat /\ s[i].n_targets \in Nat
           /\ s[i].action = "transfer_burst" => s[i].n_txs \in Nat
           /\ s[i].action = "wealth_shock" => s[i].fraction \in Int
<1> DEFINE e == s[i]
<1>1. e \in Events
  BY ScriptsAssumption
<1> HIDE DEF e
<1>2. e.action # "unknown" => e.at_iteration \in Nat
  BY <1>1 DEF Events
<1>3. ASSUME e.action = "spawn_wallets"
      PROVE  e.count \in Nat /\ (e.balance # << >> => e.balance[1] \in 0..MaxU64)
  <2>1. e.count \in Nat /\ e.balance \in UNION {[1..n -> 0..MaxU64] : n \in 0..1}
    BY <1>1, <1>3 DEF Events
  <2>2. PICK n \in 0..1 : e.balance \in [1..n -> 0..MaxU64]
    BY <2>1
  <2>3. CASE n = 1
    BY <2>1, <2>2, <2>3
  <2>4. CASE n = 0
    <3>1. e.balance = << >>
      BY <2>2, <2>4
    <3> QED BY <2>1, <3>1
  <2> QED BY <2>2, <2>3, <2>4
<1>4. e.action = "charge_burst" => e.amount \in Nat /\ e.n_targets \in Nat
  BY <1>1 DEF Events
<1>5. e.action = "transfer_burst" => e.n_txs \in Nat
  BY <1>1 DEF Events
<1>6. e.action = "wealth_shock" => e.fraction \in Int
  BY <1>1 DEF Events
<1> QED BY <1>1, <1>2, <1>3, <1>4, <1>5, <1>6 DEF e

LEMMA EventAtCursor ==
    ASSUME Shape, cursor <= Len(script)
    PROVE  cursor \in DOMAIN script /\ DOMAIN script = 1..Len(script) /\ Len(script) \in Nat
BY ScriptsAssumption DEF Shape

\* One round of a loop of transfers.
LEMMA TransferStep ==
    ASSUME Shape, Len(wallets) >= 2, NEW sender \in DOMAIN wallets, NEW draw \in DOMAIN wallets,
           NEW fraction \in Fractions, Transfer(sender, draw, fraction)
    PROVE  \/ wallets' = wallets /\ n_txs' = n_txs
           \/ Transferred(wallets, wallets') /\ n_txs' = n_txs + 1
<1> DEFINE r == Recipient(sender, draw)
           b == wallets[sender].balance
           a == Portion(fraction, b)
<1>1. /\ Named(wallets) /\ DOMAIN wallets = 1..Len(wallets) /\ Len(wallets) \in Nat
      /\ wallets[sender] \in SimWallets
  BY DEF Shape, Named
<1>2. r \in DOMAIN wallets /\ r # sender
  BY <1>1, RecipientIsAnother
<1>3. a \in Nat /\ a <= b
  <2>1. b \in Nat
    BY <1>1, WalletFields
  <2>2. fraction \in 0..Scale
    BY FractionsAssumption
  <2> HIDE DEF b
  <2> QED BY <2>1, <2>2, PortionAtMost
<1> HIDE DEF r
<1>4. Transferred(wallets, Move(wallets, sender, r, a))
  <2> HIDE DEF a
  <2> QED BY <1>1, <1>2, <1>3, MoveTransfers DEF b
<1>5. /\ wallets' = IF a = 0 THEN wallets ELSE Move(wallets, sender, r, a)
      /\ n_txs' = IF a = 0 THEN n_txs ELSE n_txs + 1
  BY DEF Transfer, r
<1> HIDE DEF a, b
<1>6. CASE a = 0
  BY <1>5, <1>6
<1>7. CASE a # 0
  <2>1. wallets' = Move(wallets, sender, r, a) /\ n_txs' = n_txs + 1
    BY <1>5, <1>7
  <2>2. Transferred(wallets, wallets')
    BY <1>4, <2>1
  <2> QED BY <2>1, <2>2
<1> QED BY <1>6, <1>7

LEMMA SpawnBalanceType ==
    ASSUME Shape, NEW i \in DOMAIN script, script[i].action = "spawn_wallets"
    PROVE  script[i].count \in Nat /\ SpawnBalance(script[i]) \in 0..MaxU64
<1>1. script \in Scripts /\ parameters \in Parameters
  BY SimParametersAssumption DEF Shape
<1>2. /\ script[i].count \in Nat
      /\ script[i].balance # << >> => script[i].balance[1] \in 0..MaxU64
  BY <1>1, EventFields
<1>3. parameters.seed \in 0..MaxU64
  BY <1>1 DEF Parameters
<1> QED BY <1>2, <1>3 DEF SpawnBalance

LEMMA SpawnStep ==
    ASSUME Shape, SpawnWallets
    PROVE  /\ Spawned(wallets, wallets', script[cursor].count, SpawnBalance(script[cursor]))
           /\ script[cursor].count \in Nat
           /\ next_wallet_idx' = next_wallet_idx + script[cursor].count
<1> DEFINE n == script[cursor].count
           b == SpawnBalance(script[cursor])
<1>1. n \in Nat /\ b \in 0..MaxU64
  <2>1. cursor \in DOMAIN script /\ script[cursor].action = "spawn_wallets"
    BY EventAtCursor DEF SpawnWallets, At
  <2> QED BY <2>1, SpawnBalanceType
<1>2. wallets' = wallets \o [i \in 1..n |-> SimWallet(Len(wallets) + i - 1, b)]
  BY DEF SpawnWallets, Shape
<1>3. next_wallet_idx' = next_wallet_idx + n
  BY DEF SpawnWallets, UseNames
<1>4. Named(wallets)
  BY DEF Shape
<1> HIDE DEF n, b
<1>5. Spawned(wallets, wallets \o [i \in 1..n |-> SimWallet(Len(wallets) + i - 1, b)], n, b)
  BY <1>1, <1>4, SpawnAdds
<1>6. Spawned(wallets, wallets', n, b)
  BY <1>2, <1>5, Zenon
<1> QED BY <1>1, <1>3, <1>6 DEF n, b

LEMMA ChargeStep ==
    ASSUME Shape, NEW t \in DOMAIN wallets, ChargeBurst(t)
    PROVE  /\ Charged(wallets, wallets', script[cursor].amount \div script[cursor].n_targets)
           /\ script[cursor].n_targets \in Nat \ {0}
           /\ script[cursor].amount \div script[cursor].n_targets \in Nat
<1> DEFINE e == script[cursor]
           n == e.n_targets
           x == e.amount
           a == x \div n
<1>1. n \in Nat \ {0} /\ x \in Nat
  <2>1. cursor \in DOMAIN script /\ e.action = "charge_burst" /\ script \in Scripts
    BY EventAtCursor DEF ChargeBurst, At, Shape
  <2>2. x \in Nat /\ n \in Nat
    BY <2>1, EventFields
  <2>3. repeats < n /\ repeats \in Nat
    BY DEF ChargeBurst, Shape
  <2> HIDE DEF n, x
  <2> QED BY <2>2, <2>3
<1>2. a \in Nat
  <2> HIDE DEF n, x
  <2> QED BY <1>1, QuotientType
<1>3. wallets' = [wallets EXCEPT ![t].balance = SatAdd(@, a)]
  BY DEF ChargeBurst
<1>4. Named(wallets)
  BY DEF Shape
<1> HIDE DEF a
<1>5. Charged(wallets, [wallets EXCEPT ![t].balance = SatAdd(@, a)], a)
  BY <1>2, <1>4, ChargeCreates
<1>6. Charged(wallets, wallets', a)
  BY <1>3, <1>5, Zenon
<1> QED BY <1>1, <1>2, <1>6 DEF a

LEMMA ShockStep ==
    ASSUME Shape, NEW t \in DOMAIN wallets, WealthShock(t)
    PROVE  Shocked(wallets, wallets')
<1> DEFINE x == script[cursor].fraction
<1>1. x \in Int
  <2>1. cursor \in DOMAIN script /\ script[cursor].action = "wealth_shock" /\ script \in Scripts
    BY EventAtCursor DEF WealthShock, At, Shape
  <2> QED BY <2>1, EventFields
<1>2. wallets' = Shaken(wallets, t, TakenBy(wallets, t, x))
  BY Zenon DEF WealthShock, Shaken, TakenBy, Gainer
<1>3. Named(wallets)
  BY DEF Shape
<1> HIDE DEF x
<1>4. Shocked(wallets, Shaken(wallets, t, TakenBy(wallets, t, x)))
  BY <1>1, <1>3, ShockConcentrates
<1> QED BY <1>2, <1>4, Zenon

LEMMA IterateStep ==
    ASSUME Shape, Iterate
    PROVE  \E commit :
              /\ IterationStep(wallets, wallets', commit, parameters, state)
              /\ next_wallet_idx' = next_wallet_idx + Cardinality(commit.new_wallets)
              /\ state' = Advanced(commit, Len(wallets'))
              /\ metrics' = Append(metrics, Row(commit, wallets'))
<1> DEFINE result == ExecuteIteration(Slots(wallets), parameters, state, Slot(1))
           commit == result.commit
<1>1. /\ wallets' = ReId(Returned(wallets, result), commit.iteration_id)
      /\ next_wallet_idx' = next_wallet_idx + Cardinality(commit.new_wallets)
      /\ state' = Advanced(commit, Len(wallets'))
      /\ metrics' = Append(metrics, Row(commit, wallets'))
  BY Zenon DEF Iterate, UseNames
<1>2. IterationStep(wallets, ReId(Returned(wallets, result), commit.iteration_id), commit,
                    parameters, state)
  <2>1. /\ Named(wallets) /\ next_wallet_idx = Len(wallets) /\ parameters \in Parameters
        /\ state.current_iteration \in Nat
        /\ state.previous_iteration_supply \in Nat
        /\ state.previous_iteration_start_supply \in Nat
    <3>1. Len(metrics) \in Nat
      BY DEF Shape, IsRows
    <3> QED BY <3>1, SimParametersAssumption DEF Shape
  <2> QED BY <2>1, IterationOfTheVec
<1> HIDE DEF result, commit
<1>3. IterationStep(wallets, wallets', commit, parameters, state)
  BY <1>1, <1>2, Zenon
<1> QED BY <1>1, <1>3

\* Which fields the steps leave alone.
Aside == UNCHANGED <<parameters, script, genesis, state, metrics>>

\* A step other than the iteration does one thing to the Vec, and at most one to the rest.
RoundEffect ==
    \/ wallets' = wallets /\ n_txs' = n_txs /\ next_wallet_idx' = next_wallet_idx
    \/ /\ Transferred(wallets, wallets')
       /\ n_txs' = n_txs + 1 /\ next_wallet_idx' = next_wallet_idx
    \/ /\ \E n \in Nat, b \in Nat : /\ Spawned(wallets, wallets', n, b)
                                    /\ next_wallet_idx' = next_wallet_idx + n
       /\ n_txs' = n_txs
    \/ /\ \E a \in Nat : Charged(wallets, wallets', a)
       /\ n_txs' = n_txs /\ next_wallet_idx' = next_wallet_idx
    \/ /\ Shocked(wallets, wallets') /\ ShockDue
       /\ n_txs' = n_txs /\ next_wallet_idx' = next_wallet_idx

LEMMA CursorMoves ==
    ASSUME Shape, NEW n, NextRound(n) \/ NextEvent
    PROVE  cursor' \in Nat \ {0} /\ repeats' \in Nat
BY DEF NextRound, NextEvent, Shape

LEMMA RoundSteps ==
    ASSUME Shape, Rounds
    PROVE  Aside /\ RoundEffect /\ cursor' \in Nat \ {0} /\ repeats' \in Nat
<1>1. CASE SpawnWallets
  <2>1. Aside /\ n_txs' = n_txs /\ NextEvent
    BY <1>1 DEF SpawnWallets, Aside, given
  <2>2. cursor' \in Nat \ {0} /\ repeats' \in Nat
    BY <2>1, CursorMoves
  <2>3. /\ Spawned(wallets, wallets', script[cursor].count, SpawnBalance(script[cursor]))
        /\ script[cursor].count \in Nat
        /\ next_wallet_idx' = next_wallet_idx + script[cursor].count
    BY <1>1, SpawnStep
  <2>4. SpawnBalance(script[cursor]) \in Nat
    <3>1. cursor \in DOMAIN script /\ script[cursor].action = "spawn_wallets"
      BY <1>1, EventAtCursor DEF SpawnWallets, At
    <3>2. SpawnBalance(script[cursor]) \in 0..MaxU64
      BY <3>1, SpawnBalanceType
    <3> QED BY <3>2
  <2> QED BY <2>1, <2>2, <2>3, <2>4 DEF RoundEffect
<1>2. CASE \E sender, draw \in Draws, fraction \in Fractions : TransferBurst(sender, draw, fraction)
  <2>1. PICK sender \in Draws, draw \in Draws, fraction \in Fractions :
           TransferBurst(sender, draw, fraction)
    BY <1>2
  <2>2. /\ Aside /\ next_wallet_idx' = next_wallet_idx /\ NextRound(script[cursor].n_txs)
        /\ Len(wallets) >= 2
    BY <2>1 DEF TransferBurst, Aside, given
  <2>3. cursor' \in Nat \ {0} /\ repeats' \in Nat
    BY <2>2, CursorMoves
  <2>4. \/ wallets' = wallets /\ n_txs' = n_txs
        \/ Transfer(sender, draw, fraction)
    BY <2>1 DEF TransferBurst
  <2>5. \/ wallets' = wallets /\ n_txs' = n_txs
        \/ Transferred(wallets, wallets') /\ n_txs' = n_txs + 1
    BY <2>2, <2>4, TransferStep DEF Draws
  <2> QED BY <2>2, <2>3, <2>5 DEF RoundEffect
<1>3. CASE \E target \in Draws : ChargeBurst(target)
  <2>1. PICK target \in Draws : ChargeBurst(target)
    BY <1>3
  <2>2. /\ Aside /\ next_wallet_idx' = next_wallet_idx /\ NextRound(script[cursor].n_targets)
        /\ n_txs' = n_txs
    BY <2>1 DEF ChargeBurst, Aside, given
  <2>3. cursor' \in Nat \ {0} /\ repeats' \in Nat
    BY <2>2, CursorMoves
  <2>4. /\ Charged(wallets, wallets', script[cursor].amount \div script[cursor].n_targets)
        /\ script[cursor].amount \div script[cursor].n_targets \in Nat
    BY <2>1, ChargeStep DEF Draws
  <2> QED BY <2>2, <2>3, <2>4 DEF RoundEffect
<1>4. CASE \E target \in Draws : WealthShock(target)
  <2>1. PICK target \in Draws : WealthShock(target)
    BY <1>4
  <2>2. /\ Aside /\ next_wallet_idx' = next_wallet_idx /\ NextEvent /\ n_txs' = n_txs
    BY <2>1 DEF WealthShock, Aside, given
  <2>3. cursor' \in Nat \ {0} /\ repeats' \in Nat
    BY <2>2, CursorMoves
  <2>4. Shocked(wallets, wallets')
    BY <2>1, ShockStep DEF Draws
  <2>5. ShockDue
    <3>1. cursor \in DOMAIN script /\ script[cursor].action = "wealth_shock" /\ Due(script[cursor])
      BY <2>1, EventAtCursor DEF WealthShock, At
    <3>2. cursor \in DueIn(state.current_iteration + 1)
      BY <3>1 DEF Due, DueIn
    <3> QED BY <3>1, <3>2 DEF ShockDue
  <2> QED BY <2>2, <2>3, <2>4, <2>5 DEF RoundEffect
<1>5. CASE SkipEvent
  <2>1. /\ Aside /\ next_wallet_idx' = next_wallet_idx /\ NextEvent
        /\ n_txs' = n_txs /\ wallets' = wallets
    BY <1>5 DEF SkipEvent, Aside, given
  <2>2. cursor' \in Nat \ {0} /\ repeats' \in Nat
    BY <2>1, CursorMoves
  <2> QED BY <2>1, <2>2 DEF RoundEffect
<1>6. CASE EndOfScript
  <2>1. /\ Aside /\ next_wallet_idx' = next_wallet_idx
        /\ n_txs' = n_txs /\ wallets' = wallets /\ cursor' = 1 /\ repeats' = repeats
    BY <1>6 DEF EndOfScript, Aside, given
  <2>2. repeats \in Nat
    BY DEF Shape
  <2> QED BY <2>1, <2>2 DEF RoundEffect
<1>7. CASE \E draw \in Draws, fraction \in Fractions : ActivityTransfer(draw, fraction)
  <2>1. PICK draw \in Draws, fraction \in Fractions : ActivityTransfer(draw, fraction)
    BY <1>7
  <2>2. /\ Aside /\ next_wallet_idx' = next_wallet_idx /\ cursor' = cursor /\ repeats' = repeats
        /\ Len(wallets) >= 2 /\ cursor <= Len(wallets) /\ Transfer(cursor, draw, fraction)
    BY <2>1 DEF ActivityTransfer, EnoughWallets, Aside, given
  <2>3. cursor \in DOMAIN wallets /\ cursor \in Nat \ {0} /\ repeats \in Nat
    BY <2>2 DEF Shape, Named
  <2>4. \/ wallets' = wallets /\ n_txs' = n_txs
        \/ Transferred(wallets, wallets') /\ n_txs' = n_txs + 1
    BY <2>2, <2>3, TransferStep DEF Draws
  <2> QED BY <2>2, <2>3, <2>4 DEF RoundEffect
<1>8. CASE NextSender
  <2>1. /\ Aside /\ next_wallet_idx' = next_wallet_idx /\ cursor' = cursor + 1
        /\ n_txs' = n_txs /\ wallets' = wallets /\ repeats' = repeats
    BY <1>8 DEF NextSender, Aside, given
  <2>2. repeats \in Nat /\ cursor \in Nat \ {0}
    BY DEF Shape
  <2>3. cursor' \in Nat \ {0}
    BY <2>1, <2>2
  <2> QED BY <2>1, <2>2, <2>3 DEF RoundEffect
<1> QED BY <1>1, <1>2, <1>3, <1>4, <1>5, <1>6, <1>7, <1>8 DEF Rounds

LEMMA IterateKeeps ==
    ASSUME Shape, Iterate
    PROVE  /\ parameters' = parameters /\ script' = script /\ genesis' = genesis
           /\ cursor' = 1 /\ repeats' = 0 /\ n_txs' = 0
BY DEF Iterate, given

LEMMA InitialWallets ==
    ASSUME Init
    PROVE  /\ Named(wallets) /\ next_wallet_idx = Len(wallets)
           /\ \A i \in DOMAIN wallets : wallets[i].iteration_tx_count = 0
<1>1. PICK balances \in Populations :
         wallets = [i \in DOMAIN balances |-> SimWallet(i - 1, balances[i])]
  BY DEF Init
<1>2. balances \in Seq(0..MaxU64)
  BY PopulationsAssumption
<1>3. /\ DOMAIN balances = 1..Len(balances) /\ Len(balances) \in Nat
      /\ \A i \in DOMAIN balances : i - 1 \in Nat /\ balances[i] \in 0..MaxU64
  BY <1>2
<1>4. \A i \in DOMAIN balances :
         /\ wallets[i] \in SimWallets /\ wallets[i].id = i - 1
         /\ wallets[i].created_at_iteration = 0
         /\ wallets[i].iteration_tx_count = 0 /\ wallets[i].iteration_counterparties = {}
  <2> TAKE i \in DOMAIN balances
  <2>1. wallets[i] = SimWallet(i - 1, balances[i])
    BY <1>1
  <2>2. i - 1 \in Nat /\ balances[i] \in 0..MaxU64
    BY <1>3
  <2> DEFINE j == i - 1
             b == balances[i]
  <2>3. wallets[i] = SimWallet(j, b) /\ j \in Nat /\ b \in 0..MaxU64
    BY <2>1, <2>2
  <2> HIDE DEF j, b
  <2>4. /\ SimWallet(j, b) \in SimWallets
        /\ SimWallet(j, b).id = j
        /\ SimWallet(j, b).created_at_iteration = 0
        /\ SimWallet(j, b).iteration_tx_count = 0
        /\ SimWallet(j, b).iteration_counterparties = {}
    BY <2>3, SimWalletFields
  <2> QED BY <2>3, <2>4 DEF j
<1>5. wallets \in [1..Len(balances) -> SimWallets]
  BY <1>1, <1>3, <1>4
<1>6. wallets \in Seq(SimWallets) /\ DOMAIN wallets = DOMAIN balances
  BY <1>3, <1>5
<1>7. Named(wallets)
  BY <1>4, <1>6 DEF Named
<1> QED BY <1>4, <1>6, <1>7 DEF Init

LEMMA InitShape == Init => Shape
<1> SUFFICES ASSUME Init PROVE Shape
  OBVIOUS
<1>1. Named(wallets) /\ next_wallet_idx = Len(wallets)
  BY InitialWallets
<1>2. IsRows(metrics) /\ Len(metrics) = 0
  <2>1. metrics \in Seq(Nat) /\ Len(metrics) = 0
    BY DEF Init
  <2> QED BY <2>1 DEF IsRows
<1>3. /\ parameters \in SimParameters /\ script \in Scripts
      /\ state.current_iteration = 0
      /\ state.previous_iteration_supply = 0
      /\ state.previous_iteration_start_supply = 0
      /\ cursor = 1 /\ repeats = 0 /\ n_txs = 0
  BY DEF Init
<1> QED BY <1>1, <1>2, <1>3 DEF Shape

LEMMA RowsAppend ==
    ASSUME NEW rows, IsRows(rows), NEW row
    PROVE  /\ IsRows(Append(rows, row))
           /\ Len(rows) \in Nat /\ DOMAIN rows = 1..Len(rows)
           /\ Len(Append(rows, row)) = Len(rows) + 1
           /\ \A k \in DOMAIN rows : Append(rows, row)[k] = rows[k]
           /\ Append(rows, row)[Len(rows) + 1] = row
<1>1. PICK T : rows \in Seq(T)
  BY DEF IsRows
<1> DEFINE U == T \cup {row}
<1>2. rows \in Seq(U) /\ row \in U
  BY <1>1
<1> HIDE DEF U
<1>3. Append(rows, row) \in Seq(U)
  BY <1>2
<1> QED BY <1>2, <1>3 DEF IsRows

LEMMA NextShape == Shape /\ [Next]_vars => Shape'
<1> SUFFICES ASSUME Shape, [Next]_vars PROVE Shape'
  OBVIOUS
<1>1. CASE Rounds
  <2>1. Aside /\ RoundEffect /\ cursor' \in Nat \ {0} /\ repeats' \in Nat
    BY <1>1, RoundSteps
  <2>2. Named(wallets') /\ next_wallet_idx' = Len(wallets') /\ n_txs' \in Nat
    <3>1. Named(wallets) /\ next_wallet_idx = Len(wallets) /\ n_txs \in Nat
      BY DEF Shape
    <3>2. RoundEffect
      BY <2>1
    <3> QED BY <3>1, <3>2 DEF RoundEffect, Transferred, Spawned, Charged, Shocked
  <2>3. /\ parameters' \in SimParameters /\ script' \in Scripts
        /\ state'.current_iteration = Len(metrics')
        /\ state'.previous_iteration_supply \in Nat
        /\ state'.previous_iteration_start_supply \in Nat
        /\ IsRows(metrics')
    BY <2>1 DEF Aside, Shape
  <2> QED BY <2>1, <2>2, <2>3 DEF Shape
<1>2. CASE Iterate
  <2>1. PICK commit : /\ IterationStep(wallets, wallets', commit, parameters, state)
                      /\ next_wallet_idx' = next_wallet_idx + Cardinality(commit.new_wallets)
                      /\ state' = Advanced(commit, Len(wallets'))
                      /\ metrics' = Append(metrics, Row(commit, wallets'))
    BY <1>2, IterateStep
  <2>2. /\ parameters' = parameters /\ script' = script
        /\ cursor' = 1 /\ repeats' = 0 /\ n_txs' = 0
    BY <1>2, IterateKeeps
  <2>3. /\ Named(wallets')
        /\ Len(wallets') = Len(wallets) + Cardinality(commit.new_wallets)
        /\ commit.iteration_id = state.current_iteration + 1
        /\ commit.snapshot_supply \in Nat /\ commit.post_supply \in Nat
    BY <2>1, Zenon DEF IterationStep
  <2>4. next_wallet_idx' = Len(wallets')
    BY <2>1, <2>3 DEF Shape
  <2>5. IsRows(metrics') /\ Len(metrics') = Len(metrics) + 1
    <3>1. IsRows(metrics)
      BY DEF Shape
    <3> DEFINE row == Row(commit, wallets')
    <3>2. metrics' = Append(metrics, row)
      BY <2>1
    <3> HIDE DEF row
    <3> QED BY <3>1, <3>2, RowsAppend
  <2>6. /\ state'.current_iteration = commit.iteration_id
        /\ state'.previous_iteration_supply = commit.post_supply
        /\ state'.previous_iteration_start_supply = commit.snapshot_supply
    BY <2>1 DEF Advanced
  <2> QED BY <2>2, <2>3, <2>4, <2>5, <2>6 DEF Shape
<1>3. CASE UNCHANGED vars
  BY <1>3 DEF vars, Shape, Named, IsRows
<1> QED BY <1>1, <1>2, <1>3 DEF Next

THEOREM SimulatorShape == Spec => []Shape
<1> QED BY InitShape, NextShape, PTL DEF Spec

-----------------------------------------------------------------------------
\* Names are never given out twice, and nobody counts itself, or a wallet that does not exist, as
\* a counterparty: the names are the positions in the Vec, whatever events and faucet add to it.
THEOREM SimulatorNames == Spec => []NamesAreUnique
<1>1. Shape => NamesAreUnique
  <2> SUFFICES ASSUME Shape PROVE NamesAreUnique
    OBVIOUS
  <2> DEFINE ids == {wallets[i].id : i \in DOMAIN wallets}
             n == Len(wallets)
  <2>1. /\ n \in Nat /\ DOMAIN wallets = 1..n /\ next_wallet_idx = n
        /\ \A i \in 1..n : /\ wallets[i].id = i - 1
                           /\ wallets[i].iteration_counterparties \subseteq (0..(n - 1)) \ {i - 1}
    BY DEF Shape, Named
  <2> HIDE DEF n
  <2>2. ids = 0..(n - 1)
    <3>1. \A x \in 0..(n - 1) : x + 1 \in 1..n /\ (x + 1) - 1 = x
      BY <2>1
    <3>2. \A x \in 0..(n - 1) : \E i \in DOMAIN wallets : x = wallets[i].id
      BY <2>1, <3>1
    <3>3. \A i \in DOMAIN wallets : wallets[i].id \in 0..(n - 1)
      BY <2>1
    <3> QED BY <3>2, <3>3
  <2>3. Cardinality(ids) = n
    <3>1. 0 \in Int /\ n - 1 \in Int
      BY <2>1
    <3> DEFINE c == Cardinality(0..(n - 1))
    <3>2. c = IF 0 > n - 1 THEN 0 ELSE (n - 1) - 0 + 1
      BY <3>1, FS_Interval
    <3>3. Cardinality(ids) = c
      BY <2>2, Zenon
    <3> HIDE DEF c
    <3>4. c = n
      BY <2>1, <3>2
    <3> QED BY <3>3, <3>4
  <2>4. \A i \in DOMAIN wallets :
           wallets[i].iteration_counterparties \subseteq ids \ {wallets[i].id}
    BY <2>1, <2>2
  <2> HIDE DEF ids
  <2>5. ids = 0..(next_wallet_idx - 1) /\ Cardinality(ids) = Len(wallets)
    BY <2>1, <2>2, <2>3 DEF n
  <2> QED BY <2>4, <2>5 DEF NamesAreUnique, ids
<1> QED BY <1>1, SimulatorShape, PTL

\* The activity of the population is that of the transfers of this iteration, twice each, and
\* of the shocks due in it.
Paired ==
    \E extra \in Nat : /\ Total(Counts(wallets)) = 2 * n_txs + 2 * extra
                       /\ ~ShockDue => extra = 0

LEMMA InitPaired == Init => Paired
<1> SUFFICES ASSUME Init PROVE Paired
  OBVIOUS
<1>1. Named(wallets) /\ \A i \in DOMAIN wallets : wallets[i].iteration_tx_count = 0
  BY InitialWallets
<1> DEFINE f == Counts(wallets)
           D == 1..Len(wallets)
<1>2. IsFiniteSet(D) /\ f \in [D -> Nat] /\ DOMAIN wallets = D
  BY <1>1, ColumnsType DEF Named
<1>3. \A i \in D : f[i] = 0
  BY <1>1, <1>2 DEF Counts
<1> HIDE DEF f, D
<1>4. Total(f) = Cardinality(D) * 0 /\ Cardinality(D) \in Nat
  BY <1>2, <1>3, TotalConstant, FS_CardinalityType
<1>5. Total(f) = 0 /\ n_txs = 0
  BY <1>4 DEF Init
<1> QED BY <1>5 DEF Paired, f

LEMMA NextPaired == Shape /\ Paired /\ [Next]_vars => Paired'
<1> SUFFICES ASSUME Shape, Paired, [Next]_vars PROVE Paired'
  OBVIOUS
<1>1. PICK extra \in Nat : /\ Total(Counts(wallets)) = 2 * n_txs + 2 * extra
                           /\ ~ShockDue => extra = 0
  BY DEF Paired
<1>2. n_txs \in Nat /\ Len(wallets) \in Nat
  BY DEF Shape, Named
<1>3. CASE Rounds
  <2>1. Aside /\ RoundEffect
    BY <1>3, RoundSteps
  <2>2. ShockDue' <=> ShockDue
    BY <2>1 DEF Aside, ShockDue, DueIn
  <2>3. CASE wallets' = wallets /\ n_txs' = n_txs
    BY <1>1, <2>2, <2>3 DEF Paired
  <2>4. CASE Transferred(wallets, wallets') /\ n_txs' = n_txs + 1
    <3>1. Total(Counts(wallets')) = Total(Counts(wallets)) + 2
      BY <2>4 DEF Transferred
    <3>2. Total(Counts(wallets')) = 2 * n_txs' + 2 * extra
      BY <1>1, <1>2, <2>4, <3>1
    <3> QED BY <1>1, <2>2, <3>2 DEF Paired
  <2>5. CASE n_txs' = n_txs /\ Total(Counts(wallets')) = Total(Counts(wallets))
    BY <1>1, <2>2, <2>5 DEF Paired
  <2>6. CASE Shocked(wallets, wallets') /\ n_txs' = n_txs /\ ShockDue /\ Len(wallets) > 0
    <3>1. Total(Counts(wallets')) = Total(Counts(wallets)) + 2 * (Len(wallets) - 1)
      BY <2>6 DEF Shocked
    <3> DEFINE more == extra + (Len(wallets) - 1)
    <3>2. more \in Nat /\ Total(Counts(wallets')) = 2 * n_txs' + 2 * more
      BY <1>1, <1>2, <2>6, <3>1
    <3> HIDE DEF more
    <3> QED BY <2>2, <2>6, <3>2 DEF Paired
  <2>7. CASE Shocked(wallets, wallets') /\ n_txs' = n_txs /\ Len(wallets) = 0
    <3> DEFINE c == Counts(wallets')
               d == Counts(wallets)
    <3>1. c = d
      <4>1. /\ Named(wallets) /\ Named(wallets') /\ Len(wallets') = 0 /\ Len(wallets) = 0
        BY <2>7 DEF Shocked, Shape
      <4>2. wallets \in Seq(SimWallets) /\ wallets' \in Seq(SimWallets)
        BY <4>1 DEF Named
      <4>3. wallets' = wallets
        BY <4>1, <4>2
      <4> QED BY <4>3
    <3>2. Total(Counts(wallets')) = Total(Counts(wallets))
      BY <3>1
    <3> QED BY <2>5, <2>7, <3>2
  <2> QED BY <1>2, <2>1, <2>3, <2>4, <2>5, <2>6, <2>7 DEF RoundEffect, Spawned, Charged
<1>4. CASE Iterate
  <2>1. PICK commit : IterationStep(wallets, wallets', commit, parameters, state)
    BY <1>4, IterateStep
  <2>2. n_txs' = 0
    BY <1>4, IterateKeeps
  <2>3. Total(Counts(wallets')) = 2 * n_txs' + 2 * 0
    BY <2>1, <2>2 DEF IterationStep
  <2> QED BY <2>3 DEF Paired
<1>5. CASE UNCHANGED vars
  BY <1>1, <1>5 DEF vars, Paired, Counts, ShockDue, DueIn
<1> QED BY <1>3, <1>4, <1>5 DEF Next

\* Activity comes in pairs: whatever is drawn, an iteration never sees half of a transfer.
THEOREM SimulatorActivity == Spec => []TransfersCountTwice
<1>1. Spec => []Paired
  BY InitPaired, NextPaired, SimulatorShape, PTL DEF Spec
<1>2. Shape /\ Paired => TransfersCountTwice
  <2> SUFFICES ASSUME Shape, Paired PROVE TransfersCountTwice
    OBVIOUS
  <2> DEFINE counted == Total(Counts(wallets))
  <2>1. PICK extra \in Nat : counted = 2 * n_txs + 2 * extra /\ (~ShockDue => extra = 0)
    BY DEF Paired
  <2>2. n_txs \in Nat
    BY DEF Shape
  <2>3. TransfersCountTwice <=> /\ counted % 2 = 0
                                /\ counted >= 2 * n_txs
                                /\ ~ShockDue => counted = 2 * n_txs
    BY DEF TransfersCountTwice, Counts
  <2> HIDE DEF counted
  <2>4. counted % 2 = 0 /\ counted >= 2 * n_txs
    <3>1. counted = 2 * (n_txs + extra) /\ n_txs + extra \in Nat
      BY <2>1, <2>2
    <3> QED BY <2>1, <2>2, <3>1
  <2>5. ~ShockDue => counted = 2 * n_txs
    BY <2>1, <2>2
  <2> QED BY <2>3, <2>4, <2>5
<1> QED BY <1>1, <1>2, SimulatorShape, PTL

-----------------------------------------------------------------------------
(* The rows.  The u64 sums of the simulator saturate and wrap around: what *)
(* the rows say of the supply is stated for a supply that stays below the  *)
(* largest u64.                                                            *)

SupplyFits == Total(BalancesOf(wallets)) < MaxU64

\* The state that the next iteration is handed is the last row's.
HandsOver(rows, sys) ==
    IF Len(rows) = 0 THEN sys.previous_iteration_start_supply = 0
    ELSE LET row == rows[Len(rows)]
         IN  /\ sys.previous_iteration_supply = row.supply
             /\ sys.previous_iteration_start_supply = row.supply + row.burned - row.faucet_from_mint

LEMMA RowFields ==
    ASSUME NEW commit, NEW ws
    PROVE  /\ Row(commit, ws).supply = commit.post_supply
           /\ Row(commit, ws).n_wallets = Len(ws)
           /\ Row(commit, ws).burned = commit.burned
           /\ Row(commit, ws).faucet_from_mint = commit.faucet_from_mint
           /\ Row(commit, ws).new_wallets = Cardinality(commit.new_wallets)
           /\ Row(commit, ws).inflation = commit.inflation
  BY DEF Row

LEMMA InflationOfTwo ==
    ASSUME NEW sys
    PROVE  /\ sys.previous_iteration_start_supply = 0 => Inflation(sys) = 0
           /\ \A s, t : /\ sys.previous_iteration_supply = s
                        /\ sys.previous_iteration_start_supply = t
                        => Inflation(sys) = Inflation([previous_iteration_supply       |-> s,
                                                       previous_iteration_start_supply |-> t])
  BY DEF Inflation

\* What row k shows of the inflation, given the row before it.
Steers(rows, k) ==
    rows[k].inflation =
        IF k = 1 THEN 0
        ELSE Inflation([previous_iteration_supply       |-> rows[k - 1].supply,
                        previous_iteration_start_supply |->
                           rows[k - 1].supply + rows[k - 1].burned
                              - rows[k - 1].faucet_from_mint])

LEMMA SteersNext ==
    ASSUME NEW rows, IsRows(rows), NEW sys, HandsOver(rows, sys),
           \A k \in DOMAIN rows : Steers(rows, k),
           NEW row, row.inflation = Inflation(sys)
    PROVE  \A k \in DOMAIN Append(rows, row) : Steers(Append(rows, row), k)
<1> DEFINE more == Append(rows, row)
           n    == Len(rows)
<1>1. /\ n \in Nat /\ DOMAIN rows = 1..n
      /\ \A k \in 1..n : more[k] = rows[k]
      /\ more[n + 1] = row
  BY RowsAppend
<1>2. DOMAIN more = 1..(n + 1)
  <2>1. Len(more) = n + 1 /\ IsRows(more)
    BY RowsAppend
  <2> QED BY <2>1 DEF IsRows
<1>3. IF n = 0 THEN sys.previous_iteration_start_supply = 0
      ELSE /\ sys.previous_iteration_supply = rows[n].supply
           /\ sys.previous_iteration_start_supply
                 = rows[n].supply + rows[n].burned - rows[n].faucet_from_mint
  BY DEF HandsOver
<1> HIDE DEF more, n
<1>4. ASSUME NEW k \in 1..n PROVE Steers(more, k)
  <2>1. k - 1 \in 1..n \/ k = 1
    BY <1>1
  <2>2. more[k] = rows[k] /\ (k # 1 => more[k - 1] = rows[k - 1])
    BY <1>1, <2>1
  <2>3. Steers(rows, k)
    BY <1>1
  <2> QED BY <2>2, <2>3 DEF Steers
<1>5. Steers(more, n + 1)
  <2>1. CASE n = 0
    BY <1>1, <1>3, <2>1, InflationOfTwo DEF Steers
  <2>2. CASE n # 0
    <3>1. more[n] = rows[n] /\ (n + 1) - 1 = n /\ n + 1 # 1
      BY <1>1, <2>2
    <3> DEFINE s == rows[n].supply
               t == rows[n].supply + rows[n].burned - rows[n].faucet_from_mint
    <3>2. sys.previous_iteration_supply = s /\ sys.previous_iteration_start_supply = t
      BY <1>3, <2>2
    <3> HIDE DEF s, t
    <3>3. Inflation(sys) = Inflation([previous_iteration_supply       |-> s,
                                      previous_iteration_start_supply |-> t])
      BY <3>2, InflationOfTwo
    <3> USE DEF s, t
    <3> QED BY <1>1, <3>1, <3>3 DEF Steers
  <2> QED BY <2>1, <2>2
<1>6. \A k \in 1..(n + 1) : k \in 1..n \/ k = n + 1
  BY <1>1
<1> QED BY <1>2, <1>4, <1>5, <1>6 DEF more

Steered == HandsOver(metrics, state) /\ \A k \in DOMAIN metrics : Steers(metrics, k)

LEMMA InitSteered == Init => Steered
<1> SUFFICES ASSUME Init PROVE Steered
  OBVIOUS
<1>1. Len(metrics) = 0 /\ DOMAIN metrics = {} /\ state.previous_iteration_start_supply = 0
  BY DEF Init
<1> QED BY <1>1 DEF Steered, HandsOver

LEMMA NextSteered == Shape /\ Steered /\ SupplyFits /\ SupplyFits' /\ [Next]_vars => Steered'
<1> SUFFICES ASSUME Shape, Steered, SupplyFits, SupplyFits', [Next]_vars PROVE Steered'
  OBVIOUS
<1>1. CASE Rounds
  <2>1. state' = state /\ metrics' = metrics
    BY <1>1, RoundSteps DEF Aside
  <2> QED BY <2>1 DEF Steered
<1>2. CASE Iterate
  <2>1. PICK commit : /\ IterationStep(wallets, wallets', commit, parameters, state)
                      /\ state' = Advanced(commit, Len(wallets'))
                      /\ metrics' = Append(metrics, Row(commit, wallets'))
    BY <1>2, IterateStep
  <2> DEFINE before == Total(BalancesOf(wallets))
             after  == Total(BalancesOf(wallets'))
             row    == Row(commit, wallets')
  <2>2. before \in Nat /\ after \in Nat /\ before <= MaxU64 /\ after <= MaxU64
    <3>1. Named(wallets) /\ Named(wallets')
      BY <2>1 DEF Shape, IterationStep
    <3>2. before \in Nat /\ after \in Nat
      BY <3>1, ColumnsType DEF Named
    <3> QED BY <3>2 DEF SupplyFits
  <2>3. /\ commit.inflation = Inflation(state)
        /\ commit.snapshot_supply = before /\ commit.post_supply = after
        /\ commit.faucet_from_mint \in Nat /\ commit.burned \in Nat
        /\ after = before + commit.faucet_from_mint - commit.burned
    BY <2>1, <2>2 DEF IterationStep
  <2>4. /\ row.supply = commit.post_supply /\ row.burned = commit.burned
        /\ row.faucet_from_mint = commit.faucet_from_mint /\ row.inflation = commit.inflation
    BY RowFields
  <2>5. /\ state'.previous_iteration_supply = commit.post_supply
        /\ state'.previous_iteration_start_supply = commit.snapshot_supply
    BY <2>1 DEF Advanced
  <2>6. metrics' = Append(metrics, row)
    BY <2>1
  <2> HIDE DEF before, after, row
  <2>7. IsRows(metrics) /\ HandsOver(metrics, state) /\ \A k \in DOMAIN metrics : Steers(metrics, k)
    BY DEF Shape, Steered
  <2>8. \A k \in DOMAIN metrics' : Steers(metrics', k)
    BY <2>3, <2>4, <2>6, <2>7, SteersNext
  <2>9. HandsOver(metrics', state')
    <3>1. Len(metrics') = Len(metrics) + 1 /\ metrics'[Len(metrics) + 1] = row /\ Len(metrics) \in Nat
      BY <2>6, <2>7, RowsAppend
    <3>2. state'.previous_iteration_supply = row.supply
      BY <2>4, <2>5
    <3>3. state'.previous_iteration_start_supply = row.supply + row.burned - row.faucet_from_mint
      BY <2>2, <2>3, <2>4, <2>5
    <3>4. Len(metrics') # 0 /\ metrics'[Len(metrics')] = row
      BY <3>1
    <3> QED BY <3>2, <3>3, <3>4 DEF HandsOver
  <2> QED BY <2>8, <2>9 DEF Steered
<1>3. CASE UNCHANGED vars
  BY <1>3 DEF vars, Steered
<1> QED BY <1>1, <1>2, <1>3 DEF Next

\* As long as the supply fits its type, the inflation that each iteration steers its burn by is
\* the one the row before it shows.
THEOREM SimulatorInflation == Spec /\ []SupplyFits => []InflationFollowsRows
<1>1. Spec /\ []SupplyFits => []Steered
  BY InitSteered, NextSteered, SimulatorShape, PTL DEF Spec
<1>2. Steered => InflationFollowsRows
  BY DEF Steered, Steers, InflationFollowsRows
<1> QED BY <1>1, <1>2, PTL

-----------------------------------------------------------------------------
(* The script and the rows.  The columns of an iteration's events, as      *)
(* functions of what they depend on.                                       *)

DueOf(events, k) ==
    {i \in DOMAIN events : events[i].action # "unknown" /\ events[i].at_iteration = k}

\* The wallets that each event of iteration k adds.
SpawnsIn(events, k) ==
    [i \in DueOf(events, k) |-> IF events[i].action = "spawn_wallets" THEN events[i].count ELSE 0]

SpawnedWith(event, p) == IF event.balance = << >> THEN p.seed ELSE event.balance[1]

\* The coins that each event of iteration k creates, in a population that starts with n wallets.
CoinsIn(events, p, n, k) ==
    [i \in DueOf(events, k) |->
        IF events[i].action = "spawn_wallets" THEN events[i].count * SpawnedWith(events[i], p)
        ELSE IF events[i].action = "charge_burst" /\ events[i].n_targets # 0
                /\ n + UpTo(SpawnsIn(events, k), i) # 0
        THEN events[i].n_targets * (events[i].amount \div events[i].n_targets)
        ELSE 0]

PopulationAt(start, rows, k) == IF k = 1 THEN start.n_wallets ELSE rows[k - 1].n_wallets

SupplyAt(start, rows, k) == IF k = 1 THEN start.supply ELSE rows[k - 1].supply

\* A row follows from the population n and the supply m before its iteration.
Follows(row, events, p, n, m, k) ==
    /\ row.n_wallets = n + Total(SpawnsIn(events, k)) + row.new_wallets
    /\ row.supply = m + Total(CoinsIn(events, p, n, k)) + row.faucet_from_mint - row.burned

\* The population and the supply when the events of iteration k before the i-th are over, and
\* the i-th has created so many coins.
Reached(ws, events, p, n, m, k, i, coins) ==
    /\ Len(ws) = n + UpTo(SpawnsIn(events, k), i)
    /\ Total(BalancesOf(ws)) = m + UpTo(CoinsIn(events, p, n, k), i) + coins

-----------------------------------------------------------------------------
\* How far the events of the next iteration are.
Position == IF phase = "activity" THEN Len(script) + 1 ELSE cursor

\* A loop that is under way is that of an event that is due, and has rounds left.
UnderWay ==
    repeats # 0 =>
        /\ phase = "events" /\ cursor <= Len(script) /\ Due(script[cursor])
        /\ \/ /\ script[cursor].action = "charge_burst"
              /\ repeats < script[cursor].n_targets /\ Len(wallets) > 0
           \/ /\ script[cursor].action = "transfer_burst"
              /\ repeats < script[cursor].n_txs /\ Len(wallets) >= 2

\* The coins that the loop at the cursor has created.
Partial ==
    IF repeats = 0 THEN 0
    ELSE IF script[cursor].action # "charge_burst" THEN 0
    ELSE repeats * (script[cursor].amount \div script[cursor].n_targets)

RowsExplained ==
    /\ \A k \in 1..(Len(metrics) + 1) : /\ PopulationAt(genesis, metrics, k) \in Nat
                                        /\ SupplyAt(genesis, metrics, k) \in Nat
    /\ \A k \in DOMAIN metrics :
          Follows(metrics[k], script, parameters, PopulationAt(genesis, metrics, k),
                  SupplyAt(genesis, metrics, k), k)

Explained ==
    /\ Position \in 1..(Len(script) + 1)
    /\ UnderWay
    /\ RowsExplained
    /\ LET k == Len(metrics) + 1
       IN  Reached(wallets, script, parameters, PopulationAt(genesis, metrics, k),
                   SupplyAt(genesis, metrics, k), k, Position, Partial)

-----------------------------------------------------------------------------
(* Lemmas about the columns of the events.                                 *)

\* The script's length and its events.
LEMMA ScriptType ==
    ASSUME NEW s \in Scripts
    PROVE  Len(s) \in Nat /\ DOMAIN s = 1..Len(s)
  BY ScriptsAssumption

\* What the targets of a charge get together.
LEMMA EvenlyDivided ==
    ASSUME NEW a \in Nat, NEW t \in Nat \ {0}
    PROVE  t * (a \div t) \in Nat
<1>1. a * 1 = a
  OBVIOUS
<1>2. (a * 1) \div t \in Nat
  BY QuotientType
<1> DEFINE d == a \div t
<1>3. d \in Nat
  BY <1>1, <1>2
<1> HIDE DEF d
<1>4. t * d \in Nat
  BY <1>3
<1> QED BY <1>4 DEF d

\* The columns of wallets and of coins that the due events bring.
LEMMA ColumnsOfEvents ==
    ASSUME NEW s \in Scripts, NEW p \in SimParameters, NEW n \in Nat, NEW k
    PROVE  /\ DueOf(s, k) \in SUBSET (1..Len(s))
           /\ IsFiniteSet(DueOf(s, k)) /\ \A i \in DueOf(s, k) : i \in Nat
           /\ SpawnsIn(s, k) \in [DueOf(s, k) -> Nat]
           /\ CoinsIn(s, p, n, k) \in [DueOf(s, k) -> Nat]
<1>1. Len(s) \in Nat /\ DOMAIN s = 1..Len(s)
  BY ScriptType
<1>2. DueOf(s, k) \in SUBSET (1..Len(s))
  BY <1>1 DEF DueOf
<1> DEFINE D == DueOf(s, k)
<1>3. \A i \in D : i \in DOMAIN s
  BY <1>1, <1>2
<1> HIDE DEF D
<1>4. ASSUME NEW i \in D
      PROVE  /\ s[i].action = "spawn_wallets" => s[i].count \in Nat
             /\ s[i].action = "spawn_wallets" => SpawnedWith(s[i], p) \in Nat
             /\ s[i].action = "charge_burst" => s[i].amount \in Nat /\ s[i].n_targets \in Nat
  <2>1. i \in DOMAIN s
    BY <1>3
  <2>2. /\ s[i].action = "spawn_wallets" =>
              s[i].count \in Nat /\ (s[i].balance # << >> => s[i].balance[1] \in 0..MaxU64)
        /\ s[i].action = "charge_burst" => s[i].amount \in Nat /\ s[i].n_targets \in Nat
    BY <2>1, EventFields
  <2>3. p.seed \in Nat
    BY SimParametersAssumption DEF Parameters
  <2> QED BY <2>2, <2>3 DEF SpawnedWith
<1>5. SpawnsIn(s, k) \in [D -> Nat]
  BY <1>4 DEF SpawnsIn, D
<1>6. CoinsIn(s, p, n, k) \in [D -> Nat]
  <2> DEFINE b(i) == s[i].count * SpawnedWith(s[i], p)
             c(i) == s[i].n_targets * (s[i].amount \div s[i].n_targets)
             q(i) == n + UpTo(SpawnsIn(s, k), i) # 0
  <2>1. \A i \in D : s[i].action = "spawn_wallets" => b(i) \in Nat
    BY <1>4
  <2>2. \A i \in D : s[i].action = "charge_burst" /\ s[i].n_targets # 0 => c(i) \in Nat
    <3> SUFFICES ASSUME NEW i \in D, s[i].action = "charge_burst", s[i].n_targets # 0
                 PROVE  c(i) \in Nat
      OBVIOUS
    <3> DEFINE t == s[i].n_targets
               a == s[i].amount
    <3>1. t \in Nat \ {0} /\ a \in Nat
      BY <1>4
    <3> HIDE DEF t, a
    <3> HIDE DEF b, c, q
    <3>2. t * (a \div t) \in Nat
      BY <3>1, EvenlyDivided
    <3> QED BY <3>2 DEF t, a, c
  <2>3. CoinsIn(s, p, n, k) = [i \in D |-> IF s[i].action = "spawn_wallets" THEN b(i)
                                 ELSE IF s[i].action = "charge_burst" /\ s[i].n_targets # 0 /\ q(i)
                                 THEN c(i) ELSE 0]
    BY Zenon DEF CoinsIn, D
  <2> HIDE DEF b, c, q
  <2> QED BY <2>1, <2>2, <2>3
<1>7. IsFiniteSet(D) /\ \A i \in D : i \in Nat
  <2>1. D \in SUBSET (1..Len(s)) /\ \A i \in D : i \in Nat
    BY <1>1, <1>2 DEF D
  <2>2. IsFiniteSet(1..Len(s))
    BY <1>1, FS_Interval
  <2> QED BY <2>1, <2>2, FS_Subset
<1> QED BY <1>2, <1>5, <1>6, <1>7 DEF D

\* The i-th event is over.  One that is not due has no effect.
LEMMA PassesOver ==
    ASSUME NEW s \in Scripts, NEW p \in SimParameters, NEW n \in Nat, NEW m \in Nat, NEW k,
           NEW i \in Nat, NEW ws, i \notin DueOf(s, k), Reached(ws, s, p, n, m, k, i, 0)
    PROVE  Reached(ws, s, p, n, m, k, i + 1, 0)
<1> DEFINE D == DueOf(s, k)
           f == SpawnsIn(s, k)
           g == CoinsIn(s, p, n, k)
<1>1. i \in Nat \ D
  OBVIOUS
<1>2. IsFiniteSet(D) /\ (\A j \in D : j \in Nat) /\ f \in [D -> Nat] /\ g \in [D -> Nat]
  BY ColumnsOfEvents
<1>3. UpTo(f, i + 1) = UpTo(f, i)
  <2> HIDE DEF D, f, g
  <2>1. \A x \in Nat \ D : UpTo(f, x + 1) = UpTo(f, x)
    BY <1>1, <1>2, UpToNext
  <2> QED BY <1>1, <2>1
<1>4. UpTo(g, i + 1) = UpTo(g, i)
  <2> HIDE DEF D, f, g
  <2>1. \A x \in Nat \ D : UpTo(g, x + 1) = UpTo(g, x)
    BY <1>1, <1>2, UpToNext
  <2> QED BY <1>1, <2>1
<1> HIDE DEF D, f, g
<1> QED BY <1>3, <1>4 DEF Reached, f, g

\* One that is due has added its wallets and created its coins.
LEMMA TakesEffect ==
    ASSUME NEW s \in Scripts, NEW p \in SimParameters, NEW n \in Nat, NEW m \in Nat, NEW k,
           NEW i \in DueOf(s, k), NEW ws, NEW vs, NEW c \in Nat, NEW b \in Nat,
           Reached(ws, s, p, n, m, k, i, c),
           Len(vs) = Len(ws) + SpawnsIn(s, k)[i],
           Total(BalancesOf(vs)) = Total(BalancesOf(ws)) + b,
           CoinsIn(s, p, n, k)[i] = c + b
    PROVE  Reached(vs, s, p, n, m, k, i + 1, 0)
<1> DEFINE D == DueOf(s, k)
           f == SpawnsIn(s, k)
           g == CoinsIn(s, p, n, k)
<1>1. /\ IsFiniteSet(D) /\ (\A j \in D : j \in Nat) /\ f \in [D -> Nat] /\ g \in [D -> Nat]
      /\ i \in D /\ i \in Nat
  <2>2. IsFiniteSet(D) /\ (\A j \in D : j \in Nat) /\ f \in [D -> Nat] /\ g \in [D -> Nat]
    BY ColumnsOfEvents
  <2> HIDE DEF f, g
  <2> QED BY <2>2
<1>2. /\ Len(ws) = n + UpTo(f, i) /\ Total(BalancesOf(ws)) = m + UpTo(g, i) + c
      /\ Len(vs) = Len(ws) + f[i] /\ g[i] = c + b
  BY DEF Reached
<1>3. Reached(vs, s, p, n, m, k, i + 1, 0)
         <=> Len(vs) = n + UpTo(f, i + 1) /\ Total(BalancesOf(vs)) = m + UpTo(g, i + 1) + 0
  BY DEF Reached
<1> HIDE DEF D, f, g
<1>4. UpTo(f, i + 1) = UpTo(f, i) + f[i] /\ UpTo(f, i) \in Nat /\ f[i] \in Nat
  <2>1. /\ \A j \in Nat : UpTo(f, j) \in Nat
        /\ \A j \in D : UpTo(f, j + 1) = UpTo(f, j) + f[j]
    BY <1>1, UpToNext
  <2> QED BY <1>1, <2>1
<1>5. UpTo(g, i + 1) = UpTo(g, i) + g[i] /\ UpTo(g, i) \in Nat /\ g[i] \in Nat
  <2>1. /\ \A j \in Nat : UpTo(g, j) \in Nat
        /\ \A j \in D : UpTo(g, j + 1) = UpTo(g, j) + g[j]
    BY <1>1, UpToNext
  <2> QED BY <1>1, <2>1
<1> DEFINE l  == Len(vs)
           t  == Total(BalancesOf(vs))
           l0 == Len(ws)
           t0 == Total(BalancesOf(ws))
<1>6. g[i] = c + b /\ l0 = n + UpTo(f, i) /\ t0 = m + UpTo(g, i) + c /\ l = l0 + f[i] /\ t = t0 + b
  BY <1>2
<1>7. Reached(vs, s, p, n, m, k, i + 1, 0) <=> l = n + UpTo(f, i + 1) /\ t = m + UpTo(g, i + 1) + 0
  BY <1>3
<1> HIDE DEF l, t, l0, t0
<1> DEFINE F1 == UpTo(f, i + 1)
           F0 == UpTo(f, i)
           G1 == UpTo(g, i + 1)
           G0 == UpTo(g, i)
           x  == f[i]
           y  == g[i]
<1>8. /\ F1 = F0 + x /\ F0 \in Nat /\ x \in Nat /\ G1 = G0 + y /\ G0 \in Nat /\ y = c + b
      /\ l0 = n + F0 /\ t0 = m + G0 + c /\ l = l0 + x /\ t = t0 + b
  BY <1>4, <1>5, <1>6
<1>9. Reached(vs, s, p, n, m, k, i + 1, 0) <=> l = n + F1 /\ t = m + G1 + 0
  BY <1>7
<1> HIDE DEF F1, F0, G1, G0, x, y
<1>10. l = n + F1 /\ t = m + G1 + 0
  BY <1>8
<1> QED BY <1>9, <1>10

-----------------------------------------------------------------------------
(* The steps.                                                              *)

\* The population and the supply, with the events of the coming iteration before the i-th over.
Progress(ws, i, coins) ==
    Reached(ws, script, parameters, PopulationAt(genesis, metrics, Len(metrics) + 1),
            SupplyAt(genesis, metrics, Len(metrics) + 1), Len(metrics) + 1, i, coins)

LEMMA ExplainedStays ==
    ASSUME Explained, Aside, Position' \in 1..(Len(script) + 1), UnderWay',
           Progress(wallets', Position', Partial')
    PROVE  Explained'
<1>1. /\ parameters' = parameters /\ script' = script /\ genesis' = genesis /\ metrics' = metrics
  BY DEF Aside
<1>2. RowsExplained'
  BY <1>1 DEF Explained, RowsExplained
<1> QED BY <1>1, <1>2 DEF Explained, Progress

LEMMA ProgressAtCursor ==
    ASSUME Shape, Explained
    PROVE  /\ PopulationAt(genesis, metrics, Len(metrics) + 1) \in Nat
           /\ SupplyAt(genesis, metrics, Len(metrics) + 1) \in Nat
           /\ Len(metrics) \in Nat
           /\ Progress(wallets, Position, Partial)
           /\ phase = "events" => Progress(wallets, cursor, Partial)
           /\ repeats = 0 => Partial = 0
           /\ cursor <= Len(script) =>
                 (Due(script[cursor]) <=> cursor \in DueOf(script, Len(metrics) + 1))
<1>1. Len(metrics) \in Nat
  BY RowsAppend DEF Shape
<1>2. Len(metrics) + 1 \in 1..(Len(metrics) + 1)
  BY <1>1
<1>3. /\ PopulationAt(genesis, metrics, Len(metrics) + 1) \in Nat
      /\ SupplyAt(genesis, metrics, Len(metrics) + 1) \in Nat
  BY <1>2, Zenon DEF Explained, RowsExplained
<1>4. Progress(wallets, Position, Partial)
  BY Zenon DEF Explained, Progress
<1>5. phase = "events" => Position = cursor
  BY DEF Position
<1>6. cursor <= Len(script) =>
         (Due(script[cursor]) <=> cursor \in DueOf(script, Len(metrics) + 1))
  BY EventAtCursor DEF Shape, Due, DueOf
<1>7. repeats = 0 => Partial = 0
  BY DEF Partial
<1> QED BY <1>1, <1>3, <1>4, <1>5, <1>6, <1>7

\* The event at the cursor is over.
LEMMA EventOver ==
    ASSUME Shape, Explained, Aside, phase = "events", phase' = phase, cursor <= Len(script),
           NextEvent, Progress(wallets', cursor + 1, 0)
    PROVE  Explained'
<1>1. cursor' = cursor + 1 /\ repeats' = 0
  BY DEF NextEvent
<1>2. Position' = cursor + 1 /\ Partial' = 0 /\ UnderWay'
  BY <1>1 DEF Position, Partial, UnderWay
<1>3. cursor + 1 \in 1..(Len(script) + 1)
  BY EventAtCursor DEF Shape
<1> QED BY <1>2, <1>3, ExplainedStays

\* A round of the event at the cursor is over, and there are more.
LEMMA RoundOver ==
    ASSUME Shape, Explained, Aside, phase = "events", phase' = phase, cursor <= Len(script),
           cursor' = cursor, UnderWay', Progress(wallets', cursor, Partial')
    PROVE  Explained'
<1>1. Position' = cursor
  BY DEF Position
<1>2. cursor \in 1..(Len(script) + 1)
  BY EventAtCursor DEF Shape
<1> QED BY <1>1, <1>2, ExplainedStays

\* The event at the cursor, which is due, has had its effect.
LEMMA EffectAtCursor ==
    ASSUME Shape, Explained, cursor <= Len(script), Due(script[cursor]),
           NEW vs, NEW c \in Nat, NEW b \in Nat, Progress(wallets, cursor, c),
           Len(vs) = Len(wallets) + SpawnsIn(script, Len(metrics) + 1)[cursor],
           Total(BalancesOf(vs)) = Total(BalancesOf(wallets)) + b,
           CoinsIn(script, parameters, PopulationAt(genesis, metrics, Len(metrics) + 1),
                   Len(metrics) + 1)[cursor] = c + b
    PROVE  Progress(vs, cursor + 1, 0)
<1> DEFINE k == Len(metrics) + 1
           n == PopulationAt(genesis, metrics, k)
           m == SupplyAt(genesis, metrics, k)
<1>1. n \in Nat /\ m \in Nat /\ cursor \in DueOf(script, k)
  BY ProgressAtCursor
<1>2. script \in Scripts /\ parameters \in SimParameters
  BY DEF Shape
<1>3. /\ Reached(wallets, script, parameters, n, m, k, cursor, c)
      /\ Len(vs) = Len(wallets) + SpawnsIn(script, k)[cursor]
      /\ CoinsIn(script, parameters, n, k)[cursor] = c + b
  BY DEF Progress
<1>4. Progress(vs, cursor + 1, 0) <=> Reached(vs, script, parameters, n, m, k, cursor + 1, 0)
  BY DEF Progress
<1> HIDE DEF k, n, m
<1>5. Reached(vs, script, parameters, n, m, k, cursor + 1, 0)
  BY <1>1, <1>2, <1>3, TakesEffect
<1> QED BY <1>4, <1>5

\* What the columns hold for an event that is due.
LEMMA EventColumns ==
    ASSUME NEW s, NEW p, NEW n, NEW k, NEW i \in DueOf(s, k)
    PROVE  /\ SpawnsIn(s, k)[i] = IF s[i].action = "spawn_wallets" THEN s[i].count ELSE 0
           /\ CoinsIn(s, p, n, k)[i] =
                 IF s[i].action = "spawn_wallets" THEN s[i].count * SpawnedWith(s[i], p)
                 ELSE IF s[i].action = "charge_burst" /\ s[i].n_targets # 0
                         /\ n + UpTo(SpawnsIn(s, k), i) # 0
                 THEN s[i].n_targets * (s[i].amount \div s[i].n_targets)
                 ELSE 0
  BY Zenon DEF SpawnsIn, CoinsIn

LEMMA SpawnExplained == Shape /\ Explained /\ SpawnWallets => Explained'
<1> SUFFICES ASSUME Shape, Explained, SpawnWallets PROVE Explained'
  OBVIOUS
<1> DEFINE event == script[cursor]
<1>1. /\ phase = "events" /\ phase' = phase /\ cursor <= Len(script) /\ NextEvent /\ Aside
      /\ event.action = "spawn_wallets" /\ Due(event)
  BY DEF SpawnWallets, At, Aside, given
<1>2. repeats = 0
  BY <1>1 DEF Explained, UnderWay
<1>3. Progress(wallets, cursor, 0) /\ cursor \in DueOf(script, Len(metrics) + 1)
  BY <1>1, <1>2, ProgressAtCursor
<1> DEFINE b == event.count * SpawnBalance(event)
           D == Len(metrics) + 1
           n == PopulationAt(genesis, metrics, Len(metrics) + 1)
<1>4. /\ Len(wallets') = Len(wallets) + event.count
      /\ Total(BalancesOf(wallets')) = Total(BalancesOf(wallets)) + b
  BY SpawnStep DEF Spawned
<1>5. b \in Nat
  <2>1. cursor \in DOMAIN script
    BY <1>1, EventAtCursor
  <2>2. event.count \in Nat /\ SpawnBalance(event) \in 0..MaxU64
    BY <1>1, <2>1, SpawnBalanceType
  <2> QED BY <2>2
<1>6. SpawnsIn(script, D)[cursor] = event.count /\ CoinsIn(script, parameters, n, D)[cursor] = b
  <2>1. SpawnedWith(event, parameters) = SpawnBalance(event)
    BY Zenon DEF SpawnedWith, SpawnBalance
  <2>2. /\ SpawnsIn(script, D)[cursor] = event.count
        /\ CoinsIn(script, parameters, n, D)[cursor]
              = event.count * SpawnedWith(event, parameters)
    BY <1>1, <1>3, EventColumns
  <2> QED BY <2>1, <2>2
<1>7. Progress(wallets', cursor + 1, 0)
  <2>1. CoinsIn(script, parameters, n, D)[cursor] = 0 + b
    BY <1>5, <1>6
  <2> HIDE DEF b
  <2> QED BY <1>1, <1>3, <1>4, <1>5, <1>6, <2>1, EffectAtCursor DEF n, D
<1> QED BY <1>1, <1>7, EventOver

\* An event at the cursor that moves coins, or does nothing, leaves the supply as it was.
LEMMA MovesOnly ==
    ASSUME Shape, Explained, cursor <= Len(script), Due(script[cursor]),
           script[cursor].action # "spawn_wallets",
           \/ script[cursor].action # "charge_burst"
           \/ script[cursor].n_targets = 0
           \/ Len(wallets) = 0,
           Progress(wallets, cursor, 0),
           NEW vs, Len(vs) = Len(wallets),
           Total(BalancesOf(vs)) = Total(BalancesOf(wallets))
    PROVE  Progress(vs, cursor, 0) /\ Progress(vs, cursor + 1, 0)
<1> DEFINE k == Len(metrics) + 1
           n == PopulationAt(genesis, metrics, Len(metrics) + 1)
<1>1. Progress(vs, cursor, 0)
  BY DEF Progress, Reached
<1>2. cursor \in DueOf(script, k)
  BY ProgressAtCursor
<1>3. Len(wallets) = n + UpTo(SpawnsIn(script, k), cursor)
  BY DEF Progress, Reached
<1>4. SpawnsIn(script, k)[cursor] = 0 /\ CoinsIn(script, parameters, n, k)[cursor] = 0
  BY <1>2, <1>3, EventColumns
<1>5. /\ Len(vs) = Len(wallets) + SpawnsIn(script, k)[cursor]
      /\ Total(BalancesOf(vs)) = Total(BalancesOf(wallets)) + 0
      /\ CoinsIn(script, parameters, n, k)[cursor] = 0 + 0
  <2>1. Len(wallets) \in Nat /\ Total(BalancesOf(wallets)) \in Nat
    BY ColumnsType DEF Shape, Named
  <2> QED BY <1>4, <2>1
<1>6. Progress(vs, cursor + 1, 0)
  BY <1>5, EffectAtCursor
<1> QED BY <1>1, <1>6

\* The supply of the Vec is a natural number that fits its type.
LEMMA SupplyType ==
    ASSUME Shape, SupplyFits
    PROVE  Len(wallets) \in Nat /\ Total(BalancesOf(wallets)) \in Nat
           /\ Total(BalancesOf(wallets)) <= MaxU64
<1>1. Len(wallets) \in Nat /\ Total(BalancesOf(wallets)) \in Nat
  BY ColumnsType DEF Shape, Named
<1> QED BY <1>1 DEF SupplyFits

LEMMA BurstExplained ==
    ASSUME Shape, Explained, SupplyFits,
           NEW sender \in Draws, NEW draw \in Draws, NEW fraction \in Fractions,
           TransferBurst(sender, draw, fraction)
    PROVE  Explained'
<1> DEFINE event == script[cursor]
           rounds == script[cursor].n_txs
<1>1. /\ phase = "events" /\ phase' = phase /\ cursor <= Len(script) /\ Aside
      /\ event.action = "transfer_burst" /\ Due(event)
      /\ Len(wallets) >= 2 /\ repeats < rounds /\ NextRound(rounds)
  BY DEF TransferBurst, At, Aside, given
<1>2. rounds \in Nat /\ repeats \in Nat
  <2>1. cursor \in DOMAIN script /\ script \in Scripts /\ repeats \in Nat
    BY <1>1, EventAtCursor DEF Shape
  <2> QED BY <1>1, <2>1, EventFields
<1>3. Progress(wallets, cursor, 0)
  <2>1. Partial = 0
    BY <1>1 DEF Partial
  <2> QED BY <1>1, <2>1, ProgressAtCursor
<1>4. /\ Len(wallets') = Len(wallets)
      /\ Total(BalancesOf(wallets')) = Total(BalancesOf(wallets))
  <2>1. wallets' = wallets \/ Transfer(sender, draw, fraction)
    BY DEF TransferBurst
  <2>2. wallets' = wallets \/ Transferred(wallets, wallets')
    BY <1>1, <2>1, TransferStep DEF Draws
  <2> QED BY <2>2, SupplyType DEF Transferred
<1>5. Progress(wallets', cursor, 0) /\ Progress(wallets', cursor + 1, 0)
  <2>1. event.action # "spawn_wallets" /\ event.action # "charge_burst"
    BY <1>1
  <2> QED BY <1>1, <1>3, <1>4, <2>1, MovesOnly
<1>6. CASE repeats + 1 = rounds
  BY <1>1, <1>5, <1>6, EventOver DEF NextRound
<1>7. CASE repeats + 1 # rounds
  <2>1. repeats' = repeats + 1 /\ cursor' = cursor
    BY <1>1, <1>7 DEF NextRound
  <2>2. script' = script /\ state' = state
    BY <1>1 DEF Aside
  <2>3. repeats' < rounds
    BY <1>1, <1>2, <1>7, <2>1
  <2>4. UnderWay'
    BY <1>1, <1>4, <2>1, <2>2, <2>3 DEF UnderWay, Due
  <2>5. Partial' = 0
    BY <1>1, <2>1, <2>2 DEF Partial
  <2> QED BY <1>1, <1>5, <2>1, <2>4, <2>5, RoundOver
<1> QED BY <1>6, <1>7

LEMMA ChargeExplained ==
    ASSUME Shape, Explained, SupplyFits', NEW t \in Draws, ChargeBurst(t)
    PROVE  Explained'
<1> DEFINE event == script[cursor]
           rounds == script[cursor].n_targets
           q == script[cursor].amount \div rounds
           k == Len(metrics) + 1
           n == PopulationAt(genesis, metrics, k)
<1>1. /\ phase = "events" /\ phase' = phase /\ cursor <= Len(script) /\ Aside
      /\ event.action = "charge_burst" /\ Due(event)
      /\ repeats < rounds /\ NextRound(rounds)
  BY DEF ChargeBurst, At, Aside, given
<1>2. /\ Charged(wallets, wallets', q) /\ rounds \in Nat \ {0} /\ q \in Nat /\ repeats \in Nat
      /\ Len(wallets) \in Nat /\ Len(wallets) > 0
  <2>1. Len(wallets) \in Nat /\ Len(wallets) > 0
    BY DEF Draws, Shape, Named
  <2> QED BY <2>1, ChargeStep DEF Draws, Shape
<1> HIDE DEF q
<1>3. Partial = repeats * q
  <2>1. CASE repeats = 0
    BY <1>2, <2>1 DEF Partial
  <2>2. CASE repeats # 0
    BY <1>1, <2>2 DEF Partial, q
  <2> QED BY <2>1, <2>2
<1>4. Progress(wallets, cursor, repeats * q) /\ cursor \in DueOf(script, k)
  BY <1>1, <1>3, ProgressAtCursor
<1>5. /\ Len(wallets') = Len(wallets)
      /\ Total(BalancesOf(wallets')) = Total(BalancesOf(wallets)) + q
  BY <1>2 DEF Charged, SupplyFits
<1>6. repeats * q \in Nat /\ (repeats + 1) * q = repeats * q + q
  BY <1>2
<1>7. CASE repeats + 1 = rounds
  <2>1. Len(wallets) = n + UpTo(SpawnsIn(script, k), cursor)
    BY <1>4 DEF Progress, Reached
  <2>2. /\ SpawnsIn(script, k)[cursor] = 0
        /\ CoinsIn(script, parameters, n, k)[cursor] = rounds * q
    <3>1. n + UpTo(SpawnsIn(script, k), cursor) # 0 /\ rounds # 0
      BY <1>2, <2>1
    <3> USE DEF q
    <3>2. /\ SpawnsIn(script, k)[cursor] = IF event.action = "spawn_wallets" THEN event.count ELSE 0
          /\ CoinsIn(script, parameters, n, k)[cursor] =
                IF event.action = "spawn_wallets"
                THEN event.count * SpawnedWith(event, parameters)
                ELSE IF event.action = "charge_burst" /\ rounds # 0
                        /\ n + UpTo(SpawnsIn(script, k), cursor) # 0
                THEN rounds * q ELSE 0
      <4> HIDE DEF n, k
      <4> QED BY <1>4, EventColumns
    <3> QED BY <1>1, <3>1, <3>2
  <2>3. CoinsIn(script, parameters, n, k)[cursor] = repeats * q + q
    BY <1>6, <1>7, <2>2
  <2>4. Len(wallets') = Len(wallets) + SpawnsIn(script, k)[cursor]
    BY <1>2, <1>5, <2>2
  <2> DEFINE c == repeats * q
  <2>5. c \in Nat /\ Progress(wallets, cursor, c)
        /\ CoinsIn(script, parameters, n, k)[cursor] = c + q
    BY <1>4, <1>6, <2>3
  <2> HIDE DEF c
  <2>6. Progress(wallets', cursor + 1, 0)
    BY <1>1, <1>2, <1>5, <2>4, <2>5, EffectAtCursor
  <2> QED BY <1>1, <1>7, <2>6, EventOver DEF NextRound
<1>8. CASE repeats + 1 # rounds
  <2>1. repeats' = repeats + 1 /\ cursor' = cursor
    BY <1>1, <1>8 DEF NextRound
  <2>2. script' = script /\ state' = state
    BY <1>1 DEF Aside
  <2>3. repeats' < rounds /\ repeats' # 0
    BY <1>1, <1>2, <1>8, <2>1
  <2>4. UnderWay'
    BY <1>1, <1>2, <1>5, <2>1, <2>2, <2>3 DEF UnderWay, Due
  <2>5. Partial' = (repeats + 1) * q
    BY <1>1, <2>1, <2>2, <2>3 DEF Partial, q
  <2>6. Progress(wallets', cursor, (repeats + 1) * q)
    <3> DEFINE a == repeats * q
               b == (repeats + 1) * q
               m == SupplyAt(genesis, metrics, k)
               u == UpTo(CoinsIn(script, parameters, n, k), cursor)
    <3>1. /\ Len(wallets) = n + UpTo(SpawnsIn(script, k), cursor)
          /\ Total(BalancesOf(wallets)) = m + u + a
      BY <1>4 DEF Progress, Reached
    <3>2. a \in Nat /\ b = a + q /\ q \in Nat /\ m \in Nat /\ u \in Nat
      <4>1. m \in Nat /\ n \in Nat
        BY ProgressAtCursor
      <4> DEFINE D == DueOf(script, k)
                 g == CoinsIn(script, parameters, n, k)
      <4>2. script \in Scripts /\ parameters \in SimParameters /\ cursor \in Nat
        BY DEF Shape
      <4> HIDE DEF n, k
      <4>3. IsFiniteSet(D) /\ (\A i \in D : i \in Nat) /\ g \in [D -> Nat]
        BY <4>1, <4>2, ColumnsOfEvents
      <4> HIDE DEF D, g
      <4>4. \A i \in Nat : UpTo(g, i) \in Nat
        BY <4>3, UpToNext
      <4>5. u \in Nat
        BY <4>2, <4>4 DEF g
      <4> QED BY <1>2, <1>6, <4>1, <4>5
    <3>3. Progress(wallets', cursor, b)
             <=> /\ Len(wallets') = n + UpTo(SpawnsIn(script, k), cursor)
                 /\ Total(BalancesOf(wallets')) = m + u + b
      BY DEF Progress, Reached
    <3> HIDE DEF a, b, m, u
    <3>4. Total(BalancesOf(wallets')) = m + u + b
      BY <1>5, <3>1, <3>2
    <3>5. Len(wallets') = n + UpTo(SpawnsIn(script, k), cursor)
      BY <1>5, <3>1
    <3>6. Progress(wallets', cursor, b)
      BY <3>3, <3>4, <3>5
    <3> QED BY <3>6 DEF b
  <2> QED BY <1>1, <2>1, <2>4, <2>5, <2>6, RoundOver
<1> QED BY <1>7, <1>8

LEMMA ShockExplained ==
    ASSUME Shape, Explained, SupplyFits, NEW t \in Draws, WealthShock(t)
    PROVE  Explained'
<1>1. /\ phase = "events" /\ phase' = phase /\ cursor <= Len(script) /\ Aside /\ NextEvent
      /\ script[cursor].action = "wealth_shock" /\ Due(script[cursor])
  BY DEF WealthShock, At, Aside, given
<1>2. repeats = 0
  BY <1>1 DEF Explained, UnderWay
<1>3. Progress(wallets, cursor, 0)
  BY <1>1, <1>2, ProgressAtCursor
<1>4. /\ Len(wallets') = Len(wallets)
      /\ Total(BalancesOf(wallets')) = Total(BalancesOf(wallets))
  <2>1. Shocked(wallets, wallets')
    BY ShockStep DEF Draws
  <2> QED BY <2>1, SupplyType DEF Shocked
<1>5. Progress(wallets', cursor + 1, 0)
  <2>1. script[cursor].action # "spawn_wallets" /\ script[cursor].action # "charge_burst"
    BY <1>1
  <2> QED BY <1>1, <1>3, <1>4, <2>1, MovesOnly
<1> QED BY <1>1, <1>5, EventOver

LEMMA SkipExplained ==
    ASSUME Shape, Explained, SkipEvent
    PROVE  Explained'
<1>1. /\ phase = "events" /\ phase' = phase /\ cursor <= Len(script) /\ Aside /\ NextEvent
      /\ Skips(script[cursor]) /\ wallets' = wallets
  BY DEF SkipEvent, Aside, given
<1>2. Len(wallets) \in Nat /\ repeats \in Nat /\ cursor \in Nat /\ cursor \in DOMAIN script
      /\ script \in Scripts
  BY <1>1, EventAtCursor, ColumnsType DEF Shape, Named
<1>3. repeats = 0
  <2> SUFFICES ASSUME repeats # 0 PROVE FALSE
    OBVIOUS
  <2>1. Due(script[cursor])
        /\ \/ /\ script[cursor].action = "charge_burst"
              /\ repeats < script[cursor].n_targets /\ Len(wallets) > 0
           \/ /\ script[cursor].action = "transfer_burst"
              /\ repeats < script[cursor].n_txs /\ Len(wallets) >= 2
    BY DEF Explained, UnderWay
  <2> QED BY <1>1, <1>2, <2>1 DEF Skips
<1>4. Progress(wallets, cursor, 0)
  BY <1>1, <1>3, ProgressAtCursor
<1>5. CASE Due(script[cursor])
  <2>1. /\ script[cursor].action # "spawn_wallets"
        /\ \/ script[cursor].action # "charge_burst"
           \/ script[cursor].n_targets = 0
           \/ Len(wallets) = 0
    BY <1>1, <1>5 DEF Skips
  <2>2. Progress(wallets, cursor + 1, 0)
    BY <1>1, <1>4, <1>5, <2>1, MovesOnly
  <2> QED BY <1>1, <2>2, EventOver
<1>6. CASE ~Due(script[cursor])
  <2> DEFINE k == Len(metrics) + 1
             n == PopulationAt(genesis, metrics, k)
             m == SupplyAt(genesis, metrics, k)
  <2>1. n \in Nat /\ m \in Nat /\ cursor \notin DueOf(script, k)
    BY <1>1, <1>6, ProgressAtCursor
  <2>2. Reached(wallets, script, parameters, n, m, k, cursor, 0)
        /\ script \in Scripts /\ parameters \in SimParameters
    BY <1>4 DEF Progress, Shape
  <2>3. Progress(wallets, cursor + 1, 0)
           <=> Reached(wallets, script, parameters, n, m, k, cursor + 1, 0)
    BY DEF Progress
  <2> HIDE DEF k, n, m
  <2>4. Reached(wallets, script, parameters, n, m, k, cursor + 1, 0)
    BY <1>2, <2>1, <2>2, PassesOver
  <2> QED BY <1>1, <2>3, <2>4, EventOver
<1> QED BY <1>5, <1>6

\* The steps that leave the cursor of the script where it is: its end, and the activity.
LEMMA ActivityExplained ==
    ASSUME Shape, Explained, SupplyFits,
           \/ EndOfScript
           \/ NextSender
           \/ \E draw \in Draws, fraction \in Fractions : ActivityTransfer(draw, fraction)
    PROVE  Explained'
<1>1. Aside /\ repeats' = repeats
  BY DEF EndOfScript, NextSender, ActivityTransfer, Aside, given
<1>2. phase' = "activity" /\ Position = Len(script) + 1
  BY DEF EndOfScript, NextSender, ActivityTransfer, Position
<1>3. repeats = 0
  <2>1. CASE phase = "activity"
    BY <2>1 DEF Explained, UnderWay
  <2>2. CASE EndOfScript
    <3>1. cursor = Len(script) + 1 /\ Len(script) \in Nat
      BY <2>2, ScriptType DEF EndOfScript, Shape
    <3>2. ~(cursor <= Len(script))
      BY <3>1
    <3> QED BY <3>2 DEF Explained, UnderWay
  <2> QED BY <2>1, <2>2 DEF NextSender, ActivityTransfer
<1>4. Progress(wallets, Len(script) + 1, 0)
  BY <1>2, <1>3, ProgressAtCursor
<1>5. /\ Len(wallets') = Len(wallets)
      /\ Total(BalancesOf(wallets')) = Total(BalancesOf(wallets))
  <2>1. CASE EndOfScript \/ NextSender
    BY <2>1 DEF EndOfScript, NextSender
  <2>2. CASE \E draw \in Draws, fraction \in Fractions : ActivityTransfer(draw, fraction)
    <3>1. PICK draw \in Draws, fraction \in Fractions : ActivityTransfer(draw, fraction)
      BY <2>2
    <3>2. Len(wallets) >= 2 /\ cursor <= Len(wallets) /\ Transfer(cursor, draw, fraction)
      BY <3>1 DEF ActivityTransfer, EnoughWallets
    <3>3. cursor \in DOMAIN wallets
      BY <3>2 DEF Shape, Named
    <3>4. wallets' = wallets \/ Transferred(wallets, wallets')
      BY <3>2, <3>3, TransferStep DEF Draws
    <3> QED BY <3>4, SupplyType DEF Transferred
  <2> QED BY <2>1, <2>2
<1>6. Progress(wallets', Len(script) + 1, 0)
  BY <1>4, <1>5 DEF Progress, Reached
<1>7. script' = script
  BY <1>1 DEF Aside
<1>8. Position' = Len(script) + 1 /\ Partial' = 0 /\ UnderWay'
  BY <1>1, <1>2, <1>3, <1>7 DEF Position, Partial, UnderWay
<1>9. Len(script) + 1 \in 1..(Len(script) + 1)
  BY ScriptType DEF Shape
<1> QED BY <1>1, <1>6, <1>8, <1>9, ExplainedStays

\* The economic iteration closes the row.
LEMMA IterateExplained ==
    ASSUME Shape, Explained, SupplyFits, SupplyFits', Iterate
    PROVE  Explained'
<1> DEFINE k == Len(metrics) + 1
           n == PopulationAt(genesis, metrics, k)
           m == SupplyAt(genesis, metrics, k)
<1>1. PICK commit : /\ IterationStep(wallets, wallets', commit, parameters, state)
                    /\ metrics' = Append(metrics, Row(commit, wallets'))
  BY IterateStep
<1>2. /\ parameters' = parameters /\ script' = script /\ genesis' = genesis
      /\ cursor' = 1 /\ repeats' = 0
  BY IterateKeeps
<1>3. phase = "activity" /\ phase' # "activity"
  BY DEF Iterate, ActivityOver
<1> DEFINE row    == Row(commit, wallets')
           before == Total(BalancesOf(wallets))
           after  == Total(BalancesOf(wallets'))
           f      == SpawnsIn(script, k)
           g      == CoinsIn(script, parameters, n, k)
           D      == DueOf(script, k)
<1>4. /\ Len(wallets) \in Nat /\ Len(wallets') \in Nat /\ before \in Nat /\ after \in Nat
      /\ before <= MaxU64 /\ after <= MaxU64
  <2>1. Named(wallets) /\ Named(wallets')
    BY <1>1 DEF Shape, IterationStep
  <2>2. Len(wallets) \in Nat /\ Len(wallets') \in Nat /\ before \in Nat /\ after \in Nat
    BY <2>1, ColumnsType DEF Named
  <2> QED BY <2>2 DEF SupplyFits
<1>5. /\ Cardinality(commit.new_wallets) \in Nat
      /\ Len(wallets') = Len(wallets) + Cardinality(commit.new_wallets)
      /\ commit.post_supply = after
      /\ commit.faucet_from_mint \in Nat /\ commit.burned \in Nat
      /\ after = before + commit.faucet_from_mint - commit.burned
  BY <1>1, <1>4 DEF IterationStep
<1>6. /\ row.supply = commit.post_supply /\ row.n_wallets = Len(wallets')
      /\ row.burned = commit.burned /\ row.faucet_from_mint = commit.faucet_from_mint
      /\ row.new_wallets = Cardinality(commit.new_wallets)
  BY RowFields
<1>7. n \in Nat /\ m \in Nat /\ Len(metrics) \in Nat
  BY ProgressAtCursor
<1>8. Len(wallets) = n + Total(f) /\ before = m + Total(g) /\ Total(f) \in Nat /\ Total(g) \in Nat
  <2>1. repeats = 0
    BY <1>3 DEF Explained, UnderWay
  <2>2. Progress(wallets, Len(script) + 1, 0)
    BY <1>3, <2>1, ProgressAtCursor DEF Position
  <2>3. Len(wallets) = n + UpTo(f, Len(script) + 1) /\ before = m + UpTo(g, Len(script) + 1) + 0
    BY <2>2 DEF Progress, Reached
  <2> DEFINE end == Len(script) + 1
  <2>4. end \in Nat /\ \A j \in D : j < end
    <3>1. Len(script) \in Nat /\ D \in SUBSET (1..Len(script))
      BY <1>7, ScriptType, ColumnsOfEvents DEF Shape
    <3> QED BY <3>1
  <2>5. IsFiniteSet(D) /\ (\A j \in D : j \in Nat) /\ f \in [D -> Nat] /\ g \in [D -> Nat]
    BY <1>7, ColumnsOfEvents DEF Shape
  <2> HIDE DEF D, f, g, end
  <2>6. UpTo(f, end) = Total(f) /\ UpTo(f, end) \in Nat
    <3>1. /\ \A i \in Nat : UpTo(f, i) \in Nat
          /\ \A i : (\A j \in D : j < i) => UpTo(f, i) = Total(f)
      BY <2>5, UpToNext
    <3> QED BY <2>4, <3>1
  <2>7. UpTo(g, end) = Total(g) /\ UpTo(g, end) \in Nat
    <3>1. /\ \A i \in Nat : UpTo(g, i) \in Nat
          /\ \A i : (\A j \in D : j < i) => UpTo(g, i) = Total(g)
      BY <2>5, UpToNext
    <3> QED BY <2>4, <3>1
  <2>8. before = m + UpTo(g, end) + 0 /\ Len(wallets) = n + UpTo(f, end)
    BY <2>3 DEF end
  <2> HIDE DEF before, m, n
  <2>9. before = m + Total(g)
    BY <1>7, <2>7, <2>8
  <2> QED BY <2>6, <2>7, <2>8, <2>9
<1>9. Follows(row, script, parameters, n, m, k)
  <2>1. Follows(row, script, parameters, n, m, k)
           <=> /\ row.n_wallets = n + Total(f) + row.new_wallets
               /\ row.supply = m + Total(g) + row.faucet_from_mint - row.burned
    BY DEF Follows
  <2> DEFINE w == Cardinality(commit.new_wallets)
  <2>2. row.n_wallets = Len(wallets) + w /\ row.new_wallets = w /\ w \in Nat
    BY <1>5, <1>6
  <2> HIDE DEF row, f, g, n, m, w, before, after, k
  <2>3. row.n_wallets = n + Total(f) + row.new_wallets
    BY <1>8, <2>2
  <2>4. row.supply = m + Total(g) + row.faucet_from_mint - row.burned
    BY <1>4, <1>5, <1>6, <1>8
  <2> QED BY <2>1, <2>3, <2>4
<1>10. /\ Len(metrics') = k /\ DOMAIN metrics = 1..Len(metrics)
       /\ DOMAIN metrics' = 1..k
       /\ \A j \in 1..Len(metrics) : metrics'[j] = metrics[j]
       /\ metrics'[k] = row
  <2>1. metrics' = Append(metrics, row) /\ IsRows(metrics)
    BY <1>1 DEF Shape
  <2> HIDE DEF row
  <2>2. /\ IsRows(Append(metrics, row))
        /\ Len(metrics) \in Nat /\ DOMAIN metrics = 1..Len(metrics)
        /\ Len(Append(metrics, row)) = Len(metrics) + 1
        /\ \A j \in DOMAIN metrics : Append(metrics, row)[j] = metrics[j]
        /\ Append(metrics, row)[Len(metrics) + 1] = row
    BY <2>1, RowsAppend
  <2>3. DOMAIN metrics' = 1..Len(metrics')
    BY <2>1, <2>2 DEF IsRows
  <2> QED BY <2>1, <2>2, <2>3
<1>11. \A j \in 1..k : /\ PopulationAt(genesis', metrics', j) = PopulationAt(genesis, metrics, j)
                       /\ SupplyAt(genesis', metrics', j) = SupplyAt(genesis, metrics, j)
  <2> SUFFICES ASSUME NEW j \in 1..k
               PROVE  /\ PopulationAt(genesis', metrics', j) = PopulationAt(genesis, metrics, j)
                      /\ SupplyAt(genesis', metrics', j) = SupplyAt(genesis, metrics, j)
    OBVIOUS
  <2>1. j # 1 => j - 1 \in 1..Len(metrics)
    BY <1>7
  <2>2. j # 1 => metrics'[j - 1] = metrics[j - 1]
    BY <1>10, <2>1
  <2> QED BY <1>2, <2>2 DEF PopulationAt, SupplyAt
<1>12. /\ PopulationAt(genesis', metrics', k + 1) = Len(wallets')
       /\ SupplyAt(genesis', metrics', k + 1) = after
  <2>1. k + 1 # 1 /\ (k + 1) - 1 = k
    BY <1>7
  <2> HIDE DEF k, row
  <2> QED BY <1>5, <1>6, <1>10, <2>1 DEF PopulationAt, SupplyAt
<1>13. RowsExplained'
  <2>1. \A j \in 1..(k + 1) : /\ PopulationAt(genesis', metrics', j) \in Nat
                              /\ SupplyAt(genesis', metrics', j) \in Nat
    <3>1. \A j \in 1..k : /\ PopulationAt(genesis, metrics, j) \in Nat
                          /\ SupplyAt(genesis, metrics, j) \in Nat
      BY Zenon DEF Explained, RowsExplained
    <3>2. \A j \in 1..(k + 1) : j \in 1..k \/ j = k + 1
      BY <1>7
    <3> HIDE DEF k
    <3> QED BY <1>4, <1>11, <1>12, <3>1, <3>2
  <2>2. ASSUME NEW j \in 1..k
        PROVE  Follows(metrics'[j], script, parameters, PopulationAt(genesis, metrics, j),
                       SupplyAt(genesis, metrics, j), j)
    <3>1. CASE j = k
      BY <1>9, <1>10, <3>1
    <3>2. CASE j # k
      <4>1. j \in 1..Len(metrics)
        BY <1>7, <3>2
      <4>2. Follows(metrics[j], script, parameters, PopulationAt(genesis, metrics, j),
                    SupplyAt(genesis, metrics, j), j)
        BY <1>10, <4>1, Zenon DEF Explained, RowsExplained
      <4> QED BY <1>10, <4>1, <4>2
    <3> QED BY <3>1, <3>2
  <2> HIDE DEF k
  <2>3. \A j \in DOMAIN metrics' :
           Follows(metrics'[j], script', parameters', PopulationAt(genesis', metrics', j),
                   SupplyAt(genesis', metrics', j), j)
    BY <1>2, <1>10, <1>11, <2>2
  <2>4. \A j \in 1..(Len(metrics') + 1) : /\ PopulationAt(genesis', metrics', j) \in Nat
                                          /\ SupplyAt(genesis', metrics', j) \in Nat
    BY <1>10, <2>1
  <2> QED BY <2>3, <2>4 DEF RowsExplained
<1>14. Reached(wallets', script, parameters, Len(wallets'), after, k + 1, 1, 0)
  <2> DEFINE S  == DueOf(script, k + 1)
             f1 == SpawnsIn(script, k + 1)
             g1 == CoinsIn(script, parameters, Len(wallets'), k + 1)
  <2>1. /\ IsFiniteSet(S) /\ S \in SUBSET (1..Len(script))
        /\ (\A j \in S : j \in Nat) /\ f1 \in [S -> Nat] /\ g1 \in [S -> Nat]
    BY <1>4, ColumnsOfEvents DEF Shape
  <2>2. \A j \in S : ~(j < 1)
    <3>1. Len(script) \in Nat
      BY ScriptType DEF Shape
    <3> QED BY <2>1, <3>1
  <2>3. Reached(wallets', script, parameters, Len(wallets'), after, k + 1, 1, 0)
           <=> Len(wallets') = Len(wallets') + UpTo(f1, 1) /\ after = after + UpTo(g1, 1) + 0
    BY DEF Reached
  <2> HIDE DEF S, f1, g1, after
  <2>4. UpTo(f1, 1) = 0
    <3>1. \A i : (\A j \in S : ~(j < i)) => UpTo(f1, i) = 0
      BY <2>1, UpToNext
    <3> QED BY <2>2, <3>1
  <2>5. UpTo(g1, 1) = 0
    <3>1. \A i : (\A j \in S : ~(j < i)) => UpTo(g1, i) = 0
      BY <2>1, UpToNext
    <3> QED BY <2>2, <3>1
  <2> QED BY <1>4, <2>3, <2>4, <2>5
<1>15. Position' = 1 /\ Partial' = 0 /\ UnderWay' /\ Position' \in 1..(Len(script') + 1)
  <2>1. Len(script) \in Nat
    BY ScriptType DEF Shape
  <2>2. 1 \in 1..(Len(script) + 1)
    BY <2>1
  <2> QED BY <1>2, <1>3, <2>2 DEF Position, Partial, UnderWay
<1>16. LET K == Len(metrics') + 1
       IN  Reached(wallets', script', parameters', PopulationAt(genesis', metrics', K),
                   SupplyAt(genesis', metrics', K), K, Position', Partial')
  <2> HIDE DEF k, after
  <2> QED BY <1>2, <1>10, <1>12, <1>14, <1>15
<1> QED BY <1>13, <1>15, <1>16 DEF Explained

LEMMA InitExplained == Init => Explained
<1> SUFFICES ASSUME Init PROVE Explained
  OBVIOUS
<1>1. Shape
  BY InitShape
<1>2. /\ Len(metrics) = 0 /\ DOMAIN metrics = {} /\ cursor = 1 /\ repeats = 0
      /\ phase # "activity"
      /\ genesis.n_wallets = Len(wallets) /\ genesis.supply = Total(BalancesOf(wallets))
  BY DEF Init
<1>3. Len(wallets) \in Nat /\ Total(BalancesOf(wallets)) \in Nat
  BY <1>1, ColumnsType DEF Shape, Named
<1> DEFINE n == Len(wallets)
           m == Total(BalancesOf(wallets))
<1>4. PopulationAt(genesis, metrics, 1) = n /\ SupplyAt(genesis, metrics, 1) = m
  BY <1>2 DEF PopulationAt, SupplyAt
<1>5. RowsExplained
  <2>1. \A k \in 1..(Len(metrics) + 1) : k = 1
    BY <1>2
  <2> HIDE DEF n, m
  <2>2. n \in Nat /\ m \in Nat
    BY <1>3 DEF n, m
  <2> QED BY <1>2, <1>4, <2>1, <2>2 DEF RowsExplained
<1>6. Reached(wallets, script, parameters, n, m, 1, 1, 0)
  <2> DEFINE S  == DueOf(script, 1)
             f1 == SpawnsIn(script, 1)
             g1 == CoinsIn(script, parameters, n, 1)
  <2>1. /\ IsFiniteSet(S) /\ S \in SUBSET (1..Len(script))
        /\ (\A j \in S : j \in Nat) /\ f1 \in [S -> Nat] /\ g1 \in [S -> Nat]
    BY <1>1, <1>3, ColumnsOfEvents DEF Shape
  <2>2. \A j \in S : ~(j < 1)
    <3>1. Len(script) \in Nat
      BY <1>1, ScriptType DEF Shape
    <3> QED BY <2>1, <3>1
  <2>3. Reached(wallets, script, parameters, n, m, 1, 1, 0)
           <=> n = n + UpTo(f1, 1) /\ m = m + UpTo(g1, 1) + 0
    BY DEF Reached
  <2>4. n \in Nat /\ m \in Nat
    BY <1>3
  <2> HIDE DEF S, f1, g1, n, m
  <2>5. UpTo(f1, 1) = 0
    <3>1. \A i : (\A j \in S : ~(j < i)) => UpTo(f1, i) = 0
      BY <2>1, UpToNext
    <3> QED BY <2>2, <3>1
  <2>6. UpTo(g1, 1) = 0
    <3>1. \A i : (\A j \in S : ~(j < i)) => UpTo(g1, i) = 0
      BY <2>1, UpToNext
    <3> QED BY <2>2, <3>1
  <2> QED BY <2>3, <2>4, <2>5, <2>6
<1>7. Position = 1 /\ Partial = 0 /\ UnderWay /\ Position \in 1..(Len(script) + 1)
  <2>1. Len(script) \in Nat
    BY <1>1, ScriptType DEF Shape
  <2>2. 1 \in 1..(Len(script) + 1)
    BY <2>1
  <2> QED BY <1>2, <2>2 DEF Position, Partial, UnderWay
<1>8. Len(metrics) + 1 = 1
  BY <1>2
<1> HIDE DEF n, m
<1> QED BY <1>4, <1>5, <1>6, <1>7, <1>8 DEF Explained

LEMMA NextExplained == Shape /\ Explained /\ SupplyFits /\ SupplyFits' /\ [Next]_vars => Explained'
<1> SUFFICES ASSUME Shape, Explained, SupplyFits, SupplyFits', [Next]_vars PROVE Explained'
  OBVIOUS
<1>1. CASE SpawnWallets
  BY <1>1, SpawnExplained
<1>2. CASE \E sender, draw \in Draws, fraction \in Fractions : TransferBurst(sender, draw, fraction)
  BY <1>2, BurstExplained
<1>3. CASE \E target \in Draws : ChargeBurst(target)
  BY <1>3, ChargeExplained
<1>4. CASE \E target \in Draws : WealthShock(target)
  BY <1>4, ShockExplained
<1>5. CASE SkipEvent
  BY <1>5, SkipExplained
<1>6. CASE \/ EndOfScript
           \/ NextSender
           \/ \E draw \in Draws, fraction \in Fractions : ActivityTransfer(draw, fraction)
  BY <1>6, ActivityExplained
<1>7. CASE Iterate
  BY <1>7, IterateExplained
<1>8. CASE UNCHANGED vars
  BY <1>8 DEF vars, Explained, Position, UnderWay, Partial, RowsExplained, Due
<1> QED BY <1>1, <1>2, <1>3, <1>4, <1>5, <1>6, <1>7, <1>8 DEF Next, Rounds

\* As long as the supply fits its type, the script and the rows account for every wallet and every
\* coin: each event that is due takes effect once, in order, whatever is drawn.
THEOREM SimulatorRows == Spec /\ []SupplyFits => []RowsFollowScript
<1>1. Spec /\ []SupplyFits => []Explained
  BY InitExplained, NextExplained, SimulatorShape, PTL DEF Spec
<1>2. Shape /\ Explained => RowsFollowScript
  <2> SUFFICES ASSUME Shape, Explained, NEW k \in DOMAIN metrics
               PROVE  /\ metrics[k].n_wallets = PopulationBefore(k)
                                                   + SpawnedBefore(k, Len(script) + 1)
                                                   + metrics[k].new_wallets
                      /\ metrics[k].supply = SupplyBefore(k)
                                                + Total([i \in DueIn(k) |-> CoinsOf(k, i)])
                                                + metrics[k].faucet_from_mint - metrics[k].burned
    BY DEF RowsFollowScript
  <2> DEFINE n == PopulationAt(genesis, metrics, k)
             m == SupplyAt(genesis, metrics, k)
             D == DueOf(script, k)
             f == SpawnsIn(script, k)
             g == CoinsIn(script, parameters, n, k)
  <2>1. Follows(metrics[k], script, parameters, n, m, k)
    BY Zenon DEF Explained, RowsExplained
  <2>2. n = PopulationBefore(k) /\ m = SupplyBefore(k) /\ D = DueIn(k)
    BY DEF PopulationAt, PopulationBefore, SupplyAt, SupplyBefore, DueOf, DueIn
  <2>3. \A i : SpawnedBefore(k, i) = UpTo(f, i)
    BY <2>2 DEF SpawnedBefore, UpTo, SpawnsIn
  <2>4. [i \in DueIn(k) |-> CoinsOf(k, i)] = g
    <3>1. \A i \in D : CoinsOf(k, i) = g[i]
      <4> SUFFICES ASSUME NEW i \in D PROVE CoinsOf(k, i) = g[i]
        OBVIOUS
      <4>1. SpawnBalance(script[i]) = SpawnedWith(script[i], parameters)
        BY Zenon DEF SpawnBalance, SpawnedWith
      <4>2. g[i] = IF script[i].action = "spawn_wallets"
                   THEN script[i].count * SpawnedWith(script[i], parameters)
                   ELSE IF script[i].action = "charge_burst" /\ script[i].n_targets # 0
                           /\ n + UpTo(f, i) # 0
                   THEN script[i].n_targets * (script[i].amount \div script[i].n_targets)
                   ELSE 0
        BY EventColumns
      <4>3. n + UpTo(f, i) = PopulationBefore(k) + SpawnedBefore(k, i)
        BY <2>2, <2>3
      <4> HIDE DEF n, f, g
      <4> QED BY <4>1, <4>2, <4>3 DEF CoinsOf
    <3>2. g = [i \in D |-> g[i]]
      BY DEF CoinsIn
    <3> HIDE DEF g, D
    <3> QED BY <2>2, <3>1, <3>2
  <2>5. SpawnedBefore(k, Len(script) + 1) = Total(f)
    <3>1. n \in Nat /\ Len(script) \in Nat
      <4>1. Len(metrics) \in Nat /\ DOMAIN metrics = 1..Len(metrics)
        BY RowsAppend DEF Shape
      <4>2. k \in 1..(Len(metrics) + 1)
        BY <4>1
      <4> QED BY <4>2, ScriptType, Zenon DEF Explained, RowsExplained, Shape
    <3>2. /\ IsFiniteSet(D) /\ D \in SUBSET (1..Len(script))
          /\ (\A j \in D : j \in Nat) /\ f \in [D -> Nat]
      BY <3>1, ColumnsOfEvents DEF Shape
    <3> DEFINE end == Len(script) + 1
    <3>3. \A j \in D : j < end
      BY <3>1, <3>2
    <3>4. SpawnedBefore(k, end) = UpTo(f, end)
      BY <2>3
    <3> HIDE DEF D, f, end
    <3>5. \A i : (\A j \in D : j < i) => UpTo(f, i) = Total(f)
      BY <3>2, UpToNext
    <3>6. UpTo(f, end) = Total(f)
      BY <3>3, <3>5
    <3> QED BY <3>4, <3>6 DEF end
  <2>6. /\ metrics[k].n_wallets = n + Total(f) + metrics[k].new_wallets
        /\ metrics[k].supply = m + Total(g) + metrics[k].faucet_from_mint - metrics[k].burned
    BY <2>1 DEF Follows
  <2> HIDE DEF n, m, f, g
  <2> QED BY <2>2, <2>4, <2>5, <2>6
<1> QED BY <1>1, <1>2, SimulatorShape, PTL

-----------------------------------------------------------------------------
(* The metrics of the population.                                          *)

\* Ascending sorts the balances.
LEMMA AscendingSorts ==
    ASSUME NEW ws \in Seq(SimWallets)
    PROVE  /\ Ascending(ws) \in [1..Len(ws) -> Nat]
           /\ \A k \in 1..Len(ws) : IsKth(BalancesOf(ws), Ascending(ws)[k], k)
<1> DEFINE f == BalancesOf(ws)
           D == 1..Len(ws)
           B == {ws[i].balance : i \in DOMAIN ws}
           P(b, k) == /\ Cardinality({i \in DOMAIN ws : ws[i].balance < b}) < k
                      /\ Cardinality({i \in DOMAIN ws : ws[i].balance <= b}) >= k
<1>1. /\ DOMAIN ws = D /\ IsFiniteSet(D) /\ Cardinality(D) = Len(ws) /\ f \in [D -> Nat]
      /\ Len(ws) \in Nat
  BY ColumnsType
<1>2. \A i \in D : f[i] = ws[i].balance
  BY <1>1 DEF BalancesOf
<1>3. ASSUME NEW k \in D, NEW b
      PROVE  IsKth(f, b, k) <=> b \in B /\ P(b, k)
  <2>1. b \in B <=> \E i \in DOMAIN f : f[i] = b
    BY <1>1, <1>2
  <2>2. Below(f, b) = {i \in DOMAIN ws : ws[i].balance < b}
    BY <1>1, <1>2 DEF Below
  <2>3. UpToAmount(f, b) = {i \in DOMAIN ws : ws[i].balance <= b}
    BY <1>1, <1>2 DEF UpToAmount
  <2> HIDE DEF B, f
  <2> QED BY <2>1, <2>2, <2>3 DEF IsKth
<1>4. ASSUME NEW k \in D
      PROVE  /\ Ascending(ws)[k] = CHOOSE b \in B : P(b, k)
             /\ \E b \in B : P(b, k)
  <2>1. Ascending(ws)[k] = CHOOSE b \in B : P(b, k)
    BY <1>1, Zenon DEF Ascending
  <2>2. k \in Nat /\ k > 0 /\ k <= Len(ws)
    BY <1>1
  <2>3. \E b \in Nat : IsKth(f, b, k)
    <3> HIDE DEF f, D, B, P
    <3> QED BY <1>1, <2>2, KthExists
  <2>4. \E b \in B : P(b, k)
    BY <1>3, <2>3, Zenon
  <2> QED BY <2>1, <2>4
<1> HIDE DEF B, P
<1>5. ASSUME NEW k \in D PROVE IsKth(f, Ascending(ws)[k], k) /\ Ascending(ws)[k] \in Nat
  <2>1. (CHOOSE b \in B : P(b, k)) \in B /\ P(CHOOSE b \in B : P(b, k), k)
    BY <1>4, Zenon
  <2>2. Ascending(ws)[k] \in B /\ P(Ascending(ws)[k], k)
    BY <1>4, <2>1, Zenon
  <2>3. IsKth(f, Ascending(ws)[k], k)
    BY <1>3, <2>2, Zenon
  <2> HIDE DEF f
  <2>4. Ascending(ws)[k] \in Nat
    BY <1>1, <2>3 DEF IsKth
  <2> QED BY <2>3, <2>4
<1>6. Ascending(ws) = [k \in D |-> Ascending(ws)[k]]
  <2> DEFINE h(k) == CHOOSE b \in B : P(b, k)
             A == Ascending(ws)
  <2>1. A = [k \in DOMAIN ws |-> h(k)]
    BY Zenon DEF Ascending, B, P
  <2> HIDE DEF h, A, D
  <2>2. A = [k \in D |-> A[k]]
    BY <1>1, <2>1
  <2> QED BY <2>2 DEF A
<1> QED BY <1>5, <1>6

PairsOf(ws) ==
    [p \in (DOMAIN ws) \X (DOMAIN ws) |-> AbsDiff(ws[p[1]].balance, ws[p[2]].balance)]

\* The Gini coefficient and the median describe the balances.
Describes(gini, median, ws) ==
    /\ gini[1] * 2 * Len(ws) * Total(BalancesOf(ws)) = gini[2] * Total(PairsOf(ws))
    /\ ws # << >> =>
          /\ 2 * Cardinality({i \in DOMAIN ws : ws[i].balance <= median}) >= Len(ws)
          /\ 2 * Cardinality({i \in DOMAIN ws : ws[i].balance >= median}) >= Len(ws)

LEMMA GiniDescribes ==
    ASSUME NEW ws \in Seq(SimWallets)
    PROVE  Gini(ws)[1] * 2 * Len(ws) * Total(BalancesOf(ws)) = Gini(ws)[2] * Total(PairsOf(ws))
<1> DEFINE n == Len(ws)
           b == BalancesOf(ws)
           s == Ascending(ws)
           D == 1..n
           ranks == [i \in 1..n |-> i * s[i]]
           pairs == PairsOf(ws)
<1>1. DOMAIN ws = D /\ n \in Nat /\ b \in [D -> Nat] /\ IsFiniteSet(D) /\ Total(b) \in Nat
  BY ColumnsType
<1>2. s \in [D -> Nat] /\ \A k \in D : IsKth(b, s[k], k)
  BY AscendingSorts
<1>3. \A i \in D : b[i] = ws[i].balance
  BY <1>1 DEF BalancesOf
<1>4. Gini(ws) = IF Total(s) = 0 THEN <<0, 1>>
                 ELSE <<2 * Total(ranks) - (n + 1) * Total(s), n * Total(s)>>
  BY Zenon DEF Gini
<1> HIDE DEF n, b, s
<1>5. ranks \in [D -> Nat] /\ \A k \in D : ranks[k] = k * s[k]
  <2>1. \A k \in D : k * s[k] \in Nat
    BY <1>1, <1>2
  <2> QED BY <2>1
<1>6. pairs \in [D \X D -> Nat] /\ \A x, y \in D : pairs[<<x, y>>] = IF b[x] > b[y] THEN b[x] - b[y]
                                                                    ELSE b[y] - b[x]
  <2>1. \A x, y \in D : /\ AbsDiff(ws[x].balance, ws[y].balance) \in Nat
                        /\ AbsDiff(ws[x].balance, ws[y].balance)
                              = IF b[x] > b[y] THEN b[x] - b[y] ELSE b[y] - b[x]
    BY <1>1, <1>3 DEF AbsDiff, LargerOf
  <2>2. pairs = [p \in D \X D |-> AbsDiff(ws[p[1]].balance, ws[p[2]].balance)]
    BY <1>1 DEF PairsOf
  <2> HIDE DEF pairs, D
  <2> QED BY <2>1, <2>2
<1> HIDE DEF ranks, pairs
<1>7. Total(s) = Total(b) /\ 4 * Total(ranks) = (2 * (n + 1)) * Total(s) + Total(pairs)
  <2>1. RanksAndPairs(n, b, s, ranks, pairs)
    BY <1>1, <1>2, <1>5, <1>6 DEF RanksAndPairs
  <2> QED BY <1>1, <2>1, DifferencesByRank
<1> HIDE DEF D
<1>8. Total(ranks) \in Nat /\ Total(pairs) \in Nat
  <2>1. Total(ranks) \in Nat
    BY <1>1, <1>5, TotalType
  <2>2. IsFiniteSet(D \X D)
    BY <1>1, FS_Product
  <2>3. pairs \in [D \X D -> Nat]
    BY <1>6
  <2>4. Total(pairs) \in Nat
    BY <2>2, <2>3, TotalType
  <2> QED BY <2>1, <2>4
<1>9. CASE Total(s) = 0
  <2>1. Total(ranks) = 0
    <3>1. \A k \in D : s[k] <= 0
      BY <1>1, <1>2, <1>9, TotalBound
    <3>2. \A k \in D : ranks[k] = 0
      BY <1>2, <1>5, <3>1 DEF D
    <3> DEFINE z == 0
    <3>3. z \in Nat /\ z = 0 /\ \A k \in D : ranks[k] = z
      BY <3>2
    <3> HIDE DEF z
    <3>4. Total(ranks) = Cardinality(D) * z /\ Cardinality(D) \in Nat
      BY <1>1, <1>5, <3>3, TotalConstant, FS_CardinalityType
    <3> QED BY <3>3, <3>4
  <2> DEFINE P == Total(pairs)
             G == Gini(ws)
             T == Total(b)
  <2>2. P = 0 /\ G[1] = 0 /\ G[2] = 1 /\ T = 0
    BY <1>1, <1>4, <1>7, <1>8, <1>9, <2>1
  <2> HIDE DEF P, G, T
  <2>3. G[1] * 2 * n * T = G[2] * P
    BY <1>1, <2>2
  <2> QED BY <2>3 DEF P, G, T, b, n, pairs
<1>10. CASE Total(s) # 0
  <2> DEFINE P == Total(pairs)
             G == Gini(ws)
             T == Total(b)
             R == Total(ranks)
             g == 2 * R - (n + 1) * T
  <2>1. G[1] = g /\ G[2] = n * T /\ n \in Nat /\ T \in Nat /\ R \in Nat /\ P \in Nat
    BY <1>1, <1>4, <1>7, <1>8, <1>10
  <2>2. P = 2 * g
    <3>1. 4 * R = (2 * (n + 1)) * T + P
      BY <1>7
    <3> DEFINE q == (n + 1) * T
    <3>2. (2 * (n + 1)) * T = 2 * q /\ q \in Nat
      BY <2>1
    <3> HIDE DEF R, P, T
    <3>3. 4 * R = 2 * q + P
      BY <3>1, <3>2
    <3>4. g = 2 * R - q
      OBVIOUS
    <3> HIDE DEF q, g
    <3> QED BY <2>1, <3>2, <3>3, <3>4
  <2>3. g \in Int
    BY <2>1
  <2> HIDE DEF P, G, T, R, g
  <2>4. g * 2 * n * T = (n * T) * (2 * g)
    BY <2>1, <2>3
  <2>5. G[1] * 2 * n * T = G[2] * P
    BY <2>1, <2>2, <2>4
  <2> QED BY <2>5 DEF P, G, T, b, n, pairs
<1> QED BY <1>9, <1>10

LEMMA MedianDescribes ==
    ASSUME NEW ws \in Seq(SimWallets), ws # << >>
    PROVE  LET m == MedianBalance(ws)
           IN  /\ 2 * Cardinality({i \in DOMAIN ws : ws[i].balance <= m}) >= Len(ws)
               /\ 2 * Cardinality({i \in DOMAIN ws : ws[i].balance >= m}) >= Len(ws)
<1> DEFINE n == Len(ws)
           k == (n \div 2) + 1
           b == BalancesOf(ws)
           m == MedianBalance(ws)
           D == 1..n
           low  == {i \in DOMAIN ws : ws[i].balance <= m}
           high == {i \in DOMAIN ws : ws[i].balance >= m}
<1>1. /\ DOMAIN ws = D /\ n \in Nat /\ b \in [D -> Nat] /\ IsFiniteSet(D) /\ Cardinality(D) = n
      /\ n # 0
  BY ColumnsType
<1>2. \A i \in D : b[i] = ws[i].balance
  BY <1>1 DEF BalancesOf
<1>3. m = Ascending(ws)[k]
  BY DEF MedianBalance
<1>4. k \in D /\ k \in Nat /\ 2 * k >= n /\ 2 * (k - 1) <= n
  <2> HIDE DEF n
  <2> QED BY <1>1
<1>5. IsKth(b, m, k)
  BY <1>3, <1>4, AscendingSorts
<1>6. low = UpToAmount(b, m) /\ high = D \ Below(b, m)
  <2>1. m \in Nat
    BY <1>1, <1>5 DEF IsKth
  <2> HIDE DEF m, b
  <2>2. low = UpToAmount(b, m)
    BY <1>1, <1>2 DEF UpToAmount
  <2>3. \A i \in D : ws[i].balance \in Nat
    BY <1>1, <1>2
  <2>4. high = D \ Below(b, m)
    BY <1>1, <1>2, <2>1, <2>3 DEF Below
  <2> QED BY <2>2, <2>4
<1> HIDE DEF b, m, low, high, D
<1>7. /\ Below(b, m) \in SUBSET D
      /\ Cardinality(Below(b, m)) \in Nat /\ Cardinality(UpToAmount(b, m)) \in Nat
  <2>1. b \in [D -> Nat] /\ IsFiniteSet(D)
    BY <1>1
  <2> HIDE DEF n, k
  <2> QED BY <2>1, BelowFacts
<1>8. Cardinality(high) = n - Cardinality(Below(b, m))
  <2>1. Cardinality(D \ Below(b, m)) = Cardinality(D) - Cardinality(D \cap Below(b, m))
    BY <1>1, FS_Difference
  <2>2. D \cap Below(b, m) = Below(b, m)
    BY <1>7
  <2> QED BY <1>1, <1>6, <2>1, <2>2
<1> DEFINE c == Cardinality(Below(b, m))
           d == Cardinality(UpToAmount(b, m))
<1>9. c < k /\ d >= k /\ c \in Nat /\ d \in Nat /\ Cardinality(low) = d /\ Cardinality(high) = n - c
  BY <1>5, <1>6, <1>7, <1>8 DEF IsKth
<1> HIDE DEF c, d, n, k
<1>10. 2 * Cardinality(low) >= n /\ 2 * Cardinality(high) >= n
  BY <1>1, <1>4, <1>9
<1> QED BY <1>10 DEF low, high, m, n

\* Between the iteration and the next step the last row describes the Vec.
LastRowDescribes ==
    (phase # "activity" /\ cursor = 1 /\ repeats = 0 /\ Len(metrics) # 0) =>
        Describes(metrics[Len(metrics)].gini, metrics[Len(metrics)].median_balance, wallets)

\* The other steps leave that point.
LEMMA RoundsLeave ==
    ASSUME Shape, Rounds
    PROVE  phase' = "activity" \/ cursor' # 1 \/ repeats' # 0
<1>1. cursor \in Nat \ {0} /\ repeats \in Nat
  BY DEF Shape
<1>2. \A n : NextEvent \/ NextRound(n) => cursor' # 1 \/ repeats' # 0
  BY <1>1 DEF NextEvent, NextRound
<1>3. CASE SpawnWallets \/ SkipEvent \/ \E target \in Draws : WealthShock(target)
  <2>1. NextEvent
    BY <1>3 DEF SpawnWallets, SkipEvent, WealthShock
  <2> QED BY <1>2, <2>1
<1>4. CASE \E target \in Draws : ChargeBurst(target)
  <2>1. NextRound(script[cursor].n_targets)
    BY <1>4 DEF ChargeBurst
  <2> QED BY <1>2, <2>1
<1>5. CASE \E sender, draw \in Draws, fraction \in Fractions : TransferBurst(sender, draw, fraction)
  <2>1. NextRound(script[cursor].n_txs)
    BY <1>5 DEF TransferBurst
  <2> QED BY <1>2, <2>1
<1>6. CASE \/ EndOfScript
           \/ NextSender
           \/ \E draw \in Draws, fraction \in Fractions : ActivityTransfer(draw, fraction)
  BY <1>6 DEF EndOfScript, NextSender, ActivityTransfer
<1> QED BY <1>3, <1>4, <1>5, <1>6 DEF Rounds

LEMMA RowMetrics ==
    ASSUME NEW commit, NEW ws
    PROVE  /\ Row(commit, ws).gini = Gini(ws)
           /\ Row(commit, ws).median_balance = MedianBalance(ws)
  BY DEF Row

LEMMA NextDescribes == Shape /\ LastRowDescribes /\ [Next]_vars => LastRowDescribes'
<1> SUFFICES ASSUME Shape, LastRowDescribes, [Next]_vars PROVE LastRowDescribes'
  OBVIOUS
<1>1. CASE Rounds
  BY <1>1, RoundsLeave DEF LastRowDescribes
<1>2. CASE Iterate
  <2>1. PICK commit : /\ IterationStep(wallets, wallets', commit, parameters, state)
                      /\ metrics' = Append(metrics, Row(commit, wallets'))
    BY <1>2, IterateStep
  <2> DEFINE row == Row(commit, wallets')
  <2>2. row.gini = Gini(wallets') /\ row.median_balance = MedianBalance(wallets')
    BY RowMetrics
  <2>3. metrics'[Len(metrics')] = row
    <3>1. metrics' = Append(metrics, row) /\ IsRows(metrics)
      BY <2>1 DEF Shape
    <3> HIDE DEF row
    <3>2. Len(Append(metrics, row)) = Len(metrics) + 1 /\ Append(metrics, row)[Len(metrics) + 1] = row
      BY <3>1, RowsAppend
    <3> QED BY <3>1, <3>2
  <2>4. wallets' \in Seq(SimWallets)
    BY <2>1 DEF IterationStep, Named
  <2>5. Describes(Gini(wallets'), MedianBalance(wallets'), wallets')
    <3> DEFINE ws == wallets'
               m  == MedianBalance(ws)
               g  == Gini(ws)
    <3>1. g[1] * 2 * Len(ws) * Total(BalancesOf(ws)) = g[2] * Total(PairsOf(ws))
      BY <2>4, GiniDescribes
    <3>2. ws # << >> =>
             /\ 2 * Cardinality({i \in DOMAIN ws : ws[i].balance <= m}) >= Len(ws)
             /\ 2 * Cardinality({i \in DOMAIN ws : ws[i].balance >= m}) >= Len(ws)
      BY <2>4, MedianDescribes
    <3> HIDE DEF ws, m, g
    <3>3. Describes(g, m, ws)
      BY <3>1, <3>2, Zenon DEF Describes
    <3> QED BY <3>3 DEF g, m, ws
  <2> HIDE DEF row
  <2> QED BY <2>2, <2>3, <2>5 DEF LastRowDescribes
<1>3. CASE UNCHANGED vars
  BY <1>3 DEF vars, LastRowDescribes
<1> QED BY <1>1, <1>2, <1>3 DEF Next

\* The metrics computed from ranks are those of the definitions: whatever the population, the last
\* row's Gini coefficient is the mean difference over twice the mean, its median halves the wallets.
THEOREM SimulatorMetrics == Spec => []RowDescribesPopulation
<1>1. Init => LastRowDescribes
  BY DEF Init, LastRowDescribes
<1>2. Spec => []LastRowDescribes
  BY <1>1, NextDescribes, SimulatorShape, PTL DEF Spec
<1>3. Shape /\ LastRowDescribes => RowDescribesPopulation
  <2> SUFFICES ASSUME Shape, LastRowDescribes,
                      phase # "activity", cursor = 1, repeats = 0, metrics # << >>
               PROVE  RowDescribesPopulation
    BY Zenon DEF RowDescribesPopulation
  <2>1. Len(metrics) # 0
    BY DEF Shape, IsRows
  <2>2. Describes(metrics[Len(metrics)].gini, metrics[Len(metrics)].median_balance, wallets)
    BY <2>1, Zenon DEF LastRowDescribes
  <2> QED BY <2>2, Zenon DEF RowDescribesPopulation, Describes, PairsOf
<1> QED BY <1>2, <1>3, SimulatorShape, PTL

=============================================================================
