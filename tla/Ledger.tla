------------------------------- MODULE Ledger -------------------------------
(***************************************************************************)
(* What CoinState (aggora-state) promises while nothing fails: each        *)
(* accepted request is one atomic transition of the wallets, the system    *)
(* state, the transaction log and the PoH chain.                           *)
(*                                                                         *)
(* A handler validates and mutates under the write lock of `system`, so    *)
(* its locked section is one step here.  What it reads before the lock is  *)
(* an input: the request, and the parameters p, which an administrator may *)
(* replace between the read and the lock.  A request that is refused       *)
(* changes nothing of this state and is a stuttering step.  Signatures and *)
(* public keys are checked before the lock: a request that reaches the     *)
(* locked section is signed by its sender.  CoinNode splits these steps    *)
(* into storage writes, with errors and crashes between them.              *)
(***************************************************************************)
EXTENDS Economy

CONSTANTS
    Users,            \* wallet ids derived from public keys that users submit
    Amounts,          \* amounts a request may carry
    ParameterSets,    \* the SystemParameters an administrator may install
    MaxTick           \* bound on the length of the PoH chain

\* A user's key is not one of the keys execute_iteration derives for faucet wallets.
ASSUME UsersAssumption   == \A u \in Users : u \notin FaucetIds
ASSUME ParametersAssumption == ParameterSets \subseteq Parameters
ASSUME AmountsAssumption == Amounts \subseteq 0..MaxU64
ASSUME MaxTickAssumption == MaxTick \in Nat

VARIABLES
    wallets,     \* the wallets tree: id -> Wallet
    system,      \* the in-memory SystemState
    poh,         \* the poh_log tree: tick -> PohEntry, with the transaction it anchors
    iterations,  \* the iterations tree: iteration id -> IterationCommit
    saturated    \* history: some saturating or wrapping sum has lost value

vars == <<wallets, system, poh, iterations, saturated>>

WalletId == Users \cup FaucetIds

ZERO_HASH == <<>>

GenesisState ==
    [current_tick                    |-> 0,
     current_iteration               |-> 0,
     iteration_started_at            |-> 0,
     total_supply                    |-> 0,
     n_wallets                       |-> 0,
     n_active_wallets                |-> 0,
     last_poh_hash                   |-> ZERO_HASH,
     previous_iteration_supply       |-> 0,
     previous_iteration_start_supply |-> 0,
     last_inflation                  |-> 0,
     iteration_lock                  |-> FALSE]

EmptyTree == [k \in {} |-> 0]

Init ==
    /\ wallets = EmptyTree
    /\ system = GenesisState
    /\ poh = EmptyTree
    /\ iterations = EmptyTree
    /\ saturated = FALSE

-----------------------------------------------------------------------------
(* Trees of the store: insert or overwrite one key.                        *)

Put(tree, key, value) ==
    [k \in DOMAIN tree \cup {key} |-> IF k = key THEN value ELSE tree[k]]

-----------------------------------------------------------------------------
(* The PoH chain.  A hash is the value it is computed from, so two hashes  *)
(* are equal exactly when their preimages are; a transaction stands for    *)
(* its tx_id and for the Merkle root of the single id of its entry.        *)

PohHash(prev_hash, tick, tx) == <<prev_hash, tick, tx>>

BuildEntry(tick, prev_hash, tx) ==
    [tick |-> tick, prev_hash |-> prev_hash, tx |-> tx, hash |-> PohHash(prev_hash, tick, tx)]

VerifyChain(prev_hash, entry) ==
    /\ entry.prev_hash = prev_hash
    /\ entry.hash = PohHash(entry.prev_hash, entry.tick, entry.tx)

NextEntry(sys, tx) == BuildEntry(sys.current_tick + 1, sys.last_poh_hash, tx)

\* Mutant: the hash of the new entry is not carried over to the state.
TickedKeepsHash(sys, tx) == [sys EXCEPT !.current_tick = @ + 1]

\* append_tx_locked, the part that changes the system state.
Ticked(sys, tx) ==
    [sys EXCEPT !.current_tick = @ + 1, !.last_poh_hash = NextEntry(sys, tx).hash]

\* append_tx_locked, the part that writes: the entry of the new tick.
Anchor(sys, tx) == poh' = Put(poh, sys.current_tick + 1, NextEntry(sys, tx))

-----------------------------------------------------------------------------
(* The transactions.  A mint carries the tick as its nonce.                *)

MintTx(to, amount, tick, category) ==
    [kind |-> "mint", to |-> to, amount |-> amount, nonce |-> tick, category |-> category]

TransferTx(from, to, amount, nonce) ==
    [kind |-> "transfer", from |-> from, to |-> to, amount |-> amount, nonce |-> nonce]

BurnTx(from, amount, nonce) ==
    [kind |-> "burn", from |-> from, amount |-> amount, nonce |-> nonce]

-----------------------------------------------------------------------------
(* Every handler starts with these checks under the lock.  MaxTick bounds  *)
(* the model; the code has no such bound.                                  *)

Unlocked ==
    /\ ~system.iteration_lock
    /\ system.current_tick < MaxTick

Exists(id) == id \in DOMAIN wallets

\* Mutant: the opening balance does not enter the supply.
CreateOutsideSupply(sys, amount) ==
    [sys EXCEPT !.n_wallets        = SatAdd(@, 1),
                !.n_active_wallets = SatAdd(@, 1)]

\* Creating a wallet mints its opening balance.
AfterCreate(sys, amount) ==
    [sys EXCEPT !.total_supply     = SatAdd(@, amount),
                !.n_wallets        = SatAdd(@, 1),
                !.n_active_wallets = SatAdd(@, 1)]

Mint(id, amount, category) ==
    LET tx == MintTx(id, amount, system.current_tick + 1, category)
    IN  /\ wallets' = Put(wallets, id, NewWallet(amount, system.current_iteration))
        /\ system' = Ticked(AfterCreate(system, amount), tx)
        /\ Anchor(system, tx)
        /\ saturated' = (saturated \/ system.total_supply + amount > MaxU64
                                   \/ system.n_wallets + 1 > MaxU64)
        /\ UNCHANGED iterations

\* Mutant: a create for an existing id overwrites the wallet.
CreateUnchecked(id, p) ==
    /\ Unlocked
    /\ Mint(id, p.seed, "wallet_seed")

CreateWallet(id, p) ==
    /\ Unlocked
    /\ ~Exists(id)
    /\ Mint(id, p.seed, "wallet_seed")

\* One entry of install_seed; the loop over the entries keeps the lock.  amount is the
\* entry's initial_balance, or the seed when the entry has none.
InstallSeedEntry(id, amount) ==
    /\ Unlocked
    /\ ~Exists(id)
    /\ Mint(id, amount, "seed_bootstrap")

\* The handler's replay guard runs before the lock; a request it refuses is a stuttering step.
Charge(id, amount) ==
    LET tx == MintTx(id, amount, system.current_tick + 1, "charge")
    IN  /\ amount # 0
        /\ Unlocked
        /\ Exists(id)
        /\ wallets' = [wallets EXCEPT ![id].balance = SatAdd(@, amount)]
        /\ system' = Ticked([system EXCEPT !.total_supply = SatAdd(@, amount)], tx)
        /\ Anchor(system, tx)
        /\ saturated' = (saturated \/ system.total_supply + amount > MaxU64)
        /\ UNCHANGED iterations

\* Mutant: a wallet that is active already is counted again.
CountsEverySpend(ids) == Cardinality(ids)

\* The wallets of ids that were not yet active in the current iteration.
NewlyActive(ids) ==
    Cardinality({w \in ids : wallets[w].last_active_iteration # system.current_iteration})

\* Mutant: the nonce of the sender does not move on.
SpentKeepsNonce(wallet, amount, counterparties, iteration) ==
    [wallet EXCEPT !.balance = @ - amount,
                   !.iteration_tx_count = @ + 1,
                   !.iteration_counterparties = @ \cup counterparties,
                   !.last_active_iteration = iteration]

\* The sender's side of a transfer or a burn.
Spent(wallet, amount, counterparties, iteration) ==
    [wallet EXCEPT !.balance = @ - amount,
                   !.nonce = @ + 1,
                   !.iteration_tx_count = @ + 1,
                   !.iteration_counterparties = @ \cup counterparties,
                   !.last_active_iteration = iteration]

\* Mutant: the amount replaces the recipient's balance.
ReceivedReplaces(wallet, amount, counterparty, iteration) ==
    [wallet EXCEPT !.balance = amount,
                   !.iteration_tx_count = @ + 1,
                   !.iteration_counterparties = @ \cup {counterparty},
                   !.last_active_iteration = iteration]

\* The recipient's side of a transfer.
Received(wallet, amount, counterparty, iteration) ==
    [wallet EXCEPT !.balance = SatAdd(@, amount),
                   !.iteration_tx_count = @ + 1,
                   !.iteration_counterparties = @ \cup {counterparty},
                   !.last_active_iteration = iteration]

\* Mutant: a nonce ahead of the wallet's is accepted.
MaySpendAhead(from, amount, nonce) ==
    /\ wallets[from].nonce <= nonce
    /\ wallets[from].balance >= amount

\* The sender's nonce and balance allow the spend.
MaySpend(from, amount, nonce) ==
    /\ wallets[from].nonce = nonce
    /\ wallets[from].balance >= amount

Transfer(from, to, amount, nonce) ==
    LET tx == TransferTx(from, to, amount, nonce)
        it == system.current_iteration
    IN  /\ from # to
        /\ amount # 0
        /\ Unlocked
        /\ Exists(from)
        /\ Exists(to)
        /\ MaySpend(from, amount, nonce)
        /\ wallets' = [wallets EXCEPT ![from] = Spent(@, amount, {to}, it),
                                      ![to]   = Received(@, amount, from, it)]
        /\ system' = [Ticked(system, tx) EXCEPT
                        !.n_active_wallets = SatAdd(@, NewlyActive({from, to}))]
        /\ Anchor(system, tx)
        /\ saturated' = (saturated \/ wallets[to].balance + amount > MaxU64)
        /\ UNCHANGED iterations

Burn(from, amount, nonce) ==
    LET tx == BurnTx(from, amount, nonce)
    IN  /\ amount # 0
        /\ Unlocked
        /\ Exists(from)
        /\ MaySpend(from, amount, nonce)
        /\ wallets' = [wallets EXCEPT ![from] = Spent(@, amount, {}, system.current_iteration)]
        /\ system' = [Ticked([system EXCEPT !.total_supply = SatSub(@, amount)], tx) EXCEPT
                        !.n_active_wallets = SatAdd(@, NewlyActive({from}))]
        /\ Anchor(system, tx)
        /\ UNCHANGED <<iterations, saturated>>

\* Mutant: the books are carried forward instead of taken from the result.
CommittedIncrementally(sys, result) ==
    [sys EXCEPT !.total_supply = SatSub(SatAdd(@, result.commit.faucet_from_mint),
                                        result.commit.burned),
                !.n_wallets = SatAdd(@, Cardinality(result.commit.new_wallets)),
                !.n_active_wallets = Cardinality(result.commit.new_wallets),
                !.current_iteration = result.commit.iteration_id,
                !.iteration_started_at = sys.current_tick,
                !.previous_iteration_start_supply = result.commit.snapshot_supply,
                !.previous_iteration_supply = result.commit.post_supply,
                !.last_inflation = result.commit.inflation,
                !.iteration_lock = FALSE]

\* Mutant: the inflation signal is measured from the end of the cycle to its end, and the
\* lock is not released.
CommittedHalfway(sys, result) ==
    [sys EXCEPT !.total_supply = result.commit.post_supply,
                !.n_wallets = result.n_wallets,
                !.n_active_wallets = Cardinality(result.commit.new_wallets),
                !.current_iteration = result.commit.iteration_id,
                !.iteration_started_at = sys.current_tick,
                !.previous_iteration_start_supply = result.commit.post_supply,
                !.previous_iteration_supply = result.commit.post_supply,
                !.last_inflation = result.commit.inflation]

\* The system state after an iteration, before the commit is appended to the log.
Committed(sys, result) ==
    [sys EXCEPT !.total_supply = result.commit.post_supply,
                !.n_wallets = result.n_wallets,
                !.n_active_wallets = Cardinality(result.commit.new_wallets),
                !.current_iteration = result.commit.iteration_id,
                !.iteration_started_at = sys.current_tick,
                !.previous_iteration_start_supply = result.commit.snapshot_supply,
                !.previous_iteration_supply = result.commit.post_supply,
                !.last_inflation = result.commit.inflation,
                !.iteration_lock = FALSE]

\* Some sum of the iteration does not fit in a u64.
IterationOverflows(result) ==
    \/ Total(Balances(wallets)) > MaxU64
    \/ Total(Balances(result.wallets)) > MaxU64
    \/ result.n_wallets > MaxU64

ExecuteIterationNow(p, first) ==
    LET result == ExecuteIteration(wallets, p, system, first)
    IN  /\ Unlocked
        /\ ~Panics(p)
        /\ wallets' = result.wallets
        /\ system' = Ticked(Committed(system, result), result.commit)
        /\ Anchor(system, result.commit)
        /\ iterations' = Put(iterations, result.commit.iteration_id, result.commit)
        /\ saturated' = (saturated \/ IterationOverflows(result))

-----------------------------------------------------------------------------
\* The wallet that takes the residual under ResidualPolicy::GenesisWallet; any
\* value when there is no wallet.
Firsts == IF DOMAIN wallets = {} THEN {ZERO_HASH} ELSE DOMAIN wallets

Create  == \E id \in Users, p \in ParameterSets : CreateWallet(id, p)
Seed    == \E id \in Users, amount \in Amounts : InstallSeedEntry(id, amount)
Mints   == \E id \in DOMAIN wallets, amount \in Amounts : Charge(id, amount)
Spends  == \E from \in Users, amount \in Amounts, nonce \in 0..MaxTick :
              \/ \E to \in DOMAIN wallets : Transfer(from, to, amount, nonce)
              \/ Burn(from, amount, nonce)
Iterate == \E p \in ParameterSets, first \in Firsts : ExecuteIterationNow(p, first)

Next == Create \/ Seed \/ Mints \/ Spends \/ Iterate

Spec == Init /\ [][Next]_vars

-----------------------------------------------------------------------------
(* Type invariant.                                                         *)

SystemRecord(hashes) ==
    [current_tick                    : Nat,
     current_iteration               : Nat,
     iteration_started_at            : Nat,
     total_supply                    : 0..MaxU64,
     n_wallets                       : Nat,
     n_active_wallets                : Nat,
     last_poh_hash                   : hashes,
     previous_iteration_supply       : 0..MaxU64,
     previous_iteration_start_supply : 0..MaxU64,
     last_inflation                  : Int,
     iteration_lock                  : BOOLEAN]

\* The shape of the state: amounts fit in a u64, and the iteration lock, which a
\* handler takes and releases within its step, is never left set.
TypeOK ==
    /\ DOMAIN wallets \subseteq WalletId
    /\ IsFiniteSet(DOMAIN wallets)
    /\ wallets \in [DOMAIN wallets -> WalletRecord(WalletId)]
    /\ system \in SystemRecord({ZERO_HASH} \cup {poh[t].hash : t \in DOMAIN poh})
    /\ ~system.iteration_lock
    /\ saturated \in BOOLEAN

-----------------------------------------------------------------------------
(* Safety.                                                                 *)

\* total_supply is maintained incrementally by five handlers and replaced by the
\* iteration; it is the sum of all wallet balances as long as no sum left the range of
\* a u64 ("Sum of all wallet balances. Maintained incrementally").
SupplyMatchesBalances ==
    ~saturated => system.total_supply = Total(Balances(wallets))

ActiveWallets == {w \in DOMAIN wallets : wallets[w].last_active_iteration = system.current_iteration}

\* The cached counters that /stats serves: the number of wallet records, and the
\* number of wallets active in the current iteration (created, transferred, burned).
CountersMatchWallets ==
    ~saturated => /\ system.n_wallets = Cardinality(DOMAIN wallets)
                  /\ system.n_active_wallets = Cardinality(ActiveWallets)

HashBefore(t) == IF t = 1 THEN ZERO_HASH ELSE poh[t - 1].hash

\* Every tick up to the current one has exactly one entry, each entry verifies against
\* its predecessor (verify_chain), and the state's hash is the chain's head.
PohChainValid ==
    /\ DOMAIN poh = 1..system.current_tick
    /\ \A t \in 1..system.current_tick : /\ poh[t].tick = t
                                         /\ VerifyChain(HashBefore(t), poh[t])
    /\ system.last_poh_hash = HashBefore(system.current_tick + 1)

\* No transaction is applied twice: the transactions tree is keyed by tx_id, so a
\* second application would overwrite the first one's record.
AppliedOnce ==
    \A s, t \in DOMAIN poh : poh[s].tx = poh[t].tx => s = t

SpendsOf(w) == {t \in DOMAIN poh : poh[t].tx.kind \in {"transfer", "burn"} /\ poh[t].tx.from = w}

\* The spends of a wallet carry the nonces 0, 1, 2, ... in the order of their ticks, and
\* the wallet's nonce is the next one: a signed spend can be applied only at its turn.
SpendsFollowNonces ==
    \A w \in DOMAIN wallets :
        /\ wallets[w].nonce = Cardinality(SpendsOf(w))
        /\ \A t \in SpendsOf(w) : poh[t].tx.nonce = Cardinality({s \in SpendsOf(w) : s < t})

\* What the transaction tx did to the balance of w.  The opening balance of a faucet wallet
\* is not recorded in the commit: it is the faucet's total over the number of new wallets.
EffectOn(tx, w) ==
    CASE tx.kind = "mint"     -> IF tx.to = w THEN tx.amount ELSE 0
      [] tx.kind = "transfer" -> (IF tx.to = w THEN tx.amount ELSE 0)
                                    - (IF tx.from = w THEN tx.amount ELSE 0)
      [] tx.kind = "burn"     -> IF tx.from = w THEN -tx.amount ELSE 0
      [] OTHER -> IF w \in tx.new_wallets
                  THEN (tx.faucet_from_penalty + tx.faucet_from_mint)
                          \div Cardinality(tx.new_wallets)
                  ELSE IF w \in DOMAIN tx.rewards THEN tx.rewards[w] - tx.penalties[w] ELSE 0

ReplayedBalance(w) ==
    LET upto[t \in 0..system.current_tick] ==
            IF t = 0 THEN 0 ELSE upto[t - 1] + EffectOn(poh[t].tx, w)
    IN  upto[system.current_tick]

\* Audit: the anchored transactions alone explain every balance.  Replaying the log, with
\* the penalties, rewards and faucet amounts the commits record, yields the wallets.
LogExplainsBalances ==
    ~saturated => \A w \in DOMAIN wallets : wallets[w].balance = ReplayedBalance(w)

\* What the transaction tx did to the supply (D.11): mints and the faucet's minted part
\* create coins, burns and the iteration's burned amount destroy them.
EffectOnSupply(tx) ==
    CASE tx.kind = "mint"     -> tx.amount
      [] tx.kind = "transfer" -> 0
      [] tx.kind = "burn"     -> -tx.amount
      [] OTHER                -> tx.faucet_from_mint - tx.burned

\* Supply balance of D.11 over the whole history: coins exist only because a mint or a faucet
\* recorded in the log created them, and vanish only by a recorded burn.
SupplyFollowsLog ==
    LET upto[t \in 0..system.current_tick] ==
            IF t = 0 THEN 0 ELSE upto[t - 1] + EffectOnSupply(poh[t].tx)
    IN  ~saturated => system.total_supply = upto[system.current_tick]

\* Iterations are numbered without gaps, every commit is anchored in the chain, and the
\* inflation signal's two supplies are those of the latest commit.
IterationsAnchored ==
    /\ DOMAIN iterations = 1..system.current_iteration
    /\ \A i \in DOMAIN iterations : \E t \in DOMAIN poh : poh[t].tx = iterations[i]
    /\ system.current_iteration > 0 =>
          LET last == iterations[system.current_iteration]
          IN  /\ system.previous_iteration_supply = last.post_supply
              /\ system.previous_iteration_start_supply = last.snapshot_supply

-----------------------------------------------------------------------------
(* Action properties.                                                      *)

\* A step that lowers the balance of a wallet is that wallet's own spend or an iteration;
\* nobody else's request takes coins from it.
OnlyOwnerOrIterationDebits ==
    [][\A w \in DOMAIN wallets :
          wallets'[w].balance < wallets[w].balance =>
             LET tx == poh'[system'.current_tick].tx
             IN  \/ tx.kind = "iteration_commit"
                 \/ tx.kind \in {"transfer", "burn"} /\ tx.from = w]_vars

\* Wallets are never removed, nonces never decrease, and what the chain and the iterations
\* tree hold is never rewritten.
HistoryIsAppendOnly ==
    [][/\ \A w \in DOMAIN wallets : w \in DOMAIN wallets' /\ wallets'[w].nonce >= wallets[w].nonce
       /\ \A t \in DOMAIN poh : t \in DOMAIN poh' /\ poh'[t] = poh[t]
       /\ \A i \in DOMAIN iterations : i \in DOMAIN iterations' /\ iterations'[i] = iterations[i]]_vars

=============================================================================
