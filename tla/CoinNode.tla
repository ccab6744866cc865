------------------------------ MODULE CoinNode ------------------------------
(***************************************************************************)
(* A node that can fail: the handlers of CoinState write by write, over a  *)
(* sled store that may return an error or lose its latest writes.          *)
(*                                                                         *)
(* The variables of Ledger are read here as the live state: wallets, poh   *)
(* and iterations are sled trees as a reader of the running process sees   *)
(* them, and system is the SystemState in memory.  A handler holds the     *)
(* write lock for its whole plan, a sequence of storage writes, each with  *)
(* the memory it is issued under; no other handler runs until the plan is  *)
(* finished or abandoned.  A handler whose write fails returns the error   *)
(* (the `?` operator) and keeps what it has changed, in the store and in   *)
(* memory.                                                                 *)
(*                                                                         *)
(* External: sled.  Its log is written in order across trees, and a crash  *)
(* keeps a prefix of it that holds everything before the last flush, the   *)
(* handler's own or the background one.                                    *)
(***************************************************************************)
EXTENDS Ledger, Sequences, Functions

CONSTANTS
    SeedFiles,      \* lists of entries install_seed may be given
    BadKey,         \* the id of an entry whose public key cannot be decoded
    MaxCrashes,     \* bound on crashes
    MaxFailures     \* bound on storage errors

ASSUME BadKeyAssumption    == BadKey \notin Users
ASSUME SeedFilesAssumption ==
    \A file \in SeedFiles : file \in Seq([id : Users \cup {BadKey}, amount : Amounts])
ASSUME NodeBoundAssumption == MaxCrashes \in Nat /\ MaxFailures \in Nat

VARIABLES
    stored,         \* the key "state" of the system tree
    transactions,   \* the transactions tree: tx -> tick it was put at
    tx_by_wallet,   \* the secondary index: the set of <<wallet, tick, tx>>
    plan,           \* the writes the running handler has still to do; << >> when none runs
    durable,        \* the store as a crash would leave it
    crashes,
    failures,
    view            \* history: the ledger as of the last committed operation or restart

storeVars == <<wallets, poh, iterations, stored, transactions, tx_by_wallet>>
nodeVars == <<storeVars, system, plan, durable, crashes, failures, view, saturated>>

Store ==
    [wallets |-> wallets, poh |-> poh, iterations |-> iterations, stored |-> stored,
     transactions |-> transactions, tx_by_wallet |-> tx_by_wallet]

\* open() on an empty directory: the default state is stored and flushed.
NodeInit ==
    /\ Init
    /\ stored = GenesisState
    /\ transactions = EmptyTree
    /\ tx_by_wallet = {}
    /\ plan = << >>
    /\ durable = Store
    /\ crashes = 0
    /\ failures = 0
    /\ view = [wallets |-> wallets, system |-> system, poh |-> poh, iterations |-> iterations]

-----------------------------------------------------------------------------
(* Writes.                                                                 *)

\* The write of value at key in tree, issued when the in-memory state is mem.
Write(tree, key, value, mem) ==
    [tree |-> tree, key |-> key, value |-> value, mem |-> mem,
     commits |-> FALSE, overflows |-> FALSE]

\* The write that makes the operation take effect in the abstract ledger; overflows says whether
\* a sum of the operation has lost value.
Commit(write, overflows) == [write EXCEPT !.commits = TRUE, !.overflows = overflows]

PutWallet(id, wallet, mem) == Write("wallets", id, wallet, mem)

StoreState(mem) == Write("state", "state", mem, mem)

Flush(mem) == Write("flush", "flush", "flush", mem)

\* Mutant: a transfer is indexed under its sender only.
WalletIdsOfSender(tx) ==
    CASE tx.kind = "mint"                  -> {tx.to}
      [] tx.kind \in {"transfer", "burn"} -> {tx.from}
      [] OTHER                             -> DOMAIN tx.penalties \cup tx.new_wallets

\* Transaction::wallet_ids
WalletIds(tx) ==
    CASE tx.kind = "mint"     -> {tx.to}
      [] tx.kind = "transfer" -> {tx.from, tx.to}
      [] tx.kind = "burn"     -> {tx.from}
      [] OTHER                -> DOMAIN tx.penalties \cup tx.new_wallets

\* Mutant: the PoH entry is written before the transaction it names.
AppendEntryFirst(sys, tx) ==
    LET mem == Ticked(sys, tx)
    IN  <<Write("poh", mem.current_tick, NextEntry(sys, tx), mem),
          Write("transactions", tx, mem.current_tick, mem)>>

\* The members of a finite set one after the other.  The code goes through maps and trees in
\* the order of their keys, which are hashes.
InSomeOrder(S) == CHOOSE s \in [1..Cardinality(S) -> S] : IsInjective(s)

\* append_tx_locked: the transaction, its index entries, then the PoH entry, all
\* under the new tick and hash.  sys is the memory before the call.
AppendTx(sys, tx) ==
    LET mem == Ticked(sys, tx)
    IN  <<Write("transactions", tx, mem.current_tick, mem)>>
        \o [i \in 1..Cardinality(WalletIds(tx)) |->
              Write("tx_by_wallet", InSomeOrder(WalletIds(tx))[i], tx, mem)]
        \o <<Write("poh", mem.current_tick, NextEntry(sys, tx), mem)>>

-----------------------------------------------------------------------------
(* The plans of the handlers, computed under the lock.                     *)

\* The supply or the counter of wallets leaves the range when a wallet is created.
CreateOverflows(sys, amount) ==
    sys.total_supply + amount > MaxU64 \/ sys.n_wallets + 1 > MaxU64

MintPlan(id, amount, category) ==
    LET tx  == MintTx(id, amount, system.current_tick + 1, category)
        mem == AfterCreate(system, amount)
    IN  <<PutWallet(id, NewWallet(amount, system.current_iteration), system)>>
        \o AppendTx(mem, tx)
        \o <<Commit(StoreState(Ticked(mem, tx)), CreateOverflows(system, amount))>>

\* Mutant: the state that counts the entry is stored before the entry.
ChargeStateFirst(id, amount) ==
    LET tx  == MintTx(id, amount, system.current_tick + 1, "charge")
        mem == [system EXCEPT !.total_supply = SatAdd(@, amount)]
    IN  <<PutWallet(id, [wallets[id] EXCEPT !.balance = SatAdd(@, amount)], system),
          Commit(StoreState(Ticked(mem, tx)), system.total_supply + amount > MaxU64)>>
        \o AppendTx(mem, tx)

ChargePlan(id, amount) ==
    LET tx  == MintTx(id, amount, system.current_tick + 1, "charge")
        mem == [system EXCEPT !.total_supply = SatAdd(@, amount)]
    IN  <<PutWallet(id, [wallets[id] EXCEPT !.balance = SatAdd(@, amount)], system)>>
        \o AppendTx(mem, tx)
        \o <<Commit(StoreState(Ticked(mem, tx)), system.total_supply + amount > MaxU64)>>

Activated(sys, ids) == [sys EXCEPT !.n_active_wallets = SatAdd(@, NewlyActive(ids))]

\* Mutant: the recipient is written first.
CreditFirst(from, to, amount) ==
    LET it == system.current_iteration
    IN  <<PutWallet(to, Received(wallets[to], amount, from, it), system),
          PutWallet(from, Spent(wallets[from], amount, {to}, it), system)>>

\* The two wallets of a transfer, the sender first.
MoveCoins(from, to, amount) ==
    LET it == system.current_iteration
    IN  <<PutWallet(from, Spent(wallets[from], amount, {to}, it), system),
          PutWallet(to, Received(wallets[to], amount, from, it), system)>>

TransferPlan(from, to, amount, nonce) ==
    LET tx == TransferTx(from, to, amount, nonce)
    IN  MoveCoins(from, to, amount)
        \o AppendTx(system, tx)
        \o <<Commit(StoreState(Activated(Ticked(system, tx), {from, to})),
                    wallets[to].balance + amount > MaxU64)>>

BurnPlan(from, amount, nonce) ==
    LET tx  == BurnTx(from, amount, nonce)
        mem == [system EXCEPT !.total_supply = SatSub(@, amount)]
    IN  <<PutWallet(from, Spent(wallets[from], amount, {}, system.current_iteration), system)>>
        \o AppendTx(mem, tx)
        \o <<Commit(StoreState(Activated(Ticked(mem, tx), {from})), FALSE)>>

\* Mutant: the lock is set in memory only.
LockNotStored(locked) == << >>

TakeLock(locked) == <<StoreState(locked)>>

\* Mutant: the commit is filed after the state that counts it.
FinishStateFirst(mem, commit, overflows) ==
    <<Commit(StoreState(mem), overflows), Write("iterations", commit.iteration_id, commit, mem), Flush(mem)>>

FinishIteration(mem, commit, overflows) ==
    <<Write("iterations", commit.iteration_id, commit, mem), Commit(StoreState(mem), overflows),
      Flush(mem)>>

Locked(sys) == [sys EXCEPT !.iteration_lock = TRUE]

\* The lock is set and stored first, and released in memory just before the commit is
\* appended; it is released in the store only by the last store_state.
IterationWrites(p, first) ==
    LET result == ExecuteIteration(wallets, p, system, first)
        locked == Locked(system)
        mem    == Committed(locked, result)
        ids    == InSomeOrder(DOMAIN wallets) \o InSomeOrder(result.commit.new_wallets)
    IN  TakeLock(locked)
        \o [i \in 1..Len(ids) |-> PutWallet(ids[i], result.wallets[ids[i]], locked)]
        \o AppendTx(mem, result.commit)
        \o FinishIteration(Ticked(mem, result.commit), result.commit,
                           IterationOverflows(result))

\* Mutant: the burn rate is computed after the first wallet was written.
IterationPanicsLate(p, first) ==
    IF Panics(p) THEN SubSeq(IterationWrites(p, first), 1, 2) ELSE IterationWrites(p, first)

\* A handler that panics in execute_iteration has stored the lock and nothing else.
IterationPlan(p, first) ==
    IF Panics(p) THEN TakeLock(Locked(system)) ELSE IterationWrites(p, first)

\* One entry of install_seed, after what the loop has done so far: the memory, the ids that
\* exist, the writes, and whether an entry's key could not be decoded.
InstallEntry(done, e) ==
    LET tx  == MintTx(e.id, e.amount, done.mem.current_tick + 1, "seed_bootstrap")
        mem == AfterCreate(done.mem, e.amount)
        app == AppendTx(mem, tx)
    IN  IF done.failed THEN done
        ELSE IF e.id = BadKey THEN [done EXCEPT !.failed = TRUE]
        ELSE IF e.id \in done.ids THEN done
        ELSE [mem    |-> Ticked(mem, tx),
              ids    |-> done.ids \cup {e.id},
              writes |-> done.writes
                           \o <<PutWallet(e.id, NewWallet(e.amount, system.current_iteration),
                                          done.mem)>>
                           \o [app EXCEPT ![Len(app)] =
                                    Commit(@, CreateOverflows(done.mem, e.amount))],
              failed |-> FALSE]

\* The loop of install_seed.
SeedLoop(entries) ==
    LET after[n \in 0..Len(entries)] ==
        IF n = 0
        THEN [mem |-> system, ids |-> DOMAIN wallets, writes |-> << >>, failed |-> FALSE]
        ELSE InstallEntry(after[n - 1], entries[n])
    IN  after[Len(entries)]

\* An undecodable key returns from the middle of the loop, before store_state.
SeedPlan(entries) ==
    LET loop == SeedLoop(entries)
    IN  IF loop.failed THEN loop.writes
        ELSE loop.writes \o <<StoreState(loop.mem), Flush(loop.mem)>>

-----------------------------------------------------------------------------
(* A handler takes the lock, passes its checks and starts its plan.        *)

Start(writes) ==
    /\ plan' = writes
    /\ UNCHANGED <<storeVars, system, durable, crashes, failures, view, saturated>>

Idle == plan = << >>

BeginCreate(id, p) == Idle /\ Unlocked /\ ~Exists(id) /\ Start(MintPlan(id, p.seed, "wallet_seed"))

BeginCharge(id, amount) ==
    Idle /\ amount # 0 /\ Unlocked /\ Exists(id) /\ Start(ChargePlan(id, amount))

BeginTransfer(from, to, amount, nonce) ==
    /\ Idle
    /\ from # to
    /\ amount # 0
    /\ Unlocked
    /\ Exists(from)
    /\ Exists(to)
    /\ MaySpend(from, amount, nonce)
    /\ Start(TransferPlan(from, to, amount, nonce))

\* Mutant: the nonce of a burn is not checked.
BeginBurnAnyNonce(from, amount, nonce) ==
    /\ Idle
    /\ amount # 0
    /\ Unlocked
    /\ Exists(from)
    /\ wallets[from].balance >= amount
    /\ Start(BurnPlan(from, amount, nonce))

BeginBurn(from, amount, nonce) ==
    /\ Idle
    /\ amount # 0
    /\ Unlocked
    /\ Exists(from)
    /\ MaySpend(from, amount, nonce)
    /\ Start(BurnPlan(from, amount, nonce))

BeginIteration(p, first) == Idle /\ Unlocked /\ Start(IterationPlan(p, first))

\* The bound on ticks leaves room for every entry of the file.
BeginInstallSeed(entries) ==
    /\ Idle
    /\ Unlocked
    /\ system.current_tick + Len(entries) <= MaxTick
    /\ Start(SeedPlan(entries))

-----------------------------------------------------------------------------
(* The next write of the running handler: done, or failed.                 *)

DoWrite ==
    /\ ~Idle
    /\ LET w == Head(plan)
       IN  /\ system' = w.mem
           /\ wallets' = IF w.tree = "wallets" THEN Put(wallets, w.key, w.value) ELSE wallets
           /\ poh' = IF w.tree = "poh" THEN Put(poh, w.key, w.value) ELSE poh
           /\ iterations' = IF w.tree = "iterations" THEN Put(iterations, w.key, w.value)
                            ELSE iterations
           /\ stored' = IF w.tree = "state" THEN w.value ELSE stored
           /\ transactions' = IF w.tree = "transactions" THEN Put(transactions, w.key, w.value)
                              ELSE transactions
           /\ tx_by_wallet' = IF w.tree = "tx_by_wallet"
                              THEN tx_by_wallet \cup {<<w.key, w.mem.current_tick, w.value>>}
                              ELSE tx_by_wallet
           /\ durable' = IF w.tree = "flush" THEN Store ELSE durable
           /\ view' = IF w.commits
                      THEN [wallets |-> wallets', system |-> system', poh |-> poh',
                            iterations |-> iterations']
                      ELSE view
           /\ saturated' = (saturated \/ w.overflows)
    /\ plan' = Tail(plan)
    /\ UNCHANGED <<crashes, failures>>

\* The write returns an error, or the handler panics before it: the handler ends there.
FailWrite ==
    /\ ~Idle
    /\ failures < MaxFailures
    /\ failures' = failures + 1
    /\ system' = Head(plan).mem
    /\ plan' = << >>
    /\ UNCHANGED <<storeVars, durable, crashes, view, saturated>>

-----------------------------------------------------------------------------
(* The process dies and is started again.                                  *)

\* sled's background flush, every 500 ms.  What is durable is only of interest while a
\* crash is still to come.
BackgroundFlush ==
    /\ crashes < MaxCrashes
    /\ durable # Store
    /\ durable' = Store
    /\ UNCHANGED <<storeVars, system, plan, crashes, failures, view, saturated>>

\* A crash at any moment, then open(): the state is what the store kept.
CrashAndOpen ==
    /\ crashes < MaxCrashes
    /\ crashes' = crashes + 1
    /\ wallets' = durable.wallets
    /\ poh' = durable.poh
    /\ iterations' = durable.iterations
    /\ transactions' = durable.transactions
    /\ tx_by_wallet' = durable.tx_by_wallet
    /\ stored' = durable.stored
    /\ system' = durable.stored
    /\ plan' = << >>
    /\ view' = [wallets |-> wallets', system |-> system', poh |-> poh', iterations |-> iterations']
    /\ UNCHANGED <<durable, failures, saturated>>

-----------------------------------------------------------------------------
Begin ==
    \/ \E id \in Users, p \in ParameterSets : BeginCreate(id, p)
    \/ \E id \in DOMAIN wallets, amount \in Amounts : BeginCharge(id, amount)
    \/ \E from \in Users, to \in DOMAIN wallets, amount \in Amounts, nonce \in 0..MaxTick :
          BeginTransfer(from, to, amount, nonce)
    \/ \E from \in Users, amount \in Amounts, nonce \in 0..MaxTick : BeginBurn(from, amount, nonce)
    \/ \E p \in ParameterSets, first \in Firsts : BeginIteration(p, first)
    \/ \E entries \in SeedFiles : BeginInstallSeed(entries)

NodeNext == Begin \/ DoWrite \/ FailWrite \/ BackgroundFlush \/ CrashAndOpen

\* The runtime polls the running handler until it returns: its locked section has no await.
NodeSpec == NodeInit /\ [][NodeNext]_nodeVars /\ WF_nodeVars(DoWrite)

\* The load-seed command: a process that opens the store, installs one file and exits, with
\* or without an error; nothing is lost in the middle of a handler.
LoadSeedNext ==
    \/ \E entries \in SeedFiles : BeginInstallSeed(entries)
    \/ DoWrite
    \/ BackgroundFlush
    \/ Idle /\ CrashAndOpen

LoadSeedSpec == NodeInit /\ [][LoadSeedNext]_nodeVars

-----------------------------------------------------------------------------
(* Without crashes and errors the node implements Ledger.                  *)

Ledger == INSTANCE Ledger WITH wallets    <- view.wallets,
                               system     <- view.system,
                               poh        <- view.poh,
                               iterations <- view.iterations,
                               saturated  <- saturated

\* The handlers of a node that never fails implement the atomic ledger: an operation takes
\* effect with its last write, and an entry of a seed file with its PoH entry.
ImplementsLedger == Ledger!Spec

\* Between handlers the trees and the memory are what the committed operations say.
IdleNodeIsCommitted ==
    Idle => view = [wallets |-> wallets, system |-> system, poh |-> poh, iterations |-> iterations]

\* The iteration lock on disk, which a restart takes over, is released again by the iteration
\* that stored it, as long as neither a crash nor an error ends that iteration.
StoredLockReleased == stored.iteration_lock ~> ~stored.iteration_lock

-----------------------------------------------------------------------------
(* What survives a crash.                                                  *)

\* A node that is found locked without a crash or a storage error, because execute_iteration
\* panicked, is locked between two operations: the wallets, the chain and the iterations are
\* those of the last committed one, so releasing the lock would be a sound repair.
PanicTearsNothing ==
    Idle /\ system.iteration_lock /\ crashes = 0 /\ failures = 0 =>
        view = [wallets |-> wallets, system |-> [system EXCEPT !.iteration_lock = FALSE],
                poh |-> poh, iterations |-> iterations]

\* The chain up to the tick of the stored state is complete and verifies, and the stored
\* hash is its head: the PoH entry is always written before the state that counts it, so
\* entries a crash orphaned are overwritten, never linked to.
StoredChainValid ==
    /\ 1..stored.current_tick \subseteq DOMAIN poh
    /\ \A t \in 1..stored.current_tick : poh[t].tick = t /\ VerifyChain(HashBefore(t), poh[t])
    /\ stored.last_poh_hash = HashBefore(stored.current_tick + 1)

\* A crash alone never breaks it.
CrashKeepsChain == failures = 0 => StoredChainValid

\* A reference is never written before what it refers to: PoH entries and index entries
\* name transactions that are in the transactions tree, orphans included.
ReferencesResolve ==
    /\ \A t \in DOMAIN poh : poh[t].tx \in DOMAIN transactions
    /\ \A e \in tx_by_wallet : e[3] \in DOMAIN transactions

\* While no write fails, every iteration the stored state counts has its commit in the iterations tree, so
\* /iterations and the supply history have no gap.
StoredIterationsComplete == failures = 0 => 1..stored.current_iteration \subseteq DOMAIN iterations

\* The store never shows wallets of an iteration that the stored state does not count,
\* unless the stored lock fences it off: half an iteration is never taken for a whole one.
TornIterationFenced ==
    (\E w \in DOMAIN wallets : wallets[w].last_active_iteration > stored.current_iteration)
        => stored.iteration_lock

TransferAhead == \E i \in 1..Len(plan) :
                    plan[i].tree = "transactions" /\ plan[i].key.kind = "transfer"

\* A transfer that a crash cuts in half can lose coins but never creates them: the debit is
\* written before the credit.
TornTransferMintsNothing ==
    failures = 0 /\ TransferAhead => Total(Balances(wallets)) <= Total(Balances(view.wallets))

\* An iteration restores the books: the counters it commits are those of the wallets in
\* the store, whatever crashes and errors did to the counters before.
IterationRestoresBooks ==
    [][system'.current_iteration > system.current_iteration =>
          /\ system'.total_supply = Total(Balances(wallets'))
          /\ system'.n_wallets = Cardinality(DOMAIN wallets')]_nodeVars

-----------------------------------------------------------------------------
(* What the repository says and a crash or an error refutes.               *)

\* docs/concept.md I.1: "Bei Fehler: vollständiger Rollback", so no lock outlives its
\* iteration.
NoLockWithoutIteration == Idle => ~system.iteration_lock

\* install_seed: "Skips wallets whose ids already exist so the call is idempotent across
\* restarts": once every wallet is installed, in however many attempts, all are counted.
SeedIsIdempotent ==
    Idle /\ stored = system /\ Users \subseteq DOMAIN wallets
        => system.n_wallets = Cardinality(DOMAIN wallets)

=============================================================================
