# TLA+ specifications of Aggora Coin

Aggora Coin is a single-node permissioned ledger in Rust (`src/crates/`). A node
keeps wallets, a Proof-of-History (PoH) log of transactions and an economic
state in a sled database; requests arrive over REST; from time to time an
*iteration* takes a penalty from every wallet and redistributes, burns or hands
it to new wallets. These modules model the node's core, check it with TLC on
small instances, and prove with TLAPS, for every size, what makes the ledger,
the node, the guard, the limiter, the administration and the simulator correct.

## 1. The system

| Component | State | Operations | Hard behaviour |
|---|---|---|---|
| Economic iteration, `aggora-economy/src/lib.rs` | none: a function of wallets, parameters and system state | `execute_iteration` | floors, caps and saturating sums; residuals; calibration |
| Proof of History, `aggora-poh` | none | `poh_hash`, `build_entry`, `verify_chain` | the chain is rebuilt by every handler |
| State machine, `aggora-state` (`CoinState`) | `RwLock<SystemState>`, sled trees | `open`, `create_wallet`, `charge`, `transfer`, `burn`, `execute_iteration_now`, `install_seed` | cached counters; several writes per operation; errors in the middle; crashes |
| Storage, `aggora-storage` | trees `wallets`, `transactions`, `tx_by_wallet`, `poh_log`, `iterations`, `system`; snapshot files | put, get, scan, flush | no transaction spans two writes; sled flushes every 500 ms |
| Replay guard and operator authentication | `seen_operator_sigs` | `verify_operator_request`, `guard_operator_replay` | two clock readings, two parameter readings, copies, restarts |
| Rate limits | one deque of times per key | `check_wallet_rate_limit`, `check_transfer_rate_limit` | clock read outside the lock, limits that change |
| Parameters, simulation, snapshots | `RwLock<SystemParameters>`, `SimulationStatus`, `iter_N.json` | `update_parameters`, `run_simulation_iterations`, `set_simulation_running`, `create_manual_snapshot` | not under the system lock: overlap with handlers and each other |
| REST interface, `aggora-rest` | none | the order of checks of the handlers that write; the read endpoints | readers between two writes of a handler, and the envelope's tick read after the data |
| Command line, `aggora-cli` | none | `load-seed`, `sim`, `simulate`, `node`, ... | `load-seed` aborted half way and run again |
| Cryptography, `aggora-crypto` | none | hashes, signatures, Merkle root | |
| Offline simulator, `aggora-economy/src/simulator.rs` | its own `Vec` of wallets, a counter of names, the rows | `run_simulation`, `apply_scripted_events` | events that depend on each other's order; names; loops over random draws |

How they meet. A REST handler runs the checks that need no lock (parsing, rate
limit, signature, replay guard), then calls one method of `CoinState`, which
takes `system.write()` and holds it to the end. Under the lock there is no
`await`, so handlers are serialised; readers of the *store* (`GET /wallet/:id`,
the listings and histories) do not take the lock and see the writes one by one,
and only the tick and iteration of their answer are read under it, last. An
iteration is a handler like the others; nothing in the code triggers it but
`/admin/simulation/start` and the `sim` command. `install_seed` runs in a
process of its own that exits when it is done.

What makes each part correct:

* ledger: cached supply and counters equal a scan of the wallets; the log is a
  gapless chain that explains every balance and the supply; spends are applied
  once, in nonce order; only the owner or an iteration takes coins;
* node: handlers are atomic for everyone who takes the lock; what a crash or an
  error leaves behind is still a chain that verifies, with no coins created
  and no half iteration taken for a whole one;
* economy: the pool is partitioned, nothing is lost in rounding unrecorded;
* guard and limits: at most one copy, at most `limit` calls, and no refusal
  without a cause, whatever the order of clock readings and locks;
* administration: store and memory agree, counters agree with the state, a
  snapshot contains what its tick counts;
* reads: an answer is of a tick between the request and the tick it carries,
  lists what was accepted before the request, and is sent at last;
* simulator: the rows are explained by the script, the faucet and the burn;
  names are unique; the simulation ends.

## 2. The modules

```
Totals ── Economy ─┬─ Ledger ── CoinNode ── Reads       ReplayGuard   RateLimiter   Admin
   │         │     │     │  └ MCLedger └ MCCoinNode └ MCReads  (an MC module for each)
   │         │     └─ Simulator ── MCSimulator
EconomyProofs ─┬─ LedgerProofs ── CoinNodeProofs ── ReadsProofs
               └─ SimulatorProofs       ReplayGuardProofs   RateLimiterProofs   AdminProofs
```

**Totals** defines the sum of a column of amounts without recursion (the number
of unit coins), so that it can be reasoned about in proofs; `MCLedger` has TLC
compare it with `SumFunction` of the community modules.

**Economy** is `execute_iteration`: `Penalties` (with the calibration to the
target share), `RedistributionPool`, `Shares`, `Residual`, `Rewards`, `Pay`,
`AddFresh`, and `ExecuteIteration`, which composes them in the code's order and
returns the wallets and the commit. Amounts are `u64`: `SatAdd` and `SatSub`
saturate, `SumU64` wraps at `MaxU64 + 1`. A fraction is a multiple of
`1/Scale`, floors are taken where the code takes them, and the logarithmic
score is computed to half a bit with at most `LogSteps` steps. `Panics(p)` says
that the bounds of the burn rate are out of order: `f64::clamp` panics on them,
and `PUT /admin/parameters` accepts them.

**Ledger** is the state machine with one atomic action per handler:
`CreateWallet`, `InstallSeedEntry`, `Charge`, `Transfer`, `Burn`,
`ExecuteIterationNow`. Its variables are the wallets tree, the in-memory
`SystemState`, the PoH log and the iterations tree; `saturated` is a history
variable that says whether any sum has left the range of a `u64`. Hashes are
their preimages (injective by construction): an entry's hash is the pair of
the previous hash and the transaction, a `tx_id` is the transaction itself.
A transaction that the handler refuses changes nothing, so refusals are
stuttering steps and only their guards appear.

**CoinNode** refines it to the writes. A handler computes, under the lock, a
*plan*: the sequence of storage writes it will issue, each with the in-memory
`SystemState` at that point (`MintPlan`, `ChargePlan`, `TransferPlan`,
`BurnPlan`, `IterationPlan`, `SeedPlan`, in the order of the code). `DoWrite`
performs the next one; the write marked by `Commit` is the one at which the
operation takes effect, and carries whether one of its sums has left the range
of a `u64`, which becomes Ledger's `saturated`. `FailWrite` is a storage error at that point: the handler
returns and keeps what it has changed. An iteration that panics gets no further
than its first write, the lock (`IterationPlan`). `BackgroundFlush` makes the log so far
durable, `CrashAndOpen` goes back to what is durable and takes the stored
state, lock included, as `open` does. sled itself is external: its log is
ordered across trees and a crash keeps a prefix of it. `LoadSeedSpec` is the
`load-seed` command. `Ledger` is the abstract specification, with the history
variable `view` (the ledger as of the last committed operation) as refinement
mapping.

**Reads** puts a reader beside the handlers of CoinNode. A request takes its
data from the trees in one step, at any moment (`GetWallet`,
`WalletTransactions`, `GetTransaction`, `GetIteration`, `IterationHistory`), or
from memory when the lock is free (`Stats`); `/iteration/current` does the one
and then the other. `Respond` sends the answer once the read lock is free, for
the tick and iteration of the envelope. `since` is a history variable: the tick
of the last complete operation when the request came in. Transaction ids are
hashes, so the limited listing of a wallet is any `HistoryLimit` members of it.
The seed entries of `install_seed` may also run next to a reader here; in the
code they run in a process without one.

**Simulator** is `run_simulation`: the scripted events that are due, one round
of a loop per step (`SpawnWallets`, `TransferBurst`, `ChargeBurst`,
`WealthShock`, `SkipEvent`), the transfers sender by sender
(`ActivityTransfer`, `NextSender`), then `Iterate`: `ExecuteIteration`, the new
names of the faucet's wallets, the state for the next inflation and the row of
metrics. What the generator draws is a choice; the samples' distributions and
the CSV format are left out. `iteration_tx_count` is counted without the width
of its `u32`.

**ReplayGuard** takes each delivery of a charge through its steps: read the
parameters, verify against the clock, read the parameters again, read the
clock again, take the lock and prune, compare and insert; then the mint or a
refusal. Signature and operator lookup are one Boolean of the request.
**RateLimiter** does the same for the two sliding windows. **Admin** has the
operations outside the system lock next to handlers reduced to what a snapshot
can tell apart: ticks, iterations, and which transaction wrote a wallet last.

`map` in `PROJECT.json` gives the lines of every definition. Operators whose
comment begins with "Mutant:" are plausible wrong versions of the definition
that follows (a dropped guard, a swapped order). No specification uses them;
each property is checked to fail when its mutant replaces the definition.

## 3. What is checked

| Run | Result | Shows |
|---|---|---|
| `ledger` | holds | `SupplyMatchesBalances`, `CountersMatchWallets`, `PohChainValid`, `AppliedOnce`, `SpendsFollowNonces`, the audits `LogExplainsBalances` and `SupplyFollowsLog`, `IterationsAnchored`, and the action properties `OnlyOwnerOrIterationDebits`, `HistoryIsAppendOnly`, over every order of handlers |
| `node_refines_ledger` | holds | the handlers, write by write, implement the atomic ledger (`ImplementsLedger`), leave nothing uncommitted (`IdleNodeIsCommitted`) and release the stored lock (`StoredLockReleased`, liveness) |
| `crash_and_error` | holds | with a crash anywhere, a storage error and iterations that panic: `ReferencesResolve`, `TornIterationFenced`, `IterationRestoresBooks`, `PanicTearsNothing`; and as long as no write has failed, `CrashKeepsChain`, `StoredIterationsComplete`, `TornTransferMintsNothing` |
| `reads` | holds | what readers are told: `WalletAnswerInWindow`, `HistoryShowsAccepted`, `SummariesFollowLog`, and `EveryReadAnswered` (liveness) |
| `simulator` | holds | `RowsFollowScript`, `InflationFollowsRows`, `NamesAreUnique`, `TransfersCountTwice`, `RowDescribesPopulation`, and `Returns` (liveness) |
| `replay_guard` | holds | `OnceInsideWindow`, `RefusalFollowsAdmission` |
| `rate_limiter` | holds | `WindowLimit`, `RefusalHasCause`, both with a slack of one `MaxLag`, which is exact: without the slack TLC refutes them |
| `admin` | holds | `SerialUpdatesAgree`, `ExecutedMatchesIterations`, `SnapshotCoversItsTick`, `SnapshotInItsIteration`, `RunningHasCause` |
| `lock_after_crash` | violated | `NoLockWithoutIteration` |
| `seed_retry` | violated | `SeedIsIdempotent` |
| `chain_after_error` | violated | `StoredChainValid`, when a write may fail |
| `late_copy` | violated | `ChargeMintedOnce` |

### Where the code and its documents disagree

* **The iteration lock outlives a crash.** `execute_iteration_now` stores
  `iteration_lock = true` first, only its own last `store_state` clears it, and
  `open` takes it over. After a crash, or an error, in an iteration the node
  refuses every request. `docs/concept.md` promises a rollback. The fence has a
  use (`TornIterationFenced`): some wallets may be of the new iteration.
* **A seed file that fails half way.** The wallets before the bad entry exist
  and are not counted, and a second attempt skips them, although
  `install_seed` calls itself idempotent.
* **A gap in the chain.** `append_tx_locked` advances tick and hash in memory
  before it writes; an error leaves them advanced, and the next transaction
  links to an entry that was never stored.
* **A late copy of a charge.** The request is verified with one clock reading
  and guarded with a later one; a retry that crosses the end of the window
  between them is minted again. `docs/features.md` says every identical body
  within the window is rejected.

Smaller ones, without a run of their own. A wallet and the state that counts it
are two writes (`create_wallet`), so after a crash between them `total_supply`
is not the "sum of all wallet balances" of `aggora-types` until the next
iteration, which restores it (`IterationRestoresBooks`). A `charge_burst` mints
`n_targets * (amount / n_targets)`, where the type's comment says `amount` in
total (`RowsFollowScript` states what the code does). The target of a
`wealth_shock` counts transactions but no counterparties. The `charge_burst` in
`seeds/high_inflation.json` has a field `amount_micro_agc` and neither `amount`
nor `n_targets`, so it does not parse as a `ScriptedEvent`. A panicking
iteration leaves the node locked, as a crash does.

Two overlapping parameter updates may also leave store and memory different
(the exception in `SerialUpdatesAgree`), a manual snapshot may mix the state of
one tick with wallets of later ones (`SnapshotCoversItsTick` is the direction
that holds), and `/admin/simulation/stop` does not stop a run.

### Bounds

* `ledger`: two users and faucet wallets, amounts 0, 1 and 4, five ticks, two
  parameter sets that differ in growth, calibration, residual policy and
  weights. Five ticks are enough for two wallets, a spend in each direction
  and two iterations around them. `MaxU64 = 15` is small enough for saturation
  and wrap-around to happen; `Scale = 4` gives every rate a zero, a whole and
  something to round; `LogSteps = 12` covers all balances up to 60. Nothing
  tells the users apart, so symmetry is used.
* node runs: three or four ticks, one amount, at most one crash and one error.
  One crash covers the recovery from every prefix; `crash_and_error` has both
  in either order with one user, the wallets of the faucet as its counterparts,
  and a second parameter set whose burn bounds are out of order. A transfer to
  a faucet wallet after an iteration fits in the three ticks; a second crash
  takes the run past three million states. `MaxU64 = 60` keeps the sums exact,
  saturation being the ledger run's question.
* `reads`: one reader, one user and the faucet's wallets, four ticks, a listing
  cut at two: a mint, two spends and an iteration make a list overflow. One
  reader is enough because readers change nothing. The properties are about a
  node without crash or error.
* `simulator`: two iterations (the second sees the first one's inflation and
  names), populations of none, one and two wallets, three scripts that between
  them have every event, too few wallets, nothing to do, the wrong iteration, a
  charge that does not divide and a shock of more than everything, two
  fractions and at most three transfers of an iteration's activity. `MaxU64 =
  200` keeps the sums exact.
* `replay_guard`: three deliveries, a request stamped ahead of the clock, its
  signature with another body, and a request without one, two drifts with and
  without bypass, four clock ticks (past the end of the longest window) and a
  restart. Deliveries are interchangeable, so symmetry is used. The proof of
  `OnceInsideWindow` showed that the end of the window is not the only way to
  forget a signature: a delivery that has read the clock before the window of
  the body began, and reaches the map after it, prunes as well. The request
  stamped ahead of the clock makes this happen in the run, and the property
  names it.
* `rate_limiter`: four calls, two keys, limits 0, 1 and 2, a window of 2, a lag
  of 1 and five clock ticks: two windows follow each other, and a deque gets
  out of order. `MaxLag` bounds how far the clock moves while a caller waits
  for the lock; without such a bound the limiter promises nothing.
* `admin`: any three of two updates, two runs and a snapshot, one storage
  error, transfers started up to tick 1, two wallets.

`CHECK_DEADLOCK FALSE` everywhere: the bounds end the behaviours, and a node
without requests rightly does nothing.

### Fairness

`NodeSpec` has weak fairness of `DoWrite`: a handler that holds the lock has no
`await` in its locked section, so the runtime runs it to its end. Nothing is
assumed of requests, flushes or crashes. `ReadsSpec` adds weak fairness of the
second half of `/iteration/current`, and strong fairness of `Respond`: tokio's
`RwLock` queues its callers in order, so one that waits is served although
writers keep coming. `Simulator!Spec` is a sequential program that goes on until
it returns: weak fairness of its rounds, and that a call of `execute_iteration`
ends (`ActivityOver ~> ~ActivityOver`, which is weak fairness of `Iterate`, the
only step there is then, in a form that is cheap to evaluate). The number of
transfers of a sender is a Poisson sample; that it is finite is the bound
`MaxTransfers`.

## 4. What is proved

All for any users, amounts, seed files, parameter sets within `Parameters`, word
size, deliveries, callers, requests and bounds. Where the last column names a
property, the theorem states it of the specification (`Spec => []P` and the
like), and a run checks it on a small instance.

| Module | Theorem | States |
|---|---|---|
| EconomyProofs | `PoolIsPartitioned` | the penalty pool is the sum of the faucet's, the burned and the redistributed part |
| | `IterationConserves` | while no sum overflows, the balances after `ExecuteIteration` are those before it, plus what the commit says was minted, minus what it says was burned |
| LedgerProofs | `TypeCorrect` | `TypeOK` |
| | `ChainAlwaysVerifies` | `PohChainValid` |
| | `SupplyIsTheSum` | `SupplyMatchesBalances` |
| | `CountersAreExact` | `CountersMatchWallets` |
| | `SpendsInOrder` | `SpendsFollowNonces` |
| | `AppliedAtMostOnce` | `AppliedOnce` |
| | `EveryIterationIsAnchored` | `IterationsAnchored` |
| | `NothingIsRewritten` | `HistoryIsAppendOnly` |
| | `OnlyOwnersSpend` | `OnlyOwnerOrIterationDebits` |
| | `SupplyIsAccountedFor` | `SupplyFollowsLog` |
| | `BalancesAreAccountedFor` | `LogExplainsBalances` |
| CoinNodeProofs | `ChainSurvivesCrashes` | `CrashKeepsChain` |
| | `CountedIterationsAreFiled` | `StoredIterationsComplete` |
| | `ReferencesAlwaysResolve` | `ReferencesResolve` |
| | `HalfAnIterationIsFenced` | `TornIterationFenced` |
| | `HandlersAreAtomic` | while no write fails, every step between two restarts is a step of Ledger or a stutter |
| | `NodeImplementsLedger` | `ImplementsLedger`, when there are no crashes and errors |
| | `NothingHalfDone` | `IdleNodeIsCommitted`, while no write has failed, when no parameters panic |
| | `PanicsTearNothing` | `PanicTearsNothing` |
| | `TornTransfersMintNothing` | `TornTransferMintsNothing` |
| | `IterationsRestoreBooks` | `IterationRestoresBooks`, while the balances fit in a `u64` |
| ReadsProofs | `HistoryIsComplete` | `HistoryShowsAccepted`, when there are no crashes and errors |
| ReplayGuardProofs | `CopiesAreRefusedInsideWindow` | `OnceInsideWindow` |
| | `OnlyCopiesAreRefused` | `RefusalFollowsAdmission` |
| RateLimiterProofs | `NeverOverTheLimit` | `WindowLimit` |
| | `NobodyIsLockedOut` | `RefusalHasCause` |
| SimulatorProofs | `SimulatorNames` | `NamesAreUnique` |
| | `SimulatorActivity` | `TransfersCountTwice` |
| | `SimulatorInflation` | `InflationFollowsRows`, while the supply fits |
| | `SimulatorRows` | `RowsFollowScript`, while the supply fits |
| | `SimulatorMetrics` | `RowDescribesPopulation` |
| AdminProofs | `StoreAndMemoryAgree` | `SerialUpdatesAgree` |
| | `EveryIterationIsCounted` | `ExecutedMatchesIterations` |
| | `FlagHasCause` | `RunningHasCause` |
| | `SnapshotsAreCurrent` | `SnapshotCoversItsTick` |
| | `SnapshotsAreFiledRight` | `SnapshotInItsIteration` |

The inductive invariants are theorems of their own: `LedgerInvariant`,
`HistoryInvariant`, `AuditInvariant`, `NodeInvariant`, `RefInvariant`,
`SimulatorShape` and those of the other modules.

### Assumptions

* Economy, Ledger: `MaxU64` and `Scale` positive, `LogSteps` natural, amounts in
  the range of a `u64`, users with ids that the faucet does not give out.
  Nothing is assumed of the order of `burn_min` and `burn_max`: an iteration
  that panics is no step of Ledger.
* CoinNode: a seed file is a sequence of entries whose amounts are of `Amounts`
  and whose id is a user's or `BadKey`, the key that cannot be decoded.
* ReplayGuard: timestamps and drifts are integers, negative ones included, and
  `SignatureAssumption`, which stands for the cryptography: a signature verifies
  for the one header and body it was made over.
* RateLimiter: natural limits, finitely many of them, and `MaxLag <= Window`. The
  lengths of the windows, a day and a minute, are constants of the code.
* Simulator: balances of a `u64`, parameters with which an iteration does not
  panic, fractions of a transfer below 1 (the code clamps them to 0.95), and
  scripts that are sequences of `Events` (amounts are a `u64`, counts natural).
  Nothing is assumed of the order of the events, of the iterations they name, or
  of what is drawn. Two theorems have
  the hypothesis `[]SupplyFits` (the balances add up to less than `MaxU64`):
  beyond it the code's sums saturate or wrap, and its rows no longer explain
  anything.
* Admin: finitely many runs, and the names of updates, runs and snapshots are
  different.
* `NodeImplementsLedger` and `HistoryIsComplete` speak of a node that does not
  fail (`MaxCrashes = MaxFailures = 0`); `HandlersAreAtomic` is what is true of
  the others. `NothingHalfDone` is false if an iteration can panic: the lock is
  then set and not committed, and `PanicTearsNothing` says that this is all.
  `IterationsRestoreBooks` has the hypothesis `[]BalancesFit`: `post_supply` is a
  sum that wraps. Crashes, errors and panics are allowed without limit.

### The arguments

**Sums.** `EconomyProofs` begins with the induction principles over numbers and finite sets
(for sets instead of predicates, so that they can be cited), the algebra of
`Total` (extension, update, union, bound, sums of rows), sums counted threshold
by threshold, and that every finite column has a value of every rank. Then it follows
`ExecuteIteration` operator by operator; `IterationShape` says what it returns.

**Ledger.** `LedgerInv` is the conjunction of the four invariants of the state
with two strengthenings. `NothingAhead`: no wallet is active in an iteration
that has not begun; without it a wallet might be counted active by an iteration
that never counted it. `CountFits`: the wallet counter fits in a `u64` as long
as nothing saturated, so that `saturating_add(1)` is exact.

**History.** Two transactions of the log differ because each kind carries a
number that never repeats: a mint its tick, a commit its iteration, a spend the
nonce of its sender (`HistoryInv`). A wallet that does not exist has spent
nothing (`SpendersExist`), so that its first nonce is 0. The audits replay the
log with a recursive function; `Replayed` is such a function chosen by what it
satisfies, which makes one more entry one more step, and `AuditInv` says of
every wallet, the ones that do not exist included, that its balance is its
replay.

**Crashes and errors.** A crash may come between any two writes, and an error
leaves whatever has been written, so an invariant over states alone would have
to describe every handler at every point. Instead `NodeInv` says that what is
left of the plan is a path: every write takes the store from one summary (head
of the chain, iterations filed, transactions written, the iterations wallets
are active in, the stored lock) to the next, and each summary is one that the
store may be abandoned with (`Links`, `Path`, `Settled`). That the plan of each
handler is a path follows from its code; that a write keeps the store as
summarised follows from `DoWrite` alone. What is durable is such a store too.

**Refinement.** The same idea, with books instead of summaries: `Follows` says
what a write does to the live books and to the committed ones, and that a
committing write is a step of Ledger. `Implements(plan)` says that what is left
of the plan leads to books that are all committed, or committed but for the lock
of a panic. Each plan has one committing write, but for `install_seed`, whose
loop is an induction over the entries (`LoopImplements`), and an iteration writes its
wallets one after the other before it commits (`WalletsTrace`).
`StepIsAction` turns steps of books into actions of the instance of Ledger. For
`TornTransfersMintNothing` a transfer passes through stages (`Debits`, `Credits`,
`Appends`), each with the sum of the wallets that it is bounded by, and no other
handler writes a transfer.

**Restored books.** Here nothing is known of the counters an iteration starts
with, so what is left of a plan is compared with the wallets as they are
(`RestoreInv`): either it only writes under the iteration it found, or it first
replaces the wallets that differ from the new ones (`Rewrites`) and then goes on
under the next iteration with the counters of exactly those (`Closes`). That the
wallets the faucet creates are new needs `AllBorn`: the number in a faucet
wallet's id is never later than its last activity, and so not the number of an
iteration to come, also in a store that a crash has cut short.

**Reads.** A list of transactions is taken from the index between two writes of
a handler, and sent when no handler runs. In every plan an index entry is
followed by the PoH entry of its transaction, a PoH entry comes after the index
entries of all the wallets that its transaction names, and the PoH entries go
under rising ticks behind the end of the chain (`Lists`, for each handler and,
by induction over its entries, for a seed file). So in the store at any moment
(`IndexInv`) every wallet of an anchored transaction finds it, and whatever the
index names is anchored or is about to be (`Coming`); no entry of the chain is
ever overwritten (`Adds`), and when the answer goes out the plan is finished, so
that what was about to be anchored is, under a tick the envelope covers.

**Replay guard.** `Remembered`: the signature of an admitted delivery is in the
map, with the body's timestamp, until the clock has left the window around it or
a reading from before the window has gone through the guard. The delivery's
window is at least `SmallestDrift` wide whatever the administrator does.

**Rate limiter.** `QueueInv`: the queue of a key holds readings of admitted calls,
each once, in the order of the lock, at most `MaxLag` out of order; and none
is missing that may still be inside somebody's window, although pruning stops at
the first entry that is young enough.

**Simulator.** `Shape`: a name is a position in the `Vec`, and
counterparties are positions before its end. `Paired`: what the wallets have
counted is twice the transfers of the iteration, and twice something more only
if a shock is due in it. For
inflation, `Steered` follows the supply through the three phases of an
iteration: what the rows hand over to the next one (`HandsOver`), and what the
state in use was computed from (`Steers`). For the rows, `Explained` says where
in the script the run is (`Position`), how much of the event under way has been
done (`UnderWay`), and that the number of wallets and the supply are the sums of
the script's events so far, partial sums being recursive functions chosen by
what they satisfy. The metrics are two statements about order statistics: a
sample of any rank exists, so the median is one that the code's sort would
find; and the Gini coefficient by ranks, which the code computes on the sorted
balances, is the one by mean differences, because both count, for each
threshold, the pairs of wallets on its two sides (`DifferencesByRank`).

**Administration.** A snapshot is taken wallet by wallet; `Covers` says that what it
has read holds every write of the ticks it counts, and `LogIsWritten` that a
later write of a wallet carries a later tick.

### Only model-checked

* Liveness (`StoredLockReleased`, `EveryReadAnswered`, `Returns`), which is out of
  the prover's reach.
* What readers are told of balances and summaries: `SummariesFollowLog` and
  `WalletAnswerInWindow`. They are about a node without crash or error, where
  `NodeImplementsLedger` and the proofs of Ledger's history say what there is to
  read; a proof would need those of the ledger as of the last commit (`view`),
  and a theorem cannot be cited through INSTANCE.

## 5. What is not modelled

* Cryptography, pure functions: signatures are correct or the request does not
  get this far; hashes do not collide. The Merkle root and the leader's
  signature on a PoH entry are left out (an error in signing is an error of
  `FailWrite`'s kind).
* Floating point beyond multiples of `1/Scale`. The Gini coefficient is in
  Simulator, exactly, and not in the commits: nothing reads it back.
* Routing, parsing, status codes, the socket of the event stream (its messages
  are those of `/stats`), configuration files and logging.
* The distributions the simulator draws from, and its CSV output.
* The other commands of the command line: argument parsing and output.
* A wall clock that goes back, and restarts of the rate limiter (its windows
  start empty again).
* Operators and validators, which `open` writes once.

## 6. Plan

In order of importance; 1 to 9 are done.

1. Totals, Economy, Ledger with their run, then the proofs of its invariants.
2. CoinNode: refinement of Ledger, crashes, storage errors, seed loading.
3. ReplayGuard and RateLimiter.
4. Admin.
5. Parameters whose burn bounds are out of order, and the panic under the lock.
6. The read endpoints (Reads) and the offline simulator (Simulator).
7. Proofs of every safety property of Ledger, CoinNode, ReplayGuard, RateLimiter
   and Admin, and of the refinement of Ledger by CoinNode.
8. Proofs of every safety property of Simulator.
9. The proof that readers are shown the history of a wallet.
10. Proofs of `SummariesFollowLog` and `WalletAnswerInWindow`.
