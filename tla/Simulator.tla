------------------------------ MODULE Simulator ------------------------------
(***************************************************************************)
(* The offline simulator (run_simulation, the `simulate` command): a       *)
(* sequential program that drives execute_iteration over a synthetic       *)
(* population and prints one row of metrics per iteration.                 *)
(*                                                                         *)
(* An iteration goes through three phases: the scripted events that are    *)
(* due, in the order of the script; a round of transfers, sender by        *)
(* sender; the economic iteration, with the renaming of the faucet's       *)
(* wallets.  Whatever the generator draws (a wallet, a fraction, the       *)
(* length of a sender's loop) is a choice here, so a behaviour stands for  *)
(* every seed that draws it.                                               *)
(*                                                                         *)
(* The Vec of wallets is a sequence.  nonce and last_active_iteration are  *)
(* left out of its records: the simulator writes them and reads neither.   *)
(***************************************************************************)
EXTENDS Economy, Sequences

CONSTANTS
    SimParameters,    \* SystemParameters the command may be given
    Scripts,          \* lists of scripted events, the seed file's
    Populations,      \* sequences of initial balances
    Fractions,        \* of the sender's balance, what a transfer may move
    MaxTransfers,     \* bound on the transfers of an iteration, for the Poisson samples
    MaxIterations     \* config.iterations

\* With bounds of the burn rate that are not in order the first iteration panics.
ASSUME SimParametersAssumption == \A p \in SimParameters : p \in Parameters /\ ~Panics(p)
\* clamp(0.0001, 0.95): a transfer never moves the whole balance.
ASSUME FractionsAssumption == Fractions \subseteq 0..(Scale - 1)
ASSUME SimBoundsAssumption == MaxTransfers \in Nat /\ MaxIterations \in Nat
ASSUME PopulationsAssumption == Populations \subseteq Seq(0..MaxU64)

\* ScriptedEvent.  An Option is a sequence of at most one element; an action that this version
\* does not know is read without its fields.
Events ==
         [action : {"spawn_wallets"}, at_iteration : Nat, count : Nat,
          balance : UNION {[1..n -> 0..MaxU64] : n \in 0..1}]
    \cup [action : {"transfer_burst"}, at_iteration : Nat, n_txs : Nat]
    \cup [action : {"charge_burst"}, at_iteration : Nat, amount : 0..MaxU64, n_targets : Nat]
    \cup [action : {"wealth_shock"}, at_iteration : Nat, fraction : Int]
    \cup [action : {"unknown"}]

ASSUME ScriptsAssumption == Scripts \subseteq Seq(Events)

VARIABLES
    parameters, script,   \* what the command was given
    wallets,              \* Vec<Wallet>
    next_wallet_idx,
    state,                \* the SystemState that execute_iteration is handed
    phase,                \* "events", "activity" or "done"
    cursor,               \* position in the script, or in the wallets
    repeats,              \* rounds done of the event at the cursor
    n_txs,                \* transfers of the current iteration
    metrics,              \* the rows
    genesis               \* history: the population at the start

vars == <<parameters, script, wallets, next_wallet_idx, state, phase, cursor, repeats, n_txs,
          metrics, genesis>>

given == <<parameters, script, genesis>>

SimWallet(idx, balance) ==
    [id                       |-> idx,
     created_at_iteration     |-> 0,
     balance                  |-> balance,
     iteration_tx_count       |-> 0,
     iteration_counterparties |-> {},
     activity_score           |-> Scale]

BalancesOf(ws) == [i \in DOMAIN ws |-> ws[i].balance]

Init ==
    /\ parameters \in SimParameters
    /\ script \in Scripts
    /\ \E balances \in Populations :
          wallets = [i \in DOMAIN balances |-> SimWallet(i - 1, balances[i])]
    /\ next_wallet_idx = Len(wallets)
    /\ state = [current_iteration |-> 0, total_supply |-> 0, n_wallets |-> 0, last_inflation |-> 0,
                previous_iteration_start_supply |-> 0, previous_iteration_supply |-> 0]
    /\ phase = IF MaxIterations = 0 THEN "done" ELSE "events"
    /\ cursor = 1
    /\ repeats = 0
    /\ n_txs = 0
    /\ metrics = << >>
    /\ genesis = [n_wallets |-> Len(wallets), supply |-> Total(BalancesOf(wallets))]

-----------------------------------------------------------------------------
(* Coins move between two wallets.                                         *)

\* The wallet drawn, or the one after it when the sender drew itself.
Recipient(sender, draw) == IF draw = sender THEN (draw % Len(wallets)) + 1 ELSE draw

\* A wallet that gives an amount away, to the wallet named to.
Sent(w, amount, to) ==
    [w EXCEPT !.balance = @ - amount,
              !.iteration_tx_count = @ + 1,
              !.iteration_counterparties = @ \cup {to}]

\* A wallet that gets an amount, from the wallet named from.
Got(w, amount, from) ==
    [w EXCEPT !.balance = SatAdd(@, amount),
              !.iteration_tx_count = @ + 1,
              !.iteration_counterparties = @ \cup {from}]

\* Mutant: the recipient's side is forgotten.
MoveOneSided(ws, sender, recipient, amount) ==
    [ws EXCEPT ![sender] = Sent(@, amount, ws[recipient].id),
               ![recipient].balance = SatAdd(@, amount)]

Move(ws, sender, recipient, amount) ==
    [ws EXCEPT ![sender] = Sent(@, amount, ws[recipient].id),
               ![recipient] = Got(@, amount, ws[sender].id)]

\* One round of a loop of transfers: nothing when the amount comes out as 0.
Transfer(sender, draw, fraction) ==
    LET amount == Portion(fraction, wallets[sender].balance)
    IN  /\ wallets' = IF amount = 0 THEN wallets
                      ELSE Move(wallets, sender, Recipient(sender, draw), amount)
        /\ n_txs' = IF amount = 0 THEN n_txs ELSE n_txs + 1

-----------------------------------------------------------------------------
(* apply_scripted_events: an event has its effect at the start of its      *)
(* iteration, the one that follows the current one.                        *)

\* Mutant: the events of the iteration that has just ended.
DueLate(event) == event.action # "unknown" /\ event.at_iteration = state.current_iteration

Due(event) == event.action # "unknown" /\ event.at_iteration = state.current_iteration + 1

At(action) ==
    /\ phase = "events"
    /\ cursor <= Len(script)
    /\ script[cursor].action = action
    /\ Due(script[cursor])

NextEvent == cursor' = cursor + 1 /\ repeats' = 0

\* The loop at the cursor goes through its next round of n.
NextRound(n) ==
    IF repeats + 1 = n THEN NextEvent ELSE repeats' = repeats + 1 /\ UNCHANGED cursor

\* Mutant: the counter of names stands still.
NamesWithoutCounting(names) == next_wallet_idx' = next_wallet_idx

\* The names given out are used up.
UseNames(names) == next_wallet_idx' = next_wallet_idx + names

\* balance.unwrap_or(default_seed).
SpawnBalance(event) == IF event.balance = << >> THEN parameters.seed ELSE event.balance[1]

SpawnWallets ==
    /\ At("spawn_wallets")
    /\ wallets' = wallets \o [i \in 1..script[cursor].count |->
                                SimWallet(next_wallet_idx + i - 1, SpawnBalance(script[cursor]))]
    /\ UseNames(script[cursor].count)
    /\ NextEvent
    /\ UNCHANGED <<given, state, phase, n_txs, metrics>>

\* Mutant: a round that moves nothing does not count.
BurstUntilMoved(sender, draw, fraction) ==
    LET event == script[cursor]
    IN  /\ At("transfer_burst")
        /\ Len(wallets) >= 2
        /\ repeats < event.n_txs
        /\ IF wallets[sender].balance = 0 THEN UNCHANGED <<wallets, n_txs>>
           ELSE Transfer(sender, draw, fraction)
        /\ IF n_txs' = n_txs THEN UNCHANGED <<cursor, repeats>> ELSE NextRound(event.n_txs)
        /\ UNCHANGED <<given, next_wallet_idx, state, phase, metrics>>

TransferBurst(sender, draw, fraction) ==
    LET event == script[cursor]
    IN  /\ At("transfer_burst")
        /\ Len(wallets) >= 2
        /\ repeats < event.n_txs
        /\ IF wallets[sender].balance = 0 THEN UNCHANGED <<wallets, n_txs>>
           ELSE Transfer(sender, draw, fraction)
        /\ NextRound(event.n_txs)
        /\ UNCHANGED <<given, next_wallet_idx, state, phase, metrics>>

ChargeBurst(target) ==
    LET event == script[cursor]
    IN  /\ At("charge_burst")
        /\ repeats < event.n_targets
        /\ wallets' = [wallets EXCEPT ![target].balance =
                          SatAdd(@, event.amount \div event.n_targets)]
        /\ NextRound(event.n_targets)
        /\ UNCHANGED <<given, next_wallet_idx, state, phase, n_txs, metrics>>

\* Everybody else loses a part of the balance to the target.
WealthShock(target) ==
    LET taken == [i \in DOMAIN wallets |->
                    IF i = target THEN 0
                    ELSE Portion(Clamp(script[cursor].fraction, 0, Scale), wallets[i].balance)]
        moved == SmallerOf(Total(taken), MaxU64)
    IN  /\ At("wealth_shock")
        /\ wallets' = [i \in DOMAIN wallets |->
              IF i = target
              THEN [wallets[i] EXCEPT !.balance = SatAdd(@, moved),
                                      !.iteration_tx_count = @ + Len(wallets) - 1]
              ELSE Sent(wallets[i], taken[i], wallets[target].id)]
        /\ NextEvent
        /\ UNCHANGED <<given, next_wallet_idx, state, phase, n_txs, metrics>>

\* The event has no effect: another iteration's, an action this version does not know, a
\* burst of nothing, or too few wallets for it.
Skips(event) ==
    \/ ~Due(event)
    \/ event.action = "transfer_burst" /\ (Len(wallets) < 2 \/ event.n_txs = 0)
    \/ event.action = "charge_burst" /\ (Len(wallets) = 0 \/ event.n_targets = 0)
    \/ event.action = "wealth_shock" /\ Len(wallets) = 0

SkipEvent ==
    /\ phase = "events"
    /\ cursor <= Len(script)
    /\ Skips(script[cursor])
    /\ NextEvent
    /\ UNCHANGED <<given, wallets, next_wallet_idx, state, phase, n_txs, metrics>>

EndOfScript ==
    /\ phase = "events"
    /\ cursor = Len(script) + 1
    /\ phase' = "activity"
    /\ cursor' = 1
    /\ UNCHANGED <<given, wallets, next_wallet_idx, state, repeats, n_txs, metrics>>

-----------------------------------------------------------------------------
(* Synthetic activity: every wallet in turn sends a number of transfers.   *)

EnoughWallets == Len(wallets) >= 2

ActivityTransfer(draw, fraction) ==
    /\ phase = "activity"
    /\ EnoughWallets
    /\ cursor <= Len(wallets)
    /\ n_txs < MaxTransfers
    /\ wallets[cursor].balance # 0
    /\ Transfer(cursor, draw, fraction)
    /\ UNCHANGED <<given, next_wallet_idx, state, phase, cursor, repeats, metrics>>

NextSender ==
    /\ phase = "activity"
    /\ EnoughWallets
    /\ cursor <= Len(wallets)
    /\ cursor' = cursor + 1
    /\ UNCHANGED <<given, wallets, next_wallet_idx, state, phase, repeats, n_txs, metrics>>

-----------------------------------------------------------------------------
(* The economic iteration.                                                 *)

Slot(i) == <<"wallet", i, 0>>

\* The Vec as the function ExecuteIteration takes; the first element takes a residual.
Slots(ws) == [s \in {Slot(i) : i \in DOMAIN ws} |-> ws[s[2]]]

\* The Vec that execute_iteration returns: the faucet's wallets are pushed to its end.
Returned(ws, result) ==
    LET it == result.commit.iteration_id
    IN  [i \in 1..result.n_wallets |->
            IF i <= Len(ws) THEN result.wallets[Slot(i)]
            ELSE LET id == FaucetId(it, i - Len(ws) - 1)
                 IN  [SimWallet(id, result.wallets[id].balance) EXCEPT !.created_at_iteration = it]]

\* Wallets created by this iteration get the next names, in order.
ReId(ws, it) ==
    [i \in DOMAIN ws |->
        IF ws[i].created_at_iteration = it
        THEN SimWallet(next_wallet_idx
                         + Cardinality({j \in 1..(i - 1) : ws[j].created_at_iteration = it}),
                       ws[i].balance)
        ELSE ws[i]]

\* Mutant: both ends of the cycle are taken from its end.
AdvancedFromEnd(commit, n) ==
    [current_iteration |-> commit.iteration_id, total_supply |-> commit.post_supply,
     n_wallets |-> n, last_inflation |-> commit.inflation,
     previous_iteration_start_supply |-> commit.post_supply,
     previous_iteration_supply |-> commit.post_supply]

Advanced(commit, n) ==
    [current_iteration |-> commit.iteration_id, total_supply |-> commit.post_supply,
     n_wallets |-> n, last_inflation |-> commit.inflation,
     previous_iteration_start_supply |-> commit.snapshot_supply,
     previous_iteration_supply |-> commit.post_supply]

-----------------------------------------------------------------------------
(* Metrics of the population.  A ratio is its numerator and denominator.   *)

\* The balances in ascending order: b is the k-th when fewer than k are below it, and at
\* least k are no larger.
Ascending(ws) ==
    [k \in DOMAIN ws |->
        CHOOSE b \in {ws[i].balance : i \in DOMAIN ws} :
            /\ Cardinality({i \in DOMAIN ws : ws[i].balance < b}) < k
            /\ Cardinality({i \in DOMAIN ws : ws[i].balance <= b}) >= k]

\* Mutant: ranks from 0.
GiniFromZero(ws) ==
    LET sorted == Ascending(ws)
        n      == Len(ws)
        total  == Total(sorted)
    IN  IF total = 0 THEN <<0, 1>>
        ELSE <<2 * Total([i \in 1..n |-> (i - 1) * sorted[i]]) - (n + 1) * total, n * total>>

\* compute_gini_from_balances: ranks times balances.
Gini(ws) ==
    LET sorted == Ascending(ws)
        n      == Len(ws)
        total  == Total(sorted)
    IN  IF total = 0 THEN <<0, 1>>
        ELSE <<2 * Total([i \in 1..n |-> i * sorted[i]]) - (n + 1) * total, n * total>>

\* The largest tenth of the wallets, rounded up, at least one.
Top10Share(ws) ==
    LET sorted == Ascending(ws)
        n      == Len(ws)
        total  == Total(sorted)
    IN  IF total = 0 THEN <<0, 1>>
        ELSE <<Total(SubSeq(sorted, n + 1 - LargerOf((n + 9) \div 10, 1), n)), total>>

MedianBalance(ws) == IF ws = << >> THEN 0 ELSE Ascending(ws)[(Len(ws) \div 2) + 1]

Row(commit, ws) ==
    [iteration        |-> commit.iteration_id,
     supply           |-> commit.post_supply,
     n_wallets        |-> Len(ws),
     n_active         |-> Cardinality({i \in DOMAIN ws : ws[i].activity_score >= Scale}),
     gini             |-> Gini(ws),
     top10_share      |-> Top10Share(ws),
     median_balance   |-> MedianBalance(ws),
     penalty_total    |-> SumU64(commit.penalties),
     burned           |-> commit.burned,
     reward_total     |-> SumU64(commit.rewards),
     faucet_from_mint |-> commit.faucet_from_mint,
     new_wallets      |-> Cardinality(commit.new_wallets),
     n_txs            |-> n_txs,
     burn_rate        |-> commit.burn_rate,
     inflation        |-> commit.inflation]

ActivityOver == phase = "activity" /\ (EnoughWallets => cursor > Len(wallets))

Iterate ==
    /\ ActivityOver
    /\ \E result \in {ExecuteIteration(Slots(wallets), parameters, state, Slot(1))} :
          LET commit == result.commit
          IN  /\ wallets' = ReId(Returned(wallets, result), commit.iteration_id)
              /\ UseNames(Cardinality(commit.new_wallets))
              /\ state' = Advanced(commit, Len(wallets'))
              /\ metrics' = Append(metrics, Row(commit, wallets'))
    /\ phase' = IF Len(metrics') = MaxIterations THEN "done" ELSE "events"
    /\ cursor' = 1
    /\ repeats' = 0
    /\ n_txs' = 0
    /\ UNCHANGED given

-----------------------------------------------------------------------------
Draws == DOMAIN wallets

Rounds ==
    \/ SpawnWallets
    \/ \E sender, draw \in Draws, fraction \in Fractions : TransferBurst(sender, draw, fraction)
    \/ \E target \in Draws : ChargeBurst(target) \/ WealthShock(target)
    \/ SkipEvent
    \/ EndOfScript
    \/ \E draw \in Draws, fraction \in Fractions : ActivityTransfer(draw, fraction)
    \/ NextSender

Next == Rounds \/ Iterate

\* A sequential program keeps going until it returns.  The call of execute_iteration is
\* straight-line code: once reached, it is over at some time (weak fairness of Iterate).
Spec ==
    /\ Init
    /\ [][Next]_vars
    /\ WF_vars(Rounds)
    /\ ActivityOver ~> ~ActivityOver

-----------------------------------------------------------------------------
(* What the printed rows are good for.                                     *)

DueIn(k) == {i \in DOMAIN script : script[i].action # "unknown" /\ script[i].at_iteration = k}

PopulationBefore(k) == IF k = 1 THEN genesis.n_wallets ELSE metrics[k - 1].n_wallets

SupplyBefore(k) == IF k = 1 THEN genesis.supply ELSE metrics[k - 1].supply

\* The wallets the events of iteration k before the i-th one add.
SpawnedBefore(k, i) ==
    Total([j \in {j \in DueIn(k) : j < i} |->
              IF script[j].action = "spawn_wallets" THEN script[j].count ELSE 0])

\* The coins the i-th event creates in iteration k.
CoinsOf(k, i) ==
    LET event == script[i]
    IN  CASE event.action = "spawn_wallets" -> event.count * SpawnBalance(event)
          [] event.action = "charge_burst"  ->
                IF event.n_targets = 0 \/ PopulationBefore(k) + SpawnedBefore(k, i) = 0 THEN 0
                ELSE event.n_targets * (event.amount \div event.n_targets)
          [] OTHER -> 0

\* The script and the rows explain the population and the supply of every row: each event due
\* in an iteration takes effect in it once, in order, and apart from events only the faucet
\* creates coins and only the burn destroys them (D.11); transfers and shocks move them.
RowsFollowScript ==
    \A k \in DOMAIN metrics :
        /\ metrics[k].n_wallets = PopulationBefore(k) + SpawnedBefore(k, Len(script) + 1)
                                    + metrics[k].new_wallets
        /\ metrics[k].supply = SupplyBefore(k) + Total([i \in DueIn(k) |-> CoinsOf(k, i)])
                                 + metrics[k].faucet_from_mint - metrics[k].burned

\* The inflation that an iteration steers by is the one the previous row shows: what its
\* faucet and its burn did to the supply it started from (the comment of step 3, D.4).
InflationFollowsRows ==
    \A k \in DOMAIN metrics :
        LET row == metrics[k - 1]
        IN  metrics[k].inflation =
               IF k = 1 THEN 0
               ELSE Inflation([previous_iteration_supply       |-> row.supply,
                               previous_iteration_start_supply |->
                                  row.supply + row.burned - row.faucet_from_mint])

\* Names are never given out twice, neither to spawned wallets nor to the faucet's ("keep
\* unique ids"), and nobody counts itself, or a wallet that does not exist, as a counterparty.
NamesAreUnique ==
    LET ids == {wallets[i].id : i \in DOMAIN wallets}
    IN  /\ ids = 0..(next_wallet_idx - 1)
        /\ Cardinality(ids) = Len(wallets)
        /\ \A i \in DOMAIN wallets :
              wallets[i].iteration_counterparties \subseteq ids \ {wallets[i].id}

ShockDue == \E i \in DueIn(state.current_iteration + 1) : script[i].action = "wealth_shock"

\* Activity comes in pairs: each transfer counts once for its sender and once for its
\* recipient, and besides transfers only a wealth shock counts.
TransfersCountTwice ==
    LET counted == Total([i \in DOMAIN wallets |-> wallets[i].iteration_tx_count])
    IN  /\ counted % 2 = 0
        /\ counted >= 2 * n_txs
        /\ ~ShockDue => counted = 2 * n_txs

AbsDiff(a, b) == LargerOf(a - b, b - a)

\* The last row describes the population it was taken from: the Gini coefficient, computed
\* by ranks, is the mean difference of two balances over twice the mean, and half of the
\* wallets hold no more than the median, half no less.
RowDescribesPopulation ==
    (phase # "activity" /\ cursor = 1 /\ repeats = 0 /\ metrics # << >>) =>
        LET row   == metrics[Len(metrics)]
            pairs == [p \in (DOMAIN wallets) \X (DOMAIN wallets) |->
                        AbsDiff(wallets[p[1]].balance, wallets[p[2]].balance)]
            AtMost(b)  == Cardinality({i \in DOMAIN wallets : wallets[i].balance <= b})
            AtLeast(b) == Cardinality({i \in DOMAIN wallets : wallets[i].balance >= b})
        IN  /\ row.gini[1] * 2 * Len(wallets) * Total(BalancesOf(wallets))
                  = row.gini[2] * Total(pairs)
            /\ wallets # << >> => /\ 2 * AtMost(row.median_balance) >= Len(wallets)
                                  /\ 2 * AtLeast(row.median_balance) >= Len(wallets)

\* The simulation ends, with one row per iteration, whatever is drawn: no loop waits for a
\* draw that moves coins.
Returns == <>(phase = "done" /\ Len(metrics) = MaxIterations)

=============================================================================
