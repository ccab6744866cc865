------------------------------- MODULE Economy ------------------------------
(***************************************************************************)
(* The economic iteration of aggora-economy (execute_iteration): a pure    *)
(* function from the wallets, the parameters and the system state to the   *)
(* new wallets and the IterationCommit that records what was done.         *)
(*                                                                         *)
(* Floating point.  A fraction (f64) is a whole number of 1/Scale, and     *)
(* (x as f64 * y).floor() as u64 is an integer division.  The logarithm    *)
(* of the penalty is taken to half a bit (LogScore): only the quotient of  *)
(* two logarithms is used, so the base does not matter.                    *)
(***************************************************************************)
EXTENDS Totals

CONSTANTS
    MaxU64,      \* the largest u64; small in a run, so that the edge is reached
    Scale,       \* the number of steps a fraction is divided into
    LogSteps     \* the largest value of LogScore

ASSUME MaxU64Assumption   == MaxU64 \in Nat \ {0}
ASSUME ScaleAssumption    == Scale \in Nat \ {0}
ASSUME LogStepsAssumption == LogSteps \in Nat

-----------------------------------------------------------------------------
(* u64 arithmetic, as the build without overflow checks does it.           *)

\* Mutant: the plain +, which leaves the range.
UncheckedAdd(a, b) == a + b

SatAdd(a, b) == IF a + b > MaxU64 THEN MaxU64 ELSE a + b

SatSub(a, b) == IF b > a THEN 0 ELSE a - b

SmallerOf(a, b) == IF a < b THEN a ELSE b

LargerOf(a, b) == IF a > b THEN a ELSE b

Clamp(x, lo, hi) == SmallerOf(LargerOf(x, lo), hi)

\* Iterator::sum over u64: wraps around.
SumU64(f) == Total(f) % (MaxU64 + 1)

\* (ratio * n as f64).floor() as u64, for a fraction of Scale-ths; the cast saturates.
Portion(ratio, n) == SmallerOf((ratio * n) \div Scale, MaxU64)

-----------------------------------------------------------------------------
(* Wallets.  An id is an arbitrary member of a user's key space, or the    *)
(* hash of "aggora-faucet:<iteration>:<idx>".                              *)

FaucetId(iteration, idx) == <<"aggora-faucet", iteration, idx>>

FaucetIds == {"aggora-faucet"} \X Nat \X Nat

NewWallet(amount, iteration) ==
    [balance                  |-> amount,
     nonce                    |-> 0,
     iteration_tx_count       |-> 0,
     iteration_counterparties |-> {},
     last_active_iteration    |-> iteration,
     activity_score           |-> Scale]

WalletRecord(ids) ==
    [balance                  : 0..MaxU64,
     nonce                    : Nat,
     iteration_tx_count       : Nat,
     iteration_counterparties : SUBSET ids,
     last_active_iteration    : Nat,
     activity_score           : Int]

\* The parameters that the economics read.  seed is initial_seed_agc in micro-AGC; the
\* exponent of the inverse balance weight is 0 or 1.
Parameters ==
    [seed                           : 0..MaxU64,
     penalty_rate                   : Nat,
     target_penalty_share_of_supply : Nat,
     burn_base                      : Int,
     burn_sensitivity               : Int,
     target_inflation_per_iter      : Int,
     burn_min                       : Nat,
     burn_max                       : Nat,
     faucet_share_of_penalty        : Nat,
     growth_factor_per_iteration    : Nat,
     max_new_wallets_per_iter       : Nat,
     residual_policy                : {"Burn", "GenesisWallet"},
     activity_min_tx_count          : Nat,
     activity_min_counterparties    : Nat,
     activity_ema_lambda            : Int,
     redistribution_active_min      : Int,
     redistribution_active_max      : Int,
     inverse_balance_weight         : BOOLEAN]

Balances(ws) == [w \in DOMAIN ws |-> ws[w].balance]

\* No amount of the column is larger; 0 for an empty column.
MaxBalance(column) ==
    IF DOMAIN column = {} THEN 0
    ELSE CHOOSE b \in 0..MaxU64 : /\ \E w \in DOMAIN column : column[w] = b
                                  /\ \A w \in DOMAIN column : column[w] <= b

-----------------------------------------------------------------------------
(* The burn rate reacts to the inflation of the previous iteration (D.4).  *)

Inflation(sys) ==
    IF sys.previous_iteration_start_supply > 0
    THEN (Scale * (sys.previous_iteration_supply - sys.previous_iteration_start_supply))
            \div sys.previous_iteration_start_supply
    ELSE 0

\* f64::clamp panics when its bounds are not in order.
Panics(p) == p.burn_min > p.burn_max

BurnRate(p, sys) ==
    Clamp(p.burn_base
            + (p.burn_sensitivity * (Inflation(sys) - p.target_inflation_per_iter)) \div Scale,
          p.burn_min, p.burn_max)

-----------------------------------------------------------------------------
(* Penalties: progressive in the balance, then calibrated to a share of    *)
(* the supply, never more than the wallet holds.                           *)

\* 2 * log2(1 + balance/seed), rounded up: 0 only for a balance of 0.
LogScore(balance, seed) ==
    Cardinality({k \in 0..(LogSteps - 1) : 2^k * seed^2 < (seed + balance)^2})

BasePenalty(ws, p, w) ==
    LET denominator == IF p.seed > 0 THEN LogScore(MaxBalance(Balances(ws)), p.seed) ELSE 0
        balance     == ws[w].balance
    IN  IF balance = 0 \/ denominator = 0
        THEN 0
        ELSE SmallerOf((p.penalty_rate * balance * LogScore(balance, p.seed))
                          \div (Scale * denominator), balance)

\* The raw penalties are more than 20% away from the target.
Deviates(total, target) ==
    /\ total > 0
    /\ target > 0
    /\ 5 * LargerOf(total - target, target - total) > target

Penalties(ws, p) ==
    LET base   == [w \in DOMAIN ws |-> BasePenalty(ws, p, w)]
        total  == SumU64(base)
        target == Portion(p.target_penalty_share_of_supply, SumU64(Balances(ws)))
    IN  [w \in DOMAIN ws |->
            IF Deviates(total, target)
            THEN SmallerOf((base[w] * target) \div total, ws[w].balance)
            ELSE base[w]]

-----------------------------------------------------------------------------
(* The penalty pool is allocated in priority order: faucet, burn, and the  *)
(* rest is redistributed.                                                  *)

PlannedNewWallets(p, n_wallets) ==
    SmallerOf(Portion(p.growth_factor_per_iteration, n_wallets), p.max_new_wallets_per_iter)

FaucetNeeded(p, n_wallets) ==
    SmallerOf(PlannedNewWallets(p, n_wallets) * p.seed, MaxU64)

FaucetFromPenalty(p, n_wallets, penalty_total) ==
    SmallerOf(SmallerOf(FaucetNeeded(p, n_wallets),
                        Portion(p.faucet_share_of_penalty, penalty_total)),
              penalty_total)

BurnedBase(p, n_wallets, penalty_total, beta) ==
    SmallerOf(Portion(beta, penalty_total),
              penalty_total - FaucetFromPenalty(p, n_wallets, penalty_total))

RedistributionPool(p, n_wallets, penalty_total, beta) ==
    penalty_total - FaucetFromPenalty(p, n_wallets, penalty_total)
                  - BurnedBase(p, n_wallets, penalty_total, beta)

FaucetFromMint(p, n_wallets, penalty_total) ==
    SatSub(FaucetNeeded(p, n_wallets), FaucetFromPenalty(p, n_wallets, penalty_total))

-----------------------------------------------------------------------------
(* Rewards: shares of the pool by activity and inverse balance.            *)

RawActivity(w, p) ==
    IF /\ w.iteration_tx_count >= p.activity_min_tx_count
       /\ Cardinality(w.iteration_counterparties) >= p.activity_min_counterparties
    THEN Scale
    ELSE 0

\* Mutant: the penalty is recorded and not deducted.
PenaltyNotDeducted(w, p, penalty) ==
    LET lambda == Clamp(p.activity_ema_lambda, 0, Scale)
    IN  [w EXCEPT
            !.activity_score = (lambda * RawActivity(w, p) + (Scale - lambda) * @) \div Scale]

\* A wallet after its penalty, with its activity averaged.
Penalised(w, p, penalty) ==
    LET lambda == Clamp(p.activity_ema_lambda, 0, Scale)
    IN  [w EXCEPT
            !.activity_score = (lambda * RawActivity(w, p) + (Scale - lambda) * @) \div Scale,
            !.balance        = SatSub(@, penalty)]

Weight(w, p) ==
    LET alpha   == p.redistribution_active_min
                     + ((p.redistribution_active_max - p.redistribution_active_min)
                           * Clamp(w.activity_score, 0, Scale)) \div Scale
        inverse == IF p.inverse_balance_weight THEN Scale \div (1 + w.balance) ELSE Scale
    IN  LargerOf(alpha, 0) * inverse

Shares(ws, p, pool) ==
    LET weights      == [w \in DOMAIN ws |-> Weight(ws[w], p)]
        total_weight == Total(weights)
    IN  [w \in DOMAIN ws |->
            IF pool > 0 /\ total_weight > 0 THEN (pool * weights[w]) \div total_weight ELSE 0]

\* A wallet after its reward, with its activity counters reset.
Rewarded(w, reward) ==
    [w EXCEPT !.balance = SatAdd(@, reward),
              !.iteration_tx_count = 0,
              !.iteration_counterparties = {}]

-----------------------------------------------------------------------------
(* execute_iteration.  first is the wallet with the smallest key of the    *)
(* wallets tree: ids are hashes, so it is an arbitrary wallet.             *)

\* Every wallet after its penalty.
Collect(ws, p, penalties) == [w \in DOMAIN ws |-> Penalised(ws[w], p, penalties[w])]

\* What rounding down leaves of the pool.
Residual(pool, shares) == SatSub(pool, SmallerOf(Total(shares), MaxU64))

\* The residual goes to the first wallet; without a wallet, or under ResidualPolicy::Burn,
\* it is burned.
PaysResidual(p, shares) == p.residual_policy = "GenesisWallet" /\ DOMAIN shares # {}

\* Mutant: the residual is neither paid nor burned.
RewardsWithoutResidual(p, first, shares, residual) == shares

Rewards(p, first, shares, residual) ==
    [w \in DOMAIN shares |->
        IF PaysResidual(p, shares) /\ w = first THEN SatAdd(shares[w], residual) ELSE shares[w]]

\* Every wallet after its reward.
Pay(ws, rewards) == [w \in DOMAIN ws |-> Rewarded(ws[w], rewards[w])]

Burned(p, shares, base, residual) ==
    IF PaysResidual(p, shares) THEN base ELSE SatAdd(base, residual)

FreshIds(iteration, planned) == {FaucetId(iteration, idx) : idx \in 0..(planned - 1)}

\* The faucet's wallets are added to the others.
AddFresh(ws, fresh, seed, iteration) ==
    [w \in DOMAIN ws \cup fresh |-> IF w \in fresh THEN NewWallet(seed, iteration) ELSE ws[w]]

ExecuteIteration(ws, p, sys, first) ==
    LET iteration_id == sys.current_iteration + 1
        n         == Cardinality(DOMAIN ws)
        beta      == BurnRate(p, sys)
        penalties == Penalties(ws, p)
        collected == SumU64(penalties)
        planned   == PlannedNewWallets(p, n)
        pool      == RedistributionPool(p, n, collected, beta)
        penalised == Collect(ws, p, penalties)
        shares    == Shares(penalised, p, pool)
        residual  == Residual(pool, shares)
        rewards   == Rewards(p, first, shares, residual)
        paid      == Pay(penalised, rewards)
        fresh     == FreshIds(iteration_id, planned)
    IN  [wallets   |-> AddFresh(paid, fresh, p.seed, iteration_id),
         n_wallets |-> n + planned,   \* the length of the vector: existing and fresh
         commit    |->
            [kind                |-> "iteration_commit",
             iteration_id        |-> iteration_id,
             snapshot_supply     |-> SumU64(Balances(ws)),
             inflation           |-> Inflation(sys),
             burn_rate           |-> beta,
             penalties           |-> penalties,
             rewards             |-> rewards,
             burned              |-> Burned(p, shares, BurnedBase(p, n, collected, beta), residual),
             faucet_from_penalty |-> FaucetFromPenalty(p, n, collected),
             faucet_from_mint    |-> FaucetFromMint(p, n, collected),
             new_wallets         |-> fresh,
             post_supply         |-> (Total(Balances(paid)) + planned * p.seed) % (MaxU64 + 1)]]

=============================================================================
