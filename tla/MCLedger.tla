------------------------------ MODULE MCLedger ------------------------------
(***************************************************************************)
(* Instances of Ledger for TLC: two users, two parameter sets.             *)
(***************************************************************************)
EXTENDS Ledger, Functions, TLC

CONSTANTS alice, bob

MCUsers == {alice, bob}

\* Nothing in the ledger tells one user from the other.
Symmetry == Permutations(Users)

\* Half of every balance is taken at most; no growth; the residual is burned.
Lean ==
    [seed |-> 2, penalty_rate |-> 2, target_penalty_share_of_supply |-> 0,
     burn_base |-> 2, burn_sensitivity |-> 4, target_inflation_per_iter |-> 0,
     burn_min |-> 1, burn_max |-> 3, faucet_share_of_penalty |-> 2,
     growth_factor_per_iteration |-> 0, max_new_wallets_per_iter |-> 0,
     residual_policy |-> "Burn", activity_min_tx_count |-> 1,
     activity_min_counterparties |-> 1, activity_ema_lambda |-> 4,
     redistribution_active_min |-> 1, redistribution_active_max |-> 4,
     inverse_balance_weight |-> TRUE]

\* A new wallet for every two, calibrated penalties; the residual goes to the first wallet.
Growing ==
    [Lean EXCEPT !.seed = 3, !.penalty_rate = 4, !.target_penalty_share_of_supply = 3,
                 !.burn_base = 1, !.burn_min = 0, !.growth_factor_per_iteration = 2,
                 !.max_new_wallets_per_iter = 1, !.residual_policy = "GenesisWallet",
                 !.activity_ema_lambda = 2, !.inverse_balance_weight = FALSE]

MCParameterSets == {Lean, Growing}

\* Total is the sum of the community module, on every column of two or fewer small amounts.
ASSUME TotalIsSum ==
    \A S \in SUBSET (1..3) : \A f \in [S -> 0..3] : Total(f) = SumFunction(f)

=============================================================================
