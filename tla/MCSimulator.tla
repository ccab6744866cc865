----------------------------- MODULE MCSimulator -----------------------------
(***************************************************************************)
(* Instances of Simulator for TLC.                                         *)
(***************************************************************************)
EXTENDS Simulator

\* A new wallet for every two; the residual goes to the first wallet.
Growing ==
    [seed |-> 3, penalty_rate |-> 4, target_penalty_share_of_supply |-> 2,
     burn_base |-> 1, burn_sensitivity |-> 4, target_inflation_per_iter |-> 0,
     burn_min |-> 0, burn_max |-> 3, faucet_share_of_penalty |-> 2,
     growth_factor_per_iteration |-> 2, max_new_wallets_per_iter |-> 1,
     residual_policy |-> "GenesisWallet", activity_min_tx_count |-> 1,
     activity_min_counterparties |-> 1, activity_ema_lambda |-> 2,
     redistribution_active_min |-> 1, redistribution_active_max |-> 4,
     inverse_balance_weight |-> FALSE]

MCSimParameters == {Growing}

Spawn(at, count, balance) ==
    [action |-> "spawn_wallets", at_iteration |-> at, count |-> count, balance |-> balance]
Burst(at, n) == [action |-> "transfer_burst", at_iteration |-> at, n_txs |-> n]
ChargeOf(at, amount, n) ==
    [action |-> "charge_burst", at_iteration |-> at, amount |-> amount, n_targets |-> n]
Shock(at, fraction) == [action |-> "wealth_shock", at_iteration |-> at, fraction |-> fraction]
Unknown == [action |-> "unknown"]

\* Events in both iterations, of an iteration that never comes, and on populations too small
\* for them; a charge that does not divide evenly; a shock of more than everything.
MCScripts ==
    {<<Spawn(1, 1, << >>), Burst(1, 2), Shock(2, 5)>>,
     <<ChargeOf(1, 5, 2), Shock(1, 2), Spawn(2, 2, <<0>>), Burst(2, 1), Unknown>>,
     <<Burst(1, 1), ChargeOf(2, 3, 0), ChargeOf(2, 3, 1), Spawn(0, 1, <<3>>), Spawn(3, 1, <<3>>)>>}

MCPopulations == {<< >>, <<3>>, <<1, 4>>}

=============================================================================
