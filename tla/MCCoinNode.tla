----------------------------- MODULE MCCoinNode -----------------------------
(***************************************************************************)
(* Instances of CoinNode for TLC.                                          *)
(***************************************************************************)
EXTENDS CoinNode

CONSTANTS alice, bob

MCUsers == {alice, bob}

\* One new wallet for two; the residual goes to the first wallet.
Growing ==
    [seed |-> 3, penalty_rate |-> 4, target_penalty_share_of_supply |-> 2,
     burn_base |-> 1, burn_sensitivity |-> 4, target_inflation_per_iter |-> 0,
     burn_min |-> 0, burn_max |-> 3, faucet_share_of_penalty |-> 2,
     growth_factor_per_iteration |-> 2, max_new_wallets_per_iter |-> 1,
     residual_policy |-> "GenesisWallet", activity_min_tx_count |-> 1,
     activity_min_counterparties |-> 1, activity_ema_lambda |-> 4,
     redistribution_active_min |-> 1, redistribution_active_max |-> 4,
     inverse_balance_weight |-> FALSE]

MCParameterSets == {Growing}

\* A file with both users, and one whose second entry has an undecodable key.
Entry(id) == [id |-> id, amount |-> 2]
MCSeedFiles == {<<Entry(alice), Entry(bob)>>, <<Entry(alice), Entry(BadKey), Entry(bob)>>}

\* One user, with a faucet wallet to transfer to.
MCOneUser == {alice}
Doubling == [Growing EXCEPT !.growth_factor_per_iteration = 4]
MCDoubling == {Doubling}
\* A hot swap may install bounds of the burn rate that are not in order.
MCDisordered == {Doubling, [Doubling EXCEPT !.burn_min = 4]}
MCOneSeedFile == {<<Entry(alice), Entry(BadKey)>>}

=============================================================================
