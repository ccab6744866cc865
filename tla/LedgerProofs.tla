---------------------------- MODULE LedgerProofs ----------------------------
(***************************************************************************)
(* Proofs about Ledger, for any users, amounts, parameters and bounds: the *)
(* type invariant, the PoH chain, the books that /stats serves, which are  *)
(* maintained incrementally and equal what a full scan would give, and the *)
(* history, which explains the supply and every balance.                   *)
(***************************************************************************)
EXTENDS Ledger, EconomyProofs

USE MaxU64Assumption, ScaleAssumption, LogStepsAssumption
USE UsersAssumption, ParametersAssumption, AmountsAssumption, MaxTickAssumption

(***************************************************************************)
(* The strengthening.  A wallet is never ahead of the iteration counter:   *)
(* neither in its activity, or the wallets of a new iteration would not    *)
(* start inactive, nor in its id, or the faucet could overwrite a wallet.  *)
(* The counter of wallets fits in a u64 as long as nothing saturated.      *)
(***************************************************************************)
NothingAhead ==
    /\ \A w \in DOMAIN wallets : wallets[w].last_active_iteration <= system.current_iteration
    /\ \A w \in DOMAIN wallets \cap FaucetIds : w[2] <= system.current_iteration

CountFits == ~saturated => system.n_wallets <= MaxU64

LedgerInv ==
    /\ TypeOK
    /\ PohChainValid
    /\ NothingAhead
    /\ CountFits
    /\ SupplyMatchesBalances
    /\ CountersMatchWallets

-----------------------------------------------------------------------------
(* Steps that all handlers have in common.                                 *)

\* append_tx_locked extends a valid chain to a valid chain, and the new head is an entry of it.
LEMMA AnchorExtendsChain ==
    ASSUME PohChainValid, system.current_tick \in Nat, NEW tx,
           poh' = Put(poh, system.current_tick + 1,
                      BuildEntry(system.current_tick + 1, system.last_poh_hash, tx)),
           system'.current_tick = system.current_tick + 1,
           system'.last_poh_hash = PohHash(system.last_poh_hash, system.current_tick + 1, tx)
    PROVE  /\ PohChainValid'
           /\ system'.last_poh_hash \in {poh'[t].hash : t \in DOMAIN poh'}
<1> DEFINE k == system.current_tick
           e == BuildEntry(k + 1, system.last_poh_hash, tx)
<1>1. /\ DOMAIN poh' = 1..(k + 1)
      /\ poh'[k + 1] = e
      /\ \A t \in 1..k : poh'[t] = poh[t]
  BY DEF Put, PohChainValid
<1>2. /\ e.tick = k + 1
      /\ e.prev_hash = system.last_poh_hash
      /\ e.tx = tx
      /\ e.hash = PohHash(system.last_poh_hash, k + 1, tx)
  BY DEF BuildEntry
<1> HIDE DEF e
<1> DEFINE before(t) == IF t = 1 THEN ZERO_HASH ELSE poh'[t - 1].hash
<1>3. before(k + 1) = system.last_poh_hash
  BY <1>1 DEF PohChainValid, HashBefore
<1>4. ASSUME NEW t \in 1..k PROVE before(t) = HashBefore(t)
  <2>1. CASE t = 1
    BY <2>1 DEF HashBefore
  <2>2. CASE t # 1
    <3>1. t - 1 \in 1..k
      BY <2>2
    <3> QED BY <2>2, <3>1, <1>1 DEF HashBefore
  <2> QED BY <2>1, <2>2
<1>5. \A t \in 1..k : poh'[t].tick = t /\ VerifyChain(before(t), poh'[t])
  <2> HIDE DEF before
  <2> QED BY <1>1, <1>4 DEF PohChainValid
<1>6. VerifyChain(before(k + 1), poh'[k + 1]) /\ poh'[k + 1].tick = k + 1
  BY <1>1, <1>2, <1>3 DEF VerifyChain
<1>7. system'.last_poh_hash = poh'[k + 1].hash
  BY <1>1, <1>2
<1>8. before(k + 2) = poh'[k + 1].hash
  OBVIOUS
<1>9. \A t \in 1..(k + 1) : poh'[t].tick = t /\ VerifyChain(before(t), poh'[t])
  <2> HIDE DEF before
  <2> QED BY <1>5, <1>6
<1>10. PohChainValid'
  <2>1. system'.last_poh_hash = before(system'.current_tick + 1)
    BY <1>7, <1>8
  <2>2. DOMAIN poh' = 1..system'.current_tick
    BY <1>1
  <2>3. \A t \in 1..system'.current_tick : poh'[t].tick = t /\ VerifyChain(before(t), poh'[t])
    BY <1>9
  <2> QED BY <2>1, <2>2, <2>3, Zenon DEF PohChainValid, HashBefore
<1> QED BY <1>1, <1>7, <1>10

\* The wallets active in the current iteration are counted by a number no larger than the wallets.
LEMMA ActiveCount ==
    ASSUME IsFiniteSet(DOMAIN wallets)
    PROVE  /\ IsFiniteSet(ActiveWallets)
           /\ Cardinality(ActiveWallets) \in Nat
           /\ Cardinality(DOMAIN wallets) \in Nat
           /\ Cardinality(ActiveWallets) <= Cardinality(DOMAIN wallets)
<1>1. ActiveWallets \subseteq DOMAIN wallets
  BY DEF ActiveWallets
<1> QED BY <1>1, FS_Subset, FS_CardinalityType

\* transfer and burn add exactly the wallets that the step makes active.
LEMMA SpendActivates ==
    ASSUME IsFiniteSet(DOMAIN wallets), NEW ids \in SUBSET DOMAIN wallets
    PROVE  /\ NewlyActive(ids) \in Nat
           /\ Cardinality(ActiveWallets \cup ids) = Cardinality(ActiveWallets) + NewlyActive(ids)
           /\ Cardinality(ActiveWallets \cup ids) <= Cardinality(DOMAIN wallets)
<1> DEFINE A == ActiveWallets
           B == {w \in ids : wallets[w].last_active_iteration # system.current_iteration}
<1>1. A \cup ids = A \cup B /\ A \cap B = {} /\ B \subseteq DOMAIN wallets
      /\ A \cup B \subseteq DOMAIN wallets
  BY DEF ActiveWallets
<1>2. IsFiniteSet(A) /\ IsFiniteSet(B) /\ Cardinality(A) \in Nat /\ Cardinality(B) \in Nat
  <2> HIDE DEF A, B
  <2>1. IsFiniteSet(B)
    BY <1>1, FS_Subset
  <2>2. IsFiniteSet(A) /\ Cardinality(A) \in Nat
    BY ActiveCount DEF A
  <2> QED BY <2>1, <2>2, FS_CardinalityType
<1>3. NewlyActive(ids) = Cardinality(B)
  BY DEF NewlyActive
<1>4. Cardinality(A \cup ids) = Cardinality(A \cup B) /\ Cardinality(A \cap B) = 0
  <2> HIDE DEF A, B
  <2>1. Cardinality(A \cap B) = Cardinality({})
    BY <1>1, Zenon
  <2>2. Cardinality(A \cup ids) = Cardinality(A \cup B)
    BY <1>1, Zenon
  <2> QED BY <2>1, <2>2, FS_EmptySet
<1>5. Cardinality(A \cup B) = Cardinality(A) + Cardinality(B)
  <2> HIDE DEF A, B
  <2>1. Cardinality(A \cup B) = Cardinality(A) + Cardinality(B) - Cardinality(A \cap B)
    BY <1>2, FS_Union
  <2> QED BY <1>2, <1>4, <2>1
<1>6. Cardinality(A \cup B) <= Cardinality(DOMAIN wallets)
  <2> HIDE DEF A, B
  <2> QED BY <1>1, FS_Subset
<1> HIDE DEF B
<1> QED BY <1>2, <1>3, <1>4, <1>5, <1>6

-----------------------------------------------------------------------------
(* The initial state.                                                      *)

\* open() on an empty store starts from an empty chain and empty books.
LEMMA InitLedgerInv == Init => LedgerInv
<1> SUFFICES ASSUME Init PROVE LedgerInv
  OBVIOUS
<1>1. /\ DOMAIN wallets = {} /\ DOMAIN poh = {} /\ saturated = FALSE /\ system = GenesisState
      /\ wallets = EmptyTree
  BY DEF Init, EmptyTree
<1>2. IsFiniteSet(DOMAIN wallets) /\ Cardinality(DOMAIN wallets) = 0
  <2>1. Cardinality(DOMAIN wallets) = Cardinality({})
    BY <1>1, Zenon
  <2> QED BY <1>1, <2>1, FS_EmptySet
<1>3. TypeOK
  <2>1. wallets \in [DOMAIN wallets -> WalletRecord(WalletId)]
    BY <1>1 DEF EmptyTree
  <2>2. system \in SystemRecord({ZERO_HASH} \cup {poh[t].hash : t \in DOMAIN poh})
    BY <1>1 DEF SystemRecord, GenesisState
  <2> QED BY <1>1, <1>2, <2>1, <2>2 DEF TypeOK, GenesisState
<1>4. PohChainValid
  BY <1>1 DEF PohChainValid, GenesisState, HashBefore
<1>5. NothingAhead /\ CountFits
  BY <1>1 DEF NothingAhead, CountFits, GenesisState
<1>6. SupplyMatchesBalances
  <2>1. Balances(wallets) \in [{} -> Nat]
    BY <1>1 DEF Balances
  <2>2. Units(Balances(wallets)) = {}
    BY <2>1 DEF Units
  <2>3. Total(Balances(wallets)) = Cardinality({})
    BY <2>2, Zenon DEF Total
  <2> QED BY <1>1, <2>3, FS_EmptySet DEF SupplyMatchesBalances, GenesisState
<1>7. CountersMatchWallets
  BY <1>1, <1>2, ActiveCount DEF CountersMatchWallets, GenesisState
<1> QED BY <1>3, <1>4, <1>5, <1>6, <1>7 DEF LedgerInv
-----------------------------------------------------------------------------
(* One lemma per handler: its step preserves the invariant.                *)

\* create_wallet and install_seed: the new wallet's balance enters the supply once, and the
\* wallet is counted once, as active.
LEMMA MintStep ==
    ASSUME LedgerInv, NEW id \in Users, ~Exists(id), Unlocked,
           NEW amount \in 0..MaxU64, NEW category, Mint(id, amount, category)
    PROVE  LedgerInv'
<1> DEFINE S  == DOMAIN wallets
           tx == MintTx(id, amount, system.current_tick + 1, category)
           H  == {ZERO_HASH} \cup {poh[t].hash : t \in DOMAIN poh}
<1>1. /\ IsFiniteSet(S) /\ S \subseteq WalletId /\ wallets \in [S -> WalletRecord(WalletId)]
      /\ system \in SystemRecord(H)
      /\ saturated \in BOOLEAN
  BY DEF LedgerInv, TypeOK
<1>2. id \notin S /\ id \in WalletId /\ id \notin FaucetIds
  BY DEF Exists, WalletId
<1>3. /\ wallets' = [w \in S \cup {id} |->
                        IF w = id THEN NewWallet(amount, system.current_iteration) ELSE wallets[w]]
      /\ saturated' = (saturated \/ system.total_supply + amount > MaxU64
                                 \/ system.n_wallets + 1 > MaxU64)
      /\ poh' = Put(poh, system.current_tick + 1,
                    BuildEntry(system.current_tick + 1, system.last_poh_hash, tx))
  BY DEF Mint, Put, Anchor, NextEntry
<1> HIDE DEF tx
<1>4. /\ system'.current_tick = system.current_tick + 1
      /\ system'.last_poh_hash = PohHash(system.last_poh_hash, system.current_tick + 1, tx)
      /\ system'.current_iteration = system.current_iteration
      /\ system'.total_supply = SatAdd(system.total_supply, amount)
      /\ system'.n_wallets = SatAdd(system.n_wallets, 1)
      /\ system'.n_active_wallets = SatAdd(system.n_active_wallets, 1)
      /\ system'.iteration_lock = system.iteration_lock
      /\ system' = [system EXCEPT !.current_tick = system'.current_tick,
                                  !.last_poh_hash = system'.last_poh_hash,
                                  !.total_supply = system'.total_supply,
                                  !.n_wallets = system'.n_wallets,
                                  !.n_active_wallets = system'.n_active_wallets]
  <2>1. system' = Ticked(AfterCreate(system, amount), tx)
    BY DEF Mint, tx
  <2> QED BY <1>1, <2>1 DEF Ticked, AfterCreate, NextEntry, BuildEntry, SystemRecord
<1>5. /\ system.current_tick \in Nat /\ system.current_iteration \in Nat
      /\ system.total_supply \in 0..MaxU64 /\ system.n_wallets \in Nat
      /\ system.n_active_wallets \in Nat
  BY <1>1 DEF SystemRecord
<1>6. /\ PohChainValid'
      /\ system'.last_poh_hash \in {poh'[t].hash : t \in DOMAIN poh'}
  BY <1>3, <1>4, <1>5, AnchorExtendsChain DEF LedgerInv
<1>7. /\ NewWallet(amount, system.current_iteration) \in WalletRecord(WalletId)
      /\ NewWallet(amount, system.current_iteration).balance = amount
      /\ NewWallet(amount, system.current_iteration).last_active_iteration
            = system.current_iteration
  BY <1>5 DEF NewWallet, WalletRecord
<1>8. /\ DOMAIN wallets' = S \cup {id}
      /\ IsFiniteSet(S \cup {id})
      /\ Cardinality(S \cup {id}) = Cardinality(S) + 1
      /\ wallets' \in [S \cup {id} -> WalletRecord(WalletId)]
      /\ \A w \in S : wallets'[w] = wallets[w]
      /\ wallets'[id].balance = amount
      /\ wallets'[id].last_active_iteration = system.current_iteration
  BY <1>1, <1>2, <1>3, <1>7, FS_AddElement
<1>9. TypeOK'
  <2>1. system' \in SystemRecord({ZERO_HASH} \cup {poh'[t].hash : t \in DOMAIN poh'})
    <3> DEFINE G == {ZERO_HASH} \cup {poh'[t].hash : t \in DOMAIN poh'}
    <3>1. system'.last_poh_hash \in G
      BY <1>6
    <3> HIDE DEF G, H
    <3>2. /\ system'.total_supply \in 0..MaxU64 /\ system'.n_wallets \in Nat
          /\ system'.n_active_wallets \in Nat /\ system'.current_tick \in Nat
      BY <1>4, <1>5 DEF SatAdd
    <3>3. system' \in SystemRecord(G)
      BY <1>1, <1>4, <3>1, <3>2 DEF SystemRecord
    <3> QED BY <3>3 DEF G
  <2> QED BY <1>1, <1>2, <1>3, <1>4, <1>8, <2>1 DEF TypeOK, LedgerInv
<1>10. NothingAhead'
  BY <1>2, <1>4, <1>5, <1>8 DEF NothingAhead, LedgerInv
<1>11. CountFits'
  BY <1>3, <1>4, <1>5 DEF CountFits, SatAdd
<1>12. SupplyMatchesBalances'
  <2> DEFINE f == Balances(wallets)
             g == Balances(wallets')
  <2>1. /\ f \in [S -> Nat] /\ g \in [S \cup {id} -> Nat]
        /\ \A w \in S : g[w] = f[w]
        /\ g[id] = amount
    BY <1>1, <1>8 DEF Balances, WalletRecord
  <2> HIDE DEF f, g
  <2>2. Total(g) = Total(f) + g[id]
    <3>1. IsFiniteSet(S) /\ id \notin S
      BY <1>1, <1>2
    <3> HIDE DEF S
    <3> QED BY <2>1, <3>1, TotalExtend
  <2>3. ~saturated' => system'.total_supply = system.total_supply + amount /\ ~saturated
    BY <1>3, <1>4, <1>5 DEF SatAdd
  <2>4. ~saturated => system.total_supply = Total(f)
    BY DEF LedgerInv, SupplyMatchesBalances, f
  <2>5. ~saturated' => system'.total_supply = Total(g)
    BY <2>1, <2>2, <2>3, <2>4
  <2> QED BY <2>5 DEF SupplyMatchesBalances, g
<1>13. CountersMatchWallets'
  <2>1. ActiveWallets' = ActiveWallets \cup {id} /\ id \notin ActiveWallets
    BY <1>2, <1>4, <1>8 DEF ActiveWallets
  <2>2. Cardinality(ActiveWallets \cup {id}) = Cardinality(ActiveWallets) + 1
    BY <1>1, <2>1, ActiveCount, FS_AddElement
  <2>3. Cardinality(ActiveWallets') = Cardinality(ActiveWallets \cup {id})
    BY <2>1, Zenon
  <2>4. Cardinality(DOMAIN wallets') = Cardinality(S \cup {id})
    BY <1>8, Zenon
  <2>5. ~saturated => /\ system.n_wallets = Cardinality(S)
                      /\ system.n_active_wallets = Cardinality(ActiveWallets)
    BY DEF LedgerInv, CountersMatchWallets
  <2>6. /\ Cardinality(ActiveWallets) \in Nat /\ Cardinality(S) \in Nat
        /\ Cardinality(ActiveWallets) <= Cardinality(S)
    BY <1>1, ActiveCount
  <2>7. ~saturated' => /\ system'.n_wallets = Cardinality(S) + 1
                       /\ system'.n_active_wallets = Cardinality(ActiveWallets) + 1
    <3> HIDE DEF S
    <3>1. SUFFICES ASSUME ~saturated'
                   PROVE  /\ system'.n_wallets = Cardinality(S) + 1
                          /\ system'.n_active_wallets = Cardinality(ActiveWallets) + 1
      OBVIOUS
    <3>2. ~saturated /\ ~(system.n_wallets + 1 > MaxU64)
      BY <1>3, <3>1, Zenon
    <3> QED BY <1>4, <1>5, <2>5, <2>6, <3>2 DEF SatAdd
  <2>8. ~saturated' => /\ system'.n_wallets = Cardinality(DOMAIN wallets')
                       /\ system'.n_active_wallets = Cardinality(ActiveWallets')
    BY <1>8, <2>2, <2>3, <2>4, <2>7
  <2> QED BY <2>8 DEF CountersMatchWallets
<1> QED BY <1>6, <1>9, <1>10, <1>11, <1>12, <1>13 DEF LedgerInv

\* What charge, transfer and burn have in common: no wallet is created, the wallets ids become
\* active and are counted, and the supply follows the balances unless a sum saturates.
Updates(tx, ids, supply, active) ==
    /\ ids \subseteq DOMAIN wallets
    /\ supply \in 0..MaxU64
    /\ active \in Nat
    /\ wallets' \in [DOMAIN wallets -> WalletRecord(WalletId)]
    /\ \A w \in ids : wallets'[w].last_active_iteration = system.current_iteration
    /\ \A w \in DOMAIN wallets \ ids :
          wallets'[w].last_active_iteration = wallets[w].last_active_iteration
    /\ system' = [system EXCEPT
                    !.current_tick = system.current_tick + 1,
                    !.last_poh_hash = PohHash(system.last_poh_hash, system.current_tick + 1, tx),
                    !.total_supply = supply,
                    !.n_active_wallets = active]
    /\ poh' = Put(poh, system.current_tick + 1,
                  BuildEntry(system.current_tick + 1, system.last_poh_hash, tx))
    /\ saturated' \in BOOLEAN
    /\ ~saturated' => /\ ~saturated
                      /\ supply = Total(Balances(wallets'))
                      /\ active = SatAdd(system.n_active_wallets, NewlyActive(ids))

\* Such a step preserves the invariant.
LEMMA UpdateStep ==
    ASSUME LedgerInv, NEW tx, NEW ids, NEW supply, NEW active,
           Updates(tx, ids, supply, active)
    PROVE  LedgerInv'
<1> USE DEF Updates
<1> DEFINE S == DOMAIN wallets
           H == {ZERO_HASH} \cup {poh[t].hash : t \in DOMAIN poh}
           G == {ZERO_HASH} \cup {poh'[t].hash : t \in DOMAIN poh'}
<1>1. /\ IsFiniteSet(S) /\ S \subseteq WalletId /\ wallets \in [S -> WalletRecord(WalletId)]
      /\ system \in SystemRecord(H)
      /\ ~system.iteration_lock
  BY DEF LedgerInv, TypeOK
<1>2. DOMAIN wallets' = S
  OBVIOUS
<1>3. /\ system.current_tick \in Nat /\ system.current_iteration \in Nat
      /\ system.n_active_wallets \in Nat /\ system.n_wallets \in Nat
  BY <1>1 DEF SystemRecord
<1>4. /\ system'.current_tick = system.current_tick + 1
      /\ system'.last_poh_hash = PohHash(system.last_poh_hash, system.current_tick + 1, tx)
      /\ system'.current_iteration = system.current_iteration
      /\ system'.total_supply = supply
      /\ system'.n_wallets = system.n_wallets
      /\ system'.n_active_wallets = active
      /\ system'.iteration_lock = system.iteration_lock
  BY <1>1 DEF SystemRecord
<1>5. PohChainValid' /\ system'.last_poh_hash \in {poh'[t].hash : t \in DOMAIN poh'}
  BY <1>3, <1>4, AnchorExtendsChain DEF LedgerInv
<1>6. TypeOK'
  <2>1. system'.last_poh_hash \in G
    BY <1>5
  <2>2. system' \in SystemRecord(G)
    <3>1. PohHash(system.last_poh_hash, system.current_tick + 1, tx) \in G
          /\ system.current_tick + 1 \in Nat
      BY <1>3, <1>4, <2>1
    <3> HIDE DEF G, H
    <3> QED BY <1>1, <3>1 DEF SystemRecord
  <2> QED BY <1>1, <1>2, <1>4, <2>2 DEF TypeOK
<1>7. NothingAhead'
  <2>1. \A w \in S : wallets'[w].last_active_iteration <= system.current_iteration
    BY <1>3 DEF LedgerInv, NothingAhead
  <2> QED BY <1>2, <1>4, <2>1 DEF LedgerInv, NothingAhead
<1>8. CountFits'
  BY <1>4 DEF LedgerInv, CountFits
<1>9. SupplyMatchesBalances'
  BY <1>4 DEF SupplyMatchesBalances
<1>10. CountersMatchWallets'
  <2>1. ActiveWallets' = ActiveWallets \cup ids
    BY <1>2, <1>4 DEF ActiveWallets
  <2>2. Cardinality(ActiveWallets') = Cardinality(ActiveWallets \cup ids)
        /\ Cardinality(DOMAIN wallets') = Cardinality(S)
    BY <1>2, <2>1, Zenon
  <2>3. /\ NewlyActive(ids) \in Nat
        /\ Cardinality(ActiveWallets \cup ids) = Cardinality(ActiveWallets) + NewlyActive(ids)
        /\ Cardinality(ActiveWallets \cup ids) <= Cardinality(S)
    BY <1>1, SpendActivates
  <2>4. ~saturated => /\ system.n_wallets = Cardinality(S)
                      /\ system.n_active_wallets = Cardinality(ActiveWallets)
                      /\ system.n_wallets <= MaxU64
    BY DEF LedgerInv, CountersMatchWallets, CountFits
  <2> HIDE DEF S
  <2>5. ~saturated' => /\ system'.n_wallets = Cardinality(S)
                       /\ system'.n_active_wallets = Cardinality(ActiveWallets \cup ids)
    BY <1>3, <1>4, <2>3, <2>4 DEF SatAdd
  <2> QED BY <2>2, <2>5 DEF CountersMatchWallets
<1> QED BY <1>5, <1>6, <1>7, <1>8, <1>9, <1>10 DEF LedgerInv

\* The balances of well-typed wallets, and the part of the invariant the handlers read.
LEMMA Readings ==
    ASSUME LedgerInv
    PROVE  /\ IsFiniteSet(DOMAIN wallets) /\ DOMAIN wallets \subseteq WalletId
           /\ wallets \in [DOMAIN wallets -> WalletRecord(WalletId)]
           /\ Balances(wallets) \in [DOMAIN wallets -> Nat]
           /\ system.current_tick \in Nat /\ system.current_iteration \in Nat
           /\ system.total_supply \in 0..MaxU64
           /\ system.n_active_wallets \in Nat /\ system.n_wallets \in Nat
           /\ saturated \in BOOLEAN
           /\ ~saturated => system.total_supply = Total(Balances(wallets))
<1>1. /\ IsFiniteSet(DOMAIN wallets) /\ DOMAIN wallets \subseteq WalletId
      /\ wallets \in [DOMAIN wallets -> WalletRecord(WalletId)]
      /\ saturated \in BOOLEAN
  BY DEF LedgerInv, TypeOK
<1>2. /\ system.current_tick \in Nat /\ system.current_iteration \in Nat
      /\ system.total_supply \in 0..MaxU64
      /\ system.n_active_wallets \in Nat /\ system.n_wallets \in Nat
  BY DEF LedgerInv, TypeOK, SystemRecord
<1>3. Balances(wallets) \in [DOMAIN wallets -> Nat]
  BY <1>1 DEF Balances, WalletRecord
<1> QED BY <1>1, <1>2, <1>3 DEF LedgerInv, SupplyMatchesBalances

\* charge: the supply grows by what the wallet receives.  The wallet's own saturating
\* addition cannot lose coins unless the supply's does: a balance is at most the supply.
LEMMA ChargeStep ==
    ASSUME LedgerInv, NEW id, NEW amount \in 0..MaxU64, Charge(id, amount)
    PROVE  LedgerInv'
<1> DEFINE S  == DOMAIN wallets
           tx == MintTx(id, amount, system.current_tick + 1, "charge")
           f  == Balances(wallets)
           g  == Balances(wallets')
           supply == SatAdd(system.total_supply, amount)
<1>1. /\ id \in S
      /\ wallets' = [wallets EXCEPT ![id].balance = SatAdd(@, amount)]
      /\ system' = Ticked([system EXCEPT !.total_supply = SatAdd(@, amount)], tx)
      /\ saturated' = (saturated \/ system.total_supply + amount > MaxU64)
      /\ poh' = Put(poh, system.current_tick + 1,
                    BuildEntry(system.current_tick + 1, system.last_poh_hash, tx))
  BY DEF Charge, Exists, Anchor, NextEntry
<1> HIDE DEF tx
<1>2. system' = [system EXCEPT
                  !.current_tick = system.current_tick + 1,
                  !.last_poh_hash = PohHash(system.last_poh_hash, system.current_tick + 1, tx),
                  !.total_supply = supply,
                  !.n_active_wallets = system.n_active_wallets]
  BY <1>1 DEF LedgerInv, TypeOK, SystemRecord, Ticked, NextEntry, BuildEntry
<1>3. supply \in 0..MaxU64 /\ SatAdd(wallets[id].balance, amount) \in 0..MaxU64
  BY <1>1, Readings DEF SatAdd, WalletRecord
<1>4. /\ wallets' \in [S -> WalletRecord(WalletId)]
      /\ \A w \in S : wallets'[w].last_active_iteration = wallets[w].last_active_iteration
      /\ \A w \in S \ {id} : wallets'[w].balance = wallets[w].balance
      /\ wallets'[id].balance = SatAdd(wallets[id].balance, amount)
  BY <1>1, <1>3, Readings DEF WalletRecord
<1>5. saturated' \in BOOLEAN /\ (~saturated' => ~saturated)
      /\ (~saturated' => ~(system.total_supply + amount > MaxU64))
  BY <1>1, Zenon
<1>6. ~saturated' => supply = Total(g)
  <2>1. /\ f \in [S -> Nat] /\ g \in [S -> Nat]
        /\ \A w \in S \ {id} : g[w] = f[w]
        /\ f[id] = wallets[id].balance
        /\ g[id] = SatAdd(f[id], amount)
        /\ IsFiniteSet(S)
    BY <1>1, <1>4, Readings DEF Balances, WalletRecord
  <2>2. ~saturated => system.total_supply = Total(f)
    BY Readings
  <2>3. system.total_supply \in 0..MaxU64
    BY Readings
  <2> HIDE DEF S, f, g
  <2>4. Total(g) = Total(f) - f[id] + g[id]
    BY <1>1, <2>1, TotalUpdate
  <2>5. f[id] <= Total(f) /\ Total(f) \in Nat /\ f[id] \in Nat
    BY <1>1, <2>1, TotalBound, TotalType
  <2> QED BY <1>5, <2>1, <2>2, <2>3, <2>4, <2>5 DEF SatAdd
<1>7. NewlyActive({}) = 0
  <2>1. NewlyActive({}) = Cardinality({})
    BY Zenon DEF NewlyActive
  <2> QED BY <2>1, FS_EmptySet
<1>8. ~saturated' => system.n_active_wallets = SatAdd(system.n_active_wallets, NewlyActive({}))
  <2>1. ~saturated => /\ system.n_active_wallets = Cardinality(ActiveWallets)
                      /\ system.n_wallets = Cardinality(S)
                      /\ system.n_wallets <= MaxU64
    BY DEF LedgerInv, CountersMatchWallets, CountFits
  <2>2. Cardinality(ActiveWallets) \in Nat /\ Cardinality(ActiveWallets) <= Cardinality(S)
        /\ Cardinality(S) \in Nat
    BY Readings, ActiveCount
  <2> HIDE DEF S
  <2> QED BY <1>5, <1>7, <2>1, <2>2 DEF SatAdd
<1>9. system.n_active_wallets \in Nat
  BY Readings
<1>10. Updates(tx, {}, supply, system.n_active_wallets)
  <2> HIDE DEF supply
  <2> QED BY <1>1, <1>2, <1>3, <1>4, <1>5, <1>6, <1>8, <1>9 DEF Updates
<1> QED BY <1>10, UpdateStep

\* The sender of a transfer or a burn stays a well-typed wallet.
LEMMA SpentType ==
    ASSUME NEW ids, NEW w \in WalletRecord(ids), NEW amount \in 0..MaxU64, w.balance >= amount,
           NEW c \in SUBSET ids, NEW it \in Nat
    PROVE  /\ Spent(w, amount, c, it) \in WalletRecord(ids)
           /\ Spent(w, amount, c, it).balance = w.balance - amount
           /\ Spent(w, amount, c, it).last_active_iteration = it
<1>1. /\ w.balance \in 0..MaxU64 /\ w.nonce \in Nat /\ w.iteration_tx_count \in Nat
      /\ w.iteration_counterparties \in SUBSET ids
  BY DEF WalletRecord
<1>2. /\ w.balance - amount \in 0..MaxU64 /\ w.nonce + 1 \in Nat /\ w.iteration_tx_count + 1 \in Nat
      /\ w.iteration_counterparties \cup c \in SUBSET ids
  BY <1>1
<1> DEFINE cs == w.iteration_counterparties \cup c
           b  == w.balance - amount
           n  == w.nonce + 1
           k  == w.iteration_tx_count + 1
<1>3. Spent(w, amount, c, it) = [w EXCEPT !.balance = b, !.nonce = n, !.iteration_tx_count = k,
                                          !.iteration_counterparties = cs,
                                          !.last_active_iteration = it]
  BY DEF Spent
<1>4. cs \in SUBSET ids /\ b \in 0..MaxU64 /\ n \in Nat /\ k \in Nat
  BY <1>2
<1> HIDE DEF cs, b, n, k
<1>5. /\ Spent(w, amount, c, it) \in WalletRecord(ids)
      /\ Spent(w, amount, c, it).balance = b
      /\ Spent(w, amount, c, it).last_active_iteration = it
  BY <1>3, <1>4 DEF WalletRecord
<1> QED BY <1>5 DEF b

\* The recipient of a transfer stays a well-typed wallet.
LEMMA ReceivedType ==
    ASSUME NEW ids, NEW w \in WalletRecord(ids), NEW amount \in 0..MaxU64,
           NEW c \in ids, NEW it \in Nat
    PROVE  /\ Received(w, amount, c, it) \in WalletRecord(ids)
           /\ Received(w, amount, c, it).balance = SatAdd(w.balance, amount)
           /\ Received(w, amount, c, it).last_active_iteration = it
<1>1. /\ w.balance \in 0..MaxU64 /\ w.iteration_tx_count \in Nat
      /\ w.iteration_counterparties \in SUBSET ids
  BY DEF WalletRecord
<1> DEFINE cs == w.iteration_counterparties \cup {c}
           b  == SatAdd(w.balance, amount)
           k  == w.iteration_tx_count + 1
<1>2. Received(w, amount, c, it) = [w EXCEPT !.balance = b, !.iteration_tx_count = k,
                                             !.iteration_counterparties = cs,
                                             !.last_active_iteration = it]
  BY DEF Received
<1>3. cs \in SUBSET ids /\ b \in 0..MaxU64 /\ k \in Nat
  BY <1>1 DEF SatAdd
<1> HIDE DEF cs, b, k
<1>4. /\ Received(w, amount, c, it) \in WalletRecord(ids)
      /\ Received(w, amount, c, it).balance = b
      /\ Received(w, amount, c, it).last_active_iteration = it
  BY <1>2, <1>3 DEF WalletRecord
<1> QED BY <1>4 DEF b

\* burn: the sender's coins leave the supply, which holds at least as many.
LEMMA BurnStep ==
    ASSUME LedgerInv, NEW from, NEW amount \in 0..MaxU64, NEW nonce, Burn(from, amount, nonce)
    PROVE  LedgerInv'
<1> DEFINE S  == DOMAIN wallets
           tx == BurnTx(from, amount, nonce)
           f  == Balances(wallets)
           g  == Balances(wallets')
           supply == SatSub(system.total_supply, amount)
           active == SatAdd(system.n_active_wallets, NewlyActive({from}))
<1>1. /\ from \in S
      /\ wallets[from].balance >= amount
      /\ wallets' = [wallets EXCEPT ![from] = Spent(@, amount, {}, system.current_iteration)]
      /\ system' = [Ticked([system EXCEPT !.total_supply = SatSub(@, amount)], tx) EXCEPT
                      !.n_active_wallets = SatAdd(@, NewlyActive({from}))]
      /\ saturated' = saturated
      /\ poh' = Put(poh, system.current_tick + 1,
                    BuildEntry(system.current_tick + 1, system.last_poh_hash, tx))
  BY DEF Burn, Exists, Anchor, NextEntry, MaySpend
<1> HIDE DEF tx
<1>2. system' = [system EXCEPT
                  !.current_tick = system.current_tick + 1,
                  !.last_poh_hash = PohHash(system.last_poh_hash, system.current_tick + 1, tx),
                  !.total_supply = supply,
                  !.n_active_wallets = active]
  BY <1>1 DEF LedgerInv, TypeOK, SystemRecord, Ticked, NextEntry, BuildEntry
<1>3. /\ wallets[from] \in WalletRecord(WalletId)
      /\ system.current_iteration \in Nat
      /\ NewlyActive({from}) \in Nat
  BY <1>1, Readings, SpendActivates
<1>4. supply \in 0..MaxU64 /\ active \in Nat
  BY <1>3, Readings DEF SatAdd, SatSub
<1>5. /\ Spent(wallets[from], amount, {}, system.current_iteration) \in WalletRecord(WalletId)
      /\ Spent(wallets[from], amount, {}, system.current_iteration).balance
            = wallets[from].balance - amount
      /\ Spent(wallets[from], amount, {}, system.current_iteration).last_active_iteration
            = system.current_iteration
  BY <1>1, <1>3, SpentType
<1>6. /\ wallets' \in [S -> WalletRecord(WalletId)]
      /\ \A w \in S \ {from} : wallets'[w] = wallets[w]
      /\ wallets'[from].balance = wallets[from].balance - amount
      /\ wallets'[from].last_active_iteration = system.current_iteration
  BY <1>1, <1>5, Readings
<1>7. saturated' \in BOOLEAN /\ (~saturated' => ~saturated)
  BY <1>1, Readings
<1>8. ~saturated' => supply = Total(g)
  <2>1. /\ f \in [S -> Nat] /\ g \in [S -> Nat]
        /\ \A w \in S \ {from} : g[w] = f[w]
        /\ f[from] >= amount
        /\ g[from] = f[from] - amount
        /\ IsFiniteSet(S)
    BY <1>1, <1>6, Readings DEF Balances, WalletRecord
  <2>2. ~saturated => system.total_supply = Total(f)
    BY Readings
  <2> HIDE DEF S, f, g
  <2>3. Total(g) = Total(f) - f[from] + g[from]
    BY <1>1, <2>1, TotalUpdate
  <2>4. f[from] <= Total(f) /\ Total(f) \in Nat /\ f[from] \in Nat
    BY <1>1, <2>1, TotalBound, TotalType
  <2> QED BY <1>7, <2>1, <2>2, <2>3, <2>4 DEF SatSub
<1>9. Updates(tx, {from}, supply, active)
  <2> HIDE DEF supply
  <2> QED BY <1>1, <1>2, <1>4, <1>6, <1>7, <1>8 DEF Updates
<1> QED BY <1>9, UpdateStep

\* transfer: what the sender loses the recipient gains, so the supply stays.
LEMMA TransferStep ==
    ASSUME LedgerInv, NEW from, NEW to, NEW amount \in 0..MaxU64, NEW nonce,
           Transfer(from, to, amount, nonce)
    PROVE  LedgerInv'
<1> DEFINE S  == DOMAIN wallets
           it == system.current_iteration
           tx == TransferTx(from, to, amount, nonce)
           f  == Balances(wallets)
           g  == Balances(wallets')
           sender    == Spent(wallets[from], amount, {to}, it)
           recipient == Received(wallets[to], amount, from, it)
           active == SatAdd(system.n_active_wallets, NewlyActive({from, to}))
<1>1. /\ from \in S /\ to \in S /\ from # to
      /\ wallets[from].balance >= amount
      /\ wallets' = [wallets EXCEPT ![from] = Spent(@, amount, {to}, it),
                                    ![to]   = Received(@, amount, from, it)]
      /\ system' = [Ticked(system, tx) EXCEPT
                      !.n_active_wallets = SatAdd(@, NewlyActive({from, to}))]
      /\ saturated' = (saturated \/ wallets[to].balance + amount > MaxU64)
      /\ poh' = Put(poh, system.current_tick + 1,
                    BuildEntry(system.current_tick + 1, system.last_poh_hash, tx))
  BY DEF Transfer, Exists, Anchor, NextEntry, MaySpend
<1> HIDE DEF tx
<1>2. system' = [system EXCEPT
                  !.current_tick = system.current_tick + 1,
                  !.last_poh_hash = PohHash(system.last_poh_hash, system.current_tick + 1, tx),
                  !.total_supply = system.total_supply,
                  !.n_active_wallets = active]
  BY <1>1 DEF LedgerInv, TypeOK, SystemRecord, Ticked, NextEntry, BuildEntry
<1>3. /\ wallets[from] \in WalletRecord(WalletId) /\ wallets[to] \in WalletRecord(WalletId)
      /\ it \in Nat
      /\ from \in WalletId /\ to \in WalletId
      /\ NewlyActive({from, to}) \in Nat
  BY <1>1, Readings, SpendActivates
<1>4. system.total_supply \in 0..MaxU64 /\ active \in Nat
  BY <1>3, Readings DEF SatAdd
<1>5. /\ sender \in WalletRecord(WalletId)
      /\ sender.balance = wallets[from].balance - amount
      /\ sender.last_active_iteration = it
  BY <1>1, <1>3, SpentType
<1>6. /\ recipient \in WalletRecord(WalletId)
      /\ recipient.balance = SatAdd(wallets[to].balance, amount)
      /\ recipient.last_active_iteration = it
  <2> DEFINE w == wallets[to]
  <2>1. w \in WalletRecord(WalletId) /\ from \in WalletId /\ it \in Nat
    BY <1>3
  <2> HIDE DEF w, it
  <2>2. /\ Received(w, amount, from, it) \in WalletRecord(WalletId)
        /\ Received(w, amount, from, it).balance = SatAdd(w.balance, amount)
        /\ Received(w, amount, from, it).last_active_iteration = it
    BY <2>1, ReceivedType
  <2> QED BY <2>2 DEF w
<1>7. /\ wallets' \in [S -> WalletRecord(WalletId)]
      /\ \A w \in S \ {from, to} : wallets'[w] = wallets[w]
      /\ wallets'[from] = sender
      /\ wallets'[to] = recipient
  <2>1. wallets' = [wallets EXCEPT ![from] = sender, ![to] = recipient]
    BY <1>1
  <2> HIDE DEF sender, recipient
  <2> QED BY <1>1, <1>5, <1>6, <2>1, Readings
<1>8. /\ saturated' \in BOOLEAN
      /\ ~saturated' => ~saturated
      /\ ~saturated' => ~(wallets[to].balance + amount > MaxU64)
  BY <1>1, Zenon
<1>9. ~saturated' => system.total_supply = Total(g)
  <2>1. /\ f \in [S -> Nat] /\ g \in [S -> Nat]
        /\ \A w \in S \ {from, to} : g[w] = f[w]
        /\ f[from] >= amount
        /\ f[to] = wallets[to].balance
        /\ g[from] = f[from] - amount
        /\ g[to] = SatAdd(f[to], amount)
        /\ IsFiniteSet(S)
    <3> HIDE DEF sender, recipient
    <3> QED BY <1>1, <1>5, <1>6, <1>7, Readings DEF Balances, WalletRecord
  <2>2. ~saturated => system.total_supply = Total(f)
    BY Readings
  <2> DEFINE h == [f EXCEPT ![from] = g[from]]
  <2> HIDE DEF S, f, g
  <2>3. /\ h \in [S -> Nat] /\ h[from] = g[from] /\ h[to] = f[to]
        /\ \A w \in S \ {from} : h[w] = f[w]
        /\ \A w \in S \ {to} : g[w] = h[w]
    BY <1>1, <2>1
  <2> HIDE DEF h
  <2>4. Total(h) = Total(f) - f[from] + h[from]
    BY <1>1, <2>1, <2>3, TotalUpdate
  <2>5. Total(g) = Total(h) - h[to] + g[to]
    BY <1>1, <2>1, <2>3, TotalUpdate
  <2>6. Total(f) \in Nat /\ f[from] \in Nat /\ f[to] \in Nat
    BY <1>1, <2>1, TotalType
  <2> QED BY <1>8, <2>1, <2>2, <2>3, <2>4, <2>5, <2>6 DEF SatAdd
<1>10. Updates(tx, {from, to}, system.total_supply, active)
  <2> HIDE DEF sender, recipient
  <2> QED BY <1>1, <1>2, <1>4, <1>5, <1>6, <1>7, <1>8, <1>9 DEF Updates
<1> QED BY <1>10, UpdateStep

\* execute_iteration_now: the supply becomes the sum of the new balances, the wallets of the
\* faucet are counted, and only they are active in the iteration that starts.
LEMMA IterationStep ==
    ASSUME LedgerInv, NEW p \in ParameterSets, NEW first, ExecuteIterationNow(p, first)
    PROVE  LedgerInv'
<1> DEFINE S  == DOMAIN wallets
           it == system.current_iteration + 1
           r  == ExecuteIteration(wallets, p, system, first)
           tx == r.commit
           F  == r.commit.new_wallets
           H  == {ZERO_HASH} \cup {poh[t].hash : t \in DOMAIN poh}
           G  == {ZERO_HASH} \cup {poh'[t].hash : t \in DOMAIN poh'}
<1>1. /\ wallets' = r.wallets
      /\ system' = Ticked(Committed(system, r), tx)
      /\ poh' = Put(poh, system.current_tick + 1,
                    BuildEntry(system.current_tick + 1, system.last_poh_hash, tx))
      /\ saturated' = (saturated \/ IterationOverflows(r))
  BY DEF ExecuteIterationNow, Anchor, NextEntry
<1>2. /\ IsFiniteSet(S) /\ S \subseteq WalletId /\ wallets \in [S -> WalletRecord(WalletId)]
      /\ system \in SystemRecord(H) /\ saturated \in BOOLEAN
  BY DEF LedgerInv, TypeOK
<1>3. /\ system.current_tick \in Nat /\ system.current_iteration \in Nat /\ it \in Nat
      /\ system.previous_iteration_supply \in Nat
      /\ system.previous_iteration_start_supply \in Nat
  BY <1>2 DEF SystemRecord
<1>4. \A idx \in Nat : FaucetId(system.current_iteration + 1, idx) \notin S
  <2> SUFFICES ASSUME NEW idx \in Nat, FaucetId(system.current_iteration + 1, idx) \in S
               PROVE  FALSE
    OBVIOUS
  <2> DEFINE w == FaucetId(system.current_iteration + 1, idx)
  <2>1. w \in FaucetIds /\ w[2] = system.current_iteration + 1
    BY <1>3 DEF FaucetId, FaucetIds
  <2>2. w[2] <= system.current_iteration
    BY <2>1 DEF LedgerInv, NothingAhead
  <2> QED BY <1>3, <2>1, <2>2
<1>5. p \in Parameters
  OBVIOUS
<1>6. /\ IsFiniteSet(F) /\ F \subseteq FaucetIds /\ S \cap F = {}
      /\ F = FreshIds(it, PlannedNewWallets(p, Cardinality(S)))
      /\ r.wallets \in [S \cup F -> WalletRecord(WalletId)]
      /\ \A w \in S : r.wallets[w].last_active_iteration = wallets[w].last_active_iteration
      /\ \A w \in F : r.wallets[w] = NewWallet(p.seed, it)
      /\ r.n_wallets = Cardinality(S \cup F)
      /\ tx.iteration_id = it
      /\ tx.inflation \in Int
      /\ tx.snapshot_supply \in 0..MaxU64
      /\ tx.post_supply = Total(Balances(r.wallets)) % (MaxU64 + 1)
      /\ Total(Balances(r.wallets)) \in Nat
  <2>1. LET q == ExecuteIteration(wallets, p, system, first)
            K == q.commit.new_wallets
        IN  /\ IsFiniteSet(K) /\ K \subseteq FaucetIds /\ S \cap K = {}
            /\ K = FreshIds(system.current_iteration + 1, PlannedNewWallets(p, Cardinality(S)))
            /\ q.wallets \in [S \cup K -> WalletRecord(WalletId)]
            /\ \A w \in S : /\ q.wallets[w].nonce = wallets[w].nonce
                            /\ q.wallets[w].last_active_iteration = wallets[w].last_active_iteration
            /\ \A w \in K : q.wallets[w] = NewWallet(p.seed, system.current_iteration + 1)
            /\ q.n_wallets = Cardinality(S \cup K)
            /\ q.commit.iteration_id = system.current_iteration + 1
            /\ q.commit.inflation \in Int
            /\ q.commit.snapshot_supply \in 0..MaxU64
            /\ q.commit.post_supply = Total(Balances(q.wallets)) % (MaxU64 + 1)
            /\ Total(Balances(q.wallets)) \in Nat
    <3> HIDE DEF S
    <3> QED BY <1>2, <1>3, <1>4, <1>5, IterationFacts, Zenon
  <2> QED BY <2>1, Zenon
<1> HIDE DEF r, it
<1>7. /\ IsFiniteSet(S \cup F)
      /\ Cardinality(S \cup F) \in Nat /\ Cardinality(F) \in Nat
      /\ tx.post_supply \in 0..MaxU64
  <2>1. IsFiniteSet(S \cup F)
    BY <1>2, <1>6, FS_Union
  <2> QED BY <1>6, <2>1, FS_CardinalityType
<1>8. system' = [system EXCEPT
                  !.total_supply = tx.post_supply,
                  !.n_wallets = r.n_wallets,
                  !.n_active_wallets = Cardinality(F),
                  !.current_iteration = it,
                  !.iteration_started_at = system.current_tick,
                  !.previous_iteration_start_supply = tx.snapshot_supply,
                  !.previous_iteration_supply = tx.post_supply,
                  !.last_inflation = tx.inflation,
                  !.iteration_lock = FALSE,
                  !.current_tick = system.current_tick + 1,
                  !.last_poh_hash = PohHash(system.last_poh_hash, system.current_tick + 1, tx)]
  BY <1>1, <1>2, <1>6 DEF Committed, Ticked, NextEntry, BuildEntry, SystemRecord
<1>9. /\ system'.current_tick = system.current_tick + 1
      /\ system'.last_poh_hash = PohHash(system.last_poh_hash, system.current_tick + 1, tx)
      /\ system'.current_iteration = it
      /\ system'.total_supply = tx.post_supply
      /\ system'.n_wallets = r.n_wallets
      /\ system'.n_active_wallets = Cardinality(F)
      /\ system'.iteration_lock = FALSE
  BY <1>2, <1>8 DEF SystemRecord
<1>10. PohChainValid' /\ system'.last_poh_hash \in {poh'[t].hash : t \in DOMAIN poh'}
  BY <1>1, <1>3, <1>9, AnchorExtendsChain DEF LedgerInv
<1>11. DOMAIN wallets' = S \cup F /\ S \cup F \subseteq WalletId
  BY <1>1, <1>2, <1>6 DEF WalletId
<1>12. /\ saturated' \in BOOLEAN
       /\ ~saturated' => ~saturated
       /\ ~saturated' => ~(Total(Balances(r.wallets)) > MaxU64)
       /\ ~saturated' => ~(r.n_wallets > MaxU64)
  BY <1>1, <1>2, Zenon DEF IterationOverflows
<1>13. TypeOK'
  <2>1. system' \in SystemRecord(G)
    <3>1. PohHash(system.last_poh_hash, system.current_tick + 1, tx) \in G
          /\ system.current_tick + 1 \in Nat
      BY <1>3, <1>9, <1>10
    <3> DEFINE hash == PohHash(system.last_poh_hash, system.current_tick + 1, tx)
               nF == Cardinality(F)
    <3>2. hash \in G /\ nF \in Nat /\ r.n_wallets \in Nat
      BY <1>6, <1>7, <3>1
    <3> HIDE DEF G, H, tx, hash, nF
    <3> QED BY <1>2, <1>3, <1>6, <1>7, <1>8, <3>1, <3>2 DEF SystemRecord, nF, hash
  <2> QED BY <1>1, <1>6, <1>7, <1>9, <1>11, <1>12, <2>1 DEF TypeOK
<1>14. /\ \A w \in S : wallets'[w].last_active_iteration < it
       /\ \A w \in F : wallets'[w].last_active_iteration = it
  <2>1. \A w \in S : wallets[w].last_active_iteration <= system.current_iteration
                     /\ wallets[w].last_active_iteration \in Nat
    BY <1>2 DEF LedgerInv, NothingAhead, WalletRecord
  <2>2. NewWallet(p.seed, it).last_active_iteration = it
    BY DEF NewWallet
  <2>3. system.current_iteration < it
    BY <1>3 DEF it
  <2> QED BY <1>1, <1>3, <1>6, <2>1, <2>2, <2>3
<1>15. NothingAhead'
  <2>1. \A w \in S \cup F : wallets'[w].last_active_iteration <= it
    <3>1. \A w \in S : wallets'[w].last_active_iteration \in Nat
      BY <1>1, <1>6 DEF WalletRecord
    <3> QED BY <1>3, <1>14, <3>1
  <2>2. \A w \in F : w[2] = it
    BY <1>6 DEF FreshIds, FaucetId
  <2>3. \A w \in S \cap FaucetIds : w[2] <= it
    <3>1. \A w \in FaucetIds : w[2] \in Nat
      BY DEF FaucetIds
    <3> QED BY <1>3, <3>1 DEF LedgerInv, NothingAhead, it
  <2>4. \A w \in (S \cup F) \cap FaucetIds : w[2] <= it
    BY <1>3, <2>2, <2>3
  <2> QED BY <1>9, <1>11, <2>1, <2>4 DEF NothingAhead
<1>16. CountFits'
  BY <1>6, <1>7, <1>9, <1>12 DEF CountFits
<1>17. SupplyMatchesBalances'
  <2>1. ~saturated' => tx.post_supply = Total(Balances(r.wallets))
    BY <1>6, <1>12
  <2> QED BY <1>1, <1>9, <2>1 DEF SupplyMatchesBalances
<1>18. CountersMatchWallets'
  <2>1. ActiveWallets' = F
    <3>1. \A w \in S : wallets'[w].last_active_iteration # it
      <4>1. \A w \in S : wallets'[w].last_active_iteration \in Nat
        BY <1>1, <1>6 DEF WalletRecord
      <4> QED BY <1>3, <1>14, <4>1
    <3> QED BY <1>9, <1>11, <1>14, <3>1 DEF ActiveWallets
  <2>2. /\ Cardinality(ActiveWallets') = Cardinality(F)
        /\ Cardinality(DOMAIN wallets') = Cardinality(S \cup F)
    BY <1>11, <2>1, Zenon
  <2> QED BY <1>6, <1>9, <2>2 DEF CountersMatchWallets
<1> QED BY <1>10, <1>13, <1>15, <1>16, <1>17, <1>18 DEF LedgerInv

-----------------------------------------------------------------------------
(* The theorems.                                                           *)

\* Every step of every handler preserves the invariant.
LEMMA NextLedgerInv == LedgerInv /\ [Next]_vars => LedgerInv'
<1> SUFFICES ASSUME LedgerInv, [Next]_vars PROVE LedgerInv'
  OBVIOUS
<1>1. ASSUME NEW id \in Users, NEW p \in ParameterSets, CreateWallet(id, p) PROVE LedgerInv'
  <2>1. p.seed \in 0..MaxU64
    BY DEF Parameters
  <2> QED BY <1>1, <2>1, MintStep DEF CreateWallet
<1>2. ASSUME NEW id \in Users, NEW amount \in Amounts, InstallSeedEntry(id, amount) PROVE LedgerInv'
  BY <1>2, MintStep DEF InstallSeedEntry
<1>3. ASSUME NEW id \in DOMAIN wallets, NEW amount \in Amounts, Charge(id, amount) PROVE LedgerInv'
  BY <1>3, ChargeStep
<1>4. ASSUME NEW from \in Users, NEW amount \in Amounts, NEW nonce \in 0..MaxTick,
             NEW to \in DOMAIN wallets, Transfer(from, to, amount, nonce)
      PROVE  LedgerInv'
  BY <1>4, TransferStep
<1>5. ASSUME NEW from \in Users, NEW amount \in Amounts, NEW nonce \in 0..MaxTick,
             Burn(from, amount, nonce)
      PROVE  LedgerInv'
  BY <1>5, BurnStep
<1>6. ASSUME NEW p \in ParameterSets, NEW first \in Firsts, ExecuteIterationNow(p, first)
      PROVE  LedgerInv'
  BY <1>6, IterationStep
<1>7. CASE UNCHANGED vars
  BY <1>7 DEF vars, LedgerInv, TypeOK, PohChainValid, HashBefore, NothingAhead, CountFits,
              SupplyMatchesBalances, CountersMatchWallets, ActiveWallets
<1>8. CASE Next
  <2>1. CASE Create
    BY <1>1, <2>1 DEF Create
  <2>2. CASE Seed
    BY <1>2, <2>2 DEF Seed
  <2>3. CASE Mints
    BY <1>3, <2>3 DEF Mints
  <2>4. CASE Spends
    BY <1>4, <1>5, <2>4 DEF Spends
  <2>5. CASE Iterate
    BY <1>6, <2>5 DEF Iterate
  <2> QED BY <1>8, <2>1, <2>2, <2>3, <2>4, <2>5 DEF Next
<1> QED BY <1>7, <1>8

\* The inductive invariant holds in every state that any interleaving of the handlers reaches.
THEOREM LedgerInvariant == Spec => []LedgerInv
BY InitLedgerInv, NextLedgerInv, PTL DEF Spec

\* The wallets, the system state and the lock keep their types through every handler: amounts
\* stay in the range of a u64, and no handler leaves the iteration lock set.
THEOREM TypeCorrect == Spec => []TypeOK
<1>1. LedgerInv => TypeOK
  BY DEF LedgerInv
<1> QED BY <1>1, LedgerInvariant, PTL

\* The PoH chain is gapless and verifies, and the state's last_poh_hash is its head, whatever
\* sequence of handlers appended to it (append_tx_locked).
THEOREM ChainAlwaysVerifies == Spec => []PohChainValid
<1>1. LedgerInv => PohChainValid
  BY DEF LedgerInv
<1> QED BY <1>1, LedgerInvariant, PTL

\* total_supply, maintained incrementally by five handlers and replaced by the iteration, is the
\* sum of all balances as long as no u64 sum overflowed.
THEOREM SupplyIsTheSum == Spec => []SupplyMatchesBalances
<1>1. LedgerInv => SupplyMatchesBalances
  BY DEF LedgerInv
<1> QED BY <1>1, LedgerInvariant, PTL

\* n_wallets and n_active_wallets, which /stats serves without a scan, are what a scan counts.
THEOREM CountersAreExact == Spec => []CountersMatchWallets
<1>1. LedgerInv => CountersMatchWallets
  BY DEF LedgerInv
<1> QED BY <1>1, LedgerInvariant, PTL

-----------------------------------------------------------------------------
(***************************************************************************)
(* The history that Ledger keeps: the log and the iterations tree only     *)
(* grow, a spend is applied once and at its turn, iterations are anchored, *)
(* only the owner or an iteration takes coins from a wallet, and replaying *)
(* the log from the beginning gives the supply and every balance.          *)
(***************************************************************************)
IsSpend(tx) == tx.kind \in {"transfer", "burn"}

(***************************************************************************)
(* The strengthening.  Two transactions of the log differ because each     *)
(* kind carries a number of its own that never repeats: a mint its tick, a *)
(* commit its iteration, a spend the nonce of its sender.                  *)
(***************************************************************************)
MintsCarryTheirTick ==
    \A t \in DOMAIN poh : poh[t].tx.kind = "mint" => poh[t].tx.nonce = t

CommitsAreOfThePast ==
    \A t \in DOMAIN poh :
        poh[t].tx.kind = "iteration_commit" => poh[t].tx.iteration_id \in 1..system.current_iteration

KindsAreKnown ==
    \A t \in DOMAIN poh : poh[t].tx.kind \in {"mint", "transfer", "burn", "iteration_commit"}

\* A wallet that does not exist has spent nothing, so a new one starts with nonce 0.
SpendersExist ==
    \A t \in DOMAIN poh : IsSpend(poh[t].tx) => poh[t].tx.from \in DOMAIN wallets

HistoryInv ==
    /\ LedgerInv
    /\ KindsAreKnown
    /\ MintsCarryTheirTick
    /\ CommitsAreOfThePast
    /\ SpendersExist
    /\ SpendsFollowNonces
    /\ AppliedOnce
    /\ IterationsAnchored

-----------------------------------------------------------------------------
(* What the handlers record.                                               *)

\* The log grows by the transaction tx, at the next tick.
Records(tx) ==
    /\ system.current_tick \in Nat
    /\ system'.current_tick = system.current_tick + 1
    /\ DOMAIN poh = 1..system.current_tick
    /\ DOMAIN poh' = 1..(system.current_tick + 1)
    /\ \A t \in DOMAIN poh : poh'[t] = poh[t]
    /\ poh'[system.current_tick + 1].tx = tx

\* The fields that only an iteration changes stay.
SameIteration ==
    /\ iterations' = iterations
    /\ system'.current_iteration = system.current_iteration
    /\ system'.previous_iteration_supply = system.previous_iteration_supply
    /\ system'.previous_iteration_start_supply = system.previous_iteration_start_supply

\* append_tx_locked with the write of the entry: the chain was complete, so no entry is lost.
LEMMA AnchorRecords ==
    ASSUME LedgerInv, NEW tx, system'.current_tick = system.current_tick + 1, Anchor(system, tx)
    PROVE  Records(tx)
<1>1. DOMAIN poh = 1..system.current_tick /\ system.current_tick \in Nat
  BY Readings DEF LedgerInv, PohChainValid
<1>2. poh' = Put(poh, system.current_tick + 1,
                 BuildEntry(system.current_tick + 1, system.last_poh_hash, tx))
  BY DEF Anchor, NextEntry
<1>3. /\ DOMAIN poh' = 1..(system.current_tick + 1)
      /\ \A t \in DOMAIN poh : poh'[t] = poh[t]
      /\ poh'[system.current_tick + 1] = BuildEntry(system.current_tick + 1, system.last_poh_hash, tx)
  BY <1>1, <1>2 DEF Put
<1>4. poh'[system.current_tick + 1].tx = tx
  BY <1>3 DEF BuildEntry
<1> QED BY <1>1, <1>3, <1>4 DEF Records

\* A mint creates a wallet that has spent nothing.
LEMMA MintRecords ==
    ASSUME LedgerInv, NEW id, ~Exists(id), NEW amount, NEW category, Mint(id, amount, category)
    PROVE  /\ Records(MintTx(id, amount, system.current_tick + 1, category))
           /\ SameIteration
           /\ DOMAIN wallets' = DOMAIN wallets \cup {id}
           /\ \A w \in DOMAIN wallets : wallets'[w] = wallets[w]
           /\ wallets'[id].nonce = 0
           /\ wallets'[id].balance = amount
<1> DEFINE tx == MintTx(id, amount, system.current_tick + 1, category)
<1>1. /\ system' = Ticked(AfterCreate(system, amount), tx)
      /\ Anchor(system, tx)
      /\ iterations' = iterations
      /\ wallets' = [w \in DOMAIN wallets \cup {id} |->
                        IF w = id THEN NewWallet(amount, system.current_iteration) ELSE wallets[w]]
  BY DEF Mint, Put
<1> HIDE DEF tx
<1>2. /\ system'.current_tick = system.current_tick + 1
      /\ SameIteration
  BY <1>1 DEF LedgerInv, TypeOK, SystemRecord, Ticked, AfterCreate, NextEntry, BuildEntry, SameIteration
<1>3. Records(tx)
  BY <1>1, <1>2, AnchorRecords
<1>4. /\ DOMAIN wallets' = DOMAIN wallets \cup {id}
      /\ \A w \in DOMAIN wallets : wallets'[w] = wallets[w]
      /\ wallets'[id] = NewWallet(amount, system.current_iteration)
  BY <1>1 DEF Exists
<1> QED BY <1>2, <1>3, <1>4 DEF NewWallet, tx

\* A charge adds coins, and touches nothing else of the wallet.
LEMMA ChargeRecords ==
    ASSUME LedgerInv, NEW id, NEW amount \in 0..MaxU64, Charge(id, amount)
    PROVE  /\ Records(MintTx(id, amount, system.current_tick + 1, "charge"))
           /\ SameIteration
           /\ DOMAIN wallets' = DOMAIN wallets
           /\ \A w \in DOMAIN wallets : /\ wallets'[w].nonce = wallets[w].nonce
                                        /\ wallets'[w].balance >= wallets[w].balance
<1> DEFINE tx == MintTx(id, amount, system.current_tick + 1, "charge")
<1>1. /\ system' = Ticked([system EXCEPT !.total_supply = SatAdd(@, amount)], tx)
      /\ Anchor(system, tx)
      /\ iterations' = iterations
      /\ id \in DOMAIN wallets
      /\ wallets' = [wallets EXCEPT ![id].balance = SatAdd(@, amount)]
  BY DEF Charge, Exists
<1> HIDE DEF tx
<1>2. /\ system'.current_tick = system.current_tick + 1
      /\ SameIteration
  BY <1>1 DEF LedgerInv, TypeOK, SystemRecord, Ticked, NextEntry, BuildEntry, SameIteration
<1>3. Records(tx)
  BY <1>1, <1>2, AnchorRecords
<1>4. \A w \in DOMAIN wallets : wallets[w] \in WalletRecord(WalletId)
  BY Readings
<1>5. /\ DOMAIN wallets' = DOMAIN wallets
      /\ \A w \in DOMAIN wallets : /\ wallets'[w].nonce = wallets[w].nonce
                                   /\ wallets'[w].balance >= wallets[w].balance
  BY <1>1, <1>4 DEF SatAdd, WalletRecord
<1> QED BY <1>2, <1>3, <1>5 DEF tx

\* The nonce and the balance of the sender of a spend.
LEMMA SpentFields ==
    ASSUME NEW ids, NEW w \in WalletRecord(ids), NEW amount, NEW c, NEW it
    PROVE  /\ Spent(w, amount, c, it).nonce = w.nonce + 1
           /\ Spent(w, amount, c, it).balance = w.balance - amount
BY DEF Spent, WalletRecord

\* The nonce and the balance of the recipient of a transfer.
LEMMA ReceivedFields ==
    ASSUME NEW ids, NEW w \in WalletRecord(ids), NEW amount \in 0..MaxU64, NEW c, NEW it
    PROVE  /\ Received(w, amount, c, it).nonce = w.nonce
           /\ Received(w, amount, c, it).balance >= w.balance
BY DEF Received, WalletRecord, SatAdd

\* The step is a spend of from, at the turn of nonce, that leaves all other nonces alone and
\* takes coins from nobody else.
SpendsAtTurn(from, nonce) ==
    /\ SameIteration
    /\ from \in DOMAIN wallets
    /\ nonce = wallets[from].nonce
    /\ DOMAIN wallets' = DOMAIN wallets
    /\ wallets'[from].nonce = wallets[from].nonce + 1
    /\ \A w \in DOMAIN wallets \ {from} : /\ wallets'[w].nonce = wallets[w].nonce
                                          /\ wallets'[w].balance >= wallets[w].balance

LEMMA BurnRecords ==
    ASSUME LedgerInv, NEW from, NEW amount \in 0..MaxU64, NEW nonce, Burn(from, amount, nonce)
    PROVE  Records(BurnTx(from, amount, nonce)) /\ SpendsAtTurn(from, nonce)
<1> DEFINE tx == BurnTx(from, amount, nonce)
<1>1. /\ system' = [Ticked([system EXCEPT !.total_supply = SatSub(@, amount)], tx) EXCEPT
                       !.n_active_wallets = SatAdd(@, NewlyActive({from}))]
      /\ Anchor(system, tx)
      /\ iterations' = iterations
      /\ from \in DOMAIN wallets
      /\ wallets[from].nonce = nonce
      /\ wallets' = [wallets EXCEPT ![from] = Spent(@, amount, {}, system.current_iteration)]
  BY DEF Burn, Exists, MaySpend
<1> HIDE DEF tx
<1>2. /\ system'.current_tick = system.current_tick + 1
      /\ SameIteration
  BY <1>1 DEF LedgerInv, TypeOK, SystemRecord, Ticked, NextEntry, BuildEntry, SameIteration
<1>3. Records(tx)
  BY <1>1, <1>2, AnchorRecords
<1>4. \A w \in DOMAIN wallets : wallets[w] \in WalletRecord(WalletId)
  BY Readings
<1>5. /\ DOMAIN wallets' = DOMAIN wallets
      /\ wallets'[from].nonce = wallets[from].nonce + 1
      /\ \A w \in DOMAIN wallets \ {from} : wallets'[w] = wallets[w]
  BY <1>1, <1>4, SpentFields
<1>6. \A w \in DOMAIN wallets : wallets[w].balance \in Nat
  BY <1>4 DEF WalletRecord
<1> QED BY <1>1, <1>2, <1>3, <1>5, <1>6 DEF tx, SpendsAtTurn

LEMMA TransferRecords ==
    ASSUME LedgerInv, NEW from, NEW to, NEW amount \in 0..MaxU64, NEW nonce,
           Transfer(from, to, amount, nonce)
    PROVE  Records(TransferTx(from, to, amount, nonce)) /\ SpendsAtTurn(from, nonce)
<1> DEFINE tx == TransferTx(from, to, amount, nonce)
           it == system.current_iteration
<1>1. /\ system' = [Ticked(system, tx) EXCEPT
                       !.n_active_wallets = SatAdd(@, NewlyActive({from, to}))]
      /\ Anchor(system, tx)
      /\ iterations' = iterations
      /\ from \in DOMAIN wallets
      /\ to \in DOMAIN wallets
      /\ from # to
      /\ wallets[from].nonce = nonce
      /\ wallets' = [wallets EXCEPT ![from] = Spent(@, amount, {to}, it),
                                    ![to]   = Received(@, amount, from, it)]
  BY DEF Transfer, Exists, MaySpend
<1> HIDE DEF tx
<1>2. /\ system'.current_tick = system.current_tick + 1
      /\ SameIteration
  BY <1>1 DEF LedgerInv, TypeOK, SystemRecord, Ticked, NextEntry, BuildEntry, SameIteration
<1>3. Records(tx)
  BY <1>1, <1>2, AnchorRecords
<1>4. \A w \in DOMAIN wallets : wallets[w] \in WalletRecord(WalletId)
  BY Readings
<1>5. /\ DOMAIN wallets' = DOMAIN wallets
      /\ wallets'[from] = Spent(wallets[from], amount, {to}, it)
      /\ wallets'[to] = Received(wallets[to], amount, from, it)
      /\ \A w \in DOMAIN wallets \ {from, to} : wallets'[w] = wallets[w]
  BY <1>1
<1>6. wallets'[from].nonce = wallets[from].nonce + 1
  BY <1>1, <1>4, <1>5, SpentFields
<1>7. wallets'[to].nonce = wallets[to].nonce /\ wallets'[to].balance >= wallets[to].balance
  BY <1>1, <1>4, <1>5, ReceivedFields
<1>8. \A w \in DOMAIN wallets : wallets[w].balance \in Nat
  BY <1>4 DEF WalletRecord
<1> QED BY <1>1, <1>2, <1>3, <1>5, <1>6, <1>7, <1>8 DEF tx, SpendsAtTurn

\* An iteration files its commit under the next number and anchors it; no nonce moves, and the
\* wallets it adds did not exist.
IterationFiled(commit) ==
    LET next == system.current_iteration + 1
    IN  /\ commit.kind = "iteration_commit"
        /\ commit.iteration_id = next
        /\ next \in Nat
        /\ iterations' = Put(iterations, next, commit)
        /\ system'.current_iteration = next
        /\ system'.previous_iteration_supply = commit.post_supply
        /\ system'.previous_iteration_start_supply = commit.snapshot_supply
        /\ DOMAIN wallets \subseteq DOMAIN wallets'
        /\ \A w \in DOMAIN wallets : wallets'[w].nonce = wallets[w].nonce
        /\ \A w \in DOMAIN wallets' \ DOMAIN wallets : wallets'[w].nonce = 0

LEMMA IterationRecords ==
    ASSUME LedgerInv, NEW p \in ParameterSets, NEW first, ExecuteIterationNow(p, first)
    PROVE  \E commit : Records(commit) /\ IterationFiled(commit)
<1> DEFINE S == DOMAIN wallets
           r == ExecuteIteration(wallets, p, system, first)
           F == r.commit.new_wallets
           it == system.current_iteration + 1
<1>1. /\ wallets' = r.wallets
      /\ system' = Ticked(Committed(system, r), r.commit)
      /\ Anchor(system, r.commit)
      /\ iterations' = Put(iterations, r.commit.iteration_id, r.commit)
  BY DEF ExecuteIterationNow
<1>2. /\ IsFiniteSet(S) /\ S \subseteq WalletId /\ wallets \in [S -> WalletRecord(WalletId)]
      /\ system.current_tick \in Nat /\ system.current_iteration \in Nat
      /\ system.previous_iteration_supply \in Nat /\ system.previous_iteration_start_supply \in Nat
  BY DEF LedgerInv, TypeOK, SystemRecord
<1>3. \A idx \in Nat : FaucetId(system.current_iteration + 1, idx) \notin S
  <2> SUFFICES ASSUME NEW idx \in Nat, FaucetId(system.current_iteration + 1, idx) \in S
               PROVE  FALSE
    OBVIOUS
  <2> DEFINE w == FaucetId(system.current_iteration + 1, idx)
  <2>1. w \in FaucetIds /\ w[2] = system.current_iteration + 1
    BY <1>2 DEF FaucetId, FaucetIds
  <2>2. w[2] <= system.current_iteration
    BY <2>1 DEF LedgerInv, NothingAhead
  <2> QED BY <1>2, <2>1, <2>2
<1>4. p \in Parameters
  OBVIOUS
<1>5. /\ S \cap F = {}
      /\ DOMAIN r.wallets = S \cup F
      /\ \A w \in S : r.wallets[w].nonce = wallets[w].nonce
      /\ \A w \in F : r.wallets[w] = NewWallet(p.seed, it)
      /\ r.commit.iteration_id = it
  <2>1. LET q == ExecuteIteration(wallets, p, system, first)
            K == q.commit.new_wallets
        IN  /\ IsFiniteSet(K) /\ K \subseteq FaucetIds /\ S \cap K = {}
            /\ K = FreshIds(system.current_iteration + 1, PlannedNewWallets(p, Cardinality(S)))
            /\ q.wallets \in [S \cup K -> WalletRecord(WalletId)]
            /\ \A w \in S : /\ q.wallets[w].nonce = wallets[w].nonce
                            /\ q.wallets[w].last_active_iteration = wallets[w].last_active_iteration
            /\ \A w \in K : q.wallets[w] = NewWallet(p.seed, system.current_iteration + 1)
            /\ q.n_wallets = Cardinality(S \cup K)
            /\ q.commit.iteration_id = system.current_iteration + 1
            /\ q.commit.inflation \in Int
            /\ q.commit.snapshot_supply \in 0..MaxU64
            /\ q.commit.post_supply = Total(Balances(q.wallets)) % (MaxU64 + 1)
            /\ Total(Balances(q.wallets)) \in Nat
    <3> HIDE DEF S
    <3> QED BY <1>2, <1>3, <1>4, IterationFacts, Zenon
  <2>2. r.wallets \in [S \cup F -> WalletRecord(WalletId)]
    BY <2>1, Zenon
  <2> QED BY <2>1, <2>2, Zenon
<1>6. r.commit.kind = "iteration_commit"
  BY DEF ExecuteIteration
<1> DEFINE commit == r.commit
<1> HIDE DEF r
<1>7. /\ system'.current_tick = system.current_tick + 1
      /\ system'.current_iteration = commit.iteration_id
      /\ system'.previous_iteration_supply = commit.post_supply
      /\ system'.previous_iteration_start_supply = commit.snapshot_supply
  BY <1>1 DEF LedgerInv, TypeOK, SystemRecord, Committed, Ticked, NextEntry, BuildEntry
<1>8. Records(commit)
  BY <1>1, <1>7, AnchorRecords
<1>9. \A w \in F : wallets'[w].nonce = 0
  BY <1>1, <1>5 DEF NewWallet
<1>10. DOMAIN wallets' = S \cup F /\ \A w \in S : wallets'[w].nonce = wallets[w].nonce
  BY <1>1, <1>5
<1>11. IterationFiled(commit)
  BY <1>1, <1>2, <1>5, <1>6, <1>7, <1>9, <1>10 DEF IterationFiled
<1> QED BY <1>8, <1>11

-----------------------------------------------------------------------------
(* The spends of a wallet, before and after a step.                        *)

\* What a wallet has spent is a finite set of ticks.
LEMMA SpendsFinite ==
    ASSUME LedgerInv, NEW w
    PROVE  /\ SpendsOf(w) \subseteq DOMAIN poh
           /\ IsFiniteSet(SpendsOf(w))
           /\ Cardinality(SpendsOf(w)) \in Nat
           /\ \A t : /\ IsFiniteSet({s \in SpendsOf(w) : s < t})
                     /\ Cardinality({s \in SpendsOf(w) : s < t}) \in Nat
<1>1. IsFiniteSet(1..system.current_tick)
  <2>1. 1 \in Int /\ system.current_tick \in Int
    BY Readings
  <2> QED BY <2>1, FS_Interval
<1>2. SpendsOf(w) \subseteq 1..system.current_tick
  BY DEF SpendsOf, LedgerInv, PohChainValid
<1>3. IsFiniteSet(SpendsOf(w))
  BY <1>1, <1>2, FS_Subset
<1>4. \A t : IsFiniteSet({s \in SpendsOf(w) : s < t})
  <2> TAKE t
  <2>1. {s \in SpendsOf(w) : s < t} \subseteq SpendsOf(w)
    OBVIOUS
  <2> QED BY <1>3, <2>1, FS_Subset
<1> QED BY <1>2, <1>3, <1>4, FS_CardinalityType DEF LedgerInv, PohChainValid

\* A transaction that is not a spend of w leaves them as they are.
LEMMA NoSpend ==
    ASSUME NEW tx, Records(tx), NEW w, ~(IsSpend(tx) /\ tx.from = w)
    PROVE  SpendsOf(w)' = SpendsOf(w)
BY DEF Records, SpendsOf, IsSpend

\* The earlier spends of w stay where they are, and a spend adds the current tick.
LEMMA SpendAdds ==
    ASSUME NEW tx, Records(tx), NEW w, IsSpend(tx), tx.from = w
    PROVE  SpendsOf(w)' = SpendsOf(w) \cup {system.current_tick + 1}
BY DEF Records, SpendsOf, IsSpend

\* A step that records no spend keeps the nonces in step with the log, when wallets it adds
\* start with nonce 0.
LEMMA OtherKeepsNonces ==
    ASSUME HistoryInv, NEW tx, Records(tx), ~IsSpend(tx),
           DOMAIN wallets \subseteq DOMAIN wallets',
           \A w \in DOMAIN wallets : wallets'[w].nonce = wallets[w].nonce,
           \A w \in DOMAIN wallets' \ DOMAIN wallets : wallets'[w].nonce = 0
    PROVE  SpendsFollowNonces'
<1> SUFFICES ASSUME NEW w \in DOMAIN wallets'
             PROVE  /\ wallets'[w].nonce = Cardinality(SpendsOf(w)')
                    /\ \A t \in SpendsOf(w)' :
                          poh'[t].tx.nonce = Cardinality({s \in SpendsOf(w)' : s < t})
  BY DEF SpendsFollowNonces
<1>1. SpendsOf(w)' = SpendsOf(w)
  BY NoSpend
<1>2. \A t \in SpendsOf(w) : poh'[t] = poh[t]
  BY DEF Records, SpendsOf
<1>3. CASE w \in DOMAIN wallets
  BY <1>1, <1>2, <1>3 DEF HistoryInv, SpendsFollowNonces
<1>4. CASE w \notin DOMAIN wallets
  <2>1. SpendsOf(w) = {}
    BY <1>4 DEF HistoryInv, SpendersExist, SpendsOf, IsSpend
  <2>2. Cardinality(SpendsOf(w)') = Cardinality({})
    BY <1>1, <2>1, Zenon
  <2> QED BY <1>1, <1>4, <2>1, <2>2, FS_EmptySet
<1> QED BY <1>3, <1>4

\* A spend at its turn is the next one of its sender.
LEMMA SpendKeepsNonces ==
    ASSUME HistoryInv, NEW tx, Records(tx), IsSpend(tx), SpendsAtTurn(tx.from, tx.nonce)
    PROVE  SpendsFollowNonces'
<1> DEFINE k == system.current_tick
<1> SUFFICES ASSUME NEW w \in DOMAIN wallets
             PROVE  /\ wallets'[w].nonce = Cardinality(SpendsOf(w)')
                    /\ \A t \in SpendsOf(w)' :
                          poh'[t].tx.nonce = Cardinality({s \in SpendsOf(w)' : s < t})
  BY DEF SpendsFollowNonces, SpendsAtTurn
<1>1. /\ wallets[w].nonce = Cardinality(SpendsOf(w))
      /\ \A t \in SpendsOf(w) : poh[t].tx.nonce = Cardinality({s \in SpendsOf(w) : s < t})
  BY DEF HistoryInv, SpendsFollowNonces
<1>2. k \in Nat /\ SpendsOf(w) \subseteq 1..k /\ \A t \in SpendsOf(w) : poh'[t] = poh[t]
  BY DEF Records, SpendsOf
<1>3. CASE w # tx.from
  <2>1. SpendsOf(w)' = SpendsOf(w)
    BY <1>3, NoSpend
  <2> QED BY <1>1, <1>2, <1>3, <2>1 DEF SpendsAtTurn
<1>4. CASE w = tx.from
  <2>1. SpendsOf(w)' = SpendsOf(w) \cup {k + 1}
    BY <1>4, SpendAdds
  <2>2. \A t \in SpendsOf(w) : {s \in SpendsOf(w)' : s < t} = {s \in SpendsOf(w) : s < t}
    BY <1>2, <2>1
  <2>3. {s \in SpendsOf(w)' : s < k + 1} = SpendsOf(w)
    BY <1>2, <2>1
  <2>4. poh'[k + 1].tx = tx /\ tx.nonce = wallets[w].nonce
    BY <1>4 DEF Records, SpendsAtTurn
  <2>5. \A t \in SpendsOf(w)' :
           poh'[t].tx.nonce = Cardinality({s \in SpendsOf(w)' : s < t})
    <3> TAKE t \in SpendsOf(w)'
    <3>1. CASE t \in SpendsOf(w)
      BY <1>1, <1>2, <2>2, <3>1, Zenon
    <3>2. CASE t = k + 1
      BY <1>1, <2>3, <2>4, <3>2, Zenon
    <3> QED BY <2>1, <3>1, <3>2
  <2>6. Cardinality(SpendsOf(w)') = Cardinality(SpendsOf(w)) + 1
    <3>1. k + 1 \notin SpendsOf(w)
      BY <1>2
    <3>2. IsFiniteSet(SpendsOf(w))
      BY SpendsFinite DEF HistoryInv
    <3>3. Cardinality(SpendsOf(w) \cup {k + 1}) = Cardinality(SpendsOf(w)) + 1
      BY <3>1, <3>2, FS_AddElement
    <3> QED BY <2>1, <3>3, Zenon
  <2> QED BY <1>1, <1>4, <2>5, <2>6 DEF SpendsAtTurn
<1> QED BY <1>3, <1>4

-----------------------------------------------------------------------------
(* The log after a step.                                                   *)

\* What a handler knows of the transaction it records: a mint carries the new tick, a commit the
\* next iteration, a spend the nonce of a sender that exists.
IsNext(tx) ==
    \/ tx.kind = "mint" /\ tx.nonce = system.current_tick + 1
    \/ tx.kind = "iteration_commit" /\ tx.iteration_id = system.current_iteration + 1
    \/ IsSpend(tx) /\ tx.from \in DOMAIN wallets /\ tx.nonce = wallets[tx.from].nonce

\* Such a transaction is not in the log.
LEMMA NextIsFresh ==
    ASSUME HistoryInv, NEW tx, IsNext(tx), NEW s \in DOMAIN poh
    PROVE  poh[s].tx # tx
<1> SUFFICES ASSUME poh[s].tx = tx PROVE FALSE
  OBVIOUS
<1>1. /\ s \in 1..system.current_tick
      /\ system.current_tick \in Nat /\ system.current_iteration \in Nat
  BY Readings DEF HistoryInv, LedgerInv, PohChainValid
<1>2. CASE tx.kind = "mint" /\ tx.nonce = system.current_tick + 1
  BY <1>1, <1>2 DEF HistoryInv, MintsCarryTheirTick
<1>3. CASE tx.kind = "iteration_commit" /\ tx.iteration_id = system.current_iteration + 1
  BY <1>1, <1>3 DEF HistoryInv, CommitsAreOfThePast
<1>4. CASE IsSpend(tx) /\ tx.from \in DOMAIN wallets /\ tx.nonce = wallets[tx.from].nonce
  <2> DEFINE A == SpendsOf(tx.from)
             B == {r \in A : r < s}
  <2>1. s \in A
    BY <1>4 DEF SpendsOf, IsSpend
  <2>2. tx.nonce = Cardinality(A) /\ tx.nonce = Cardinality(B)
    BY <1>4, <2>1 DEF HistoryInv, SpendsFollowNonces
  <2>3. IsFiniteSet(A)
    BY SpendsFinite DEF HistoryInv
  <2>4. B \subseteq A /\ s \notin B
    BY <1>1
  <2> HIDE DEF A, B
  <2>5. A = B
    BY <2>2, <2>3, <2>4, FS_Subset
  <2> QED BY <2>1, <2>4, <2>5
<1> QED BY <1>2, <1>3, <1>4 DEF IsNext

\* Recording it keeps the log free of repetitions and the kinds numbered.
LEMMA LogStaysNumbered ==
    ASSUME HistoryInv, NEW tx, Records(tx), IsNext(tx), DOMAIN wallets \subseteq DOMAIN wallets',
           system'.current_iteration = IF tx.kind = "iteration_commit"
                                       THEN system.current_iteration + 1
                                       ELSE system.current_iteration
    PROVE  /\ KindsAreKnown'
           /\ MintsCarryTheirTick'
           /\ CommitsAreOfThePast'
           /\ SpendersExist'
           /\ AppliedOnce'
<1> DEFINE k == system.current_tick
<1>1. /\ k \in Nat
      /\ DOMAIN poh = 1..k
      /\ DOMAIN poh' = 1..(k + 1)
      /\ \A t \in 1..k : poh'[t] = poh[t]
      /\ poh'[k + 1].tx = tx
  BY DEF Records
<1>2. system.current_iteration \in Nat
  BY Readings DEF HistoryInv
<1>3. KindsAreKnown'
  BY <1>1 DEF HistoryInv, KindsAreKnown, IsNext, IsSpend
<1>4. MintsCarryTheirTick'
  BY <1>1 DEF HistoryInv, MintsCarryTheirTick, IsNext, IsSpend
<1>5. CommitsAreOfThePast'
  BY <1>1, <1>2 DEF HistoryInv, CommitsAreOfThePast, IsNext, IsSpend
<1>6. SpendersExist'
  BY <1>1 DEF HistoryInv, SpendersExist, IsNext, IsSpend
<1>7. AppliedOnce'
  <2>1. \A s \in 1..k : poh[s].tx # tx
    BY <1>1, NextIsFresh
  <2> QED BY <1>1, <2>1 DEF HistoryInv, AppliedOnce
<1> QED BY <1>3, <1>4, <1>5, <1>6, <1>7

\* A step that is no iteration leaves every commit anchored where it was.
LEMMA SameIterationStaysAnchored ==
    ASSUME HistoryInv, NEW tx, Records(tx), SameIteration
    PROVE  IterationsAnchored'
<1>1. \A t \in DOMAIN poh : t \in DOMAIN poh' /\ poh'[t] = poh[t]
  BY DEF Records
<1> QED BY <1>1 DEF HistoryInv, IterationsAnchored, SameIteration

\* An iteration files its commit where the numbering left off and anchors it.
LEMMA FiledStaysAnchored ==
    ASSUME HistoryInv, NEW commit, Records(commit), IterationFiled(commit)
    PROVE  IterationsAnchored'
<1> DEFINE next == system.current_iteration + 1
<1>1. /\ \A t \in DOMAIN poh : t \in DOMAIN poh' /\ poh'[t] = poh[t]
      /\ system.current_tick + 1 \in DOMAIN poh'
      /\ poh'[system.current_tick + 1].tx = commit
  BY DEF Records
<1>2. system.current_iteration \in Nat
  BY Readings DEF HistoryInv
<1>3. /\ DOMAIN iterations' = 1..next
      /\ iterations'[next] = commit
      /\ \A i \in 1..system.current_iteration : iterations'[i] = iterations[i]
  BY <1>2 DEF IterationFiled, Put, HistoryInv, IterationsAnchored
<1>4. /\ system'.current_iteration = next
      /\ system'.previous_iteration_supply = commit.post_supply
      /\ system'.previous_iteration_start_supply = commit.snapshot_supply
  BY DEF IterationFiled
<1>5. \A i \in DOMAIN iterations' : \E t \in DOMAIN poh' : poh'[t].tx = iterations'[i]
  <2> TAKE i \in DOMAIN iterations'
  <2>1. CASE i = next
    BY <1>1, <1>3, <2>1
  <2>2. CASE i # next
    <3>1. i \in 1..system.current_iteration
      BY <1>2, <1>3, <2>2
    <3>2. PICK t \in DOMAIN poh : poh[t].tx = iterations[i]
      BY <3>1 DEF HistoryInv, IterationsAnchored
    <3> QED BY <1>1, <1>3, <3>1, <3>2
  <2> QED BY <2>1, <2>2
<1> QED BY <1>3, <1>4, <1>5 DEF IterationsAnchored

-----------------------------------------------------------------------------
(* What a step does to the history: the invariant, and the two promises    *)
(* about steps.                                                            *)

\* One step of OnlyOwnerOrIterationDebits.
DebitIsOwned ==
    \A w \in DOMAIN wallets :
        wallets'[w].balance < wallets[w].balance =>
           LET tx == poh'[system'.current_tick].tx
           IN  \/ tx.kind = "iteration_commit"
               \/ tx.kind \in {"transfer", "burn"} /\ tx.from = w

\* One step of HistoryIsAppendOnly.
OnlyAppends ==
    /\ \A w \in DOMAIN wallets : w \in DOMAIN wallets' /\ wallets'[w].nonce >= wallets[w].nonce
    /\ \A t \in DOMAIN poh : t \in DOMAIN poh' /\ poh'[t] = poh[t]
    /\ \A i \in DOMAIN iterations : i \in DOMAIN iterations' /\ iterations'[i] = iterations[i]

\* Everything the invariant says of the log follows a step; LedgerInv is LedgerProofs' concern.
KeepsHistory == (LedgerInv' => HistoryInv') /\ DebitIsOwned /\ OnlyAppends

\* Nonces and balances are numbers.
LEMMA WalletNumbers ==
    ASSUME LedgerInv, NEW w \in DOMAIN wallets
    PROVE  wallets[w].nonce \in Nat /\ wallets[w].balance \in Nat
<1>1. wallets[w] \in WalletRecord(WalletId)
  BY Readings
<1> QED BY <1>1 DEF WalletRecord

\* create_wallet and install_seed.
LEMMA MintHistory ==
    ASSUME HistoryInv, NEW id, ~Exists(id), NEW amount, NEW category, Mint(id, amount, category)
    PROVE  KeepsHistory
<1> DEFINE tx == MintTx(id, amount, system.current_tick + 1, category)
<1>1. LedgerInv
  BY DEF HistoryInv
<1>2. /\ Records(tx)
      /\ SameIteration
      /\ DOMAIN wallets' = DOMAIN wallets \cup {id}
      /\ \A w \in DOMAIN wallets : wallets'[w] = wallets[w]
      /\ wallets'[id].nonce = 0
  BY <1>1, MintRecords
<1>3. /\ tx.kind = "mint" /\ tx.nonce = system.current_tick + 1
      /\ ~IsSpend(tx) /\ IsNext(tx) /\ tx.kind # "iteration_commit"
  BY DEF MintTx, IsSpend, IsNext
<1> HIDE DEF tx
<1>4. KindsAreKnown' /\ MintsCarryTheirTick' /\ CommitsAreOfThePast' /\ SpendersExist'
      /\ AppliedOnce'
  BY <1>2, <1>3, LogStaysNumbered DEF SameIteration
<1>5. SpendsFollowNonces'
  BY <1>2, <1>3, OtherKeepsNonces
<1>6. IterationsAnchored'
  BY <1>2, SameIterationStaysAnchored
<1>7. DebitIsOwned
  BY <1>1, <1>2, WalletNumbers DEF DebitIsOwned
<1>8. OnlyAppends
  BY <1>1, <1>2, WalletNumbers DEF OnlyAppends, Records, SameIteration
<1> QED BY <1>4, <1>5, <1>6, <1>7, <1>8 DEF KeepsHistory, HistoryInv

\* charge.
LEMMA ChargeHistory ==
    ASSUME HistoryInv, NEW id, NEW amount \in 0..MaxU64, Charge(id, amount)
    PROVE  KeepsHistory
<1> DEFINE tx == MintTx(id, amount, system.current_tick + 1, "charge")
<1>1. LedgerInv
  BY DEF HistoryInv
<1>2. /\ Records(tx)
      /\ SameIteration
      /\ DOMAIN wallets' = DOMAIN wallets
      /\ \A w \in DOMAIN wallets : /\ wallets'[w].nonce = wallets[w].nonce
                                   /\ wallets'[w].balance >= wallets[w].balance
  BY <1>1, ChargeRecords
<1>3. /\ tx.kind = "mint" /\ tx.nonce = system.current_tick + 1
      /\ ~IsSpend(tx) /\ IsNext(tx) /\ tx.kind # "iteration_commit"
  BY DEF MintTx, IsSpend, IsNext
<1> HIDE DEF tx
<1>4. KindsAreKnown' /\ MintsCarryTheirTick' /\ CommitsAreOfThePast' /\ SpendersExist'
      /\ AppliedOnce'
  BY <1>2, <1>3, LogStaysNumbered DEF SameIteration
<1>5. SpendsFollowNonces'
  BY <1>2, <1>3, OtherKeepsNonces
<1>6. IterationsAnchored'
  BY <1>2, SameIterationStaysAnchored
<1>7. wallets' \in [DOMAIN wallets -> WalletRecord(WalletId)] => DebitIsOwned
  BY <1>1, <1>2, WalletNumbers DEF DebitIsOwned, WalletRecord
<1>8. LedgerInv'
  BY <1>1, ChargeStep
<1>9. DebitIsOwned
  BY <1>2, <1>7, <1>8 DEF LedgerInv, TypeOK
<1>10. OnlyAppends
  BY <1>1, <1>2, WalletNumbers DEF OnlyAppends, Records, SameIteration
<1> QED BY <1>4, <1>5, <1>6, <1>9, <1>10 DEF KeepsHistory, HistoryInv

\* transfer and burn: the step of a spend at its turn.
LEMMA SpendHistory ==
    ASSUME HistoryInv, LedgerInv', NEW tx, IsSpend(tx), Records(tx),
           SpendsAtTurn(tx.from, tx.nonce)
    PROVE  KeepsHistory
<1>1. LedgerInv
  BY DEF HistoryInv
<1>2. IsNext(tx) /\ tx.kind # "iteration_commit"
  BY DEF IsNext, IsSpend, SpendsAtTurn
<1>3. DOMAIN wallets' = DOMAIN wallets /\ SameIteration
  BY DEF SpendsAtTurn
<1>4. KindsAreKnown' /\ MintsCarryTheirTick' /\ CommitsAreOfThePast' /\ SpendersExist'
      /\ AppliedOnce'
  BY <1>2, <1>3, LogStaysNumbered DEF SameIteration
<1>5. SpendsFollowNonces'
  BY SpendKeepsNonces
<1>6. IterationsAnchored'
  BY <1>3, SameIterationStaysAnchored
<1>7. \A w \in DOMAIN wallets : wallets'[w].balance \in Nat
  BY <1>3 DEF LedgerInv, TypeOK, WalletRecord
<1>8. DebitIsOwned
  <2> SUFFICES ASSUME NEW w \in DOMAIN wallets, wallets'[w].balance < wallets[w].balance
               PROVE  tx.kind \in {"transfer", "burn"} /\ tx.from = w
    BY DEF DebitIsOwned, Records
  <2>1. tx.from = w
    BY <1>1, <1>7, WalletNumbers DEF SpendsAtTurn
  <2> QED BY <2>1 DEF IsSpend
<1>9. OnlyAppends
  BY <1>1, <1>3, WalletNumbers DEF OnlyAppends, Records, SameIteration, SpendsAtTurn
<1> QED BY <1>4, <1>5, <1>6, <1>8, <1>9 DEF KeepsHistory, HistoryInv

\* execute_iteration_now.
LEMMA IterationKeepsHistory ==
    ASSUME HistoryInv, NEW p \in ParameterSets, NEW first, ExecuteIterationNow(p, first)
    PROVE  KeepsHistory
<1>1. LedgerInv
  BY DEF HistoryInv
<1>2. PICK commit : Records(commit) /\ IterationFiled(commit)
  BY <1>1, IterationRecords
<1>3. /\ commit.kind = "iteration_commit" /\ ~IsSpend(commit) /\ IsNext(commit)
      /\ system'.current_iteration = system.current_iteration + 1
      /\ DOMAIN wallets \subseteq DOMAIN wallets'
      /\ \A w \in DOMAIN wallets : wallets'[w].nonce = wallets[w].nonce
      /\ \A w \in DOMAIN wallets' \ DOMAIN wallets : wallets'[w].nonce = 0
  BY <1>2 DEF IterationFiled, IsSpend, IsNext
<1>4. KindsAreKnown' /\ MintsCarryTheirTick' /\ CommitsAreOfThePast' /\ SpendersExist'
      /\ AppliedOnce'
  BY <1>2, <1>3, LogStaysNumbered
<1>5. SpendsFollowNonces'
  BY <1>2, <1>3, OtherKeepsNonces
<1>6. IterationsAnchored'
  BY <1>2, FiledStaysAnchored
<1>7. DebitIsOwned
  BY <1>2, <1>3 DEF DebitIsOwned, Records
<1>8. OnlyAppends
  <2>1. \A i \in DOMAIN iterations : i # system.current_iteration + 1
    <3>1. system.current_iteration \in Nat
      BY <1>1, Readings
    <3> QED BY <3>1 DEF HistoryInv, IterationsAnchored
  <2>2. \A i \in DOMAIN iterations : i \in DOMAIN iterations' /\ iterations'[i] = iterations[i]
    BY <1>2, <2>1 DEF IterationFiled, Put
  <2> QED BY <1>1, <1>2, <1>3, <2>2, WalletNumbers DEF OnlyAppends, Records
<1> QED BY <1>4, <1>5, <1>6, <1>7, <1>8 DEF KeepsHistory, HistoryInv

\* Every step of every handler.
LEMMA NextHistory == HistoryInv /\ Next => KeepsHistory
<1> SUFFICES ASSUME HistoryInv, Next PROVE KeepsHistory
  OBVIOUS
<1>1. LedgerInv /\ LedgerInv'
  BY NextLedgerInv DEF HistoryInv
<1>2. CASE Create
  <2>1. PICK id \in Users, p \in ParameterSets : CreateWallet(id, p)
    BY <1>2 DEF Create
  <2> QED BY <2>1, MintHistory DEF CreateWallet
<1>3. CASE Seed
  <2>1. PICK id \in Users, amount \in Amounts : InstallSeedEntry(id, amount)
    BY <1>3 DEF Seed
  <2> QED BY <2>1, MintHistory DEF InstallSeedEntry
<1>4. CASE Mints
  BY <1>4, ChargeHistory DEF Mints
<1>5. CASE Spends
  <2>1. PICK from \in Users, amount \in Amounts, nonce \in 0..MaxTick :
           \/ \E to \in DOMAIN wallets : Transfer(from, to, amount, nonce)
           \/ Burn(from, amount, nonce)
    BY <1>5 DEF Spends
  <2>2. ASSUME NEW to, Transfer(from, to, amount, nonce) PROVE KeepsHistory
    <3> DEFINE tx == TransferTx(from, to, amount, nonce)
    <3>1. tx.from = from /\ tx.nonce = nonce /\ IsSpend(tx)
      BY DEF TransferTx, IsSpend
    <3>2. Records(tx) /\ SpendsAtTurn(from, nonce)
      BY <1>1, <2>2, TransferRecords
    <3> HIDE DEF tx
    <3> QED BY <1>1, <3>1, <3>2, SpendHistory
  <2>3. ASSUME Burn(from, amount, nonce) PROVE KeepsHistory
    <3> DEFINE tx == BurnTx(from, amount, nonce)
    <3>1. tx.from = from /\ tx.nonce = nonce /\ IsSpend(tx)
      BY DEF BurnTx, IsSpend
    <3>2. Records(tx) /\ SpendsAtTurn(from, nonce)
      BY <1>1, <2>3, BurnRecords
    <3> HIDE DEF tx
    <3> QED BY <1>1, <3>1, <3>2, SpendHistory
  <2> QED BY <2>1, <2>2, <2>3
<1>6. CASE Iterate
  BY <1>6, IterationKeepsHistory DEF Iterate
<1> QED BY <1>2, <1>3, <1>4, <1>5, <1>6 DEF Next

LEMMA InitHistoryInv == Init => HistoryInv
<1> SUFFICES ASSUME Init PROVE HistoryInv
  OBVIOUS
<1>1. /\ DOMAIN wallets = {} /\ DOMAIN poh = {} /\ DOMAIN iterations = {}
      /\ system.current_iteration = 0
  BY DEF Init, EmptyTree, GenesisState
<1>2. LedgerInv
  BY InitLedgerInv
<1>3. KindsAreKnown /\ MintsCarryTheirTick /\ CommitsAreOfThePast /\ SpendersExist
  BY <1>1 DEF KindsAreKnown, MintsCarryTheirTick, CommitsAreOfThePast, SpendersExist
<1>4. SpendsFollowNonces /\ AppliedOnce /\ IterationsAnchored
  BY <1>1 DEF SpendsFollowNonces, AppliedOnce, IterationsAnchored
<1> QED BY <1>2, <1>3, <1>4 DEF HistoryInv

LEMMA NextHistoryInv == HistoryInv /\ [Next]_vars => HistoryInv'
<1> SUFFICES ASSUME HistoryInv, [Next]_vars PROVE HistoryInv'
  OBVIOUS
<1>1. LedgerInv'
  BY NextLedgerInv DEF HistoryInv
<1>2. CASE Next
  BY <1>1, <1>2, NextHistory DEF KeepsHistory
<1>3. CASE UNCHANGED vars
  BY <1>1, <1>3 DEF vars, HistoryInv, KindsAreKnown, MintsCarryTheirTick, CommitsAreOfThePast,
                    SpendersExist, SpendsFollowNonces, SpendsOf, AppliedOnce, IterationsAnchored
<1> QED BY <1>2, <1>3

-----------------------------------------------------------------------------
(* The theorems.                                                           *)

THEOREM HistoryInvariant == Spec => []HistoryInv
BY InitHistoryInv, NextHistoryInv, PTL DEF Spec

\* The spends of a wallet stand in the log with the nonces 0, 1, 2, ... in the order of their
\* ticks, and the wallet's nonce is the next one: transfer and burn accept a signed request
\* only at its turn (MaySpend), and nothing else moves a nonce.
THEOREM SpendsInOrder == Spec => []SpendsFollowNonces
<1>1. HistoryInv => SpendsFollowNonces
  BY DEF HistoryInv
<1> QED BY <1>1, HistoryInvariant, PTL

\* No two ticks hold the same transaction, so no insert into the transactions tree, which is
\* keyed by tx_id, overwrites an earlier record.
THEOREM AppliedAtMostOnce == Spec => []AppliedOnce
<1>1. HistoryInv => AppliedOnce
  BY DEF HistoryInv
<1> QED BY <1>1, HistoryInvariant, PTL

\* Iterations are numbered without gaps, each commit is anchored in the PoH chain, and the two
\* supplies the burn rate reads are those of the latest commit (execute_iteration_now).
THEOREM EveryIterationIsAnchored == Spec => []IterationsAnchored
<1>1. HistoryInv => IterationsAnchored
  BY DEF HistoryInv
<1> QED BY <1>1, HistoryInvariant, PTL

\* No step removes a wallet, lowers a nonce, or rewrites an entry of the log or an iteration:
\* every handler only appends (append_tx_locked, put_iteration).
THEOREM NothingIsRewritten == Spec => HistoryIsAppendOnly
<1>1. HistoryInv /\ [Next]_vars => [OnlyAppends]_vars
  BY NextHistory DEF KeepsHistory
<1>2. Spec => [][OnlyAppends]_vars
  BY <1>1, HistoryInvariant, PTL DEF Spec
<1> QED BY <1>2 DEF HistoryIsAppendOnly, OnlyAppends

\* A step that takes coins from a wallet anchors that wallet's own transfer or burn, or an
\* iteration: no request of anybody else lowers a balance.
THEOREM OnlyOwnersSpend == Spec => OnlyOwnerOrIterationDebits
<1>1. HistoryInv /\ [Next]_vars => [DebitIsOwned]_vars
  BY NextHistory DEF KeepsHistory
<1>2. Spec => [][DebitIsOwned]_vars
  BY <1>1, HistoryInvariant, PTL DEF Spec
<1> QED BY <1>2 DEF OnlyOwnerOrIterationDebits, DebitIsOwned

-----------------------------------------------------------------------------
(* Running sums.  The audits define a replay as a recursive function of    *)
(* the tick; u is such a function for the effects e of the ticks 1..k.     *)
(* Induction over the ticks shows that there is exactly one, so that its   *)
(* last value, Replayed(e, k), follows the recursion from k to k + 1.      *)

Replays(u, e, k) == u = [t \in 0..k |-> IF t = 0 THEN 0 ELSE u[t - 1] + e[t]]

Replayed(e, k) == (CHOOSE u : Replays(u, e, k))[k]

\* The recursion, tick by tick.
LEMMA ReplayTicks ==
    ASSUME NEW u, NEW e, NEW k, Replays(u, e, k)
    PROVE  \A t \in 0..k : u[t] = IF t = 0 THEN 0 ELSE u[t - 1] + e[t]
BY Zenon DEF Replays

\* A replay goes on with the effect of the next tick.
LEMMA ReplayGoesOn ==
    ASSUME NEW k \in Nat, NEW u, NEW e, NEW d, Replays(u, e, k), \A t \in 1..k : d[t] = e[t]
    PROVE  \E v : Replays(v, d, k + 1) /\ v[k + 1] = u[k] + d[k + 1]
<1> DEFINE v == [t \in 0..(k + 1) |-> IF t = k + 1 THEN u[k] + d[k + 1] ELSE u[t]]
<1>1. \A t \in 0..k : u[t] = IF t = 0 THEN 0 ELSE u[t - 1] + e[t]
  BY ReplayTicks
<1>2. \A t \in 0..(k + 1) : v[t] = IF t = 0 THEN 0 ELSE v[t - 1] + d[t]
  <2> TAKE t \in 0..(k + 1)
  <2>1. CASE t = k + 1
    BY <2>1
  <2>2. CASE t = 0
    BY <1>1, <2>2
  <2>3. CASE t \in 1..k
    <3>1. v[t] = u[t] /\ v[t - 1] = u[t - 1]
      BY <2>3
    <3>2. u[t] = u[t - 1] + e[t]
      BY <1>1, <2>3
    <3> QED BY <2>3, <3>1, <3>2
  <2> QED BY <2>1, <2>2, <2>3
<1>3. v = [t \in 0..(k + 1) |-> IF t = 0 THEN 0 ELSE v[t - 1] + d[t]]
  <2>1. v = [t \in 0..(k + 1) |-> v[t]]
    OBVIOUS
  <2> HIDE DEF v
  <2> QED BY <1>2, <2>1
<1>4. v[k + 1] = u[k] + d[k + 1]
  OBVIOUS
<1> HIDE DEF v
<1>5. Replays(v, d, k + 1)
  BY <1>3, Zenon DEF Replays
<1> QED BY <1>4, <1>5

\* Every column of effects has a replay.
LEMMA ReplayExists ==
    ASSUME NEW k \in Nat, NEW e
    PROVE  \E u : Replays(u, e, k)
<1> DEFINE T == {n \in 0..k : \E u : Replays(u, e, n)}
<1>1. 0 \in T
  <2> DEFINE u == [t \in 0..0 |-> 0]
  <2>1. u = [t \in 0..0 |-> IF t = 0 THEN 0 ELSE u[t - 1] + e[t]]
    OBVIOUS
  <2> HIDE DEF u
  <2>2. Replays(u, e, 0)
    BY <2>1, Zenon DEF Replays
  <2> QED BY <2>2
<1>2. \A n \in 0..(k - 1) : n \in T => n + 1 \in T
  <2> SUFFICES ASSUME NEW n \in 0..(k - 1), n \in T PROVE n + 1 \in T
    OBVIOUS
  <2>1. PICK u : Replays(u, e, n)
    OBVIOUS
  <2>2. n \in Nat /\ n + 1 \in 0..k
    OBVIOUS
  <2>3. \E v : Replays(v, e, n + 1)
    BY <2>1, <2>2, ReplayGoesOn
  <2> QED BY <2>2, <2>3
<1>3. 0..k \subseteq T
  <2> HIDE DEF T
  <2> QED BY <1>1, <1>2, IntervalInduction
<1> QED BY <1>3

\* Two replays agree, also when their effects are two names of the same numbers.
LEMMA ReplayUnique ==
    ASSUME NEW k \in Nat, NEW e, NEW d, \A t \in 1..k : d[t] = e[t],
           NEW u, NEW v, Replays(u, e, k), Replays(v, d, k)
    PROVE  u[k] = v[k]
<1> DEFINE T == {n \in 0..k : u[n] = v[n]}
<1>1. /\ \A t \in 0..k : u[t] = IF t = 0 THEN 0 ELSE u[t - 1] + e[t]
      /\ \A t \in 0..k : v[t] = IF t = 0 THEN 0 ELSE v[t - 1] + d[t]
  BY ReplayTicks
<1>2. 0 \in T
  BY <1>1
<1>3. \A n \in 0..(k - 1) : n \in T => n + 1 \in T
  <2> SUFFICES ASSUME NEW n \in 0..(k - 1), n \in T PROVE n + 1 \in T
    OBVIOUS
  <2>1. n + 1 \in 0..k /\ n + 1 \in 1..k /\ n + 1 # 0 /\ (n + 1) - 1 = n
    OBVIOUS
  <2>2. u[n + 1] = u[n] + e[n + 1] /\ v[n + 1] = v[n] + d[n + 1]
    BY <1>1, <2>1
  <2> QED BY <2>1, <2>2
<1>4. 0..k \subseteq T
  <2> HIDE DEF T
  <2> QED BY <1>2, <1>3, IntervalInduction
<1> QED BY <1>4

\* The last value of the replay: 0 before the first tick, and the effect of a tick on top.
LEMMA ReplayedStarts == ASSUME NEW e PROVE Replayed(e, 0) = 0
<1> DEFINE c == CHOOSE u : Replays(u, e, 0)
<1>1. Replays(c, e, 0)
  BY ReplayExists, Zenon
<1> HIDE DEF c
<1>2. c[0] = 0
  BY <1>1, ReplayTicks
<1> QED BY <1>2 DEF Replayed, c

LEMMA ReplayedAdds ==
    ASSUME NEW k \in Nat, NEW e, NEW d, \A t \in 1..k : d[t] = e[t]
    PROVE  Replayed(d, k + 1) = Replayed(e, k) + d[k + 1]
<1> DEFINE c == CHOOSE u : Replays(u, e, k)
           b == CHOOSE u : Replays(u, d, k + 1)
<1>1. k + 1 \in Nat
  OBVIOUS
<1>2. Replays(c, e, k)
  <2>1. \E u : Replays(u, e, k)
    BY ReplayExists
  <2> QED BY <2>1, Zenon
<1>3. Replays(b, d, k + 1)
  <2>1. \E u : Replays(u, d, k + 1)
    BY <1>1, ReplayExists
  <2> QED BY <2>1, Zenon
<1>4. Replayed(e, k) = c[k] /\ Replayed(d, k + 1) = b[k + 1]
  BY Zenon DEF Replayed
<1> HIDE DEF c, b
<1>5. PICK v : Replays(v, d, k + 1) /\ v[k + 1] = c[k] + d[k + 1]
  BY <1>2, ReplayGoesOn
<1>6. v[k + 1] = b[k + 1]
  BY <1>1, <1>3, <1>5, ReplayUnique
<1> QED BY <1>4, <1>5, <1>6

-----------------------------------------------------------------------------
(* The strengthening.  A wallet that does not exist yet has balance 0, and *)
(* so has its replay: creating it starts from a replay that is right.      *)

SupplyEffects == [t \in DOMAIN poh |-> EffectOnSupply(poh[t].tx)]

EffectsOn(w) == [t \in DOMAIN poh |-> EffectOn(poh[t].tx, w)]

BalanceOf(w) == IF w \in DOMAIN wallets THEN wallets[w].balance ELSE 0

SupplyIsReplayed == ~saturated => system.total_supply = Replayed(SupplyEffects, system.current_tick)

BalancesAreReplayed ==
    ~saturated => \A w \in WalletId : BalanceOf(w) = Replayed(EffectsOn(w), system.current_tick)

AuditInv ==
    /\ LedgerInv
    /\ SupplyIsReplayed
    /\ BalancesAreReplayed

-----------------------------------------------------------------------------
(* What each handler records is what it does.                              *)

\* The step moves the supply and the balances by the recorded effects of tx, or saturates.
Explains(tx) ==
    ~saturated' =>
        /\ ~saturated
        /\ system'.total_supply = system.total_supply + EffectOnSupply(tx)
        /\ \A w \in WalletId : BalanceOf(w)' = BalanceOf(w) + EffectOn(tx, w)

\* Such a step keeps the audits right.
LEMMA AuditGoesOn ==
    ASSUME AuditInv, NEW tx, Records(tx), Explains(tx)
    PROVE  SupplyIsReplayed' /\ BalancesAreReplayed'
<1> DEFINE k == system.current_tick
<1>1. k \in Nat /\ system'.current_tick = k + 1
  BY DEF Records
<1>2. SUFFICES ASSUME ~saturated'
               PROVE  /\ system'.total_supply = Replayed(SupplyEffects', k + 1)
                      /\ \A w \in WalletId : BalanceOf(w)' = Replayed(EffectsOn(w)', k + 1)
  BY <1>1, Zenon DEF SupplyIsReplayed, BalancesAreReplayed
<1>3. /\ system'.total_supply = system.total_supply + EffectOnSupply(tx)
      /\ system.total_supply = Replayed(SupplyEffects, k)
  BY <1>2, Zenon DEF Explains, AuditInv, SupplyIsReplayed
<1>4. \A w \in WalletId : /\ BalanceOf(w)' = BalanceOf(w) + EffectOn(tx, w)
                          /\ BalanceOf(w) = Replayed(EffectsOn(w), k)
  BY <1>2, Zenon DEF Explains, AuditInv, BalancesAreReplayed
<1>5. system'.total_supply = Replayed(SupplyEffects', k + 1)
  <2> DEFINE e == SupplyEffects
             d == SupplyEffects'
  <2>1. (\A t \in 1..k : d[t] = e[t]) /\ d[k + 1] = EffectOnSupply(tx)
    BY <1>1 DEF SupplyEffects, Records
  <2> HIDE DEF d, e
  <2>2. Replayed(d, k + 1) = Replayed(e, k) + d[k + 1]
    BY <1>1, <2>1, ReplayedAdds
  <2> QED BY <1>3, <2>1, <2>2 DEF d, e
<1>6. ASSUME NEW w \in WalletId PROVE BalanceOf(w)' = Replayed(EffectsOn(w)', k + 1)
  <2> DEFINE e == EffectsOn(w)
             d == EffectsOn(w)'
  <2>1. (\A t \in 1..k : d[t] = e[t]) /\ d[k + 1] = EffectOn(tx, w)
    BY <1>1 DEF EffectsOn, Records
  <2> HIDE DEF d, e
  <2>2. Replayed(d, k + 1) = Replayed(e, k) + d[k + 1]
    BY <1>1, <2>1, ReplayedAdds
  <2>3. BalanceOf(w)' = BalanceOf(w) + EffectOn(tx, w) /\ BalanceOf(w) = Replayed(e, k)
    BY <1>4 DEF e
  <2> QED BY <2>1, <2>2, <2>3 DEF d
<1> QED BY <1>5, <1>6

\* No balance exceeds the supply, as long as nothing saturated.
LEMMA BalanceBelowSupply ==
    ASSUME LedgerInv, ~saturated, NEW w \in DOMAIN wallets
    PROVE  wallets[w].balance \in Nat /\ wallets[w].balance <= system.total_supply
<1> DEFINE f == Balances(wallets)
           S == DOMAIN wallets
<1>1. IsFiniteSet(S) /\ f \in [S -> Nat] /\ system.total_supply = Total(f)
  BY Readings
<1>2. f[w] = wallets[w].balance
  BY DEF Balances
<1>3. w \in S
  OBVIOUS
<1> HIDE DEF f, S
<1>4. f[w] <= Total(f)
  BY <1>1, <1>3, TotalBound
<1> QED BY <1>1, <1>2, <1>3, <1>4

\* create_wallet and install_seed: the opening balance is minted, to a wallet that was none.
LEMMA MintExplains ==
    ASSUME LedgerInv, NEW id, ~Exists(id), NEW amount \in 0..MaxU64, NEW category,
           Mint(id, amount, category)
    PROVE  Explains(MintTx(id, amount, system.current_tick + 1, category))
<1> DEFINE tx == MintTx(id, amount, system.current_tick + 1, category)
<1>1. tx.kind = "mint" /\ tx.to = id /\ tx.amount = amount
  BY DEF MintTx
<1>2. system'.total_supply = SatAdd(system.total_supply, amount)
  <2>1. system' = Ticked(AfterCreate(system, amount), tx)
    BY DEF Mint
  <2> HIDE DEF tx
  <2> QED BY <2>1 DEF LedgerInv, TypeOK, SystemRecord, Ticked, AfterCreate
<1>3. saturated' = (saturated \/ system.total_supply + amount > MaxU64
                               \/ system.n_wallets + 1 > MaxU64)
  BY DEF Mint
<1>4. SUFFICES ASSUME ~saturated'
               PROVE  /\ ~saturated
                      /\ system'.total_supply = system.total_supply + EffectOnSupply(tx)
                      /\ \A w \in WalletId : BalanceOf(w)' = BalanceOf(w) + EffectOn(tx, w)
  BY Zenon DEF Explains
<1>5. ~saturated /\ ~(system.total_supply + amount > MaxU64)
  BY <1>3, <1>4, Zenon
<1> HIDE DEF tx
<1>6. EffectOnSupply(tx) = amount /\ \A w : EffectOn(tx, w) = IF w = id THEN amount ELSE 0
  BY <1>1 DEF EffectOnSupply, EffectOn
<1>7. system'.total_supply = system.total_supply + EffectOnSupply(tx)
  BY <1>2, <1>5, <1>6 DEF SatAdd
<1>8. ASSUME NEW w \in WalletId PROVE BalanceOf(w)' = BalanceOf(w) + EffectOn(tx, w)
  <2>1. /\ DOMAIN wallets' = DOMAIN wallets \cup {id}
        /\ \A x \in DOMAIN wallets : wallets'[x] = wallets[x]
        /\ wallets'[id].balance = amount
    BY MintRecords
  <2>2. \A x \in DOMAIN wallets : wallets[x].balance \in Nat
    BY Readings DEF WalletRecord
  <2> QED BY <1>6, <2>1, <2>2 DEF BalanceOf, Exists
<1> QED BY <1>5, <1>7, <1>8

\* charge: the wallet's balance cannot saturate unless the supply does.
LEMMA ChargeExplains ==
    ASSUME LedgerInv, NEW id, NEW amount \in 0..MaxU64, Charge(id, amount)
    PROVE  Explains(MintTx(id, amount, system.current_tick + 1, "charge"))
<1> DEFINE tx == MintTx(id, amount, system.current_tick + 1, "charge")
<1>1. tx.kind = "mint" /\ tx.to = id /\ tx.amount = amount
  BY DEF MintTx
<1>2. /\ system'.total_supply = SatAdd(system.total_supply, amount)
      /\ id \in DOMAIN wallets
      /\ wallets' = [wallets EXCEPT ![id].balance = SatAdd(@, amount)]
      /\ saturated' = (saturated \/ system.total_supply + amount > MaxU64)
  <2>1. system' = Ticked([system EXCEPT !.total_supply = SatAdd(@, amount)], tx)
    BY DEF Charge
  <2>2. /\ id \in DOMAIN wallets
        /\ wallets' = [wallets EXCEPT ![id].balance = SatAdd(@, amount)]
        /\ saturated' = (saturated \/ system.total_supply + amount > MaxU64)
    BY DEF Charge, Exists
  <2> HIDE DEF tx
  <2> QED BY <2>1, <2>2 DEF LedgerInv, TypeOK, SystemRecord, Ticked
<1>3. SUFFICES ASSUME ~saturated'
               PROVE  /\ ~saturated
                      /\ system'.total_supply = system.total_supply + EffectOnSupply(tx)
                      /\ \A w \in WalletId : BalanceOf(w)' = BalanceOf(w) + EffectOn(tx, w)
  BY Zenon DEF Explains
<1>4. ~saturated /\ ~(system.total_supply + amount > MaxU64)
  BY <1>2, <1>3, Zenon
<1> HIDE DEF tx
<1>5. EffectOnSupply(tx) = amount /\ \A w : EffectOn(tx, w) = IF w = id THEN amount ELSE 0
  BY <1>1 DEF EffectOnSupply, EffectOn
<1>6. system'.total_supply = system.total_supply + EffectOnSupply(tx)
  BY <1>2, <1>4, <1>5 DEF SatAdd
<1>7. ASSUME NEW w \in WalletId PROVE BalanceOf(w)' = BalanceOf(w) + EffectOn(tx, w)
  <2>1. \A x \in DOMAIN wallets : wallets[x] \in WalletRecord(WalletId)
    BY Readings
  <2>2. system.total_supply \in 0..MaxU64
    BY Readings
  <2>3. wallets[id].balance \in Nat /\ wallets[id].balance <= system.total_supply
    BY <1>2, <1>4, BalanceBelowSupply
  <2>4. SatAdd(wallets[id].balance, amount) = wallets[id].balance + amount
    BY <1>4, <2>2, <2>3 DEF SatAdd
  <2>5. /\ DOMAIN wallets' = DOMAIN wallets
        /\ wallets'[id].balance = wallets[id].balance + amount
        /\ \A x \in DOMAIN wallets \ {id} : wallets'[x] = wallets[x]
    BY <1>2, <2>1, <2>4 DEF WalletRecord
  <2>6. \A x \in DOMAIN wallets : wallets[x].balance \in Nat
    BY <2>1 DEF WalletRecord
  <2>7. id \in DOMAIN wallets
    BY <1>2
  <2> QED BY <1>5, <2>5, <2>6, <2>7 DEF BalanceOf
<1> QED BY <1>4, <1>6, <1>7

\* transfer: what leaves the sender arrives at the recipient, or saturates there.
LEMMA TransferExplains ==
    ASSUME LedgerInv, NEW from, NEW to, NEW amount \in 0..MaxU64, NEW nonce,
           Transfer(from, to, amount, nonce)
    PROVE  Explains(TransferTx(from, to, amount, nonce))
<1> DEFINE tx == TransferTx(from, to, amount, nonce)
           it == system.current_iteration
<1>1. tx.kind = "transfer" /\ tx.from = from /\ tx.to = to /\ tx.amount = amount
  BY DEF TransferTx
<1>2. /\ from \in DOMAIN wallets
      /\ to \in DOMAIN wallets
      /\ from # to
      /\ wallets' = [wallets EXCEPT ![from] = Spent(@, amount, {to}, it),
                                    ![to]   = Received(@, amount, from, it)]
  BY DEF Transfer, Exists
<1>3. system'.total_supply = system.total_supply
  <2>1. system' = [Ticked(system, tx) EXCEPT
                      !.n_active_wallets = SatAdd(@, NewlyActive({from, to}))]
    BY DEF Transfer
  <2> HIDE DEF tx
  <2> QED BY <2>1 DEF LedgerInv, TypeOK, SystemRecord, Ticked
<1>4. saturated' = (saturated \/ wallets[to].balance + amount > MaxU64)
  BY DEF Transfer
<1>5. SUFFICES ASSUME ~saturated'
               PROVE  /\ ~saturated
                      /\ system'.total_supply = system.total_supply + EffectOnSupply(tx)
                      /\ \A w \in WalletId : BalanceOf(w)' = BalanceOf(w) + EffectOn(tx, w)
  BY Zenon DEF Explains
<1>6. ~saturated /\ ~(wallets[to].balance + amount > MaxU64)
  BY <1>4, <1>5, Zenon
<1> HIDE DEF tx
<1>7. /\ EffectOnSupply(tx) = 0
      /\ \A w : EffectOn(tx, w) = (IF w = to THEN amount ELSE 0) - (IF w = from THEN amount ELSE 0)
  BY <1>1 DEF EffectOnSupply, EffectOn
<1>8. system'.total_supply = system.total_supply + EffectOnSupply(tx)
  <2>1. system.total_supply \in Nat
    BY Readings
  <2> QED BY <1>3, <1>7, <2>1
<1>9. ASSUME NEW w \in WalletId PROVE BalanceOf(w)' = BalanceOf(w) + EffectOn(tx, w)
  <2>1. \A x \in DOMAIN wallets : wallets[x] \in WalletRecord(WalletId)
    BY Readings
  <2>2. \A x \in DOMAIN wallets : wallets[x].balance \in Nat
    BY <2>1 DEF WalletRecord
  <2>3. /\ DOMAIN wallets' = DOMAIN wallets
        /\ wallets'[from] = Spent(wallets[from], amount, {to}, it)
        /\ wallets'[to] = Received(wallets[to], amount, from, it)
        /\ \A x \in DOMAIN wallets \ {from, to} : wallets'[x] = wallets[x]
    BY <1>2
  <2>4. wallets'[from].balance = wallets[from].balance - amount
    BY <1>2, <2>1, <2>3, SpentFields
  <2>5. wallets'[to].balance = wallets[to].balance + amount
    <3>1. wallets'[to].balance = SatAdd(wallets[to].balance, amount)
      BY <1>2, <2>1, <2>3 DEF Received, WalletRecord
    <3> QED BY <1>2, <1>6, <2>2, <3>1 DEF SatAdd
  <2>6. from \in DOMAIN wallets /\ to \in DOMAIN wallets /\ from # to
    BY <1>2
  <2>7. CASE w = from
    <3>1. BalanceOf(w)' = wallets[from].balance - amount /\ BalanceOf(w) = wallets[from].balance
      BY <2>3, <2>4, <2>6, <2>7 DEF BalanceOf
    <3> QED BY <1>7, <2>2, <2>6, <2>7, <3>1
  <2>8. CASE w = to
    <3>1. BalanceOf(w)' = wallets[to].balance + amount /\ BalanceOf(w) = wallets[to].balance
      BY <2>3, <2>5, <2>6, <2>8 DEF BalanceOf
    <3> QED BY <1>7, <2>2, <2>6, <2>8, <3>1
  <2>9. CASE w \notin {from, to}
    <3>1. BalanceOf(w)' = BalanceOf(w) /\ BalanceOf(w) \in Nat
      BY <2>2, <2>3, <2>9 DEF BalanceOf
    <3> QED BY <1>7, <2>9, <3>1
  <2> QED BY <2>7, <2>8, <2>9
<1> QED BY <1>6, <1>8, <1>9

\* burn: the coins leave the sender and the supply, which is at least the sender's balance.
LEMMA BurnExplains ==
    ASSUME LedgerInv, NEW from, NEW amount \in 0..MaxU64, NEW nonce, Burn(from, amount, nonce)
    PROVE  Explains(BurnTx(from, amount, nonce))
<1> DEFINE tx == BurnTx(from, amount, nonce)
<1>1. tx.kind = "burn" /\ tx.from = from /\ tx.amount = amount
  BY DEF BurnTx
<1>2. /\ from \in DOMAIN wallets
      /\ wallets[from].balance >= amount
      /\ wallets' = [wallets EXCEPT ![from] = Spent(@, amount, {}, system.current_iteration)]
      /\ saturated' = saturated
  BY DEF Burn, Exists, MaySpend
<1>3. system'.total_supply = SatSub(system.total_supply, amount)
  <2>1. system' = [Ticked([system EXCEPT !.total_supply = SatSub(@, amount)], tx) EXCEPT
                      !.n_active_wallets = SatAdd(@, NewlyActive({from}))]
    BY DEF Burn
  <2> HIDE DEF tx
  <2> QED BY <2>1 DEF LedgerInv, TypeOK, SystemRecord, Ticked
<1>4. SUFFICES ASSUME ~saturated'
               PROVE  /\ ~saturated
                      /\ system'.total_supply = system.total_supply + EffectOnSupply(tx)
                      /\ \A w \in WalletId : BalanceOf(w)' = BalanceOf(w) + EffectOn(tx, w)
  BY Zenon DEF Explains
<1>5. ~saturated
  BY <1>2, <1>4, Zenon
<1> HIDE DEF tx
<1>6. EffectOnSupply(tx) = -amount /\ \A w : EffectOn(tx, w) = IF w = from THEN -amount ELSE 0
  BY <1>1 DEF EffectOnSupply, EffectOn
<1>7. system'.total_supply = system.total_supply + EffectOnSupply(tx)
  <2>1. system.total_supply \in Nat
    BY Readings
  <2>2. wallets[from].balance \in Nat /\ wallets[from].balance <= system.total_supply
    BY <1>2, <1>5, BalanceBelowSupply
  <2>3. amount <= system.total_supply
    BY <1>2, <2>1, <2>2
  <2> QED BY <1>3, <1>6, <2>1, <2>3 DEF SatSub
<1>8. ASSUME NEW w \in WalletId PROVE BalanceOf(w)' = BalanceOf(w) + EffectOn(tx, w)
  <2>1. \A x \in DOMAIN wallets : wallets[x] \in WalletRecord(WalletId)
    BY Readings
  <2>2. \A x \in DOMAIN wallets : wallets[x].balance \in Nat
    BY <2>1 DEF WalletRecord
  <2>3. /\ DOMAIN wallets' = DOMAIN wallets
        /\ wallets'[from].balance = wallets[from].balance - amount
        /\ \A x \in DOMAIN wallets \ {from} : wallets'[x] = wallets[x]
    BY <1>2, <2>1, SpentFields
  <2>4. from \in DOMAIN wallets
    BY <1>2
  <2> QED BY <1>6, <2>2, <2>3, <2>4 DEF BalanceOf
<1> QED BY <1>5, <1>7, <1>8

\* The ids that an iteration may give to new wallets belong to nobody.
LEMMA NextIdsAreFree ==
    ASSUME LedgerInv
    PROVE  \A idx \in Nat : FaucetId(system.current_iteration + 1, idx) \notin DOMAIN wallets
<1> SUFFICES ASSUME NEW idx \in Nat,
                    FaucetId(system.current_iteration + 1, idx) \in DOMAIN wallets
             PROVE  FALSE
  OBVIOUS
<1> DEFINE w == FaucetId(system.current_iteration + 1, idx)
<1>1. system.current_iteration \in Nat
  BY Readings
<1>2. w \in FaucetIds /\ w[2] = system.current_iteration + 1
  BY <1>1 DEF FaucetId, FaucetIds
<1>3. w[2] <= system.current_iteration
  BY <1>2 DEF LedgerInv, NothingAhead
<1> QED BY <1>1, <1>2, <1>3

\* What an iteration records when nothing saturates: the commit explains the new wallets, which
\* none of the old ones is, and the supply is recomputed from them.
IterationSettles(commit) ==
    /\ commit.kind = "iteration_commit"
    /\ DOMAIN wallets \cap commit.new_wallets = {}
    /\ wallets' \in [DOMAIN wallets \cup commit.new_wallets -> WalletRecord(WalletId)]
    /\ ~saturated' => /\ ~saturated
                      /\ CommitExplains(wallets, DOMAIN wallets, commit, wallets')
                      /\ system'.total_supply = Total(Balances(wallets'))

LEMMA IterationSettled ==
    ASSUME LedgerInv, NEW p \in ParameterSets, NEW first \in Firsts, ExecuteIterationNow(p, first)
    PROVE  \E commit : Records(commit) /\ IterationSettles(commit)
<1> DEFINE S == DOMAIN wallets
           r == ExecuteIteration(wallets, p, system, first)
           F == r.commit.new_wallets
<1>1. /\ wallets' = r.wallets
      /\ system' = Ticked(Committed(system, r), r.commit)
      /\ Anchor(system, r.commit)
      /\ saturated' = (saturated \/ IterationOverflows(r))
  BY DEF ExecuteIterationNow
<1>2. /\ IsFiniteSet(S) /\ S \subseteq WalletId /\ wallets \in [S -> WalletRecord(WalletId)]
      /\ system.current_iteration \in Nat
      /\ system.previous_iteration_supply \in Nat /\ system.previous_iteration_start_supply \in Nat
  BY DEF LedgerInv, TypeOK, SystemRecord
<1>3. \A idx \in Nat : FaucetId(system.current_iteration + 1, idx) \notin S
  BY NextIdsAreFree
<1>4. p \in Parameters
  OBVIOUS
<1>5. S # {} => first \in S
  BY DEF Firsts
<1>6. /\ S \cap F = {}
      /\ r.wallets \in [S \cup F -> WalletRecord(WalletId)]
      /\ r.commit.post_supply = Total(Balances(r.wallets)) % (MaxU64 + 1)
      /\ Total(Balances(r.wallets)) \in Nat
  <2>1. LET q == ExecuteIteration(wallets, p, system, first)
            K == q.commit.new_wallets
        IN  /\ IsFiniteSet(K) /\ K \subseteq FaucetIds /\ S \cap K = {}
            /\ K = FreshIds(system.current_iteration + 1, PlannedNewWallets(p, Cardinality(S)))
            /\ q.wallets \in [S \cup K -> WalletRecord(WalletId)]
            /\ \A w \in S : /\ q.wallets[w].nonce = wallets[w].nonce
                            /\ q.wallets[w].last_active_iteration = wallets[w].last_active_iteration
            /\ \A w \in K : q.wallets[w] = NewWallet(p.seed, system.current_iteration + 1)
            /\ q.n_wallets = Cardinality(S \cup K)
            /\ q.commit.iteration_id = system.current_iteration + 1
            /\ q.commit.inflation \in Int
            /\ q.commit.snapshot_supply \in 0..MaxU64
            /\ q.commit.post_supply = Total(Balances(q.wallets)) % (MaxU64 + 1)
            /\ Total(Balances(q.wallets)) \in Nat
    <3> HIDE DEF S
    <3> QED BY <1>2, <1>3, <1>4, IterationFacts, Zenon
  <2> QED BY <2>1, Zenon
<1>7. r.commit.kind = "iteration_commit"
  BY DEF ExecuteIteration
<1>8. ~saturated' => /\ ~saturated
                     /\ AtMost(Balances(wallets), MaxU64)
                     /\ AtMost(Balances(r.wallets), MaxU64)
  <2> HIDE DEF r
  <2>1. Total(Balances(wallets)) \in Nat
    <3> DEFINE f == Balances(wallets)
    <3>1. IsFiniteSet(S) /\ f \in [S -> Nat]
      BY Readings
    <3> HIDE DEF S, f
    <3>2. Total(f) \in Nat
      BY <3>1, TotalType
    <3> QED BY <3>2 DEF f
  <2>2. SUFFICES ASSUME ~saturated'
                 PROVE  /\ ~saturated
                        /\ AtMost(Balances(wallets), MaxU64)
                        /\ AtMost(Balances(r.wallets), MaxU64)
    BY Zenon
  <2>3. ~saturated /\ ~IterationOverflows(r)
    BY <1>1, <2>2, Zenon
  <2> QED BY <1>6, <2>1, <2>3 DEF IterationOverflows, AtMost
<1>9. ~saturated' => CommitExplains(wallets, S, r.commit, r.wallets)
  <2> SUFFICES ASSUME ~saturated' PROVE CommitExplains(wallets, S, r.commit, r.wallets)
    OBVIOUS
  <2>1. /\ AtMost(Balances(wallets), MaxU64)
        /\ AtMost(Balances(ExecuteIteration(wallets, p, system, first).wallets), MaxU64)
    BY <1>8, Zenon
  <2> HIDE DEF S
  <2> QED BY <1>2, <1>3, <1>4, <1>5, <2>1, IterationConserves, Zenon
<1> DEFINE commit == r.commit
<1>10. Records(commit)
  <2> HIDE DEF r
  <2>1. system'.current_tick = system.current_tick + 1
    BY <1>1 DEF LedgerInv, TypeOK, SystemRecord, Committed, Ticked, NextEntry, BuildEntry
  <2> QED BY <1>1, <2>1, AnchorRecords
<1>11. ~saturated' => system'.total_supply = Total(Balances(r.wallets))
  <2> HIDE DEF r
  <2>1. system'.total_supply = commit.post_supply
    BY <1>1 DEF LedgerInv, TypeOK, SystemRecord, Committed, Ticked, NextEntry, BuildEntry
  <2> DEFINE n == Total(Balances(r.wallets))
  <2>2. n \in Nat /\ commit.post_supply = n % (MaxU64 + 1)
    BY <1>6
  <2>3. ~saturated' => n <= MaxU64
    BY <1>8 DEF AtMost
  <2> HIDE DEF n
  <2> QED BY <2>1, <2>2, <2>3 DEF n
<1> HIDE DEF r
<1>12. IterationSettles(commit)
  BY <1>1, <1>6, <1>7, <1>8, <1>9, <1>11 DEF IterationSettles
<1> QED BY <1>10, <1>12

\* execute_iteration: the commit records everything that the iteration did to the balances.
LEMMA IterationExplains ==
    ASSUME LedgerInv, NEW commit, IterationSettles(commit)
    PROVE  Explains(commit)
<1> DEFINE S == DOMAIN wallets
           F == commit.new_wallets
<1>1. /\ commit.kind = "iteration_commit"
      /\ S \cap F = {}
      /\ wallets' \in [S \cup F -> WalletRecord(WalletId)]
      /\ DOMAIN wallets' = S \cup F
  BY DEF IterationSettles
<1>2. SUFFICES ASSUME ~saturated'
               PROVE  /\ ~saturated
                      /\ system'.total_supply = system.total_supply + EffectOnSupply(commit)
                      /\ \A w \in WalletId : BalanceOf(w)' = BalanceOf(w) + EffectOn(commit, w)
  BY Zenon DEF Explains
<1>3. /\ ~saturated
      /\ CommitExplains(wallets, S, commit, wallets')
      /\ system'.total_supply = Total(Balances(wallets'))
  BY <1>2, Zenon DEF IterationSettles
<1>4. system.total_supply = Total(Balances(wallets)) /\ system.total_supply \in Nat
  BY <1>3, Readings
<1>5. EffectOnSupply(commit) = commit.faucet_from_mint - commit.burned
  BY <1>1 DEF EffectOnSupply
<1>6. system'.total_supply = system.total_supply + EffectOnSupply(commit)
  <2>1. /\ commit.faucet_from_mint \in Nat
        /\ commit.burned \in Nat
        /\ Total(Balances(wallets')) = Total(Balances(wallets)) + commit.faucet_from_mint - commit.burned
    BY <1>3 DEF CommitExplains
  <2> QED BY <1>3, <1>4, <1>5, <2>1
<1>7. ASSUME NEW w \in WalletId PROVE BalanceOf(w)' = BalanceOf(w) + EffectOn(commit, w)
  <2>1. CASE w \in F
    <3>1. EffectOn(commit, w) = (commit.faucet_from_penalty + commit.faucet_from_mint)
                                   \div Cardinality(commit.new_wallets)
      BY <1>1, <2>1 DEF EffectOn
    <3>2. wallets'[w].balance = EffectOn(commit, w)
      BY <1>3, <2>1, <3>1 DEF CommitExplains
    <3>3. EffectOn(commit, w) \in Int
      <4>1. wallets'[w] \in WalletRecord(WalletId)
        BY <1>1, <2>1
      <4> QED BY <3>2, <4>1 DEF WalletRecord
    <3>4. BalanceOf(w)' = wallets'[w].balance /\ BalanceOf(w) = 0
      BY <1>1, <2>1 DEF BalanceOf
    <3> QED BY <3>2, <3>3, <3>4
  <2>2. CASE w \in S
    <3>1. w \notin F /\ commit.rewards \in [S -> Nat] /\ commit.penalties \in [S -> Nat]
      BY <1>1, <1>3, <2>2 DEF CommitExplains
    <3>2. EffectOn(commit, w) = commit.rewards[w] - commit.penalties[w]
      BY <1>1, <2>2, <3>1 DEF EffectOn
    <3>3. wallets'[w].balance = wallets[w].balance + commit.rewards[w] - commit.penalties[w]
      BY <1>3, <2>2 DEF CommitExplains
    <3>4. commit.rewards[w] \in Nat /\ commit.penalties[w] \in Nat /\ wallets[w].balance \in Nat
      BY <2>2, <3>1, Readings DEF WalletRecord
    <3>5. BalanceOf(w)' = wallets'[w].balance /\ BalanceOf(w) = wallets[w].balance
      BY <1>1, <2>2 DEF BalanceOf
    <3> QED BY <3>2, <3>3, <3>4, <3>5
  <2>3. CASE w \notin S \cup F
    <3>1. EffectOn(commit, w) = 0
      <4>1. DOMAIN commit.rewards = S
        BY <1>3 DEF CommitExplains
      <4> QED BY <1>1, <2>3, <4>1 DEF EffectOn
    <3>2. BalanceOf(w)' = 0 /\ BalanceOf(w) = 0
      BY <1>1, <2>3 DEF BalanceOf
    <3> QED BY <3>1, <3>2
  <2> QED BY <2>1, <2>2, <2>3
<1> QED BY <1>3, <1>6, <1>7

-----------------------------------------------------------------------------
(* The invariant.                                                          *)

\* Every step records what it did.
LEMMA NextAudit == AuditInv /\ Next => SupplyIsReplayed' /\ BalancesAreReplayed'
<1> SUFFICES ASSUME AuditInv, Next
             PROVE  \E tx : Records(tx) /\ Explains(tx)
  BY AuditGoesOn
<1> USE DEF AuditInv
<1>1. CASE Create
  <2>1. PICK id \in Users, p \in ParameterSets : CreateWallet(id, p)
    BY <1>1 DEF Create
  <2>2. ~Exists(id) /\ Mint(id, p.seed, "wallet_seed")
    BY <2>1 DEF CreateWallet
  <2>3. p.seed \in 0..MaxU64
    BY DEF Parameters
  <2>4. Records(MintTx(id, p.seed, system.current_tick + 1, "wallet_seed"))
    BY <2>2, MintRecords
  <2>5. Explains(MintTx(id, p.seed, system.current_tick + 1, "wallet_seed"))
    BY <2>2, <2>3, MintExplains
  <2> QED BY <2>4, <2>5
<1>2. CASE Seed
  <2>1. PICK id \in Users, amount \in Amounts : InstallSeedEntry(id, amount)
    BY <1>2 DEF Seed
  <2>2. ~Exists(id) /\ Mint(id, amount, "seed_bootstrap")
    BY <2>1 DEF InstallSeedEntry
  <2>3. amount \in 0..MaxU64
    OBVIOUS
  <2>4. Records(MintTx(id, amount, system.current_tick + 1, "seed_bootstrap"))
    BY <2>2, MintRecords
  <2>5. Explains(MintTx(id, amount, system.current_tick + 1, "seed_bootstrap"))
    BY <2>2, <2>3, MintExplains
  <2> QED BY <2>4, <2>5
<1>3. CASE Mints
  <2>1. PICK id \in DOMAIN wallets, amount \in Amounts : Charge(id, amount)
    BY <1>3 DEF Mints
  <2>2. amount \in 0..MaxU64
    OBVIOUS
  <2> QED BY <2>1, <2>2, ChargeRecords, ChargeExplains
<1>4. CASE Spends
  <2>1. PICK from \in Users, amount \in Amounts, nonce \in 0..MaxTick :
           \/ \E to \in DOMAIN wallets : Transfer(from, to, amount, nonce)
           \/ Burn(from, amount, nonce)
    BY <1>4 DEF Spends
  <2>2. amount \in 0..MaxU64
    OBVIOUS
  <2>3. CASE \E to \in DOMAIN wallets : Transfer(from, to, amount, nonce)
    BY <2>2, <2>3, TransferRecords, TransferExplains
  <2>4. CASE Burn(from, amount, nonce)
    BY <2>2, <2>4, BurnRecords, BurnExplains
  <2> QED BY <2>1, <2>3, <2>4
<1>5. CASE Iterate
  <2>1. PICK p \in ParameterSets, first \in Firsts : ExecuteIterationNow(p, first)
    BY <1>5 DEF Iterate
  <2>2. PICK commit : Records(commit) /\ IterationSettles(commit)
    BY <2>1, IterationSettled
  <2> QED BY <2>2, IterationExplains
<1> QED BY <1>1, <1>2, <1>3, <1>4, <1>5 DEF Next

LEMMA InitAuditInv == Init => AuditInv
<1> SUFFICES ASSUME Init PROVE AuditInv
  OBVIOUS
<1>1. LedgerInv
  BY InitLedgerInv
<1>2. DOMAIN wallets = {} /\ system.current_tick = 0 /\ system.total_supply = 0
  BY DEF Init, EmptyTree, GenesisState
<1>3. SupplyIsReplayed
  BY <1>2, ReplayedStarts DEF SupplyIsReplayed
<1>4. BalancesAreReplayed
  BY <1>2, ReplayedStarts DEF BalancesAreReplayed, BalanceOf
<1> QED BY <1>1, <1>3, <1>4 DEF AuditInv

LEMMA NextAuditInv == AuditInv /\ [Next]_vars => AuditInv'
<1> SUFFICES ASSUME AuditInv, [Next]_vars PROVE AuditInv'
  OBVIOUS
<1>1. LedgerInv'
  BY NextLedgerInv DEF AuditInv
<1>2. CASE Next
  BY <1>1, <1>2, NextAudit DEF AuditInv
<1>3. CASE UNCHANGED vars
  <2>1. SupplyIsReplayed' /\ BalancesAreReplayed'
    BY <1>3 DEF vars, AuditInv, SupplyIsReplayed, BalancesAreReplayed, SupplyEffects, EffectsOn,
                BalanceOf
  <2> QED BY <1>1, <2>1 DEF AuditInv
<1> QED BY <1>2, <1>3

\* The strengthening holds in every reachable state.
THEOREM AuditInvariant == Spec => []AuditInv
<1>1. Init => AuditInv
  BY InitAuditInv
<1>2. AuditInv /\ [Next]_vars => AuditInv'
  BY NextAuditInv
<1> QED BY <1>1, <1>2, PTL DEF Spec

-----------------------------------------------------------------------------
(* The audits.                                                             *)

\* There is one replay: the one an audit chooses is it.
LEMMA ReplayIsReplayed ==
    ASSUME NEW k \in Nat, NEW e, NEW c, Replays(c, e, k)
    PROVE  c[k] = Replayed(e, k)
<1> DEFINE b == CHOOSE u : Replays(u, e, k)
<1>1. Replays(b, e, k)
  BY Zenon
<1>2. Replayed(e, k) = b[k]
  BY Zenon DEF Replayed
<1> HIDE DEF b
<1>3. c[k] = b[k]
  BY <1>1, ReplayUnique
<1> QED BY <1>2, <1>3

\* Coins exist only because the log created them: in every reachable state in which no sum left
\* the range of a u64, replaying the log gives total_supply.
THEOREM SupplyIsAccountedFor == Spec => []SupplyFollowsLog
<1>1. AuditInv => SupplyFollowsLog
  <2> SUFFICES ASSUME AuditInv, ~saturated PROVE SupplyFollowsLog
    BY Zenon DEF SupplyFollowsLog
  <2> DEFINE k == system.current_tick
             P(u) == u = [t \in 0..k |-> IF t = 0 THEN 0 ELSE u[t - 1] + EffectOnSupply(poh[t].tx)]
             c == CHOOSE u : P(u)
  <2>1. k \in Nat /\ DOMAIN poh = 1..k
    BY Readings DEF AuditInv, LedgerInv, PohChainValid
  <2>2. system.total_supply = Replayed(SupplyEffects, k)
    BY Zenon DEF AuditInv, SupplyIsReplayed
  <2>3. \A u : P(u) <=> Replays(u, SupplyEffects, k)
    <3>1. \A u : [t \in 0..k |-> IF t = 0 THEN 0 ELSE u[t - 1] + EffectOnSupply(poh[t].tx)]
                   = [t \in 0..k |-> IF t = 0 THEN 0 ELSE u[t - 1] + SupplyEffects[t]]
      BY <2>1 DEF SupplyEffects
    <3> QED BY <3>1, Zenon DEF Replays
  <2>4. Replays(c, SupplyEffects, k)
    <3>1. \E u : P(u)
      BY <2>1, <2>3, ReplayExists, Zenon
    <3> QED BY <2>3, <3>1, Zenon
  <2>5. SupplyFollowsLog <=> (~saturated => system.total_supply = c[k])
    BY Zenon DEF SupplyFollowsLog
  <2> HIDE DEF c
  <2>6. c[k] = Replayed(SupplyEffects, k)
    BY <2>1, <2>4, ReplayIsReplayed
  <2> QED BY <2>2, <2>5, <2>6
<1> QED BY <1>1, AuditInvariant, PTL

\* The anchored transactions alone explain every balance: in every reachable state in which no sum
\* left the range of a u64, replaying the log for a wallet gives its balance.
THEOREM BalancesAreAccountedFor == Spec => []LogExplainsBalances
<1>1. AuditInv => LogExplainsBalances
  <2> SUFFICES ASSUME AuditInv, ~saturated, NEW w \in DOMAIN wallets
               PROVE  wallets[w].balance = ReplayedBalance(w)
    BY Zenon DEF LogExplainsBalances
  <2> DEFINE k == system.current_tick
             P(u) == u = [t \in 0..k |-> IF t = 0 THEN 0 ELSE u[t - 1] + EffectOn(poh[t].tx, w)]
             c == CHOOSE u : P(u)
  <2>1. k \in Nat /\ DOMAIN poh = 1..k /\ DOMAIN wallets \subseteq WalletId
    BY Readings DEF AuditInv, LedgerInv, PohChainValid
  <2>2. wallets[w].balance = Replayed(EffectsOn(w), k)
    <3>1. BalanceOf(w) = Replayed(EffectsOn(w), k)
      BY <2>1, Zenon DEF AuditInv, BalancesAreReplayed
    <3> QED BY <3>1 DEF BalanceOf
  <2>3. \A u : P(u) <=> Replays(u, EffectsOn(w), k)
    <3>1. \A u : [t \in 0..k |-> IF t = 0 THEN 0 ELSE u[t - 1] + EffectOn(poh[t].tx, w)]
                   = [t \in 0..k |-> IF t = 0 THEN 0 ELSE u[t - 1] + EffectsOn(w)[t]]
      BY <2>1 DEF EffectsOn
    <3> QED BY <3>1, Zenon DEF Replays
  <2>4. Replays(c, EffectsOn(w), k)
    <3>1. \E u : P(u)
      BY <2>1, <2>3, ReplayExists, Zenon
    <3> QED BY <2>3, <3>1, Zenon
  <2>5. ReplayedBalance(w) = c[k]
    BY Zenon DEF ReplayedBalance
  <2> HIDE DEF c
  <2>6. c[k] = Replayed(EffectsOn(w), k)
    BY <2>1, <2>4, ReplayIsReplayed
  <2> QED BY <2>2, <2>5, <2>6
<1> QED BY <1>1, AuditInvariant, PTL

=============================================================================
