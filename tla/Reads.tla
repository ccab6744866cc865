------------------------------- MODULE Reads --------------------------------
(***************************************************************************)
(* The read endpoints of the REST interface, beside the handlers of        *)
(* CoinNode.                                                               *)
(*                                                                         *)
(* A GET handler takes its data straight from the sled trees, without the  *)
(* lock, so it may run between two writes of a handler; only then does     *)
(* ok() or state_error() read the system state, under the read lock, for   *)
(* the tick and the iteration that the envelope of the response carries.   *)
(* One reader stands for all: readers change nothing.                      *)
(***************************************************************************)
EXTENDS CoinNode, FiniteSetsExt

CONSTANT HistoryLimit     \* the limit of a wallet's list of transactions; 100 in the code

ASSUME HistoryLimitAssumption == HistoryLimit \in Nat \ {0}

VARIABLES
    endpoint,    \* what the request being answered asks for; "none" when there is none
    key,         \* the wallet or the iteration it names
    data,        \* its answer, once taken
    since        \* history: the tick of the last complete operation when it came in

read == <<endpoint, key, data, since>>

readVars == <<nodeVars, read>>

NotFound == << >>

\* No request is being answered.
NoRead == endpoint = "none" /\ key = "none" /\ data = NotFound /\ since = 0

Found(value) == <<value>>

Lookup(tree, k) == IF k \in DOMAIN tree THEN Found(tree[k]) ELSE NotFound

-----------------------------------------------------------------------------
(* The data.                                                               *)

Arrive(what, which, answer) ==
    /\ endpoint = "none"
    /\ endpoint' = what
    /\ key' = which
    /\ data' = answer
    /\ since' = view.system.current_tick
    /\ UNCHANGED nodeVars

GetWallet(id) == Arrive("wallet", id, Lookup(wallets, id))

\* The transactions of the index under the prefix of the wallet.
Indexed(id) == {e[3] : e \in {f \in tx_by_wallet : f[1] = id}}

\* The ids are hashes: sorted, reversed and cut, they are any HistoryLimit of the list.  An
\* id that is not in the transactions tree is dropped.
Listings(id) ==
    LET cut == SmallerOf(Cardinality(Indexed(id)), HistoryLimit)
    IN  {txs \cap DOMAIN transactions : txs \in kSubset(cut, Indexed(id))}

WalletTransactions(id) ==
    \E txs \in Listings(id) : Arrive("transactions", id, Found(txs))

GetTransaction(tx) ==
    Arrive("transaction", tx, IF tx \in DOMAIN transactions THEN Found(tx) ELSE NotFound)

\* Mutant: the state is read without its lock.
AnyTime == TRUE

\* system(): the read lock is free when no handler is running.
Readable == Idle

\* /iteration/current, first half: which iteration is the current one.
ReadCurrent == Readable /\ Arrive("current", system.current_iteration, NotFound)

\* Second half: its commit, without the lock.  Iteration 0 has none and needs none.
GetCurrentIteration ==
    /\ endpoint = "current"
    /\ endpoint' = "iteration"
    /\ data' = IF key = 0 THEN Found("genesis") ELSE Lookup(iterations, key)
    /\ UNCHANGED <<key, since, nodeVars>>

GetIteration(id) == Arrive("commit", id, Lookup(iterations, id))

\* /stats/supply and /stats/gini: one point for each commit.
IterationHistory == Arrive("history", "iterations", Found(DOMAIN iterations))

\* stats(): answered from memory, also for every message of the event stream.
Stats ==
    /\ Readable
    /\ Arrive("stats", "stats",
              Found([current_tick      |-> system.current_tick,
                     current_iteration |-> system.current_iteration,
                     total_supply      |-> system.total_supply,
                     n_wallets         |-> system.n_wallets,
                     n_active_wallets  |-> system.n_active_wallets,
                     last_inflation    |-> system.last_inflation]))

-----------------------------------------------------------------------------
(* The envelope.                                                           *)

\* Mutant: the answer "not found" is never sent.
RespondWhenFound ==
    /\ endpoint \notin {"none", "current"}
    /\ data # NotFound
    /\ Readable
    /\ endpoint' = "none" /\ key' = "none" /\ data' = NotFound /\ since' = 0
    /\ UNCHANGED nodeVars

\* The response goes out, with the tick and the iteration of system.
Respond ==
    /\ endpoint \notin {"none", "current"}
    /\ Readable
    /\ endpoint' = "none" /\ key' = "none" /\ data' = NotFound /\ since' = 0
    /\ UNCHANGED nodeVars

Serve ==
    \/ \E id \in Users \cup DOMAIN wallets : GetWallet(id) \/ WalletTransactions(id)
    \/ \E t \in DOMAIN poh : GetTransaction(poh[t].tx)
    \/ \E id \in 1..(system.current_iteration + 1) : GetIteration(id)
    \/ ReadCurrent
    \/ GetCurrentIteration
    \/ IterationHistory
    \/ Stats
    \/ Respond

ReadsInit == NodeInit /\ NoRead

ReadsNext == (NodeNext /\ UNCHANGED read) \/ Serve

\* A handler that runs is polled until it returns; requests to read come as they like, and
\* one that has its data waits in the queue of the fair lock.
ReadsSpec ==
    /\ ReadsInit
    /\ [][ReadsNext]_readVars
    /\ WF_readVars(DoWrite /\ UNCHANGED read)
    /\ WF_readVars(GetCurrentIteration)
    /\ SF_readVars(Respond)

-----------------------------------------------------------------------------
(* What a response is good for.  It is stated of the step that sends it,   *)
(* with system for the envelope, and holds while nothing fails.            *)

Sent(what) == endpoint = what /\ endpoint' = "none"

\* The ticks of the operations that may have been the latest when the data were taken.
Window == since..system.current_tick

BalanceAt(w, tick) ==
    LET upto[t \in 0..tick] == IF t = 0 THEN 0 ELSE upto[t - 1] + EffectOn(poh[t].tx, w)
    IN  upto[tick]

NonceAt(w, tick) == Cardinality({t \in SpendsOf(w) : t <= tick})

\* The wallet w has been created by tick.
CreatedAt(w, tick) ==
    \E t \in 1..tick : \/ poh[t].tx.kind = "mint" /\ poh[t].tx.to = w
                       \/ poh[t].tx.kind = "iteration_commit" /\ w \in poh[t].tx.new_wallets

\* GET /wallet/:id answers with the wallet as it was at some tick between the request and
\* the tick of the envelope: a half-written operation is never shown under an earlier tick,
\* although the data are read without the lock.
WalletAnswerInWindow ==
    [][Sent("wallet") =>
          IF data # NotFound
          THEN \E t \in Window : /\ CreatedAt(key, t)
                                 /\ data[1].balance = BalanceAt(key, t)
                                 /\ data[1].nonce = NonceAt(key, t)
          ELSE ~CreatedAt(key, since)]_readVars

\* GET /wallet/:id/transactions lists every transaction that changed the balance of the
\* wallet and was accepted before the request, unless the list is full (which ones it keeps
\* then is arbitrary), and none that is not anchored at a tick the envelope covers.  A
\* transaction that the chain names is always found by its id.
HistoryShowsAccepted ==
    [][/\ Sent("transaction") => data # NotFound
       /\ Sent("transactions") =>
             LET listed == data[1]
             IN  /\ \/ \A t \in 1..since : EffectOn(poh[t].tx, key) # 0 => poh[t].tx \in listed
                    \/ Cardinality(listed) = HistoryLimit
                 /\ listed \subseteq {poh[t].tx : t \in 1..system.current_tick}]_readVars

SupplyAt(tick) ==
    LET upto[t \in 0..tick] == IF t = 0 THEN 0 ELSE upto[t - 1] + EffectOnSupply(poh[t].tx)
    IN  upto[tick]

\* The iterations that are anchored by tick.
IterationsAt(tick) ==
    {poh[t].tx.iteration_id : t \in {u \in 1..tick : poh[u].tx.kind = "iteration_commit"}}

\* The summaries agree with the log.  GET /stats and the event stream show the supply and
\* the iteration of the tick they name; GET /iteration/current always finds the commit of the
\* iteration that was current, so its fallback without a commit is never sent; GET
\* /iteration/:id finds what was anchored before the request and nothing later than the
\* answer; and the histories of supply and Gini have one point for each iteration up to some
\* tick between the two.
SummariesFollowLog ==
    [][/\ Sent("stats") => /\ data[1].current_tick \in Window
                           /\ data[1].total_supply = SupplyAt(data[1].current_tick)
                           /\ 1..data[1].current_iteration = IterationsAt(data[1].current_tick)
       /\ Sent("iteration") => data # NotFound
       /\ Sent("commit") => IF data = NotFound THEN key \notin IterationsAt(since)
                            ELSE key \in IterationsAt(system.current_tick)
       /\ Sent("history") => \E t \in Window : data[1] = IterationsAt(t)]_readVars

\* Every request to read is answered, whatever the writers do: a handler gives the lock back.
EveryReadAnswered == endpoint # "none" ~> endpoint = "none"

=============================================================================
