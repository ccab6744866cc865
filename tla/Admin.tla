------------------------------- MODULE Admin -------------------------------
(***************************************************************************)
(* The administrator's operations of aggora-state, which do not all go     *)
(* through the write lock of the system state: PUT /admin/parameters,      *)
(* POST /admin/simulation/start and /stop, POST /admin/snapshot, together  *)
(* with the handlers they meet.                                            *)
(*                                                                         *)
(* The ledger is reduced to what a snapshot can tell apart: the tick and   *)
(* the iteration of the system state, and for every wallet the tick of the *)
(* transaction that wrote it last.  A handler writes its wallets one by    *)
(* one under the lock; list_wallets reads them without it.                 *)
(***************************************************************************)
EXTENDS Integers, Sequences, FiniteSets

CONSTANTS
    Updates, Runs, Snapshots,  \* requests of the three kinds
    Settings,                  \* values of SystemParameters
    NumWallets,                \* number of wallets
    Batches,                   \* "iterations" of /admin/simulation/start
    MaxRequests,               \* bound on the requests that arrive
    MaxTick,                   \* bound on the ticks at which a transfer starts
    MaxFailures                \* bound on storage errors

\* A request is of one kind, and none of them is one of the lock's other holders.
ASSUME RequestsAssumption ==
    /\ IsFiniteSet(Runs)
    /\ Updates \cap Runs = {} /\ Updates \cap Snapshots = {} /\ Runs \cap Snapshots = {}
    /\ "free" \notin Runs /\ "transfer" \notin Runs
ASSUME WalletsAssumption == NumWallets \in Nat
ASSUME BatchesAssumption == Batches \subseteq Nat
ASSUME BoundsAssumption == MaxRequests \in Nat /\ MaxTick \in Nat /\ MaxFailures \in Nat

VARIABLES
    store, parameters, overlap,  \* stored and in memory; history: two updates at once
    simulation,                  \* SimulationStatus; mode only says which request came last
    system,                      \* [tick, iteration, iteration_lock]
    holder, pending,             \* who holds system.write(), what it has to write
    wallets,                     \* wallet -> tick of its last write
    log,                         \* history: what each transaction wrote
    files,                       \* iter_N.json by N
    pc, arg, snap,               \* per request: place, argument, snapshot read so far
    failures

ledgerVars == <<system, holder, pending, wallets, log>>
adminVars  == <<store, parameters, overlap>>
vars == <<adminVars, simulation, ledgerVars, files, pc, arg, snap, failures>>

Wallets == 1..NumWallets   \* in the order list_wallets reads them
Requests == Updates \union Runs \union Snapshots
Free == "free"

Init ==
    /\ store \in Settings /\ parameters = store /\ overlap = FALSE
    /\ simulation = [running |-> FALSE, iterations_executed |-> 0]
    /\ system = [tick |-> 0, iteration |-> 0, iteration_lock |-> FALSE]
    /\ holder = Free /\ pending = {}
    /\ wallets = [w \in Wallets |-> 0]
    /\ log = <<>>
    /\ files = <<>>
    /\ pc = [r \in Requests |-> "idle"]
    /\ arg = [r \in Requests |-> 0]
    /\ snap = [s \in Snapshots |-> [tick |-> 0, iteration |-> 0, wallets |-> <<>>]]
    /\ failures = 0

Arrives(r) == pc[r] = "idle" /\ Cardinality({q \in Requests : pc[q] # "idle"}) < MaxRequests

Goto(r, label) == pc' = [pc EXCEPT ![r] = label]

Fault == failures < MaxFailures /\ failures' = failures + 1

-----------------------------------------------------------------------------
(* update_parameters: store, then swap under the parameters' own lock.     *)

Updating(u) == pc[u] = "stored"

StoreParameters(u, s) ==
    /\ Arrives(u)
    /\ store' = s
    /\ arg' = [arg EXCEPT ![u] = s]
    /\ overlap' = (overlap \/ \E v \in Updates : Updating(v))
    /\ Goto(u, "stored")
    /\ UNCHANGED <<parameters, simulation, ledgerVars, files, snap, failures>>

\* Mutant: the new parameters are in force before the store has accepted them.
RefusedAfterSwap(u) ==
    /\ Arrives(u) /\ Fault
    /\ parameters' \in Settings
    /\ Goto(u, "failed")
    /\ UNCHANGED <<store, overlap, simulation, ledgerVars, files, arg, snap>>

\* The store refuses the write, and the memory stays as it is.
RefuseParameters(u) ==
    /\ Arrives(u) /\ Fault
    /\ Goto(u, "failed")
    /\ UNCHANGED <<adminVars, simulation, ledgerVars, files, arg, snap>>

SwapParameters(u) ==
    /\ pc[u] = "stored"
    /\ parameters' = arg[u]
    /\ Goto(u, "done")
    /\ UNCHANGED <<store, overlap, simulation, ledgerVars, files, arg, snap, failures>>

-----------------------------------------------------------------------------
(* The locked sections.  A transfer stands for every handler that is not   *)
(* an iteration: it writes one wallet or two.                              *)

Acquire(h, ws) ==
    /\ holder = Free
    /\ holder' = h
    /\ pending' = ws

BeginTransfer(a, b) ==
    /\ system.tick < MaxTick
    /\ ~ system.iteration_lock
    /\ Acquire("transfer", {a, b})
    /\ UNCHANGED <<adminVars, simulation, system, wallets, log, files, pc, arg, snap, failures>>

WriteWallet(w) ==
    /\ w \in pending
    /\ wallets' = [wallets EXCEPT ![w] = system.tick + 1]
    /\ pending' = pending \ {w}
    /\ UNCHANGED <<adminVars, simulation, system, holder, log, files, pc, arg, snap, failures>>

\* append_tx_locked, and the lock is released when the handler returns.
Commit(iterations) ==
    /\ pending = {}
    /\ system' = [tick |-> system.tick + 1, iteration |-> system.iteration + iterations,
                  iteration_lock |-> FALSE]
    /\ log' = Append(log, [wallets |-> {w \in Wallets : wallets[w] = system.tick + 1},
                           commit |-> iterations = 1])
    /\ holder' = Free
    /\ UNCHANGED <<pending, wallets>>

FinishTransfer ==
    /\ holder = "transfer"
    /\ Commit(0)
    /\ UNCHANGED <<adminVars, simulation, files, pc, arg, snap, failures>>

-----------------------------------------------------------------------------
(* run_simulation_iterations                                               *)

StartRun(r, n) ==
    /\ Arrives(r)
    /\ simulation' = [simulation EXCEPT !.running = TRUE]
    /\ arg' = [arg EXCEPT ![r] = IF n = 0 THEN 1 ELSE n]
    /\ Goto(r, "loop")
    /\ UNCHANGED <<adminVars, ledgerVars, files, snap, failures>>

\* execute_iteration_now takes the lock and marks the iteration ...
BeginIteration(r) ==
    /\ pc[r] = "loop" /\ arg[r] > 0
    /\ ~ system.iteration_lock
    /\ Acquire(r, Wallets)
    /\ system' = [system EXCEPT !.iteration_lock = TRUE]
    /\ Goto(r, "iterate")
    /\ UNCHANGED <<adminVars, simulation, wallets, log, files, arg, snap, failures>>

\* Mutant: the iteration is counted before its result is looked at.
IterationRefusedCounted(r) ==
    /\ pc[r] = "loop" /\ arg[r] > 0
    /\ holder = Free
    /\ system.iteration_lock
    /\ simulation' = [simulation EXCEPT !.iterations_executed = @ + 1]
    /\ Goto(r, "failed")
    /\ UNCHANGED <<adminVars, ledgerVars, files, arg, snap, failures>>

\* ... or finds the mark of one that failed; `?' leaves the status as it is.
IterationRefused(r) ==
    /\ pc[r] = "loop" /\ arg[r] > 0
    /\ holder = Free
    /\ system.iteration_lock
    /\ Goto(r, "failed")
    /\ UNCHANGED <<adminVars, simulation, ledgerVars, files, arg, snap, failures>>

Saved(n, content) == [m \in DOMAIN files \union {n} |-> IF m = n THEN content ELSE files[m]]

\* The commit; its snapshot, when snapshot_per_iteration is set, is written
\* before the lock is released.
FinishIteration(r) ==
    /\ holder = r
    /\ Commit(1)
    /\ files' \in {files, Saved(system'.iteration, [tick |-> system'.tick, wallets |-> wallets])}
    /\ Goto(r, "count")
    /\ UNCHANGED <<adminVars, simulation, arg, snap, failures>>

\* A storage error before append_tx_locked leaves iteration_lock set ...
AbortIteration(r) ==
    /\ holder = r /\ Fault
    /\ holder' = Free
    /\ pending' = {}
    /\ Goto(r, "failed")
    /\ UNCHANGED <<adminVars, simulation, system, wallets, log, files, arg, snap>>

\* ... and one after it comes too late for the iteration not to count.
FailAfterCommit(r) ==
    /\ holder = r /\ Fault
    /\ Commit(1)
    /\ Goto(r, "uncounted")
    /\ UNCHANGED <<adminVars, simulation, files, arg, snap>>

CountIteration(r) ==
    /\ pc[r] = "count"
    /\ simulation' = [simulation EXCEPT !.iterations_executed = @ + 1]
    /\ arg' = [arg EXCEPT ![r] = @ - 1]
    /\ Goto(r, "loop")
    /\ UNCHANGED <<adminVars, ledgerVars, files, snap, failures>>

\* Mutant: the flag is left to /admin/simulation/stop.
FinishRunOnly(r) ==
    /\ pc[r] = "loop" /\ arg[r] = 0
    /\ Goto(r, "done")
    /\ UNCHANGED <<adminVars, simulation, ledgerVars, files, arg, snap, failures>>

FinishRun(r) ==
    /\ pc[r] = "loop" /\ arg[r] = 0
    /\ simulation' = [simulation EXCEPT !.running = FALSE]
    /\ Goto(r, "done")
    /\ UNCHANGED <<adminVars, ledgerVars, files, arg, snap, failures>>

\* set_simulation_running(false, "stopped"): a flag, no run looks at it.
StopSimulation ==
    /\ simulation' = [simulation EXCEPT !.running = FALSE]
    /\ UNCHANGED <<adminVars, ledgerVars, files, pc, arg, snap, failures>>

-----------------------------------------------------------------------------
(* create_manual_snapshot: the state under its read lock, the parameters,  *)
(* the wallets one by one as list_wallets meets them, and the file.        *)

ReadSystem(s) ==
    /\ Arrives(s)
    /\ holder = Free
    /\ snap' = [snap EXCEPT ![s] = [tick |-> system.tick, iteration |-> system.iteration,
                                    wallets |-> <<>>]]
    /\ Goto(s, "scan")
    /\ UNCHANGED <<adminVars, simulation, ledgerVars, files, arg, failures>>

ScanWallet(s) ==
    /\ pc[s] = "scan"
    /\ Len(snap[s].wallets) < NumWallets
    /\ snap' = [snap EXCEPT ![s].wallets = Append(@, wallets[Len(@) + 1])]
    /\ UNCHANGED <<adminVars, simulation, ledgerVars, files, pc, arg, failures>>

\* Mutant: the state that goes into the file is read after the wallets.
WriteLatest(s) ==
    /\ pc[s] = "scan"
    /\ Len(snap[s].wallets) = NumWallets
    /\ files' = Saved(system.iteration, [tick |-> system.tick, wallets |-> snap[s].wallets])
    /\ Goto(s, "done")
    /\ UNCHANGED <<adminVars, simulation, ledgerVars, arg, snap, failures>>

\* Mutant: the file is named after the iteration at the time of writing.
WriteUnderLatest(s) ==
    /\ pc[s] = "scan"
    /\ Len(snap[s].wallets) = NumWallets
    /\ files' = Saved(system.iteration, [tick |-> snap[s].tick, wallets |-> snap[s].wallets])
    /\ Goto(s, "done")
    /\ UNCHANGED <<adminVars, simulation, ledgerVars, arg, snap, failures>>

WriteSnapshot(s) ==
    /\ pc[s] = "scan"
    /\ Len(snap[s].wallets) = NumWallets
    /\ files' = Saved(snap[s].iteration, [tick |-> snap[s].tick, wallets |-> snap[s].wallets])
    /\ Goto(s, "done")
    /\ UNCHANGED <<adminVars, simulation, ledgerVars, arg, snap, failures>>

SnapshotFails(s) ==
    /\ pc[s] = "scan" /\ Fault
    /\ Goto(s, "failed")
    /\ UNCHANGED <<adminVars, simulation, ledgerVars, files, arg, snap>>

-----------------------------------------------------------------------------
RunStep(r) ==
    \/ BeginIteration(r) \/ IterationRefused(r) \/ FinishIteration(r)
    \/ CountIteration(r) \/ FinishRun(r)

WriteSome == \E w \in Wallets : WriteWallet(w)

Next ==
    \/ \E u \in Updates : \/ \E s \in Settings : StoreParameters(u, s)
                          \/ RefuseParameters(u) \/ SwapParameters(u)
    \/ \E a, b \in Wallets : BeginTransfer(a, b)
    \/ FinishTransfer \/ WriteSome
    \/ \E r \in Runs : \/ \E n \in Batches : StartRun(r, n)
                       \/ RunStep(r) \/ AbortIteration(r) \/ FailAfterCommit(r)
    \/ StopSimulation
    \/ \E s \in Snapshots : ReadSystem(s) \/ ScanWallet(s) \/ WriteSnapshot(s) \/ SnapshotFails(s)

Spec == Init /\ [][Next]_vars

-----------------------------------------------------------------------------
\* Updates of the parameters that never overlap leave the store and the memory
\* in agreement, a refused one included: a restart changes nothing.  (Two that
\* overlap may not: the store keeps the later write, the memory the later swap.)
SerialUpdatesAgree ==
    (~ overlap /\ \A u \in Updates : ~ Updating(u)) => parameters = store

\* iterations_executed is the number of iterations the state has gone through,
\* but for the ones whose run has yet to take the mutex or failed after the
\* commit, whichever runs overlap.
ExecutedMatchesIterations ==
    system.iteration = simulation.iterations_executed
                       + Cardinality({r \in Runs : pc[r] \in {"count", "uncounted"}})

\* A snapshot holds every write of the transactions its tick counts, although
\* list_wallets runs without the lock while handlers write.
SnapshotCoversItsTick ==
    \A n \in DOMAIN files : \A t \in 1..files[n].tick : \A w \in log[t].wallets :
        files[n].wallets[w] >= t

\* iter_N.json is a state in which N iterations are committed, even when a slow
\* manual snapshot replaces the file after later iterations.
SnapshotInItsIteration ==
    \A n \in DOMAIN files :
        Cardinality({t \in 1..files[n].tick : log[t].commit}) = n

\* The running flag is up only while a run is under way or after an error ended
\* one: whichever runs overlap, and whenever the flag is taken down in between,
\* the last one to finish leaves it down.
RunningHasCause ==
    simulation.running => \E r \in Runs : pc[r] \notin {"idle", "done"}

=============================================================================
