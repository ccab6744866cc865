----------------------------- MODULE AdminProofs -----------------------------
(***************************************************************************)
(* Proofs about Admin, for any requests, parameter values, wallets and     *)
(* bounds: overlapping requests keep the counts and the files right,       *)
(* although some of what they do runs outside the lock of the system state.*)
(***************************************************************************)
EXTENDS Admin, FiniteSetTheorems, TLAPS

USE RequestsAssumption, WalletsAssumption, BatchesAssumption, BoundsAssumption

(***************************************************************************)
(* The strengthening.                                                      *)
(***************************************************************************)
Labels ==
    {"idle", "stored", "loop", "iterate", "count", "uncounted", "scan", "done", "failed"}

SystemStates == [tick : Nat, iteration : Nat, iteration_lock : BOOLEAN]
LogEntries   == [wallets : SUBSET Wallets, commit : BOOLEAN]
Snaps        == [tick : Nat, iteration : Nat, wallets : Seq(Nat)]

Shapes ==
    /\ simulation \in [running : BOOLEAN, iterations_executed : Nat]
    /\ system \in SystemStates
    /\ wallets \in [Wallets -> Nat]
    /\ pending \subseteq Wallets
    /\ log \in Seq(LogEntries)
    /\ pc \in [Requests -> Labels]
    /\ DOMAIN arg = Requests
    /\ snap \in [Snapshots -> Snaps]

\* As long as no two updates overlapped, the one between store and memory, if there is one,
\* carries what is stored.
OneUpdateAtATime ==
    ~ overlap =>
        /\ \A u, v \in Updates : Updating(u) /\ Updating(v) => u = v
        /\ \A u \in Updates : Updating(u) => arg[u] = store

\* The run that holds the lock is in its iteration.
HolderIterates == holder \in Runs => pc[holder] = "iterate"

\* The log has one entry per tick, and what an entry wrote is still written: later writes
\* carry later ticks.
LogIsWritten ==
    /\ Len(log) = system.tick
    /\ \A t \in 1..Len(log) : \A w \in log[t].wallets : wallets[w] >= t

\* The commits that the log l has up to the tick t.
CommitsUpTo(l, t) == {i \in 1..t : l[i].commit}

IterationsLogged == system.iteration = Cardinality(CommitsUpTo(log, Len(log)))

\* The wallets that a snapshot x has read so far hold every write of the transactions its tick
\* counts, and its iteration is the one of its tick.
Covers(x, l) ==
    /\ x.tick <= Len(l)
    /\ Len(x.wallets) <= NumWallets
    /\ \A t \in 1..x.tick : \A w \in l[t].wallets : w <= Len(x.wallets) => x.wallets[w] >= t
    /\ x.iteration = Cardinality(CommitsUpTo(l, x.tick))

ScansCover == \A s \in Snapshots : pc[s] = "scan" => Covers(snap[s], log)

\* The same of a file of the name n, which is complete.
FileCovers(n, file, l) ==
    /\ file.tick \in 0..Len(l)
    /\ \A t \in 1..file.tick : \A w \in l[t].wallets : file.wallets[w] >= t
    /\ Cardinality(CommitsUpTo(l, file.tick)) = n

FilesCover == \A n \in DOMAIN files : FileCovers(n, files[n], log)

AdminInv ==
    /\ Shapes
    /\ OneUpdateAtATime
    /\ SerialUpdatesAgree
    /\ HolderIterates
    /\ ExecutedMatchesIterations
    /\ LogIsWritten
    /\ IterationsLogged
    /\ ScansCover
    /\ FilesCover
    /\ RunningHasCause

-----------------------------------------------------------------------------
(* The steps by what they touch, so that a part of the invariant is looked *)
(* at only where a step can disturb it.                                    *)

ParameterStep ==
    \E u \in Updates : \/ \E s \in Settings : StoreParameters(u, s)
                       \/ RefuseParameters(u) \/ SwapParameters(u)

TransferStep == (\E a, b \in Wallets : BeginTransfer(a, b)) \/ FinishTransfer \/ WriteSome

SimulationStep ==
    \/ \E r \in Runs : \/ \E n \in Batches : StartRun(r, n)
                       \/ RunStep(r) \/ AbortIteration(r) \/ FailAfterCommit(r)
    \/ StopSimulation

SnapshotStep ==
    \E s \in Snapshots : ReadSystem(s) \/ ScanWallet(s) \/ WriteSnapshot(s) \/ SnapshotFails(s)

LEMMA StepKinds == Next => ParameterStep \/ TransferStep \/ SimulationStep \/ SnapshotStep
BY DEF Next, ParameterStep, TransferStep, SimulationStep, SnapshotStep

\* A commit adds an entry to the log, and one to the iterations if it is an iteration's.
LEMMA CommitShapes ==
    ASSUME Shapes, NEW i \in {0, 1}, Commit(i)
    PROVE  /\ system' = [tick |-> system.tick + 1, iteration |-> system.iteration + i,
                         iteration_lock |-> FALSE]
           /\ system' \in SystemStates
           /\ log' \in Seq(LogEntries)
           /\ Len(log') = Len(log) + 1
           /\ \A t \in 1..Len(log) : log'[t] = log[t]
           /\ log'[Len(log) + 1].wallets = {w \in Wallets : wallets[w] = system.tick + 1}
           /\ log'[Len(log) + 1].commit = (i = 1)
           /\ UNCHANGED <<pending, wallets>>
<1> DEFINE e == [wallets |-> {w \in Wallets : wallets[w] = system.tick + 1}, commit |-> i = 1]
<1>1. /\ system' = [tick |-> system.tick + 1, iteration |-> system.iteration + i,
                    iteration_lock |-> FALSE]
      /\ log' = Append(log, e)
      /\ UNCHANGED <<pending, wallets>>
  BY DEF Commit
<1>2. system.tick \in Nat /\ system.iteration \in Nat /\ log \in Seq(LogEntries)
  BY DEF Shapes, SystemStates
<1>3. e \in LogEntries
  BY DEF LogEntries
<1>4. e.wallets = {w \in Wallets : wallets[w] = system.tick + 1} /\ e.commit = (i = 1)
  OBVIOUS
<1> HIDE DEF e
<1>5. /\ log' \in Seq(LogEntries)
      /\ Len(log') = Len(log) + 1
      /\ \A t \in 1..Len(log) : log'[t] = log[t]
      /\ log'[Len(log) + 1] = e
  BY <1>1, <1>2, <1>3
<1>6. system' \in SystemStates
  BY <1>1, <1>2 DEF SystemStates
<1> QED BY <1>1, <1>4, <1>5, <1>6

LEMMA ShapesStep == Shapes /\ Next => Shapes'
<1> SUFFICES ASSUME Shapes, Next PROVE Shapes'
  OBVIOUS
<1> USE DEF adminVars, ledgerVars, Goto, Arrives, Fault, Requests, Labels
<1>1. CASE ParameterStep
  BY <1>1 DEF ParameterStep, StoreParameters, RefuseParameters, SwapParameters, Shapes
<1>2. CASE TransferStep
  <2>1. CASE \E a, b \in Wallets : BeginTransfer(a, b)
    BY <2>1 DEF BeginTransfer, Acquire, Shapes
  <2>2. CASE FinishTransfer
    BY <2>2, CommitShapes DEF FinishTransfer, Shapes
  <2>3. CASE WriteSome
    BY <2>3 DEF WriteSome, WriteWallet, Shapes, SystemStates
  <2> QED BY <1>2, <2>1, <2>2, <2>3 DEF TransferStep
<1>3. CASE SimulationStep
  <2>1. ASSUME NEW r \in Runs, NEW n \in Batches, StartRun(r, n) PROVE Shapes'
    BY <2>1 DEF StartRun, Shapes
  <2>2. ASSUME NEW r \in Runs, BeginIteration(r) PROVE Shapes'
    BY <2>2 DEF BeginIteration, Acquire, Shapes, SystemStates
  <2>3. ASSUME NEW r \in Runs, IterationRefused(r) \/ AbortIteration(r) PROVE Shapes'
    BY <2>3 DEF IterationRefused, AbortIteration, Shapes
  <2>4. ASSUME NEW r \in Runs, FinishIteration(r) \/ FailAfterCommit(r) PROVE Shapes'
    <3>1. Commit(1)
      BY <2>4 DEF FinishIteration, FailAfterCommit
    <3>2. /\ system' \in SystemStates /\ log' \in Seq(LogEntries)
          /\ UNCHANGED <<pending, wallets>>
      BY <3>1, CommitShapes
    <3>3. UNCHANGED <<simulation, arg, snap>> /\ pc' \in [Requests -> Labels]
      BY <2>4 DEF FinishIteration, FailAfterCommit, Shapes
    <3> QED BY <3>2, <3>3 DEF Shapes
  <2>5. ASSUME NEW r \in Runs, CountIteration(r) \/ FinishRun(r) PROVE Shapes'
    <3>1. simulation' \in [running : BOOLEAN, iterations_executed : Nat]
      <4>1. simulation \in [running : BOOLEAN, iterations_executed : Nat]
        BY DEF Shapes
      <4>2. CASE CountIteration(r)
        BY <4>1, <4>2 DEF CountIteration
      <4>3. CASE FinishRun(r)
        BY <4>1, <4>3 DEF FinishRun
      <4> QED BY <2>5, <4>2, <4>3
    <3>2. pc' \in [Requests -> Labels] /\ DOMAIN arg' = Requests
      BY <2>5 DEF CountIteration, FinishRun, Shapes
    <3>3. UNCHANGED <<ledgerVars, snap>>
      BY <2>5 DEF CountIteration, FinishRun
    <3> QED BY <3>1, <3>2, <3>3 DEF Shapes
  <2>6. CASE StopSimulation
    BY <2>6 DEF StopSimulation, Shapes
  <2> QED BY <1>3, <2>1, <2>2, <2>3, <2>4, <2>5, <2>6 DEF SimulationStep, RunStep
<1>4. CASE SnapshotStep
  <2>1. ASSUME NEW s \in Snapshots, ReadSystem(s) PROVE Shapes'
    BY <2>1 DEF ReadSystem, Shapes, Snaps, SystemStates
  <2>2. ASSUME NEW s \in Snapshots, ScanWallet(s) PROVE Shapes'
    <3> DEFINE read == snap[s].wallets
    <3>1. snap[s] \in Snaps /\ wallets \in [Wallets -> Nat]
      BY DEF Shapes
    <3>2. read \in Seq(Nat) /\ Len(read) \in Nat /\ Len(read) + 1 \in Wallets
      BY <2>2, <3>1 DEF ScanWallet, Snaps, Wallets
    <3>3. Append(read, wallets[Len(read) + 1]) \in Seq(Nat)
      BY <3>1, <3>2
    <3>4. snap' = [snap EXCEPT ![s].wallets = Append(read, wallets[Len(read) + 1])]
      BY <2>2, <3>1 DEF ScanWallet, Shapes
    <3> HIDE DEF read
    <3>5. snap' = [snap EXCEPT ![s] = [@ EXCEPT !.wallets = Append(read, wallets[Len(read) + 1])]]
      BY <3>4
    <3>6. [snap[s] EXCEPT !.wallets = Append(read, wallets[Len(read) + 1])] \in Snaps
      BY <3>1, <3>3 DEF Snaps
    <3>7. snap' \in [Snapshots -> Snaps]
      BY <3>5, <3>6 DEF Shapes
    <3> QED BY <2>2, <3>7 DEF ScanWallet, Shapes
  <2>3. ASSUME NEW s \in Snapshots, WriteSnapshot(s) \/ SnapshotFails(s) PROVE Shapes'
    BY <2>3 DEF WriteSnapshot, SnapshotFails, Shapes
  <2> QED BY <1>4, <2>1, <2>2, <2>3 DEF SnapshotStep
<1> QED BY <1>1, <1>2, <1>3, <1>4, StepKinds

-----------------------------------------------------------------------------
(* Parameters.                                                             *)

\* An update that starts while none is under way is alone until its swap, or is counted as an
\* overlap.
LEMMA UpdatesStep ==
    ASSUME Shapes, OneUpdateAtATime, SerialUpdatesAgree, Next
    PROVE  OneUpdateAtATime' /\ SerialUpdatesAgree'
<1> USE DEF adminVars, Goto, Requests, Updating, Shapes, OneUpdateAtATime, SerialUpdatesAgree
<1>1. ASSUME NEW u \in Updates, NEW s \in Settings, StoreParameters(u, s)
      PROVE  OneUpdateAtATime' /\ SerialUpdatesAgree'
  BY <1>1 DEF StoreParameters
<1>2. ASSUME NEW u \in Updates, RefuseParameters(u)
      PROVE  OneUpdateAtATime' /\ SerialUpdatesAgree'
  BY <1>2 DEF RefuseParameters, Arrives
<1>3. ASSUME NEW u \in Updates, SwapParameters(u)
      PROVE  OneUpdateAtATime' /\ SerialUpdatesAgree'
  BY <1>3 DEF SwapParameters
<1>4. ASSUME UNCHANGED adminVars, \A u \in Updates : pc'[u] = pc[u] /\ arg'[u] = arg[u]
      PROVE  OneUpdateAtATime' /\ SerialUpdatesAgree'
  BY <1>4
<1>5. CASE TransferStep
  BY <1>4, <1>5 DEF TransferStep, BeginTransfer, FinishTransfer, WriteSome, WriteWallet
<1>6. CASE SimulationStep
  BY <1>4, <1>6 DEF SimulationStep, StartRun, RunStep, BeginIteration, IterationRefused,
     FinishIteration, CountIteration, FinishRun, AbortIteration, FailAfterCommit, StopSimulation
<1>7. CASE SnapshotStep
  BY <1>4, <1>7 DEF SnapshotStep, ReadSystem, ScanWallet, WriteSnapshot, SnapshotFails
<1>8. CASE ParameterStep
  BY <1>1, <1>2, <1>3, <1>8 DEF ParameterStep
<1> QED BY <1>5, <1>6, <1>7, <1>8, StepKinds

-----------------------------------------------------------------------------
(* Runs.                                                                   *)

Uncounted == {r \in Runs : pc[r] \in {"count", "uncounted"}}

\* One more run has committed an iteration that it has not counted, or one less.
LEMMA UncountedChanges ==
    /\ IsFiniteSet(Uncounted) /\ Cardinality(Uncounted) \in Nat
    /\ \A r \in Runs \ Uncounted : Cardinality(Uncounted \cup {r}) = Cardinality(Uncounted) + 1
    /\ \A r \in Uncounted : Cardinality(Uncounted \ {r}) = Cardinality(Uncounted) - 1
<1>1. Uncounted \subseteq Runs
  BY DEF Uncounted
<1>2. IsFiniteSet(Uncounted)
  BY <1>1, FS_Subset
<1> QED BY <1>2, FS_CardinalityType, FS_AddElement, FS_RemoveElement

\* A step that commits no iteration and counts none.
LEMMA NothingToCount ==
    ASSUME ExecutedMatchesIterations,
           system'.iteration = system.iteration,
           simulation'.iterations_executed = simulation.iterations_executed,
           \A r \in Runs : (pc'[r] \in {"count", "uncounted"}) <=> (pc[r] \in {"count", "uncounted"})
    PROVE  ExecutedMatchesIterations'
<1>1. Uncounted' = Uncounted
  BY DEF Uncounted
<1> QED BY <1>1 DEF ExecutedMatchesIterations, Uncounted

\* An iteration is counted by the run that committed it, after the lock is released.
LEMMA RunsStep ==
    ASSUME Shapes, HolderIterates, ExecutedMatchesIterations, RunningHasCause, Next
    PROVE  HolderIterates' /\ ExecutedMatchesIterations' /\ RunningHasCause'
<1> USE DEF Goto, Requests
<1>0. /\ system.iteration \in Nat /\ simulation.iterations_executed \in Nat
      /\ DOMAIN pc = Updates \cup Runs \cup Snapshots
      /\ pc \in [Requests -> Labels]
      /\ simulation = [running |-> simulation.running,
                       iterations_executed |-> simulation.iterations_executed]
  BY DEF Shapes, SystemStates
<1>1. ASSUME UNCHANGED <<simulation, system, holder>>, \A r \in Runs : pc'[r] = pc[r]
      PROVE  HolderIterates' /\ ExecutedMatchesIterations' /\ RunningHasCause'
  BY <1>1, NothingToCount DEF HolderIterates, RunningHasCause
<1>2. CASE ParameterStep
  BY <1>0, <1>1, <1>2 DEF ParameterStep, StoreParameters, RefuseParameters, SwapParameters, ledgerVars
<1>3. CASE SnapshotStep
  BY <1>0, <1>1, <1>3
     DEF SnapshotStep, ReadSystem, ScanWallet, WriteSnapshot, SnapshotFails, ledgerVars
<1>4. CASE TransferStep
  <2>1. CASE \E a, b \in Wallets : BeginTransfer(a, b)
    BY <2>1, NothingToCount DEF BeginTransfer, Acquire, HolderIterates, RunningHasCause
  <2>2. CASE FinishTransfer
    <3>1. UNCHANGED <<simulation, pc>> /\ Commit(0) /\ holder' = Free
      BY <2>2 DEF FinishTransfer, Commit
    <3>2. system'.iteration = system.iteration
      BY <1>0, <3>1 DEF Commit
    <3> QED BY <3>1, <3>2, NothingToCount DEF HolderIterates, RunningHasCause, Free
  <2>3. CASE WriteSome
    BY <1>1, <2>3 DEF WriteSome, WriteWallet
  <2> QED BY <1>4, <2>1, <2>2, <2>3 DEF TransferStep
<1>5. CASE StopSimulation
  BY <1>0, <1>5, NothingToCount DEF StopSimulation, ledgerVars, HolderIterates, RunningHasCause
<1>6. ASSUME NEW r \in Runs, NEW n \in Batches, StartRun(r, n)
      PROVE  HolderIterates' /\ ExecutedMatchesIterations' /\ RunningHasCause'
  BY <1>0, <1>6, NothingToCount
     DEF StartRun, Arrives, ledgerVars, HolderIterates, RunningHasCause
<1>7. ASSUME NEW r \in Runs, BeginIteration(r)
      PROVE  HolderIterates' /\ ExecutedMatchesIterations' /\ RunningHasCause'
  <2>1. system'.iteration = system.iteration
    BY <1>7 DEF BeginIteration, Shapes, SystemStates
  <2> QED BY <1>0, <1>7, <2>1, NothingToCount
          DEF BeginIteration, Acquire, HolderIterates, RunningHasCause
<1>8. ASSUME NEW r \in Runs, IterationRefused(r) \/ AbortIteration(r)
      PROVE  HolderIterates' /\ ExecutedMatchesIterations' /\ RunningHasCause'
  BY <1>0, <1>8, NothingToCount
     DEF IterationRefused, AbortIteration, ledgerVars, HolderIterates, RunningHasCause, Free
<1>9. ASSUME NEW r \in Runs, FinishIteration(r) \/ FailAfterCommit(r)
      PROVE  HolderIterates' /\ ExecutedMatchesIterations' /\ RunningHasCause'
  <2>1. /\ holder = r /\ holder' = Free /\ simulation' = simulation
        /\ system'.iteration = system.iteration + 1
        /\ pc'[r] \in {"count", "uncounted"} /\ \A q \in Runs \ {r} : pc'[q] = pc[q]
    BY <1>0, <1>9 DEF FinishIteration, FailAfterCommit, Commit
  <2>2. pc[r] = "iterate"
    BY <2>1 DEF HolderIterates
  <2>3. Uncounted' = Uncounted \cup {r} /\ r \notin Uncounted
    BY <2>1, <2>2 DEF Uncounted
  <2>4. Cardinality(Uncounted') = Cardinality(Uncounted) + 1
    BY <2>3, UncountedChanges
  <2>5. ExecutedMatchesIterations'
    BY <1>0, <2>1, <2>4, UncountedChanges DEF ExecutedMatchesIterations, Uncounted
  <2> QED BY <2>1, <2>2, <2>5 DEF HolderIterates, RunningHasCause, Free
<1>10. ASSUME NEW r \in Runs, CountIteration(r)
       PROVE  HolderIterates' /\ ExecutedMatchesIterations' /\ RunningHasCause'
  <2>1. /\ pc[r] = "count" /\ UNCHANGED <<system, holder>>
        /\ simulation'.iterations_executed = simulation.iterations_executed + 1
        /\ pc'[r] = "loop" /\ \A q \in Runs \ {r} : pc'[q] = pc[q]
    BY <1>0, <1>10 DEF CountIteration, ledgerVars
  <2>2. Uncounted' = Uncounted \ {r} /\ r \in Uncounted
    BY <2>1 DEF Uncounted
  <2>3. Cardinality(Uncounted') = Cardinality(Uncounted) - 1
    BY <2>2, UncountedChanges
  <2>4. ExecutedMatchesIterations'
    BY <1>0, <2>1, <2>3, UncountedChanges DEF ExecutedMatchesIterations, Uncounted
  <2> QED BY <2>1, <2>4 DEF HolderIterates, RunningHasCause
<1>11. ASSUME NEW r \in Runs, FinishRun(r)
       PROVE  HolderIterates' /\ ExecutedMatchesIterations' /\ RunningHasCause'
  BY <1>0, <1>11, NothingToCount DEF FinishRun, ledgerVars, HolderIterates, RunningHasCause
<1> QED BY <1>2, <1>3, <1>4, <1>5, <1>6, <1>7, <1>8, <1>9, <1>10, <1>11, StepKinds
        DEF SimulationStep, RunStep

-----------------------------------------------------------------------------
(* The log, the snapshots that are being read, and the files.              *)

\* The log m goes on where the log l ends.
Prolongs(l, m) ==
    /\ Len(l) \in Nat
    /\ Len(m) \in Nat
    /\ Len(l) <= Len(m)
    /\ \A t \in 1..Len(l) : m[t] = l[t]

LogKept == Prolongs(log, log')

LEMMA CommitsFinite ==
    ASSUME NEW l, NEW t \in Nat
    PROVE  IsFiniteSet(CommitsUpTo(l, t)) /\ Cardinality(CommitsUpTo(l, t)) \in Nat
<1>1. IsFiniteSet(1..t)
  BY FS_Interval
<1>2. CommitsUpTo(l, t) \subseteq 1..t
  BY DEF CommitsUpTo
<1>3. IsFiniteSet(CommitsUpTo(l, t))
  BY <1>1, <1>2, FS_Subset
<1> QED BY <1>3, FS_CardinalityType

\* A locked section writes its wallets at the tick it is about to commit, so the entry it appends
\* lists what is written, and every earlier entry is covered by its own or a later write.
LEMMA CommitLogs ==
    ASSUME Shapes, LogIsWritten, IterationsLogged, NEW i \in {0, 1}, Commit(i)
    PROVE  LogKept /\ LogIsWritten' /\ IterationsLogged'
<1> DEFINE k == Len(log)
<1>1. /\ system'.tick = system.tick + 1 /\ system'.iteration = system.iteration + i
      /\ Len(log') = k + 1
      /\ \A t \in 1..k : log'[t] = log[t]
      /\ log'[k + 1].wallets = {w \in Wallets : wallets[w] = system.tick + 1}
      /\ log'[k + 1].commit = (i = 1)
      /\ wallets' = wallets
  BY CommitShapes
<1>2. k \in Nat /\ system.tick = k /\ system.iteration = Cardinality(CommitsUpTo(log, k))
  BY DEF Shapes, LogIsWritten, IterationsLogged
<1>3. LogKept
  BY <1>1, <1>2 DEF LogKept, Prolongs
<1>4. LogIsWritten'
  <2>1. Len(log') = system'.tick
    BY <1>1, <1>2
  <2>2. ASSUME NEW t \in 1..Len(log'), NEW w \in log'[t].wallets PROVE wallets'[w] >= t
    <3>1. CASE t = k + 1
      BY <1>1, <1>2, <2>2, <3>1 DEF Shapes
    <3>2. CASE t \in 1..k
      BY <1>1, <2>2, <3>2 DEF LogIsWritten
    <3> QED BY <1>1, <1>2, <3>1, <3>2
  <2> QED BY <2>1, <2>2 DEF LogIsWritten
<1>5. IterationsLogged'
  <2> DEFINE C == CommitsUpTo(log, k)
             D == {t \in 1..(k + 1) : log'[t].commit}
  <2>1. D = (IF i = 1 THEN C \cup {k + 1} ELSE C) /\ k + 1 \notin C
    <3>1. C = {t \in 1..k : log[t].commit}
      BY Zenon DEF CommitsUpTo
    <3>2. \A t \in 1..k : log'[t].commit = log[t].commit
      BY <1>1
    <3>3. log'[k + 1].commit = (i = 1)
      BY <1>1
    <3>4. D = {t \in 1..k : log[t].commit} \cup {t \in {k + 1} : log'[t].commit}
      <4> HIDE DEF k
      <4> QED BY <1>2, <3>2
    <3>5. {t \in {k + 1} : log'[t].commit} = IF i = 1 THEN {k + 1} ELSE {}
      BY <3>3
    <3>6. k + 1 \notin C
      BY <1>2, <3>1
    <3> HIDE DEF D
    <3> QED BY <3>1, <3>4, <3>5, <3>6
  <2>2. IsFiniteSet(C) /\ Cardinality(C) \in Nat
    BY <1>2, CommitsFinite
  <2>3. IterationsLogged' <=> system'.iteration = Cardinality(D)
    BY <1>1, Zenon DEF IterationsLogged, CommitsUpTo
  <2> HIDE DEF C, D
  <2>4. Cardinality(C \cup {k + 1}) = Cardinality(C) + 1
    BY <2>1, <2>2, FS_AddElement
  <2>5. Cardinality(D) = Cardinality(C) + i
    BY <2>1, <2>2, <2>4
  <2>6. system.iteration = Cardinality(C)
    BY <1>2 DEF C
  <2> QED BY <1>1, <2>3, <2>5, <2>6
<1> QED BY <1>3, <1>4, <1>5

LEMMA LogStep ==
    ASSUME Shapes, LogIsWritten, IterationsLogged, Next
    PROVE  LogKept /\ LogIsWritten' /\ IterationsLogged'
<1>1. ASSUME UNCHANGED <<log, wallets>>, system'.tick = system.tick,
             system'.iteration = system.iteration
      PROVE  LogKept /\ LogIsWritten' /\ IterationsLogged'
  <2>1. LogKept
    BY <1>1 DEF Shapes, LogKept, Prolongs
  <2>2. LogIsWritten'
    BY <1>1 DEF LogIsWritten
  <2>3. IterationsLogged'
    BY <1>1, Zenon DEF IterationsLogged, CommitsUpTo
  <2> QED BY <2>1, <2>2, <2>3
<1>2. CASE ParameterStep
  BY <1>1, <1>2 DEF ParameterStep, StoreParameters, RefuseParameters, SwapParameters, ledgerVars
<1>3. CASE SnapshotStep
  BY <1>1, <1>3 DEF SnapshotStep, ReadSystem, ScanWallet, WriteSnapshot, SnapshotFails, ledgerVars
<1>4. CASE TransferStep
  <2>1. CASE \E a, b \in Wallets : BeginTransfer(a, b)
    BY <1>1, <2>1 DEF BeginTransfer
  <2>2. CASE FinishTransfer
    BY <2>2, CommitLogs DEF FinishTransfer
  <2>3. CASE WriteSome
    <3>1. PICK x \in Wallets : WriteWallet(x)
      BY <2>3 DEF WriteSome
    <3>2. /\ UNCHANGED <<log, system>>
          /\ wallets' = [wallets EXCEPT ![x] = system.tick + 1]
      BY <3>1 DEF WriteWallet
    <3>3. Len(log) \in Nat /\ system.tick = Len(log) /\ wallets \in [Wallets -> Nat]
      BY DEF Shapes, LogIsWritten
    <3>4. ASSUME NEW t \in 1..Len(log), NEW w \in log[t].wallets PROVE wallets'[w] >= t
      <4>1. wallets[w] >= t
        BY DEF LogIsWritten
      <4>2. CASE w = x
        BY <3>2, <3>3, <4>2
      <4>3. CASE w # x
        <5>1. log[t] \in LogEntries
          BY DEF Shapes
        <5>2. w \in Wallets
          BY <5>1 DEF LogEntries
        <5> QED BY <3>2, <3>3, <4>1, <4>3, <5>2
      <4> QED BY <4>2, <4>3
    <3>5. LogKept
      BY <3>2, <3>3 DEF LogKept, Prolongs
    <3>6. LogIsWritten'
      BY <3>2, <3>3, <3>4 DEF LogIsWritten
    <3>7. IterationsLogged'
      BY <3>2, Zenon DEF IterationsLogged, CommitsUpTo
    <3> QED BY <3>5, <3>6, <3>7
  <2> QED BY <1>4, <2>1, <2>2, <2>3 DEF TransferStep
<1>5. CASE SimulationStep
  <2>1. ASSUME NEW r \in Runs, FinishIteration(r) \/ FailAfterCommit(r)
        PROVE  LogKept /\ LogIsWritten' /\ IterationsLogged'
    BY <2>1, CommitLogs DEF FinishIteration, FailAfterCommit
  <2>2. ASSUME NEW r \in Runs, BeginIteration(r)
        PROVE  LogKept /\ LogIsWritten' /\ IterationsLogged'
    BY <1>1, <2>2 DEF BeginIteration, Shapes, SystemStates
  <2> QED BY <1>1, <1>5, <2>1, <2>2
          DEF SimulationStep, RunStep, StartRun, IterationRefused, CountIteration, FinishRun,
              AbortIteration, StopSimulation, ledgerVars
<1> QED BY <1>2, <1>3, <1>4, <1>5, StepKinds

\* What was right of the past stays right when the log grows.
LEMMA PastStays ==
    ASSUME NEW l, NEW m, Prolongs(l, m), NEW k \in 0..Len(l)
    PROVE  CommitsUpTo(m, k) = CommitsUpTo(l, k)
BY DEF Prolongs, CommitsUpTo

LEMMA CoverStays ==
    ASSUME NEW l, NEW m, Prolongs(l, m), NEW x \in Snaps, Covers(x, l)
    PROVE  Covers(x, m)
<1>1. x.tick \in 0..Len(l)
  BY DEF Snaps, Covers, Prolongs
<1>2. CommitsUpTo(m, x.tick) = CommitsUpTo(l, x.tick)
  BY <1>1, PastStays
<1>3. x.tick <= Len(m) /\ \A t \in 1..x.tick : m[t] = l[t]
  BY <1>1 DEF Prolongs
<1> QED BY <1>2, <1>3 DEF Covers

LEMMA FileStays ==
    ASSUME NEW l, NEW m, Prolongs(l, m), NEW n, NEW file, FileCovers(n, file, l)
    PROVE  FileCovers(n, file, m)
<1>1. file.tick \in 0..Len(l)
  BY DEF FileCovers
<1>2. CommitsUpTo(m, file.tick) = CommitsUpTo(l, file.tick)
  BY <1>1, PastStays
<1>3. file.tick \in 0..Len(m) /\ \A t \in 1..file.tick : m[t] = l[t]
  BY <1>1 DEF Prolongs
<1> QED BY <1>2, <1>3 DEF FileCovers

\* list_wallets reads what the log has caused so far, whichever handlers run in between.
LEMMA ScansStep ==
    ASSUME Shapes, LogIsWritten, IterationsLogged, ScansCover, LogKept, Next
    PROVE  ScansCover'
<1> USE DEF Goto, Requests
<1>0. /\ pc \in [Updates \cup Runs \cup Snapshots -> Labels]
      /\ snap \in [Snapshots -> Snaps]
  BY DEF Shapes
<1>1. ASSUME NEW s \in Snapshots, pc[s] = "scan", snap'[s] = snap[s] PROVE Covers(snap'[s], log')
  <2>1. snap[s] \in Snaps /\ Covers(snap[s], log)
    BY <1>0, <1>1 DEF ScansCover
  <2> QED BY <1>1, <2>1, CoverStays DEF LogKept
<1>2. ASSUME NEW s \in Snapshots,
             \A q \in Snapshots \ {s} : pc'[q] = pc[q] /\ snap'[q] = snap[q],
             pc'[s] = "scan" => Covers(snap'[s], log')
      PROVE  ScansCover'
  BY <1>1, <1>2 DEF ScansCover
<1>3. CASE \A s \in Snapshots : pc'[s] = pc[s] /\ snap'[s] = snap[s]
  BY <1>1, <1>3 DEF ScansCover
<1>4. CASE ParameterStep
  BY <1>0, <1>3, <1>4 DEF ParameterStep, StoreParameters, RefuseParameters, SwapParameters
<1>5. CASE TransferStep
  BY <1>0, <1>3, <1>5 DEF TransferStep, BeginTransfer, FinishTransfer, WriteSome, WriteWallet
<1>6. CASE SimulationStep
  BY <1>0, <1>3, <1>6 DEF SimulationStep, StartRun, RunStep, BeginIteration, IterationRefused,
     FinishIteration, CountIteration, FinishRun, AbortIteration, FailAfterCommit, StopSimulation
<1>7. ASSUME NEW s \in Snapshots, ReadSystem(s) PROVE ScansCover'
  <2>1. /\ log' = log
        /\ snap'[s] = [tick |-> system.tick, iteration |-> system.iteration, wallets |-> <<>>]
        /\ \A q \in Snapshots \ {s} : pc'[q] = pc[q] /\ snap'[q] = snap[q]
    BY <1>0, <1>7 DEF ReadSystem, ledgerVars
  <2>2. Len(log) \in Nat /\ system.tick = Len(log)
    BY DEF Shapes, LogIsWritten
  <2>3. Covers(snap'[s], log)
    <3> DEFINE x == [tick |-> system.tick, iteration |-> system.iteration, wallets |-> <<>>]
    <3>1. x.tick = Len(log) /\ x.iteration = system.iteration /\ Len(x.wallets) = 0
      BY <2>2
    <3>2. \A t \in 1..Len(log) : \A w \in log[t].wallets : ~ (w <= Len(x.wallets))
      <4>1. \A t \in 1..Len(log) : log[t] \in LogEntries
        BY DEF Shapes
      <4>2. \A w \in Wallets : ~ (w <= Len(x.wallets))
        BY <3>1 DEF Wallets
      <4> HIDE DEF x
      <4> QED BY <4>1, <4>2 DEF LogEntries
    <3> HIDE DEF x
    <3>3. Covers(x, log)
      BY <2>2, <3>1, <3>2 DEF Covers, IterationsLogged
    <3> QED BY <2>1, <3>3 DEF x
  <2> QED BY <1>2, <2>1, <2>3
<1>8. ASSUME NEW s \in Snapshots, ScanWallet(s) PROVE ScansCover'
  <2> DEFINE x == snap[s]
             read == x.wallets
             y == snap'[s]
  <2>1. /\ x \in Snaps /\ pc[s] = "scan" /\ Len(read) < NumWallets /\ log' = log
        /\ snap' = [snap EXCEPT ![s].wallets = Append(read, wallets[Len(read) + 1])]
        /\ \A q \in Snapshots \ {s} : pc'[q] = pc[q] /\ snap'[q] = snap[q]
    BY <1>0, <1>8 DEF ScanWallet, ledgerVars
  <2>2. /\ y.tick = x.tick /\ y.iteration = x.iteration
        /\ y.wallets = Append(read, wallets[Len(read) + 1])
    BY <1>0, <2>1 DEF Snaps
  <2>3. read \in Seq(Nat) /\ Len(read) \in Nat /\ x.tick \in Nat
    BY <2>1 DEF Snaps
  <2>4. Covers(x, log)
    BY <2>1 DEF ScansCover
  <2> HIDE DEF x, y
  <2>5. /\ Len(y.wallets) = Len(read) + 1
        /\ \A w \in 1..Len(read) : y.wallets[w] = read[w]
        /\ y.wallets[Len(read) + 1] = wallets[Len(read) + 1]
    <3>1. Len(read) + 1 \in Wallets
      BY <2>1, <2>3 DEF Wallets
    <3>2. wallets[Len(read) + 1] \in Nat
      BY <3>1 DEF Shapes
    <3> QED BY <2>2, <2>3, <3>2
  <2>6. ASSUME NEW t \in 1..x.tick, NEW w \in log[t].wallets, w <= Len(y.wallets)
        PROVE  y.wallets[w] >= t
    <3>1. t \in 1..Len(log)
      BY <2>3, <2>4 DEF Covers, Shapes
    <3>2. w \in 1..NumWallets /\ wallets[w] >= t
      <4>1. log[t] \in LogEntries
        BY <3>1 DEF Shapes
      <4> QED BY <3>1, <4>1 DEF LogEntries, LogIsWritten, Wallets
    <3>3. CASE w <= Len(read)
      <4>1. read[w] >= t
        BY <2>4, <3>3 DEF Covers
      <4>2. y.wallets[w] = read[w]
        BY <2>3, <2>5, <3>2, <3>3
      <4> QED BY <4>1, <4>2
    <3>4. CASE w = Len(read) + 1
      BY <2>5, <3>2, <3>4
    <3> QED BY <2>3, <2>5, <2>6, <3>2, <3>3, <3>4
  <2>7. Covers(y, log)
    <3>1. Len(y.wallets) <= NumWallets
      BY <2>1, <2>3, <2>5
    <3> QED BY <2>2, <2>4, <2>6, <3>1 DEF Covers
  <2> QED BY <1>2, <2>1, <2>7 DEF y
<1>9. ASSUME NEW s \in Snapshots, WriteSnapshot(s) \/ SnapshotFails(s) PROVE ScansCover'
  <2>1. /\ pc'[s] # "scan"
        /\ \A q \in Snapshots \ {s} : pc'[q] = pc[q] /\ snap'[q] = snap[q]
    BY <1>0, <1>9 DEF WriteSnapshot, SnapshotFails
  <2> QED BY <1>2, <2>1
<1> QED BY <1>4, <1>5, <1>6, <1>7, <1>8, <1>9, StepKinds DEF SnapshotStep

\* iter_N.json is written by a snapshot that has read every wallet, or by the iteration that
\* still holds the lock.
LEMMA FilesStep ==
    ASSUME Shapes, LogIsWritten, LogIsWritten', IterationsLogged', ScansCover, FilesCover,
           LogKept, Next
    PROVE  FilesCover'
<1>1. ASSUME NEW n \in DOMAIN files, files'[n] = files[n] PROVE FileCovers(n, files'[n], log')
  <2>1. FileCovers(n, files[n], log)
    BY DEF FilesCover
  <2> QED BY <1>1, <2>1, FileStays DEF LogKept
<1>2. ASSUME NEW n, NEW file, files' = Saved(n, file), FileCovers(n, file, log')
      PROVE  FilesCover'
  <2>1. DOMAIN files' = DOMAIN files \cup {n} /\ files'[n] = file
        /\ \A m \in DOMAIN files \ {n} : files'[m] = files[m]
    BY <1>2 DEF Saved
  <2>2. ASSUME NEW m \in DOMAIN files' PROVE FileCovers(m, files'[m], log')
    BY <1>1, <1>2, <2>1
  <2> QED BY <2>2 DEF FilesCover
<1>3. CASE files' = files
  BY <1>1, <1>3 DEF FilesCover
<1>4. ASSUME NEW r \in Runs, FinishIteration(r) PROVE FilesCover'
  <2> DEFINE file == [tick |-> system'.tick, wallets |-> wallets]
  <2>1. Commit(1) /\ files' \in {files, Saved(system'.iteration, file)}
    BY <1>4 DEF FinishIteration
  <2>2. wallets' = wallets
    BY <2>1, CommitShapes
  <2>3. Len(log') \in Nat /\ system'.tick = Len(log')
    BY DEF LogKept, Prolongs, LogIsWritten
  <2>4. \A t \in 1..Len(log') : \A w \in log'[t].wallets : wallets[w] >= t
    BY <2>2 DEF LogIsWritten
  <2>5. Cardinality(CommitsUpTo(log', Len(log'))) = system'.iteration
    BY DEF IterationsLogged
  <2>6. FileCovers(system'.iteration, file, log')
    BY <2>3, <2>4, <2>5 DEF FileCovers
  <2> HIDE DEF file
  <2> QED BY <1>2, <1>3, <2>1, <2>6
<1>5. ASSUME NEW s \in Snapshots, WriteSnapshot(s) PROVE FilesCover'
  <2> DEFINE x == snap[s]
             file == [tick |-> x.tick, wallets |-> x.wallets]
  <2>1. /\ pc[s] = "scan" /\ Len(x.wallets) = NumWallets /\ log' = log
        /\ files' = Saved(x.iteration, file)
    BY <1>5 DEF WriteSnapshot, ledgerVars
  <2>2. Covers(x, log) /\ x.tick \in Nat
    BY <2>1 DEF ScansCover, Shapes, Snaps
  <2> HIDE DEF x
  <2>3. x.tick \in 0..Len(log)
    BY <2>2 DEF Covers, LogKept, Prolongs
  <2>4. ASSUME NEW t \in 1..x.tick, NEW w \in log[t].wallets PROVE x.wallets[w] >= t
    <3>1. log[t] \in LogEntries
      BY <2>3 DEF Shapes
    <3>2. w <= Len(x.wallets)
      BY <2>1, <3>1 DEF LogEntries, Wallets
    <3> QED BY <2>2, <3>2 DEF Covers
  <2>5. Cardinality(CommitsUpTo(log, x.tick)) = x.iteration
    BY <2>2 DEF Covers
  <2>6. FileCovers(x.iteration, file, log')
    BY <2>1, <2>3, <2>4, <2>5 DEF FileCovers
  <2> HIDE DEF file
  <2> QED BY <1>2, <2>1, <2>6
<1>6. CASE ParameterStep
  BY <1>3, <1>6 DEF ParameterStep, StoreParameters, RefuseParameters, SwapParameters
<1>7. CASE TransferStep
  BY <1>3, <1>7 DEF TransferStep, BeginTransfer, FinishTransfer, WriteSome, WriteWallet
<1>8. CASE SimulationStep
  BY <1>3, <1>4, <1>8 DEF SimulationStep, StartRun, RunStep, BeginIteration, IterationRefused,
     CountIteration, FinishRun, AbortIteration, FailAfterCommit, StopSimulation
<1>9. CASE SnapshotStep
  BY <1>3, <1>5, <1>9 DEF SnapshotStep, ReadSystem, ScanWallet, SnapshotFails
<1> QED BY <1>6, <1>7, <1>8, <1>9, StepKinds

-----------------------------------------------------------------------------
(* The invariant.                                                          *)

LEMMA InitAdminInv == Init => AdminInv
<1> SUFFICES ASSUME Init PROVE AdminInv
  OBVIOUS
<1> USE DEF Init
<1>1. Shapes
  <2>1. log \in Seq(LogEntries) /\ <<>> \in Seq(Nat)
    OBVIOUS
  <2>2. snap \in [Snapshots -> Snaps]
    BY <2>1 DEF Snaps
  <2> QED BY <2>1, <2>2 DEF Shapes, SystemStates, Labels
<1>2. OneUpdateAtATime /\ SerialUpdatesAgree
  BY DEF OneUpdateAtATime, SerialUpdatesAgree, Updating, Requests
<1>3. HolderIterates /\ RunningHasCause
  BY DEF HolderIterates, RunningHasCause, Free
<1>4. ExecutedMatchesIterations
  <2>1. Uncounted = {}
    BY DEF Uncounted, Requests
  <2>2. Cardinality(Uncounted) = 0
    BY <2>1, FS_EmptySet
  <2> QED BY <2>2 DEF ExecutedMatchesIterations, Uncounted
<1>5. Len(log) = 0
  OBVIOUS
<1>6. LogIsWritten
  BY <1>5 DEF LogIsWritten
<1>7. IterationsLogged
  <2>1. CommitsUpTo(log, Len(log)) = {}
    BY <1>5 DEF CommitsUpTo
  <2> QED BY <2>1, FS_EmptySet DEF IterationsLogged
<1>8. ScansCover /\ FilesCover
  BY DEF ScansCover, FilesCover, Requests
<1> QED BY <1>1, <1>2, <1>3, <1>4, <1>6, <1>7, <1>8 DEF AdminInv

LEMMA NextAdminInv == AdminInv /\ [Next]_vars => AdminInv'
<1> SUFFICES ASSUME AdminInv, [Next]_vars PROVE AdminInv'
  OBVIOUS
<1>1. CASE Next
  <2>1. Shapes'
    BY <1>1, ShapesStep DEF AdminInv
  <2>2. OneUpdateAtATime' /\ SerialUpdatesAgree'
    BY <1>1, UpdatesStep DEF AdminInv
  <2>3. HolderIterates' /\ ExecutedMatchesIterations' /\ RunningHasCause'
    BY <1>1, RunsStep DEF AdminInv
  <2>4. LogKept /\ LogIsWritten' /\ IterationsLogged'
    BY <1>1, LogStep DEF AdminInv
  <2>5. ScansCover'
    BY <1>1, <2>4, ScansStep DEF AdminInv
  <2>6. FilesCover'
    BY <1>1, <2>4, FilesStep DEF AdminInv
  <2> QED BY <2>1, <2>2, <2>3, <2>4, <2>5, <2>6 DEF AdminInv
<1>2. CASE UNCHANGED vars
  <2> USE <1>2 DEF vars, adminVars, ledgerVars, AdminInv
  <2>1. Shapes'
    BY DEF Shapes
  <2>2. OneUpdateAtATime' /\ SerialUpdatesAgree'
    BY DEF OneUpdateAtATime, SerialUpdatesAgree, Updating
  <2>3. HolderIterates' /\ ExecutedMatchesIterations' /\ RunningHasCause'
    BY DEF HolderIterates, ExecutedMatchesIterations, RunningHasCause
  <2>4. LogIsWritten' /\ IterationsLogged'
    BY DEF LogIsWritten, IterationsLogged
  <2>5. ScansCover' /\ FilesCover'
    BY DEF ScansCover, FilesCover
  <2> QED BY <2>1, <2>2, <2>3, <2>4, <2>5
<1> QED BY <1>1, <1>2

\* The strengthening holds in every reachable state.
THEOREM AdminInvariant == Spec => []AdminInv
<1>1. Init => AdminInv
  BY InitAdminInv
<1>2. AdminInv /\ [Next]_vars => AdminInv'
  BY NextAdminInv
<1> QED BY <1>1, <1>2, PTL DEF Spec

\* PUT /admin/parameters: as long as no two updates overlapped, what is stored is in force.
THEOREM StoreAndMemoryAgree == Spec => []SerialUpdatesAgree
<1>1. AdminInv => SerialUpdatesAgree
  BY DEF AdminInv
<1> QED BY <1>1, AdminInvariant, PTL

\* iterations_executed counts every iteration once, whichever runs overlap and fail.
THEOREM EveryIterationIsCounted == Spec => []ExecutedMatchesIterations
<1>1. AdminInv => ExecutedMatchesIterations
  BY DEF AdminInv
<1> QED BY <1>1, AdminInvariant, PTL

\* The running flag is up only for a run that is under way or failed.
THEOREM FlagHasCause == Spec => []RunningHasCause
<1>1. AdminInv => RunningHasCause
  BY DEF AdminInv
<1> QED BY <1>1, AdminInvariant, PTL

\* A snapshot file is never older than its tick says, although its wallets are read without the
\* lock.
THEOREM SnapshotsAreCurrent == Spec => []SnapshotCoversItsTick
<1>1. AdminInv => SnapshotCoversItsTick
  BY DEF AdminInv, FilesCover, FileCovers, SnapshotCoversItsTick
<1> QED BY <1>1, AdminInvariant, PTL

\* iter_N.json is a state in which exactly N iterations are committed.
THEOREM SnapshotsAreFiledRight == Spec => []SnapshotInItsIteration
<1>1. AdminInv => SnapshotInItsIteration
  BY DEF AdminInv, FilesCover, FileCovers, SnapshotInItsIteration, CommitsUpTo
<1> QED BY <1>1, AdminInvariant, PTL

=============================================================================
