------------------------- MODULE ReplayGuardProofs -------------------------
(***************************************************************************)
(* Proofs about ReplayGuard, for any deliveries, requests, configurations  *)
(* and bounds: what seen_operator_sigs remembers, and for how long.        *)
(***************************************************************************)
EXTENDS ReplayGuard, FiniteSetTheorems, TLAPS

USE RequestsAssumption, SignatureAssumption, ConfigsAssumption, BoundsAssumption

(***************************************************************************)
(* The strengthening.                                                      *)
(***************************************************************************)
Labels ==
    {"unsent", "verify", "verified", "clock", "guard", "admitted", "minted", "rejected",
     "unauthorized", "duplicate", "lost"}

Shapes ==
    /\ now \in Int
    /\ config \in Configs
    /\ restarts \in Nat
    /\ pc \in [Deliveries -> Labels]
    /\ request \in [Deliveries -> Requests \cup {NoRequest}]
    /\ window \in [Deliveries -> SecurityParameters]
    /\ reading \in [Deliveries -> Int]
    /\ admitted \subseteq Deliveries

\* No clock reading is from the future, and the guard never prunes by less than the smallest
\* drift an administrator may set.
ReadingsArePast == \A d \in Deliveries : reading[d] <= now

WindowsAreWide ==
    \A d \in Deliveries : pc[d] \in {"clock", "guard"} => window[d].drift >= SmallestDrift

\* verify_operator_request accepts no signed request but one of an operator.
Accepted(r) == r.sig # Unsigned => r \in Requests /\ r.valid

PassedAreAccepted ==
    /\ \A d \in Deliveries : pc[d] \in {"verified", "clock", "guard"} => Accepted(request[d])
    /\ \A d \in admitted : /\ pc[d] \in {"admitted", "minted", "rejected"}
                           /\ Accepted(request[d])

\* The clock has left the window around b, or has been read before it began.
Forgettable(b) ==
    \/ now > b + SmallestDrift
    \/ \E x \in Guarded : reading[x] < b - SmallestDrift

\* Until then the signature of an admitted delivery is remembered, with the timestamp of its body.
Remembered ==
    \A d \in admitted :
        request[d].sig # Unsigned =>
            \/ request[d].sig \in DOMAIN seen /\ seen[request[d].sig] = request[d].body
            \/ Forgettable(request[d].body)

\* What is remembered has been admitted, unless that was before a restart.
SeenWereAdmitted ==
    restarts = 0 => \A s \in DOMAIN seen : \E d \in admitted : request[d].sig = s

GuardInv ==
    /\ Shapes
    /\ ReadingsArePast
    /\ WindowsAreWide
    /\ PassedAreAccepted
    /\ Remembered
    /\ SeenWereAdmitted
    /\ OnceInsideWindow
    /\ RefusalFollowsAdmission

-----------------------------------------------------------------------------
(* The smallest drift.                                                     *)

\* max(0), as the guard applies it to the drift.
LEMMA AtLeastZero == ASSUME NEW n \in Int PROVE Max({n, 0}) = IF n > 0 THEN n ELSE 0
<1> DEFINE m == IF n > 0 THEN n ELSE 0
<1>1. m \in {n, 0} /\ \A y \in {n, 0} : m >= y
  OBVIOUS
<1>2. \A x \in {n, 0} : (\A y \in {n, 0} : x >= y) => x = m
  OBVIOUS
<1> HIDE DEF m
<1>3. (CHOOSE x \in {n, 0} : \A y \in {n, 0} : x >= y) = m
  BY <1>1, <1>2
<1> QED BY <1>3 DEF Max, m

\* A nonempty set of natural numbers has a least element.
LEMMA LeastNatural ==
    ASSUME NEW T \in SUBSET Nat, T # {}
    PROVE  \E n \in T : \A m \in T : n <= m
<1>1. PICK R : R = {pair \in Nat \X Nat : pair[1] < pair[2]}
  OBVIOUS
<1>2. IsWellFoundedOn(R, Nat)
  BY <1>1, NatLessThanWellFounded DEF OpToRel
<1>3. PICK n \in T : \A m \in T : ~(<<m, n>> \in R)
  BY <1>2, WFMin, Zenon
<1>4. \A m \in T : m < n => <<m, n>> \in R
  BY <1>1
<1>5. \A m \in T : ~(m < n)
  BY <1>3, <1>4, Zenon
<1>6. n \in Nat /\ \A m \in T : m \in Nat
  OBVIOUS
<1> QED BY <1>5, <1>6

\* As there is a configuration, there is a smallest drift, and it is not negative.
LEMMA SmallestDriftIsLeast ==
    ASSUME NEW c \in Configs
    PROVE  SmallestDrift \in Nat /\ \A k \in Configs : SmallestDrift <= Max({k.drift, 0})
<1> DEFINE D == {Max({k.drift, 0}) : k \in Configs}
<1>1. \A k \in Configs : Max({k.drift, 0}) \in Nat
  <2> TAKE k \in Configs
  <2>1. k.drift \in Int
    BY DEF SecurityParameters
  <2>2. Max({k.drift, 0}) = IF k.drift > 0 THEN k.drift ELSE 0
    BY <2>1, AtLeastZero
  <2> QED BY <2>1, <2>2
<1>2. D \in SUBSET Nat /\ D # {}
  BY <1>1
<1>3. \E n \in D : \A m \in D : n <= m
  <2> HIDE DEF D
  <2> QED BY <1>2, LeastNatural
<1>4. SmallestDrift = CHOOSE n \in D : \A m \in D : n <= m
  BY DEF SmallestDrift, Min
<1>5. SmallestDrift \in D /\ \A m \in D : SmallestDrift <= m
  <2> HIDE DEF D
  <2> QED BY <1>3, <1>4
<1> QED BY <1>2, <1>5

-----------------------------------------------------------------------------
(* Steps.                                                                  *)

LEMMA ShapesStep == Shapes /\ Next => Shapes'
<1> SUFFICES ASSUME Shapes, Next PROVE Shapes'
  OBVIOUS
<1> USE DEF Shapes, Goto, Labels
<1>1. ASSUME NEW d \in Deliveries, NEW r \in Requests, Receive(d, r) PROVE Shapes'
  BY <1>1 DEF Receive
<1>2. ASSUME NEW d \in Deliveries, Verify(d) PROVE Shapes'
  BY <1>2 DEF Verify
<1>3. ASSUME NEW d \in Deliveries, LoadDrift(d) PROVE Shapes'
  <2>1. config.drift \in Int /\ config \in SecurityParameters
    BY DEF SecurityParameters
  <2>2. Max({config.drift, 0}) \in Int
    BY <2>1, AtLeastZero
  <2>3. [config EXCEPT !.drift = Max({@, 0})] \in SecurityParameters
    BY <2>1, <2>2 DEF SecurityParameters
  <2>4. window' = [window EXCEPT ![d] = [config EXCEPT !.drift = Max({@, 0})]]
    BY <1>3 DEF LoadDrift
  <2>5. window' \in [Deliveries -> SecurityParameters]
    BY <2>3, <2>4
  <2> QED BY <1>3, <2>5 DEF LoadDrift
<1>4. ASSUME NEW d \in Deliveries, ReadClock(d) PROVE Shapes'
  BY <1>4 DEF ReadClock
<1>5. ASSUME NEW d \in Deliveries, Guard(d) PROVE Shapes'
  BY <1>5 DEF Guard, GuardKey
<1>6. ASSUME NEW d \in Deliveries, Mint(d) \/ Reject(d) PROVE Shapes'
  BY <1>6 DEF Mint, Reject
<1>7. CASE Tick \/ Configure
  BY <1>7 DEF Tick, Configure
<1>8. CASE Restart
  BY <1>8 DEF Restart
<1> QED BY <1>1, <1>2, <1>3, <1>4, <1>5, <1>6, <1>7, <1>8 DEF Next, Handle

\* What the steps other than the guard and a restart have in common: what has passed the guard,
\* and what it remembers, stays.
Quiet ==
    /\ UNCHANGED <<seen, admitted, restarts>>
    /\ now' \in Int /\ now <= now'
    /\ \A d \in Deliveries : pc[d] # "unsent" => request'[d] = request[d]
    /\ \A d \in Guarded : d \in Guarded' /\ reading'[d] = reading[d]
    /\ \A d \in Deliveries : pc'[d] = "duplicate" <=> pc[d] = "duplicate"
    /\ \A d \in admitted : pc'[d] \in {"admitted", "minted", "rejected"}

\* Once a timestamp may be forgotten, it may be forgotten from then on.
LEMMA StaysForgettable ==
    ASSUME Shapes, NEW b \in Int, SmallestDrift \in Int, Forgettable(b),
           now' \in Int, now <= now', \A d \in Guarded : d \in Guarded' /\ reading'[d] = reading[d]
    PROVE  Forgettable(b)'
<1>1. CASE now > b + SmallestDrift
  BY <1>1 DEF Shapes, Forgettable, SmallestDrift
<1>2. CASE \E x \in Guarded : reading[x] < b - SmallestDrift
  BY <1>2 DEF Forgettable, SmallestDrift
<1> QED BY <1>1, <1>2 DEF Forgettable

\* The properties follow from what the guard remembers: a delivery that it lets pass was not
\* remembered.
LEMMA QuietStep ==
    ASSUME GuardInv, Quiet
    PROVE  Remembered' /\ SeenWereAdmitted' /\ OnceInsideWindow' /\ RefusalFollowsAdmission'
<1>1. SmallestDrift \in Nat
  BY SmallestDriftIsLeast DEF GuardInv, Shapes
<1>2. \A d \in admitted : /\ d \in Deliveries /\ request'[d] = request[d]
                          /\ request[d].sig # Unsigned => request[d].body \in Int
  BY DEF Quiet, GuardInv, PassedAreAccepted, Shapes, Accepted
<1>3. \A b \in Int : Forgettable(b) => Forgettable(b)'
  BY <1>1, StaysForgettable DEF Quiet, GuardInv
<1>4. Remembered'
  BY <1>2, <1>3 DEF Quiet, GuardInv, Remembered
<1>5. SeenWereAdmitted'
  BY <1>2 DEF Quiet, GuardInv, SeenWereAdmitted
<1>6. OnceInsideWindow'
  <2> SUFFICES ASSUME NEW d \in admitted', NEW e \in admitted', Copies(d, e)',
                      request'[d].sig # Unsigned
               PROVE  Forgettable(request[d].body)'
    BY <1>2 DEF OnceInsideWindow, Forgettable, Quiet
  <2>1. Copies(d, e) /\ d \in admitted /\ e \in admitted /\ request[d].sig # Unsigned
    BY <1>2 DEF Copies, Quiet
  <2>2. Forgettable(request[d].body)
    BY <2>1 DEF GuardInv, OnceInsideWindow, Forgettable
  <2> QED BY <1>2, <1>3, <2>1, <2>2
<1>7. RefusalFollowsAdmission'
  BY <1>2 DEF Quiet, GuardInv, RefusalFollowsAdmission, Copies
<1> QED BY <1>4, <1>5, <1>6, <1>7

\* The guard forgets a timestamp only when its clock reading is outside the window around it.
LEMMA GuardStep ==
    ASSUME GuardInv, NEW d \in Deliveries, Guard(d)
    PROVE  Remembered' /\ SeenWereAdmitted' /\ OnceInsideWindow' /\ RefusalFollowsAdmission'
<1> DEFINE D == SmallestDrift
           s == request[d].sig
           kept == Retained(d)
<1>1. /\ pc[d] = "guard"
      /\ UNCHANGED <<now, config, request, window, reading, restarts>>
      /\ \/ /\ s \in DOMAIN kept /\ seen' = kept
            /\ pc' = [pc EXCEPT ![d] = "duplicate"] /\ admitted' = admitted
         \/ /\ s \notin DOMAIN kept
            /\ seen' = [x \in DOMAIN kept \cup {s} |-> IF x = s THEN request[d].body ELSE kept[x]]
            /\ pc' = [pc EXCEPT ![d] = "admitted"] /\ admitted' = admitted \cup {d}
  BY DEF Guard, GuardKey, Goto
<1>2. /\ D \in Nat
      /\ now \in Int /\ reading[d] \in Int /\ reading[d] <= now
      /\ window[d].drift \in Int /\ D <= window[d].drift
  <2>1. D \in Nat
    BY SmallestDriftIsLeast DEF GuardInv, Shapes
  <2> QED BY <1>1, <2>1 DEF GuardInv, Shapes, SecurityParameters, ReadingsArePast, WindowsAreWide
<1>3. \A x \in DOMAIN kept : x \in DOMAIN seen /\ kept[x] = seen[x]
  BY DEF Retained, Restrict
<1>4. \A x \in DOMAIN seen \ DOMAIN kept : ~(Distance(reading[d], seen[x]) <= window[d].drift)
  BY DEF Retained, Restrict
<1> HIDE DEF kept
<1>5. /\ \A x \in Guarded : x \in Guarded' /\ reading'[x] = reading[x]
      /\ d \in Guarded'
  BY <1>1 DEF Guarded, GuardInv, Shapes
<1>6. \A b \in Int : Forgettable(b) => Forgettable(b)'
  BY <1>1, <1>2, <1>5, StaysForgettable DEF GuardInv
<1>7. ASSUME NEW b \in Int, ~(Distance(reading[d], b) <= window[d].drift) PROVE Forgettable(b)'
  <2>1. CASE reading[d] > b + D
    <3>1. now' > b + D
      BY <1>1, <1>2, <2>1
    <3> QED BY <3>1 DEF Forgettable, SmallestDrift
  <2>2. CASE reading[d] < b - D
    <3>1. d \in Guarded' /\ reading'[d] < b - D
      BY <1>1, <1>5, <2>2
    <3> QED BY <3>1 DEF Forgettable, SmallestDrift
  <2> HIDE DEF D
  <2> QED BY <1>2, <1>7, <2>1, <2>2 DEF Distance
<1>8. \A e \in admitted : /\ e \in Deliveries /\ Accepted(request[e]) /\ e # d
                          /\ request[e].sig # Unsigned => request[e].body \in Int
  BY <1>1 DEF GuardInv, PassedAreAccepted, Shapes, Accepted
<1>9. Accepted(request[d])
  BY <1>1 DEF GuardInv, PassedAreAccepted
<1>10. ASSUME NEW e \in admitted, request[e].sig # Unsigned, request[e].sig \notin DOMAIN kept
       PROVE  Forgettable(request[e].body)'
  <2>1. CASE Forgettable(request[e].body)
    BY <1>1, <1>6, <1>8, <1>10, <2>1
  <2>2. CASE request[e].sig \in DOMAIN seen /\ seen[request[e].sig] = request[e].body
    <3>1. ~(Distance(reading[d], request[e].body) <= window[d].drift)
      BY <1>4, <1>10, <2>2
    <3> QED BY <1>1, <1>7, <1>8, <1>10, <3>1
  <2> QED BY <1>10, <2>1, <2>2 DEF GuardInv, Remembered
<1>11. Remembered'
  <2> SUFFICES ASSUME NEW e \in admitted', request'[e].sig # Unsigned
               PROVE  \/ /\ request'[e].sig \in DOMAIN seen'
                         /\ seen'[request'[e].sig] = request'[e].body
                      \/ Forgettable(request[e].body)'
    BY DEF Remembered
  <2>1. CASE e \in admitted
    <3>1. CASE Forgettable(request[e].body)
      BY <1>1, <1>6, <1>8, <2>1, <3>1
    <3>2. CASE request[e].sig \in DOMAIN seen /\ seen[request[e].sig] = request[e].body
      <4>1. CASE request[e].sig \in DOMAIN kept
        BY <1>1, <1>3, <3>2, <4>1
      <4>2. CASE request[e].sig \notin DOMAIN kept
        BY <1>1, <1>10, <2>1, <4>2
      <4> QED BY <4>1, <4>2
    <3> QED BY <1>1, <2>1, <3>1, <3>2 DEF GuardInv, Remembered
  <2>2. CASE e \notin admitted
    BY <1>1, <2>2
  <2> QED BY <2>1, <2>2
<1>12. SeenWereAdmitted'
  BY <1>1, <1>3, <1>8 DEF GuardInv, SeenWereAdmitted
<1>13. OnceInsideWindow'
  <2> SUFFICES ASSUME NEW x \in admitted', NEW e \in admitted', x # e,
                      request[x].sig = request[e].sig, request[x].sig # Unsigned
               PROVE  Forgettable(request[x].body)'
    BY <1>1 DEF OnceInsideWindow, Forgettable, Copies
  <2>1. CASE x \in admitted /\ e \in admitted
    <3>1. Forgettable(request[x].body)
      BY <2>1 DEF GuardInv, OnceInsideWindow, Forgettable, Copies
    <3> QED BY <1>1, <1>6, <1>8, <2>1, <3>1
  <2>2. CASE x \in admitted /\ e = d /\ d \notin admitted
    <3>1. s \notin DOMAIN kept
      BY <1>1, <2>2
    <3> QED BY <1>1, <1>10, <2>2, <3>1
  <2>3. CASE e \in admitted /\ x = d /\ d \notin admitted
    <3>1. s \notin DOMAIN kept
      BY <1>1, <2>3
    <3>2. request[x] = request[e]
      BY <1>8, <1>9, <2>3 DEF Accepted
    <3>3. Forgettable(request[e].body)'
      BY <1>10, <2>3, <3>1
    <3> QED BY <1>1, <3>2, <3>3
  <2> QED BY <1>1, <2>1, <2>2, <2>3
<1>14. RefusalFollowsAdmission'
  <2> SUFFICES ASSUME NEW x \in Deliveries, pc'[x] = "duplicate", restarts = 0
               PROVE  \E e \in admitted' : x # e /\ request[x].sig = request[e].sig
    BY <1>1 DEF RefusalFollowsAdmission, Copies
  <2>1. CASE x # d
    BY <1>1, <2>1 DEF GuardInv, Shapes, RefusalFollowsAdmission, Copies
  <2>2. CASE x = d
    <3>1. s \in DOMAIN kept /\ admitted' = admitted
      BY <1>1, <2>2 DEF GuardInv, Shapes
    <3>2. \E e \in admitted : request[e].sig = s
      BY <1>3, <3>1 DEF GuardInv, SeenWereAdmitted
    <3> QED BY <1>8, <2>2, <3>1, <3>2
  <2> QED BY <2>1, <2>2
<1> QED BY <1>11, <1>12, <1>13, <1>14

\* No other step of a delivery disturbs what has passed the guard ...
LEMMA DeliveriesAreQuiet ==
    ASSUME GuardInv, NEW d \in Deliveries,
           \/ \E r \in Requests : Receive(d, r)
           \/ Verify(d) \/ LoadDrift(d) \/ ReadClock(d) \/ Mint(d) \/ Reject(d)
    PROVE  Quiet
<1> USE DEF GuardInv, Shapes, PassedAreAccepted, Guarded, Quiet, Goto
<1>1. ASSUME NEW r \in Requests, Receive(d, r) PROVE Quiet
  BY <1>1 DEF Receive
<1>2. CASE Verify(d)
  BY <1>2 DEF Verify
<1>3. CASE LoadDrift(d)
  BY <1>3 DEF LoadDrift
<1>4. CASE ReadClock(d)
  BY <1>4 DEF ReadClock
<1>5. CASE Mint(d) \/ Reject(d)
  BY <1>5 DEF Mint, Reject
<1> QED BY <1>1, <1>2, <1>3, <1>4, <1>5

\* ... nor do the clock and the administrator.
LEMMA OthersAreQuiet == GuardInv /\ (Tick \/ Configure) => Quiet
BY DEF GuardInv, Shapes, PassedAreAccepted, Guarded, Quiet, Tick, Configure

\* A restart forgets everything, what was admitted included.
LEMMA RestartStep ==
    GuardInv /\ Restart =>
        Remembered' /\ SeenWereAdmitted' /\ OnceInsideWindow' /\ RefusalFollowsAdmission'
BY DEF GuardInv, Shapes, Restart, Remembered, SeenWereAdmitted, OnceInsideWindow,
       RefusalFollowsAdmission

LEMMA ReadingsStep == GuardInv /\ Next => ReadingsArePast'
<1> SUFFICES ASSUME GuardInv, Next PROVE ReadingsArePast'
  OBVIOUS
<1> USE DEF GuardInv, Shapes, ReadingsArePast
<1>1. ASSUME NEW d \in Deliveries, Handle(d) PROVE ReadingsArePast'
  BY <1>1 DEF Handle, Receive, Verify, LoadDrift, ReadClock, Guard, GuardKey, Mint, Reject
<1>2. CASE Tick \/ Configure \/ Restart
  BY <1>2 DEF Tick, Configure, Restart
<1> QED BY <1>1, <1>2 DEF Next

LEMMA WindowsStep == GuardInv /\ Next => WindowsAreWide'
<1> SUFFICES ASSUME GuardInv, Next PROVE WindowsAreWide'
  OBVIOUS
<1>1. SmallestDrift' = SmallestDrift
  BY DEF SmallestDrift
<1>2. ASSUME NEW d \in Deliveries, LoadDrift(d) PROVE WindowsAreWide'
  <2>1. config \in Configs
    BY DEF GuardInv, Shapes
  <2>2. SmallestDrift <= Max({config.drift, 0})
    BY <2>1, SmallestDriftIsLeast
  <2>3. /\ window' = [window EXCEPT ![d] = [config EXCEPT !.drift = Max({@, 0})]]
        /\ pc' = [pc EXCEPT ![d] = "clock"]
    BY <1>2 DEF LoadDrift, Goto
  <2>4. [config EXCEPT !.drift = Max({@, 0})].drift = Max({config.drift, 0})
    BY <2>1 DEF SecurityParameters
  <2>5. window'[d].drift >= SmallestDrift
    <3>1. window'[d] = [config EXCEPT !.drift = Max({@, 0})]
      BY <2>3 DEF GuardInv, Shapes
    <3> QED BY <2>2, <2>4, <3>1
  <2>6. \A e \in Deliveries \ {d} : window'[e] = window[e] /\ pc'[e] = pc[e]
    BY <2>3 DEF GuardInv, Shapes
  <2> QED BY <1>1, <2>5, <2>6 DEF GuardInv, WindowsAreWide
<1>3. ASSUME NEW d \in Deliveries, Handle(d), ~LoadDrift(d) PROVE WindowsAreWide'
  BY <1>1, <1>3 DEF GuardInv, Shapes, WindowsAreWide, Handle, Receive, Verify, ReadClock, Guard,
                    GuardKey, Mint, Reject, Goto
<1>4. CASE Tick \/ Configure \/ Restart
  BY <1>1, <1>4 DEF GuardInv, Shapes, WindowsAreWide, Tick, Configure, Restart, Finished
<1> QED BY <1>2, <1>3, <1>4 DEF Next

LEMMA PassedStep == GuardInv /\ Next => PassedAreAccepted'
<1> SUFFICES ASSUME GuardInv, Next PROVE PassedAreAccepted'
  OBVIOUS
<1> USE DEF GuardInv, Shapes, PassedAreAccepted, Accepted, Goto
<1>1. ASSUME NEW d \in Deliveries, NEW r \in Requests, Receive(d, r) PROVE PassedAreAccepted'
  BY <1>1 DEF Receive
<1>2. ASSUME NEW d \in Deliveries, Verify(d) PROVE PassedAreAccepted'
  <2>1. Authentic(d) => Accepted(request[d])
    BY DEF Authentic, Bypassed, NoRequest
  <2> QED BY <1>2, <2>1 DEF Verify
<1>3. ASSUME NEW d \in Deliveries, LoadDrift(d) \/ ReadClock(d) \/ Mint(d) \/ Reject(d)
      PROVE  PassedAreAccepted'
  BY <1>3 DEF LoadDrift, ReadClock, Mint, Reject
<1>4. ASSUME NEW d \in Deliveries, Guard(d) PROVE PassedAreAccepted'
  BY <1>4 DEF Guard, GuardKey
<1>5. CASE Tick \/ Configure
  BY <1>5 DEF Tick, Configure
<1>6. CASE Restart
  BY <1>6 DEF Restart, Finished
<1> QED BY <1>1, <1>2, <1>3, <1>4, <1>5, <1>6 DEF Next, Handle

-----------------------------------------------------------------------------
(* The theorems.                                                           *)

LEMMA InitGuardInv == Init => GuardInv
BY DEF Init, GuardInv, Shapes, Labels, ReadingsArePast, WindowsAreWide, PassedAreAccepted,
       Remembered, SeenWereAdmitted, OnceInsideWindow, RefusalFollowsAdmission

LEMMA NextGuardInv == GuardInv /\ [Next]_vars => GuardInv'
<1> SUFFICES ASSUME GuardInv, [Next]_vars PROVE GuardInv'
  OBVIOUS
<1>1. ASSUME NEW d \in Deliveries, Handle(d)
      PROVE  Remembered' /\ SeenWereAdmitted' /\ OnceInsideWindow' /\ RefusalFollowsAdmission'
  BY <1>1, DeliveriesAreQuiet, QuietStep, GuardStep DEF Handle
<1>2. CASE Next
  BY <1>1, <1>2, OthersAreQuiet, QuietStep, RestartStep, ShapesStep, ReadingsStep, WindowsStep,
     PassedStep DEF Next, GuardInv
<1>3. CASE UNCHANGED vars
  <2>1. Quiet
    BY <1>3 DEF vars, GuardInv, Shapes, PassedAreAccepted, Quiet, Guarded
  <2>2. Shapes' /\ ReadingsArePast' /\ WindowsAreWide' /\ PassedAreAccepted'
    BY <1>3 DEF vars, GuardInv, Shapes, ReadingsArePast, WindowsAreWide, PassedAreAccepted,
                SmallestDrift
  <2> QED BY <2>1, <2>2, QuietStep DEF GuardInv
<1> QED BY <1>2, <1>3

\* What the guard remembers, and for how long, whatever the deliveries, the clock, the
\* administrator and the restarts do.
THEOREM GuardInvariant == Spec => []GuardInv
BY InitGuardInv, NextGuardInv, PTL DEF Spec

\* guard_operator_replay lets a signed request pass once in the window around its timestamp.
THEOREM CopiesAreRefusedInsideWindow == Spec => []OnceInsideWindow
<1>1. GuardInv => OnceInsideWindow
  BY DEF GuardInv
<1> QED BY <1>1, GuardInvariant, PTL

\* guard_operator_replay refuses nothing but copies.
THEOREM OnlyCopiesAreRefused == Spec => []RefusalFollowsAdmission
<1>1. GuardInv => RefusalFollowsAdmission
  BY DEF GuardInv
<1> QED BY <1>1, GuardInvariant, PTL

=============================================================================
