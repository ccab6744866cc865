---------------------------- MODULE ReplayGuard ----------------------------
(***************************************************************************)
(* POST /charge up to the ledger: authentication of the operator's request *)
(* (verify_operator_request), then the guard that refuses a signature it   *)
(* remembers (guard_operator_replay), then the mint.                       *)
(*                                                                         *)
(* The two checks read the parameters and the wall clock separately, and   *)
(* the guard reads both before it takes the lock on seen_operator_sigs, so *)
(* each delivery of a request goes through the steps one at a time, with   *)
(* the clock, the administrator and the other deliveries in between.  A    *)
(* client that gets no answer may send the same request again: deliveries  *)
(* choose their request freely.  The clock never goes back.                *)
(***************************************************************************)
EXTENDS Integers, FiniteSets, FiniteSetsExt, Functions

CONSTANTS
    Deliveries,   \* the requests the server receives, copies included
    Requests,     \* [sig, header, body : Int, valid : BOOLEAN], see below
    Unsigned,     \* the signature of a request without X-Operator-Signature
    Configs,      \* the SecurityParameters the administrator chooses from
    MaxTime,      \* bound on the clock
    MaxRestarts   \* bound on restarts

(***************************************************************************)
(* header and body are the two timestamps: X-Operator-Timestamp, which the *)
(* signature covers, and ChargeRequest.timestamp.  valid says whether the  *)
(* operator exists, is active and made the signature.                      *)
(***************************************************************************)
ASSUME RequestsAssumption ==
    \A r \in Requests : /\ r.header \in Int /\ r.body \in Int
                        /\ r.valid \in BOOLEAN
\* A signature verifies for the one header and body it was made over.
ASSUME SignatureAssumption ==
    \A r, q \in Requests : r.valid /\ q.valid /\ r.sig = q.sig => r = q
SecurityParameters == [drift : Int, bypass : BOOLEAN]
ASSUME ConfigsAssumption == Configs \subseteq SecurityParameters
ASSUME BoundsAssumption == MaxTime \in Nat /\ MaxRestarts \in Nat

VARIABLES
    now,        \* now_ms()
    config,     \* the security parameters in force
    seen,       \* seen_operator_sigs: signature -> timestamp of the body
    pc,         \* where each delivery is
    request,    \* the request a delivery carries
    window,     \* the parameters a delivery has read
    reading,    \* the clock as the delivery read it for the guard
    admitted,   \* history: the deliveries the guard let pass since the start
    restarts    \* restarts so far

vars == <<now, config, seen, pc, request, window, reading, admitted, restarts>>

NoRequest == [sig |-> Unsigned, header |-> 0, body |-> 0, valid |-> FALSE]

Init ==
    /\ now = 0
    /\ config \in Configs
    /\ seen = <<>>
    /\ pc = [d \in Deliveries |-> "unsent"]
    /\ request = [d \in Deliveries |-> NoRequest]
    /\ window = [d \in Deliveries |-> config]
    /\ reading = [d \in Deliveries |-> 0]
    /\ admitted = {}
    /\ restarts = 0

Distance(a, b) == IF a > b THEN a - b ELSE b - a

Goto(d, label) == pc' = [pc EXCEPT ![d] = label]

-----------------------------------------------------------------------------
\* The handler has parsed the body and reads the parameters to verify with.
Receive(d, r) ==
    /\ pc[d] = "unsent"
    /\ request' = [request EXCEPT ![d] = r]
    /\ window' = [window EXCEPT ![d] = config]
    /\ Goto(d, "verify")
    /\ UNCHANGED <<now, config, seen, reading, admitted, restarts>>

Bypassed(d) == window[d].bypass /\ request[d].sig = Unsigned

Fresh(d) == Distance(now, request[d].header) <= window[d].drift

\* verify_operator_request: nothing to check for an unsigned request while the
\* bypass is on; otherwise the age of the header and then the signature.
Authentic(d) ==
    \/ Bypassed(d)
    \/ /\ Fresh(d)
       /\ request[d].sig # Unsigned
       /\ request[d].valid

Verify(d) ==
    /\ pc[d] = "verify"
    /\ Goto(d, IF Authentic(d) THEN "verified" ELSE "unauthorized")
    /\ UNCHANGED <<now, config, seen, request, window, reading, admitted, restarts>>

\* guard_operator_replay reads the parameters again, a negative drift as 0 ...
LoadDrift(d) ==
    /\ pc[d] = "verified"
    /\ window' = [window EXCEPT ![d] = [config EXCEPT !.drift = Max({@, 0})]]
    /\ Goto(d, "clock")
    /\ UNCHANGED <<now, config, seen, request, reading, admitted, restarts>>

\* ... then the clock ...
ReadClock(d) ==
    /\ pc[d] = "clock"
    /\ reading' = [reading EXCEPT ![d] = now]
    /\ Goto(d, "guard")
    /\ UNCHANGED <<now, config, seen, request, window, admitted, restarts>>

\* Mutant: an entry at the very edge of the window is dropped already.
RetainedStrictly(d) ==
    Restrict(seen, {s \in DOMAIN seen : Distance(reading[d], seen[s]) < window[d].drift})

\* ... and only then takes the lock, drops what is outside the window,
Retained(d) ==
    Restrict(seen, {s \in DOMAIN seen : Distance(reading[d], seen[s]) <= window[d].drift})

\* refuses a key that is left, and remembers any other.
GuardKey(d, key) ==
    LET kept == Retained(d)
    IN /\ pc[d] = "guard"
       /\ \/ /\ key \in DOMAIN kept
             /\ seen' = kept
             /\ Goto(d, "duplicate")
             /\ UNCHANGED admitted
          \/ /\ key \notin DOMAIN kept
             /\ seen' = [s \in DOMAIN kept \union {key} |->
                           IF s = key THEN request[d].body ELSE kept[s]]
             /\ Goto(d, "admitted")
             /\ admitted' = admitted \union {d}
       /\ UNCHANGED <<now, config, request, window, reading, restarts>>

\* Mutant: all charges of the operator share one key.
GuardByOperator(d) == GuardKey(d, "operator")

\* The key is the signature.
Guard(d) == GuardKey(d, request[d].sig)

\* The rest of charge: the mint, or a refusal (an iteration holds the lock, the
\* wallet does not exist).  The signature stays remembered either way.
Mint(d) ==
    /\ pc[d] = "admitted"
    /\ Goto(d, "minted")
    /\ UNCHANGED <<now, config, seen, request, window, reading, admitted, restarts>>

Reject(d) ==
    /\ pc[d] = "admitted"
    /\ Goto(d, "rejected")
    /\ UNCHANGED <<now, config, seen, request, window, reading, admitted, restarts>>

Tick ==
    /\ now < MaxTime
    /\ now' = now + 1
    /\ UNCHANGED <<config, seen, pc, request, window, reading, admitted, restarts>>

\* PUT /admin/parameters; CoinState re-reads them at every use.
Configure ==
    /\ config' \in Configs \ {config}
    /\ UNCHANGED <<now, seen, pc, request, window, reading, admitted, restarts>>

Finished == {"unauthorized", "duplicate", "minted", "rejected", "lost"}

\* open starts with an empty map, and the requests in flight are gone.
Restart ==
    /\ restarts < MaxRestarts
    /\ restarts' = restarts + 1
    /\ seen' = <<>>
    /\ pc' = [d \in Deliveries |->
                IF pc[d] \in Finished \union {"unsent"} THEN pc[d] ELSE "lost"]
    /\ admitted' = {}
    /\ UNCHANGED <<now, config, request, window, reading>>

Handle(d) ==
    \/ \E r \in Requests : Receive(d, r)
    \/ Verify(d) \/ LoadDrift(d) \/ ReadClock(d) \/ Guard(d) \/ Mint(d) \/ Reject(d)

Next == (\E d \in Deliveries : Handle(d)) \/ Tick \/ Configure \/ Restart

Spec == Init /\ [][Next]_vars

-----------------------------------------------------------------------------
SmallestDrift == Min({Max({c.drift, 0}) : c \in Configs})

Copies(d, e) == d # e /\ request[d].sig = request[e].sig

\* The deliveries that have been through the guard.
Guarded == {x \in Deliveries : pc[x] \in {"admitted", "minted", "rejected", "duplicate"}}

\* Two copies of one signed request pass the guard of one process only when the clock has left
\* the window around the body's timestamp, or a delivery went through the guard that had read
\* the clock before that window began: seen_operator_sigs forgets a signature no earlier, however
\* the clock, the parameters and the copies interleave.  (The second case needs a body stamped
\* ahead of the clock, or a delivery that waits for the lock.)
OnceInsideWindow ==
    \A d, e \in admitted :
        (Copies(d, e) /\ request[d].sig # Unsigned) =>
            \/ now > request[d].body + SmallestDrift
            \/ \E x \in Guarded : reading[x] < request[d].body - SmallestDrift

\* A request is refused as a duplicate only after another one with the same
\* signature has passed: the guard never refuses the first delivery, whatever
\* the clock and the parameters did meanwhile.
RefusalFollowsAdmission ==
    \A d \in Deliveries :
        (pc[d] = "duplicate" /\ restarts = 0) => \E e \in admitted : Copies(d, e)

\* What the guard is for: a signed request that arrives twice is minted once.
\* (Comment of guard_operator_replay and docs/features.md, "Replay-protected
\* /charge": the guard rejects every identical signed body that
\* verify_operator_request still accepts.)
ChargeMintedOnce ==
    \A d, e \in Deliveries :
        (pc[d] = "minted" /\ pc[e] = "minted" /\ Copies(d, e)) => request[d].sig = Unsigned

=============================================================================
