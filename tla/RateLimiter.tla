---------------------------- MODULE RateLimiter ----------------------------
(***************************************************************************)
(* The sliding windows of aggora-state: check_wallet_rate_limit (a day per *)
(* address) and check_transfer_rate_limit (a minute per wallet), which run *)
(* before the signature is checked in the handlers of POST /wallet and     *)
(* POST /transfer.  The two functions differ in the key, the limit and the *)
(* length of the window only, and are one limiter here.                    *)
(*                                                                         *)
(* The clock is read before the lock on the map is taken.  Callers may get *)
(* the lock in another order than they read the clock, so the queue of a   *)
(* key need not be sorted, and the loop that drops old entries stops at    *)
(* the first one that is recent.                                           *)
(***************************************************************************)
EXTENDS Integers, Sequences, FiniteSets, FiniteSetsExt

CONSTANTS
    Calls,     \* calls of the limiter
    Keys,      \* addresses or wallet ids
    Window,    \* window_ms
    Limits,    \* values of the limit the administrator may set, 0 for none
    MaxLag,    \* how far the clock moves while a caller waits for the lock
    MaxTime    \* bound on the clock

ASSUME WindowAssumption == Window \in Nat /\ MaxLag \in 0..Window
ASSUME LimitsAssumption == Limits \subseteq Nat /\ IsFiniteSet(Limits)
ASSUME TimeAssumption == MaxTime \in Nat

VARIABLES
    now,       \* now_ms()
    limit,     \* the limit in the parameters
    entries,   \* rate_wallet_create or rate_wallet_tx: key -> deque
    pc,        \* where each call is
    key,       \* the key of a call
    bound,     \* the limit a call has read
    reading    \* the clock as a call has read it

vars == <<now, limit, entries, pc, key, bound, reading>>

Init ==
    /\ now = 0
    /\ limit \in Limits
    /\ entries = [k \in Keys |-> <<>>]
    /\ pc = [c \in Calls |-> "idle"]
    /\ key \in [Calls -> Keys]
    /\ bound = [c \in Calls |-> 0]
    /\ reading = [c \in Calls |-> 0]

Goto(c, label) == pc' = [pc EXCEPT ![c] = label]

-----------------------------------------------------------------------------
\* The parameters are read first; a limit of 0 switches the check off.
LoadLimit(c) ==
    /\ pc[c] = "idle"
    /\ bound' = [bound EXCEPT ![c] = limit]
    /\ Goto(c, IF limit = 0 THEN "unlimited" ELSE "clock")
    /\ UNCHANGED <<now, limit, entries, key, reading>>

ReadClock(c) ==
    /\ pc[c] = "clock"
    /\ reading' = [reading EXCEPT ![c] = now]
    /\ Goto(c, "waiting")
    /\ UNCHANGED <<now, limit, entries, key, bound>>

Expired(c, ts) == reading[c] - ts > Window

\* Mutant: the loop compares with the newest entry, not with the oldest.
RecentFromBack(c) ==
    LET q == entries[key[c]]
    IN IF q # <<>> /\ Expired(c, q[Len(q)]) THEN <<>> ELSE q

\* while entry.front() is expired: entry.pop_front().
Recent(c) ==
    LET q    == entries[key[c]]
        live == {i \in DOMAIN q : ~ Expired(c, q[i])}
    IN IF live = {} THEN <<>> ELSE SubSeq(q, Min(live), Len(q))

\* Mutant: the call that reaches the limit is still let through.
HasRoomForOneMore(c) == Len(Recent(c)) <= bound[c]

HasRoom(c) == Len(Recent(c)) < bound[c]

\* Under the lock: prune, compare, record.  A refused call is not recorded.
Admit(c) ==
    /\ pc[c] = "waiting"
    /\ HasRoom(c)
    /\ entries' = [entries EXCEPT ![key[c]] = Append(Recent(c), reading[c])]
    /\ Goto(c, "admitted")
    /\ UNCHANGED <<now, limit, key, bound, reading>>

Refuse(c) ==
    /\ pc[c] = "waiting"
    /\ ~ HasRoom(c)
    /\ entries' = [entries EXCEPT ![key[c]] = Recent(c)]
    /\ Goto(c, "refused")
    /\ UNCHANGED <<now, limit, key, bound, reading>>

\* The clock moves, by at most MaxLag past the reading of a waiting caller.
Tick ==
    /\ now < MaxTime
    /\ \A c \in Calls : pc[c] = "waiting" => now < reading[c] + MaxLag
    /\ now' = now + 1
    /\ UNCHANGED <<limit, entries, pc, key, bound, reading>>

\* PUT /admin/parameters.
SetLimit ==
    /\ limit' \in Limits \ {limit}
    /\ UNCHANGED <<now, entries, pc, key, bound, reading>>

Next ==
    \/ \E c \in Calls : LoadLimit(c) \/ ReadClock(c) \/ Admit(c) \/ Refuse(c)
    \/ Tick
    \/ SetLimit

Spec == Init /\ [][Next]_vars

-----------------------------------------------------------------------------
\* The recorded calls of a key that read the clock between two times.
AdmittedBetween(k, from, to) ==
    {c \in Calls : pc[c] = "admitted" /\ key[c] = k /\ reading[c] \in from..to}

\* No more calls of one key than the largest limit in force read the clock
\* within one window, less the lag: pruning for a caller with a late reading
\* never makes room for callers with earlier ones beyond that.
WindowLimit ==
    \A k \in Keys, t \in 0..MaxTime :
        Cardinality(AdmittedBetween(k, t, t + Window - MaxLag)) <= Max(Limits)

\* A call is refused only when as many calls of the same key as its limit were
\* recorded in the window before it, give or take the lag: entries that the
\* pruning loop leaves behind a recent front, or calls of other keys, never
\* lock a caller out for longer.
RefusalHasCause ==
    \A c \in Calls :
        pc[c] = "refused" =>
        Cardinality(AdmittedBetween(key[c], reading[c] - Window - MaxLag,
                                    reading[c] + MaxLag)) >= bound[c]

=============================================================================
