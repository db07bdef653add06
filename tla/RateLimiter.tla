----------------------------- MODULE RateLimiter -----------------------------
(***************************************************************************)
(* The sliding-window rate limiter of rate_limiter.go, which the broker    *)
(* puts before /register and /send-message.                                *)
(*                                                                         *)
(* allow and cleanup read the clock before they take the mutex, so calls   *)
(* get the mutex in an order that need not be that of their timestamps.    *)
(* Each call is two steps here: reading the clock, and the critical        *)
(* section. The slice kept for an address is the set of the requests whose *)
(* timestamps it holds: its order decides nothing, and an address without  *)
(* entries is as good as one that is not in the map.                       *)
(***************************************************************************)
EXTENDS Naturals, FiniteSets

CONSTANTS
    Requests,  \* bound: the requests ever made
    IPs,       \* the addresses they come from
    Limit,     \* requests admitted per window
    Window,    \* its length
    MaxTime    \* bound on the clock

ASSUME LimitAssumption == Limit \in Nat \ {0} /\ Window \in Nat \ {0}
ASSUME TimeAssumption == MaxTime \in Nat
ASSUME RequestsAssumption == IsFiniteSet(Requests)

VARIABLES
    clock,
    phase,     \* where each request is
    source,    \* its address
    stamp,     \* its now
    windows,   \* address -> the requests whose timestamps are kept
    sweeping,  \* cleanup waits for the mutex
    sweepAt,   \* its clock reading
    latest,    \* history: the latest reading of a call on the address so far
    overtaken  \* history: requests that got the mutex after a later reading

vars == <<clock, phase, source, stamp, windows, sweeping, sweepAt, latest, overtaken>>

TypeOK ==
    /\ clock \in Nat
    /\ phase \in [Requests -> {"new", "waiting", "admitted", "denied"}]
    /\ source \in [Requests -> IPs]
    /\ stamp \in [Requests -> Nat]
    /\ windows \in [IPs -> SUBSET Requests]
    /\ sweeping \in BOOLEAN
    /\ sweepAt \in Nat
    /\ latest \in [IPs -> Nat]
    /\ overtaken \subseteq Requests

Init ==
    /\ clock = 0
    /\ phase = [r \in Requests |-> "new"]
    /\ source \in [Requests -> IPs]
    /\ stamp = [r \in Requests |-> 0]
    /\ windows = [i \in IPs |-> {}]
    /\ sweeping = FALSE
    /\ sweepAt = 0
    /\ latest = [i \in IPs |-> 0]
    /\ overtaken = {}

\* Mutant of Valid: the cutoff is one unit late.
ValidTooFew(i, now) == {r \in windows[i] : stamp[r] + Window > now + 1}

\* The entries after the cutoff of a call that read the clock at now.
Valid(i, now) == {r \in windows[i] : stamp[r] + Window > now}

\* Mutant of HasRoom: off by one.
HasRoomForOneMore(valid) == Cardinality(valid) <= Limit

HasRoom(valid) == Cardinality(valid) < Limit

\* A call that read the clock at now has had address i under the mutex.
Note(I, now) ==
    latest' = [i \in IPs |-> IF i \in I /\ latest[i] < now THEN now ELSE latest[i]]

-----------------------------------------------------------------------------

\* Mutant of ReadClock: the cutoff is kept instead of now.
ReadCutoff(r) ==
    /\ phase[r] = "new"
    /\ phase' = [phase EXCEPT ![r] = "waiting"]
    /\ stamp' = [stamp EXCEPT ![r] = clock - Window]
    /\ UNCHANGED <<clock, source, windows, sweeping, sweepAt, latest, overtaken>>

\* allow, before the mutex
ReadClock(r) ==
    /\ phase[r] = "new"
    /\ phase' = [phase EXCEPT ![r] = "waiting"]
    /\ stamp' = [stamp EXCEPT ![r] = clock]
    /\ UNCHANGED <<clock, source, windows, sweeping, sweepAt, latest, overtaken>>

\* allow, under the mutex: prune, and admit if there is room.
Admit(r) ==
    LET i == source[r]
        valid == Valid(i, stamp[r])
    IN  /\ phase[r] = "waiting"
        /\ HasRoom(valid)
        /\ windows' = [windows EXCEPT ![i] = valid \cup {r}]
        /\ phase' = [phase EXCEPT ![r] = "admitted"]
        /\ Note({i}, stamp[r])
        /\ overtaken' = overtaken \cup IF stamp[r] < latest[i] THEN {r} ELSE {}
        /\ UNCHANGED <<clock, source, stamp, sweeping, sweepAt>>

Deny(r) ==
    LET i == source[r]
        valid == Valid(i, stamp[r])
    IN  /\ phase[r] = "waiting"
        /\ ~HasRoom(valid)
        /\ windows' = [windows EXCEPT ![i] = valid]
        /\ phase' = [phase EXCEPT ![r] = "denied"]
        /\ Note({i}, stamp[r])
        /\ UNCHANGED <<clock, source, stamp, sweeping, sweepAt, overtaken>>

\* cleanup, before and under the mutex
SweepReadClock ==
    /\ ~sweeping
    /\ sweeping' = TRUE
    /\ sweepAt' = clock
    /\ UNCHANGED <<clock, phase, source, stamp, windows, latest, overtaken>>

Sweep ==
    /\ sweeping
    /\ sweeping' = FALSE
    /\ windows' = [i \in IPs |-> Valid(i, sweepAt)]
    /\ Note(IPs, sweepAt)
    /\ UNCHANGED <<clock, phase, source, stamp, sweepAt, overtaken>>

Tick ==
    /\ clock < MaxTime
    /\ clock' = clock + 1
    /\ UNCHANGED <<phase, source, stamp, windows, sweeping, sweepAt, latest, overtaken>>

Next ==
    \/ \E r \in Requests : ReadClock(r) \/ Admit(r) \/ Deny(r)
    \/ SweepReadClock \/ Sweep
    \/ Tick

Spec == Init /\ [][Next]_vars

-----------------------------------------------------------------------------

\* The slice of an address never holds more than the limit, whatever the order
\* in which calls prune it with older and newer cutoffs.
WindowWithinLimit == \A i \in IPs : Cardinality(windows[i]) <= Limit

\* Requests admitted from address i, in order, with timestamps in the window
\* that starts at t.
AdmittedInOrder(i, t) ==
    {r \in Requests \ overtaken :
        /\ phase[r] = "admitted"
        /\ source[r] = i
        /\ t <= stamp[r] /\ stamp[r] < t + Window}

\* The limit holds in every window of time, not only those that end at a
\* request: pruning never makes room too early. Only a request that got the
\* mutex after a call with a later clock reading can come on top.
InOrderWithinLimit ==
    \A i \in IPs, t \in 0 .. MaxTime : Cardinality(AdmittedInOrder(i, t)) <= Limit
=============================================================================
