---------------------------- MODULE SessionClock ----------------------------
(***************************************************************************)
(* The clock of the broker and the times it keeps as text. nowISO writes   *)
(* RFC3339Nano, which drops trailing zeros of the fraction and the whole   *)
(* fraction when it is zero; cutoffs are written as RFC3339, in seconds;   *)
(* SQLite compares and orders both as strings. A client sends heartbeats   *)
(* by its ticker, the sweep runs by its own, and heartbeats get delayed or *)
(* lost.                                                                   *)
(*                                                                         *)
(* Time is counted in the smallest fraction a text can show. The digits of *)
(* the whole seconds have a fixed width, so they are one symbol of a text. *)
(***************************************************************************)
EXTENDS Integers, Sequences, SequencesExt

CONSTANTS
    Base,            \* of the digits of a fraction
    FractionDigits,  \* digits in the smallest fraction
    Configured,      \* cfg.StaleTimeout, in seconds
    DefaultTimeout,  \* taken when it is not positive
    HeartbeatEvery,  \* heartbeatInterval, in seconds
    SweepEvery,      \* the sleep between two sweeps, in seconds
    MaxDelay,        \* bound: from the ticker to the handler, in the smallest unit
    MaxTime,         \* bound on the clock
    MaxMsgs,         \* bound on messages sent
    MailUntil        \* bound: messages are sent before this time

Second == Base ^ FractionDigits

ASSUME ClockAssumption ==
    /\ Base \in Nat \ {0, 1} /\ FractionDigits \in Nat \ {0}
    /\ Configured \in Int /\ DefaultTimeout \in Nat \ {0}
    /\ HeartbeatEvery \in Nat \ {0} /\ SweepEvery \in Nat \ {0}
    /\ MaxDelay \in 0 .. HeartbeatEvery * Second - 1
    /\ MaxTime \in Nat /\ MaxTime >= Second
    /\ MaxMsgs \in Nat /\ MailUntil \in Nat

\* Arithmetic, stated because the provers know nothing of exponents.
ASSUME PowersAssumption ==
    /\ Base ^ 0 = 1
    /\ \A k \in 0 .. FractionDigits : Base ^ k \in Nat \ {0}
    /\ \A k \in 1 .. FractionDigits : Base ^ k = Base * Base ^ (k - 1)

VARIABLES
    now,       \* the time
    row,       \* the session has a row in peers
    lastSeen,  \* its last_seen, as a time
    beatAt,    \* when the heartbeat ticker fires next
    beating,   \* a heartbeat is on its way
    missed,    \* heartbeats lost since the last one that was served
    alive,     \* the client runs
    sweepAt,   \* when the next sweep runs
    sent       \* the sent_at of the messages stored, in the order of their ids

vars == <<now, row, lastSeen, beatAt, beating, missed, alive, sweepAt, sent>>

-----------------------------------------------------------------------------
(* Times as text *)

Dot == -1   \* the symbols in the order of their codes: "." < digits < "Z"
Zed == Base

Digit(t, k) == ((t % Second) \div (Base ^ (FractionDigits - k))) % Base

\* The digits of the fraction of t without trailing zeros.
Fraction(t) ==
    LET n == CHOOSE n \in 0 .. FractionDigits :
                 /\ n # 0 => Digit(t, n) # 0
                 /\ \A k \in n + 1 .. FractionDigits : Digit(t, k) = 0
    IN  [k \in 1 .. n |-> Digit(t, k)]

\* Mutant of NanoText: the fraction is printed as a number, its zeros lost.
UnpaddedText(t) ==
    LET shown == SelectSeq(Fraction(t), LAMBDA d : d # 0)
    IN  <<t \div Second>> \o (IF shown = <<>> THEN <<>> ELSE <<Dot>> \o shown) \o <<Zed>>

\* nowISO: Format(time.RFC3339Nano)
NanoText(t) ==
    <<t \div Second>> \o (IF Fraction(t) = <<>> THEN <<>> ELSE <<Dot>> \o Fraction(t)) \o <<Zed>>

\* Format(time.RFC3339): the fraction is cut off.
SecondText(t) == <<t \div Second, Zed>>

\* The order of strings.
Before(a, b) ==
    \/ IsStrictPrefix(a, b)
    \/ \E k \in DOMAIN a \cap DOMAIN b :
          a[k] < b[k] /\ \A j \in 1 .. k - 1 : a[j] = b[j]

-----------------------------------------------------------------------------

TypeOK ==
    /\ now \in 0 .. MaxTime
    /\ row \in BOOLEAN /\ beating \in BOOLEAN /\ alive \in BOOLEAN
    /\ lastSeen \in 0 .. now
    /\ beatAt \in Nat /\ sweepAt \in Nat
    /\ missed \in Nat
    /\ sent \in Seq(0 .. now)

\* The session registers at some fraction of a second.
Init ==
    /\ now \in 0 .. Second - 1
    /\ row = TRUE
    /\ lastSeen = now
    /\ beatAt = now + HeartbeatEvery * Second
    /\ beating = FALSE
    /\ missed = 0
    /\ alive = TRUE
    /\ sweepAt \in now .. now + SweepEvery * Second
    /\ sent = <<>>

\* Time passes up to the next thing that is due.
Tick ==
    /\ now < MaxTime
    /\ now < sweepAt
    /\ alive => now < beatAt
    /\ beating => now < beatAt - HeartbeatEvery * Second + MaxDelay
    /\ now' = now + 1
    /\ UNCHANGED <<row, lastSeen, beatAt, beating, missed, alive, sweepAt, sent>>

\* The heartbeat goroutine's ticker.
TickerFires ==
    /\ alive
    /\ now = beatAt
    /\ beating' = TRUE
    /\ beatAt' = beatAt + HeartbeatEvery * Second
    /\ UNCHANGED <<now, row, lastSeen, missed, alive, sweepAt, sent>>

\* Mutant of HeartbeatServed: the time the client will beat next is stored.
HeartbeatPredated ==
    /\ beating
    /\ row' = TRUE
    /\ lastSeen' = beatAt
    /\ beating' = FALSE
    /\ missed' = 0
    /\ UNCHANGED <<now, beatAt, alive, sweepAt, sent>>

\* The broker serves it; a session without a row registers anew.
HeartbeatServed ==
    /\ beating
    /\ row' = TRUE
    /\ lastSeen' = now
    /\ beating' = FALSE
    /\ missed' = 0
    /\ UNCHANGED <<now, beatAt, alive, sweepAt, sent>>

HeartbeatLost ==
    /\ beating
    /\ beating' = FALSE
    /\ missed' = missed + 1
    /\ UNCHANGED <<now, row, lastSeen, beatAt, alive, sweepAt, sent>>

ClientDies ==
    /\ alive' = FALSE
    /\ beating' = FALSE
    /\ UNCHANGED <<now, row, lastSeen, beatAt, missed, sweepAt, sent>>

Timeout == IF Configured <= 0 THEN DefaultTimeout ELSE Configured

\* Mutants of IsStale: the cutoff is rounded up; and the limit is inclusive of a
\* heartbeat's interval.
IsStaleRoundedUp == Before(NanoText(lastSeen), SecondText(now + Second - Timeout * Second))
IsStaleLate == Before(NanoText(lastSeen), SecondText(now - (Timeout + HeartbeatEvery) * Second))

\* last_seen < cutoff
IsStale == Before(NanoText(lastSeen), SecondText(now - Timeout * Second))

\* cleanStalePeers
Sweep ==
    /\ now = sweepAt
    /\ row' = (row /\ ~IsStale)
    /\ sweepAt' = now + SweepEvery * Second
    /\ UNCHANGED <<now, lastSeen, beatAt, beating, missed, alive, sent>>

SendMessage ==
    /\ Len(sent) < MaxMsgs
    /\ now < MailUntil
    /\ sent' = Append(sent, now)
    /\ UNCHANGED <<now, row, lastSeen, beatAt, beating, missed, alive, sweepAt>>

Next ==
    \/ Tick \/ TickerFires \/ HeartbeatServed \/ HeartbeatLost \/ ClientDies
    \/ Sweep \/ SendMessage

Spec == Init /\ [][Next]_vars

-----------------------------------------------------------------------------
(* Properties *)

\* A running client is evicted only after it has lost more heartbeats in a row
\* than fit into the timeout, less the one second that comparing texts takes
\* away: with the defaults (15s, 20s) one lost heartbeat is enough.
OnlyTheSilentAreEvicted ==
    [][alive /\ row /\ ~row' =>
         (missed + 1) * HeartbeatEvery * Second + MaxDelay > (Timeout - 1) * Second]_vars

\* A session that sends nothing is gone one sweep and one second after its
\* timeout at the latest, so that its name is free.
DeadAreSwept ==
    row => now - lastSeen <= (Timeout + SweepEvery + 1) * Second

\* Poll and peek return messages ORDER BY sent_at. The order of the texts is the
\* order of sending, except within one second when the fraction of the earlier
\* message is a beginning of the later one's: then they are swapped.
MailInOrder ==
    \A i, j \in DOMAIN sent :
        sent[i] < sent[j] =>
            \/ Before(NanoText(sent[i]), NanoText(sent[j]))
            \/ /\ sent[i] \div Second = sent[j] \div Second
               /\ IsStrictPrefix(Fraction(sent[i]), Fraction(sent[j]))
=============================================================================
