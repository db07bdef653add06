---------------------------- MODULE AgentMailbox ----------------------------
(***************************************************************************)
(* What the broker promises for messages addressed to an agent name,       *)
(* without tables or handlers: every name has at most one holder, and      *)
(* every letter moves                                                      *)
(*                                                                         *)
(*     none -> queued <-> bound -> out -> acked                            *)
(*                ^________________/                                       *)
(*                                                                         *)
(* A letter is bound or out only with the session holding its name; it     *)
(* returns to the queue only when that session ends; it is never lost      *)
(* before it is acked, except by expiring.                                 *)
(***************************************************************************)
CONSTANTS Sessions, Agents, NoSession, Letters

VARIABLES
    holder,  \* name -> the session holding it, or NoSession
    addr,    \* letter -> the name it is addressed to
    state,   \* letter -> where it is
    with     \* letter -> the session it is bound to or out with

mailVars == <<holder, addr, state, with>>

LetterStates == {"none", "queued", "bound", "out", "acked", "expired"}

InHands(m) == state[m] \in {"bound", "out"}

\* Letters of L get state st and are with session s.
Place(L, st, s) ==
    /\ state' = [m \in Letters |-> IF m \in L THEN st ELSE state[m]]
    /\ with' = [m \in Letters |-> IF m \in L THEN s ELSE with[m]]

MailInit ==
    /\ holder = [a \in Agents |-> NoSession]
    /\ \A m \in Letters : state[m] = "none" /\ with[m] = NoSession
    /\ DOMAIN state = Letters /\ DOMAIN with = Letters

\* A session takes a free name and with it everything queued for the name.
Take(s, a) ==
    /\ holder[a] = NoSession
    /\ \A b \in Agents : holder[b] # s
    /\ holder' = [holder EXCEPT ![a] = s]
    /\ Place({m \in Letters : state[m] = "queued" /\ addr[m] = a}, "bound", s)
    /\ UNCHANGED addr

Send(m, a) ==
    /\ state[m] = "none"
    /\ addr' = [addr EXCEPT ![m] = a]
    /\ Place({m}, IF holder[a] = NoSession THEN "queued" ELSE "bound", holder[a])
    /\ UNCHANGED holder

\* Everything bound to s is handed out to it.
HandOut(s) ==
    /\ Place({m \in Letters : state[m] = "bound" /\ with[m] = s}, "out", s)
    /\ UNCHANGED <<holder, addr>>

\* Only the session a letter is with can settle it.
Settle(s, m) ==
    /\ InHands(m) /\ with[m] = s
    /\ Place({m}, "acked", NoSession)
    /\ UNCHANGED <<holder, addr>>

\* The sessions of S end: names are free, unsettled letters queue again.
Leave(S) ==
    /\ holder' = [a \in Agents |->
                    IF holder[a] \in S THEN NoSession ELSE holder[a]]
    /\ Place({m \in Letters : InHands(m) /\ with[m] \in S}, "queued", NoSession)
    /\ UNCHANGED addr

Expire(L) ==
    /\ \A m \in L : state[m] = "queued" \/ InHands(m)
    /\ Place(L, "expired", NoSession)
    /\ UNCHANGED <<holder, addr>>

MailNext ==
    \/ \E s \in Sessions :
          \/ \E a \in Agents : Take(s, a)
          \/ HandOut(s)
          \/ \E m \in Letters : Settle(s, m)
    \/ \E m \in Letters, a \in Agents : Send(m, a)
    \/ \E S \in SUBSET Sessions : Leave(S)
    \/ \E L \in SUBSET Letters : Expire(L)

MailSpec == MailInit /\ [][MailNext]_mailVars
=============================================================================
