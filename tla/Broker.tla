------------------------------- MODULE Broker -------------------------------
(***************************************************************************)
(* The broker of broker_core.go with every handler run to its end before   *)
(* the next one starts: the design the handlers are written for. The same  *)
(* handlers, interleaved statement by statement, are in BrokerSteps.       *)
(*                                                                         *)
(* Handlers that only read (listPeers, peekMessages, recentEvents) and the *)
(* requests a handler refuses (a name conflict, an unknown session, both   *)
(* or neither of to_agent and to_session) leave the database alone and are *)
(* stuttering steps.                                                       *)
(***************************************************************************)
EXTENDS BrokerDB

VARIABLES
    issued,    \* session ids generatePeerID has returned
    running,   \* sessions whose MCP server process still runs
    handed,    \* history: the message ids the polls of a session returned
    reply,     \* history: delivery_status of the response to each send
    claimed,   \* history: the names some session has held
    backfilled \* history: names nobody had held, with mail stored at a restart

vars == <<tables, issued, running, handed, reply, claimed, backfilled>>

DeliveryStatus == {"none", "bound", "queued_offline", "queued_unknown"}

TypeOK ==
    /\ TablesTypeOK
    /\ issued \subseteq Sessions
    /\ running \subseteq issued
    /\ handed \in [Sessions -> SUBSET MsgIds]
    /\ reply \in [MsgIds -> DeliveryStatus]
    /\ claimed \subseteq Agents
    /\ backfilled \subseteq Agents

Init ==
    /\ EmptyTables
    /\ issued = {}
    /\ running = {}
    /\ handed = [s \in Sessions |-> {}]
    /\ reply = [m \in MsgIds |-> "none"]
    /\ claimed = {}
    /\ backfilled = {}

-----------------------------------------------------------------------------
(* The handlers *)

\* register without an agent name: an ephemeral session.
RegisterEphemeral(s) ==
    /\ s \notin issued
    /\ InsertPeer(s, NoAgent)
    /\ issued' = issued \cup {s}
    /\ running' = running \cup {s}
    /\ UNCHANGED <<stale, messagesTable, namesSeen, handed, reply, claimed, backfilled>>

\* register with a name no live session holds; queued messages drain to it.
Register(s, a) ==
    /\ s \notin issued
    /\ Holders(a) = {}
    /\ InsertPeer(s, a)
    /\ Drain(s, a)
    /\ InsertNameSeen(a)
    /\ issued' = issued \cup {s}
    /\ running' = running \cup {s}
    /\ claimed' = claimed \cup {a}
    /\ UNCHANGED <<stale, stored, toAgent, delivered, acked, lastId,
                   handed, reply, backfilled>>

\* Mutant of Heartbeat: it inserts a row for a session that has none.
HeartbeatUpserts(s) ==
    /\ s \in running
    /\ peers' = IF Live(s) THEN peers ELSE [peers EXCEPT ![s] = NoAgent]
    /\ UpdateLastSeen(s)
    /\ UNCHANGED <<messagesTable, namesSeen, issued, running, handed, reply,
                   claimed, backfilled>>

Heartbeat(s) ==
    /\ s \in running
    /\ Live(s)
    /\ UpdateLastSeen(s)
    /\ UNCHANGED <<peers, messagesTable, namesSeen, issued, running, handed,
                   reply, claimed, backfilled>>

\* claimAgent: only a live session without a name, only a free name.
ClaimAgent(s, a) ==
    /\ s \in running
    /\ peers[s] = NoAgent
    /\ Holders(a) = {}
    /\ UpdateAgentName(s, a)
    /\ Drain(s, a)
    /\ InsertNameSeen(a)
    /\ claimed' = claimed \cup {a}
    /\ UNCHANGED <<stale, stored, toAgent, delivered, acked, lastId,
                   issued, running, handed, reply, backfilled>>

\* sendMessage to a session, which must exist.
SendToSession(s) ==
    /\ Live(s)
    /\ InsertMessage(NoAgent, s)
    /\ reply' = [reply EXCEPT ![lastId'] = "bound"]
    /\ UNCHANGED <<peersTable, delivered, acked, namesSeen, issued, running,
                   handed, claimed, backfilled>>

\* Mutant of QueuedStatus: the two-state answer of older brokers.
OneQueuedStatus(a) == "queued"

\* Whether the broker has seen the name of a queued message.
QueuedStatus(a) == IF a \in namesSeen THEN "queued_offline" ELSE "queued_unknown"

\* Mutant of SendToAgent: it records the name itself, as register does.
SendRecordsName(a) ==
    /\ \/ \E h \in Holders(a) :
             /\ InsertMessage(a, h)
             /\ reply' = [reply EXCEPT ![lastId'] = "bound"]
       \/ /\ Holders(a) = {}
          /\ InsertMessage(a, NoSession)
          /\ reply' = [reply EXCEPT ![lastId'] = QueuedStatus(a)]
    /\ InsertNameSeen(a)
    /\ UNCHANGED <<peersTable, delivered, acked, issued, running, handed, claimed,
                   backfilled>>

\* sendMessage to an agent: bound to the holder of the name, else queued, and
\* then the status says whether the name is one the broker has seen.
SendToAgent(a) ==
    /\ \/ \E h \in Holders(a) :
             /\ InsertMessage(a, h)
             /\ reply' = [reply EXCEPT ![lastId'] = "bound"]
       \/ /\ Holders(a) = {}
          /\ InsertMessage(a, NoSession)
          /\ reply' = [reply EXCEPT ![lastId'] = QueuedStatus(a)]
    /\ UNCHANGED <<peersTable, delivered, acked, namesSeen, issued, running,
                   handed, claimed, backfilled>>

\* pollMessages. The caller need not have a row: an evicted client polls on
\* until a heartbeat tells it.
PollMessages(s) ==
    LET M == Undelivered(s, AgentName(s))
    IN  /\ s \in running
        /\ M # {}
        /\ MarkDelivered(s, M)
        /\ handed' = [handed EXCEPT ![s] = @ \cup M]
        /\ UNCHANGED <<peersTable, stored, toAgent, acked, lastId, namesSeen,
                       issued, running, reply, claimed, backfilled>>

AckMessage(s, m) ==
    /\ s \in running
    /\ SetAck(s, m)
    /\ UNCHANGED <<peersTable, stored, toAgent, toSession, delivered, lastId,
                   namesSeen, issued, running, handed, reply, claimed, backfilled>>

\* The end of the sessions in S, common to unregister and cleanStalePeers:
\* names are freed, direct messages dropped, agent messages requeued.
EndSessions(S) ==
    /\ DeletePeers(S)
    /\ DropDirect(S)
    /\ Requeue(S)
    /\ UNCHANGED <<toAgent, acked, lastId, namesSeen, issued, handed, reply,
                   claimed, backfilled>>

Unregister(s) ==
    /\ s \in running
    /\ EndSessions({s})
    /\ running' = running \ {s}

\* Mutant of CleanStalePeers: rows go, their messages stay as they are.
SweepRowsOnly ==
    /\ stale # {}
    /\ DeletePeers(stale)
    /\ UNCHANGED <<messagesTable, namesSeen, issued, running, handed, reply,
                   claimed, backfilled>>

CleanStalePeers ==
    /\ stale # {}
    /\ EndSessions(stale)
    /\ UNCHANGED running

\* The slow branch of the sweep goroutine, every 30th sweep.
PruneMessages(cut, old) ==
    /\ DeleteExpired(cut, old)
    /\ UNCHANGED <<peersTable, toAgent, toSession, delivered, acked, lastId,
                   namesSeen, issued, running, handed, reply, claimed, backfilled>>

\* The broker process stops and newBroker opens the same database.
Restart ==
    /\ BackfillNamesSeen
    /\ backfilled' = backfilled \cup (({toAgent[m] : m \in stored} \cap Agents) \ claimed)
    /\ UNCHANGED <<peersTable, messagesTable, issued, running, handed, reply,
                   claimed>>

-----------------------------------------------------------------------------
(* The environment *)

\* StaleTimeout passes since the last heartbeat of s.
GoStale(s) ==
    /\ Live(s)
    /\ stale' = stale \cup {s}
    /\ UNCHANGED <<peers, messagesTable, namesSeen, issued, running, handed,
                   reply, claimed, backfilled>>

\* The client of s dies, or is cut off, without unregistering.
ClientCrash(s) ==
    /\ running' = running \ {s}
    /\ UNCHANGED <<tables, issued, handed, reply, claimed, backfilled>>

Next ==
    \/ \E s \in Sessions :
          \/ RegisterEphemeral(s)
          \/ \E a \in Agents : Register(s, a) \/ ClaimAgent(s, a)
          \/ Heartbeat(s)
          \/ SendToSession(s)
          \/ PollMessages(s)
          \/ \E m \in 1 .. lastId : AckMessage(s, m)
          \/ Unregister(s)
          \/ GoStale(s)
          \/ ClientCrash(s)
    \/ \E a \in Agents : SendToAgent(a)
    \/ CleanStalePeers
    \/ \E cut \in 0 .. lastId, old \in SUBSET acked : PruneMessages(cut, old)
    \/ Restart

Spec == Init /\ [][Next]_vars

\* The sweep goroutine never stops, and time passes for a client that has
\* stopped sending heartbeats. Nothing is assumed of the clients.
Fairness ==
    /\ WF_vars(CleanStalePeers)
    /\ \A s \in Sessions : WF_vars(s \notin running /\ GoStale(s))

FairSpec == Spec /\ Fairness

-----------------------------------------------------------------------------
(* Safety *)

\* What a session can count on. Every unacked message is where the code that
\* ends a session will find it: bound to a live session, and to the one that
\* holds the name when it is addressed to a name.
BoundToHolder ==
    \A m \in stored \ acked :
        toSession[m] # NoSession =>
            /\ Live(toSession[m])
            /\ toAgent[m] # NoAgent => peers[toSession[m]] = toAgent[m]

\* A message waits in a queue only while nobody holds the name: register and
\* claimAgent drain all of it, and eviction puts back what it must.
QueuedMeansNoHolder ==
    \A m \in stored \ acked :
        toSession[m] = NoSession =>
            /\ toAgent[m] # NoAgent
            /\ m \notin delivered
            /\ Holders(toAgent[m]) = {}

\* A live session owns what its polls returned: the row stays delivered and
\* bound to it, so that its ack takes effect and no other session is handed
\* the message while it lives.
HandedIsOwned ==
    \A s \in Sessions : \A m \in handed[s] \cap stored :
        Live(s) => m \in delivered /\ toSession[m] = s

\* No message has been handed to two sessions that are both live.
OneLiveRecipient ==
    \A s, t \in Sessions :
        Live(s) /\ Live(t) /\ s # t => handed[s] \cap handed[t] = {}

\* A delivered message that was acked stays so until it is deleted, and is
\* handed to nobody again, whoever takes the name next and whatever restarts in
\* between.
AckIsFinal ==
    [][\A m \in acked \cap delivered :
         /\ m \in stored' => m \in acked' \cap delivered'
         /\ \A s \in Sessions : m \notin handed'[s] \ handed[s]]_vars

\* What the answer to a queued message says of its name. "queued_unknown", the typo
\* warning, has no false alarms: nobody has ever held the name, across evictions and
\* restarts. "queued_offline" means that somebody has, or that a message to the name
\* was in the database when the broker restarted: sending alone never makes it known.
StatusTellsHeldNames ==
    [][\A m \in MsgIds : reply[m] = "none" =>
         /\ reply'[m] = "queued_unknown" => toAgent'[m] \notin claimed
         /\ reply'[m] = "queued_offline" =>
                toAgent'[m] \in claimed \cup backfilled]_vars

(* Liveness *)

\* An agent message bound to a session whose client died without a word leaves
\* that session: the sweep returns it to the queue (or it is pruned).
CrashedHolderReleases ==
    \A s \in Sessions, m \in MsgIds :
        (s \in issued \ running /\ m \in UnackedQueued({s}))
            ~> (m \notin UnackedQueued({s}))

-----------------------------------------------------------------------------
(* Refinement: the agent-addressed messages are the letters of AgentMailbox *)

HolderOf(a) ==
    IF Holders(a) = {} THEN NoSession ELSE CHOOSE s \in Sessions : s \in Holders(a)

LetterState(m) ==
    CASE toAgent[m] = NoAgent -> "none"
      [] toAgent[m] # NoAgent /\ m \in acked -> "acked"
      [] toAgent[m] # NoAgent /\ m \notin acked \cup stored -> "expired"
      [] m \in UnackedQueued({NoSession}) -> "queued"
      [] m \in UnackedQueued(Sessions) \cap delivered -> "out"
      [] m \in UnackedQueued(Sessions) \ delivered -> "bound"

Mailbox == INSTANCE AgentMailbox WITH
    Letters <- MsgIds,
    holder <- [a \in Agents |-> HolderOf(a)],
    addr <- toAgent,
    state <- [m \in MsgIds |-> LetterState(m)],
    with <- [m \in MsgIds |->
               IF m \in UnackedQueued(Sessions) THEN toSession[m] ELSE NoSession]

\* The broker keeps the promise of AgentMailbox: a letter is never lost before
\* it is acked or expires, is only ever with the holder of its name, and queues
\* again exactly when that session ends.
KeepsMailPromise == Mailbox!MailSpec
=============================================================================
