------------------------------ MODULE BrokerDB ------------------------------
(***************************************************************************)
(* The broker's SQLite database, as broker_core.go uses it: the tables of  *)
(* newBroker, kept column by column, and one operator per SQL statement.   *)
(*                                                                         *)
(*   - a SELECT is a state function;                                       *)
(*   - an INSERT, UPDATE or DELETE is an action over the columns it may    *)
(*     write, and leaves every other column to its caller.                 *)
(*                                                                         *)
(* Broker runs a handler's statements as one step; BrokerSteps runs each   *)
(* of them as a step of its own. Both use the statements of this module.   *)
(*                                                                         *)
(* Columns that no statement tests are left out: text, sender, attempts,   *)
(* ack_session, summary, machine, cwd. The events table is an audit log    *)
(* no handler decides on.                                                  *)
(***************************************************************************)
EXTENDS Naturals, FiniteSets

CONSTANTS
    Sessions,   \* the session ids generatePeerID may hand out
    Agents,     \* the agent names
    NoSession,  \* to_session = ''
    NoAgent,    \* agent_name = '' or to_agent = ''
    NoRow,      \* the session id has no row in peers
    MaxMsgs     \* bound: rows ever inserted into messages

ASSUME SentinelAssumption ==
    /\ NoSession \notin Sessions
    /\ NoAgent \notin Agents
    /\ NoRow \notin Agents
    /\ NoRow # NoAgent

ASSUME MaxMsgsAssumption == MaxMsgs \in Nat

MsgIds == 1 .. MaxMsgs

VARIABLES
    peers,      \* table peers: id -> agent_name, or NoRow
    stale,      \* ids of peers whose last_seen is before the sweep's cutoff
    stored,     \* ids of the rows of table messages
    toAgent,    \* column to_agent
    toSession,  \* column to_session
    delivered,  \* rows with delivered_at set
    acked,      \* rows with ack_at set
    lastId,     \* the AUTOINCREMENT counter of messages
    namesSeen   \* table agent_names_seen

peersTable == <<peers, stale>>
messagesTable == <<stored, toAgent, toSession, delivered, acked, lastId>>
tables == <<peersTable, messagesTable, namesSeen>>

TablesTypeOK ==
    /\ peers \in [Sessions -> Agents \cup {NoAgent, NoRow}]
    /\ stale \subseteq Sessions
    /\ stored \subseteq MsgIds
    /\ toAgent \in [MsgIds -> Agents \cup {NoAgent}]
    /\ toSession \in [MsgIds -> Sessions \cup {NoSession}]
    /\ delivered \subseteq MsgIds
    /\ acked \subseteq MsgIds
    /\ lastId \in 0 .. MaxMsgs
    /\ namesSeen \subseteq Agents

EmptyTables ==
    /\ peers = [s \in Sessions |-> NoRow]
    /\ stale = {}
    /\ stored = {}
    /\ toAgent = [m \in MsgIds |-> NoAgent]
    /\ toSession = [m \in MsgIds |-> NoSession]
    /\ delivered = {}
    /\ acked = {}
    /\ lastId = 0
    /\ namesSeen = {}

-----------------------------------------------------------------------------
(* Table peers *)

Live(s) == peers[s] # NoRow

\* SELECT agent_name FROM peers WHERE id = s ('' when there is no row)
AgentName(s) == IF Live(s) THEN peers[s] ELSE NoAgent

\* SELECT id FROM peers WHERE agent_name = a
Holders(a) == {s \in Sessions : peers[s] = a}

\* Mutant of IndexRefuses: the index is missing.
NoIndex(s, a) == FALSE

\* The unique index on a non-empty agent_name refuses a second row with a.
IndexRefuses(s, a) == a # NoAgent /\ Holders(a) \ {s} # {}

\* INSERT INTO peers; the error of a refused row is not looked at.
InsertPeer(s, a) ==
    peers' = IF IndexRefuses(s, a) THEN peers ELSE [peers EXCEPT ![s] = a]

\* UPDATE peers SET agent_name = a WHERE id = s; error and row count ignored.
UpdateAgentName(s, a) ==
    peers' = IF IndexRefuses(s, a) \/ ~Live(s)
             THEN peers ELSE [peers EXCEPT ![s] = a]

\* UPDATE peers SET last_seen = now WHERE id = s
UpdateLastSeen(s) == stale' = stale \ {s}

\* DELETE FROM peers, the rows of the ids in S
DeletePeers(S) ==
    /\ peers' = [s \in Sessions |-> IF s \in S THEN NoRow ELSE peers[s]]
    /\ stale' = stale \ S

-----------------------------------------------------------------------------
(* Table messages *)

\* The SELECT of pollMessages and peekMessages for session s holding name a.
Undelivered(s, a) ==
    {m \in stored \ delivered :
        toSession[m] = s \/ (a # NoAgent /\ toAgent[m] = a)}

\* INSERT INTO messages
InsertMessage(a, s) ==
    /\ lastId < MaxMsgs
    /\ lastId' = lastId + 1
    /\ stored' = stored \cup {lastId'}
    /\ toAgent' = [toAgent EXCEPT ![lastId'] = a]
    /\ toSession' = [toSession EXCEPT ![lastId'] = s]

\* UPDATE to_session of the rows in M.
Bind(M, s) == toSession' = [m \in MsgIds |-> IF m \in M THEN s ELSE toSession[m]]

\* Rows queued on name a: the WHERE clause of the drain.
Queued(a) ==
    {m \in stored \ delivered : toAgent[m] = a /\ toSession[m] = NoSession}

\* The drain of register and claimAgent.
Drain(s, a) == Bind(Queued(a), s)

\* pollMessages' UPDATE ... WHERE id, for the rows in M that still exist.
MarkDelivered(s, M) ==
    /\ delivered' = delivered \cup (M \cap stored)
    /\ Bind(M \cap stored, s)

\* UPDATE messages SET ack_at WHERE id = m AND to_session = s
SetAck(s, m) ==
    acked' = IF m \in stored /\ toSession[m] = s THEN acked \cup {m} ELSE acked

\* Mutant of UnackedQueued: ack_at is not looked at.
QueuedAckedOrNot(S) ==
    {m \in stored : toAgent[m] # NoAgent /\ toSession[m] \in S}

\* Unacked rows bound to a session of S: direct ones, and agent-queued ones.
UnackedDirect(S) ==
    {m \in stored \ acked : toAgent[m] = NoAgent /\ toSession[m] \in S}
UnackedQueued(S) ==
    {m \in stored \ acked : toAgent[m] # NoAgent /\ toSession[m] \in S}

\* Mutant of DropDirect: direct messages outlive their session.
KeepDirect(S) == stored' = stored

\* DELETE FROM messages WHERE to_session = s AND to_agent = '' AND ack_at IS NULL
DropDirect(S) == stored' = stored \ UnackedDirect(S)

\* Mutant of Requeue: delivered_at is not reset.
RequeueDelivered(S) ==
    /\ delivered' = delivered
    /\ Bind(UnackedQueued(S), NoSession)

\* UPDATE messages SET to_session = '', delivered_at = NULL
\* WHERE to_session = s AND to_agent != '' AND ack_at IS NULL
Requeue(S) ==
    /\ delivered' = delivered \ UnackedQueued(S)
    /\ Bind(UnackedQueued(S), NoSession)

\* The two retention DELETEs of the sweep goroutine. Ids follow sent_at, so the
\* 24h limit on unacked rows cuts at an id; the 1h limit on acked ones depends
\* on when each was acked, which the model leaves open.
DeleteExpired(cut, old) ==
    stored' = stored \ ({m \in stored \ acked : m <= cut} \cup (old \cap acked))

-----------------------------------------------------------------------------
(* Table agent_names_seen *)

\* INSERT OR IGNORE INTO agent_names_seen
InsertNameSeen(a) == namesSeen' = namesSeen \cup {a}

\* newBroker's backfill: the names of live peers and every to_agent ever sent.
BackfillNamesSeen ==
    namesSeen' = namesSeen \cup ({peers[s] : s \in Sessions} \cap Agents)
                           \cup ({toAgent[m] : m \in stored} \cap Agents)
=============================================================================
