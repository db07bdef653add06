---------------------------- MODULE BrokerProofs ----------------------------
(***************************************************************************)
(* Proofs about Broker and about McpServer, which extends it, for any sets *)
(* of sessions and names and any bound on the messages.                    *)
(*                                                                         *)
(* The promises of Broker are not inductive by themselves. A session that  *)
(* is about to register must have no row and no history (OnlyIssued), a    *)
(* message about to be sent must be nowhere in the tables (FreshIds), and  *)
(* requeueing the mail of a session frees the queue only because nobody    *)
(* else held the name (NameUnique).                                        *)
(*                                                                         *)
(* Then Broker is shown to implement AgentMailbox.                         *)
(*                                                                         *)
(* The last part is about McpServer, one MCP server process beside the     *)
(* broker: the process and its surroundings ask of the broker only what    *)
(* Broker allows, so that everything shown before holds there too, and     *)
(* what its goroutines share (the session id and the state file) stays in  *)
(* step although each reads it at one time and acts on it at another.      *)
(***************************************************************************)
EXTENDS McpServer, TLAPS

NameUnique ==
    \A s, t \in Sessions : peers[s] \in Agents /\ peers[s] = peers[t] => s = t

OnlyIssued ==
    \A s \in Sessions \ issued : peers[s] = NoRow /\ handed[s] = {}

FreshIds ==
    \A m \in MsgIds : m > lastId =>
        /\ m \notin stored \cup delivered \cup acked
        /\ \A s \in Sessions : m \notin handed[s]

IInv ==
    /\ TypeOK
    /\ NameUnique
    /\ OnlyIssued
    /\ FreshIds
    /\ BoundToHolder
    /\ QueuedMeansNoHolder
    /\ HandedIsOwned
    /\ OneLiveRecipient

-----------------------------------------------------------------------------
(* Type correctness *)

\* Every handler, sweep and restart keeps the tables and histories well typed.
LEMMA TypeStep == TypeOK /\ [Next]_vars => TypeOK'
<1> SUFFICES ASSUME TypeOK, [Next]_vars PROVE TypeOK'
  OBVIOUS
<1> USE MaxMsgsAssumption
    DEF TypeOK, TablesTypeOK, MsgIds, DeliveryStatus, peersTable,
        messagesTable, tables
<1>1. ASSUME NEW s \in Sessions, RegisterEphemeral(s) PROVE TypeOK'
  BY <1>1 DEF RegisterEphemeral, InsertPeer
<1>2. ASSUME NEW s \in Sessions, NEW a \in Agents, Register(s, a) PROVE TypeOK'
  BY <1>2 DEF Register, InsertPeer, Drain, Bind, InsertNameSeen
<1>3. ASSUME NEW s \in Sessions, NEW a \in Agents, ClaimAgent(s, a) PROVE TypeOK'
  BY <1>3 DEF ClaimAgent, UpdateAgentName, Drain, Bind, InsertNameSeen
<1>4. ASSUME NEW s \in Sessions, Heartbeat(s) PROVE TypeOK'
  BY <1>4 DEF Heartbeat, UpdateLastSeen
<1>5. ASSUME NEW s \in Sessions, SendToSession(s) PROVE TypeOK'
  BY <1>5 DEF SendToSession, InsertMessage
<1>6. ASSUME NEW a \in Agents, SendToAgent(a) PROVE TypeOK'
  <2>1. ASSUME NEW h \in Sessions \cup {NoSession}, InsertMessage(a, h),
               NEW st \in DeliveryStatus, reply' = [reply EXCEPT ![lastId'] = st],
               UNCHANGED <<peersTable, delivered, acked, namesSeen, issued,
                           running, handed, claimed, backfilled>>
        PROVE  TypeOK'
    BY <2>1 DEF InsertMessage
  <2>2. CASE Holders(a) = {}
    BY <1>6, <2>1, <2>2 DEF SendToAgent, QueuedStatus, DeliveryStatus
  <2>3. CASE Holders(a) # {}
    BY <1>6, <2>1, <2>3 DEF SendToAgent, Holders
  <2>4. QED
    BY <2>2, <2>3
<1>7. ASSUME NEW s \in Sessions, PollMessages(s) PROVE TypeOK'
  BY <1>7 DEF PollMessages, MarkDelivered, Bind, Undelivered
<1>8. ASSUME NEW s \in Sessions, NEW m \in 1 .. lastId, AckMessage(s, m) PROVE TypeOK'
  BY <1>8 DEF AckMessage, SetAck
<1>9. ASSUME NEW S \in SUBSET Sessions, EndSessions(S), running' \subseteq running
      PROVE TypeOK'
  BY <1>9 DEF EndSessions, DeletePeers, DropDirect, Requeue, Bind
<1>10. ASSUME NEW s \in Sessions, Unregister(s) PROVE TypeOK'
  BY <1>9, <1>10 DEF Unregister
<1>11. CASE CleanStalePeers
  BY <1>9, <1>11 DEF CleanStalePeers
<1>12. ASSUME NEW cut \in 0 .. lastId, NEW old \in SUBSET acked, PruneMessages(cut, old)
       PROVE TypeOK'
  BY <1>12 DEF PruneMessages, DeleteExpired
<1>13. CASE Restart
  BY <1>13 DEF Restart, BackfillNamesSeen
<1>14. ASSUME NEW s \in Sessions, GoStale(s) PROVE TypeOK'
  BY <1>14 DEF GoStale
<1>15. ASSUME NEW s \in Sessions, ClientCrash(s) PROVE TypeOK'
  BY <1>15 DEF ClientCrash
<1>16. CASE UNCHANGED vars
  BY <1>16 DEF vars
<1>17. QED
  BY <1>1, <1>2, <1>3, <1>4, <1>5, <1>6, <1>7, <1>8, <1>10, <1>11, <1>12,
     <1>13, <1>14, <1>15, <1>16 DEF Next

\* Every state of the broker is well typed: rows, columns and histories hold
\* only ids, names and statuses of the model.
THEOREM TypeCorrect == Spec => []TypeOK
<1>1. Init => TypeOK
  BY MaxMsgsAssumption
  DEF Init, EmptyTables, TypeOK, TablesTypeOK, DeliveryStatus
<1>2. QED
  BY <1>1, TypeStep, PTL DEF Spec

-----------------------------------------------------------------------------
(* The inductive step, action by action *)

\* A new session, named or not: it has no row and no history, and takes the
\* whole queue of its name.
LEMMA RegisterKeeps ==
    ASSUME IInv, TypeOK', NEW s \in Sessions, NEW a \in Agents, Register(s, a)
    PROVE  IInv'
<1> USE SentinelAssumption DEF IInv, TypeOK, TablesTypeOK, Register, InsertPeer,
        IndexRefuses, Holders, Live
<1>1. peers' = [peers EXCEPT ![s] = a]
  OBVIOUS
<1>2. toSession' = [m \in MsgIds |-> IF m \in Queued(a) THEN s ELSE toSession[m]]
  BY DEF Drain, Bind
<1>3. NameUnique'
  BY <1>1 DEF NameUnique
<1>4. OnlyIssued' /\ FreshIds'
  BY <1>1 DEF OnlyIssued, FreshIds
<1>5. BoundToHolder'
  BY <1>1, <1>2 DEF BoundToHolder, Queued, OnlyIssued
<1>6. QueuedMeansNoHolder'
  BY <1>1, <1>2 DEF QueuedMeansNoHolder, Queued
<1>7. HandedIsOwned'
  BY <1>1, <1>2 DEF HandedIsOwned, Queued, OnlyIssued
<1>8. OneLiveRecipient'
  BY <1>1 DEF OneLiveRecipient, OnlyIssued
<1>9. QED
  BY <1>3, <1>4, <1>5, <1>6, <1>7, <1>8

\* A new session without a name touches no mail.
LEMMA RegisterEphemeralKeeps ==
    ASSUME IInv, TypeOK', NEW s \in Sessions, RegisterEphemeral(s)
    PROVE  IInv'
<1> USE SentinelAssumption DEF IInv, TypeOK, TablesTypeOK, RegisterEphemeral,
        messagesTable, Holders, Live
<1>1. peers' = [peers EXCEPT ![s] = NoAgent]
  BY DEF InsertPeer, IndexRefuses
<1>2. NameUnique' /\ OnlyIssued' /\ FreshIds'
  BY <1>1 DEF NameUnique, OnlyIssued, FreshIds
<1>3. BoundToHolder' /\ QueuedMeansNoHolder'
  BY <1>1 DEF BoundToHolder, QueuedMeansNoHolder, OnlyIssued
<1>4. HandedIsOwned' /\ OneLiveRecipient'
  BY <1>1 DEF HandedIsOwned, OneLiveRecipient, OnlyIssued
<1>5. QED
  BY <1>2, <1>3, <1>4

\* A nameless session adopts a free name: no agent message was bound to it.
LEMMA ClaimAgentKeeps ==
    ASSUME IInv, TypeOK', NEW s \in Sessions, NEW a \in Agents, ClaimAgent(s, a)
    PROVE  IInv'
<1> USE SentinelAssumption DEF IInv, TypeOK, TablesTypeOK, ClaimAgent, Holders, Live
<1>1. peers' = [peers EXCEPT ![s] = a]
  BY DEF UpdateAgentName, IndexRefuses
<1>2. toSession' = [m \in MsgIds |-> IF m \in Queued(a) THEN s ELSE toSession[m]]
  BY DEF Drain, Bind
<1>3. NameUnique' /\ OnlyIssued' /\ FreshIds'
  BY <1>1 DEF NameUnique, OnlyIssued, FreshIds
<1>4. BoundToHolder'
  BY <1>1, <1>2 DEF BoundToHolder, Queued
<1>5. QueuedMeansNoHolder'
  BY <1>1, <1>2 DEF QueuedMeansNoHolder, Queued
<1>6. HandedIsOwned' /\ OneLiveRecipient'
  BY <1>1, <1>2 DEF HandedIsOwned, OneLiveRecipient, Queued
<1>7. QED
  BY <1>3, <1>4, <1>5, <1>6

\* A new message, direct or to a name, bound to a session h or to nobody.
LEMMA InsertMessageKeeps ==
    ASSUME IInv, TypeOK',
           NEW a \in Agents \cup {NoAgent}, NEW h \in Sessions \cup {NoSession},
           InsertMessage(a, h),
           h # NoSession => Live(h) /\ (a # NoAgent => peers[h] = a),
           h = NoSession => a # NoAgent /\ Holders(a) = {},
           UNCHANGED <<peersTable, delivered, acked, namesSeen, issued, running,
                       handed, claimed, backfilled>>
    PROVE  IInv'
<1> USE MaxMsgsAssumption, SentinelAssumption
    DEF IInv, TypeOK, TablesTypeOK, InsertMessage, peersTable, MsgIds, Holders, Live
<1>1. /\ lastId' \in MsgIds /\ lastId' > lastId
      /\ stored' = stored \cup {lastId'}
      /\ \A m \in MsgIds : m # lastId' =>
            toAgent'[m] = toAgent[m] /\ toSession'[m] = toSession[m]
      /\ toAgent'[lastId'] = a /\ toSession'[lastId'] = h
  OBVIOUS
<1>2. NameUnique' /\ OnlyIssued' /\ FreshIds'
  BY <1>1 DEF NameUnique, OnlyIssued, FreshIds
<1>3. BoundToHolder'
  BY <1>1 DEF BoundToHolder
<1>4. QueuedMeansNoHolder'
  BY <1>1 DEF QueuedMeansNoHolder, FreshIds
<1>5. HandedIsOwned' /\ OneLiveRecipient'
  BY <1>1 DEF HandedIsOwned, OneLiveRecipient, FreshIds
<1>6. QED
  BY <1>2, <1>3, <1>4, <1>5

\* A poll returns only undelivered rows, and those no live session owns.
LEMMA PollMessagesKeeps ==
    ASSUME IInv, TypeOK', NEW s \in Sessions, PollMessages(s)
    PROVE  IInv'
<1> DEFINE M == Undelivered(s, AgentName(s))
<1> USE SentinelAssumption
    DEF IInv, TypeOK, TablesTypeOK, PollMessages, peersTable, Holders, Live
<1>1. /\ M \subseteq stored \ delivered
      /\ delivered' = delivered \cup M
      /\ toSession' = [m \in MsgIds |-> IF m \in M THEN s ELSE toSession[m]]
      /\ handed' = [handed EXCEPT ![s] = @ \cup M]
  BY DEF Undelivered, MarkDelivered, Bind
<1>2. \A m \in M \ acked : Live(s) /\ (toAgent[m] # NoAgent => peers[s] = toAgent[m])
  BY DEF Undelivered, AgentName, BoundToHolder, QueuedMeansNoHolder
<1> HIDE DEF M
<1>3. NameUnique'
  BY DEF NameUnique
<1>4. OnlyIssued' /\ FreshIds'
  BY <1>1 DEF OnlyIssued, FreshIds
<1>5. BoundToHolder'
  BY <1>1, <1>2 DEF BoundToHolder
<1>6. QueuedMeansNoHolder'
  BY <1>1 DEF QueuedMeansNoHolder
<1>7. HandedIsOwned'
  BY <1>1 DEF HandedIsOwned
<1>8. OneLiveRecipient'
  BY <1>1 DEF OneLiveRecipient, HandedIsOwned
<1>9. QED
  BY <1>3, <1>4, <1>5, <1>6, <1>7, <1>8

\* Ending a set of sessions: their direct mail goes, their agent mail queues,
\* and by NameUnique no other session held those names.
LEMMA EndSessionsKeeps ==
    ASSUME IInv, TypeOK', NEW S \in SUBSET Sessions, EndSessions(S)
    PROVE  IInv'
<1> USE SentinelAssumption DEF IInv, TypeOK, TablesTypeOK, EndSessions, Holders, Live
<1>1. /\ peers' = [s \in Sessions |-> IF s \in S THEN NoRow ELSE peers[s]]
      /\ stored' = stored \ UnackedDirect(S)
      /\ delivered' = delivered \ UnackedQueued(S)
      /\ toSession' = [m \in MsgIds |->
                         IF m \in UnackedQueued(S) THEN NoSession ELSE toSession[m]]
  BY DEF DeletePeers, DropDirect, Requeue, Bind
<1>2. NameUnique' /\ OnlyIssued' /\ FreshIds'
  BY <1>1 DEF NameUnique, OnlyIssued, FreshIds
<1>3. BoundToHolder'
  BY <1>1 DEF BoundToHolder, UnackedDirect, UnackedQueued
<1>4. QueuedMeansNoHolder'
  <2> SUFFICES ASSUME NEW m \in stored' \ acked', toSession'[m] = NoSession
               PROVE  /\ toAgent[m] # NoAgent
                      /\ m \notin delivered'
                      /\ \A t \in Sessions : peers'[t] # toAgent[m]
    BY DEF QueuedMeansNoHolder
  <2>1. CASE m \in UnackedQueued(S)
    <3>1. toSession[m] \in S /\ peers[toSession[m]] = toAgent[m] /\ toAgent[m] \in Agents
      BY <2>1 DEF UnackedQueued, BoundToHolder
    <3>2. QED
      BY <1>1, <2>1, <3>1 DEF NameUnique
  <2>2. CASE m \notin UnackedQueued(S)
    BY <1>1, <2>2 DEF QueuedMeansNoHolder
  <2>3. QED
    BY <2>1, <2>2
<1>5. HandedIsOwned'
  BY <1>1 DEF HandedIsOwned, UnackedQueued
<1>6. OneLiveRecipient'
  BY <1>1 DEF OneLiveRecipient
<1>7. QED
  BY <1>2, <1>3, <1>4, <1>5, <1>6

\* Steps that leave rows and bindings alone, or only remove rows or mark them
\* acked: heartbeat, ack, prune, restart and the environment's.
LEMMA QuietStepKeeps ==
    ASSUME IInv, TypeOK', stored' \subseteq stored, acked \subseteq acked',
           \A m \in acked' : m <= lastId,
           UNCHANGED <<peers, toAgent, toSession, delivered, lastId, issued, handed>>
    PROVE  IInv'
<1> USE DEF IInv, TypeOK, TablesTypeOK, Holders, Live, MsgIds
<1>1. NameUnique' /\ OnlyIssued'
  BY DEF NameUnique, OnlyIssued
<1>2. FreshIds'
  BY DEF FreshIds
<1>3. BoundToHolder' /\ QueuedMeansNoHolder'
  BY DEF BoundToHolder, QueuedMeansNoHolder
<1>4. HandedIsOwned' /\ OneLiveRecipient'
  BY DEF HandedIsOwned, OneLiveRecipient
<1>5. QED
  BY <1>1, <1>2, <1>3, <1>4

-----------------------------------------------------------------------------
(* The theorems *)

\* Every handler, sweep, restart and step of the environment keeps IInv.
LEMMA InductiveStep == IInv /\ [Next]_vars => IInv'
<1> SUFFICES ASSUME IInv, [Next]_vars PROVE IInv'
  OBVIOUS
<1>t. TypeOK'
  BY TypeStep DEF IInv
<1> USE <1>t
<1>1. ASSUME NEW s \in Sessions, NEW a \in Agents, Register(s, a) PROVE IInv'
  BY <1>1, RegisterKeeps
<1>2. ASSUME NEW s \in Sessions, RegisterEphemeral(s) PROVE IInv'
  BY <1>2, RegisterEphemeralKeeps
<1>3. ASSUME NEW s \in Sessions, NEW a \in Agents, ClaimAgent(s, a) PROVE IInv'
  BY <1>3, ClaimAgentKeeps
<1>4. ASSUME NEW s \in Sessions, SendToSession(s) PROVE IInv'
  <2>1. s # NoSession /\ Live(s) /\ InsertMessage(NoAgent, s)
    BY <1>4, SentinelAssumption DEF SendToSession
  <2>2. QED
    BY <1>4, <2>1, InsertMessageKeeps DEF SendToSession
<1>5. ASSUME NEW a \in Agents, SendToAgent(a) PROVE IInv'
  <2>1. CASE Holders(a) = {}
    BY <1>5, <2>1, SentinelAssumption, InsertMessageKeeps DEF SendToAgent
  <2>2. CASE Holders(a) # {}
    <3>1. PICK h \in Holders(a) : InsertMessage(a, h)
      BY <1>5, <2>2 DEF SendToAgent
    <3>2. h \in Sessions /\ h # NoSession /\ Live(h) /\ peers[h] = a
      BY SentinelAssumption DEF Holders, Live
    <3>3. QED
      BY <1>5, <3>1, <3>2, InsertMessageKeeps DEF SendToAgent
  <2>3. QED
    BY <2>1, <2>2
<1>6. ASSUME NEW s \in Sessions, PollMessages(s) PROVE IInv'
  BY <1>6, PollMessagesKeeps
<1>7. ASSUME NEW s \in Sessions, Unregister(s) PROVE IInv'
  BY <1>7, EndSessionsKeeps DEF Unregister
<1>8. CASE CleanStalePeers
  BY <1>8, EndSessionsKeeps DEF CleanStalePeers, IInv, TypeOK, TablesTypeOK
<1>9. \A m \in acked : m <= lastId
  BY MaxMsgsAssumption DEF IInv, FreshIds, TypeOK, TablesTypeOK, MsgIds
<1> USE DEF peersTable, messagesTable, tables
<1>10. ASSUME NEW s \in Sessions, NEW m \in 1 .. lastId, AckMessage(s, m) PROVE IInv'
  BY <1>9, <1>10, QuietStepKeeps DEF AckMessage, SetAck, IInv, TypeOK, TablesTypeOK
<1>11. ASSUME NEW s \in Sessions, Heartbeat(s) PROVE IInv'
  BY <1>9, <1>11, QuietStepKeeps DEF Heartbeat
<1>12. ASSUME NEW cut \in 0 .. lastId, NEW old \in SUBSET acked, PruneMessages(cut, old)
       PROVE  IInv'
  BY <1>9, <1>12, QuietStepKeeps DEF PruneMessages, DeleteExpired
<1>13. CASE Restart
  BY <1>9, <1>13, QuietStepKeeps DEF Restart
<1>14. ASSUME NEW s \in Sessions, GoStale(s) PROVE IInv'
  BY <1>9, <1>14, QuietStepKeeps DEF GoStale
<1>15. ASSUME NEW s \in Sessions, ClientCrash(s) PROVE IInv'
  BY <1>9, <1>15, QuietStepKeeps DEF ClientCrash
<1>16. CASE UNCHANGED vars
  BY <1>9, <1>16, QuietStepKeeps DEF vars
<1>17. QED
  BY <1>1, <1>2, <1>3, <1>4, <1>5, <1>6, <1>7, <1>8, <1>10, <1>11, <1>12,
     <1>13, <1>14, <1>15, <1>16 DEF Next

\* IInv holds of the empty database newBroker creates.
LEMMA InitInductive == Init => IInv
BY MaxMsgsAssumption, SentinelAssumption
DEF Init, EmptyTables, IInv, TypeOK, TablesTypeOK, DeliveryStatus, NameUnique,
    OnlyIssued, FreshIds, BoundToHolder, QueuedMeansNoHolder, HandedIsOwned,
    OneLiveRecipient, Live

\* IInv holds in every state the handlers, the sweep and restarts can reach.
LEMMA InductiveInvariant == Spec => []IInv
BY InitInductive, InductiveStep, PTL DEF Spec

\* Every unacked message that is bound is bound to a live session, the holder of
\* its name if it has one: what unregister and cleanStalePeers rely on to find it.
THEOREM MailIsBoundToHolder == Spec => []BoundToHolder
BY InductiveInvariant, PTL DEF IInv

\* Nothing waits in the queue of a name that a live session holds.
THEOREM QueueIsDrained == Spec => []QueuedMeansNoHolder
BY InductiveInvariant, PTL DEF IInv

\* A message a poll returned to a live session stays its own, so its ack works.
THEOREM PolledMailIsOwned == Spec => []HandedIsOwned
BY InductiveInvariant, PTL DEF IInv

\* Two live sessions have never been handed the same message.
THEOREM NoTwoLiveRecipients == Spec => []OneLiveRecipient
BY InductiveInvariant, PTL DEF IInv

\* A delivered and acked message is never handed out again.
THEOREM AckedMailStaysAcked == Spec => AckIsFinal
<1> DEFINE Final(m) == /\ m \in stored' => m \in acked' \cap delivered'
                       /\ \A s \in Sessions : m \notin handed'[s] \ handed[s]
<1>1. TypeOK /\ [Next]_vars => [\A m \in acked \cap delivered : Final(m)]_vars
  <2> SUFFICES ASSUME TypeOK, [Next]_vars, NEW m \in acked \cap delivered
               PROVE  Final(m)
    OBVIOUS
  <2>1. CASE UNCHANGED <<handed, delivered>> /\ acked \subseteq acked'
    BY <2>1
  <2>2. ASSUME NEW t \in Sessions, PollMessages(t)
        PROVE  Final(m)
    BY <2>2 DEF PollMessages, Undelivered, MarkDelivered, TypeOK
  <2>3. ASSUME NEW S, EndSessions(S)
        PROVE  Final(m)
    BY <2>3 DEF EndSessions, Requeue, UnackedQueued
  <2>4. ASSUME NEW t \in Sessions, NEW n \in 1 .. lastId, AckMessage(t, n)
        PROVE  Final(m)
    BY <2>4, <2>1 DEF AckMessage, SetAck
  <2>5. QED
    BY <2>1, <2>2, <2>3, <2>4
    DEF Next, vars, tables, messagesTable, Register, RegisterEphemeral,
        Heartbeat, ClaimAgent, SendToSession, SendToAgent, Unregister,
        CleanStalePeers, PruneMessages, Restart, GoStale, ClientCrash
<1>2. QED
  BY <1>1, TypeCorrect, PTL DEF Spec, AckIsFinal

-----------------------------------------------------------------------------
(* The answers to a sender *)

\* What agent_names_seen knows: every name a session has held, and beyond them only
\* names that had mail in the database at a restart. A message has an answer once it is inserted.
SeenNames ==
    /\ claimed \subseteq namesSeen
    /\ namesSeen \subseteq claimed \cup backfilled
    /\ \A s \in Sessions : peers[s] \in Agents => peers[s] \in claimed
    /\ \A m \in MsgIds : reply[m] = "none" <=> m > lastId

\* The seen names stay in step with the held ones through every handler, eviction
\* and restart; only the backfill of newBroker adds names nobody has held.
LEMMA SeenNamesStep == IInv /\ SeenNames /\ [Next]_vars => SeenNames'
<1> SUFFICES ASSUME IInv, SeenNames, [Next]_vars PROVE SeenNames'
  OBVIOUS
<1> USE MaxMsgsAssumption, SentinelAssumption
    DEF IInv, TypeOK, TablesTypeOK, MsgIds, peersTable, messagesTable, tables, SeenNames
<1>1. ASSUME NEW s \in Sessions, NEW a \in Agents,
             Register(s, a) \/ ClaimAgent(s, a)
      PROVE  SeenNames'
  BY <1>1 DEF Register, ClaimAgent, InsertPeer, UpdateAgentName, InsertNameSeen
<1>2. ASSUME NEW s \in Sessions, RegisterEphemeral(s) PROVE SeenNames'
  BY <1>2 DEF RegisterEphemeral, InsertPeer
<1>3. ASSUME NEW a \in Agents \cup {NoAgent}, NEW h \in Sessions \cup {NoSession},
             InsertMessage(a, h), NEW st \in DeliveryStatus \ {"none"},
             reply' = [reply EXCEPT ![lastId'] = st],
             UNCHANGED <<peersTable, namesSeen, claimed, backfilled>>
      PROVE  SeenNames'
  <2>1. lastId' = lastId + 1 /\ lastId' \in MsgIds
    BY <1>3 DEF InsertMessage
  <2>2. \A m \in MsgIds : reply'[m] = "none" <=> m > lastId'
    BY <1>3, <2>1
  <2>3. QED
    BY <1>3, <2>2
<1>4. ASSUME NEW s \in Sessions, SendToSession(s) PROVE SeenNames'
  BY <1>3, <1>4 DEF SendToSession, DeliveryStatus
<1>5. ASSUME NEW a \in Agents, SendToAgent(a) PROVE SeenNames'
  <2>1. CASE Holders(a) = {}
    BY <1>3, <1>5, <2>1 DEF SendToAgent, QueuedStatus, DeliveryStatus
  <2>2. CASE Holders(a) # {}
    BY <1>3, <1>5, <2>2 DEF SendToAgent, Holders, DeliveryStatus
  <2>3. QED
    BY <2>1, <2>2
<1>6. ASSUME NEW S \in SUBSET Sessions, EndSessions(S) PROVE SeenNames'
  BY <1>6 DEF EndSessions, DeletePeers
<1>7. CASE Restart
  BY <1>7 DEF Restart, BackfillNamesSeen
<1>8. CASE UNCHANGED <<peers, namesSeen, claimed, backfilled, lastId, reply>>
  BY <1>8
<1>9. QED
  BY <1>1, <1>2, <1>4, <1>5, <1>6, <1>7, <1>8
  DEF Next, vars, Heartbeat, PollMessages, AckMessage, Unregister, CleanStalePeers,
      PruneMessages, GoStale, ClientCrash

\* The status sendMessage returns tells apart names that were held and names nobody
\* has held: "queued_unknown" is never said of a name a session ever had, and
\* "queued_offline" only of one that was held or had mail when the broker restarted.
THEOREM StatusIsTrue == Spec => StatusTellsHeldNames
<1> DEFINE Told(m) ==
        /\ reply'[m] = "queued_unknown" => toAgent'[m] \notin claimed
        /\ reply'[m] = "queued_offline" => toAgent'[m] \in claimed \cup backfilled
<1>1. Init => SeenNames
  BY SentinelAssumption, MaxMsgsAssumption DEF Init, EmptyTables, SeenNames, MsgIds
<1>2. IInv /\ SeenNames /\ [Next]_vars
         => [\A m \in MsgIds : reply[m] = "none" => Told(m)]_vars
  <2> SUFFICES ASSUME IInv, SeenNames, [Next]_vars,
                      NEW m \in MsgIds, reply[m] = "none"
               PROVE  Told(m)
    OBVIOUS
  <2> USE MaxMsgsAssumption DEF IInv, TypeOK, TablesTypeOK, MsgIds, InsertMessage
  <2>1. CASE UNCHANGED reply
    BY <2>1
  <2>2. ASSUME NEW s \in Sessions, SendToSession(s) PROVE Told(m)
    BY <2>2 DEF SendToSession
  <2>3. ASSUME NEW a \in Agents, SendToAgent(a) PROVE Told(m)
    <3>1. CASE m # lastId'
      BY <2>3, <3>1 DEF SendToAgent
    <3>2. CASE m = lastId' /\ Holders(a) # {}
      BY <2>3, <3>2 DEF SendToAgent
    <3>3. CASE m = lastId' /\ Holders(a) = {}
      <4>1. /\ toAgent'[m] = a /\ m = lastId + 1
            /\ reply'[m] = QueuedStatus(a)
        BY <2>3, <3>3 DEF SendToAgent, Holders
      <4>2. QED
        BY <4>1 DEF QueuedStatus, SeenNames
    <3>4. QED
      BY <3>1, <3>2, <3>3
  <2>4. QED
    BY <2>1, <2>2, <2>3
    DEF Next, vars, Register, RegisterEphemeral, ClaimAgent, Heartbeat, PollMessages,
        AckMessage, Unregister, CleanStalePeers, EndSessions, PruneMessages, Restart,
        GoStale, ClientCrash
<1>3. QED
  BY <1>1, <1>2, SeenNamesStep, InductiveInvariant, PTL DEF Spec, StatusTellsHeldNames

-----------------------------------------------------------------------------
(***************************************************************************)
(* The refinement                                                          *)
(*                                                                         *)
(* The mapping of Broker reads the place of a letter off the columns of    *)
(* its row, which is what the abstract letter is only because of IInv: an  *)
(* unacked row is bound to the one holder of its name or queued while      *)
(* there is none. One invariant is added: a row that is yet to be inserted *)
(* is a letter nobody has sent.                                            *)
(***************************************************************************)

UnsentUnaddressed == \A m \in MsgIds : m > lastId => toAgent[m] = NoAgent

RInv == IInv /\ UnsentUnaddressed

-----------------------------------------------------------------------------
(* The mapping, read off the columns *)

\* The place of a letter, one test after the other.
PlaceOf(m) ==
    IF toAgent[m] = NoAgent THEN "none"
    ELSE IF m \in acked THEN "acked"
    ELSE IF m \notin stored THEN "expired"
    ELSE IF toSession[m] = NoSession THEN "queued"
    ELSE IF m \in delivered THEN "out" ELSE "bound"

\* The session a letter is with.
WithOf(m) == IF PlaceOf(m) \in {"bound", "out"} THEN toSession[m] ELSE NoSession

\* The cases of LetterState exclude each other and leave nothing out, before and after
\* a step.
LEMMA LetterPlace ==
    ASSUME TypeOK, TypeOK', NEW m \in MsgIds
    PROVE  /\ LetterState(m) = PlaceOf(m)
           /\ LetterState(m)' = PlaceOf(m)'
<1> USE SentinelAssumption DEF TypeOK, TablesTypeOK, LetterState, PlaceOf, UnackedQueued
<1>1. LetterState(m) = PlaceOf(m)
  OBVIOUS
<1>2. LetterState(m)' = PlaceOf(m)'
  OBVIOUS
<1>3. QED
  BY <1>1, <1>2

\* A letter is with the session its row is bound to, while it is bound or out.
LEMMA LetterWith ==
    ASSUME TypeOK, TypeOK', NEW m \in MsgIds
    PROVE  /\ (IF m \in UnackedQueued(Sessions) THEN toSession[m] ELSE NoSession) = WithOf(m)
           /\ (IF m \in UnackedQueued(Sessions) THEN toSession[m] ELSE NoSession)' = WithOf(m)'
<1> USE SentinelAssumption DEF TypeOK, TablesTypeOK, PlaceOf, WithOf, UnackedQueued
<1>1. (IF m \in UnackedQueued(Sessions) THEN toSession[m] ELSE NoSession) = WithOf(m)
  OBVIOUS
<1>2. (IF m \in UnackedQueued(Sessions) THEN toSession[m] ELSE NoSession)' = WithOf(m)'
  OBVIOUS
<1>3. QED
  BY <1>1, <1>2

\* The unique index makes the abstract holder of a name the one session that has it.
LEMMA HolderIs ==
    ASSUME IInv, IInv', NEW a \in Agents
    PROVE  /\ HolderOf(a) \in Sessions \cup {NoSession}
           /\ HolderOf(a)' \in Sessions \cup {NoSession}
           /\ \A s \in Sessions : HolderOf(a) = s <=> peers[s] = a
           /\ \A s \in Sessions : HolderOf(a)' = s <=> peers'[s] = a
<1> USE SentinelAssumption DEF HolderOf, Holders, IInv, NameUnique
<1>1. CASE Holders(a) = {}
  BY <1>1
<1>2. CASE Holders(a) # {}
  BY <1>2
<1>3. CASE Holders(a)' = {}
  BY <1>3
<1>4. CASE Holders(a)' # {}
  BY <1>4
<1>5. QED
  BY <1>1, <1>2, <1>3, <1>4

\* The letters of L change place and the others stay: a step of Mailbox!Place.
LEMMA MovesLetters ==
    ASSUME TypeOK, TypeOK', NEW L \in SUBSET MsgIds, NEW st, NEW s,
           \A m \in MsgIds : PlaceOf(m)' = IF m \in L THEN st ELSE PlaceOf(m),
           \A m \in MsgIds : WithOf(m)' = IF m \in L THEN s ELSE WithOf(m)
    PROVE  Mailbox!Place(L, st, s)
<1>1. /\ \A m \in MsgIds : LetterState(m)' = IF m \in L THEN st ELSE LetterState(m)
      /\ \A m \in MsgIds :
            (IF m \in UnackedQueued(Sessions) THEN toSession[m] ELSE NoSession)'
              = IF m \in L THEN s
                ELSE IF m \in UnackedQueued(Sessions) THEN toSession[m] ELSE NoSession
  BY LetterPlace, LetterWith
<1>2. QED
  BY <1>1 DEF Mailbox!Place, MsgIds

\* No letter moves and no name changes hands: a stuttering step of the mailbox.
LEMMA MovesNothing ==
    ASSUME TypeOK, TypeOK', UNCHANGED toAgent,
           \A m \in MsgIds : PlaceOf(m)' = PlaceOf(m) /\ WithOf(m)' = WithOf(m),
           \A a \in Agents : HolderOf(a)' = HolderOf(a)
    PROVE  UNCHANGED Mailbox!mailVars
<1>1. \A m \in MsgIds :
         /\ LetterState(m)' = LetterState(m)
         /\ (IF m \in UnackedQueued(Sessions) THEN toSession[m] ELSE NoSession)'
              = IF m \in UnackedQueued(Sessions) THEN toSession[m] ELSE NoSession
  BY LetterPlace, LetterWith
<1>2. QED
  BY <1>1 DEF Mailbox!mailVars, MsgIds

-----------------------------------------------------------------------------
(* The steps of the broker as steps of the mailbox *)

\* register and claimAgent take a free name for a session that has none, and bind the
\* whole queue of the name.
LEMMA TakesName ==
    ASSUME RInv, RInv', NEW s \in Sessions, NEW a \in Agents,
           peers[s] \notin Agents, Holders(a) = {}, peers' = [peers EXCEPT ![s] = a],
           Drain(s, a), UNCHANGED <<stored, toAgent, delivered, acked, lastId>>
    PROVE  Mailbox!Take(s, a)
<1> USE SentinelAssumption DEF RInv, IInv, TypeOK, TablesTypeOK
<1> DEFINE L == {m \in MsgIds : PlaceOf(m) = "queued" /\ toAgent[m] = a}
<1>1. \A m \in MsgIds : toSession'[m] = IF m \in Queued(a) THEN s ELSE toSession[m]
  BY DEF Drain, Bind
<1>2. \A m \in MsgIds : m \in L <=> m \in Queued(a) \ acked
  BY DEF PlaceOf, Queued, QueuedMeansNoHolder
<1>3. \A m \in MsgIds : PlaceOf(m)' = IF m \in L THEN "bound" ELSE PlaceOf(m)
  BY <1>1, <1>2 DEF PlaceOf, Queued
<1>4. \A m \in MsgIds : WithOf(m)' = IF m \in L THEN s ELSE WithOf(m)
  BY <1>1, <1>2, <1>3 DEF WithOf, PlaceOf, Queued
<1> HIDE DEF L
<1>5. L \in SUBSET MsgIds
  BY DEF L
<1>6. Mailbox!Place(L, "bound", s)
  BY <1>3, <1>4, <1>5, MovesLetters
<1>7. L = {m \in MsgIds : [n \in MsgIds |-> LetterState(n)][m] = "queued" /\ toAgent[m] = a}
  BY LetterPlace DEF L
<1>8. HolderOf(a) = NoSession /\ \A b \in Agents : HolderOf(b) # s
  <2>1. HolderOf(a) = NoSession
    BY DEF HolderOf
  <2>2. \A b \in Agents : HolderOf(b) # s
    BY HolderIs
  <2>3. QED
    BY <2>1, <2>2
<1>9. \A b \in Agents : HolderOf(b)' = IF b = a THEN s ELSE HolderOf(b)
  <2> TAKE b \in Agents
  <2>1. HolderOf(b) # s
    BY <1>8
  <2>2. \A t \in Sessions : peers'[t] = b <=> (IF t = s THEN b = a ELSE peers[t] = b)
    OBVIOUS
  <2>3. \A t \in Sessions \ {s} : HolderOf(a) # t
    BY <1>8
  <2>4. QED
    BY <2>1, <2>2, <2>3, HolderIs
<1>10. [b \in Agents |-> HolderOf(b)]' = [[b \in Agents |-> HolderOf(b)] EXCEPT ![a] = s]
  BY <1>9
<1>11. Mailbox!Place({m \in MsgIds : /\ [n \in MsgIds |-> LetterState(n)][m] = "queued"
                                     /\ toAgent[m] = a}, "bound", s)
  BY <1>6, <1>7, Zenon
<1>12. QED
  BY <1>8, <1>10, <1>11 DEF Mailbox!Take

\* A message to a name: its letter goes to the holder, or waits.
LEMMA SendsLetter ==
    ASSUME RInv, RInv', NEW a \in Agents, NEW h \in Sessions \cup {NoSession},
           InsertMessage(a, h), h = HolderOf(a), NEW n, n = lastId',
           UNCHANGED <<peersTable, delivered, acked>>
    PROVE  n \in MsgIds /\ Mailbox!Send(n, a)
<1> USE MaxMsgsAssumption, SentinelAssumption DEF RInv, IInv, TypeOK, TablesTypeOK
<1> DEFINE st == IF h = NoSession THEN "queued" ELSE "bound"
<1>1. /\ n \in MsgIds /\ n > lastId
      /\ stored' = stored \cup {n}
      /\ toAgent' = [toAgent EXCEPT ![n] = a]
      /\ toSession' = [toSession EXCEPT ![n] = h]
  BY DEF InsertMessage, MsgIds
<1>2. PlaceOf(n) = "none"
  BY <1>1 DEF PlaceOf, UnsentUnaddressed
<1>3. n \notin acked \cup delivered
  BY <1>1 DEF FreshIds
<1> HIDE DEF st
<1>4. \A m \in MsgIds : PlaceOf(m)' = IF m \in {n} THEN st ELSE PlaceOf(m)
  BY <1>1, <1>3 DEF PlaceOf, st
<1>5. \A m \in MsgIds : WithOf(m)' = IF m \in {n} THEN h ELSE WithOf(m)
  BY <1>1, <1>3, <1>4 DEF WithOf, PlaceOf, st
<1>6. Mailbox!Place({n}, st, h)
  BY <1>1, <1>4, <1>5, MovesLetters
<1>7. \A b \in Agents : HolderOf(b)' = HolderOf(b)
  BY DEF HolderOf, Holders, peersTable
<1>8. LetterState(n) = "none"
  BY <1>1, <1>2, LetterPlace
<1>9. [b \in Agents |-> HolderOf(b)]' = [b \in Agents |-> HolderOf(b)]
  BY <1>7
<1>10. [m \in MsgIds |-> LetterState(m)][n] = "none"
  BY <1>1, <1>8
<1> HIDE DEF RInv, IInv, TypeOK, TablesTypeOK
<1>11. [b \in Agents |-> HolderOf(b)][a] = h
  OBVIOUS
<1>12. Mailbox!Place({n}, IF [b \in Agents |-> HolderOf(b)][a] = NoSession
                          THEN "queued" ELSE "bound", [b \in Agents |-> HolderOf(b)][a])
  <2>1. (IF [b \in Agents |-> HolderOf(b)][a] = NoSession THEN "queued" ELSE "bound") = st
    BY <1>11 DEF st
  <2>2. QED
    BY <1>6, <1>11, <2>1 DEF Mailbox!Place
<1>13. QED
  BY <1>1, <1>9, <1>10, <1>12 DEF Mailbox!Send, Mailbox!Place

\* A poll hands out what is bound to its session: no unacked letter of the name is
\* with anybody else.
LEMMA HandsOut ==
    ASSUME RInv, RInv', NEW s \in Sessions, PollMessages(s)
    PROVE  Mailbox!HandOut(s)
<1> USE SentinelAssumption DEF RInv, IInv, TypeOK, TablesTypeOK
<1> DEFINE M == Undelivered(s, AgentName(s))
           L == {m \in MsgIds : PlaceOf(m) = "bound" /\ WithOf(m) = s}
<1>1. /\ M \subseteq stored \ delivered
      /\ delivered' = delivered \cup M
      /\ \A m \in MsgIds : toSession'[m] = IF m \in M THEN s ELSE toSession[m]
      /\ UNCHANGED <<peers, stored, toAgent, acked>>
  BY DEF PollMessages, MarkDelivered, Bind, Undelivered, peersTable
<1>2. \A m \in MsgIds : m \in L => m \in M /\ m \in stored \ acked /\ toAgent[m] # NoAgent
  BY DEF PlaceOf, WithOf, Undelivered
<1>3. \A m \in MsgIds : m \in M \ acked /\ toAgent[m] # NoAgent => toSession[m] = s
  BY DEF Undelivered, AgentName, Live, Holders, BoundToHolder, QueuedMeansNoHolder,
         NameUnique
<1> HIDE DEF M
<1>4. \A m \in MsgIds : m \in M \ acked /\ toAgent[m] # NoAgent => m \in L
  BY <1>1, <1>3 DEF PlaceOf, WithOf
<1>5. \A m \in MsgIds : m \in L => PlaceOf(m) = "bound" /\ WithOf(m) = s
  OBVIOUS
<1> HIDE DEF L
<1>6. \A m \in MsgIds : PlaceOf(m)' = IF m \in L THEN "out" ELSE PlaceOf(m)
  BY <1>1, <1>2, <1>4 DEF PlaceOf
<1>7. \A m \in MsgIds : WithOf(m)' = IF m \in L THEN s ELSE WithOf(m)
  BY <1>1, <1>2, <1>4, <1>6 DEF WithOf, PlaceOf
<1>8. L \in SUBSET MsgIds
  BY DEF L
<1>9. Mailbox!Place(L, "out", s)
  BY <1>6, <1>7, <1>8, MovesLetters
<1>10. L = {m \in MsgIds : /\ [n \in MsgIds |-> LetterState(n)][m] = "bound"
                           /\ [n \in MsgIds |-> IF n \in UnackedQueued(Sessions)
                                                THEN toSession[n] ELSE NoSession][m] = s}
  BY LetterPlace, LetterWith DEF L
<1>11. \A b \in Agents : HolderOf(b)' = HolderOf(b)
  BY <1>1 DEF HolderOf, Holders
<1>12. QED
  BY <1>1, <1>9, <1>10, <1>11 DEF Mailbox!HandOut

\* An ack settles the letter if it is with the session that acks, and is nothing to
\* the mailbox if the message is direct, acked already or not the session's.
LEMMA SettlesOrNot ==
    ASSUME RInv, RInv', NEW s \in Sessions, NEW n \in MsgIds, AckMessage(s, n)
    PROVE  Mailbox!Settle(s, n) \/ UNCHANGED Mailbox!mailVars
<1> USE SentinelAssumption DEF RInv, IInv, TypeOK, TablesTypeOK
<1>1. /\ acked' = IF n \in stored /\ toSession[n] = s THEN acked \cup {n} ELSE acked
      /\ UNCHANGED <<peers, stored, toAgent, toSession, delivered>>
  BY DEF AckMessage, SetAck, peersTable
<1>2. \A b \in Agents : HolderOf(b)' = HolderOf(b)
  BY <1>1 DEF HolderOf, Holders
<1>3. CASE n \in UnackedQueued({s})
  <2>1. PlaceOf(n) \in {"bound", "out"} /\ WithOf(n) = s
    BY <1>3 DEF PlaceOf, WithOf, UnackedQueued
  <2>2. \A m \in MsgIds : PlaceOf(m)' = IF m \in {n} THEN "acked" ELSE PlaceOf(m)
    BY <1>1, <1>3 DEF PlaceOf, UnackedQueued
  <2>3. \A m \in MsgIds : WithOf(m)' = IF m \in {n} THEN NoSession ELSE WithOf(m)
    BY <1>1, <2>2 DEF WithOf
  <2>4. Mailbox!Place({n}, "acked", NoSession)
    BY <2>2, <2>3, MovesLetters
  <2>5. /\ [m \in MsgIds |-> LetterState(m)][n] \in {"bound", "out"}
        /\ [m \in MsgIds |-> IF m \in UnackedQueued(Sessions)
                             THEN toSession[m] ELSE NoSession][n] = s
    BY <2>1, LetterPlace, LetterWith
  <2>6. QED
    BY <1>1, <1>2, <2>4, <2>5 DEF Mailbox!Settle, Mailbox!InHands
<1>4. CASE n \notin UnackedQueued({s})
  <2>1. \A m \in MsgIds : PlaceOf(m)' = PlaceOf(m) /\ WithOf(m)' = WithOf(m)
    BY <1>1, <1>4 DEF PlaceOf, WithOf, UnackedQueued
  <2>2. QED
    BY <1>1, <1>2, <2>1, MovesNothing
<1>5. QED
  BY <1>3, <1>4

\* The end of sessions frees their names and puts their unacked letters back.
LEMMA LeavesMail ==
    ASSUME RInv, RInv', NEW S \in SUBSET Sessions, EndSessions(S)
    PROVE  Mailbox!Leave(S)
<1> USE SentinelAssumption DEF RInv, IInv, TypeOK, TablesTypeOK
<1> DEFINE L == UnackedQueued(S)
<1>1. /\ \A t \in Sessions : peers'[t] = IF t \in S THEN NoRow ELSE peers[t]
      /\ stored' = stored \ UnackedDirect(S)
      /\ delivered' = delivered \ L
      /\ \A m \in MsgIds : toSession'[m] = IF m \in L THEN NoSession ELSE toSession[m]
      /\ UNCHANGED <<toAgent, acked>>
  BY DEF EndSessions, DeletePeers, DropDirect, Requeue, Bind
<1>2. \A m \in MsgIds : m \in L <=> PlaceOf(m) \in {"bound", "out"} /\ WithOf(m) \in S
  BY DEF UnackedQueued, PlaceOf, WithOf
<1>3. \A m \in MsgIds : PlaceOf(m)' = IF m \in L THEN "queued" ELSE PlaceOf(m)
  BY <1>1 DEF PlaceOf, UnackedQueued, UnackedDirect
<1>4. L \in SUBSET MsgIds
  BY DEF UnackedQueued
<1> HIDE DEF L
<1>5. \A m \in MsgIds : WithOf(m)' = IF m \in L THEN NoSession ELSE WithOf(m)
  BY <1>1, <1>3 DEF WithOf
<1>6. Mailbox!Place(L, "queued", NoSession)
  BY <1>3, <1>4, <1>5, MovesLetters
<1>7. L = {m \in MsgIds : /\ [n \in MsgIds |-> LetterState(n)][m] \in {"bound", "out"}
                          /\ [n \in MsgIds |-> IF n \in UnackedQueued(Sessions)
                                               THEN toSession[n] ELSE NoSession][m] \in S}
  BY <1>2, <1>4, LetterPlace, LetterWith
<1>8. \A b \in Agents : HolderOf(b)' = IF HolderOf(b) \in S THEN NoSession ELSE HolderOf(b)
  <2> TAKE b \in Agents
  <2>1. \A t \in Sessions : peers'[t] = b <=> t \notin S /\ peers[t] = b
    BY <1>1
  <2>2. \A t \in Sessions : HolderOf(b)' = t <=> t \notin S /\ HolderOf(b) = t
    BY <2>1, HolderIs
  <2>3. QED
    BY <2>2, HolderIs
<1>9. [b \in Agents |-> HolderOf(b)]'
        = [a \in Agents |-> IF [b \in Agents |-> HolderOf(b)][a] \in S THEN NoSession
                            ELSE [b \in Agents |-> HolderOf(b)][a]]
  BY <1>8
<1>10. Mailbox!Place({m \in MsgIds :
                        /\ [n \in MsgIds |-> LetterState(n)][m] \in {"bound", "out"}
                        /\ [n \in MsgIds |-> IF n \in UnackedQueued(Sessions)
                                             THEN toSession[n] ELSE NoSession][m] \in S},
                     "queued", NoSession)
  BY <1>6, <1>7, Zenon
<1>11. QED
  BY <1>1, <1>9, <1>10 DEF Mailbox!Leave, Mailbox!InHands

\* Retention expires letters that are queued, bound or out; an acked row that is
\* deleted was settled before.
LEMMA ExpiresLetters ==
    ASSUME RInv, RInv', stored' \subseteq stored,
           UNCHANGED <<peers, toAgent, toSession, delivered, acked>>
    PROVE  \E L \in SUBSET MsgIds : Mailbox!Expire(L)
<1> USE SentinelAssumption DEF RInv, IInv, TypeOK, TablesTypeOK
<1>0. PICK L : L = {m \in stored \ acked : toAgent[m] # NoAgent /\ m \notin stored'}
  OBVIOUS
<1>1. L \in SUBSET MsgIds
  BY <1>0
<1>2. \A m \in L : PlaceOf(m) \in {"queued", "bound", "out"}
  BY <1>0 DEF PlaceOf
<1>3. \A m \in MsgIds : PlaceOf(m)' = IF m \in L THEN "expired" ELSE PlaceOf(m)
  BY <1>0 DEF PlaceOf
<1>4. \A m \in MsgIds : WithOf(m)' = IF m \in L THEN NoSession ELSE WithOf(m)
  BY <1>3 DEF WithOf
<1>5. Mailbox!Place(L, "expired", NoSession)
  BY <1>1, <1>3, <1>4, MovesLetters
<1>6. \A m \in L : [n \in MsgIds |-> LetterState(n)][m] \in {"queued", "bound", "out"}
  BY <1>1, <1>2, LetterPlace
<1>7. \A b \in Agents : HolderOf(b)' = HolderOf(b)
  BY DEF HolderOf, Holders
<1>8. Mailbox!Expire(L)
  BY <1>5, <1>6, <1>7 DEF Mailbox!Expire, Mailbox!InHands
<1>9. QED
  BY <1>1, <1>8

-----------------------------------------------------------------------------
(* The theorem *)

\* Only the insert of a message addresses a row, and then lastId covers it.
LEMMA UnsentStep == RInv /\ [Next]_vars => RInv'
<1> SUFFICES ASSUME RInv, [Next]_vars PROVE UnsentUnaddressed'
  BY InductiveStep DEF RInv
<1> USE MaxMsgsAssumption DEF RInv, IInv, TypeOK, TablesTypeOK, MsgIds, UnsentUnaddressed
<1>1. CASE UNCHANGED <<toAgent, lastId>>
  BY <1>1
<1>2. ASSUME NEW a, NEW h, InsertMessage(a, h) PROVE UnsentUnaddressed'
  BY <1>2 DEF InsertMessage
<1>3. QED
  BY <1>1, <1>2
  DEF Next, vars, tables, messagesTable, Register, RegisterEphemeral, ClaimAgent,
      Heartbeat, SendToSession, SendToAgent, PollMessages, AckMessage, Unregister,
      CleanStalePeers, EndSessions, PruneMessages, Restart, GoStale, ClientCrash

\* Every step of the broker is a step of the mailbox or leaves it alone.
LEMMA StepSimulates ==
    RInv /\ RInv' /\ [Next]_vars => [Mailbox!MailNext]_(Mailbox!mailVars)
<1> SUFFICES ASSUME RInv, RInv', [Next]_vars
             PROVE  Mailbox!MailNext \/ UNCHANGED Mailbox!mailVars
  OBVIOUS
<1>t. /\ IInv /\ IInv' /\ TypeOK /\ TypeOK'
      /\ stale \subseteq Sessions /\ lastId \in 0 .. MaxMsgs
  BY DEF RInv, IInv, TypeOK, TablesTypeOK
<1>q. ASSUME UNCHANGED <<stored, toAgent, toSession, delivered, acked>>,
             \A a \in Agents, s \in Sessions : peers'[s] = a <=> peers[s] = a
      PROVE  UNCHANGED Mailbox!mailVars
  <2>1. \A m \in MsgIds : PlaceOf(m)' = PlaceOf(m) /\ WithOf(m)' = WithOf(m)
    BY <1>q DEF PlaceOf, WithOf
  <2>2. \A a \in Agents : HolderOf(a)' = HolderOf(a)
    BY <1>q, <1>t, HolderIs
  <2>3. QED
    BY <1>q, <1>t, <2>1, <2>2, MovesNothing
<1>1. ASSUME NEW s \in Sessions, NEW a \in Agents, Register(s, a)
      PROVE  Mailbox!MailNext
  <2>1. peers[s] \notin Agents /\ peers' = [peers EXCEPT ![s] = a]
    BY <1>1, <1>t, SentinelAssumption
    DEF IInv, OnlyIssued, Register, InsertPeer, IndexRefuses
  <2>2. Mailbox!Take(s, a)
    BY <1>1, <2>1, TakesName DEF Register
  <2>3. QED
    BY <2>2 DEF Mailbox!MailNext
<1>2. ASSUME NEW s \in Sessions, NEW a \in Agents, ClaimAgent(s, a)
      PROVE  Mailbox!MailNext
  <2>1. peers[s] \notin Agents /\ peers' = [peers EXCEPT ![s] = a]
    BY <1>2, SentinelAssumption DEF ClaimAgent, UpdateAgentName, IndexRefuses, Live
  <2>2. Mailbox!Take(s, a)
    BY <1>2, <2>1, TakesName DEF ClaimAgent
  <2>3. QED
    BY <2>2 DEF Mailbox!MailNext
<1>3. ASSUME NEW s \in Sessions, RegisterEphemeral(s)
      PROVE  UNCHANGED Mailbox!mailVars
  <2>1. peers[s] \notin Agents /\ peers' = [peers EXCEPT ![s] = NoAgent]
    BY <1>3, <1>t, SentinelAssumption
    DEF IInv, OnlyIssued, RegisterEphemeral, InsertPeer, IndexRefuses
  <2>2. \A a \in Agents, t \in Sessions : peers'[t] = a <=> peers[t] = a
    BY <1>t, <2>1, SentinelAssumption DEF TypeOK, TablesTypeOK
  <2>3. QED
    BY <1>3, <1>q, <2>2 DEF RegisterEphemeral, messagesTable
<1>4. ASSUME NEW s \in Sessions, SendToSession(s)
      PROVE  UNCHANGED Mailbox!mailVars
  <2> USE <1>t, MaxMsgsAssumption, SentinelAssumption DEF TypeOK, TablesTypeOK
  <2>1. /\ lastId' \in MsgIds /\ toAgent[lastId'] = NoAgent
        /\ stored' = stored \cup {lastId'}
        /\ \A m \in MsgIds : m # lastId' => toSession'[m] = toSession[m]
    BY <1>4 DEF SendToSession, InsertMessage, MsgIds, RInv, UnsentUnaddressed
  <2>2. toAgent' = toAgent
    BY <1>4, <2>1 DEF SendToSession, InsertMessage
  <2>3. UNCHANGED <<peers, delivered, acked>>
    BY <1>4 DEF SendToSession, peersTable
  <2>4. \A m \in MsgIds : PlaceOf(m)' = PlaceOf(m)
    BY <2>1, <2>2, <2>3 DEF PlaceOf
  <2>5. \A m \in MsgIds : WithOf(m)' = WithOf(m)
    BY <2>1, <2>2, <2>4 DEF WithOf, PlaceOf
  <2>6. \A a \in Agents : HolderOf(a)' = HolderOf(a)
    BY <2>3 DEF HolderOf, Holders
  <2>7. QED
    BY <2>2, <2>4, <2>5, <2>6, MovesNothing
<1>5. ASSUME NEW a \in Agents, SendToAgent(a)
      PROVE  Mailbox!MailNext
  <2>1. PICK h \in Sessions \cup {NoSession} :
           /\ InsertMessage(a, h)
           /\ h = HolderOf(a)
    <3>1. CASE Holders(a) = {}
      BY <1>5, <3>1 DEF SendToAgent, HolderOf
    <3>2. CASE Holders(a) # {}
      <4>1. PICK h \in Holders(a) : InsertMessage(a, h)
        BY <1>5, <3>2 DEF SendToAgent
      <4>2. h \in Sessions /\ HolderOf(a) = h
        BY <1>t, HolderIs DEF Holders
      <4>3. QED
        BY <4>1, <4>2
    <3>3. QED
      BY <3>1, <3>2
  <2>2. PICK n : n = lastId'
    OBVIOUS
  <2>3. n \in MsgIds /\ Mailbox!Send(n, a)
    BY <1>5, <2>1, <2>2, SendsLetter DEF SendToAgent
  <2>4. QED
    BY <2>3 DEF Mailbox!MailNext
<1>6. ASSUME NEW s \in Sessions, PollMessages(s)
      PROVE  Mailbox!MailNext
  BY <1>6, HandsOut DEF Mailbox!MailNext
<1>7. ASSUME NEW s \in Sessions, NEW m \in 1 .. lastId, AckMessage(s, m)
      PROVE  Mailbox!MailNext \/ UNCHANGED Mailbox!mailVars
  <2>1. m \in MsgIds
    BY <1>t, MaxMsgsAssumption DEF MsgIds
  <2>2. QED
    BY <1>7, <2>1, SettlesOrNot DEF Mailbox!MailNext
<1>8. ASSUME NEW s \in Sessions, Unregister(s)
      PROVE  Mailbox!MailNext
  BY <1>8, LeavesMail DEF Unregister, Mailbox!MailNext
<1>9. ASSUME CleanStalePeers
      PROVE  Mailbox!MailNext
  BY <1>9, <1>t, LeavesMail DEF CleanStalePeers, Mailbox!MailNext
<1>10. ASSUME NEW cut \in 0 .. lastId, NEW old \in SUBSET acked, PruneMessages(cut, old)
       PROVE  Mailbox!MailNext
  BY <1>10, ExpiresLetters DEF PruneMessages, DeleteExpired, peersTable, Mailbox!MailNext
<1>11. ASSUME UNCHANGED <<peers, messagesTable>>
       PROVE  UNCHANGED Mailbox!mailVars
  BY <1>11, <1>q DEF messagesTable
<1>12. QED
  BY <1>1, <1>2, <1>3, <1>4, <1>5, <1>6, <1>7, <1>8, <1>9, <1>10, <1>11
  DEF Next, vars, tables, peersTable, Heartbeat, Restart, GoStale, ClientCrash

\* The broker keeps the promise of AgentMailbox: no handler, sweep, retention or
\* restart loses, duplicates or misplaces a letter addressed to a name.
THEOREM BrokerImplementsMailbox == Spec => KeepsMailPromise
<1>1. Init => RInv
  BY InitInductive DEF Init, EmptyTables, RInv, UnsentUnaddressed
<1>2. Init => Mailbox!MailInit
  BY SentinelAssumption
  DEF Init, EmptyTables, Mailbox!MailInit, HolderOf, Holders, LetterState, UnackedQueued
<1>3. QED
  BY <1>1, <1>2, UnsentStep, StepSimulates, PTL DEF Spec, KeepsMailPromise, Mailbox!MailSpec

-----------------------------------------------------------------------------
(* The MCP server process *)


Running == phase \in {"up", "stopping"}
Writing == heart \in {"writeNamed", "writeEphemeral"}

\* The goroutines run between startup and exit, and tool calls before shutdown begins.
GoroutinesRun ==
    /\ ~Running => heart = "idle"
    /\ phase # "up" => tool.at = "idle"
    /\ "heart" \in returned => heart = "idle"

\* A process that runs has a session the broker created for it, and a state file if it
\* knows the path to one.
HasSession ==
    /\ phase \in {"start", "fallback"} => mine = {} /\ path = FALSE
    /\ Running => session \in mine \ ghosts /\ (path => file \in Files)

\* It registers anew only when the row of its session is gone, for good.
RebindsDead == heart \in {"rebind", "rebindEphemeral"} => ~Live(session)

\* A call of claim_agent_name has a name to claim, and later the file to put it into.
ClaimsName ==
    /\ Claiming => tool.a \in Agents
    /\ tool.at = "update" => tool.copy \in Files

ClientInv ==
    /\ GoroutinesRun
    /\ HasSession
    /\ RebindsDead
    /\ ClaimsName
    /\ OneRowWhileRunning

\* As long as nothing has put the file out of step, a claim in progress is for the current
\* session, and what will be written to the state file is what the broker has.
ClaimsForSession ==
    ~outOfStep /\ Running =>
        /\ Claiming => ~Writing /\ tool.id = session
        /\ tool.at \in {"claimed", "update"} /\ Live(session) => peers[session] = tool.a
        /\ tool.at = "update" => tool.copy.s = session

WritesSession ==
    ~outOfStep /\ Running =>
        /\ heart = "writeNamed" /\ Live(session) => peers[session] = configured
        /\ heart = "writeEphemeral" /\ Live(session) => peers[session] = NoAgent
        /\ ~Writing => file \in Files /\ file.s = session
        /\ ~Writing /\ tool.at \notin {"claimed", "update"} /\ Live(session) =>
              file.a = peers[session]

ServerInv ==
    /\ IInv
    /\ ServerTypeOK
    /\ ClientInv
    /\ ClaimsForSession
    /\ WritesSession

-----------------------------------------------------------------------------
(* The broker beside the process *)

\* A session register creates is new, has the name asked for, and changes no other row.
LEMMA CreatedRow ==
    ASSUME IInv, NEW s \in Sessions, NEW a \in Names, Created(s, a)
    PROVE  /\ [Next]_vars
           /\ s \notin issued /\ issued' = issued \cup {s} /\ mine' = mine \cup {s}
           /\ peers'[s] = a /\ \A t \in Sessions \ {s} : peers'[t] = peers[t]
<1>0. peers \in [Sessions -> Agents \cup {NoAgent, NoRow}]
  BY DEF IInv, TypeOK, TablesTypeOK
<1>1. CASE a = NoAgent
  <2>1. RegisterEphemeral(s) /\ mine' = mine \cup {s}
    BY <1>1 DEF Created
  <2>2. QED
    BY <1>0, <1>1, <2>1 DEF RegisterEphemeral, InsertPeer, IndexRefuses, Next
<1>2. CASE a # NoAgent
  <2>1. a \in Agents /\ Register(s, a) /\ mine' = mine \cup {s}
    BY <1>2 DEF Created, Names
  <2>2. [Next]_vars
    BY <2>1 DEF Next
  <2>3. QED
    BY <1>0, <2>1, <2>2 DEF Register, InsertPeer, IndexRefuses
<1>3. QED
  BY <1>1, <1>2

\* What a failed register did to the broker: nothing, or a session nobody knows of.
LEMMA FailedRegister ==
    ASSUME IInv, NEW a \in Names, RegisterFails(a), ghosts \subseteq mine, mine \subseteq issued
    PROVE  /\ [Next]_vars
           /\ issued \subseteq issued' /\ ghosts' \subseteq mine' /\ mine' \subseteq issued'
           /\ mine' \ ghosts' = mine \ ghosts
           /\ \A t \in issued : peers'[t] = peers[t]
<1>1. CASE UNCHANGED <<vars, mine, ghosts>>
  BY <1>1 DEF vars, tables, peersTable
<1>2. ASSUME NEW s \in Sessions, Created(s, a), ghosts' = ghosts \cup {s}
      PROVE  /\ [Next]_vars
             /\ issued \subseteq issued' /\ ghosts' \subseteq mine' /\ mine' \subseteq issued'
             /\ mine' \ ghosts' = mine \ ghosts
             /\ \A t \in issued : peers'[t] = peers[t]
  <2>1. /\ [Next]_vars
        /\ s \notin issued /\ issued' = issued \cup {s} /\ mine' = mine \cup {s}
        /\ \A t \in Sessions \ {s} : peers'[t] = peers[t]
    BY <1>2, CreatedRow
  <2>2. issued \subseteq Sessions
    BY DEF IInv, TypeOK
  <2>3. QED
    BY <1>2, <2>1, <2>2
<1>3. QED
  BY <1>1, <1>2 DEF RegisterFails

\* Rows of sessions that exist keep their name or go: nobody else claims for them.
LEMMA RowsOnlyGo ==
    ASSUME IInv,
           \/ \E s \in Sessions, a \in Agents : Register(s, a)
           \/ \E s \in Sessions : \/ Heartbeat(s) \/ SendToSession(s) \/ PollMessages(s)
                                  \/ Unregister(s) \/ GoStale(s)
           \/ \E s \in Sessions, m \in MsgIds : AckMessage(s, m)
           \/ \E a \in Agents : SendToAgent(a)
           \/ CleanStalePeers \/ UNCHANGED vars
    PROVE  /\ [Next]_vars /\ issued \subseteq issued'
           /\ \A t \in issued : peers'[t] \in {peers[t], NoRow}
<1>0. /\ peers \in [Sessions -> Agents \cup {NoAgent, NoRow}] /\ issued \subseteq Sessions
      /\ stored \subseteq MsgIds /\ lastId \in Nat /\ FreshIds
  BY MaxMsgsAssumption DEF IInv, TypeOK, TablesTypeOK
<1>1. [Next]_vars
  <2>1. ASSUME NEW s \in Sessions, NEW m \in MsgIds, AckMessage(s, m) PROVE [Next]_vars
    <3>1. CASE m \in stored
      <4>1. m \in 1 .. lastId
        BY <1>0, <3>1 DEF FreshIds, MsgIds
      <4>2. QED
        BY <2>1, <4>1 DEF Next
    <3>2. CASE m \notin stored
      BY <2>1, <3>2 DEF AckMessage, SetAck, vars, tables, messagesTable
    <3>3. QED
      BY <3>1, <3>2
  <2>2. QED
    BY <2>1 DEF Next
<1>2. ASSUME NEW s \in Sessions, NEW a \in Agents, Register(s, a)
      PROVE  issued \subseteq issued' /\ \A t \in issued : peers'[t] \in {peers[t], NoRow}
  BY <1>0, <1>2 DEF Register, InsertPeer
<1>3. ASSUME NEW S \in SUBSET Sessions, EndSessions(S)
      PROVE  issued \subseteq issued' /\ \A t \in issued : peers'[t] \in {peers[t], NoRow}
  BY <1>0, <1>3 DEF EndSessions, DeletePeers
<1>4. stale \subseteq Sessions
  BY DEF IInv, TypeOK, TablesTypeOK
<1>5. CASE UNCHANGED <<peers, issued>>
  BY <1>1, <1>5
<1>6. QED
  <2>1. ASSUME NEW s \in Sessions, Unregister(s)
        PROVE  issued \subseteq issued' /\ \A t \in issued : peers'[t] \in {peers[t], NoRow}
    BY <1>3, <2>1 DEF Unregister
  <2>2. QED
    BY <1>1, <1>2, <1>3, <1>4, <1>5, <2>1
    DEF Heartbeat, SendToSession, PollMessages, GoStale, AckMessage, SendToAgent,
        CleanStalePeers, vars, tables, peersTable

-----------------------------------------------------------------------------
(* The goroutines *)

ToolCall == [at : {"idle", "claim", "claimed", "update", "check", "ack"},
             id : Sessions \cup {NoSession}, a : Names,
             M : SUBSET MsgIds, copy : Files \cup {NoFile}]

\* What every step of the process does: the broker takes a step of its own, or none,
\* and the invariants of the process are kept.
Kept ==
    /\ [Next]_vars
    /\ TypeOK' => ServerTypeOK'
    /\ ClientInv'
    /\ ClaimsForSession'
    /\ WritesSession'

\* No call in progress.
LEMMA NoToolCall == NoTool \in ToolCall /\ NoTool.at = "idle"
BY DEF NoTool, ToolCall, Names

\* A step that touches neither session nor state file and no claim in progress, while
\* rows of existing sessions stay or go.
LEMMA QuietStep ==
    ASSUME ServerInv, [Next]_vars, issued \subseteq issued',
           \A t \in issued : peers'[t] \in {peers[t], NoRow},
           UNCHANGED <<setup, phase, session, heart, file, mine, ghosts, outOfStep>>,
           tool' \in ToolCall, phase # "up" => tool'.at = "idle",
           tool' = tool \/ (~Claiming' /\ tool.at \notin {"claimed", "update"}),
           interrupted' \in BOOLEAN, returned' \subseteq {"heart", "poll"},
           "heart" \in returned' => heart = "idle",
           pushed' \subseteq MsgIds, read' \subseteq MsgIds, swallowed' \subseteq MsgIds
    PROVE  Kept
<1> USE DEF setup
<1>0. /\ ServerTypeOK /\ ClientInv /\ ClaimsForSession /\ WritesSession
      /\ mine \subseteq issued
  BY DEF ServerInv, ServerTypeOK
<1>1. TypeOK' => ServerTypeOK'
  BY <1>0 DEF ServerTypeOK, ToolCall
<1>2. \A t \in issued : Live(t)' => Live(t) /\ peers'[t] = peers[t]
  BY DEF Live
<1>3. Running => session \in issued /\ Running'
  BY <1>0 DEF ClientInv, HasSession, Running
<1>4. heart \in {"rebind", "rebindEphemeral"} => Running
  BY <1>0 DEF ClientInv, GoroutinesRun
<1>5. ClientInv'
  <2>1. GoroutinesRun' /\ HasSession' /\ RebindsDead'
    BY <1>0, <1>2, <1>3, <1>4
    DEF ClientInv, GoroutinesRun, HasSession, RebindsDead, Running
  <2>2. ClaimsName'
    BY <1>0 DEF ClientInv, ClaimsName, Claiming
  <2>3. OneRowWhileRunning'
    BY <1>0, <1>2 DEF ClientInv, OneRowWhileRunning
  <2>4. QED
    BY <2>1, <2>2, <2>3 DEF ClientInv
<1>6. ClaimsForSession'
  BY <1>0, <1>2, <1>3 DEF ClaimsForSession, Running, Writing, Claiming, Live
<1>7. WritesSession'
  BY <1>0, <1>2, <1>3 DEF WritesSession, Running, Writing, Live
<1>8. QED
  BY <1>1, <1>5, <1>6, <1>7 DEF Kept

\* Heartbeats, pushes, check_messages, a refused claim, an interrupt and the end of the
\* goroutines, and everybody else.
LEMMA QuietKeeps ==
    ASSUME ServerInv,
           \/ HeartbeatOK \/ PollAndPush \/ ClaimRefused \/ CallCheck \/ CheckPoll
           \/ CheckNothing \/ \E m \in MsgIds : CheckAck(m)
           \/ Interrupt \/ \E g \in {"heart", "poll"} : Returns(g)
           \/ Others \/ UNCHANGED serverVars
    PROVE  Kept
<1> USE DEF serverVars, clientVars, histories, setup, signal
<1>0. /\ IInv /\ tool \in ToolCall /\ pushed \subseteq MsgIds /\ read \subseteq MsgIds
      /\ swallowed \subseteq MsgIds /\ mine \subseteq Sessions
      /\ phase # "up" => tool.at = "idle"
      /\ interrupted \in BOOLEAN /\ returned \subseteq {"heart", "poll"}
      /\ "heart" \in returned => heart = "idle"
      /\ running \subseteq Sessions /\ stored \subseteq MsgIds
      /\ tool.M \in SUBSET MsgIds /\ session \in Sessions \cup {NoSession}
  BY DEF ServerInv, ServerTypeOK, ToolCall, ClientInv, GoroutinesRun, IInv, TypeOK,
         TablesTypeOK
<1>1. CASE HeartbeatOK
  <2>1. session \in Sessions /\ Heartbeat(session) /\ UNCHANGED <<clientVars, histories>>
    BY <1>0, <1>1 DEF HeartbeatOK, Heartbeat
  <2>2. [Next]_vars /\ issued \subseteq issued' /\ \A t \in issued : peers'[t] \in {peers[t], NoRow}
    BY <1>0, <2>1, RowsOnlyGo
  <2>3. QED
    BY <1>0, <2>1, <2>2, QuietStep
<1>2. CASE Others
  <2>1. [Next]_vars /\ issued \subseteq issued' /\ \A t \in issued : peers'[t] \in {peers[t], NoRow}
    BY <1>0, <1>2, RowsOnlyGo DEF Others
  <2>2. UNCHANGED <<clientVars, histories>>
    BY <1>2 DEF Others
  <2>3. QED
    BY <1>0, <2>1, <2>2, QuietStep
<1>u. ASSUME UNCHANGED vars
      PROVE  [Next]_vars /\ issued \subseteq issued' /\ \A t \in issued : peers'[t] \in {peers[t], NoRow}
  BY <1>0, <1>u, RowsOnlyGo
<1>3. CASE PollAndPush
  <2>1. /\ UNCHANGED <<vars, setup, signal, phase, session, heart, tool, file, histories>>
        /\ pushed' \subseteq MsgIds
    BY <1>0, <1>3 DEF PollAndPush, Peeked, Undelivered
  <2>2. QED
    BY <1>0, <1>u, <2>1, QuietStep
<1>4. CASE UNCHANGED serverVars
  BY <1>0, <1>4, <1>u, QuietStep
<1>i. CASE Interrupt \/ \E g \in {"heart", "poll"} : Returns(g)
  <2>1. /\ UNCHANGED <<vars, setup, phase, session, heart, tool, file, pushed, histories>>
        /\ interrupted' \in BOOLEAN /\ returned' \subseteq {"heart", "poll"}
        /\ "heart" \in returned' => heart = "idle"
    BY <1>0, <1>i DEF Interrupt, Returns
  <2>2. QED
    BY <1>0, <1>u, <2>1, QuietStep
<1>t. ASSUME NEW t \in ToolCall, t.at \in {"idle", "check", "ack"}, ToolGoes(t),
             tool.at \notin {"claimed", "update"},
             t.at # "idle" => phase = "up", UNCHANGED file,
             read' \subseteq MsgIds, swallowed' \subseteq MsgIds,
             [Next]_vars, issued \subseteq issued', \A s \in issued : peers'[s] \in {peers[s], NoRow}
      PROVE  Kept
  <2>1. tool' = t /\ UNCHANGED <<setup, signal, phase, session, heart, pushed, mine, ghosts, outOfStep>>
    BY <1>t DEF ToolGoes
  <2>2. /\ ~Claiming' /\ tool' \in ToolCall /\ (phase # "up" => tool'.at = "idle")
        /\ tool.at \notin {"claimed", "update"}
    BY <1>t, <2>1 DEF Claiming
  <2>3. QED
    BY <1>0, <1>t, <2>1, <2>2, QuietStep
<1>5. CASE ClaimRefused \/ CheckNothing
  <2>1. /\ ToolGoes(NoTool) /\ UNCHANGED <<vars, file, read, swallowed>>
        /\ tool.at \in {"claim", "check"}
    BY <1>5 DEF ClaimRefused, CheckNothing
  <2>2. QED
    BY <1>0, <1>t, <1>u, <2>1, NoToolCall
<1>6. CASE CallCheck
  <2>1. PICK t : /\ t = [[NoTool EXCEPT !.at = "check"] EXCEPT !.id = session]
                 /\ tool' = t
    BY <1>6 DEF CallCheck, Dispatch
  <2>2. t \in ToolCall /\ t.at = "check"
    BY <1>0, <2>1 DEF NoTool, ToolCall, Names
  <2>3. /\ ToolGoes(t) /\ phase = "up" /\ UNCHANGED <<vars, file, read, swallowed>>
        /\ tool.at = "idle"
    BY <1>6, <2>1 DEF CallCheck, Dispatch, ToolGoes
  <2>4. QED
    BY <1>0, <1>t, <1>u, <2>2, <2>3
<1>7. CASE CheckPoll
  <2>1. PICK M : M = Undelivered(tool.id, AgentName(tool.id))
    OBVIOUS
  <2>2. M \subseteq MsgIds
    BY <1>0, <2>1 DEF Undelivered
  <2>3. /\ tool.at = "check" /\ PollMessages(tool.id) /\ UNCHANGED <<file, read>>
        /\ \/ ToolGoes([tool EXCEPT !.at = "ack", !.M = M]) /\ UNCHANGED swallowed
           \/ ToolGoes(NoTool) /\ swallowed' = swallowed \cup M
    BY <1>7, <2>1 DEF CheckPoll
  <2>4. tool.id \in Sessions
    BY <1>0, <2>3 DEF PollMessages
  <2>5. [Next]_vars /\ issued \subseteq issued' /\ \A t \in issued : peers'[t] \in {peers[t], NoRow}
    BY <1>0, <2>3, <2>4, RowsOnlyGo
  <2>6. PICK t : t = [tool EXCEPT !.at = "ack", !.M = M]
    OBVIOUS
  <2>7. t \in ToolCall /\ t.at = "ack" /\ phase = "up"
    BY <1>0, <2>2, <2>3, <2>6 DEF ToolCall
  <2>8. QED
    BY <1>0, <1>t, <2>2, <2>3, <2>5, <2>6, <2>7, NoToolCall
<1>8. ASSUME NEW m \in MsgIds, CheckAck(m) PROVE Kept
  <2>1. PICK t : t = [tool EXCEPT !.M = @ \ {m}]
    OBVIOUS
  <2>2. /\ tool.at = "ack"
        /\ AckMessage(tool.id, m) \/ UNCHANGED vars
        /\ ToolGoes(NoTool) \/ ToolGoes(t)
        /\ read' = read \cup {m} /\ UNCHANGED <<file, swallowed>>
    BY <1>8, <2>1 DEF CheckAck
  <2>3. t \in ToolCall /\ t.at = "ack" /\ phase = "up"
    BY <1>0, <2>1, <2>2 DEF ToolCall
  <2>4. [Next]_vars /\ issued \subseteq issued' /\ \A s \in issued : peers'[s] \in {peers[s], NoRow}
    <3>1. CASE AckMessage(tool.id, m)
      <4>1. tool.id \in Sessions
        BY <1>0, <3>1 DEF AckMessage
      <4>2. QED
        BY <1>0, <3>1, <4>1, RowsOnlyGo
    <3>2. QED
      BY <1>u, <2>2, <3>1
  <2>5. QED
    BY <1>0, <1>t, <2>2, <2>3, <2>4, NoToolCall
<1>9. QED
  BY <1>1, <1>2, <1>3, <1>4, <1>5, <1>6, <1>7, <1>8, <1>i

\* Startup: the session is published, and the file written or its path forgotten.
LEMMA StartKeeps ==
    ASSUME ServerInv,
           \/ \E s \in Sessions : StartRegister(s)
           \/ StartConflict \/ StartFails
    PROVE  Kept
<1> USE DEF setup, signal
<1>0. /\ IInv /\ ServerTypeOK /\ ClientInv /\ mine \subseteq issued /\ ghosts \subseteq mine
      /\ AskedName \in Names /\ issued \subseteq Sessions
  BY DEF ServerInv, ServerTypeOK, AskedName, Names, IInv, TypeOK
<1>1. phase \in {"start", "fallback"}
  BY DEF StartRegister, StartConflict, StartFails
<1>2. heart = "idle" /\ tool.at = "idle" /\ mine = {} /\ ghosts = {} /\ path = FALSE
  BY <1>0, <1>1 DEF ClientInv, GoroutinesRun, HasSession, Running
<1>3. ASSUME NEW s \in Sessions, StartRegister(s) PROVE Kept
  <2> DEFINE n == AskedName
  <2>1. /\ [Next]_vars /\ s \notin issued /\ issued' = issued \cup {s} /\ mine' = mine \cup {s}
        /\ peers'[s] = n
    BY <1>0, <1>3, CreatedRow DEF StartRegister
  <2>2. /\ session' = s /\ phase' = "up"
        /\ \/ file' = [s |-> s, a |-> n] /\ path' = TRUE /\ outOfStep' = outOfStep
           \/ file' = file /\ path' = path /\ outOfStep' = TRUE
        /\ UNCHANGED <<configured, signal, heart, tool, pushed, ghosts, read, swallowed>>
    BY <1>3 DEF StartRegister
  <2>3. n \in Names
    BY <1>0
  <2> HIDE DEF n
  <2>4. /\ file' \in Files \cup {NoFile} /\ path' \in BOOLEAN /\ outOfStep' \in BOOLEAN
        /\ path' => file' \in Files
        /\ ~outOfStep' => file' \in Files /\ file'.s = s /\ file'.a = n
    <3>1. [s |-> s, a |-> n] \in Files
      BY <2>3 DEF Files
    <3>2. CASE file' = [s |-> s, a |-> n] /\ path' = TRUE /\ outOfStep' = outOfStep
      <4>1. outOfStep' \in BOOLEAN /\ path' \in BOOLEAN
        BY <1>0, <3>2 DEF ServerTypeOK
      <4>2. QED
        BY <3>1, <3>2, <4>1
    <3>3. CASE file' = file /\ path' = path /\ outOfStep' = TRUE
      <4>1. path = FALSE
        BY <1>0, <1>1 DEF ClientInv, HasSession, ServerTypeOK
      <4>2. QED
        BY <1>0, <3>3, <4>1 DEF ServerTypeOK
    <3>4. QED
      BY <2>2, <3>2, <3>3
  <2>5. TypeOK' => ServerTypeOK'
    BY <1>0, <1>2, <2>1, <2>2, <2>4 DEF ServerTypeOK
  <2>6. ClientInv'
    BY <1>2, <2>1, <2>2, <2>4
    DEF ClientInv, GoroutinesRun, HasSession, RebindsDead, ClaimsName, OneRowWhileRunning,
        Claiming, Running
  <2>7. ClaimsForSession' /\ WritesSession'
    BY <1>2, <2>1, <2>2, <2>4 DEF ClaimsForSession, WritesSession, Claiming, Writing
  <2>8. QED
    BY <2>1, <2>5, <2>6, <2>7 DEF Kept
<1>4. ASSUME [Next]_vars, phase' \in {"fallback", "stopped"}, issued \subseteq issued',
             ghosts' \subseteq mine', mine' \subseteq issued', mine' \ ghosts' = {},
             phase' = "fallback" => mine' = {} /\ path = FALSE,
             UNCHANGED <<setup, signal, session, heart, tool, file, pushed, read, swallowed, outOfStep>>
      PROVE  Kept
  <2>1. TypeOK' => ServerTypeOK'
    BY <1>0, <1>4 DEF ServerTypeOK
  <2>2. ~Running'
    BY <1>4 DEF Running
  <2>3. ClientInv'
    BY <1>2, <1>4, <2>2
    DEF ClientInv, GoroutinesRun, HasSession, RebindsDead, ClaimsName, OneRowWhileRunning,
        Claiming, Running
  <2>4. QED
    BY <1>4, <2>1, <2>2, <2>3 DEF Kept, ClaimsForSession, WritesSession
<1>5. CASE StartConflict
  <2>1. /\ UNCHANGED <<vars, mine>> /\ phase' = "fallback"
        /\ UNCHANGED <<setup, signal, session, heart, tool, file, pushed, ghosts, read,
                       swallowed, outOfStep>>
    BY <1>5 DEF StartConflict, Conflict
  <2>2. [Next]_vars /\ issued' = issued
    BY <2>1 DEF vars
  <2>3. QED
    BY <1>0, <1>2, <1>4, <2>1, <2>2
<1>6. CASE StartFails
  <2>1. /\ RegisterFails(AskedName) /\ phase' = "stopped"
        /\ UNCHANGED <<setup, signal, session, heart, tool, file, pushed, read, swallowed, outOfStep>>
    BY <1>6 DEF StartFails
  <2>2. /\ [Next]_vars /\ issued \subseteq issued' /\ ghosts' \subseteq mine'
        /\ mine' \subseteq issued' /\ mine' \ ghosts' = mine \ ghosts
    BY <1>0, <2>1, FailedRegister
  <2>3. QED
    BY <1>2, <1>4, <2>1, <2>2
<1>7. QED
  BY <1>3, <1>5, <1>6

\* The heartbeat goroutine: a rebind publishes the new session before it writes the file.
LEMMA HeartKeeps ==
    ASSUME ServerInv,
           \/ HeartbeatUnknown \/ RebindAnswered \/ RebindEphemeral \/ RebindFails
           \/ WriteState
    PROVE  Kept
<1> USE DEF setup, signal
<1>0. /\ IInv /\ ServerTypeOK /\ ClientInv /\ ClaimsForSession /\ WritesSession
      /\ mine \subseteq issued /\ ghosts \subseteq mine /\ issued \subseteq Sessions
      /\ configured \in Names
  BY DEF ServerInv, ServerTypeOK, IInv, TypeOK
<1>1. Running
  BY <1>0
  DEF HeartbeatUnknown, Beats, RebindAnswered, RebindEphemeral, RebindFails, WriteState, Running,
      ClientInv, GoroutinesRun
<1>2. session \in mine \ ghosts /\ session \in issued
  BY <1>0, <1>1 DEF ClientInv, HasSession
<1>h. ASSUME heart' \in {"idle", "rebind", "rebindEphemeral"}, ~Writing, [Next]_vars,
             "heart" \notin returned,
             heart' # "idle" => ~Live(session)',
             issued \subseteq issued', ghosts' \subseteq mine', mine' \subseteq issued',
             mine' \ ghosts' = mine \ ghosts, \A t \in issued : peers'[t] = peers[t],
             UNCHANGED <<setup, signal, phase, session, tool, file, pushed, read, swallowed, outOfStep>>
      PROVE  Kept
  <2>1. TypeOK' => ServerTypeOK'
    BY <1>0, <1>h DEF ServerTypeOK
  <2>2. Running' /\ ~Writing' /\ \A t \in mine : Live(t)' = Live(t)
    BY <1>0, <1>1, <1>h DEF Running, Writing, Live
  <2>3. ClientInv'
    BY <1>0, <1>1, <1>2, <1>h, <2>2
    DEF ClientInv, GoroutinesRun, HasSession, RebindsDead, ClaimsName, OneRowWhileRunning,
        Claiming, Running
  <2>4. ClaimsForSession'
    BY <1>0, <1>1, <1>2, <1>h, <2>2 DEF ClaimsForSession, Claiming, Live
  <2>5. WritesSession'
    BY <1>0, <1>1, <1>2, <1>h, <2>2 DEF WritesSession, Writing, Live
  <2>6. QED
    BY <1>h, <2>1, <2>3, <2>4, <2>5 DEF Kept
<1>r. heart # "idle" => "heart" \notin returned
  BY <1>0 DEF ClientInv, GoroutinesRun
<1>3. CASE HeartbeatUnknown
  <2>1. /\ heart = "idle" /\ ~Live(session) /\ heart' = "rebind" /\ "heart" \notin returned
        /\ UNCHANGED <<vars, setup, signal, phase, session, tool, file, pushed, mine, ghosts, read,
                       swallowed, outOfStep>>
    BY <1>3 DEF HeartbeatUnknown, Beats, histories
  <2>2. [Next]_vars /\ UNCHANGED <<peers, issued>>
    BY <2>1 DEF vars, tables, peersTable
  <2>3. QED
    BY <1>0, <1>h, <2>1, <2>2 DEF Writing, Live
<1>4. ASSUME NEW s \in Sessions, NEW a \in Names, Rebound(s, a),
             heart \in {"rebind", "rebindEphemeral"}, a \in {NoAgent, configured}
      PROVE  Kept
  <2>1. /\ [Next]_vars /\ s \notin issued /\ issued' = issued \cup {s} /\ mine' = mine \cup {s}
        /\ peers'[s] = a /\ \A t \in Sessions \ {s} : peers'[t] = peers[t]
    BY <1>0, <1>4, CreatedRow DEF Rebound
  <2>2. /\ session' = s
        /\ \/ heart' = "writeEphemeral" /\ a = NoAgent
           \/ heart' = "writeNamed" /\ a = configured
        /\ outOfStep' = Claiming
        /\ UNCHANGED <<setup, signal, phase, tool, file, pushed, ghosts, read, swallowed>>
    BY <1>4 DEF Rebound
  <2>3. TypeOK' => ServerTypeOK'
    BY <1>0, <2>1, <2>2 DEF ServerTypeOK, Claiming
  <2>4. Running' /\ Writing'
    BY <1>1, <2>2 DEF Running, Writing
  <2>5. OneRowWhileRunning'
    <3>1. ~Live(session)
      BY <1>0, <1>4 DEF ClientInv, RebindsDead
    <3>2. ASSUME NEW t \in mine' \ ghosts', t # s PROVE ~Live(t)'
      <4>1. t \in mine \ ghosts /\ t \in Sessions
        BY <1>0, <2>1, <2>2, <3>2
      <4>2. ~Live(t)
        BY <1>0, <3>1, <4>1 DEF ClientInv, OneRowWhileRunning
      <4>3. QED
        BY <2>1, <3>2, <4>1, <4>2 DEF Live
    <3>3. QED
      BY <1>1, <2>2, <3>2 DEF OneRowWhileRunning, Running
  <2>6. ClientInv'
    BY <1>0, <1>1, <1>2, <1>4, <1>r, <2>1, <2>2, <2>4, <2>5
    DEF ClientInv, GoroutinesRun, HasSession, RebindsDead, ClaimsName, Claiming, Running
  <2>7. ClaimsForSession' /\ WritesSession'
    BY <2>1, <2>2, <2>4 DEF ClaimsForSession, WritesSession, Claiming, Live
  <2>8. QED
    BY <2>1, <2>3, <2>6, <2>7 DEF Kept
<1>5. CASE RebindAnswered
  <2>1. CASE \E s \in Sessions : Rebound(s, configured)
    BY <1>0, <1>4, <1>5, <2>1 DEF RebindAnswered
  <2>2. ASSUME Conflict(configured), heart' = "rebindEphemeral",
               UNCHANGED <<setup, signal, phase, session, tool, file, pushed, ghosts, read,
                           swallowed, outOfStep>>
        PROVE  Kept
    <3>1. heart = "rebind" /\ ~Live(session)
      BY <1>0, <1>5 DEF RebindAnswered, ClientInv, RebindsDead
    <3>2. [Next]_vars /\ UNCHANGED <<peers, issued, mine>>
      BY <2>2 DEF Conflict, vars, tables, peersTable
    <3>3. QED
      BY <1>0, <1>h, <1>r, <2>2, <3>1, <3>2 DEF Writing, Live
  <2>3. QED
    BY <1>5, <2>1, <2>2 DEF RebindAnswered
<1>6. CASE RebindEphemeral
  BY <1>4, <1>6 DEF RebindEphemeral, Names
<1>7. CASE RebindFails
  <2>1. PICK a \in Names : /\ RegisterFails(a) /\ heart \in {"rebind", "rebindEphemeral"}
                           /\ heart' = "idle"
                           /\ UNCHANGED <<setup, signal, phase, session, tool, file, pushed, read,
                                          swallowed, outOfStep>>
    BY <1>0, <1>7 DEF RebindFails, Names
  <2>2. /\ [Next]_vars /\ issued \subseteq issued' /\ ghosts' \subseteq mine'
        /\ mine' \subseteq issued' /\ mine' \ ghosts' = mine \ ghosts
        /\ \A t \in issued : peers'[t] = peers[t]
    BY <1>0, <2>1, FailedRegister
  <2>3. QED
    BY <1>h, <1>r, <2>1, <2>2 DEF Writing
<1>8. CASE WriteState
  <2> DEFINE n == IF heart = "writeNamed" THEN configured ELSE NoAgent
  <2>1. /\ Writing /\ heart' = "idle"
        /\ \/ file' = [s |-> session, a |-> n] /\ outOfStep' = outOfStep
           \/ file' = file /\ outOfStep' = TRUE
        /\ UNCHANGED <<vars, setup, signal, phase, session, tool, pushed, mine, ghosts, read,
                       swallowed>>
    BY <1>8 DEF WriteState, Written, Writing
  <2>2. [Next]_vars /\ UNCHANGED <<peers, issued>>
    BY <2>1 DEF vars, tables, peersTable
  <2>n. n \in Names /\ session \in Sessions
    BY <1>0, <1>2 DEF Names
  <2>l. ~outOfStep /\ Live(session) => peers[session] = n
    BY <1>0, <1>1, <2>1 DEF WritesSession, Writing
  <2> HIDE DEF n
  <2>3. /\ file' \in Files \cup {NoFile} /\ outOfStep' \in BOOLEAN
        /\ path => file' \in Files
        /\ ~outOfStep' => ~outOfStep /\ file' \in Files /\ file'.s = session /\ file'.a = n
    <3>1. [s |-> session, a |-> n] \in Files
      BY <2>n DEF Files
    <3>2. CASE file' = [s |-> session, a |-> n] /\ outOfStep' = outOfStep
      <4>1. outOfStep' \in BOOLEAN
        BY <1>0, <3>2 DEF ServerTypeOK
      <4>2. QED
        BY <3>1, <3>2, <4>1
    <3>3. CASE file' = file /\ outOfStep' = TRUE
      BY <1>0, <1>1, <3>3 DEF ServerTypeOK, ClientInv, HasSession
    <3>4. QED
      BY <2>1, <3>2, <3>3
  <2>4. TypeOK' => ServerTypeOK'
    BY <1>0, <2>1, <2>2, <2>3 DEF ServerTypeOK
  <2>5. Running' /\ ~Writing'
    BY <1>1, <2>1 DEF Running, Writing
  <2>6. ClientInv'
    BY <1>0, <1>1, <1>2, <2>1, <2>2, <2>3, <2>5
    DEF ClientInv, GoroutinesRun, HasSession, RebindsDead, ClaimsName, OneRowWhileRunning,
        Claiming, Running, Live
  <2>7. ClaimsForSession'
    BY <1>0, <1>1, <2>1, <2>2, <2>3, <2>5 DEF ClaimsForSession, Claiming, Live
  <2>8. WritesSession'
    BY <1>0, <1>1, <2>1, <2>2, <2>3, <2>5, <2>l DEF WritesSession, Writing, Live
  <2>9. QED
    BY <2>2, <2>4, <2>6, <2>7, <2>8 DEF Kept
<1>9. QED
  BY <1>3, <1>5, <1>6, <1>7, <1>8

\* claim_agent_name: the session is read when the call starts, the file when the broker
\* has granted the name, and written after that.
LEMMA ClaimKeeps ==
    ASSUME ServerInv,
           \/ \E a \in Agents : CallClaim(a)
           \/ ClaimGranted \/ ReadState \/ UpdateState
    PROVE  Kept
<1> USE DEF setup, signal
<1>0. /\ IInv /\ ServerTypeOK /\ ClientInv /\ ClaimsForSession /\ WritesSession
      /\ mine \subseteq issued /\ tool \in ToolCall /\ session \in Sessions \cup {NoSession}
      /\ running \subseteq issued /\ issued \subseteq Sessions
      /\ peers \in [Sessions -> Agents \cup {NoAgent, NoRow}]
  BY DEF ServerInv, ServerTypeOK, ToolCall, IInv, TypeOK, TablesTypeOK
<1>1. phase = "up"
  <2>1. phase # "up" => tool.at = "idle"
    BY <1>0 DEF ClientInv, GoroutinesRun
  <2>2. QED
    BY <2>1 DEF CallClaim, Dispatch, ClaimGranted, ReadState, UpdateState
<1>2. Running /\ session \in issued /\ (path => file \in Files)
  BY <1>0, <1>1 DEF ClientInv, HasSession, Running
<1>u. ASSUME UNCHANGED vars PROVE [Next]_vars /\ UNCHANGED <<peers, issued>>
  BY <1>u DEF vars, tables, peersTable
<1>3. ASSUME NEW a \in Agents, CallClaim(a) PROVE Kept
  <2>1. PICK t : /\ t = [[NoTool EXCEPT !.at = "claim", !.a = a] EXCEPT !.id = session]
                 /\ tool' = t
    BY <1>3 DEF CallClaim, Dispatch
  <2>2. t \in ToolCall /\ t.at = "claim" /\ t.a = a /\ t.id = session
    BY <1>0, <2>1 DEF NoTool, ToolCall, Names
  <2>3. /\ outOfStep' = (outOfStep \/ Writing)
        /\ UNCHANGED <<vars, setup, signal, phase, session, heart, file, pushed, mine,
                       ghosts, read, swallowed>>
    BY <1>3 DEF CallClaim, Dispatch, Writing
  <2>4. [Next]_vars /\ UNCHANGED <<peers, issued>>
    BY <1>u, <2>3
  <2>5. TypeOK' => ServerTypeOK'
    BY <1>0, <2>1, <2>2, <2>3, <2>4 DEF ServerTypeOK, ToolCall, Writing
  <2>6. ClientInv'
    BY <1>0, <1>1, <2>1, <2>2, <2>3, <2>4
    DEF ClientInv, GoroutinesRun, HasSession, RebindsDead, ClaimsName, OneRowWhileRunning,
        Claiming, Running, Live
  <2>7. ClaimsForSession'
    BY <2>1, <2>2, <2>3 DEF ClaimsForSession, Claiming, Writing
  <2>i. tool.at = "idle"
    BY <1>3 DEF CallClaim, Dispatch
  <2>8. WritesSession'
    BY <1>0, <1>2, <2>3, <2>4, <2>i DEF WritesSession, Running, Writing, Live
  <2>9. QED
    BY <2>4, <2>5, <2>6, <2>7, <2>8 DEF Kept
<1>4. CASE ClaimGranted
  <2>1. PICK t : t = [tool EXCEPT !.at = "claimed"]
    OBVIOUS
  <2>2. /\ tool.at = "claim" /\ ClaimAgent(tool.id, tool.a)
        /\ \/ tool' = t /\ outOfStep' = outOfStep
           \/ tool' = NoTool /\ outOfStep' = TRUE
        /\ UNCHANGED <<setup, signal, phase, session, heart, file, pushed, mine, ghosts, read,
                       swallowed>>
    BY <1>4, <2>1 DEF ClaimGranted, ToolGoes, NameNotFiled
  <2>3. t \in ToolCall /\ t.at = "claimed" /\ t.a = tool.a /\ t.id = tool.id
    BY <1>0, <2>1 DEF ToolCall
  <2>4. tool.a \in Agents /\ tool.id \in Sessions
    BY <1>0, <2>2 DEF ClientInv, ClaimsName, Claiming, ClaimAgent
  <2>5. /\ [Next]_vars /\ issued' = issued /\ peers[tool.id] = NoAgent
        /\ peers' = [peers EXCEPT ![tool.id] = tool.a]
    <3>1. [Next]_vars
      BY <2>2, <2>4 DEF Next
    <3>2. peers[tool.id] = NoAgent /\ ~IndexRefuses(tool.id, tool.a) /\ Live(tool.id)
      BY <2>2, SentinelAssumption DEF ClaimAgent, IndexRefuses, Live
    <3>3. QED
      BY <2>2, <3>1, <3>2 DEF ClaimAgent, UpdateAgentName
  <2>6. /\ \A s \in Sessions : Live(s)' = Live(s)
        /\ \A s \in Sessions : s # tool.id => peers'[s] = peers[s]
        /\ peers'[tool.id] = tool.a
    BY <1>0, <2>4, <2>5, SentinelAssumption DEF Live
  <2>7. tool' \in ToolCall /\ outOfStep' \in BOOLEAN
    BY <1>0, <2>2, <2>3, NoToolCall DEF ServerTypeOK
  <2>8. TypeOK' => ServerTypeOK'
    BY <1>0, <2>2, <2>5, <2>7 DEF ServerTypeOK, ToolCall
  <2>9. ClientInv'
    <3>1. GoroutinesRun' /\ HasSession'
      BY <1>0, <1>1, <2>2, <2>5 DEF ClientInv, GoroutinesRun, HasSession, Running
    <3>2. RebindsDead' /\ OneRowWhileRunning'
      BY <1>0, <1>2, <2>2, <2>6 DEF ClientInv, RebindsDead, OneRowWhileRunning
    <3>3. ClaimsName'
      BY <2>2, <2>3, <2>4, NoToolCall DEF ClaimsName, Claiming
    <3>4. QED
      BY <3>1, <3>2, <3>3 DEF ClientInv
  <2>10. ClaimsForSession'
    BY <1>0, <1>2, <2>2, <2>3, <2>6, NoToolCall
    DEF ClaimsForSession, Running, Claiming, Writing
  <2>11. WritesSession'
    <3>1. ASSUME ~outOfStep
          PROVE  ~Writing /\ tool.id = session /\ file \in Files /\ file.s = session
      BY <1>0, <1>2, <2>2, <3>1 DEF ClaimsForSession, WritesSession, Claiming
    <3>2. ~outOfStep' => ~outOfStep /\ tool'.at = "claimed"
      BY <2>2, <2>3
    <3>3. QED
      BY <1>2, <2>2, <3>1, <3>2 DEF WritesSession, Running, Writing
  <2>12. QED
    BY <2>5, <2>8, <2>9, <2>10, <2>11 DEF Kept
<1>n. ASSUME NameNotFiled, UNCHANGED <<vars, file, read, swallowed>> PROVE Kept
  <2>1. /\ tool' = NoTool /\ outOfStep' = TRUE
        /\ UNCHANGED <<vars, setup, signal, phase, session, heart, file, pushed, mine, ghosts, read,
                       swallowed>>
    BY <1>n DEF NameNotFiled
  <2>2. [Next]_vars /\ UNCHANGED <<peers, issued>>
    BY <1>u, <2>1
  <2>3. TypeOK' => ServerTypeOK'
    BY <1>0, <2>1, <2>2, NoToolCall DEF ServerTypeOK, ToolCall
  <2>4. ClientInv'
    BY <1>0, <1>1, <1>2, <2>1, <2>2, NoToolCall
    DEF ClientInv, GoroutinesRun, HasSession, RebindsDead, ClaimsName, OneRowWhileRunning,
        Claiming, Running, Live
  <2>5. QED
    BY <2>1, <2>2, <2>3, <2>4 DEF Kept, ClaimsForSession, WritesSession
<1>5. ASSUME tool.at = "claimed", path, ToolGoes([tool EXCEPT !.at = "update", !.copy = file]),
             UNCHANGED <<vars, file, read, swallowed>>
      PROVE  Kept
  <2>1. PICK t : t = [tool EXCEPT !.at = "update", !.copy = file]
    OBVIOUS
  <2>2. /\ tool.at = "claimed" /\ path /\ tool' = t
        /\ UNCHANGED <<vars, setup, signal, phase, session, heart, file, pushed, mine, ghosts,
                       outOfStep, read, swallowed>>
    BY <1>5, <2>1 DEF ToolGoes
  <2>3. t \in ToolCall /\ t.at = "update" /\ t.a = tool.a /\ t.id = tool.id /\ t.copy = file
    BY <1>0, <1>2, <2>1, <2>2 DEF ToolCall
  <2>4. [Next]_vars /\ UNCHANGED <<peers, issued>>
    BY <1>u, <2>2
  <2>5. TypeOK' => ServerTypeOK'
    BY <1>0, <2>2, <2>3, <2>4 DEF ServerTypeOK, ToolCall
  <2>6. ClientInv'
    BY <1>0, <1>1, <1>2, <2>2, <2>3, <2>4
    DEF ClientInv, GoroutinesRun, HasSession, RebindsDead, ClaimsName, OneRowWhileRunning,
        Claiming, Running, Live
  <2>7. ASSUME ~outOfStep
        PROVE  /\ ~Writing /\ tool.id = session /\ file.s = session
               /\ Live(session) => peers[session] = tool.a
    BY <1>0, <1>2, <2>2, <2>7 DEF ClaimsForSession, WritesSession, Claiming
  <2>8. ClaimsForSession'
    BY <2>2, <2>3, <2>4, <2>7 DEF ClaimsForSession, Claiming, Writing, Live
  <2>9. WritesSession'
    BY <1>0, <1>2, <2>2, <2>3, <2>4 DEF WritesSession, Running, Writing, Live
  <2>10. QED
    BY <2>4, <2>5, <2>6, <2>8, <2>9 DEF Kept
<1>6. ASSUME tool.at = "update", file' = [tool.copy EXCEPT !.a = tool.a], ToolGoes(NoTool),
             UNCHANGED <<vars, read, swallowed>>
      PROVE  Kept
  <2>1. /\ tool.at = "update" /\ tool' = NoTool /\ file' = [tool.copy EXCEPT !.a = tool.a]
        /\ UNCHANGED <<vars, setup, signal, phase, session, heart, pushed, mine, ghosts,
                       outOfStep, read, swallowed>>
    BY <1>6 DEF ToolGoes
  <2>2. tool.copy \in Files /\ tool.a \in Names
    BY <1>0, <2>1 DEF ClientInv, ClaimsName, Claiming, Names
  <2>3. file' \in Files /\ file'.s = tool.copy.s /\ file'.a = tool.a
    BY <2>1, <2>2 DEF Files
  <2>4. [Next]_vars /\ UNCHANGED <<peers, issued>>
    BY <1>u, <2>1
  <2>5. TypeOK' => ServerTypeOK'
    BY <1>0, <2>1, <2>3, <2>4, NoToolCall DEF ServerTypeOK, ToolCall
  <2>6. ClientInv'
    BY <1>0, <1>1, <1>2, <2>1, <2>3, <2>4, NoToolCall
    DEF ClientInv, GoroutinesRun, HasSession, RebindsDead, ClaimsName, OneRowWhileRunning,
        Claiming, Running, Live
  <2>7. ASSUME ~outOfStep
        PROVE  /\ ~Writing /\ tool.copy.s = session
               /\ Live(session) => peers[session] = tool.a
    BY <1>0, <1>2, <2>1, <2>7 DEF ClaimsForSession, Claiming
  <2>8. ClaimsForSession'
    BY <2>1, NoToolCall DEF ClaimsForSession, Claiming
  <2>9. WritesSession'
    BY <2>1, <2>3, <2>4, <2>7 DEF WritesSession, Writing, Live
  <2>10. QED
    BY <2>4, <2>5, <2>6, <2>8, <2>9 DEF Kept
<1>7. QED
  BY <1>3, <1>4, <1>5, <1>6, <1>n DEF ReadState, UpdateState

\* Shutdown: the goroutines have stopped when the session is unregistered.
LEMMA ExitKeeps ==
    ASSUME ServerInv, EndOfInput \/ Exit
    PROVE  Kept
<1> USE DEF setup, signal
<1>0. /\ IInv /\ ServerTypeOK /\ ClientInv /\ ClaimsForSession /\ WritesSession
      /\ mine \subseteq issued /\ ghosts \subseteq mine
      /\ running \subseteq issued /\ issued \subseteq Sessions
      /\ peers \in [Sessions -> Agents \cup {NoAgent, NoRow}]
  BY DEF ServerInv, ServerTypeOK, IInv, TypeOK, TablesTypeOK
<1>1. Running /\ session \in mine \ ghosts /\ session \in Sessions
  BY <1>0 DEF EndOfInput, Exit, Running, ClientInv, HasSession
<1>2. CASE EndOfInput
  <2>1. /\ tool.at = "idle" /\ phase = "up" /\ phase' = "stopping"
        /\ UNCHANGED <<vars, setup, signal, session, heart, tool, file, pushed, mine, ghosts,
                       read, swallowed, outOfStep>>
    BY <1>2 DEF EndOfInput, histories
  <2>2. [Next]_vars /\ UNCHANGED <<peers, issued>>
    BY <2>1 DEF vars, tables, peersTable
  <2>3. TypeOK' => ServerTypeOK'
    BY <1>0, <2>1, <2>2 DEF ServerTypeOK
  <2>4. Running' /\ Writing' = Writing
    BY <2>1 DEF Running, Writing
  <2>5. ClientInv'
    BY <1>0, <1>1, <2>1, <2>2, <2>4
    DEF ClientInv, GoroutinesRun, HasSession, RebindsDead, ClaimsName, OneRowWhileRunning,
        Claiming, Live
  <2>6. ClaimsForSession' /\ WritesSession'
    BY <1>0, <1>1, <2>1, <2>2, <2>4 DEF ClaimsForSession, WritesSession, Claiming, Live
  <2>7. QED
    BY <2>2, <2>3, <2>5, <2>6 DEF Kept
<1>3. CASE Exit
  <2>1. /\ heart = "idle" /\ phase = "stopping" /\ phase' = "stopped"
        /\ file' \in {NoFile, file}
        /\ \/ Unregister(session) /\ UNCHANGED ghosts
           \/ UNCHANGED vars /\ ghosts' = ghosts \cup {session}
        /\ UNCHANGED <<setup, signal, session, heart, tool, pushed, mine, read, swallowed, outOfStep>>
    BY <1>0, <1>3 DEF Exit, Leave, ClientInv, GoroutinesRun
  <2>2. [Next]_vars /\ issued' = issued
    BY <1>1, <2>1 DEF vars, Next, Unregister, EndSessions
  <2>3. TypeOK' => ServerTypeOK'
    BY <1>0, <1>1, <2>1, <2>2 DEF ServerTypeOK
  <2>4. ~Running' /\ tool.at = "idle"
    BY <1>0, <2>1 DEF Running, ClientInv, GoroutinesRun
  <2>5. OneRowWhileRunning'
    <3>1. \A s \in mine \ ghosts : s # session => ~Live(s)
      BY <1>0 DEF ClientInv, OneRowWhileRunning
    <3>2. CASE Unregister(session) /\ UNCHANGED ghosts
      <4>1. \A s \in Sessions : Live(s)' => Live(s) /\ s # session
        BY <1>0, <3>2 DEF Unregister, EndSessions, DeletePeers, Live
      <4>2. QED
        BY <1>0, <2>1, <3>1, <3>2, <4>1 DEF OneRowWhileRunning
    <3>3. CASE UNCHANGED vars /\ ghosts' = ghosts \cup {session}
      BY <2>1, <3>1, <3>3 DEF OneRowWhileRunning, Live, vars, tables, peersTable
    <3>4. QED
      BY <2>1, <3>2, <3>3
  <2>6. ClientInv'
    BY <2>1, <2>4, <2>5
    DEF ClientInv, GoroutinesRun, HasSession, RebindsDead, ClaimsName, Claiming
  <2>7. QED
    BY <2>2, <2>3, <2>4, <2>6 DEF Kept, ClaimsForSession, WritesSession
<1>4. QED
  BY <1>2, <1>3

-----------------------------------------------------------------------------
(* The theorems *)

\* Every step of the process, of its surroundings, and none.
LEMMA EveryStepKeeps == ServerInv /\ [ServerNext]_serverVars => Kept /\ ServerInv'
<1> SUFFICES ASSUME ServerInv, [ServerNext]_serverVars PROVE Kept /\ ServerInv'
  OBVIOUS
<1>1. Kept
  BY QuietKeeps, StartKeeps, HeartKeeps, ClaimKeeps, ExitKeeps DEF ServerNext
<1>2. IInv'
  BY <1>1, InductiveStep DEF Kept, ServerInv
<1>3. QED
  BY <1>1, <1>2 DEF Kept, ServerInv, IInv

\* A process that has not registered yet.
LEMMA ServerInitInductive == ServerInit => ServerInv
<1> SUFFICES ASSUME ServerInit PROVE ServerInv
  OBVIOUS
<1>1. IInv
  BY InitInductive DEF ServerInit
<1>2. /\ configured \in Names /\ path = FALSE /\ interrupted = FALSE /\ returned = {}
      /\ phase = "start" /\ session = NoSession /\ heart = "idle"
      /\ tool = NoTool /\ file = NoFile /\ pushed = {} /\ mine = {} /\ ghosts = {}
      /\ read = {} /\ swallowed = {} /\ outOfStep = FALSE
  BY DEF ServerInit
<1>3. ServerTypeOK
  <2>1. path \in BOOLEAN /\ interrupted \in BOOLEAN /\ outOfStep \in BOOLEAN
    BY <1>2, Zenon
  <2>2. QED
    BY <1>1, <1>2, <2>1, NoToolCall DEF ServerTypeOK, ToolCall, IInv
<1>4. ~Running
  BY <1>2 DEF Running
<1>5. ClientInv
  BY <1>2, <1>4, NoToolCall
  DEF ClientInv, GoroutinesRun, HasSession, RebindsDead, ClaimsName, Claiming, OneRowWhileRunning
<1>6. QED
  BY <1>1, <1>3, <1>4, <1>5 DEF ServerInv, ClaimsForSession, WritesSession

\* ServerInv holds whatever the goroutines, the broker and the network do.
LEMMA ServerInvariant == ServerSpec => []ServerInv
BY ServerInitInductive, EveryStepKeeps, PTL DEF ServerSpec

\* The MCP server and the clients around it use the broker as Broker describes it: what
\* is proved of every behaviour of the broker holds beside a process that rebinds,
\* loses answers and shuts down.
THEOREM ServerUsesBroker == ServerSpec => Spec
<1>1. ServerInit => Init
  BY DEF ServerInit
<1>2. Kept => [Next]_vars
  BY DEF Kept
<1>3. QED
  BY <1>1, <1>2, EveryStepKeeps, ServerInvariant, PTL DEF ServerSpec, Spec

\* Session, state file, tool call and histories of the process are well typed, whatever
\* is lost on the way to the broker and back.
THEOREM ServerTypeCorrect == ServerSpec => []ServerTypeOK
BY ServerInvariant, PTL DEF ServerInv

\* rebindToBroker and the shutdown of runServer leave no second row behind: of the
\* sessions the process knows of, only the current one is live, and none after exit.
THEOREM OneRow == ServerSpec => []OneRowWhileRunning
BY ServerInvariant, PTL DEF ServerInv, ClientInv

\* The state file has the current session and the name the broker has for it whenever no
\* heartbeat or tool call is in progress, unless since the last rebind an access to the file
\* failed, the answer to a granted claim was lost, or a claim overlapped the rebind.
THEOREM FileIsCurrent == ServerSpec => []FileTracksSession
<1>1. ServerInv => FileTracksSession
  BY DEF ServerInv, WritesSession, FileTracksSession, Running, Writing
<1>2. QED
  BY <1>1, ServerInvariant, PTL
=============================================================================
