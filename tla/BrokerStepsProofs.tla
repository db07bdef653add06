------------------------- MODULE BrokerStepsProofs -------------------------
(***************************************************************************)
(* Proofs about BrokerSteps, for any number of handlers in flight and any  *)
(* number of crashes and statements that find the database busy.           *)
(*                                                                         *)
(* The properties speak of tables and histories, but what keeps them true  *)
(* is in the frames: which session a handler between two statements is     *)
(* busy with, and what the sweep has selected.                             *)
(***************************************************************************)
EXTENDS BrokerSteps, TLAPS

\* What a handler has in its frame: an issued session, unless it sends, and a name
\* where it is about to write one.
FramesOK ==
    \A w \in Workers :
        /\ call[w].at \notin {"idle", "insertMessage"} => call[w].s \in issued
        /\ call[w].at \in {"claimCheck", "claimUpdate", "drain"} => call[w].a \in Agents
        /\ call[w].new => call[w].at \in {"insertPeer", "drain"}

\* The sweep is requeueing the mail of a session.
SweepHasSession == sweep.at = "requeue" => sweep.s \in Sessions

TypeInv == TypeOK /\ FramesOK /\ SweepHasSession

\* A frame built by F, field by field.
LEMMA FrameFields ==
    ASSUME NEW at \in Steps, NEW s \in Sessions \cup {NoSession},
           NEW a \in Agents \cup {NoAgent}, NEW M \in SUBSET MsgIds
    PROVE  /\ F(at, s, a, M) \in Frame
           /\ F(at, s, a, M).at = at /\ F(at, s, a, M).s = s
           /\ F(at, s, a, M).a = a /\ F(at, s, a, M).M = M
           /\ F(at, s, a, M).new <=> at = "insertPeer"
BY DEF F, Frame

\* The frame of a handler that has moved on to statement at, with all it has read.
LEMMA FrameMoves ==
    ASSUME NEW f \in Frame, NEW at \in Steps
    PROVE  /\ [f EXCEPT !.at = at] \in Frame
           /\ [f EXCEPT !.at = at].at = at /\ [f EXCEPT !.at = at].s = f.s
           /\ [f EXCEPT !.at = at].a = f.a /\ [f EXCEPT !.at = at].M = f.M
           /\ [f EXCEPT !.at = at].new = f.new
BY DEF Frame

\* A worker without a request.
LEMMA IdleFrame == /\ Idle \in Frame /\ Idle.at = "idle" /\ ~Idle.new
                   /\ Idle.s = NoSession
BY FrameFields DEF Idle, Steps

-----------------------------------------------------------------------------
(* Type correctness *)

\* One handler takes a step and its new frame is in order.
LEMMA FrameStep ==
    ASSUME TypeInv, NEW w \in Workers, NEW f \in Frame, GoTo(w, f),
           issued \subseteq issued',
           f.at \notin {"idle", "insertMessage"} => f.s \in issued',
           f.at \in {"claimCheck", "claimUpdate", "drain"} => f.a \in Agents,
           f.new => f.at \in {"insertPeer", "drain"}
    PROVE  call' \in [Workers -> Frame] /\ FramesOK'
<1>1. call' = [call EXCEPT ![w] = f] /\ call \in [Workers -> Frame]
  BY DEF GoTo, TypeInv, TypeOK
<1>2. \A v \in Workers : call'[v] = IF v = w THEN f ELSE call[v]
  BY <1>1
<1>3. QED
  BY <1>1, <1>2 DEF FramesOK, TypeInv

\* register and claimAgent: the answer makes a client of an issued session.
LEMMA RegisterTypes ==
    ASSUME TypeInv, NEW w \in Workers,
           \/ \E s \in Sessions, a \in Agents \cup {NoAgent} : RegisterCheck(w, s, a)
           \/ RegisterInsert(w)
           \/ \E s \in Sessions, a \in Agents : ClaimLookup(w, s, a)
           \/ ClaimCheck(w) \/ ClaimUpdate(w) \/ DrainQueue(w)
    PROVE  TypeInv'
<1> DEFINE g == call[w]
<1> USE CallsAssumption, MaxMsgsAssumption
    DEF TypeOK, TablesTypeOK, SweepHasSession, quiet, histories, peersTable,
        messagesTable, tables
<1>g. /\ TypeOK /\ g \in Frame /\ g.s \in Sessions \cup {NoSession}
      /\ g.a \in Agents \cup {NoAgent}
      /\ g.at \notin {"idle", "insertMessage"} => g.s \in issued
      /\ g.at \in {"claimCheck", "claimUpdate", "drain"} => g.a \in Agents
      /\ g.new => g.at \in {"insertPeer", "drain"}
  BY DEF TypeInv, FramesOK, Frame
<1>a. ASSUME Answer(w), g.at \in {"insertPeer", "drain"}, UNCHANGED issued
      PROVE  /\ clients' \subseteq issued'
             /\ call' \in [Workers -> Frame] /\ FramesOK'
  <2>1. call' \in [Workers -> Frame] /\ FramesOK'
    BY <1>a, IdleFrame, FrameStep DEF Answer
  <2>2. clients' \subseteq issued'
    BY <1>a, <1>g DEF Answer
  <2>3. QED
    BY <2>1, <2>2
<1>1. ASSUME NEW s \in Sessions, NEW a \in Agents \cup {NoAgent}, RegisterCheck(w, s, a)
      PROVE  TypeInv'
  <2> DEFINE f == F("insertPeer", s, a, {})
  <2>1. f \in Frame /\ f.at = "insertPeer" /\ f.s = s
    BY FrameFields DEF Steps
  <2> HIDE DEF f
  <2>2. call' \in [Workers -> Frame] /\ FramesOK'
    <3>1. GoTo(w, f) /\ issued' = issued \cup {s}
      BY <1>1 DEF RegisterCheck, f
    <3>2. QED
      BY <2>1, <3>1, FrameStep
  <2>3. faults' \in 0 .. MaxFaults
    BY <1>1, <1>g DEF RegisterCheck, FoundFree, Done, Fault
  <2>4. QED
    BY <1>1, <1>g, <2>2, <2>3 DEF RegisterCheck, TypeInv
<1>2. ASSUME RegisterInsert(w) PROVE TypeInv'
  <2>1. /\ peers' \in [Sessions -> Agents \cup {NoAgent, NoRow}]
        /\ faults' \in 0 .. MaxFaults
    BY <1>2, <1>g DEF RegisterInsert, InsertPeer, Done, Fault
  <2>2. CASE Answer(w)
    BY <1>2, <1>a, <1>g, <2>1, <2>2 DEF RegisterInsert, At, TypeInv
  <2>3. CASE g.a # NoAgent /\ GoTo(w, [g EXCEPT !.at = "drain"]) /\ UNCHANGED clients
    <3> DEFINE f == [g EXCEPT !.at = "drain"]
    <3>1. f \in Frame /\ f.at = "drain" /\ f.s = g.s /\ f.a = g.a /\ f.new = g.new
      BY <1>g, FrameMoves DEF Steps
    <3>2. g.s \in issued /\ g.a \in Agents /\ issued' = issued /\ GoTo(w, f)
      BY <1>2, <1>g, <2>3 DEF RegisterInsert, At
    <3> HIDE DEF f
    <3>3. call' \in [Workers -> Frame] /\ FramesOK'
      BY <3>1, <3>2, FrameStep
    <3>4. QED
      BY <1>2, <1>g, <2>1, <2>3, <3>3 DEF RegisterInsert, TypeInv
  <2>4. QED
    BY <1>2, <2>2, <2>3 DEF RegisterInsert
<1>3. ASSUME NEW s \in Sessions, NEW a \in Agents, ClaimLookup(w, s, a) PROVE TypeInv'
  <2> DEFINE f == F("claimCheck", s, a, {})
  <2>1. f \in Frame /\ f.at = "claimCheck" /\ f.s = s /\ f.a = a /\ ~f.new
    BY FrameFields DEF Steps
  <2>2. GoTo(w, f) /\ s \in issued /\ issued' = issued
    BY <1>3, <1>g DEF ClaimLookup
  <2> HIDE DEF f
  <2>3. call' \in [Workers -> Frame] /\ FramesOK'
    BY <2>1, <2>2, FrameStep
  <2>4. QED
    BY <1>3, <1>g, <2>3 DEF ClaimLookup, TypeInv
<1>4. ASSUME ClaimCheck(w) \/ ClaimUpdate(w) PROVE TypeInv'
  <2> DEFINE f == [g EXCEPT !.at = "claimUpdate"]
             h == [g EXCEPT !.at = "drain"]
  <2>1. /\ f \in Frame /\ f.at = "claimUpdate" /\ f.s = g.s /\ f.a = g.a /\ f.new = g.new
        /\ h \in Frame /\ h.at = "drain" /\ h.s = g.s /\ h.a = g.a /\ h.new = g.new
    BY <1>g, FrameMoves DEF Steps
  <2>2. g.s \in issued /\ g.a \in Agents /\ ~g.new /\ issued' = issued
    BY <1>4, <1>g DEF ClaimCheck, ClaimUpdate, At
  <2>3. GoTo(w, f) \/ GoTo(w, h) \/ GoTo(w, Idle)
    BY <1>4 DEF ClaimCheck, ClaimUpdate
  <2> HIDE DEF f, h
  <2>4. call' \in [Workers -> Frame] /\ FramesOK'
    BY <2>1, <2>2, <2>3, IdleFrame, FrameStep
  <2>5. peers' \in [Sessions -> Agents \cup {NoAgent, NoRow}] /\ faults' \in 0 .. MaxFaults
    BY <1>4, <1>g DEF ClaimCheck, ClaimUpdate, UpdateAgentName, FoundFree, Done, Fault
  <2>6. QED
    BY <1>4, <1>g, <2>4, <2>5 DEF ClaimCheck, ClaimUpdate, TypeInv
<1>5. ASSUME DrainQueue(w) PROVE TypeInv'
  <2>1. /\ toSession' \in [MsgIds -> Sessions \cup {NoSession}]
        /\ faults' \in 0 .. MaxFaults
        /\ namesSeen' \subseteq Agents
    BY <1>5, <1>g DEF DrainQueue, At, Drain, Bind, InsertNameSeen, Done, Fault
  <2>2. QED
    BY <1>5, <1>a, <1>g, <2>1 DEF DrainQueue, At, TypeInv
<1>6. QED
  BY <1>1, <1>2, <1>3, <1>4, <1>5

\* sendMessage and pollMessages.
LEMMA MailTypes ==
    ASSUME TypeInv, NEW w \in Workers,
           \/ \E s \in Sessions : SendToSessionLookup(w, s) \/ PollLookup(w, s)
           \/ \E a \in Agents : SendToAgentLookup(w, a)
           \/ SendInsert(w) \/ PollSelect(w) \/ PollMark(w)
    PROVE  TypeInv'
<1> DEFINE g == call[w]
<1> USE CallsAssumption, MaxMsgsAssumption
    DEF TypeOK, TablesTypeOK, SweepHasSession, quiet, histories, peersTable,
        messagesTable, tables
<1>g. /\ TypeOK /\ g \in Frame /\ g.s \in Sessions \cup {NoSession}
      /\ g.a \in Agents \cup {NoAgent} /\ g.M \in SUBSET MsgIds
      /\ g.at \notin {"idle", "insertMessage"} => g.s \in issued
  BY DEF TypeInv, FramesOK, Frame
<1>f. ASSUME NEW at \in {"insertMessage", "pollSelect", "pollMark"},
             NEW s \in Sessions \cup {NoSession}, NEW a \in Agents \cup {NoAgent},
             NEW M \in SUBSET MsgIds, GoTo(w, F(at, s, a, M)),
             at # "insertMessage" => s \in issued, UNCHANGED issued
      PROVE  call' \in [Workers -> Frame] /\ FramesOK'
  <2> DEFINE f == F(at, s, a, M)
  <2>0. at \in Steps /\ at # "insertPeer"
    BY DEF Steps
  <2>1. f \in Frame /\ f.at = at /\ f.s = s /\ ~f.new
    BY <2>0, FrameFields
  <2>2. GoTo(w, f)
    BY <1>f
  <2> HIDE DEF f
  <2>3. QED
    BY <1>f, <2>1, <2>2, FrameStep
<1>i. ASSUME GoTo(w, Idle), UNCHANGED issued
      PROVE  call' \in [Workers -> Frame] /\ FramesOK'
  BY <1>i, IdleFrame, FrameStep
<1>1. ASSUME NEW s \in Sessions, SendToSessionLookup(w, s) PROVE TypeInv'
  <2>1. call' \in [Workers -> Frame] /\ FramesOK'
    BY <1>1, <1>f DEF SendToSessionLookup
  <2>2. QED
    BY <1>1, <1>g, <2>1 DEF SendToSessionLookup, TypeInv
<1>2. ASSUME NEW a \in Agents, SendToAgentLookup(w, a) PROVE TypeInv'
  <2>1. PICK h \in Sessions \cup {NoSession} : GoTo(w, F("insertMessage", h, a, {}))
    BY <1>2 DEF SendToAgentLookup, Holders
  <2>2. call' \in [Workers -> Frame] /\ FramesOK'
    BY <1>2, <1>f, <2>1 DEF SendToAgentLookup
  <2>3. faults' \in 0 .. MaxFaults
    BY <1>2, <1>g DEF SendToAgentLookup, FoundFree, Done, Fault
  <2>4. QED
    BY <1>2, <1>g, <2>2, <2>3 DEF SendToAgentLookup, TypeInv
<1>3. ASSUME SendInsert(w) PROVE TypeInv'
  <2>1. call' \in [Workers -> Frame] /\ FramesOK'
    BY <1>3, <1>i DEF SendInsert
  <2>2. /\ lastId' \in 0 .. MaxMsgs /\ stored' \subseteq MsgIds
        /\ toAgent' \in [MsgIds -> Agents \cup {NoAgent}]
        /\ toSession' \in [MsgIds -> Sessions \cup {NoSession}]
    <3>1. CASE InsertMessage(g.a, g.s)
      BY <1>g, <3>1 DEF InsertMessage, MsgIds
    <3>2. CASE UNCHANGED <<lastId, stored, toAgent, toSession>>
      BY <1>g, <3>2
    <3>3. QED
      BY <1>3, <3>1, <3>2 DEF SendInsert
  <2>3. QED
    BY <1>3, <1>g, <2>1, <2>2 DEF SendInsert, Done, Fault, TypeInv
<1>4. ASSUME NEW s \in Sessions, PollLookup(w, s) PROVE TypeInv'
  <2>1. s \in issued /\ AgentName(s) \in Agents \cup {NoAgent}
    BY <1>4, <1>g, SentinelAssumption DEF PollLookup, AgentName, Live
  <2>2. PICK a \in Agents \cup {NoAgent} : GoTo(w, F("pollSelect", s, a, {}))
    BY <1>4, <2>1 DEF PollLookup
  <2>3. call' \in [Workers -> Frame] /\ FramesOK'
    BY <1>4, <1>f, <2>1, <2>2 DEF PollLookup
  <2>4. faults' \in 0 .. MaxFaults
    BY <1>4, <1>g DEF PollLookup, Done, Fault
  <2>5. QED
    BY <1>4, <1>g, <2>3, <2>4 DEF PollLookup, TypeInv
<1>5. ASSUME PollSelect(w) PROVE TypeInv'
  <2>1. g.s \in issued /\ Undelivered(g.s, g.a) \in SUBSET MsgIds
    BY <1>5, <1>g DEF PollSelect, At, Undelivered
  <2>2. PICK M \in SUBSET MsgIds :
           GoTo(w, Idle) \/ GoTo(w, F("pollMark", g.s, NoAgent, M))
    BY <1>5, <2>1 DEF PollSelect
  <2>3. call' \in [Workers -> Frame] /\ FramesOK'
    BY <1>5, <1>f, <1>g, <1>i, <2>1, <2>2 DEF PollSelect
  <2>4. faults' \in 0 .. MaxFaults
    BY <1>5, <1>g DEF PollSelect, Reads, Done, Fault
  <2>5. QED
    BY <1>5, <1>g, <2>3, <2>4 DEF PollSelect, TypeInv
<1>6. ASSUME PollMark(w) PROVE TypeInv'
  <2>1. PICK m \in g.M :
           /\ \/ MarkDelivered(g.s, {m}) /\ Done
                 /\ lateMarked' = lateMarked \cup IF Live(g.s) THEN {} ELSE {m}
              \/ Fault /\ UNCHANGED <<delivered, toSession, lateMarked>>
           /\ GoTo(w, IF g.M = {m} THEN Idle ELSE [g EXCEPT !.M = @ \ {m}])
    BY <1>6 DEF PollMark
  <2>2. call' \in [Workers -> Frame] /\ FramesOK'
    <3>1. CASE g.M = {m}
      BY <1>6, <1>i, <2>1, <3>1 DEF PollMark
    <3>2. CASE g.M # {m}
      <4> DEFINE f == [g EXCEPT !.M = @ \ {m}]
      <4>1. f \in Frame /\ f.at = "pollMark" /\ f.s = g.s /\ f.new = g.new
        BY <1>6, <1>g DEF PollMark, At, Frame
      <4>2. ~g.new /\ g.s \in issued /\ issued' = issued
        BY <1>6, <1>g DEF PollMark, At, TypeInv, FramesOK
      <4>3. GoTo(w, f)
        BY <2>1, <3>2
      <4> HIDE DEF f
      <4>4. QED
        BY <4>1, <4>2, <4>3, FrameStep
    <3>3. QED
      BY <3>1, <3>2
  <2>3. /\ delivered' \subseteq MsgIds /\ lateMarked' \subseteq MsgIds
        /\ toSession' \in [MsgIds -> Sessions \cup {NoSession}]
        /\ faults' \in 0 .. MaxFaults
    BY <1>g, <2>1 DEF MarkDelivered, Bind, Done, Fault
  <2>4. QED
    BY <1>6, <1>g, <2>2, <2>3 DEF PollMark, TypeInv
<1>7. QED
  BY <1>1, <1>2, <1>3, <1>4, <1>5, <1>6

\* unregister: its frame keeps the session while its row is gone.
LEMMA UnregisterTypes ==
    ASSUME TypeInv, NEW w \in Workers,
           \/ \E s \in Sessions : UnregisterDelete(w, s)
           \/ UnregisterDrop(w) \/ UnregisterRequeue(w)
    PROVE  TypeInv'
<1> DEFINE g == call[w]
<1> USE CallsAssumption
    DEF TypeOK, TablesTypeOK, SweepHasSession, quiet, histories, peersTable,
        messagesTable, tables
<1>g. /\ TypeOK /\ g \in Frame /\ g.s \in Sessions \cup {NoSession}
      /\ g.at \notin {"idle", "insertMessage"} => g.s \in issued
      /\ g.new => g.at \in {"insertPeer", "drain"}
  BY DEF TypeInv, FramesOK, Frame
<1>1. ASSUME NEW s \in Sessions, UnregisterDelete(w, s) PROVE TypeInv'
  <2> DEFINE f == F("drop", s, NoAgent, {})
  <2>1. f \in Frame /\ f.at = "drop" /\ f.s = s /\ ~f.new
    BY FrameFields DEF Steps
  <2>2. GoTo(w, f) /\ s \in issued /\ issued' = issued
    BY <1>1, <1>g DEF UnregisterDelete
  <2> HIDE DEF f
  <2>3. call' \in [Workers -> Frame] /\ FramesOK'
    BY <2>1, <2>2, FrameStep
  <2>4. /\ peers' \in [Sessions -> Agents \cup {NoAgent, NoRow}] /\ stale' \subseteq Sessions
        /\ faults' \in 0 .. MaxFaults
    BY <1>1, <1>g DEF UnregisterDelete, DeletePeers, Done, Fault
  <2>5. QED
    BY <1>1, <1>g, <2>3, <2>4 DEF UnregisterDelete, TypeInv
<1>2. ASSUME UnregisterDrop(w) PROVE TypeInv'
  <2> DEFINE f == [g EXCEPT !.at = "requeue"]
  <2>1. f \in Frame /\ f.at = "requeue" /\ f.s = g.s /\ f.new = g.new
    BY <1>g, FrameMoves DEF Steps
  <2>2. GoTo(w, f) /\ g.s \in issued /\ ~g.new /\ issued' = issued
    BY <1>2, <1>g DEF UnregisterDrop, At
  <2> HIDE DEF f
  <2>3. call' \in [Workers -> Frame] /\ FramesOK'
    BY <2>1, <2>2, FrameStep
  <2>4. QED
    BY <1>2, <1>g, <2>3 DEF UnregisterDrop, DropDirect, Done, Fault, TypeInv
<1>3. ASSUME UnregisterRequeue(w) PROVE TypeInv'
  <2>1. call' \in [Workers -> Frame] /\ FramesOK'
    BY <1>3, IdleFrame, FrameStep DEF UnregisterRequeue
  <2>2. /\ delivered' \subseteq MsgIds /\ cutOff' \subseteq Sessions
        /\ toSession' \in [MsgIds -> Sessions \cup {NoSession}]
    <3>1. g.s \in Sessions
      BY <1>3, <1>g DEF UnregisterRequeue, At
    <3>2. QED
      BY <1>3, <1>g, <3>1 DEF UnregisterRequeue, RequeueOrNot, Requeue, Bind, HaveMail
  <2>3. QED
    BY <1>3, <1>g, <2>1, <2>2 DEF UnregisterRequeue, RequeueOrNot, Done, Fault, TypeInv
<1>4. QED
  BY <1>1, <1>2, <1>3

\* Every statement of every handler, the sweep's, and a crash keep tables, frames and
\* histories well typed.
LEMMA TypeStep == TypeInv /\ [Next]_stepVars => TypeInv'
<1> SUFFICES ASSUME TypeInv, [Next]_stepVars PROVE TypeInv'
  OBVIOUS
<1> USE CallsAssumption
    DEF TypeOK, TablesTypeOK, SweepHasSession, quiet, histories, peersTable,
        messagesTable, tables
<1>0. TypeOK /\ FramesOK /\ SweepHasSession
  BY DEF TypeInv
<1>f. ASSUME UNCHANGED <<call, issued>> PROVE FramesOK'
  BY <1>0, <1>f DEF FramesOK
<1>1. ASSUME NEW s \in Sessions, Heartbeat(s) PROVE TypeInv'
  BY <1>0, <1>1, <1>f DEF Heartbeat, UpdateLastSeen, SweepFrame, TypeInv
<1>2. ASSUME NEW s \in Sessions, GoStale(s) PROVE TypeInv'
  BY <1>0, <1>2, <1>f DEF GoStale, TypeInv
<1>3. ASSUME NEW s \in Sessions, NEW m \in 1 .. lastId, AckMessage(s, m) PROVE TypeInv'
  BY <1>0, <1>3, <1>f DEF AckMessage, SetAck, TypeInv
<1>4. CASE SweepSelect
  <2>1. sweep' \in SweepFrame /\ sweep'.at = "delete"
    BY <1>0, <1>4 DEF SweepSelect, SweepIdle, SweepFrame
  <2>2. faults' \in 0 .. MaxFaults
    BY <1>0, <1>4 DEF SweepSelect, Reads, Done, Fault
  <2>3. QED
    BY <1>0, <1>4, <1>f, <2>1, <2>2 DEF SweepSelect, TypeInv
<1>5. CASE SweepDelete
  <2>1. sweep' \in SweepFrame /\ sweep'.at # "requeue" /\ sweep.dead \subseteq Sessions
    BY <1>0, <1>5 DEF SweepDelete, SweepLoop, SweepIdle, SweepFrame
  <2>2. cutOff' \subseteq Sessions
    BY <1>0, <1>5 DEF SweepDelete, HaveMail, SweepFrame
  <2>3. QED
    BY <1>0, <1>5, <1>f, <2>1, <2>2 DEF SweepDelete, DeletePeers, Done, Fault, TypeInv
<1>6. ASSUME NEW s \in Sessions, SweepDrop(s) PROVE TypeInv'
  <2>1. sweep' \in SweepFrame /\ sweep'.s = s
    BY <1>0, <1>6 DEF SweepDrop, SweepFrame
  <2>2. QED
    BY <1>0, <1>6, <1>f, <2>1 DEF SweepDrop, DropDirect, Done, Fault, TypeInv
<1>7. CASE SweepRequeue
  <2>1. sweep' \in SweepFrame /\ sweep'.at # "requeue"
    BY <1>0, <1>7 DEF SweepRequeue, SweepIdle, SweepFrame
  <2>2. /\ delivered' \subseteq MsgIds /\ cutOff' \subseteq Sessions
        /\ toSession' \in [MsgIds -> Sessions \cup {NoSession}]
    BY <1>0, <1>7 DEF SweepRequeue, RequeueOrNot, Requeue, Bind, HaveMail
  <2>3. QED
    BY <1>0, <1>7, <1>f, <2>1, <2>2 DEF SweepRequeue, RequeueOrNot, Done, Fault, TypeInv
<1>8. ASSUME NEW cut \in 0 .. lastId, NEW old \in SUBSET acked, PruneMessages(cut, old)
      PROVE  TypeInv'
  BY <1>0, <1>8, <1>f DEF PruneMessages, DeleteExpired, TypeInv
<1>9. CASE CrashAndRestart
  <2>1. call' = [w \in Workers |-> Idle] /\ \A w \in Workers : call'[w] = Idle
    BY <1>9 DEF CrashAndRestart
  <2>2. call' \in [Workers -> Frame] /\ FramesOK'
    BY <2>1, IdleFrame DEF FramesOK
  <2>3. sweep' \in SweepFrame /\ sweep'.at = "idle"
    BY <1>9 DEF CrashAndRestart, SweepIdle, SweepFrame
  <2>4. /\ namesSeen' \subseteq Agents /\ faults' \in 0 .. MaxFaults
        /\ cutOff' \subseteq Sessions /\ spared' \subseteq Sessions
    BY <1>0, <1>9 DEF CrashAndRestart, BackfillNamesSeen, Fault, HaveMail, BeingEnded
  <2>5. QED
    BY <1>0, <1>9, <2>2, <2>3, <2>4 DEF CrashAndRestart, TypeInv
<1>10. CASE UNCHANGED stepVars
  BY <1>0, <1>10, <1>f DEF stepVars, TypeInv
<1>11. QED
  BY <1>1, <1>2, <1>3, <1>4, <1>5, <1>6, <1>7, <1>8, <1>9, <1>10,
     RegisterTypes, MailTypes, UnregisterTypes DEF Next

\* A broker that has just started on empty tables.
LEMMA TypeInvariantInit == Init => TypeInv
<1> SUFFICES ASSUME Init PROVE TypeInv
  OBVIOUS
<1>1. \A w \in Workers : call[w] = Idle
  BY DEF Init
<1>2. call \in [Workers -> Frame] /\ FramesOK
  BY <1>1, IdleFrame DEF Init, FramesOK
<1>3. sweep \in SweepFrame /\ sweep.at = "idle"
  BY DEF Init, SweepIdle, SweepFrame
<1>4. QED
  BY <1>2, <1>3, CallsAssumption, MaxMsgsAssumption
  DEF Init, EmptyTables, TypeInv, TypeOK, TablesTypeOK, SweepHasSession

\* What holds of frames, tables and histories from the start of the broker on.
LEMMA TypeInvariant == StepSpec => []TypeInv
BY TypeInvariantInit, TypeStep, PTL DEF StepSpec

\* Every state of the interleaved broker is well typed: no handler in flight carries
\* a session that was never issued into a table, and no answer makes a client of one.
THEOREM StepsTypeCorrect == StepSpec => []TypeOK
BY TypeInvariant, PTL DEF TypeInv

-----------------------------------------------------------------------------
(* Names *)

\* The statements that write table peers, whatever handler runs them.
PeersStep ==
    \/ UNCHANGED peers
    \/ \E w \in Workers : At(w, "insertPeer") /\ InsertPeer(call[w].s, call[w].a)
    \/ \E w \in Workers : UpdateAgentName(call[w].s, call[w].a)
    \/ \E S \in SUBSET Sessions :
          peers' = [s \in Sessions |-> IF s \in S THEN NoRow ELSE peers[s]]

\* Rows of peers are written by register, claimAgent, unregister and the sweep only.
LEMMA WritesPeers == TypeInv /\ [Next]_stepVars => PeersStep
<1> SUFFICES ASSUME TypeInv, [Next]_stepVars PROVE PeersStep
  OBVIOUS
<1>0. sweep.past \subseteq Sessions
  BY DEF TypeInv, TypeOK, SweepFrame
<1>1. ASSUME NEW w \in Workers, RegisterInsert(w) PROVE PeersStep
  BY <1>1 DEF RegisterInsert, PeersStep
<1>2. ASSUME NEW w \in Workers, ClaimUpdate(w) PROVE PeersStep
  BY <1>2 DEF ClaimUpdate, PeersStep
<1>3. ASSUME NEW w \in Workers, NEW s \in Sessions, UnregisterDelete(w, s) PROVE PeersStep
  <2>1. {s} \in SUBSET Sessions
    OBVIOUS
  <2>2. QED
    BY <1>3, <2>1 DEF UnregisterDelete, DeletePeers, peersTable, PeersStep
<1>4. CASE SweepDelete
  BY <1>0, <1>4 DEF SweepDelete, DeletePeers, peersTable, PeersStep
<1>5. CASE UNCHANGED peers
  BY <1>5 DEF PeersStep
<1>6. QED
  BY <1>1, <1>2, <1>3, <1>4, <1>5
  DEF Next, stepVars, tables, peersTable, RegisterCheck, ClaimLookup, ClaimCheck,
      DrainQueue, SendToSessionLookup, SendToAgentLookup, SendInsert, PollLookup,
      PollSelect, PollMark, AckMessage, UnregisterDrop, UnregisterRequeue, Heartbeat,
      GoStale, SweepSelect, SweepDrop, SweepRequeue, PruneMessages, CrashAndRestart

\* No interleaving of register, claimAgent and the rest gives one name to two live
\* sessions: every write passes the unique index.
THEOREM NamesStayUnique == StepSpec => []NameUnique
<1>1. Init => NameUnique
  BY SentinelAssumption DEF Init, EmptyTables, NameUnique
<1>2. TypeInv /\ NameUnique /\ [Next]_stepVars => NameUnique'
  <2> SUFFICES ASSUME TypeInv, NameUnique, [Next]_stepVars PROVE NameUnique'
    OBVIOUS
  <2>0. peers \in [Sessions -> Agents \cup {NoAgent, NoRow}]
    BY DEF TypeInv, TypeOK, TablesTypeOK
  <2>1. ASSUME NEW s, NEW a, ~IndexRefuses(s, a), peers' = [peers EXCEPT ![s] = a]
        PROVE  NameUnique'
    BY <2>0, <2>1, SentinelAssumption DEF NameUnique, IndexRefuses, Holders
  <2>2. CASE UNCHANGED peers
    BY <2>2 DEF NameUnique
  <2>3. CASE \E w \in Workers : InsertPeer(call[w].s, call[w].a)
    BY <2>1, <2>2, <2>3 DEF InsertPeer
  <2>4. CASE \E w \in Workers : UpdateAgentName(call[w].s, call[w].a)
    BY <2>1, <2>2, <2>4 DEF UpdateAgentName
  <2>5. ASSUME NEW S \in SUBSET Sessions,
               peers' = [s \in Sessions |-> IF s \in S THEN NoRow ELSE peers[s]]
        PROVE  NameUnique'
    BY <2>0, <2>5, SentinelAssumption DEF NameUnique
  <2>6. QED
    BY <2>2, <2>3, <2>4, <2>5, WritesPeers DEF PeersStep
<1>3. QED
  BY <1>1, <1>2, TypeInvariant, PTL DEF StepSpec

-----------------------------------------------------------------------------
(* Sessions between two statements *)

\* The handler of w is ending its session: the row is deleted, the mail is not done.
Ending(w) == call[w].at \in {"drop", "requeue"}

\* A session whose register handler has not answered yet is nobody's client and no
\* other handler registers or ends it. Before the INSERT it is in no table and no sweep.
NewSessions ==
    \A w \in Workers :
        /\ call[w].at = "insertPeer" =>
              /\ call[w].new
              /\ ~Live(call[w].s)
              /\ call[w].s \notin stale \cup sweep.dead
        /\ call[w].new =>
              /\ call[w].s \notin clients
              /\ \A v \in Workers \ {w} :
                    call[v].new \/ Ending(v) => call[v].s # call[w].s

\* The client of a session that unregisters has sent its last request.
EndingLeft == \A w \in Workers : Ending(w) => call[w].s \notin clients

\* An id that was never handed out is in no table and no sweep.
OnlyIssued == \A s \in Sessions \ issued : ~Live(s) /\ s \notin stale \cup sweep.dead

\* A session the sweep has selected is deleted by it, or spared: by a heartbeat before
\* the DELETE, or by a DELETE that failed.
SweptOrSpared ==
    /\ sweep.at = "idle" => sweep.dead = {}
    /\ sweep.at # "delete" => sweep.past = {}
    /\ sweep.at = "delete" => sweep.dead \subseteq sweep.past \cup spared
    /\ sweep.at \in {"drop", "requeue"} => \A s \in sweep.dead : Live(s) => s \in spared

\* A row of messages has an id the counter has passed.
FreshRows == \A m \in stored \cup delivered : m <= lastId

IInv ==
    /\ TypeInv
    /\ NewSessions
    /\ EndingLeft
    /\ OnlyIssued
    /\ SweptOrSpared
    /\ FreshRows
    /\ StrandedOnlyByLateMark

\* One handler takes a step: a new session stays its own, and the sweep's selection
\* does not grow back into table peers.
LEMMA HandlerMoves ==
    ASSUME IInv, TypeInv', NEW w \in Workers, NEW f \in Frame, GoTo(w, f),
           UNCHANGED <<sweep, spared>>, stale' \subseteq stale, issued \subseteq issued',
           \A s \in Sessions :
              Live(s)' => Live(s) \/ (At(w, "insertPeer") /\ call[w].s = s),
           f.at = "insertPeer" => /\ f.new /\ f.s \in Sessions /\ ~Live(f.s)'
                                  /\ f.s \notin stale \cup sweep.dead,
           f.new => /\ f.s \notin clients'
                    /\ \A v \in Workers \ {w} : call[v].new \/ Ending(v) => call[v].s # f.s,
           f.at \in {"drop", "requeue"} =>
                    /\ f.s \notin clients'
                    /\ \A v \in Workers \ {w} : call[v].new => call[v].s # f.s,
           clients' \subseteq clients \cup IF call[w].new THEN {call[w].s} ELSE {}
    PROVE  NewSessions' /\ EndingLeft' /\ OnlyIssued' /\ SweptOrSpared'
<1>1. \A v \in Workers : call'[v] = IF v = w THEN f ELSE call[v]
  BY DEF GoTo, IInv, TypeInv, TypeOK
<1>2. At(w, "insertPeer") =>
         /\ call[w].new /\ call[w].s \in issued /\ call[w].s \notin sweep.dead
  BY DEF IInv, NewSessions, TypeInv, FramesOK, At
<1>3. \A v \in Workers : call[v].at = "insertPeer" => call[v].s \in Sessions
  BY DEF IInv, TypeInv, TypeOK, FramesOK
<1>4. EndingLeft'
  BY <1>1 DEF IInv, NewSessions, EndingLeft, Ending
<1>5. OnlyIssued'
  BY <1>2 DEF IInv, OnlyIssued, TypeInv, TypeOK
<1>6. SweptOrSpared'
  <2>1. sweep.dead \subseteq Sessions
    BY DEF IInv, TypeInv, TypeOK, SweepFrame
  <2>2. \A s \in sweep.dead : Live(s)' => Live(s)
    BY <1>2, <2>1
  <2>3. QED
    BY <2>2 DEF IInv, SweptOrSpared
<1>7. NewSessions'
  <2> SUFFICES ASSUME NEW v \in Workers
               PROVE  /\ call'[v].at = "insertPeer" =>
                            /\ call'[v].new
                            /\ peers'[call'[v].s] = NoRow
                            /\ call'[v].s \notin stale' \cup sweep'.dead
                      /\ call'[v].new =>
                            /\ call'[v].s \notin clients'
                            /\ \A u \in Workers \ {v} :
                                  call'[u].new \/ Ending(u)' => call'[u].s # call'[v].s
    BY DEF NewSessions, Live
  <2>1. CASE v = w
    BY <1>1, <2>1 DEF Ending, Live
  <2>2. CASE v # w
    <3>1. call'[v] = call[v]
      BY <1>1, <2>2
    <3>2. call[v].at = "insertPeer" => peers'[call[v].s] = NoRow
      BY <1>2, <1>3, <2>2 DEF IInv, NewSessions, Live
    <3>3. call[v].new => call[v].s \notin clients'
      BY <2>2 DEF IInv, NewSessions
    <3>4. ASSUME call[v].new, NEW u \in Workers \ {v}, call'[u].new \/ Ending(u)'
          PROVE  call'[u].s # call[v].s
      <4>1. CASE u = w
        BY <1>1, <2>2, <3>4, <4>1 DEF Ending
      <4>2. CASE u # w
        BY <1>1, <3>4, <4>2 DEF Ending, IInv, NewSessions
      <4>3. QED
        BY <4>1, <4>2
    <3>5. QED
      BY <3>1, <3>2, <3>3, <3>4 DEF IInv, NewSessions, Live
  <2>3. QED
    BY <2>1, <2>2
<1>8. QED
  BY <1>4, <1>5, <1>6, <1>7

\* The frames stay: what the sweep, a heartbeat or time adds to the selection are live
\* sessions, and nobody's row appears.
LEMMA FramesStay ==
    ASSUME IInv, TypeInv', UNCHANGED <<call, clients, issued>>,
           \A s \in Sessions : Live(s)' => Live(s),
           \A s \in Sessions : s \in stale' \cup sweep'.dead => s \in stale \cup sweep.dead \/ Live(s)
    PROVE  NewSessions' /\ EndingLeft' /\ OnlyIssued'
<1>1. \A v \in Workers : call[v].at = "insertPeer" => call[v].s \in Sessions
  BY DEF IInv, TypeInv, TypeOK, FramesOK
<1>2. EndingLeft' /\ OnlyIssued'
  BY DEF IInv, EndingLeft, OnlyIssued, Ending
<1>3. NewSessions'
  <2> SUFFICES ASSUME NEW v \in Workers, call[v].at = "insertPeer"
               PROVE  peers'[call[v].s] = NoRow /\ call[v].s \notin stale' \cup sweep'.dead
    BY DEF IInv, NewSessions, Ending, Live
  <2>1. QED
    BY <1>1 DEF IInv, NewSessions, Live
<1>4. QED
  BY <1>2, <1>3

\* What HandlerMoves and FramesStay give for every step of a handler.
SessionsOK == NewSessions /\ EndingLeft /\ OnlyIssued /\ SweptOrSpared

\* A step to a statement that neither registers nor ends a session.
LEMMA PlainMove ==
    ASSUME IInv, TypeInv', NEW w \in Workers, NEW f \in Frame, GoTo(w, f),
           ~f.new, f.at \notin {"insertPeer", "drop", "requeue"},
           UNCHANGED <<sweep, spared, stale, clients, issued>>,
           \A s \in Sessions : Live(s)' => Live(s)
    PROVE  SessionsOK'
BY HandlerMoves DEF SessionsOK

\* register: the session is new to everybody until the answer.
LEMMA RegisterSessions ==
    ASSUME IInv, TypeInv', NEW w \in Workers,
           \/ \E s \in Sessions, a \in Agents \cup {NoAgent} : RegisterCheck(w, s, a)
           \/ RegisterInsert(w) \/ DrainQueue(w)
    PROVE  SessionsOK'
<1> DEFINE g == call[w]
<1>g. /\ g \in Frame /\ g.s \in Sessions \cup {NoSession} /\ g.a \in Agents \cup {NoAgent}
      /\ clients \subseteq issued /\ issued \subseteq Sessions
      /\ \A v \in Workers : call[v].new \/ Ending(v) => call[v].s \in issued
  BY DEF IInv, TypeInv, TypeOK, FramesOK, Frame, Ending
<1> USE DEF quiet, histories, tables, peersTable
<1>1. ASSUME NEW s \in Sessions, NEW a \in Agents \cup {NoAgent}, RegisterCheck(w, s, a)
      PROVE  SessionsOK'
  <2> DEFINE f == F("insertPeer", s, a, {})
  <2>1. f \in Frame /\ f.at = "insertPeer" /\ f.s = s /\ f.new
    BY FrameFields DEF Steps
  <2>2. /\ GoTo(w, f) /\ issued' = issued \cup {s} /\ s \notin issued
        /\ UNCHANGED <<sweep, spared, stale, clients, peers>>
    BY <1>1 DEF RegisterCheck
  <2> HIDE DEF f
  <2>3. ~Live(s)' /\ s \notin stale \cup sweep.dead
    BY <2>2 DEF IInv, OnlyIssued, Live
  <2>4. \A t \in Sessions : Live(t)' => Live(t)
    BY <2>2 DEF Live
  <2>5. s \notin clients' /\ \A v \in Workers \ {w} : call[v].new \/ Ending(v) => call[v].s # s
    BY <1>g, <2>2
  <2>6. QED
    BY <2>1, <2>2, <2>3, <2>4, <2>5, HandlerMoves DEF SessionsOK
<1>a. ASSUME Answer(w), UNCHANGED <<sweep, spared, stale, issued>>,
             \A s \in Sessions : Live(s)' => Live(s) \/ (At(w, "insertPeer") /\ g.s = s)
      PROVE  SessionsOK'
  <2>1. /\ GoTo(w, Idle)
        /\ clients' \subseteq clients \cup IF g.new THEN {g.s} ELSE {}
    BY <1>a DEF Answer
  <2>2. QED
    BY <1>a, <2>1, IdleFrame, HandlerMoves DEF SessionsOK
<1>2. ASSUME RegisterInsert(w) PROVE SessionsOK'
  <2>1. \A s \in Sessions : Live(s)' => Live(s) \/ (At(w, "insertPeer") /\ g.s = s)
    BY <1>2 DEF RegisterInsert, InsertPeer, Live, IInv, TypeInv, TypeOK, TablesTypeOK
  <2>2. UNCHANGED <<sweep, spared, stale, issued>>
    BY <1>2 DEF RegisterInsert
  <2>3. CASE Answer(w)
    BY <1>a, <2>1, <2>2, <2>3
  <2>4. CASE GoTo(w, [g EXCEPT !.at = "drain"]) /\ UNCHANGED clients
    <3> DEFINE f == [g EXCEPT !.at = "drain"]
    <3>1. f \in Frame /\ f.at = "drain" /\ f.s = g.s /\ f.new = g.new
      BY <1>g, FrameMoves DEF Steps
    <3>2. GoTo(w, f)
      BY <2>4
    <3> HIDE DEF f
    <3>3. g.new => /\ g.s \notin clients
                   /\ \A v \in Workers \ {w} : call[v].new \/ Ending(v) => call[v].s # g.s
      BY DEF IInv, NewSessions
    <3>4. QED
      BY <2>1, <2>2, <2>4, <3>1, <3>2, <3>3, HandlerMoves DEF SessionsOK
  <2>5. QED
    BY <1>2, <2>3, <2>4 DEF RegisterInsert
<1>3. ASSUME DrainQueue(w) PROVE SessionsOK'
  <2>1. \A s \in Sessions : Live(s)' => Live(s)
    BY <1>3 DEF DrainQueue, Live
  <2>2. QED
    BY <1>3, <1>a, <2>1 DEF DrainQueue
<1>4. QED
  BY <1>1, <1>2, <1>3

\* unregister: from the DELETE on the session is nobody's client.
LEMMA UnregisterSessions ==
    ASSUME IInv, TypeInv', NEW w \in Workers,
           \/ \E s \in Sessions : UnregisterDelete(w, s)
           \/ UnregisterDrop(w) \/ UnregisterRequeue(w)
    PROVE  SessionsOK'
<1> DEFINE g == call[w]
<1>g. /\ g \in Frame /\ g.s \in Sessions \cup {NoSession}
      /\ g.new => g.at \in {"insertPeer", "drain"}
      /\ peers \in [Sessions -> Agents \cup {NoAgent, NoRow}]
  BY DEF IInv, TypeInv, TypeOK, TablesTypeOK, FramesOK, Frame
<1> USE DEF quiet, histories, tables, peersTable
<1>1. ASSUME NEW s \in Sessions, UnregisterDelete(w, s) PROVE SessionsOK'
  <2> DEFINE f == F("drop", s, NoAgent, {})
  <2>1. f \in Frame /\ f.at = "drop" /\ f.s = s /\ ~f.new
    BY FrameFields DEF Steps
  <2>2. /\ GoTo(w, f) /\ s \in clients /\ clients' = clients \ {s}
        /\ UNCHANGED <<sweep, spared, issued>>
    BY <1>1 DEF UnregisterDelete
  <2> HIDE DEF f
  <2>3. stale' \subseteq stale /\ \A t \in Sessions : Live(t)' => Live(t)
    BY <1>1, <1>g DEF UnregisterDelete, DeletePeers, Live
  <2>4. \A v \in Workers : call[v].new => call[v].s # s
    BY <2>2 DEF IInv, NewSessions
  <2>5. QED
    BY <2>1, <2>2, <2>3, <2>4, HandlerMoves DEF SessionsOK
<1>2. ASSUME UnregisterDrop(w) PROVE SessionsOK'
  <2> DEFINE f == [g EXCEPT !.at = "requeue"]
  <2>1. f \in Frame /\ f.at = "requeue" /\ f.s = g.s /\ f.new = g.new
    BY <1>g, FrameMoves DEF Steps
  <2>2. /\ GoTo(w, f) /\ ~g.new /\ Ending(w)
        /\ UNCHANGED <<sweep, spared, stale, clients, issued, peers>>
    BY <1>2, <1>g DEF UnregisterDrop, At, Ending
  <2> HIDE DEF f
  <2>3. g.s \notin clients /\ \A v \in Workers \ {w} : call[v].new => call[v].s # g.s
    BY <2>2 DEF IInv, EndingLeft, NewSessions
  <2>4. \A t \in Sessions : Live(t)' => Live(t)
    BY <2>2 DEF Live
  <2>5. QED
    BY <2>1, <2>2, <2>3, <2>4, HandlerMoves DEF SessionsOK
<1>3. ASSUME UnregisterRequeue(w) PROVE SessionsOK'
  <2>1. \A t \in Sessions : Live(t)' => Live(t)
    BY <1>3 DEF UnregisterRequeue, Live
  <2>2. QED
    BY <1>3, <2>1, IdleFrame, PlainMove DEF UnregisterRequeue
<1>4. QED
  BY <1>1, <1>2, <1>3

\* claimAgent, sendMessage and pollMessages.
LEMMA OtherSessions ==
    ASSUME IInv, TypeInv', NEW w \in Workers,
           \/ \E s \in Sessions, a \in Agents : ClaimLookup(w, s, a)
           \/ ClaimCheck(w) \/ ClaimUpdate(w)
           \/ \E s \in Sessions : SendToSessionLookup(w, s) \/ PollLookup(w, s)
           \/ \E a \in Agents : SendToAgentLookup(w, a)
           \/ SendInsert(w) \/ PollSelect(w) \/ PollMark(w)
    PROVE  SessionsOK'
<1> DEFINE g == call[w]
<1>g. /\ g \in Frame /\ g.s \in Sessions \cup {NoSession} /\ g.a \in Agents \cup {NoAgent}
      /\ g.M \in SUBSET MsgIds
      /\ g.new => g.at \in {"insertPeer", "drain"}
      /\ peers \in [Sessions -> Agents \cup {NoAgent, NoRow}]
      /\ stored \subseteq MsgIds
  BY DEF IInv, TypeInv, TypeOK, TablesTypeOK, FramesOK, Frame
<1>s. /\ UNCHANGED <<sweep, spared, stale, clients, issued>>
      /\ \A s \in Sessions : Live(s)' => Live(s)
  BY <1>g
  DEF ClaimLookup, ClaimCheck, ClaimUpdate, UpdateAgentName, SendToSessionLookup,
      SendToAgentLookup, SendInsert, PollLookup, PollSelect, PollMark, Live, quiet,
      histories, tables, peersTable
<1>i. ASSUME GoTo(w, Idle) PROVE SessionsOK'
  BY <1>i, <1>s, IdleFrame, PlainMove
<1>f. ASSUME NEW at \in {"claimCheck", "insertMessage", "pollSelect", "pollMark"},
             NEW s \in Sessions \cup {NoSession}, NEW a \in Agents \cup {NoAgent},
             NEW M \in SUBSET MsgIds, GoTo(w, F(at, s, a, M))
      PROVE  SessionsOK'
  <2> DEFINE f == F(at, s, a, M)
  <2>n. at \notin {"insertPeer", "drop", "requeue"}
    BY DEF Steps
  <2>0. at \in Steps /\ at # "insertPeer"
    BY DEF Steps
  <2>1. f \in Frame /\ f.at = at /\ f.s = s /\ ~f.new
    BY <2>0, FrameFields
  <2>2. GoTo(w, f)
    BY <1>f
  <2> HIDE DEF f
  <2>3. QED
    BY <1>s, <2>n, <2>1, <2>2, PlainMove
<1>1. ASSUME NEW s \in Sessions, NEW a \in Agents, ClaimLookup(w, s, a) PROVE SessionsOK'
  BY <1>1, <1>f DEF ClaimLookup
<1>2. ASSUME ClaimCheck(w) \/ ClaimUpdate(w) PROVE SessionsOK'
  <2> DEFINE f == [g EXCEPT !.at = "claimUpdate"]
             h == [g EXCEPT !.at = "drain"]
  <2>1. /\ f \in Frame /\ f.at = "claimUpdate" /\ f.new = g.new
        /\ h \in Frame /\ h.at = "drain" /\ h.new = g.new
    BY <1>g, FrameMoves DEF Steps
  <2>2. ~g.new
    BY <1>2, <1>g DEF ClaimCheck, ClaimUpdate, At
  <2>3. GoTo(w, f) \/ GoTo(w, h) \/ GoTo(w, Idle)
    BY <1>2 DEF ClaimCheck, ClaimUpdate
  <2> HIDE DEF f, h
  <2>4. QED
    BY <1>i, <1>s, <2>1, <2>2, <2>3, PlainMove
<1>3. ASSUME NEW s \in Sessions, SendToSessionLookup(w, s) PROVE SessionsOK'
  BY <1>3, <1>f DEF SendToSessionLookup
<1>4. ASSUME NEW s \in Sessions, PollLookup(w, s) PROVE SessionsOK'
  <2>1. AgentName(s) \in Agents \cup {NoAgent}
    BY <1>g, SentinelAssumption DEF AgentName, Live
  <2>2. PICK a \in Agents \cup {NoAgent} : GoTo(w, F("pollSelect", s, a, {}))
    BY <1>4, <2>1 DEF PollLookup
  <2>3. QED
    BY <1>f, <2>2
<1>5. ASSUME NEW a \in Agents, SendToAgentLookup(w, a) PROVE SessionsOK'
  <2>1. PICK h \in Sessions \cup {NoSession} : GoTo(w, F("insertMessage", h, a, {}))
    BY <1>5 DEF SendToAgentLookup, Holders
  <2>2. QED
    BY <1>f, <2>1
<1>6. CASE SendInsert(w)
  BY <1>6, <1>i DEF SendInsert
<1>7. CASE PollSelect(w)
  <2>1. Undelivered(g.s, g.a) \in SUBSET MsgIds
    BY <1>g DEF Undelivered
  <2>2. PICK M \in SUBSET MsgIds :
           GoTo(w, Idle) \/ GoTo(w, F("pollMark", g.s, NoAgent, M))
    BY <1>7, <2>1 DEF PollSelect
  <2>3. QED
    BY <1>f, <1>g, <1>i, <2>2
<1>8. CASE PollMark(w)
  <2>1. PICK m : GoTo(w, IF g.M = {m} THEN Idle ELSE [g EXCEPT !.M = @ \ {m}])
    BY <1>8 DEF PollMark
  <2> DEFINE f == [g EXCEPT !.M = @ \ {m}]
  <2>2. f \in Frame /\ f.at = "pollMark" /\ f.new = g.new
    BY <1>8, <1>g DEF PollMark, At, Frame
  <2>3. ~g.new
    BY <1>8, <1>g DEF PollMark, At
  <2>4. GoTo(w, f) \/ GoTo(w, Idle)
    BY <2>1
  <2> HIDE DEF f
  <2>5. QED
    BY <1>i, <1>s, <2>2, <2>3, <2>4, PlainMove
<1>9. QED
  BY <1>1, <1>2, <1>3, <1>4, <1>5, <1>6, <1>7, <1>8

\* Heartbeats, time, the sweep, retention and a crash.
LEMMA SweepSessions ==
    ASSUME IInv, TypeInv',
           \/ \E s \in Sessions : Heartbeat(s) \/ GoStale(s) \/ SweepDrop(s)
           \/ \E s \in Sessions, m \in 1 .. lastId : AckMessage(s, m)
           \/ SweepSelect \/ SweepDelete \/ SweepRequeue
           \/ \E cut \in 0 .. lastId, old \in SUBSET acked : PruneMessages(cut, old)
           \/ CrashAndRestart \/ UNCHANGED stepVars
    PROVE  SessionsOK'
<1> USE DEF quiet, histories, tables, peersTable, messagesTable
<1>0. /\ sweep \in SweepFrame /\ SweptOrSpared /\ stale \subseteq Sessions
      /\ peers \in [Sessions -> Agents \cup {NoAgent, NoRow}]
      /\ \A s \in stale : s \in stale \cup sweep.dead
  BY DEF IInv, TypeInv, TypeOK, TablesTypeOK
<1>1. ASSUME NEW s \in Sessions, Heartbeat(s) PROVE SessionsOK'
  <2>1. sweep'.dead = sweep.dead /\ sweep'.at = sweep.at /\ sweep'.past = sweep.past \ {s}
    BY <1>0, <1>1 DEF Heartbeat, SweepFrame
  <2>2. /\ stale' = stale \ {s} /\ spared' = spared \cup ({s} \cap sweep.past \cap sweep.dead)
        /\ UNCHANGED <<peers, call, clients, issued>>
    BY <1>1 DEF Heartbeat, UpdateLastSeen
  <2>3. NewSessions' /\ EndingLeft' /\ OnlyIssued'
    BY <2>1, <2>2, FramesStay DEF Live
  <2>4. SweptOrSpared'
    BY <1>0, <2>1, <2>2 DEF SweptOrSpared, Live
  <2>5. QED
    BY <2>3, <2>4 DEF SessionsOK
<1>2. ASSUME NEW s \in Sessions, GoStale(s) PROVE SessionsOK'
  <2>1. /\ stale' = stale \cup {s} /\ Live(s)
        /\ UNCHANGED <<peers, call, clients, issued, sweep, spared>>
    BY <1>2 DEF GoStale
  <2>2. NewSessions' /\ EndingLeft' /\ OnlyIssued'
    BY <2>1, FramesStay DEF Live
  <2>3. SweptOrSpared'
    BY <1>0, <2>1 DEF SweptOrSpared, Live
  <2>4. QED
    BY <2>2, <2>3 DEF SessionsOK
<1>3. ASSUME NEW s \in Sessions, SweepDrop(s) PROVE SessionsOK'
  <2>1. /\ sweep'.dead = sweep.dead /\ sweep'.at = "requeue" /\ sweep'.past = sweep.past
        /\ sweep.at = "drop"
    BY <1>0, <1>3 DEF SweepDrop, SweepFrame
  <2>2. UNCHANGED <<peers, stale, call, clients, issued, spared>>
    BY <1>3 DEF SweepDrop
  <2>3. NewSessions' /\ EndingLeft' /\ OnlyIssued'
    BY <2>1, <2>2, FramesStay DEF Live
  <2>4. SweptOrSpared'
    BY <1>0, <2>1, <2>2 DEF SweptOrSpared, Live
  <2>5. QED
    BY <2>3, <2>4 DEF SessionsOK
<1>4. CASE SweepSelect
  <2>1. /\ sweep'.dead \subseteq stale /\ sweep'.at = "delete" /\ sweep'.past = stale
        /\ UNCHANGED <<peers, stale, call, clients, issued, spared>>
    BY <1>4 DEF SweepSelect, SweepIdle
  <2>2. NewSessions' /\ EndingLeft' /\ OnlyIssued'
    BY <2>1, FramesStay DEF Live
  <2>3. SweptOrSpared'
    BY <2>1 DEF SweptOrSpared
  <2>4. QED
    BY <2>2, <2>3 DEF SessionsOK
<1>5. CASE SweepDelete
  <2>1. /\ sweep'.dead = sweep.dead /\ sweep'.past = {}
        /\ sweep'.at = "drop" \/ (sweep'.at = "idle" /\ sweep.dead = {})
        /\ sweep.at = "delete" /\ sweep.dead \subseteq Sessions
    BY <1>0, <1>5 DEF SweepDelete, SweepLoop, SweepIdle, SweepFrame
  <2>2. /\ UNCHANGED <<call, clients, issued>> /\ stale' \subseteq stale
        /\ \A s \in Sessions : Live(s)' => Live(s)
    BY <1>0, <1>5 DEF SweepDelete, DeletePeers, Live
  <2>3. NewSessions' /\ EndingLeft' /\ OnlyIssued'
    BY <2>1, <2>2, FramesStay
  <2>4. \A s \in sweep.dead : Live(s)' => s \in spared'
    BY <1>0, <1>5, <2>1 DEF SweepDelete, DeletePeers, Live, SweptOrSpared
  <2>5. QED
    BY <2>1, <2>3, <2>4 DEF SessionsOK, SweptOrSpared
<1>6. CASE SweepRequeue
  <2>1. /\ sweep.at = "requeue"
        /\ \/ sweep'.at = "idle" /\ sweep'.dead = {} /\ sweep'.past = {}
           \/ /\ sweep'.at = "drop" /\ sweep'.dead = sweep.dead \ {sweep.s}
              /\ sweep'.past = sweep.past
    BY <1>0, <1>6 DEF SweepRequeue, SweepFrame, SweepIdle
  <2>2. /\ UNCHANGED <<peers, stale, call, clients, issued>>
        /\ spared' = spared \ {sweep.s}
    BY <1>6 DEF SweepRequeue
  <2>3. NewSessions' /\ EndingLeft' /\ OnlyIssued'
    BY <2>1, <2>2, FramesStay DEF Live
  <2>4. SweptOrSpared'
    BY <1>0, <2>1, <2>2 DEF SweptOrSpared, Live
  <2>5. QED
    BY <2>3, <2>4 DEF SessionsOK
<1>7. CASE CrashAndRestart
  <2>1. /\ \A w \in Workers : call'[w] = Idle
        /\ sweep'.at = "idle" /\ sweep'.dead = {} /\ sweep'.past = {}
        /\ UNCHANGED <<peers, stale, clients, issued>>
    BY <1>7 DEF CrashAndRestart, SweepIdle
  <2>2. QED
    BY <2>1, IdleFrame
    DEF IInv, SessionsOK, NewSessions, EndingLeft, Ending, OnlyIssued, SweptOrSpared, Live
<1>8. ASSUME UNCHANGED <<peers, stale, call, clients, issued, sweep, spared>> PROVE SessionsOK'
  BY <1>8
  DEF IInv, SessionsOK, NewSessions, EndingLeft, Ending, OnlyIssued, SweptOrSpared, Live
<1>9. QED
  BY <1>1, <1>2, <1>3, <1>4, <1>5, <1>6, <1>7, <1>8
  DEF AckMessage, PruneMessages, stepVars

-----------------------------------------------------------------------------
(* Mail out with a session *)

\* No statement stores or marks a row that was never inserted.
LEMMA RowsStep == IInv /\ [Next]_stepVars => FreshRows'
<1> SUFFICES ASSUME IInv, [Next]_stepVars PROVE FreshRows'
  OBVIOUS
<1>0. FreshRows /\ lastId \in 0 .. MaxMsgs /\ stored \subseteq MsgIds /\ delivered \subseteq MsgIds
  BY DEF IInv, TypeInv, TypeOK, TablesTypeOK
<1>1. ASSUME NEW a, NEW s, InsertMessage(a, s), UNCHANGED delivered PROVE FreshRows'
  BY <1>0, <1>1, MaxMsgsAssumption DEF InsertMessage, FreshRows, MsgIds
<1>2. ASSUME stored' \subseteq stored, delivered' \subseteq delivered \cup stored,
             UNCHANGED lastId
      PROVE  FreshRows'
  BY <1>0, <1>2 DEF FreshRows
<1>3. ASSUME NEW w \in Workers, SendInsert(w) PROVE FreshRows'
  BY <1>1, <1>2, <1>3 DEF SendInsert
<1>4. ASSUME NEW w \in Workers, PollMark(w) PROVE FreshRows'
  BY <1>2, <1>4 DEF PollMark, MarkDelivered
<1>5. ASSUME NEW s, RequeueOrNot(s), UNCHANGED <<stored, lastId>> PROVE FreshRows'
  BY <1>2, <1>5 DEF RequeueOrNot, Requeue
<1>6. ASSUME NEW S, DropDirect(S) \/ UNCHANGED stored, UNCHANGED <<delivered, lastId>>
      PROVE  FreshRows'
  BY <1>2, <1>6 DEF DropDirect
<1>7. ASSUME NEW cut, NEW old, PruneMessages(cut, old) PROVE FreshRows'
  BY <1>2, <1>7 DEF PruneMessages, DeleteExpired
<1>8. QED
  BY <1>2, <1>3, <1>4, <1>5, <1>6, <1>7
  DEF Next, stepVars, tables, messagesTable, RegisterCheck, RegisterInsert, ClaimLookup,
      ClaimCheck, ClaimUpdate, DrainQueue, SendToSessionLookup, SendToAgentLookup,
      PollLookup, PollSelect, AckMessage, UnregisterDelete, UnregisterDrop,
      UnregisterRequeue, Heartbeat, GoStale, SweepSelect, SweepDelete, SweepDrop,
      SweepRequeue, CrashAndRestart

\* Agent mail that some session has been handed and has not acked.
Out == UnackedQueued(Sessions) \cap delivered

\* Session s has a row, or a handler or the sweep has still to requeue its mail.
Tended(s) ==
    \/ Live(s)
    \/ \E w \in Workers : Ending(w) /\ call[w].s = s
    \/ s \in sweep.dead

\* Mail is stranded when it is out with a session nobody tends.
LEMMA StrandedUntended == Stranded = {m \in Out : ~Tended(toSession[m])}
BY DEF Stranded, Out, UnackedQueued, BeingEnded, Tended, Ending

\* What a step must do for the mail that is out after it: it was out with the same
\* session, which is tended as before or else recorded as cut off.
LEMMA MailStays ==
    ASSUME IInv, lateMarked \subseteq lateMarked', cutOff \subseteq cutOff',
           \A m \in Out' :
              /\ m \in Out
              /\ toSession'[m] = toSession[m]
              /\ \/ Tended(toSession[m]) => Tended(toSession[m])'
                 \/ toSession'[m] \in cutOff'
    PROVE  StrandedOnlyByLateMark'
<1>1. \A m \in Stranded' : m \in Out' /\ ~Tended(toSession[m])'
  BY StrandedUntended DEF Stranded, Out, UnackedQueued, BeingEnded, Tended, Ending
<1>2. \A m \in Stranded' : m \in Stranded \/ toSession'[m] \in cutOff'
  BY <1>1, StrandedUntended
<1>3. QED
  BY <1>1, <1>2 DEF IInv, StrandedOnlyByLateMark

\* Only a poll hands out agent mail: every other statement leaves what is out with its
\* session, or takes it back.
LEMMA OnlyPollsHandOut ==
    ASSUME IInv, [Next]_stepVars, ~ \E w \in Workers : PollMark(w)
    PROVE  \A m \in Out' : m \in Out /\ toSession'[m] = toSession[m]
<1> DEFINE Kept == \A m \in Out' : m \in Out /\ toSession'[m] = toSession[m]
<1>0. /\ FreshRows /\ lastId \in 0 .. MaxMsgs /\ stored \subseteq MsgIds
      /\ toAgent \in [MsgIds -> Agents \cup {NoAgent}]
      /\ toSession \in [MsgIds -> Sessions \cup {NoSession}]
  BY DEF IInv, TypeInv, TypeOK, TablesTypeOK
<1> USE DEF Out, UnackedQueued
<1>1. ASSUME stored' \subseteq stored, acked \subseteq acked',
             UNCHANGED <<toAgent, toSession, delivered>>
      PROVE  Kept
  BY <1>1
<1>2. ASSUME NEW w \in Workers, SendInsert(w) PROVE Kept
  <2>1. CASE InsertMessage(call[w].a, call[w].s) /\ UNCHANGED <<delivered, acked>>
    <3>1. \A m \in delivered : m # lastId + 1
      BY <1>0 DEF FreshRows
    <3>2. /\ stored' = stored \cup {lastId + 1}
          /\ \A m \in MsgIds : m # lastId + 1 =>
                toAgent'[m] = toAgent[m] /\ toSession'[m] = toSession[m]
      BY <1>0, <2>1 DEF InsertMessage
    <3>3. QED
      BY <1>0, <2>1, <3>1, <3>2
  <2>2. QED
    BY <1>1, <1>2, <2>1 DEF SendInsert
<1>3. ASSUME NEW w \in Workers, DrainQueue(w) PROVE Kept
  BY <1>0, <1>1, <1>3 DEF DrainQueue, Drain, Bind, Queued
<1>4. ASSUME NEW s, RequeueOrNot(s), UNCHANGED <<stored, acked, toAgent>> PROVE Kept
  BY <1>0, <1>1, <1>4, SentinelAssumption DEF RequeueOrNot, Requeue, Bind
<1>5. ASSUME NEW S, DropDirect(S) \/ UNCHANGED stored,
             UNCHANGED <<acked, toAgent, toSession, delivered>>
      PROVE  Kept
  BY <1>1, <1>5 DEF DropDirect
<1>6. ASSUME NEW s, NEW m, AckMessage(s, m) PROVE Kept
  BY <1>1, <1>6 DEF AckMessage, SetAck
<1>7. ASSUME NEW cut, NEW old, PruneMessages(cut, old) PROVE Kept
  BY <1>1, <1>7 DEF PruneMessages, DeleteExpired
<1>8. ASSUME UNCHANGED messagesTable PROVE Kept
  BY <1>1, <1>8 DEF messagesTable
<1> HIDE DEF Kept
<1>9. Kept
  BY <1>2, <1>3, <1>4, <1>5, <1>6, <1>7, <1>8
  DEF Next, stepVars, tables, RegisterCheck, RegisterInsert, ClaimLookup, ClaimCheck,
      ClaimUpdate, SendToSessionLookup, SendToAgentLookup, PollLookup, PollSelect,
      UnregisterDelete, UnregisterDrop, UnregisterRequeue, Heartbeat, GoStale,
      SweepSelect, SweepDelete, SweepDrop, SweepRequeue, CrashAndRestart
<1>10. QED
  BY <1>9 DEF Kept

\* A handler takes a step: it is not one that ends a session, or it goes on ending it.
LEMMA HandlerTends ==
    ASSUME IInv, NEW w \in Workers, NEW f, GoTo(w, f), UNCHANGED sweep,
           Ending(w) => f.at \in {"drop", "requeue"} /\ f.s = call[w].s,
           \A s \in Sessions :
              Live(s) => Live(s)' \/ (f.at \in {"drop", "requeue"} /\ f.s = s)
    PROVE  \A s \in Sessions : Tended(s) => Tended(s)'
<1>1. \A v \in Workers : call'[v] = IF v = w THEN f ELSE call[v]
  BY DEF GoTo, IInv, TypeInv, TypeOK
<1>2. QED
  BY <1>1 DEF Tended, Ending

\* No session is left alone but by the statement that requeues its mail, by the DELETE
\* of a sweep, or by a crash.
LEMMA SessionsTended ==
    ASSUME IInv, [Next]_stepVars, ~SweepRequeue, ~SweepDelete, ~CrashAndRestart,
           ~ \E w \in Workers : UnregisterRequeue(w)
    PROVE  \A s \in Sessions : Tended(s) => Tended(s)'
<1> DEFINE Kept == \A s \in Sessions : Tended(s) => Tended(s)'
<1> USE DEF quiet, histories, tables, peersTable, messagesTable
<1>0. /\ sweep \in SweepFrame
      /\ sweep.at = "idle" => sweep.dead = {}
      /\ peers \in [Sessions -> Agents \cup {NoAgent, NoRow}]
      /\ \A w \in Workers : call[w] \in Frame /\ call[w].a \in Agents \cup {NoAgent}
  BY DEF IInv, TypeInv, TypeOK, TablesTypeOK, SweptOrSpared, Frame
<1>l. ASSUME NEW w \in Workers, InsertPeer(call[w].s, call[w].a)
                             \/ UpdateAgentName(call[w].s, call[w].a) \/ UNCHANGED peers
      PROVE  \A s \in Sessions : Live(s) => Live(s)'
  BY <1>0, <1>l, SentinelAssumption DEF InsertPeer, UpdateAgentName, Live
<1>1. ASSUME NEW w \in Workers, NEW f, GoTo(w, f), UNCHANGED sweep, ~Ending(w),
             \A s \in Sessions : Live(s) => Live(s)'
      PROVE  Kept
  BY <1>1, HandlerTends
<1>2. ASSUME NEW w \in Workers,
             \/ \E s \in Sessions : \/ \E a \in Agents \cup {NoAgent} : RegisterCheck(w, s, a)
                                    \/ \E a \in Agents : ClaimLookup(w, s, a)
                                    \/ SendToSessionLookup(w, s) \/ PollLookup(w, s)
             \/ \E a \in Agents : SendToAgentLookup(w, a)
      PROVE  Kept
  <2>1. ~Ending(w) /\ UNCHANGED <<sweep, peers>>
    BY <1>2, IdleFrame
    DEF RegisterCheck, ClaimLookup, SendToSessionLookup, PollLookup, SendToAgentLookup,
        Starts, Ending
  <2>2. \E f : GoTo(w, f)
    BY <1>2
    DEF RegisterCheck, ClaimLookup, SendToSessionLookup, PollLookup, SendToAgentLookup
  <2>3. QED
    BY <1>1, <1>l, <2>1, <2>2
<1>3. ASSUME NEW w \in Workers,
             \/ RegisterInsert(w) \/ ClaimCheck(w) \/ ClaimUpdate(w) \/ DrainQueue(w)
             \/ SendInsert(w) \/ PollSelect(w) \/ PollMark(w)
      PROVE  Kept
  <2>1. ~Ending(w) /\ UNCHANGED sweep
    BY <1>3
    DEF RegisterInsert, ClaimCheck, ClaimUpdate, DrainQueue, SendInsert, PollSelect,
        PollMark, At, Ending
  <2>2. \E f : GoTo(w, f)
    BY <1>3
    DEF RegisterInsert, ClaimCheck, ClaimUpdate, DrainQueue, SendInsert, PollSelect,
        PollMark, Answer
  <2>3. \A s \in Sessions : Live(s) => Live(s)'
    BY <1>3, <1>l
    DEF RegisterInsert, ClaimCheck, ClaimUpdate, DrainQueue, SendInsert, PollSelect,
        PollMark
  <2>4. QED
    BY <1>1, <2>1, <2>2, <2>3
<1>4. ASSUME NEW w \in Workers, NEW s \in Sessions, UnregisterDelete(w, s) PROVE Kept
  <2> DEFINE f == F("drop", s, NoAgent, {})
  <2>1. f.at = "drop" /\ f.s = s
    BY FrameFields DEF Steps
  <2>2. GoTo(w, f) /\ UNCHANGED sweep /\ ~Ending(w)
    BY <1>4, IdleFrame DEF UnregisterDelete, Starts, Ending
  <2>3. \A t \in Sessions : Live(t) => Live(t)' \/ s = t
    BY <1>0, <1>4 DEF UnregisterDelete, DeletePeers, Live
  <2> HIDE DEF f
  <2>4. QED
    BY <2>1, <2>2, <2>3, HandlerTends
<1>5. ASSUME NEW w \in Workers, UnregisterDrop(w) PROVE Kept
  <2> DEFINE f == [call[w] EXCEPT !.at = "requeue"]
  <2>1. f.at = "requeue" /\ f.s = call[w].s
    BY <1>0, FrameMoves DEF Steps
  <2>2. GoTo(w, f) /\ UNCHANGED <<sweep, peers>>
    BY <1>5 DEF UnregisterDrop
  <2>3. \A t \in Sessions : Live(t) => Live(t)'
    BY <2>2 DEF Live
  <2> HIDE DEF f
  <2>4. QED
    BY <2>1, <2>2, <2>3, HandlerTends
<1>6. ASSUME UNCHANGED call, \A s \in Sessions : Live(s) => Live(s)' \/ s \in sweep'.dead,
             sweep.dead \subseteq sweep'.dead
      PROVE  Kept
  BY <1>6 DEF Tended, Ending
<1>7. ASSUME \/ \E s \in Sessions : Heartbeat(s) \/ GoStale(s) \/ SweepDrop(s)
             \/ \E s \in Sessions, m \in 1 .. lastId : AckMessage(s, m)
             \/ SweepSelect
             \/ \E cut \in 0 .. lastId, old \in SUBSET acked : PruneMessages(cut, old)
             \/ UNCHANGED stepVars
      PROVE  Kept
  <2>1. UNCHANGED <<call, peers>>
    BY <1>7
    DEF Heartbeat, GoStale, SweepDrop, AckMessage, SweepSelect, PruneMessages, stepVars
  <2>2. ASSUME NEW s \in Sessions, Heartbeat(s) \/ SweepDrop(s)
        PROVE  sweep'.dead = sweep.dead
    BY <1>0, <2>2 DEF Heartbeat, SweepDrop, SweepFrame
  <2>3. sweep.dead \subseteq sweep'.dead
    <3>1. CASE SweepSelect
      BY <1>0, <3>1 DEF SweepSelect
    <3>2. CASE UNCHANGED sweep
      BY <3>2
    <3>3. QED
      BY <1>7, <2>2, <3>1, <3>2
      DEF GoStale, AckMessage, PruneMessages, stepVars
  <2>4. QED
    BY <1>6, <2>1, <2>3 DEF Live
<1> HIDE DEF Kept
<1>8. ASSUME Next PROVE Kept
  <2>1. ASSUME NEW w \in Workers,
               \/ \E s \in Sessions :
                    \/ \E a \in Agents \cup {NoAgent} : RegisterCheck(w, s, a)
                    \/ \E a \in Agents : ClaimLookup(w, s, a)
                    \/ SendToSessionLookup(w, s) \/ PollLookup(w, s)
                    \/ UnregisterDelete(w, s)
               \/ \E a \in Agents : SendToAgentLookup(w, a)
               \/ RegisterInsert(w) \/ ClaimCheck(w) \/ ClaimUpdate(w) \/ DrainQueue(w)
               \/ SendInsert(w) \/ PollSelect(w) \/ PollMark(w) \/ UnregisterDrop(w)
        PROVE  Kept
    BY <1>2, <1>3, <1>4, <1>5, <2>1
  <2>2. QED
    BY <1>7, <1>8, <2>1 DEF Next
<1>9. QED
  BY <1>7, <1>8 DEF Kept

\* The last statement of an ending session takes its mail back, or the session is
\* recorded as cut off.
LEMMA RequeueTakesBack ==
    ASSUME IInv, NEW t \in Sessions, RequeueOrNot(t), UNCHANGED <<stored, acked, toAgent>>
    PROVE  \A m \in Out' : toSession'[m] = t => t \in cutOff'
<1>0. /\ stored \subseteq MsgIds /\ toSession \in [MsgIds -> Sessions \cup {NoSession}]
  BY DEF IInv, TypeInv, TypeOK, TablesTypeOK
<1>1. CASE Requeue({t})
  BY <1>0, <1>1, SentinelAssumption DEF Requeue, Bind, Out, UnackedQueued
<1>2. CASE cutOff' = cutOff \cup HaveMail({t}) /\ UNCHANGED <<delivered, toSession>>
  BY <1>0, <1>2 DEF HaveMail, Out, UnackedQueued
<1>3. QED
  BY <1>1, <1>2 DEF RequeueOrNot

\* The histories of late marks and of sessions cut off only grow.
LEMMA HistoriesGrow ==
    ASSUME [Next]_stepVars PROVE lateMarked \subseteq lateMarked' /\ cutOff \subseteq cutOff'
BY DEF Next, stepVars, quiet, histories, RegisterCheck, RegisterInsert, ClaimLookup,
       ClaimCheck, ClaimUpdate, DrainQueue, SendToSessionLookup, SendToAgentLookup,
       SendInsert, PollLookup, PollSelect, PollMark, AckMessage, UnregisterDelete,
       UnregisterDrop, UnregisterRequeue, RequeueOrNot, Heartbeat, GoStale, SweepSelect,
       SweepDelete, SweepDrop, SweepRequeue, PruneMessages, CrashAndRestart

\* A poll marks one row for its session, which has a row of its own or gets the late mark.
LEMMA PollStrands ==
    ASSUME IInv, [Next]_stepVars, NEW w \in Workers, PollMark(w)
    PROVE  StrandedOnlyByLateMark'
<1> DEFINE g == call[w]
<1>0. /\ stored \subseteq MsgIds /\ toSession \in [MsgIds -> Sessions \cup {NoSession}]
      /\ toAgent \in [MsgIds -> Agents \cup {NoAgent}]
  BY DEF IInv, TypeInv, TypeOK, TablesTypeOK
<1>1. PICK m \in g.M :
         \/ /\ MarkDelivered(g.s, {m})
            /\ lateMarked' = lateMarked \cup IF Live(g.s) THEN {} ELSE {m}
         \/ UNCHANGED <<delivered, toSession, lateMarked>>
  BY DEF PollMark
<1>2. UNCHANGED <<peers, stored, toAgent, acked, sweep, cutOff>>
  BY DEF PollMark, peersTable
<1>3. \A s \in Sessions : Tended(s) => Tended(s)'
  <2>1. call[w].at = "pollMark"
    BY DEF PollMark, At
  <2>2. ~Ending(w) /\ \E f : GoTo(w, f)
    BY <2>1 DEF PollMark, Ending
  <2>3. QED
    BY <1>2, <2>2, HandlerTends DEF Live
<1>4. ASSUME NEW n \in Stranded' PROVE n \in lateMarked' \/ toSession'[n] \in cutOff'
  <2>1. n \in Out' /\ ~Tended(toSession[n])' /\ toSession'[n] \in Sessions /\ n \in MsgIds
    BY <1>0, <1>2, <1>4 DEF Stranded, Out, UnackedQueued, BeingEnded, Tended, Ending
  <2>2. CASE n \in Out /\ toSession'[n] = toSession[n]
    <3>1. ~Tended(toSession[n])
      BY <1>3, <2>1, <2>2 DEF Tended, Live, Ending
    <3>2. n \in Stranded
      BY <2>2, <3>1, StrandedUntended
    <3>3. QED
      BY <2>2, <3>2, <1>2, HistoriesGrow DEF IInv, StrandedOnlyByLateMark
  <2>3. CASE ~(n \in Out /\ toSession'[n] = toSession[n])
    <3>1. MarkDelivered(g.s, {m}) /\ lateMarked' = lateMarked \cup IF Live(g.s) THEN {} ELSE {m}
      BY <1>1, <1>2, <2>1, <2>3 DEF Out, UnackedQueued
    <3>2. n = m /\ toSession'[n] = g.s
      BY <1>0, <1>2, <2>1, <2>3, <3>1 DEF MarkDelivered, Bind, Out, UnackedQueued
    <3>3. ~Live(g.s)
      BY <1>2, <2>1, <3>2 DEF Tended, Live
    <3>4. QED
      BY <3>1, <3>2, <3>3
  <2>4. QED
    BY <2>2, <2>3
<1>5. QED
  BY <1>4 DEF StrandedOnlyByLateMark

\* Every statement, and a crash, leaves mail deliverable or on record as stranded.
LEMMA StrandedStep == IInv /\ [Next]_stepVars => StrandedOnlyByLateMark'
<1> SUFFICES ASSUME IInv, [Next]_stepVars PROVE StrandedOnlyByLateMark'
  OBVIOUS
<1>0. /\ sweep \in SweepFrame /\ call \in [Workers -> Frame] /\ SweepHasSession
      /\ \A w \in Workers : call[w].at = "requeue" => call[w].s \in Sessions
  BY DEF IInv, TypeInv, TypeOK, FramesOK
<1>s. \A m \in Out : toSession[m] \in Sessions
  BY DEF Out, UnackedQueued
<1>1. ASSUME NEW t \in Sessions, RequeueOrNot(t), UNCHANGED <<stored, acked, toAgent>>,
             ~ \E w \in Workers : PollMark(w),
             \A s \in Sessions \ {t} : Tended(s) => Tended(s)'
      PROVE  StrandedOnlyByLateMark'
  <2>1. \A m \in Out' : m \in Out /\ toSession'[m] = toSession[m]
    BY <1>1, OnlyPollsHandOut
  <2>2. \A m \in Out' : toSession'[m] = t => t \in cutOff'
    BY <1>1, RequeueTakesBack
  <2>3. ASSUME NEW m \in Out', toSession[m] # t, Tended(toSession[m])
        PROVE  Tended(toSession[m])'
    BY <1>1, <1>s, <2>1, <2>3 DEF Tended, Live, Ending
  <2>4. QED
    BY <2>1, <2>2, <2>3, HistoriesGrow, MailStays
<1>2. ASSUME NEW w \in Workers, UnregisterRequeue(w) PROVE StrandedOnlyByLateMark'
  <2>1. /\ call[w].s \in Sessions /\ RequeueOrNot(call[w].s) /\ GoTo(w, Idle)
        /\ UNCHANGED <<peers, sweep, stored, acked, toAgent>>
    BY <1>0, <1>2 DEF UnregisterRequeue, At, peersTable
  <2>2. \A v \in Workers : call'[v] = IF v = w THEN Idle ELSE call[v]
    BY <1>0, <2>1 DEF GoTo
  <2>3. \A s \in Sessions \ {call[w].s} : Tended(s) => Tended(s)'
    BY <2>1, <2>2 DEF Tended, Live, Ending
  <2>4. CASE \E v \in Workers : PollMark(v)
    BY <2>4, PollStrands
  <2>5. QED
    BY <1>1, <2>1, <2>3, <2>4
<1>3. ASSUME SweepRequeue PROVE StrandedOnlyByLateMark'
  <2>1. /\ sweep.s \in Sessions /\ RequeueOrNot(sweep.s)
        /\ UNCHANGED <<peers, call, stored, acked, toAgent>>
    BY <1>0, <1>3 DEF SweepRequeue, SweepHasSession, peersTable
  <2>2. sweep.dead \subseteq sweep'.dead \cup {sweep.s}
    BY <1>0, <1>3 DEF SweepRequeue, SweepFrame, SweepIdle
  <2>3. \A s \in Sessions \ {sweep.s} : Tended(s) => Tended(s)'
    BY <2>1, <2>2 DEF Tended, Live, Ending
  <2>4. CASE \E v \in Workers : PollMark(v)
    BY <2>4, PollStrands
  <2>5. QED
    BY <1>1, <2>1, <2>3, <2>4
<1>4. ASSUME CrashAndRestart PROVE StrandedOnlyByLateMark'
  <2>1. /\ UNCHANGED <<peers, stored, toAgent, toSession, delivered, acked>>
        /\ cutOff' = cutOff \cup HaveMail(BeingEnded)
    BY <1>4 DEF CrashAndRestart, peersTable, messagesTable
  <2>2. \A m \in Out' : m \in Out /\ toSession'[m] = toSession[m]
    BY <2>1 DEF Out, UnackedQueued
  <2>3. ASSUME NEW m \in Out', Tended(toSession[m])
        PROVE  Tended(toSession[m])' \/ toSession'[m] \in cutOff'
    <3>1. CASE Live(toSession[m])
      BY <2>1, <3>1 DEF Tended, Live
    <3>2. CASE ~Live(toSession[m])
      <4>1. toSession[m] \in BeingEnded
        BY <1>s, <2>2, <2>3, <3>2 DEF Tended, BeingEnded, Ending
      <4>2. m \in UnackedQueued({toSession[m]})
        BY <2>2 DEF Out, UnackedQueued
      <4>3. QED
        BY <2>1, <4>1, <4>2 DEF HaveMail
    <3>3. QED
      BY <3>1, <3>2
  <2>4. QED
    BY <2>2, <2>3, HistoriesGrow, MailStays
<1>5. ASSUME SweepDelete PROVE StrandedOnlyByLateMark'
  <2>1. /\ UNCHANGED <<call, stored, toAgent, toSession, delivered, acked>>
        /\ sweep'.dead = sweep.dead
    BY <1>0, <1>5 DEF SweepDelete, SweepLoop, SweepIdle, SweepFrame, messagesTable
  <2>2. \A m \in Out' : m \in Out /\ toSession'[m] = toSession[m]
    BY <2>1 DEF Out, UnackedQueued
  <2>3. ASSUME NEW m \in Out', Tended(toSession[m])
        PROVE  Tended(toSession[m])' \/ toSession'[m] \in cutOff'
    <3>1. CASE toSession[m] \in sweep.past \ sweep.dead /\ DeletePeers(sweep.past)
      <4>1. m \in UnackedQueued({toSession[m]})
        BY <2>2 DEF Out, UnackedQueued
      <4>2. toSession[m] \in HaveMail(sweep.past \ sweep.dead)
        BY <3>1, <4>1 DEF HaveMail
      <4>3. CASE cutOff' = cutOff \cup HaveMail(sweep.past \ sweep.dead)
        BY <2>1, <4>2, <4>3
      <4>4. CASE UNCHANGED peers
        BY <2>1, <2>3, <4>4 DEF Tended, Live, Ending
      <4>5. QED
        BY <1>5, <4>3, <4>4 DEF SweepDelete, peersTable
    <3>2. CASE toSession[m] \notin sweep.past \/ UNCHANGED peers
      <4>1. Live(toSession[m]) => Live(toSession[m])'
        BY <1>5, <1>s, <2>1, <2>2, <3>2 DEF SweepDelete, DeletePeers, Live, peersTable
      <4>2. QED
        BY <2>1, <2>3, <4>1 DEF Tended, Ending, Live
    <3>3. CASE toSession[m] \in sweep.dead
      BY <2>1, <3>3 DEF Tended
    <3>4. QED
      BY <1>5, <3>1, <3>2, <3>3 DEF SweepDelete, peersTable
  <2>4. QED
    BY <2>2, <2>3, HistoriesGrow, MailStays
<1>6. ASSUME ~SweepRequeue, ~SweepDelete, ~CrashAndRestart,
             ~ \E w \in Workers : UnregisterRequeue(w),
             ~ \E w \in Workers : PollMark(w)
      PROVE  StrandedOnlyByLateMark'
  <2>1. \A m \in Out' : m \in Out /\ toSession'[m] = toSession[m]
    BY <1>6, OnlyPollsHandOut
  <2>2. \A s \in Sessions : Tended(s) => Tended(s)'
    BY <1>6, SessionsTended
  <2>3. ASSUME NEW m \in Out', Tended(toSession[m]) PROVE Tended(toSession[m])'
    BY <1>s, <2>1, <2>2, <2>3 DEF Tended, Live, Ending
  <2>4. QED
    BY <2>1, <2>3, HistoriesGrow, MailStays
<1>7. QED
  BY <1>2, <1>3, <1>4, <1>5, <1>6, PollStrands

-----------------------------------------------------------------------------
(* The inductive invariant and what it gives *)

\* Frames, sweep and mail stay in order at every statement of every handler.
LEMMA InductiveStep == IInv /\ [Next]_stepVars => IInv'
<1> SUFFICES ASSUME IInv, [Next]_stepVars PROVE IInv'
  OBVIOUS
<1>1. TypeInv'
  BY TypeStep DEF IInv
<1>2. SessionsOK'
  <2>1. ASSUME NEW w \in Workers,
               \/ \E s \in Sessions :
                    \/ \E a \in Agents \cup {NoAgent} : RegisterCheck(w, s, a)
                    \/ \E a \in Agents : ClaimLookup(w, s, a)
                    \/ SendToSessionLookup(w, s) \/ PollLookup(w, s)
                    \/ UnregisterDelete(w, s)
               \/ \E a \in Agents : SendToAgentLookup(w, a)
               \/ RegisterInsert(w) \/ ClaimCheck(w) \/ ClaimUpdate(w) \/ DrainQueue(w)
               \/ SendInsert(w) \/ PollSelect(w) \/ PollMark(w)
               \/ UnregisterDrop(w) \/ UnregisterRequeue(w)
        PROVE  SessionsOK'
    BY <1>1, <2>1, RegisterSessions, UnregisterSessions, OtherSessions
  <2>2. QED
    BY <1>1, <2>1, SweepSessions DEF Next
<1>3. QED
  BY <1>1, <1>2, RowsStep, StrandedStep DEF IInv, SessionsOK

\* IInv holds from the start of the broker on.
LEMMA InductiveInvariant == StepSpec => []IInv
<1>1. Init => IInv
  <2> SUFFICES ASSUME Init PROVE IInv
    OBVIOUS
  <2>1. /\ \A w \in Workers : call[w] = Idle
        /\ sweep.at = "idle" /\ sweep.dead = {} /\ sweep.past = {}
    BY DEF Init, SweepIdle
  <2>2. NewSessions /\ EndingLeft /\ SweptOrSpared
    BY <2>1, IdleFrame DEF NewSessions, EndingLeft, Ending, SweptOrSpared
  <2>3. OnlyIssued /\ FreshRows /\ StrandedOnlyByLateMark
    BY <2>1
    DEF Init, EmptyTables, OnlyIssued, Live, FreshRows, StrandedOnlyByLateMark, Stranded
  <2>4. TypeInv
    BY TypeInvariantInit
  <2>5. QED
    BY <2>2, <2>3, <2>4 DEF IInv
<1>2. QED
  BY <1>1, InductiveStep, PTL DEF StepSpec

\* With any number of handlers in flight, the sweep and crashes between their statements,
\* agent mail that nobody will requeue was marked by a poll after its session had ended,
\* or belongs to a session that was ended without a requeue: a crash came before it, it
\* failed, or the SELECT of the sweep failed to list a session its DELETE removed.
THEOREM MailStrandedOnlyByLateMark == StepSpec => []StrandedOnlyByLateMark
BY InductiveInvariant, PTL DEF IInv

\* With any number of handlers in flight, an unacked direct message of a session that
\* is live and has not unregistered is deleted by retention, or by a sweep that
\* selected the session and then spared it: never by somebody else's unregister.
THEOREM LiveMailIsKept == StepSpec => LiveMailDroppedOnlyBySweep
<1> DEFINE Lost(m) == /\ toAgent[m] = NoAgent /\ m \notin stored'
                      /\ Live(toSession[m]) /\ toSession[m] \in clients
           Told(m) == toSession[m] \in spared \/ sweep.at = "idle"
<1>1. IInv /\ [Next]_stepVars =>
         [\A m \in stored \ acked :
            LET s == toSession[m]
            IN  toAgent[m] = NoAgent /\ m \notin stored' /\ Live(s) /\ s \in clients
                   => s \in spared \/ sweep.at = "idle"]_stepVars
  <2> SUFFICES ASSUME IInv, Next, NEW m \in stored \ acked, Lost(m) PROVE Told(m)
    OBVIOUS
  <2>1. ASSUME NEW w \in Workers, UnregisterDrop(w) PROVE FALSE
    <3>1. toSession[m] = call[w].s /\ Ending(w)
      BY <2>1 DEF UnregisterDrop, DropDirect, UnackedDirect, At, Ending
    <3>2. QED
      BY <3>1 DEF IInv, EndingLeft
  <2>2. ASSUME NEW s \in Sessions, SweepDrop(s) PROVE Told(m)
    <3>1. toSession[m] = s /\ s \in sweep.dead /\ sweep.at = "drop"
      BY <2>2 DEF SweepDrop, DropDirect, UnackedDirect
    <3>2. QED
      BY <3>1 DEF IInv, SweptOrSpared
  <2>3. ASSUME NEW cut, NEW old, PruneMessages(cut, old) PROVE Told(m)
    BY <2>3 DEF PruneMessages
  <2>4. CASE stored \subseteq stored'
    BY <2>4
  <2>5. QED
    BY <2>1, <2>2, <2>3, <2>4
    DEF Next, tables, messagesTable, RegisterCheck, RegisterInsert, ClaimLookup,
        ClaimCheck, ClaimUpdate, DrainQueue, SendToSessionLookup, SendToAgentLookup,
        SendInsert, InsertMessage, PollLookup, PollSelect, PollMark, AckMessage,
        UnregisterDelete, UnregisterRequeue, Heartbeat, GoStale, SweepSelect,
        SweepDelete, SweepRequeue, CrashAndRestart
<1>2. QED
  BY <1>1, InductiveInvariant, PTL DEF StepSpec, LiveMailDroppedOnlyBySweep
=============================================================================
