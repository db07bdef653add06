---------------------------- MODULE BrokerSteps ----------------------------
(***************************************************************************)
(* The broker of broker_core.go as it runs: net/http calls every handler   *)
(* in a goroutine of its own, the sweep has another, and no handler opens  *)
(* a transaction or holds a lock over its statements. Each action here is  *)
(* one SQL statement of one handler; what the handler has read so far is   *)
(* in its frame, and may be out of date when it is used.                   *)
(*                                                                         *)
(* Hardly any error of a statement is looked at. A write that fails is     *)
(* skipped and the handler goes on (sendMessage and heartbeat answer it).  *)
(* A SELECT that fails is taken for one without rows, and one that breaks  *)
(* off for a shorter one: the name is free, the session has no name, there *)
(* are no messages, there are no dead sessions.                            *)
(*                                                                         *)
(* A request that its first statement refuses changes nothing and is left  *)
(* out. The lookup of agent_names_seen in sendMessage only words the reply *)
(* and is left out as well.                                                *)
(***************************************************************************)
EXTENDS BrokerDB

CONSTANTS
    Workers,  \* handler goroutines: a bound on the requests in flight
    Calls,    \* the kinds of request and events a run exercises
    MaxFaults \* bound on crashes of the broker and statements that find the database busy

AllCalls == {"register", "claim", "send", "poll", "ack", "unregister",
             "heartbeat", "sweep", "prune", "crash"}

ASSUME CallsAssumption == Calls \subseteq AllCalls /\ MaxFaults \in Nat

VARIABLES
    issued,      \* session ids generatePeerID has returned
    clients,     \* sessions whose client knows its id and still sends requests
    call,        \* call[w]: the frame of the handler worker w runs
    sweep,       \* the frame of cleanStalePeers
    faults,      \* crashes and skipped statements so far
    lateMarked,  \* history: messages a poll marked for a session without a row
    cutOff,      \* history: sessions ended with agent mail that nobody requeued
    spared       \* history: sessions the running sweep selected and did not delete

stepVars == <<tables, issued, clients, call, sweep, faults, lateMarked, cutOff, spared>>
histories == <<lateMarked, cutOff, spared>>
quiet == <<faults, histories>>

Steps == {"idle", "insertPeer", "claimCheck", "claimUpdate", "drain",
          "insertMessage", "pollSelect", "pollMark", "drop", "requeue"}

\* A handler between two statements: the next one, what it read, and whether it
\* registers a session.
Frame == [at : Steps, s : Sessions \cup {NoSession}, a : Agents \cup {NoAgent},
          M : SUBSET MsgIds, new : BOOLEAN]

F(at, s, a, M) == [at |-> at, s |-> s, a |-> a, M |-> M, new |-> at = "insertPeer"]
Idle == F("idle", NoSession, NoAgent, {})

\* cleanStalePeers: deadIDs as read, the rows still before the cutoff, and the
\* id whose messages are being cleaned.
SweepFrame == [at : {"idle", "delete", "drop", "requeue"},
               dead : SUBSET Sessions, past : SUBSET Sessions,
               s : Sessions \cup {NoSession}]

SweepIdle == [at |-> "idle", dead |-> {}, past |-> {}, s |-> NoSession]

TypeOK ==
    /\ TablesTypeOK
    /\ issued \subseteq Sessions
    /\ clients \subseteq issued
    /\ call \in [Workers -> Frame]
    /\ sweep \in SweepFrame
    /\ faults \in 0 .. MaxFaults
    /\ lateMarked \subseteq MsgIds
    /\ cutOff \subseteq Sessions
    /\ spared \subseteq Sessions

Init ==
    /\ EmptyTables
    /\ issued = {}
    /\ clients = {}
    /\ call = [w \in Workers |-> Idle]
    /\ sweep = SweepIdle
    /\ faults = 0
    /\ lateMarked = {}
    /\ cutOff = {}
    /\ spared = {}

\* Worker w has reached statement st of its handler.
At(w, st) == call[w].at = st
Starts(w, kind) == kind \in Calls /\ call[w] = Idle
GoTo(w, frame) == call' = [call EXCEPT ![w] = frame]

\* A statement may fail with SQLITE_BUSY when busy_timeout has passed.
Fault == faults < MaxFaults /\ faults' = faults + 1
Done == UNCHANGED faults

\* What a handler gets of the rows R: all, or fewer from a SELECT that fails.
Reads(M, R) == IF M = R THEN Done ELSE Fault

-----------------------------------------------------------------------------
(* register and claimAgent *)

\* Mutant of Answer: it names the agent instead of the session.
AnswerName(w) ==
    /\ clients' = clients \cup {call[w].a}
    /\ GoTo(w, Idle)

\* The handler answers OK: the client of a new session knows its id.
Answer(w) ==
    /\ clients' = clients \cup IF call[w].new THEN {call[w].s} ELSE {}
    /\ GoTo(w, Idle)

\* The SELECT returns no holder of the name.
FoundFree(a) == IF Holders(a) = {} THEN Done ELSE Fault

\* register: the name is free, or none is asked for.
RegisterCheck(w, s, a) ==
    /\ Starts(w, "register")
    /\ s \notin issued
    /\ IF a = NoAgent THEN Done ELSE FoundFree(a)
    /\ issued' = issued \cup {s}
    /\ GoTo(w, F("insertPeer", s, a, {}))
    /\ UNCHANGED <<tables, clients, sweep, histories>>

RegisterInsert(w) ==
    LET f == call[w]
    IN  /\ At(w, "insertPeer")
        /\ \/ InsertPeer(f.s, f.a) /\ Done
           \/ Fault /\ UNCHANGED peers
        /\ \/ f.a = NoAgent /\ Answer(w)
           \/ /\ f.a # NoAgent
              /\ GoTo(w, [f EXCEPT !.at = "drain"])
              /\ UNCHANGED clients
        /\ UNCHANGED <<stale, messagesTable, namesSeen, issued, sweep, histories>>

\* claimAgent: the session exists and has no name.
ClaimLookup(w, s, a) ==
    /\ Starts(w, "claim")
    /\ s \in clients
    /\ peers[s] = NoAgent
    /\ GoTo(w, F("claimCheck", s, a, {}))
    /\ UNCHANGED <<tables, issued, clients, sweep, quiet>>

ClaimCheck(w) ==
    LET f == call[w]
    IN  /\ At(w, "claimCheck")
        /\ \/ FoundFree(f.a) /\ GoTo(w, [f EXCEPT !.at = "claimUpdate"])
           \/ Holders(f.a) # {} /\ Done /\ GoTo(w, Idle)
        /\ UNCHANGED <<tables, issued, clients, sweep, histories>>

ClaimUpdate(w) ==
    LET f == call[w]
    IN  /\ At(w, "claimUpdate")
        /\ \/ UpdateAgentName(f.s, f.a) /\ Done
           \/ Fault /\ UNCHANGED peers
        /\ GoTo(w, [f EXCEPT !.at = "drain"])
        /\ UNCHANGED <<stale, messagesTable, namesSeen, issued, clients, sweep,
                       histories>>

\* Both handlers drain the queue of the name, record it, and answer OK. No handler
\* of this module reads agent_names_seen, so recording is no step of its own.
DrainQueue(w) ==
    LET f == call[w]
    IN  /\ At(w, "drain")
        /\ \/ Drain(f.s, f.a) /\ Done
           \/ Fault /\ UNCHANGED toSession
        /\ InsertNameSeen(f.a)
        /\ Answer(w)
        /\ UNCHANGED <<peersTable, stored, toAgent, delivered, acked, lastId,
                       issued, sweep, histories>>

-----------------------------------------------------------------------------
(* sendMessage *)

SendToSessionLookup(w, s) ==
    /\ Starts(w, "send")
    /\ lastId < MaxMsgs
    /\ Live(s)
    /\ GoTo(w, F("insertMessage", s, NoAgent, {}))
    /\ UNCHANGED <<tables, issued, clients, sweep, quiet>>

SendToAgentLookup(w, a) ==
    /\ Starts(w, "send")
    /\ lastId < MaxMsgs
    /\ \/ \E h \in Holders(a) : Done /\ GoTo(w, F("insertMessage", h, a, {}))
       \/ FoundFree(a) /\ GoTo(w, F("insertMessage", NoSession, a, {}))
    /\ UNCHANGED <<tables, issued, clients, sweep, histories>>

SendInsert(w) ==
    /\ At(w, "insertMessage")
    /\ \/ InsertMessage(call[w].a, call[w].s) /\ Done
       \/ Fault /\ UNCHANGED <<lastId, stored, toAgent, toSession>>
    /\ GoTo(w, Idle)
    /\ UNCHANGED <<peersTable, delivered, acked, namesSeen, issued, clients,
                   sweep, histories>>

-----------------------------------------------------------------------------
(* pollMessages and ackMessage *)

PollLookup(w, s) ==
    /\ Starts(w, "poll")
    /\ s \in clients
    /\ \/ Done /\ GoTo(w, F("pollSelect", s, AgentName(s), {}))
       \/ Fault /\ GoTo(w, F("pollSelect", s, NoAgent, {}))
    /\ UNCHANGED <<tables, issued, clients, sweep, histories>>

PollSelect(w) ==
    LET f == call[w]
    IN  /\ At(w, "pollSelect")
        /\ \E M \in SUBSET Undelivered(f.s, f.a) :
              /\ Reads(M, Undelivered(f.s, f.a))
              /\ GoTo(w, IF M = {} THEN Idle ELSE F("pollMark", f.s, NoAgent, M))
        /\ UNCHANGED <<tables, issued, clients, sweep, histories>>

\* The rows are marked one by one, by id alone.
PollMark(w) ==
    LET f == call[w]
    IN  /\ At(w, "pollMark")
        /\ \E m \in f.M :
              /\ \A n \in f.M : m <= n
              /\ \/ /\ MarkDelivered(f.s, {m})
                    /\ lateMarked' = lateMarked \cup IF Live(f.s) THEN {} ELSE {m}
                    /\ Done
                 \/ Fault /\ UNCHANGED <<delivered, toSession, lateMarked>>
              /\ GoTo(w, IF f.M = {m} THEN Idle ELSE [f EXCEPT !.M = @ \ {m}])
        /\ UNCHANGED <<peersTable, stored, toAgent, acked, lastId, namesSeen,
                       issued, clients, sweep, cutOff, spared>>

AckMessage(s, m) ==
    /\ "ack" \in Calls
    /\ s \in clients
    /\ SetAck(s, m)
    /\ UNCHANGED <<peersTable, stored, toAgent, toSession, delivered, lastId,
                   namesSeen, issued, clients, call, sweep, quiet>>

-----------------------------------------------------------------------------
(* unregister, heartbeat and cleanStalePeers *)

\* The client sends nothing after unregister; a request it has given up on may
\* still be in its handler.
UnregisterDelete(w, s) ==
    /\ Starts(w, "unregister")
    /\ s \in clients
    /\ \/ DeletePeers({s}) /\ Done
       \/ Fault /\ UNCHANGED peersTable
    /\ clients' = clients \ {s}
    /\ GoTo(w, F("drop", s, NoAgent, {}))
    /\ UNCHANGED <<messagesTable, namesSeen, issued, sweep, histories>>

UnregisterDrop(w) ==
    /\ At(w, "drop")
    /\ \/ DropDirect({call[w].s}) /\ Done
       \/ Fault /\ UNCHANGED stored
    /\ GoTo(w, [call[w] EXCEPT !.at = "requeue"])
    /\ UNCHANGED <<peersTable, toAgent, toSession, delivered, acked, lastId,
                   namesSeen, issued, clients, sweep, histories>>

\* The sessions of S with agent mail to requeue.
HaveMail(S) == {s \in S : UnackedQueued({s}) # {}}

\* The last statement of unregister and of a sweep's round for s.
RequeueOrNot(s) ==
    \/ Requeue({s}) /\ Done /\ UNCHANGED cutOff
    \/ Fault /\ cutOff' = cutOff \cup HaveMail({s}) /\ UNCHANGED <<delivered, toSession>>

\* Mutant of UnregisterRequeue: the messages stay with the session.
UnregisterForgets(w) ==
    /\ At(w, "requeue")
    /\ GoTo(w, Idle)
    /\ UNCHANGED <<tables, issued, clients, sweep, quiet>>

UnregisterRequeue(w) ==
    /\ At(w, "requeue")
    /\ RequeueOrNot(call[w].s)
    /\ GoTo(w, Idle)
    /\ UNCHANGED <<peersTable, stored, toAgent, acked, lastId, namesSeen,
                   issued, clients, sweep, lateMarked, spared>>

\* A heartbeat moves last_seen past the cutoff a running sweep has computed.
Heartbeat(s) ==
    /\ "heartbeat" \in Calls
    /\ s \in clients
    /\ Live(s)
    /\ UpdateLastSeen(s)
    /\ sweep' = [sweep EXCEPT !.past = @ \ {s}]
    /\ spared' = spared \cup ({s} \cap sweep.past \cap sweep.dead)
    /\ UNCHANGED <<peers, messagesTable, namesSeen, issued, clients, call,
                   faults, lateMarked, cutOff>>

GoStale(s) ==
    /\ "sweep" \in Calls
    /\ Live(s)
    /\ stale' = stale \cup {s}
    /\ UNCHANGED <<peers, messagesTable, namesSeen, issued, clients, call, sweep,
                   quiet>>

SweepSelect ==
    /\ sweep.at = "idle"
    /\ stale # {}
    /\ \E dead \in SUBSET stale :
          /\ Reads(dead, stale)
          /\ sweep' = [SweepIdle EXCEPT !.at = "delete", !.dead = dead, !.past = stale]
    /\ UNCHANGED <<tables, issued, clients, call, histories>>

\* The loop over deadIDs, or the end of the pass when there are none.
SweepLoop == sweep' = IF sweep.dead = {} THEN SweepIdle
                      ELSE [sweep EXCEPT !.at = "drop", !.past = {}]

\* Mutant of SweepDelete: it deletes one row only.
SweepDeleteOne ==
    /\ sweep.at = "delete"
    /\ \E s \in sweep.dead : DeletePeers(sweep.past \cap {s})
    /\ SweepLoop
    /\ UNCHANGED <<messagesTable, namesSeen, issued, clients, call, quiet>>

\* The DELETE makes its own comparison: it removes the rows a failed SELECT missed
\* too, and nothing requeues their mail.
SweepDelete ==
    /\ sweep.at = "delete"
    /\ \/ /\ DeletePeers(sweep.past) /\ Done
          /\ cutOff' = cutOff \cup HaveMail(sweep.past \ sweep.dead)
          /\ UNCHANGED spared
       \/ Fault /\ spared' = sweep.dead /\ UNCHANGED <<peersTable, cutOff>>
    /\ SweepLoop
    /\ UNCHANGED <<messagesTable, namesSeen, issued, clients, call, lateMarked>>

SweepDrop(s) ==
    /\ sweep.at = "drop"
    /\ s \in sweep.dead
    /\ \/ DropDirect({s}) /\ Done
       \/ Fault /\ UNCHANGED stored
    /\ sweep' = [sweep EXCEPT !.at = "requeue", !.s = s]
    /\ UNCHANGED <<peersTable, toAgent, toSession, delivered, acked, lastId,
                   namesSeen, issued, clients, call, histories>>

SweepRequeue ==
    /\ sweep.at = "requeue"
    /\ RequeueOrNot(sweep.s)
    /\ sweep' = IF sweep.dead = {sweep.s} THEN SweepIdle
                ELSE [sweep EXCEPT !.at = "drop", !.dead = @ \ {sweep.s},
                                   !.s = NoSession]
    /\ spared' = spared \ {sweep.s}
    /\ UNCHANGED <<peersTable, stored, toAgent, acked, lastId, namesSeen,
                   issued, clients, call, lateMarked>>

\* The retention DELETEs, every 30th sweep; the sweep is not inside a pass.
PruneMessages(cut, old) ==
    /\ "prune" \in Calls
    /\ sweep.at = "idle"
    /\ DeleteExpired(cut, old)
    /\ UNCHANGED <<peersTable, toAgent, toSession, delivered, acked, lastId,
                   namesSeen, issued, clients, call, sweep, quiet>>

-----------------------------------------------------------------------------
(* A crash of the broker *)

\* Sessions without a row whose messages a handler or the sweep still has to
\* requeue.
BeingEnded ==
    {s \in Sessions : ~Live(s) /\
        \/ \E w \in Workers : call[w].s = s /\ call[w].at \in {"drop", "requeue"}
        \/ s \in sweep.dead}

\* Handlers and sweep are lost where they stand; newBroker opens the tables.
CrashAndRestart ==
    /\ "crash" \in Calls
    /\ Fault
    /\ BackfillNamesSeen
    /\ call' = [w \in Workers |-> Idle]
    /\ sweep' = SweepIdle
    /\ cutOff' = cutOff \cup HaveMail(BeingEnded)
    /\ spared' = {}
    /\ UNCHANGED <<peersTable, messagesTable, issued, clients, lateMarked>>

Next ==
    \/ \E w \in Workers :
          \/ \E s \in Sessions :
                \/ \E a \in Agents \cup {NoAgent} : RegisterCheck(w, s, a)
                \/ \E a \in Agents : ClaimLookup(w, s, a)
                \/ SendToSessionLookup(w, s)
                \/ PollLookup(w, s)
                \/ UnregisterDelete(w, s)
          \/ \E a \in Agents : SendToAgentLookup(w, a)
          \/ RegisterInsert(w) \/ ClaimCheck(w) \/ ClaimUpdate(w)
          \/ DrainQueue(w)
          \/ SendInsert(w)
          \/ PollSelect(w) \/ PollMark(w)
          \/ UnregisterDrop(w) \/ UnregisterRequeue(w)
    \/ \E s \in Sessions : Heartbeat(s) \/ GoStale(s) \/ SweepDrop(s)
    \/ \E s \in Sessions, m \in 1 .. lastId : AckMessage(s, m)
    \/ SweepSelect \/ SweepDelete \/ SweepRequeue
    \/ \E cut \in 0 .. lastId, old \in SUBSET acked : PruneMessages(cut, old)
    \/ CrashAndRestart

StepSpec == Init /\ [][Next]_stepVars

-----------------------------------------------------------------------------
(* What every interleaving keeps *)

\* No two live sessions hold one name, although register and claimAgent check
\* and write in different statements: the unique index decides.
NameUnique ==
    \A s, t \in Sessions : peers[s] \in Agents /\ peers[s] = peers[t] => s = t

\* An agent message out with a session that has no row, and that no handler in
\* flight is about to requeue: no later statement makes it deliverable again.
Stranded ==
    {m \in UnackedQueued(Sessions) \cap delivered :
        ~Live(toSession[m]) /\ toSession[m] \notin BeingEnded}

\* Mail is stranded in two ways only. A poll marks a row after its session has
\* ended; or the session is ended and its mail not requeued, because the broker
\* crashes before the requeue, the requeue fails, or the sweep's SELECT has failed
\* to list a session that its DELETE then removes. Every other interleaving of
\* handlers and sweep, and every other failing statement, keeps it deliverable.
StrandedOnlyByLateMark ==
    \A m \in Stranded : m \in lateMarked \/ toSession[m] \in cutOff

\* Direct mail of a session that lives on and has not unregistered is dropped by
\* retention, or by a sweep that found the session silent and then spared it: its
\* heartbeat came between the SELECT and the DELETE, or the DELETE failed.
LiveMailDroppedOnlyBySweep ==
    [][\A m \in stored \ acked :
         LET s == toSession[m]
         IN  toAgent[m] = NoAgent /\ m \notin stored' /\ Live(s) /\ s \in clients
                => s \in spared \/ sweep.at = "idle"]_stepVars

-----------------------------------------------------------------------------
(* What the comments and documents state and some interleaving breaks *)

\* Names are "global, hard-unique, fail fast on collision": a session that is
\* answered OK holds the name it asked for.
AnsweredNameIsHeld ==
    [][\A w \in Workers : DrainQueue(w) => peers[call[w].s] = call[w].a]_stepVars
=============================================================================
