------------------------------ MODULE McpServer ------------------------------
(***************************************************************************)
(* One MCP server process (runServer of fleet_server.go) with the broker:  *)
(* registration with its ephemeral fallback, the heartbeat goroutine that  *)
(* re-registers after an eviction, the poll goroutine that pushes new      *)
(* messages, the tool calls of the main goroutine, the session state file, *)
(* an interrupt, and shutdown. Sessions of other clients run the handlers  *)
(* of Broker as they like. A request may be lost, and so may the response  *)
(* to a request the broker has served; every access to the state file may  *)
(* fail.                                                                   *)
(*                                                                         *)
(* Replacing the state file (write to .tmp, rename) is one step. The tools *)
(* list_peers and set_summary, the summary refresher and the fleet memory  *)
(* sync change nothing modelled here; send_message is SendToAgent and      *)
(* SendToSession of Broker. What a killed process leaves behind is         *)
(* ClientCrash of Broker.                                                  *)
(***************************************************************************)
EXTENDS Broker

CONSTANT NoFile  \* current-<ppid>.json does not exist

VARIABLES
    configured,  \* configuredAgentName
    path,        \* sessionStatePath is not empty: the file was written at startup
    phase,       \* the main goroutine
    session,     \* the sessionRef shared by the goroutines
    heart,       \* the heartbeat goroutine
    tool,        \* the tool call the main goroutine is in
    file,        \* the session state file: session id and agent name
    pushed,      \* pushedIDs
    interrupted, \* SIGINT has come, and with it the end of the context
    returned,    \* the goroutines that have seen that, or the end of input
    mine,        \* history: sessions the broker created for this process
    ghosts,      \* history: those the process never learnt of or left behind
    read,        \* history: messages check_messages has shown
    swallowed,   \* history: messages lost with a response to check_messages
    outOfStep    \* history: since the last rebind the state file has missed a change,
                 \* or a claim has overlapped that rebind

setup == <<configured, path>>
signal == <<interrupted, returned>>
clientVars == <<setup, phase, session, heart, tool, file, pushed, signal>>
histories == <<mine, ghosts, read, swallowed, outOfStep>>
serverVars == <<vars, clientVars, histories>>

Names == Agents \cup {NoAgent}
Files == [s : Sessions, a : Names]

NoTool == [at |-> "idle", id |-> NoSession, a |-> NoAgent, M |-> {}, copy |-> NoFile]

ServerTypeOK ==
    /\ TypeOK
    /\ configured \in Names /\ path \in BOOLEAN
    /\ phase \in {"start", "fallback", "up", "stopping", "stopped"}
    /\ session \in Sessions \cup {NoSession}
    /\ heart \in {"idle", "rebind", "rebindEphemeral", "writeNamed",
                  "writeEphemeral"}
    /\ tool \in [at : {"idle", "claim", "claimed", "update", "check", "ack"},
                 id : Sessions \cup {NoSession}, a : Names,
                 M : SUBSET MsgIds, copy : Files \cup {NoFile}]
    /\ file \in Files \cup {NoFile}
    /\ pushed \subseteq MsgIds
    /\ interrupted \in BOOLEAN /\ returned \subseteq {"heart", "poll"}
    /\ mine \subseteq issued /\ ghosts \subseteq mine
    /\ read \subseteq MsgIds /\ swallowed \subseteq MsgIds
    /\ outOfStep \in BOOLEAN

ServerInit ==
    /\ Init
    /\ configured \in Names /\ path = FALSE
    /\ phase = "start"
    /\ session = NoSession
    /\ heart = "idle"
    /\ tool = NoTool
    /\ file = NoFile
    /\ pushed = {}
    /\ interrupted = FALSE /\ returned = {}
    /\ mine = {} /\ ghosts = {}
    /\ read = {} /\ swallowed = {}
    /\ outOfStep = FALSE

-----------------------------------------------------------------------------
(* POST /register *)

\* The id generatePeerID returns next. Ids are unlike each other in nothing but
\* being fresh, so which one it is does not matter.
Fresh(s) == Sessions # issued /\ s = CHOOSE t \in Sessions : t \notin issued

\* The broker creates session s with name a, or without one.
Created(s, a) ==
    /\ Fresh(s)
    /\ IF a = NoAgent THEN RegisterEphemeral(s) ELSE Register(s, a)
    /\ mine' = mine \cup {s}

\* It answers 409: the name is held.
Conflict(a) ==
    /\ a # NoAgent
    /\ Holders(a) # {}
    /\ UNCHANGED <<vars, mine>>

\* The request fails: lost before it was served, or after.
RegisterFails(a) ==
    \/ UNCHANGED <<vars, mine, ghosts>>
    \/ \E s \in Sessions : Created(s, a) /\ ghosts' = ghosts \cup {s}

-----------------------------------------------------------------------------
(* Startup *)

\* The name asked for next: the configured one, or none after a collision.
AskedName == IF phase = "fallback" THEN NoAgent ELSE configured

\* Mutant of StartRegister: the state file is written before the id is set.
StartWritesEarly(s) ==
    /\ phase \in {"start", "fallback"}
    /\ Created(s, AskedName)
    /\ session' = s
    /\ file' = [s |-> session, a |-> AskedName] /\ path' = TRUE
    /\ phase' = "up"
    /\ UNCHANGED <<configured, signal, heart, tool, pushed, ghosts, read, swallowed,
                   outOfStep>>

\* Registered. If the state file cannot be written, its path is forgotten.
StartRegister(s) ==
    /\ phase \in {"start", "fallback"}
    /\ Created(s, AskedName)
    /\ session' = s
    /\ \/ file' = [s |-> s, a |-> AskedName] /\ path' = TRUE /\ UNCHANGED outOfStep
       \/ UNCHANGED <<file, path>> /\ outOfStep' = TRUE
    /\ phase' = "up"
    /\ UNCHANGED <<configured, signal, heart, tool, pushed, ghosts, read, swallowed>>

StartConflict ==
    /\ phase = "start"
    /\ Conflict(configured)
    /\ phase' = "fallback"
    /\ UNCHANGED <<setup, signal, session, heart, tool, file, pushed, ghosts, read,
                   swallowed, outOfStep>>

\* runServer returns the error.
StartFails ==
    /\ phase \in {"start", "fallback"}
    /\ RegisterFails(AskedName)
    /\ phase' = "stopped"
    /\ UNCHANGED <<setup, signal, session, heart, tool, file, pushed, read,
                   swallowed, outOfStep>>

-----------------------------------------------------------------------------
(* The heartbeat goroutine *)

Beats == phase \in {"up", "stopping"} /\ heart = "idle" /\ "heart" \notin returned

HeartbeatOK ==
    /\ Beats
    /\ Heartbeat(session)
    /\ UNCHANGED <<clientVars, histories>>

\* Mutant of HeartbeatUnknown: the answer is not looked at.
HeartbeatUnnoticed ==
    /\ phase \in {"up", "stopping"}
    /\ UNCHANGED serverVars

\* The broker has no such session: rebindToBroker. A heartbeat that fails for
\* another reason changes nothing.
HeartbeatUnknown ==
    /\ Beats
    /\ ~Live(session)
    /\ heart' = "rebind"
    /\ UNCHANGED <<vars, setup, signal, phase, session, tool, file, pushed, histories>>

Claiming == tool.at \in {"claim", "claimed", "update"}

\* The new id is published before the state file is written.
Rebound(s, a) ==
    /\ Created(s, a)
    /\ session' = s
    /\ heart' = IF a = NoAgent THEN "writeEphemeral" ELSE "writeNamed"
    /\ outOfStep' = Claiming
    /\ UNCHANGED <<setup, signal, phase, tool, file, pushed, ghosts, read, swallowed>>

RebindAnswered ==
    /\ heart = "rebind"
    /\ \/ \E s \in Sessions : Rebound(s, configured)
       \/ /\ Conflict(configured)
          /\ heart' = "rebindEphemeral"
          /\ UNCHANGED <<setup, signal, phase, session, tool, file, pushed, ghosts,
                         read, swallowed, outOfStep>>

RebindEphemeral ==
    /\ heart = "rebindEphemeral"
    /\ \E s \in Sessions : Rebound(s, NoAgent)

\* The next heartbeat tries again.
RebindFails ==
    /\ \/ heart = "rebind" /\ RegisterFails(configured)
       \/ heart = "rebindEphemeral" /\ RegisterFails(NoAgent)
    /\ heart' = "idle"
    /\ UNCHANGED <<setup, signal, phase, session, tool, file, pushed, read,
                   swallowed, outOfStep>>

\* The state file, or what its write left of it, with session s and name a in it.
Written(s, a) ==
    \/ file' = [s |-> s, a |-> a] /\ UNCHANGED outOfStep
    \/ UNCHANGED file /\ outOfStep' = TRUE

\* Mutant of WriteState: the old session id stays in the file.
WriteStateName ==
    /\ heart \in {"writeNamed", "writeEphemeral"}
    /\ file # NoFile
    /\ Written(file.s, IF heart = "writeNamed" THEN configured ELSE NoAgent)
    /\ heart' = "idle"
    /\ UNCHANGED <<vars, setup, signal, phase, session, tool, pushed, mine, ghosts,
                   read, swallowed>>

WriteState ==
    /\ heart \in {"writeNamed", "writeEphemeral"}
    /\ Written(session, IF heart = "writeNamed" THEN configured ELSE NoAgent)
    /\ heart' = "idle"
    /\ UNCHANGED <<vars, setup, signal, phase, session, tool, pushed, mine, ghosts,
                   read, swallowed>>

-----------------------------------------------------------------------------
(* The poll goroutine *)

\* Mutant of Peeked: sessions without a name are passed over.
PeekedByName ==
    IF AgentName(session) = NoAgent THEN {}
    ELSE Undelivered(session, AgentName(session)) \ pushed

\* /peek-messages, without what was pushed before.
Peeked == Undelivered(session, AgentName(session)) \ pushed

PollAndPush ==
    /\ phase \in {"up", "stopping"}
    /\ "poll" \notin returned
    /\ Peeked # {}
    /\ pushed' = pushed \cup Peeked
    /\ UNCHANGED <<vars, setup, signal, phase, session, heart, tool, file, histories>>

-----------------------------------------------------------------------------
(* Tool calls: the session id is read once, when the call is dispatched *)

Dispatch(call) ==
    /\ phase = "up"
    /\ tool.at = "idle"
    /\ tool' = [call EXCEPT !.id = session]
    /\ UNCHANGED <<vars, setup, signal, phase, session, heart, file, pushed, mine,
                   ghosts, read, swallowed>>

CallClaim(a) ==
    /\ Dispatch([NoTool EXCEPT !.at = "claim", !.a = a])
    /\ outOfStep' = (outOfStep \/ heart \in {"writeNamed", "writeEphemeral"})

CallCheck == Dispatch([NoTool EXCEPT !.at = "check"]) /\ UNCHANGED outOfStep

\* The call goes on as t.
ToolGoes(t) ==
    /\ tool' = t
    /\ UNCHANGED <<setup, signal, phase, session, heart, pushed, mine, ghosts, outOfStep>>

\* The call ends, and the state file does not get the name.
NameNotFiled ==
    /\ tool' = NoTool
    /\ outOfStep' = TRUE
    /\ UNCHANGED <<setup, signal, phase, session, heart, pushed, mine, ghosts>>

\* claim_agent_name; a lost response ends the call with an error.
ClaimGranted ==
    /\ tool.at = "claim"
    /\ ClaimAgent(tool.id, tool.a)
    /\ ToolGoes([tool EXCEPT !.at = "claimed"]) \/ NameNotFiled
    /\ UNCHANGED <<file, read, swallowed>>

\* Refused, or the request failed.
ClaimRefused ==
    /\ tool.at = "claim"
    /\ ToolGoes(NoTool)
    /\ UNCHANGED <<vars, file, read, swallowed>>

\* updateSessionStateAgentName: read the file, unless there is no path or it fails ...
ReadState ==
    /\ tool.at = "claimed"
    /\ \/ path /\ ToolGoes([tool EXCEPT !.at = "update", !.copy = file])
       \/ NameNotFiled
    /\ UNCHANGED <<vars, file, read, swallowed>>

\* ... replace the name, write it back.
UpdateState ==
    /\ tool.at = "update"
    /\ \/ file' = [tool.copy EXCEPT !.a = tool.a] /\ ToolGoes(NoTool)
       \/ UNCHANGED file /\ NameNotFiled
    /\ UNCHANGED <<vars, read, swallowed>>

\* check_messages: poll, then ack each message, then show them.
CheckPoll ==
    LET M == Undelivered(tool.id, AgentName(tool.id))
    IN  /\ tool.at = "check"
        /\ PollMessages(tool.id)
        /\ \/ ToolGoes([tool EXCEPT !.at = "ack", !.M = M]) /\ UNCHANGED swallowed
           \/ ToolGoes(NoTool) /\ swallowed' = swallowed \cup M
        /\ UNCHANGED <<file, read>>

\* Nothing to show, or the request failed.
CheckNothing ==
    /\ tool.at = "check"
    /\ ToolGoes(NoTool)
    /\ UNCHANGED <<vars, file, read, swallowed>>

\* An ack may be lost; nobody looks. The text is shown after the last one.
CheckAck(m) ==
    /\ tool.at = "ack"
    /\ m \in tool.M
    /\ \A n \in tool.M : m <= n
    /\ AckMessage(tool.id, m) \/ UNCHANGED vars
    /\ ToolGoes(IF tool.M = {m} THEN NoTool ELSE [tool EXCEPT !.M = @ \ {m}])
    /\ read' = read \cup {m}
    /\ UNCHANGED <<file, swallowed>>

-----------------------------------------------------------------------------
(* Shutdown *)

\* SIGINT ends the context of main. Nothing but the two goroutines looks at it: the main
\* goroutine goes on reading requests.
Interrupt ==
    /\ phase # "stopped"
    /\ ~interrupted
    /\ interrupted' = TRUE
    /\ UNCHANGED <<vars, setup, phase, session, heart, tool, file, pushed, returned, histories>>

\* Standard input is at its end: pollCancel.
EndOfInput ==
    /\ phase = "up"
    /\ tool.at = "idle"
    /\ phase' = "stopping"
    /\ UNCHANGED <<vars, setup, signal, session, heart, tool, file, pushed, histories>>

\* Goroutine g finds pollCtx done and returns, between two ticks.
Returns(g) ==
    /\ phase = "stopping" \/ (phase = "up" /\ interrupted)
    /\ g = "heart" => heart = "idle"
    /\ returned' = returned \cup {g}
    /\ UNCHANGED <<vars, setup, interrupted, phase, session, heart, tool, file, pushed,
                   histories>>

\* Unregister, whose failure is ignored; remove the file, if there is a path to it.
Leave ==
    /\ \/ Unregister(session) /\ UNCHANGED ghosts
       \/ UNCHANGED vars /\ ghosts' = ghosts \cup {session}
    /\ (path /\ file' = NoFile) \/ UNCHANGED file
    /\ phase' = "stopped"
    /\ UNCHANGED <<setup, signal, session, heart, tool, pushed, mine, read, swallowed,
                   outOfStep>>

\* Mutant of Exit: it does not wait for the goroutines.
ExitAtOnce == phase = "stopping" /\ Leave

\* wg.Wait, and the deferred call.
Exit ==
    /\ phase = "stopping"
    /\ returned = {"heart", "poll"}
    /\ Leave

-----------------------------------------------------------------------------

\* Everybody else, as long as this process runs: senders, the broker's sweep,
\* time, and other clients, of which only the names they take concern this one;
\* the sweep ends their sessions. A broker restart is to it a time of failing
\* requests, and messages do not live long enough to expire.
Others ==
    /\ phase # "stopped"
    /\ \/ \E s \in Sessions, a \in Agents : Fresh(s) /\ Register(s, a)
       \/ \E s \in mine : SendToSession(s)
       \/ \E s \in Sessions : GoStale(s)
       \/ \E a \in Agents : SendToAgent(a)
       \/ CleanStalePeers
    /\ UNCHANGED <<clientVars, histories>>

ServerNext ==
    \/ \E s \in Sessions : StartRegister(s)
    \/ StartConflict \/ StartFails
    \/ HeartbeatOK \/ HeartbeatUnknown
    \/ RebindAnswered \/ RebindEphemeral \/ RebindFails \/ WriteState
    \/ PollAndPush
    \/ \E a \in Agents : CallClaim(a)
    \/ ClaimGranted \/ ClaimRefused \/ ReadState \/ UpdateState
    \/ CallCheck \/ CheckPoll \/ CheckNothing
    \/ \E m \in MsgIds : CheckAck(m)
    \/ Interrupt \/ EndOfInput \/ Exit
    \/ \E g \in {"heart", "poll"} : Returns(g)
    \/ Others

\* A goroutine runs on its ticker until it returns, the main one finishes the acks
\* it has begun, and requests do not fail forever.
ServerFairness ==
    /\ WF_serverVars(HeartbeatUnknown)
    /\ SF_serverVars(RebindAnswered)
    /\ SF_serverVars(RebindEphemeral)
    /\ WF_serverVars(WriteState)
    /\ WF_serverVars(PollAndPush)
    /\ WF_serverVars(\E m \in MsgIds : CheckAck(m))

ServerSpec == ServerInit /\ [][ServerNext]_serverVars

FairServerSpec == ServerSpec /\ ServerFairness

-----------------------------------------------------------------------------
(* Properties *)

\* The process has one row in the registry while it runs and none after it has
\* stopped, whatever evictions, rebinds and lost answers happened: only rows it
\* never heard of, or could not remove, stay behind for the sweep.
OneRowWhileRunning ==
    \A s \in mine \ ghosts : Live(s) => s = session /\ phase # "stopped"

\* With no heartbeat or tool call in progress the state file has the current session
\* and the name the broker has for it, unless since the last rebind it could not be
\* written or read, the answer to a granted claim was lost, or a claim overlapped the
\* rebind: a rebind brings the file back in step, also with a session that lost its name.
FileTracksSession ==
    phase = "up" /\ heart = "idle" /\ tool.at = "idle" /\ ~outOfStep =>
        /\ file \in Files /\ file.s = session
        /\ Live(session) => file.a = peers[session]

\* A server the broker has evicted comes back with a session of its own (as long as
\* the bound on session ids allows one), unless it was interrupted: then the heartbeat
\* goroutine is gone while the process goes on.
EvictedRebinds ==
    (phase = "up" /\ ~Live(session))
        ~> (phase # "up" \/ interrupted \/ Live(session) \/ issued = Sessions)

\* A message bound to the server's session is shown to the model, by the push loop or
\* by check_messages, unless the session ends, the answer to a check_messages is lost,
\* or an interrupt has ended the push loop.
BoundMailIsShown ==
    \A m \in MsgIds :
        (phase = "up" /\ m \in stored \ delivered /\ toSession[m] = session)
            ~> \/ m \in pushed \cup read \cup swallowed
               \/ phase # "up" \/ interrupted
               \/ toSession[m] # session \/ m \notin stored
=============================================================================
