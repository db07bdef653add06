----------------------------- MODULE MCMcpServer -----------------------------
(* Model-checking instance of McpServer. *)
EXTENDS McpServer

\* The rows the process knows of, and would leave behind if it stopped now.
LeftBehind == {s \in mine \ ghosts : Live(s)}

\* The columns of a row that is gone, the names seen and the histories of Broker
\* decide nothing here.
Columns(m) == <<toAgent[m], toSession[m], m \in delivered, m \in acked>>
Fleet == <<peersTable, [m \in stored |-> Columns(m)], lastId, issued, mine, LeftBehind>>

Goroutines == <<phase, configured, session, heart, returned, pushed>>

\* What the next steps depend on or a property looks at: nothing but its rows once
\* the process has stopped with no rebind under way, and no more of the tools and the
\* state file while it stops. Every fair action changes a part of the view.
View ==
    CASE phase = "stopped" /\ heart = "idle" -> <<phase, LeftBehind>>
      [] phase = "stopped" /\ heart # "idle" -> <<Fleet, Goroutines>>
      [] phase = "stopping" -> <<Fleet, Goroutines>>
      [] OTHER -> <<Fleet, Goroutines, path, file, tool, interrupted, outOfStep,
                    (read \cup swallowed) \ pushed>>
=============================================================================
