--------------------------- MODULE MCBrokerSteps ---------------------------
(* Model-checking instance of BrokerSteps. *)
EXTENDS BrokerSteps, TLC

\* Sessions, names and workers are interchangeable.
Symmetry == Permutations(Sessions) \cup Permutations(Agents) \cup Permutations(Workers)

\* No statement looks at the columns of a row that is gone.
Columns(m) == <<toAgent[m], toSession[m], m \in delivered, m \in acked, m \in lateMarked>>
View == <<peersTable, [m \in stored |-> Columns(m)], lastId, namesSeen,
          issued, clients, call, sweep, faults, cutOff, spared>>
=============================================================================
