CONSTANTS
    Sessions = {s1, s2}
    Agents = {a1}
    NoSession = NoSession
    NoAgent = NoAgent
    NoRow = NoRow
    MaxMsgs = 1
    Workers = {w1, w2}
    Calls = {"register", "claim", "send", "poll", "ack", "unregister", "heartbeat", "sweep", "prune", "crash"}
    MaxFaults = 1
SPECIFICATION StepSpec
SYMMETRY Symmetry
VIEW View
INVARIANTS
    TypeOK
    NameUnique
    StrandedOnlyByLateMark
PROPERTY LiveMailDroppedOnlyBySweep
