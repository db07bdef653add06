CONSTANTS
    Sessions = {s1, s2}
    Agents = {a1}
    NoSession = NoSession
    NoAgent = NoAgent
    NoRow = NoRow
    MaxMsgs = 1
    Workers = {w1, w2}
    Calls = {"register"}
    MaxFaults = 0
SPECIFICATION StepSpec
PROPERTY AnsweredNameIsHeld
CHECK_DEADLOCK FALSE
