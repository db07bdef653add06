CONSTANTS
    Sessions = {s1, s2, s3}
    Agents = {a1, a2}
    NoSession = NoSession
    NoAgent = NoAgent
    NoRow = NoRow
    MaxMsgs = 2
SPECIFICATION Spec
SYMMETRY Symmetry
INVARIANTS
    TypeOK
    BoundToHolder
    QueuedMeansNoHolder
    HandedIsOwned
    OneLiveRecipient
PROPERTIES
    AckIsFinal
    StatusTellsHeldNames
