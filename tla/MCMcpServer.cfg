CONSTANTS
    Sessions = {s1, s2, s3}
    Agents = {a1}
    NoSession = NoSession
    NoAgent = NoAgent
    NoRow = NoRow
    NoFile = NoFile
    MaxMsgs = 1
SPECIFICATION FairServerSpec
VIEW View
INVARIANTS
    ServerTypeOK
    OneRowWhileRunning
    FileTracksSession
PROPERTIES
    EvictedRebinds
    BoundMailIsShown
CHECK_DEADLOCK FALSE
