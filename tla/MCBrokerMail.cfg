CONSTANTS
    Sessions = {s1, s2}
    Agents = {a1}
    NoSession = NoSession
    NoAgent = NoAgent
    NoRow = NoRow
    MaxMsgs = 2
SPECIFICATION FairSpec
PROPERTIES
    KeepsMailPromise
    CrashedHolderReleases
