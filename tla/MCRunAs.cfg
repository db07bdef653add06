CONSTANTS
    Base = 10
    WordBits = 6
    HourLength = 2
    HoursPerDay = 3
    MinTTL = 2
    MaxTTL = 24
    FallbackTTL = 6
    NoHome = NoHome
    Dotted = {"..x"}
    Words <- MCWords
    Starts <- MCStarts
    Dirs <- MCDirs
    Homes <- MCHomes
    Trees <- MCTrees
    Times <- MCTimes
SPECIFICATION Spec
INVARIANT RunNamesTheSession
CHECK_DEADLOCK FALSE
