CONSTANTS
    Others = {o1}
    Threshold = 2
    MaxFleet = 2
    MaxStream = 2
SPECIFICATION FairSpec
INVARIANT TypeOK
PROPERTIES
    MemoryGoesBackOnlyFor
    MemoryCatchesUp
