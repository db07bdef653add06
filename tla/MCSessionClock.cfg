CONSTANTS
    Base = 2
    FractionDigits = 2
    Configured = 0
    DefaultTimeout = 5
    HeartbeatEvery = 3
    SweepEvery = 1
    MaxDelay = 4
    MaxTime = 48
    MaxMsgs = 2
    MailUntil = 8
SPECIFICATION Spec
INVARIANTS
    TypeOK
    DeadAreSwept
    MailInOrder
PROPERTY OnlyTheSilentAreEvicted
CHECK_DEADLOCK FALSE
