CONSTANTS
    Caps = {send}
    Clients = {host, c1, c2}
    BrokerHost = host
    MaxTokens = 4
    MaxTime = 3
    RootTTL = 2
    ChildTTLs = {1}
    RefreshTTL = 2
    Leeway = 1
    Grace = 1
    MaxFaults = 1
SPECIFICATION Spec
SYMMETRY Symmetry
INVARIANTS
    TypeOK
    MintedIsAttenuated
    RootChildrenCanRefresh
    GrantedIsUsable
PROPERTY OnlyTimeRevokes
