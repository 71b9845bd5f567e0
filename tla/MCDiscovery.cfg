SPECIFICATION DiscoverySpec
CONSTANTS
    Names = {a, b}
    Endpoints = {eth, wifi}
    Servers = {"central", "other"}
    DefaultServer = "central"
    MaxSources = 2
    MaxResolvers = 2
    MaxRemoved = 1
    MaxPending = 2
    Budget = 3
    BodyBudget = 3
    Signals = 4
    a = a
    b = b
    eth = eth
    wifi = wifi
SYMMETRY Same
INVARIANTS
    ListExact
    CacheCurrent
    
