SPECIFICATION ServicesSpec
CONSTANTS
    Traces = {t1}
    Digests = {d1}
    Automatic <- MCSinks
    Relayed = {}
    Ingests = {h1}
    Loop = loop
    Drains = {w1}
    Relay = relay
    Capacity = 1
    Limit = 2
    MaxFailures = 1
    MaxStoreErrors = 1
    MaxCrashes = 1
    None = None
    Bearers = {c1, c2}
    Calls = {c1}
    Keys = {k1}
    CacheTicks = 2
    FetchTicks = 1
    Candidates <- MCCandidates
    Channels <- MCChannels
    MaxTransientRetries = 1
    MaxRepairs = 1
    ChannelFaults <- MCFaults
    ObservedClasses = {"ad", "email", "kafka", "payment"}
    Polls = 2
    Windows = 1
INVARIANTS
    AcceptedKeyFresh
    NeverStitched
    AttemptsAccounted
    ActiveIsReal
    MeasuresSoundly
PROPERTIES
    DeliveredUnlessEnded
    EveryCallEnds
    ObserverEnds
CHECK_DEADLOCK FALSE
