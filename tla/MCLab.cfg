SPECIFICATION MCLabSpec
CONSTANTS
    Cases <- MCCases
    Suites = {"gate", "replay", "readiness"}
    SampleBound <- MCSampleBound
    GrowthClasses <- MCSampleBound
    ResourceClasses <- MCSampleBound
    MaxContract = 2
    MaxExecutions = 2
    MaxOperations = 2
    Dirs = {1, 2}
    Seeds = 2
    R3 = 1
    R5 = 2
    Significant <- MCSignificant
    MaxIdentity = 2
    MaxBought = 2
    MaxCommands = 4
INVARIANTS
    FaultOwned
    RestoredUnlessDisturbed
    DirectoryConsistent
PROPERTIES
    PassedCleanly
    R3Frozen
CHECK_DEADLOCK FALSE
