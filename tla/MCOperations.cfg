SPECIFICATION OperationsSpec
CONSTANTS
    NumUnits = 2
    Deps <- MCDeps
    MaxInput = 2
    Artifacts = {1, 2}
    MaxAttempts = 2
    PacketSizes = {1, 2, 3, 4, 5}
    SystemSize = 1
    CorrectionSize = 1
    MaxCompletion = 2
    Expansion = 2
    Framing = 0
    Template = 1
    InputLimit = 44
    OutputLimit = 8
    FourTurnLimit = 42
    Labels = {1, 2, 3}
    Kinds = {"activity", "errors", "cpu"}
    SignalKind <- MCSignalKind
    Excesses = {0, 1, 2}
    Endpoints = {"e1", "e2"}
    Machines = {"m1", "stranger"}
    Own = {"m1"}
    ApiKeys = {"bailian"}
    Environments = {1, 2}
    Producers = {1, 2}
    NumPrincipals = 2
    MatrixSize <- MCMatrixSize
    Granted = {1}
    OwnerCells = {1}
    MaxPrograms = 2
    MaxCommands = 3
    NumLabels = 6
    RuleOrder <- MCRuleOrder
    RuleRight <- MCRuleRight
    AnswerLabels = {1, 4}
    Cases = 1
    Repetitions = 1
    Versions = {1, 2}
INVARIANTS
    BudgetHeld
    ScoresSound
    PasswordTrusted
    ScriptRemoved
    ReuseSound
    ProbesBound
    BaselinesSound
PROPERTIES
    FinalizedOnEvidence
CHECK_DEADLOCK FALSE
