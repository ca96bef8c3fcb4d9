SPECIFICATION BatchSpec
CONSTANTS
    MaxRows = 5
    MaxLen = 3
    MaxTokenLen = 4
    Executors = {"firejail", "docker", "ces", "kira"}
    Truths = {"functional", "pytest", "io", "other"}
    Tests = {t1, t2}
    PoolSize = 1
    MaxRetry = 2
    MaxOutages = 1
    BatchRows = {i1, i2, i3}
    NumProcesses = 1
    Evaluations = {"returns", "odd", "raises", "exits", "hangs"}
    MaxDeaths = 1
    DpSize = 2
    TpSize = 2
    RowsPerRank = 1
    SamplesPerPrompt = 2
    MaxCalls = 2
INVARIANTS
    EachRowOnce
    WellBalanced
    BatchesPutBack
    RewardIsEarned
    ZerosAreExplained
    RolloutsAreSound
PROPERTIES
    BatchWorkEnds
