SPECIFICATION FairSpec
CONSTANTS
    Ranks = {r0, r1}
    UseCritic = TRUE
    Backend = "fsdp"
    RemovePrevious = FALSE
    HdfsDir = FALSE
    ResumeModes <- AutoOnly
    TotalSteps = 5
    TotalEpochs = 2
    BatchesPerEpoch = 3
    SaveFreq = 2
    CriticWarmup = 2
    MaxRuns = 4
INVARIANTS
    LatestIsComplete
    OnlyTornTrackerRaises
    EveryUpdateOnce
    EveryBatchOnce
    BoundedLoss
    FinalCheckpoint
PROPERTY EveryRunEnds
