SPECIFICATION FairSpec
CONSTANTS
    Ranks = {r0, r1}
    UseCritic = TRUE
    Backend = "megatron"
    RemovePrevious = TRUE
    HdfsDir = FALSE
    ResumeModes <- AnyMode
    TotalSteps = 3
    TotalEpochs = 1
    BatchesPerEpoch = 3
    SaveFreq = 1
    CriticWarmup = 2
    MaxRuns = 3
INVARIANTS
    EveryUpdateOnce
    LastStepOnDisk
