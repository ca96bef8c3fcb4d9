SPECIFICATION Spec
CONSTANTS
    Ranks = {r0, r1}
    UseCritic = FALSE
    Backend = "fsdp"
    RemovePrevious = FALSE
    HdfsDir = FALSE
    ResumeModes <- AutoOnly
    TotalSteps = 4
    TotalEpochs = 2
    BatchesPerEpoch = 2
    SaveFreq = 2
    CriticWarmup = 2
    MaxRuns = 2
INVARIANT TrackerIsAtomic
